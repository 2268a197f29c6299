----------------------------- MODULE MCRouter -----------------------------
(* Instances of what each request to the Router passes through, for TLC:   *)
(* the keys of ApiKeys and the buckets of RateLimits, each on its own.     *)
EXTENDS ApiKeys, RateLimits

CONSTANT Busy  \* the replica that serves the requests

allVars == <<vars, limiterVars>>

Limiting == \E c \in Clients : calls[c].pc # "off"

\* The controller's side of the keys alone, with the deletion of records by
\* users; the Router's with no sandbox; or the rate limiter.
MCInit ==
  /\ Init /\ LimiterInit
  /\ \/ ~Limiting /\ sb.uid = 0 /\ \A v \in Requests : val[v].pc = "off"
     \/ ~Limiting /\ sb.uid = MaxLives /\ \A v \in Requests : val[v].pc # "off"
     \/ (\A c \in Clients : calls[c].pc # "off") /\ sb.uid = 0 /\ \A v \in Requests : val[v].pc = "off"

KeysNext ==
  /\ Next
  /\ \A k \in minted' \ minted : k = CHOOSE j \in ScopedKeys \ minted : TRUE  \* keys are alike
  /\ \A k \in UserKeys : Stored(k)' => recs'[k] \in {MaxTime - 1, Never}
  /\ \A v \in Requests : val'[v].at \in {Busy, None}
  /\ IF \E v \in Requests : val[v].pc = "off"
     THEN now' = now /\ \A k \in UserKeys : ~Stored(k)'
     ELSE \A v \in Requests : val'[v].key \in UserKeys \union {None}

MCNext ==
  \/ ~Limiting /\ KeysNext /\ UNCHANGED limiterVars
  \/ Limiting /\ LimiterNext /\ UNCHANGED vars

MCSpec == MCInit /\ [][MCNext]_allVars

Symmetry ==
  Permutations(Requests) \union Permutations(UserKeys) \union Permutations(Clients)
=============================================================================
