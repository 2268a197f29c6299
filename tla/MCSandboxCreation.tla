------------------------- MODULE MCSandboxCreation -------------------------
(* Instances of SandboxCreation for TLC.                                   *)
EXTENDS SandboxCreation, TLC

CONSTANTS u1, u2, n1, n2, n3, coder, agent, approved, other

Nothing == [l \in Limits |-> None]
Plain(n) == [name |-> n, valid |-> TRUE, template |-> coder, mode |-> "code", image |-> None, asked |-> Nothing]
Agent(n) == [Plain(n) EXCEPT !.template = agent, !.mode = "agent", !.image = other]
Order(kind, user, items) == [kind |-> kind, user |-> user, source |-> None, items |-> items]
From(kind, n) == [kind |-> kind, user |-> u1, source |-> n1, items |-> <<Plain(n)>>]

MCOrders ==
  {Order("create", u1, <<Plain(n2)>>), Order("create", u2, <<[Plain(n2) EXCEPT !.asked["timeout"] = 0]>>),
   Order("bulk", u1, <<Plain(n2), Plain(n3)>>),
   Order("bulk", u1, <<[Plain(n2) EXCEPT !.valid = FALSE], [Agent(n3) EXCEPT !.image = None]>>),
   Order("apply", u2, <<Agent(n3)>>),
   From("clone", n2), From("restore", n2), From("backup", n1)}

Total == [NoPolicy EXCEPT !.total = 2]
PerUser == [NoPolicy EXCEPT !.perUser = 1, !.agents = 1, !.agentImages = {approved},
                            !.limits["timeout"] = 1, !.registries = {approved}]
MCPolicies == {Total, PerUser}

First == [owner |-> u1, template |-> coder, mode |-> "code", image |-> None, asked |-> Nothing,
          snapshot |-> None, label |-> "none", phase |-> "Running"]

\* The writers of policies alone; the quotas without the backups; or the
\* backups without policies; always with one running sandbox.
MCInit ==
  /\ now = 0 /\ faults = 0 /\ snaps = {} /\ dying = {} /\ erased = {}
  /\ ledger = [d \in Quotas |-> [cap |-> 0, unseen |-> 0]]
  /\ \E part \in {"policies", "quotas", "backups"}, q \in {PerUser, NoPolicy}, k \in {"pool", "built"} :
       /\ store = IF part = "quotas"
                  THEN [rv |-> 1, policies |-> [s \in Scopes |-> IF s = "cluster" THEN Total ELSE q]]
                  ELSE [rv |-> IF part = "policies" /\ q = NoPolicy THEN 0 ELSE 1, policies |-> [s \in Scopes |-> NoPolicy]]
       /\ editors = [e \in Editors |-> [IdleEditor EXCEPT !.pc = IF part = "policies" THEN "idle" ELSE "off"]]
       /\ requests = [r \in Requests |-> [NewRequest EXCEPT !.pc = IF part = "policies" THEN "off" ELSE "idle"]]
       /\ hook \in IF part = "quotas" THEN BOOLEAN ELSE {FALSE}
       /\ warm \in IF part = "backups" THEN 0..MaxWarm ELSE {0}
       /\ backup = [NewScheduler EXCEPT !.pc = IF part = "backups" THEN "idle" ELSE "off"]
       /\ sandboxes = [n \in Names |-> IF n = n1 THEN First ELSE None]
       /\ vols = [n \in Names |-> IF n = n1 THEN [kind |-> k, content |-> "blank", born |-> 0] ELSE NoVolume]
       /\ cache = [sandboxes |-> sandboxes, policies |-> store.policies]

\* Users act while the first backups expire, and failures come before that.
Backups ==
  /\ faults' = 0 \/ \A r \in Requests : requests'[r].pc = "idle"
  /\ \A n \in Names : Phase(n)' # "Error"
  /\ Phase(n3)' = "none" /\ Cardinality(erased') <= 1
  /\ now # Interval => /\ erased' = erased
                       /\ \A n \in Names : Phase(n)' = "Deleting" => Phase(n) = "Deleting"
                       /\ \A r \in Requests : requests'[r].pc = "idle" <=> requests[r].pc = "idle"
  /\ backup.pc = "idle" /\ now # 1 => ~(backup'.due /\ now' = now)
  /\ (\E s \in dying : ENABLED Expire(s)) => dying' # dying

MCNext ==
  /\ Next
  /\ hook \/ cache' = cache
  /\ IF \E e \in Editors : editors[e].pc # "off" THEN UNCHANGED <<sandboxes, vols>>
     ELSE IF backup.pc = "off"
     THEN /\ \A n \in Names \ {n1} : vols'[n] = vols[n] /\ Phase(n)' \in {"none", "New"}
          /\ \A r \in Requests : requests'[r].kind \notin {"backup", "restore"}
     ELSE /\ \A r \in Requests : requests'[r].kind \in {"clone", "backup", "restore"} \/ requests'[r].pc = "idle"
          /\ Backups

MCSpec == MCInit /\ [][MCNext]_vars

Symmetry == Permutations(Requests) \union Permutations(Editors)
=============================================================================
