------------------------------- MODULE ApiKeys -------------------------------
(* API keys and the runtime token of one sandbox: minted and revoked by    *)
(* the controller (pkg/controller/scoped_key.go, runtime_token.go), kept   *)
(* as Secrets (pkg/apikeystore), created and revoked by users              *)
(* (pkg/router/apikey_handlers.go) and validated through a cache in each   *)
(* replica of the Router (pkg/router/auth/apikey.go).                      *)
EXTENDS Naturals, FiniteSets, SequencesExt

CONSTANTS
  UserKeys,     \* keys a user may create
  ScopedKeys,   \* keys the controller may mint
  Replicas,     \* the Router's pods
  Requests,     \* requests that carry a key
  CacheSize,    \* entries of a replica's cache
  TTL,          \* age, in ticks, up to which an entry is used
  MaxTime,      \* the clock stops here
  MaxLives,     \* sandboxes created under the one name
  MaxFaults,
  None

ASSUME KeysAssumption ==
  /\ IsFiniteSet(UserKeys) /\ IsFiniteSet(ScopedKeys) /\ UserKeys \intersect ScopedKeys = {}
  /\ None \notin UserKeys \union ScopedKeys \union Replicas \union Nat
  /\ None \notin [key : ScopedKeys, uid : Nat]  \* nor a Secret, nor an entry of the cache
  /\ None \notin [uid : Nat] /\ None \notin [at : Nat, exp : Nat]
ASSUME CacheAssumption == CacheSize \in Nat \ {0} /\ TTL \in Nat \ {0}
ASSUME BoundsAssumption == MaxTime \in Nat /\ MaxLives \in Nat /\ MaxFaults \in Nat

VARIABLES
  sb,       \* the sandbox: its phase and the uid of the object
  plain,    \* the Secret <name>-scoped-key
  seen,     \* whether the controller's cache holds it: it may lag
  token,    \* the Secret <name>-runtime-token
  pod,      \* what the environment of the pod holds
  mint,     \* the reconcile that creates them
  minted,   \* keys generated so far
  recs,     \* the store: for each key with a record, when it expires
  gone,     \* for each key whose record was deleted, when
  cache,    \* per replica: LRUCache
  val,      \* per request: ValidateKey
  revoke,   \* per replica: handleRevokeAPIKey
  evicted,  \* keys and replicas: evicted there since the record was deleted, with
            \* no validation there that had read it
  quiet,    \* no fault so far, and no sandbox recreated before its Secrets went
  faults, now

sandboxVars == <<sb, plain, seen, token, pod, mint, minted>>
routerVars == <<cache, val, revoke, evicted>>
vars == <<sandboxVars, recs, gone, routerVars, quiet, faults, now>>

Keys == UserKeys \union ScopedKeys
Times == 0..MaxTime
Never == MaxTime + 1
Expired(e) == now > e

\* APIKeyRecord; a Secret of the sandbox, owned by the object with that uid.
Record == Times \union {Never}
Secret == [key : ScopedKeys, uid : 1..MaxLives] \union {None}
Token == [uid : 1..MaxLives] \union {None}

Entry == [at : Times, exp : Record]
Validation ==
  [pc : {"idle", "lookup", "put", "ok", "denied", "off"}, key : Keys \union {None},
   at : Replicas \union {None}, exp : Record, time : Times]
NewValidation == [pc |-> "idle", key |-> None, at |-> None, exp |-> Never, time |-> 0]

Init ==
  /\ \E n \in 0..MaxLives : sb = [phase |-> "none", uid |-> n]
  /\ plain = None /\ seen = FALSE /\ token = None
  /\ pod = [key |-> None, token |-> None]
  /\ mint = [pc |-> "idle", key |-> None, fresh |-> FALSE]
  /\ minted = {}
  /\ recs = [k \in Keys |-> None] /\ gone = [k \in Keys |-> None]
  /\ cache = [r \in Replicas |-> [items |-> [k \in Keys |-> None], order |-> <<>>]]
  /\ val \in [Requests -> {NewValidation, [NewValidation EXCEPT !.pc = "off"]}]
  /\ revoke = [r \in Replicas |-> [pc |-> "idle", key |-> None]]
  /\ evicted = {} /\ quiet = TRUE /\ faults = 0 /\ now = 0

-----------------------------------------------------------------------------
(* apikeystore.Store.                                                      *)

Stored(k) == recs[k] # None

\* Store.Create
Store(k, e) ==
  /\ recs' = [recs EXCEPT ![k] = e]
  /\ gone' = [gone EXCEPT ![k] = None]

\* Store.Delete
Unstore(k) ==
  /\ recs' = [recs EXCEPT ![k] = None]
  /\ gone' = [gone EXCEPT ![k] = now]
  /\ evicted' = evicted \ ({k} \X Replicas)

-----------------------------------------------------------------------------
(* The controller: handleCreating of a sandbox with HTTP exec, and         *)
(* reconcileDelete.                                                        *)

CreateSandbox ==
  /\ sb.phase = "none" /\ sb.uid < MaxLives
  /\ sb' = [phase |-> "creating", uid |-> sb.uid + 1]
  /\ quiet' = (quiet /\ plain = None /\ token = None)
  /\ UNCHANGED <<plain, seen, token, pod, mint, minted, recs, gone, routerVars, faults, now>>

\* ensureRuntimeTokenSecret: an existing token is kept, whosever it is. A token
\* is told apart by the object that owned its Secret.
EnsureToken ==
  /\ sb.phase = "creating" /\ mint.pc = "idle"
  /\ mint' = [mint EXCEPT !.pc = "key"]
  /\ token' = IF token = None THEN [uid |-> sb.uid] ELSE token
  /\ UNCHANGED <<sb, plain, seen, pod, minted, recs, gone, routerVars, quiet, faults, now>>

\* ensureSandboxAPIKeySecret reads the Secret through the cache: it reuses the
\* key, or generates one.
ReadKey ==
  /\ mint.pc = "key"
  /\ \/ /\ plain # None /\ seen
        /\ mint' = [pc |-> "record", key |-> plain.key, fresh |-> FALSE]
        /\ UNCHANGED minted
     \/ /\ plain = None \/ ~seen
        /\ \E k \in ScopedKeys \ minted :
             /\ mint' = [pc |-> "record", key |-> k, fresh |-> TRUE]
             /\ minted' = minted \union {k}
  /\ quiet' = (quiet /\ (plain # None => seen))
  /\ UNCHANGED <<sb, plain, seen, token, pod, recs, gone, routerVars, faults, now>>

EnsureRecordIgnoresError ==
  /\ mint.pc = "record"
  /\ mint' = [mint EXCEPT !.pc = IF mint.fresh THEN "secret" ELSE "ready"]
  /\ \/ Stored(mint.key) /\ UNCHANGED <<recs, gone, faults, quiet>>
     \/ ~Stored(mint.key) /\ Store(mint.key, Never) /\ UNCHANGED <<faults, quiet>>
     \/ /\ faults < MaxFaults /\ faults' = faults + 1
        /\ quiet' = FALSE /\ UNCHANGED <<recs, gone>>
  /\ UNCHANGED <<sb, plain, seen, token, pod, minted, routerVars, now>>

\* ensureHashedScopedKeyRecord; when it fails the sandbox goes to Error, from
\* where it is created again.
EnsureRecord ==
  /\ mint.pc = "record"
  /\ \/ /\ Stored(mint.key) /\ UNCHANGED <<recs, gone, faults, quiet>>
        /\ mint' = [mint EXCEPT !.pc = IF mint.fresh THEN "secret" ELSE "ready"]
     \/ /\ ~Stored(mint.key) /\ Store(mint.key, Never) /\ UNCHANGED <<faults, quiet>>
        /\ mint' = [mint EXCEPT !.pc = IF mint.fresh THEN "secret" ELSE "ready"]
     \/ /\ faults < MaxFaults /\ faults' = faults + 1
        /\ mint' = [mint EXCEPT !.pc = "idle"]
        /\ quiet' = FALSE /\ UNCHANGED <<recs, gone>>
  /\ UNCHANGED <<sb, plain, seen, token, pod, minted, routerVars, now>>

\* The Secret is created, or found to exist and kept.
WriteSecret ==
  /\ mint.pc = "secret"
  /\ plain' = IF plain = None THEN [key |-> mint.key, uid |-> sb.uid] ELSE plain
  /\ seen' = (seen /\ plain # None)
  /\ mint' = [mint EXCEPT !.pc = "ready"]
  /\ UNCHANGED <<sb, token, pod, minted, recs, gone, routerVars, quiet, faults, now>>

\* The pod is created and its container starts, with both Secrets' values.
StartPod ==
  /\ mint.pc = "ready" /\ sb.phase = "creating"
  /\ plain # None /\ token # None
  /\ pod' = [key |-> plain.key, token |-> token]
  /\ sb' = [sb EXCEPT !.phase = "running"]
  /\ mint' = [pc |-> "idle", key |-> None, fresh |-> FALSE]
  /\ UNCHANGED <<plain, seen, token, minted, recs, gone, routerVars, quiet, faults, now>>

\* The controller stops before the reconcile is done, or an update fails: it is
\* done again.
Crash ==
  /\ mint.pc # "idle" /\ faults < MaxFaults
  /\ faults' = faults + 1 /\ quiet' = FALSE
  /\ mint' = [pc |-> "idle", key |-> None, fresh |-> FALSE]
  /\ UNCHANGED <<sb, plain, seen, token, pod, minted, recs, gone, routerVars, now>>

\* The pod is stopped and created again.
Resume ==
  /\ sb.phase = "running"
  /\ sb' = [sb EXCEPT !.phase = "creating"]
  /\ pod' = [key |-> None, token |-> None]
  /\ UNCHANGED <<plain, seen, token, mint, minted, recs, gone, routerVars, quiet, faults, now>>

Delete ==
  /\ sb.phase \in {"creating", "running"} /\ mint.pc = "idle"
  /\ sb' = [sb EXCEPT !.phase = "deleting"]
  /\ pod' = [key |-> None, token |-> None]
  /\ UNCHANGED <<plain, seen, token, mint, minted, recs, gone, routerVars, quiet, faults, now>>

\* revokeSandboxAPIKey, and the finalizer is removed; when the deletion of the
\* record fails, it is tried again.
Finalize ==
  /\ sb.phase = "deleting"
  /\ sb' = [sb EXCEPT !.phase = "none"]
  /\ quiet' = (quiet /\ (plain # None => seen))
  /\ IF plain # None /\ seen /\ Stored(plain.key)
     THEN Unstore(plain.key)
     ELSE UNCHANGED <<recs, gone, evicted>>
  /\ UNCHANGED <<plain, seen, token, pod, mint, minted, cache, val, revoke, faults, now>>

Sync ==
  /\ plain # None /\ ~seen /\ seen' = TRUE
  /\ UNCHANGED <<sb, plain, token, pod, mint, minted, recs, gone, routerVars, quiet, faults, now>>

Owned(s) == s # None /\ sb.phase # "none" /\ s.uid = sb.uid

\* The garbage collector takes the Secrets of an object that is gone.
Collect ==
  /\ \/ plain # None /\ ~Owned(plain) /\ plain' = None /\ seen' = FALSE /\ UNCHANGED token
     \/ token # None /\ ~Owned(token) /\ token' = None /\ UNCHANGED <<plain, seen>>
  /\ UNCHANGED <<sb, pod, mint, minted, recs, gone, routerVars, quiet, faults, now>>

-----------------------------------------------------------------------------
(* The Router: handlers of the keys, and ValidateKey with its cache.       *)

\* handleCreateAPIKey
CreateKey(k, e) ==
  /\ k \in UserKeys /\ ~Stored(k) /\ gone[k] = None
  /\ e > now /\ Store(k, e)
  /\ UNCHANGED <<sandboxVars, routerVars, quiet, faults, now>>

\* LRUCache: Get does not touch the order, so the oldest entry goes first.
CacheRemove(c, k) ==
  [c EXCEPT !.items[k] = None, !.order = RemoveFirst(@, k)]

EvictOldest(c) ==
  IF Cardinality({k \in Keys : c.items[k] # None}) >= CacheSize /\ c.order # <<>>
  THEN [c EXCEPT !.items[Head(c.order)] = None, !.order = Tail(@)]
  ELSE c
CachePut(c, k, entry) ==
  IF c.items[k] # None THEN [c EXCEPT !.items[k] = entry]
  ELSE [EvictOldest(c) EXCEPT !.items[k] = entry, !.order = Append(@, k)]

Answer(v, pc) == [val EXCEPT ![v].pc = pc, ![v].time = now]

KeyExpired(e) == Expired(e.exp)

AgedLate(e) == now - e.at > TTL
Aged(e) == now - e.at >= TTL

\* The cache decides, or the store has to be asked.
Hit(v, k, r) ==
  LET e == cache[r].items[k]
      to(pc) == val' = [val EXCEPT ![v] = [NewValidation EXCEPT !.pc = pc, !.key = k,
                                             !.at = r, !.time = now]]
      removed == cache' = [cache EXCEPT ![r] = CacheRemove(@, k)] IN
  \/ e = None /\ to("lookup") /\ UNCHANGED cache
  \/ e # None /\ KeyExpired(e) /\ to("denied") /\ removed
  \/ e # None /\ ~KeyExpired(e) /\ ~Aged(e) /\ to("ok") /\ UNCHANGED cache
  \/ e # None /\ ~KeyExpired(e) /\ Aged(e) /\ to("lookup") /\ removed

Validate(v, k, r) ==
  /\ val[v].pc = "idle"
  /\ Hit(v, k, r)
  /\ UNCHANGED <<sandboxVars, recs, gone, revoke, evicted, quiet, faults, now>>

\* GetAPIKeyByHash, and the expiry of the record.
Lookup(v) ==
  /\ val[v].pc = "lookup"
  /\ LET k == val[v].key IN
       \/ Stored(k) /\ ~Expired(recs[k])
            /\ val' = [val EXCEPT ![v].pc = "put", ![v].exp = recs[k]]
       \/ Stored(k) /\ Expired(recs[k]) /\ val' = Answer(v, "denied")
       \/ ~Stored(k) /\ val' = Answer(v, "denied")
  /\ UNCHANGED <<sandboxVars, recs, gone, cache, revoke, evicted, quiet, faults, now>>

\* The claims are cached and the request goes on.
Fill(v) ==
  /\ val[v].pc = "put"
  /\ cache' = [cache EXCEPT ![val[v].at] =
                 CachePut(@, val[v].key, [at |-> now, exp |-> val[v].exp])]
  /\ val' = Answer(v, "ok")
  /\ UNCHANGED <<sandboxVars, recs, gone, revoke, evicted, quiet, faults, now>>

Answered(v) ==
  /\ val[v].pc \in {"ok", "denied"}
  /\ val' = [val EXCEPT ![v] = NewValidation]
  /\ UNCHANGED <<sandboxVars, recs, gone, cache, revoke, evicted, quiet, faults, now>>

\* A validation that read the record of k and has yet to cache it.
Filling(k, r) == \E v \in Requests : val[v].pc = "put" /\ val[v].key = k /\ val[v].at = r
Evicted(k, r) == IF Filling(k, r) THEN evicted ELSE evicted \union {<<k, r>>}

\* handleRevokeAPIKey deletes the record ...
RevokeKey(k, r) ==
  /\ revoke[r].pc = "idle" /\ Stored(k)
  /\ Unstore(k)
  /\ revoke' = [revoke EXCEPT ![r] = [pc |-> "evict", key |-> k]]
  /\ UNCHANGED cache

\* ... and evicts the key from the cache of its own replica.
InvalidateHash(r) ==
  /\ revoke[r].pc = "evict"
  /\ cache' = [cache EXCEPT ![r] = CacheRemove(@, revoke[r].key)]
  /\ evicted' = Evicted(revoke[r].key, r)
  /\ revoke' = [revoke EXCEPT ![r] = [pc |-> "idle", key |-> None]]
  /\ UNCHANGED <<recs, gone>>

Revoking(r) == (\E k \in Keys : RevokeKey(k, r)) \/ InvalidateHash(r)

Revoke(r) ==
  /\ Revoking(r)
  /\ UNCHANGED <<sandboxVars, val, quiet, faults, now>>

\* Time passes; one tick is longer than a lookup takes.
Tick ==
  /\ now < MaxTime /\ \A v \in Requests : val[v].pc \notin {"lookup", "put"}
  /\ now' = now + 1
  /\ UNCHANGED <<sandboxVars, recs, gone, routerVars, quiet, faults>>

-----------------------------------------------------------------------------
Controller ==
  \/ EnsureToken \/ ReadKey \/ EnsureRecord \/ WriteSecret \/ StartPod
  \/ Crash \/ Finalize
Cluster == CreateSandbox \/ Resume \/ Delete \/ Sync \/ Collect
Router ==
  \/ \E k \in UserKeys, e \in Record : CreateKey(k, e)
  \/ \E v \in Requests : \/ \E k \in Keys, r \in Replicas : Validate(v, k, r)
                         \/ Lookup(v) \/ Fill(v) \/ Answered(v)
  \/ \E r \in Replicas : Revoke(r)

Next == Controller \/ Cluster \/ Router \/ Tick

Spec == Init /\ [][Next]_vars

-----------------------------------------------------------------------------
(* Properties.                                                             *)

\* The variables have their types, and a cache holds as many entries as it may,
\* each once in its order (LRUCache.Put and Remove keep items and order in step).
TypeOK ==
  /\ sb \in [phase : {"none", "creating", "running", "deleting"}, uid : 0..MaxLives]
  /\ plain \in Secret /\ token \in Token /\ seen \in BOOLEAN
  /\ pod \in [key : ScopedKeys \union {None}, token : Token]
  /\ mint \in [pc : {"idle", "key", "record", "secret", "ready"},
               key : ScopedKeys \union {None}, fresh : BOOLEAN]
  /\ minted \subseteq ScopedKeys
  /\ recs \in [Keys -> Record \union {None}] /\ gone \in [Keys -> Times \union {None}]
  /\ val \in [Requests -> Validation]
  /\ revoke \in [Replicas -> [pc : {"idle", "evict"}, key : Keys \union {None}]]
  /\ evicted \subseteq Keys \X Replicas
  /\ quiet \in BOOLEAN /\ faults \in 0..MaxFaults /\ now \in Times
  /\ cache \in [Replicas -> [items : [Keys -> Entry \union {None}], order : Seq(Keys)]]
  /\ \A r \in Replicas : LET c == cache[r] IN
       /\ Len(c.order) <= CacheSize /\ IsInjective(c.order)
       /\ ToSet(c.order) = {k \in Keys : c.items[k] # None}

\* The key in a pod's environment has a record, whatever fails between the two
\* Secrets and whichever reconcile wrote which, until somebody deletes it
\* (scoped_key.go, "Write the hashed record FIRST").
MountedKeyWorks ==
  pod.key # None => Stored(pod.key) \/ gone[pod.key] # None

\* A sandbox deleted without a crash or a stale read leaves no record behind,
\* however often it was stopped and resumed (revokeSandboxAPIKey).
QuietLeavesNothing ==
  quiet /\ sb.phase = "none" => \A k \in ScopedKeys : ~Stored(k)

\* The records of scoped keys follow the sandboxes they are for.
KeysFollowSandbox == MountedKeyWorks /\ QuietLeavesNothing

\* A key whose record is deleted is refused once the entries made before have
\* aged, on every replica, and an expired one at once (ValidateKey).
StaleIsBounded ==
  \A v \in Requests : val[v].pc = "ok" =>
    LET k == val[v].key IN
      gone[k] # None => val[v].time < gone[k] + TTL

\* A key is never accepted after its own expiry, cached or not (ValidateKey,
\* "Re-check the key's own expiry on every hit").
ExpiredIsRefused ==
  \A v \in Requests : val[v].pc = "ok" /\ Stored(val[v].key) =>
    val[v].time <= recs[val[v].key]

\* A key evicted after its record was deleted does not come back into the cache
\* of a replica where no validation had read that record before
\* (handleRevokeAPIKey, InvalidateHash).
EvictedStaysOut ==
  \A k \in Keys, r \in Replicas :
    <<k, r>> \in evicted /\ ~Stored(k) => cache[r].items[k] = None

\* What a replica accepts is as fresh as its cache promises, and
\* the cache keeps its order (ValidateKey, LRUCache).
AcceptedKeysAreFresh == TypeOK /\ StaleIsBounded /\ ExpiredIsRefused /\ EvictedStaysOut

\* "it never mints a second valid record" for a sandbox (scoped_key.go,
\* ensureSandboxAPIKeySecret): a second valid key is never minted.
OneKeyPerSandbox == Cardinality({k \in ScopedKeys : Stored(k)}) <= 1

\* "so a revoked key stops authenticating immediately" (apikey_handlers.go).
RevokedAtOnce ==
  \A v \in Requests, r \in Replicas :
    val[v].pc = "ok" /\ val[v].at = r /\ val[v].key \in {k \in Keys : gone[k] # None}
      => val[v].time = gone[val[v].key]
=============================================================================
