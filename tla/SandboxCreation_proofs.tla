----------------------- MODULE SandboxCreation_proofs -----------------------
(***************************************************************************)
(* Proofs about SandboxCreation, for any number of sandboxes, requests,    *)
(* policies and editors: two administrators who change the policies of two *)
(* scopes do not undo one another, a snapshot is kept as long as something *)
(* needs it, the webhook lets nothing over a quota that it can see, and a  *)
(* quota is exceeded by no more than its last check could not see.         *)
(***************************************************************************)
EXTENDS SandboxCreation, Sums, FiniteSetTheorems, TLAPS

ScopeMap == [Scopes -> Policy]
Stages == {"off", "idle", "save", "reload", "update", "done"}
EditorType ==
  /\ store \in [rv : Nat, policies : ScopeMap]
  /\ editors \in [Editors -> [pc : Stages, scope : Scopes, policy : Policy, map : ScopeMap, rv : Nat]]

\* The version an editor read is not from the future, and what it is about to
\* write at the version it read differs from the store in its scope alone.
Faithful ==
  \A e \in Editors :
    /\ editors[e].pc # "idle" => editors[e].rv <= store.rv
    /\ editors[e].pc = "save" /\ editors[e].rv = store.rv =>
         \A s \in Scopes \ {editors[e].scope} : editors[e].map[s] = store.policies[s]

StoreInv == EditorType /\ Faithful

\* No policy at all is a policy.
LEMMA NoPolicyIsPolicy == NoPolicy \in Policy
BY DEF NoPolicy, Policy, Limits

\* Every path of an edit keeps the invariant: a write raises the version above
\* what any other editor read.
LEMMA EditStep == ASSUME StoreInv, NEW e \in Editors, Load(e) \/ Save(e) \/ Reload(e) \/ Update(e)
                  PROVE StoreInv'
<1> USE DEF StoreInv
<1>p. Put(e) => /\ store' \in [rv : Nat, policies : ScopeMap]
                /\ store'.rv = store.rv + 1
  BY DEF Put, EditorType, Stages
<1>1. CASE Load(e)
  <2>1. PICK s \in Scopes, p \in Policies \union {NoPolicy} :
          editors' = [editors EXCEPT ![e] =
            [pc |-> "save", scope |-> s, policy |-> p, map |-> Edited(s, p), rv |-> store.rv]]
    BY <1>1 DEF Load
  <2>2. store' = store
    BY <1>1 DEF Load
  <2>3. p \in Policy
    BY NoPolicyIsPolicy, OrdersAssumption
  <2>4. Edited(s, p) \in ScopeMap /\ \A t \in Scopes \ {s} : Edited(s, p)[t] = store.policies[t]
    BY <2>3 DEF Edited, EditorType, ScopeMap
  <2>5. EditorType'
    BY <2>1, <2>2, <2>3, <2>4 DEF EditorType, Stages
  <2>6. Faithful'
    BY <2>1, <2>2, <2>4 DEF EditorType, Faithful
  <2> QED BY <2>5, <2>6
<1>2. CASE Save(e) \/ Reload(e) \/ Update(e)
  <2>1. /\ \E pc \in {"reload", "update", "done"} : \E v \in {editors[e].rv, store.rv} :
             editors' = [editors EXCEPT ![e].pc = pc, ![e].rv = v]
        /\ editors[e].pc \in {"save", "reload", "update"}
        /\ store' = store \/ (Put(e) /\ editors'[e].pc = "done")
    <3>1. editors[e] = [editors[e] EXCEPT !.rv = editors[e].rv]
      BY DEF EditorType
    <3>2. [editors EXCEPT ![e].pc = "done"] = [editors EXCEPT ![e].pc = "done", ![e].rv = editors[e].rv]
      BY DEF EditorType
    <3>3. [editors EXCEPT ![e].pc = "reload"] = [editors EXCEPT ![e].pc = "reload", ![e].rv = editors[e].rv]
      BY DEF EditorType
    <3>4. CASE Save(e)
      BY <3>2, <3>3, <3>4 DEF Save, EditorType
    <3>5. CASE Reload(e)
      BY <3>5 DEF Reload, EditorType
    <3>6. CASE Update(e)
      BY <3>2, <3>6 DEF Update, EditorType
    <3> QED BY <1>2, <3>4, <3>5, <3>6
  <2>2. PICK pc \in {"reload", "update", "done"}, v \in {editors[e].rv, store.rv} :
          editors' = [editors EXCEPT ![e].pc = pc, ![e].rv = v]
    BY <2>1
  <2>3. v \in Nat /\ v <= store.rv
    BY <2>1, <2>2 DEF EditorType, Faithful
  <2>4. EditorType'
    <3>1. [editors[e] EXCEPT !.pc = pc, !.rv = v] \in [pc : Stages, scope : Scopes, policy : Policy, map : ScopeMap, rv : Nat]
      BY <2>2, <2>3 DEF EditorType, Stages
    <3>2. editors' = [editors EXCEPT ![e] = [editors[e] EXCEPT !.pc = pc, !.rv = v]]
      BY <2>2 DEF EditorType
    <3>3. store' \in [rv : Nat, policies : ScopeMap]
      BY <2>1, <1>p DEF EditorType
    <3> QED BY <3>1, <3>2, <3>3 DEF EditorType
  <2>5. Faithful'
    <3> SUFFICES ASSUME NEW f \in Editors
                 PROVE /\ editors'[f].pc # "idle" => editors'[f].rv <= store'.rv
                       /\ editors'[f].pc = "save" /\ editors'[f].rv = store'.rv =>
                            \A s \in Scopes \ {editors'[f].scope} : editors'[f].map[s] = store'.policies[s]
      BY DEF Faithful
    <3>1. CASE f = e
      BY <3>1, <2>1, <2>2, <2>3, <1>p DEF EditorType
    <3>2. CASE f # e
      <4>1. editors'[f] = editors[f]
        BY <3>2, <2>2 DEF EditorType
      <4>2. editors[f].rv \in Nat /\ store.rv \in Nat /\ (editors[f].pc # "idle" => editors[f].rv <= store.rv)
        BY DEF EditorType, Faithful
      <4>3. CASE store' = store
        BY <4>1, <4>3 DEF Faithful
      <4>4. CASE store'.rv = store.rv + 1
        BY <4>1, <4>2, <4>4
      <4> QED BY <4>3, <4>4, <2>1, <1>p
    <3> QED BY <3>1, <3>2
  <2> QED BY <2>4, <2>5
<1> QED BY <1>1, <1>2

\* Nothing else touches the ConfigMap.
LEMMA StoreInvStep == StoreInv /\ [Next]_vars => StoreInv'
<1> SUFFICES ASSUME StoreInv, [Next]_vars PROVE StoreInv'
  OBVIOUS
<1>1. CASE \E e \in Editors : Edit(e)
  BY <1>1, EditStep DEF Edit
<1>2. CASE UNCHANGED policyVars
  BY <1>2 DEF StoreInv, EditorType, Faithful, policyVars
<1> QED
  BY <1>1, <1>2 DEF Next, Route, Control, Sync, Schedule, Tick, vars, policyVars

LEMMA StoreInvInit == Init => StoreInv
BY NoPolicyIsPolicy DEF Init, StoreInv, EditorType, Faithful, IdleEditor, ScopeMap, Stages, Scopes

\* A write whose editor found the ConfigMap changes one scope, whatever other
\* editors wrote in between: SetPolicy and DeletePolicy send the version they
\* read (policy.go:202).
THEOREM PolicyWritesKeepOthers == Spec => WritersKeepOthers
<1>1. StoreInv /\ [Next]_vars =>
        [\A e \in Editors : editors[e].pc = "save" /\ editors[e].rv # 0 /\ editors'[e].pc = "done" /\ store' # store
           => \A s \in Scopes \ {editors[e].scope} : store'.policies[s] = store.policies[s]]_vars
  <2> SUFFICES ASSUME StoreInv, [Next]_vars, NEW e \in Editors,
                      editors[e].pc = "save", editors'[e].pc = "done", store' # store,
                      NEW s \in Scopes \ {editors[e].scope}
               PROVE store'.policies[s] = store.policies[s]
    OBVIOUS
  <2>1. PICK f \in Editors : Edit(f)
    BY DEF Next, Route, Control, Sync, Schedule, Tick, vars, policyVars
  <2>2. f = e
    BY <2>1 DEF Edit, Load, Save, Reload, Update, StoreInv, EditorType
  <2>3. Put(e) /\ editors[e].rv = store.rv
    BY <2>1, <2>2 DEF Edit, Load, Save, Reload, Update
  <2> QED BY <2>3 DEF Put, StoreInv, EditorType, Faithful
<1>2. Spec => []StoreInv
  BY StoreInvInit, StoreInvStep, PTL DEF Spec
<1> QED BY <1>1, <1>2, PTL DEF Spec, WritersKeepOthers
-----------------------------------------------------------------------------
(* Types, and where a request can be.                                      *)

Stations == {"off", "idle", "snapshot", "lookup", "cluster", "namespace", "list", "create", "cleanup", "done"}
Usage == [total : Nat, user : Nat, agents : Nat]
Kinds == {"create", "bulk", "clone", "restore", "backup", "apply"}
RequestType ==
  [pc : Stations, kind : Kinds, user : Users \union {None}, source : Names \union {None}, items : Seq(Item),
   next : Nat, policy : Policy, used : Usage, snap : Snapshot \union {None}]
BackupType ==
  [pc : {"off", "idle", "snapshot", "prune"}, todo : SUBSET (Names \union Snapshot), due : BOOLEAN, next : Nat]

\* A request that was received has a user and, until it creates, its first item
\* before it; only a clone cleans up, and what it cleans up is its own snapshot.
Ready(r, q) ==
  /\ q.pc \notin {"off", "idle"} => q.user \in Users
  /\ q.pc \in {"idle", "snapshot", "lookup", "cluster", "namespace", "list"} => q.next = 1
  /\ q.pc \in {"lookup", "cluster", "namespace", "list"} \/ (q.pc = "snapshot" /\ q.kind = "clone") => q.items # <<>>
  /\ q.pc \in {"lookup", "cluster", "namespace", "list"} => q.kind # "clone"
  /\ q.pc = "create" => q.next \in DOMAIN q.items
  /\ q.pc = "snapshot" => q.source \in Names
  /\ q.pc = "cleanup" => q.kind = "clone"
  /\ q.kind = "clone" /\ q.pc \in {"create", "cleanup"} => q.snap \in Snapshot /\ q.snap.kind = "clone" /\ q.snap.by = r

RequestsOk == requests \in [Requests -> RequestType] /\ \A r \in Requests : Ready(r, requests[r])
TypeInv == TypeOK /\ RequestsOk /\ backup \in BackupType

-----------------------------------------------------------------------------
(* What keeps the snapshots.                                               *)

\* A pass is due, or under way.
Pending == backup.pc # "idle" \/ backup.due

\* A pass takes the time at which the ticker asked for it; the next one is an
\* interval later.
PassesInTime ==
  backup.pc # "off" =>
    IF Pending THEN backup.next = now + Interval ELSE now < backup.next /\ backup.next <= now + Interval

\* What a pass has still to do.
PassOk ==
  /\ backup.pc = "snapshot" => backup.todo \subseteq Names
  /\ backup.pc = "prune" => \A s \in backup.todo : s \in Snapshot /\ s.kind = "backup" /\ s.at + Retention <= now

\* A snapshot is deleted by its clone, by a user or by age.
DyingForAReason ==
  \A s \in dying : s.kind = "clone" \/ s \in erased \/ s.at + Retention <= now

\* After a pass no backup is left that is too old before the next one.
OldOnesGo ==
  faults = 0 /\ (~Pending \/ backup.pc = "prune") =>
    \A s \in Kept : s.kind = "backup" =>
      backup.next <= s.at + Retention + Interval \/ (backup.pc = "prune" /\ s \in backup.todo)

\* Snapshots that nobody but a user deletes.
Lasting == Kept \union erased
Covered(n) == \E s \in Lasting : s.kind = "backup" /\ s.of = n /\ backup.next <= s.at + Interval

\* A pass covers every volume that was there before it.
VolumesCovered ==
  faults = 0 /\ Retention >= Interval /\ (~Pending \/ backup.pc \in {"snapshot", "prune"}) =>
    \A n \in Names : vols[n].kind = "built" /\ vols[n].born + Interval < backup.next =>
      Covered(n) \/ (backup.pc = "snapshot" /\ n \in backup.todo)

\* The snapshot of a clone is that of its request, which leaves it alone once
\* the sandbox is there.
ClonesKeepSnapshots ==
  /\ \A s \in snaps \union dying : s.kind = "clone" =>
       s.by \in Requests /\ requests[s.by].pc \in {"create", "cleanup", "done"}
  /\ faults = 0 => \A r \in Requests : requests[r].kind = "clone" /\ requests[r].pc = "create" =>
       requests[r].snap \in Lasting
  /\ faults = 0 => \A n \in Names : sandboxes[n] # None /\ sandboxes[n].label = "cloned" =>
       LET s == sandboxes[n].snapshot
       IN  s \in Lasting /\ s \in Snapshot /\ s.kind = "clone" /\ s.by \in Requests /\ requests[s.by].pc = "done"

SnapshotInv == PassesInTime /\ PassOk /\ DyingForAReason /\ OldOnesGo /\ VolumesCovered /\ ClonesKeepSnapshots

LEMMA MergeType == ASSUME NEW p \in Policy, NEW q \in Policy PROVE MergePolicies(p, q) \in Policy
<1>1. [l \in Limits |-> Override(p.limits[l], q.limits[l])] \in [Limits -> Nat]
  BY DEF Policy, Override
<1> QED BY <1>1 DEF MergePolicies, Policy, Override, OverrideSet

LEMMA FirstItem == ASSUME NEW s \in Seq(Item), s # <<>> PROVE 1 \in DOMAIN s
  OBVIOUS

LEMMA UsageType == ASSUME NEW sbs, NEW u PROVE CountUsage(sbs, u) \in Usage
<1>1. ASSUME NEW S \in SUBSET Names PROVE Cardinality(S) \in Nat
  BY GovernanceAssumption, FS_Subset, FS_CardinalityType
<1>2. /\ Cardinality({n \in Names : Counts(sbs, n)}) \in Nat
      /\ Cardinality({n \in Names : Counts(sbs, n) /\ sbs[n].owner = u}) \in Nat
      /\ Cardinality({n \in Names : Counts(sbs, n) /\ sbs[n].mode = "agent"}) \in Nat
  BY <1>1
<1> QED BY <1>2 DEF CountUsage, Usage

\* A step of one request leaves the others where they are.
LEMMA RequestMoves ==
  ASSUME RequestsOk, NEW r \in Requests, NEW q \in RequestType, Ready(r, q),
         requests' = [requests EXCEPT ![r] = q]
  PROVE  RequestsOk' /\ requests'[r] = q /\ \A o \in Requests \ {r} : requests'[o] = requests[o]
<1> USE DEF RequestsOk
<1>1. requests' \in [Requests -> RequestType]
  OBVIOUS
<1>2. requests'[r] = q /\ \A o \in Requests \ {r} : requests'[o] = requests[o]
  OBVIOUS
<1> QED BY <1>1, <1>2

LEMMA BecomeMoves ==
  ASSUME RequestsOk, NEW r \in Requests, NEW pc \in Stations, Become(r, pc),
         Ready(r, [requests[r] EXCEPT !.pc = pc])
  PROVE  RequestsOk'
<1>1. [requests[r] EXCEPT !.pc = pc] \in RequestType
  BY DEF RequestsOk, RequestType
<1>2. requests' = [requests EXCEPT ![r] = [requests[r] EXCEPT !.pc = pc]]
  BY DEF Become, RequestsOk
<1> QED BY <1>1, <1>2, RequestMoves

\* The handler has read the body.
LEMMA OpenMoves ==
  ASSUME TypeInv, NEW r \in Requests, NEW o \in Orders, NEW pc \in Stations \ {"off", "idle"},
         NEW items \in Seq(Item), Open(r, o, pc, items),
         pc \in {"create", "lookup", "cluster", "namespace", "list"} \/ o.kind = "clone" => items # <<>>,
         pc = "snapshot" => o.source \in Names,
         pc # "cleanup", pc \notin {"snapshot", "done"} => o.kind # "clone"
  PROVE  RequestsOk'
<1> DEFINE q == [requests[r] EXCEPT !.pc = pc, !.kind = o.kind, !.user = o.user, !.source = o.source, !.items = items]
<1>0. o \in [kind : Kinds, user : Users, source : Names \union {None}, items : Seq(Item)]
  BY OrdersAssumption DEF Kinds
<1>1. requests[r] \in RequestType /\ Ready(r, requests[r]) /\ requests[r].pc = "idle"
  BY DEF TypeInv, RequestsOk, Open
<1>2. requests' = [requests EXCEPT ![r] = q]
  BY DEF TypeInv, RequestsOk, Open
<1>3. q \in RequestType
  BY <1>0, <1>1 DEF RequestType
<1>4. q.pc = pc /\ q.kind = o.kind /\ q.user = o.user /\ q.source = o.source /\ q.items = items
      /\ q.next = requests[r].next
  BY <1>1 DEF RequestType
<1>5. pc = "create" => 1 \in DOMAIN items
  BY FirstItem
<1>6. Ready(r, q)
  <2>1. q.next = 1
    BY <1>1, <1>4 DEF Ready
  <2> HIDE DEF q
  <2> QED BY <1>0, <1>4, <1>5, <2>1 DEF Ready
<1> HIDE DEF q
<1> QED BY <1>2, <1>3, <1>6, RequestMoves DEF TypeInv

LEMMA ReceiveTypes ==
  ASSUME TypeInv, NEW r \in Requests, Receive(r)
  PROVE  RequestsOk'
<1> PICK o \in Orders :
      \/ ReceiveCreate(r, o) \/ ReceiveBulk(r, o) \/ ReceiveApply(r, o)
      \/ ReceiveClone(r, o) \/ ReceiveBackup(r, o) \/ ReceiveRestore(r, o)
  BY DEF Receive
<1>1. /\ o \in [kind : Kinds, user : Users, source : Names \union {None}, items : Seq(Item)]
      /\ o.kind \in {"clone", "restore", "backup"} => o.source \in Names
      /\ o.kind # "backup" => o.items # <<>>
  BY OrdersAssumption DEF Kinds
<1>2. o.items \in Seq(Item) /\ <<>> \in Seq(Item)
  BY <1>1
<1>3. CASE ReceiveCreate(r, o) \/ ReceiveBulk(r, o)
  <2>1. Open(r, o, "cluster", o.items) /\ o.kind # "backup" /\ o.kind # "clone"
    BY <1>3 DEF ReceiveCreate, ReceiveBulk
  <2> QED BY <1>1, <1>2, <2>1, OpenMoves DEF Stations
<1>4. CASE ReceiveApply(r, o)
  <2>1. Open(r, o, "create", o.items) /\ o.kind = "apply"
    BY <1>4 DEF ReceiveApply
  <2> QED BY <1>1, <1>2, <2>1, OpenMoves DEF Stations
<1>5. CASE ReceiveBackup(r, o)
  <2>1. Open(r, o, "snapshot", <<>>) /\ o.kind = "backup" /\ o.source \in Names
    BY <1>1, <1>5 DEF ReceiveBackup
  <2> QED BY <1>2, <2>1, OpenMoves DEF Stations
<1>6. CASE ReceiveClone(r, o) \/ ReceiveRestore(r, o)
  <2>1. o.kind \in {"clone", "restore"} /\ o.source \in Names /\ sandboxes[o.source] \in Sandbox
    BY <1>1, <1>6 DEF ReceiveClone, ReceiveRestore, Accessible, TypeInv, TypeOK
  <2>2. Copied(o) \in Seq(Item) /\ Copied(o) # <<>>
    <3>1. PICK n \in Nat : o.items \in [1..n -> Item] /\ DOMAIN o.items = 1..n
      BY <1>2
    <3>2. \A i \in 1..n : o.items[i] \in Item
      BY <3>1
    <3>3. Copied(o) \in [1..n -> Item]
      BY <2>1, <3>1, <3>2 DEF Copied, Item, Sandbox
    <3>4. n # 0
      BY <1>1, <2>1, <3>1
    <3> QED BY <3>3, <3>4
  <2>3. \/ Open(r, o, "snapshot", Copied(o))
        \/ Open(r, o, "lookup", Copied(o)) /\ o.kind = "restore"
    BY <1>6 DEF ReceiveClone, ReceiveRestore
  <2> HIDE DEF Copied
  <2> QED BY <2>1, <2>2, <2>3, OpenMoves DEF Stations
<1> QED BY <1>3, <1>4, <1>5, <1>6

LEMMA SnapTypes ==
  ASSUME TypeInv, NEW r \in Requests, SnapshotSource(r) \/ CreateBackup(r)
  PROVE  RequestsOk' /\ snaps' \subseteq Snapshot /\ dying' \subseteq Snapshot
<1>1. requests[r] \in RequestType /\ Ready(r, requests[r]) /\ requests[r].pc = "snapshot"
  BY DEF TypeInv, RequestsOk, SnapshotSource, CreateBackup, Snap
<1> DEFINE s == Named(requests[r].kind, requests[r].source, r)
<1>2. requests[r].kind \in {"clone", "backup"} /\ requests[r].source \in Names
  BY <1>1 DEF SnapshotSource, CreateBackup, Ready
<1>3. s \in Snapshot /\ s.kind = requests[r].kind /\ s.by = r
  BY <1>2 DEF Named, Snapshot, TypeInv, TypeOK
<1>4. PICK pc \in {"create", "done"} :
        /\ pc = "create" => requests[r].kind = "clone"
        /\ \/ snaps' = snaps \union {s} /\ requests' = [requests EXCEPT ![r].pc = pc, ![r].snap = s]
           \/ snaps' = snaps /\ Become(r, "done")
        /\ dying' = dying
  BY DEF SnapshotSource, CreateBackup, Snap
<1> HIDE DEF s
<1>5. ASSUME requests' = [requests EXCEPT ![r].pc = pc, ![r].snap = s]
      PROVE  RequestsOk'
  <2> DEFINE q == [requests[r] EXCEPT !.pc = pc, !.snap = s]
  <2>1. requests' = [requests EXCEPT ![r] = q]
    BY <1>5 DEF TypeInv, RequestsOk
  <2>2. q \in RequestType
    BY <1>1, <1>3 DEF RequestType, Stations
  <2>3. /\ q.pc = pc /\ q.snap = s /\ q.kind = requests[r].kind /\ q.items = requests[r].items
        /\ q.next = requests[r].next /\ q.user = requests[r].user
    BY <1>1 DEF RequestType
  <2>4. pc = "create" => 1 \in DOMAIN requests[r].items
    BY <1>1, <1>4, FirstItem DEF Ready, RequestType
  <2>5. Ready(r, q)
    <3> HIDE DEF q
    <3> QED BY <1>1, <1>3, <1>4, <2>3, <2>4 DEF Ready
  <2> HIDE DEF q
  <2> QED BY <2>1, <2>2, <2>5, RequestMoves DEF TypeInv
<1>6. ASSUME Become(r, "done")
      PROVE  RequestsOk'
  <2>1. Ready(r, [requests[r] EXCEPT !.pc = "done"])
    BY <1>1 DEF Ready, RequestType
  <2> QED BY <1>6, <2>1, BecomeMoves DEF TypeInv, Stations
<1> QED BY <1>3, <1>4, <1>5, <1>6 DEF TypeInv, TypeOK

\* The policies are read and checked.
LEMMA CheckTypes ==
  ASSUME TypeInv, NEW r \in Requests, Lookup(r) \/ ReadCluster(r) \/ ReadNamespace(r) \/ List(r) \/ Cleanup(r)
  PROVE  RequestsOk' /\ snaps' \subseteq Snapshot /\ dying' \subseteq Snapshot
<1>0. requests[r] \in RequestType /\ Ready(r, requests[r]) /\ RequestsOk
  BY DEF TypeInv, RequestsOk
<1>1. ASSUME NEW q \in RequestType, requests' = [requests EXCEPT ![r] = q],
             q.user = requests[r].user, q.kind = requests[r].kind, q.items = requests[r].items, q.next = requests[r].next,
             requests[r].pc \in {"lookup", "cluster", "namespace", "list"},
             q.pc \in {"cluster", "namespace", "list", "create", "done"}
      PROVE  RequestsOk'
  <2>1. q.pc = "create" => 1 \in DOMAIN q.items
    BY <1>0, <1>1, FirstItem DEF Ready, RequestType
  <2>2. Ready(r, q)
    BY <1>0, <1>1, <2>1 DEF Ready
  <2> QED BY <1>0, <1>1, <2>2, RequestMoves
<1>2. ASSUME NEW pc \in {"create", "done"}, Become(r, pc), requests[r].pc \in {"lookup", "cluster", "namespace", "list"}
      PROVE  RequestsOk'
  <2> DEFINE q == [requests[r] EXCEPT !.pc = pc]
  <2>1. requests' = [requests EXCEPT ![r] = q]
    BY <1>2 DEF Become, RequestsOk
  <2>2. /\ q \in RequestType /\ q.user = requests[r].user /\ q.kind = requests[r].kind
        /\ q.items = requests[r].items /\ q.next = requests[r].next /\ q.pc = pc
    BY <1>0 DEF RequestType, Stations
  <2> HIDE DEF q
  <2> QED BY <1>1, <1>2, <2>1, <2>2
<1>3. ASSUME Lookup(r)
      PROVE  RequestsOk'
  <2>1. CASE Become(r, "done")
    BY <1>2, <1>3, <2>1 DEF Lookup
  <2>2. ASSUME NEW s \in snaps, requests' = [requests EXCEPT ![r].pc = "cluster", ![r].snap = s]
        PROVE  RequestsOk'
    <3> DEFINE q == [requests[r] EXCEPT !.pc = "cluster", !.snap = s]
    <3>1. requests' = [requests EXCEPT ![r] = q]
      BY <2>2 DEF RequestsOk
    <3>2. s \in Snapshot
      BY DEF TypeInv, TypeOK
    <3>3. /\ q \in RequestType /\ q.user = requests[r].user /\ q.kind = requests[r].kind
          /\ q.items = requests[r].items /\ q.next = requests[r].next /\ q.pc = "cluster"
      BY <1>0, <3>2 DEF RequestType, Stations
    <3> HIDE DEF q
    <3> QED BY <1>1, <1>3, <3>1, <3>3 DEF Lookup
  <2> QED BY <1>3, <2>1, <2>2 DEF Lookup
<1>4. ASSUME NEW p \in Policy, NEW pc \in {"namespace", "list", "create"},
             requests' = [requests EXCEPT ![r].pc = pc, ![r].policy = p],
             requests[r].pc \in {"lookup", "cluster", "namespace", "list"}
      PROVE  RequestsOk'
  <2> DEFINE q == [requests[r] EXCEPT !.pc = pc, !.policy = p]
  <2>1. requests' = [requests EXCEPT ![r] = q]
    BY <1>4 DEF RequestsOk
  <2>2. /\ q \in RequestType /\ q.user = requests[r].user /\ q.kind = requests[r].kind
        /\ q.items = requests[r].items /\ q.next = requests[r].next /\ q.pc = pc
    BY <1>0 DEF RequestType, Stations
  <2> HIDE DEF q
  <2> QED BY <1>1, <1>4, <2>1, <2>2
<1>5. store.policies["cluster"] \in Policy /\ store.policies["namespace"] \in Policy
      /\ requests[r].policy \in Policy
  BY <1>0 DEF TypeInv, TypeOK, Scopes, RequestType
<1>6. ASSUME ReadCluster(r)
      PROVE  RequestsOk'
  <2>1. CASE Become(r, "create")
    BY <1>2, <1>6, <2>1 DEF ReadCluster
  <2>2. CASE requests' = [requests EXCEPT ![r].pc = "namespace", ![r].policy = store.policies["cluster"]]
    BY <1>4, <1>5, <1>6, <2>2 DEF ReadCluster
  <2> QED BY <1>6, <2>1, <2>2 DEF ReadCluster
<1>7. ASSUME ReadNamespace(r)
      PROVE  RequestsOk'
  <2> DEFINE p == MergePolicies(requests[r].policy, store.policies["namespace"])
  <2>1. p \in Policy
    BY <1>5, MergeType
  <2>2. \/ requests' = [requests EXCEPT ![r].pc = IF IsEmpty(p) THEN "create" ELSE "list", ![r].policy = p]
        \/ requests' = [requests EXCEPT ![r].pc = "create", ![r].policy = NoPolicy]
    BY <1>7 DEF ReadNamespace
  <2>3. requests[r].pc = "namespace"
    BY <1>7 DEF ReadNamespace
  <2> HIDE DEF p
  <2> QED BY <1>4, <2>1, <2>2, <2>3, NoPolicyIsPolicy
<1>8. ASSUME List(r)
      PROVE  RequestsOk'
  <2>1. requests[r].pc = "list"
    BY <1>8 DEF List
  <2>2. CASE Become(r, "done")
    BY <1>2, <2>1, <2>2
  <2>3. ASSUME NEW u \in Usage, NEW pc \in {"create", "done"},
               requests' = [requests EXCEPT ![r].used = u, ![r].pc = pc]
        PROVE  RequestsOk'
    <3> DEFINE q == [requests[r] EXCEPT !.used = u, !.pc = pc]
    <3>1. requests' = [requests EXCEPT ![r] = q]
      BY <2>3 DEF RequestsOk
    <3>2. /\ q \in RequestType /\ q.user = requests[r].user /\ q.kind = requests[r].kind
          /\ q.items = requests[r].items /\ q.next = requests[r].next /\ q.pc = pc
      BY <1>0 DEF RequestType, Stations
    <3> HIDE DEF q
    <3> QED BY <1>1, <2>1, <2>3, <3>1, <3>2
  <2>4. \/ Become(r, "done")
        \/ \E u \in Usage, pc \in {"create", "done"} : requests' = [requests EXCEPT ![r].used = u, ![r].pc = pc]
    BY <1>8, UsageType DEF List
  <2> QED BY <2>2, <2>3, <2>4
<1>9. ASSUME Cleanup(r)
      PROVE  RequestsOk'
  <2>1. Become(r, "done") /\ requests[r].pc = "cleanup"
    BY <1>9 DEF Cleanup
  <2>2. Ready(r, [requests[r] EXCEPT !.pc = "done"])
    BY <1>0, <2>1 DEF Ready, RequestType
  <2> QED BY <1>0, <2>1, <2>2, BecomeMoves DEF Stations
<1>10. snaps' \subseteq Snapshot /\ dying' \subseteq Snapshot
  <2>1. CASE Cleanup(r)
    <3>1. requests[r].snap \in Snapshot
      BY <1>0, <2>1 DEF Cleanup, Ready
    <3> QED BY <2>1, <3>1 DEF Cleanup, Mark, TypeInv, TypeOK
  <2>2. CASE ~Cleanup(r)
    BY <2>2 DEF Lookup, ReadCluster, ReadNamespace, List, snapVars, TypeInv, TypeOK
  <2> QED BY <2>1, <2>2
<1> QED BY <1>3, <1>6, <1>7, <1>8, <1>9, <1>10

LEMMA CreateTypes ==
  ASSUME TypeInv, NEW r \in Requests, Create(r)
  PROVE  RequestsOk' /\ sandboxes' \in [Names -> Sandbox \union {None}]
<1> DEFINE q == requests[r]
<1>1. q \in RequestType /\ Ready(r, q) /\ q.pc = "create" /\ RequestsOk
  BY DEF TypeInv, RequestsOk, Create
<1>2. q.next \in DOMAIN q.items /\ q.items[q.next] \in Item /\ q.user \in Users
  <2>1. q.next \in DOMAIN q.items /\ q.items \in Seq(Item) /\ q.user \in Users
    BY <1>1 DEF Ready, RequestType
  <2> QED BY <2>1
<1>3. Built(q) \in Sandbox
  <2>1. Owner(q) \in Users \union {Router} /\ Label(q.kind) \in {"none", "cloned", "restored"}
    BY <1>2 DEF Owner, Label
  <2>2. q.snap \in Snapshot \union {None}
    BY <1>1 DEF RequestType
  <2> QED BY <1>2, <2>1, <2>2 DEF Built, Sandbox, Item
<1>4. ASSUME NEW ok \in BOOLEAN
      PROVE  After(q, ok) \in RequestType /\ Ready(r, After(q, ok))
  <2> DEFINE a == After(q, ok)
  <2>1. PICK pc \in {"cleanup", "create", "done"} :
          /\ a = [q EXCEPT !.next = @ + 1, !.pc = pc]
          /\ pc = "cleanup" => q.kind = "clone"
          /\ pc = "create" => q.kind = "bulk" /\ q.next < Len(q.items)
    BY DEF After
  <2>2. a \in RequestType /\ a.pc = pc /\ a.user = q.user /\ a.kind = q.kind /\ a.items = q.items
        /\ a.next = q.next + 1 /\ a.snap = q.snap
    <3>1. q.next + 1 \in Nat
      BY <1>1 DEF RequestType
    <3> QED BY <1>1, <2>1, <3>1 DEF RequestType, Stations
  <2>3. pc = "create" => q.next + 1 \in DOMAIN q.items
    BY <1>1, <1>2, <2>1 DEF RequestType
  <2> HIDE DEF a
  <2>4. Ready(r, a)
    BY <1>1, <1>2, <2>1, <2>2, <2>3 DEF Ready
  <2> QED BY <2>2, <2>4 DEF a
<1>5. \E ok \in BOOLEAN : requests' = [requests EXCEPT ![r] = After(q, ok)]
  BY DEF Create
<1>6. sandboxes' = sandboxes \/ sandboxes' = [sandboxes EXCEPT ![q.items[q.next].name] = Built(q)]
  BY DEF Create
<1> HIDE DEF q
<1>7. RequestsOk'
  BY <1>1, <1>4, <1>5, RequestMoves
<1>8. q.items[q.next].name \in Names
  BY <1>2 DEF Item
<1> QED BY <1>3, <1>6, <1>7, <1>8 DEF TypeInv, TypeOK

LEMMA RouteTypes ==
  ASSUME TypeInv, NEW r \in Requests, Route(r)
  PROVE  /\ RequestsOk' /\ sandboxes' \in [Names -> Sandbox \union {None}]
         /\ snaps' \subseteq Snapshot /\ dying' \subseteq Snapshot /\ faults' \in 0..MaxFaults
<1>1. faults' \in 0..MaxFaults
  <2>1. faults' = faults \/ Fault
    BY DEF Route, Receive, ReceiveCreate, ReceiveBulk, ReceiveApply, ReceiveClone, ReceiveBackup, ReceiveRestore, Open,
           SnapshotSource, CreateBackup, Snap, Lookup, ReadCluster, ReadNamespace, List, Create, Cleanup
  <2> QED BY <2>1, CreationBounds DEF Fault, TypeInv, TypeOK
<1>2. CASE Receive(r)
  <2>1. UNCHANGED <<sandboxes, snapVars>>
    BY <1>2 DEF Receive, ReceiveCreate, ReceiveBulk, ReceiveApply, ReceiveClone, ReceiveBackup, ReceiveRestore, Open
  <2> QED BY <1>1, <1>2, <2>1, ReceiveTypes DEF TypeInv, TypeOK, snapVars
<1>3. CASE SnapshotSource(r) \/ CreateBackup(r)
  <2>1. sandboxes' = sandboxes
    BY <1>3 DEF SnapshotSource, CreateBackup, Snap
  <2> QED BY <1>1, <1>3, <2>1, SnapTypes DEF TypeInv, TypeOK
<1>4. CASE Lookup(r) \/ ReadCluster(r) \/ ReadNamespace(r) \/ List(r) \/ Cleanup(r)
  <2>1. sandboxes' = sandboxes
    BY <1>4 DEF Lookup, ReadCluster, ReadNamespace, List, Cleanup
  <2> QED BY <1>1, <1>4, <2>1, CheckTypes DEF TypeInv, TypeOK
<1>5. CASE Create(r)
  <2>1. UNCHANGED snapVars
    BY <1>5 DEF Create
  <2> QED BY <1>1, <1>5, <2>1, CreateTypes DEF TypeInv, TypeOK, snapVars
<1> QED BY <1>2, <1>3, <1>4, <1>5 DEF Route

\* The controller moves a sandbox on, gives it a volume, or lets a snapshot go.
LEMMA ControlTypes ==
  ASSUME TypeInv, Control
  PROVE  /\ sandboxes' \in [Names -> Sandbox \union {None}] /\ vols' \in [Names -> Volume] /\ warm' \in 0..MaxWarm
         /\ snaps' \subseteq Snapshot /\ dying' \subseteq Snapshot /\ faults' \in 0..MaxFaults
         /\ \A n \in Names : vols'[n] = vols[n] \/ vols'[n].kind = "none" \/ vols'[n].born = now
                             \/ (vols'[n].kind = vols[n].kind /\ vols'[n].born = vols[n].born)
         /\ \A n \in Names : \/ sandboxes'[n] = sandboxes[n]
                             \/ /\ sandboxes[n] # None /\ sandboxes'[n].snapshot = sandboxes[n].snapshot
                                /\ sandboxes'[n].label = sandboxes[n].label
<1> USE DEF TypeInv, TypeOK
<1> DEFINE VolMoves == \A n \in Names : vols'[n] = vols[n] \/ vols'[n].kind = "none" \/ vols'[n].born = now
                             \/ (vols'[n].kind = vols[n].kind /\ vols'[n].born = vols[n].born)
           BoxMoves == \A n \in Names : \/ sandboxes'[n] = sandboxes[n]
                             \/ /\ sandboxes[n] # None /\ sandboxes'[n].snapshot = sandboxes[n].snapshot
                                /\ sandboxes'[n].label = sandboxes[n].label
<1>1. faults' \in 0..MaxFaults
  <2>1. faults' = faults \/ Fault
    BY DEF Control, Fail
  <2> QED BY <2>1, CreationBounds DEF Fault
<1>2. ASSUME NEW n \in Names, NEW p \in {"New", "Creating", "Running", "Error", "Deleting"}, Phase(n) # "none", SetPhase(n, p)
      PROVE  sandboxes' \in [Names -> Sandbox \union {None}] /\ BoxMoves
  <2>1. sandboxes[n] \in Sandbox /\ sandboxes[n] # None
    BY <1>2 DEF Phase
  <2> DEFINE sb == [sandboxes[n] EXCEPT !.phase = p]
  <2>2. sb \in Sandbox /\ sb.snapshot = sandboxes[n].snapshot /\ sb.label = sandboxes[n].label
    BY <2>1 DEF Sandbox
  <2>3. sandboxes' = [sandboxes EXCEPT ![n] = sb]
    BY <1>2 DEF SetPhase
  <2> HIDE DEF sb
  <2> QED BY <2>1, <2>2, <2>3
<1>3. ASSUME NEW n \in Names, NEW k \in {"pool", "built"}, NEW c \in {"blank", "pending"}, Give(n, k, c)
      PROVE  vols' \in [Names -> Volume] /\ VolMoves
  BY <1>3 DEF Give, Volume
<1>4. ASSUME NEW n \in Names, Claim(n)
      PROVE  sandboxes' \in [Names -> Sandbox \union {None}] /\ BoxMoves /\ vols' \in [Names -> Volume] /\ VolMoves
             /\ warm' \in 0..MaxWarm
  <2>1. Phase(n) # "none" /\ SetPhase(n, "Running") /\ Give(n, "pool", "blank")
    BY <1>4 DEF Claim
  <2>2. warm' \in 0..MaxWarm
    BY <1>4, CreationBounds DEF Claim
  <2> QED BY <1>2, <1>3, <2>1, <2>2
<1>5. ASSUME NEW n \in Names, Provision(n)
      PROVE  sandboxes' \in [Names -> Sandbox \union {None}] /\ BoxMoves /\ vols' \in [Names -> Volume] /\ VolMoves
  <2>1. Phase(n) # "none" /\ SetPhase(n, "Creating") /\ (Give(n, "built", "blank") \/ Give(n, "built", "pending"))
    BY <1>5 DEF Provision
  <2> QED BY <1>2, <1>3, <2>1
<1>6. ASSUME NEW n \in Names, Hydrate(n)
      PROVE  vols' \in [Names -> Volume] /\ VolMoves
  <2> DEFINE v == [vols[n] EXCEPT !.content = "restored"]
  <2>1. v \in Volume /\ v.kind = vols[n].kind /\ v.born = vols[n].born
    BY DEF Volume
  <2>2. vols' = [vols EXCEPT ![n] = v]
    BY <1>6 DEF Hydrate
  <2> HIDE DEF v
  <2> QED BY <2>1, <2>2
<1>7. ASSUME NEW n \in Names, Start(n) \/ Fail(n) \/ Resume(n)
      PROVE  sandboxes' \in [Names -> Sandbox \union {None}] /\ BoxMoves
  <2>1. Phase(n) # "none" /\ \E p \in {"New", "Creating", "Running", "Error", "Deleting"} : SetPhase(n, p)
    BY <1>7 DEF Start, Fail, Resume
  <2> QED BY <1>2, <2>1
<1>8. ASSUME NEW n \in Names, Delete(n)
      PROVE  sandboxes' \in [Names -> Sandbox \union {None}] /\ BoxMoves /\ vols' \in [Names -> Volume] /\ VolMoves
  <2>1. Phase(n) # "none" /\ SetPhase(n, "Deleting")
    BY <1>8 DEF Delete
  <2>2. vols' = [vols EXCEPT ![n] = NoVolume]
    BY <1>8 DEF Delete
  <2>3. NoVolume \in Volume /\ NoVolume.kind = "none"
    BY CreationBounds DEF NoVolume, Volume, Times
  <2>4. vols' \in [Names -> Volume] /\ VolMoves
    BY <2>2, <2>3
  <2> QED BY <1>2, <2>1, <2>4
<1>9. ASSUME NEW s \in snaps, Expire(s)
      PROVE  snaps' \subseteq Snapshot /\ dying' \subseteq Snapshot
  BY <1>9 DEF Expire
<1> USE <1>1
<1>10. ASSUME NEW n \in Names, Claim(n) \/ Provision(n) \/ Hydrate(n) \/ Start(n) \/ Fail(n) \/ Resume(n) \/ Delete(n)
       PROVE  /\ sandboxes' \in [Names -> Sandbox \union {None}] /\ vols' \in [Names -> Volume] /\ warm' \in 0..MaxWarm
              /\ snaps' \subseteq Snapshot /\ dying' \subseteq Snapshot /\ VolMoves /\ BoxMoves
  <2>1. CASE Claim(n)
    BY <1>4, <2>1 DEF Claim, snapVars
  <2>2. CASE Provision(n)
    BY <1>5, <2>2 DEF Provision, snapVars
  <2>3. CASE Hydrate(n)
    BY <1>6, <2>3 DEF Hydrate, snapVars
  <2>4. CASE Start(n) \/ Fail(n) \/ Resume(n)
    BY <1>7, <2>4 DEF Start, Fail, Resume, snapVars
  <2>5. CASE Delete(n)
    BY <1>8, <2>5 DEF Delete, snapVars
  <2> QED BY <1>10, <2>1, <2>2, <2>3, <2>4, <2>5
<1>11. CASE \E s \in snaps : Expire(s)
  BY <1>9, <1>11 DEF Expire
<1> QED BY <1>10, <1>11 DEF Control

LEMMA ScheduleTypes ==
  ASSUME TypeInv, Schedule
  PROVE  /\ backup' \in BackupType /\ snaps' \subseteq Snapshot /\ dying' \subseteq Snapshot /\ erased' \subseteq Snapshot
         /\ faults' \in 0..MaxFaults
<1> USE DEF TypeInv, TypeOK
<1>1. faults' \in 0..MaxFaults
  <2>1. faults' = faults \/ Fault
    BY DEF Schedule, StartPass, ListExpired, EndPass, Crash, BackUp, Prune, DeleteBackup
  <2> QED BY <2>1, CreationBounds DEF Fault
<1>2. NewScheduler \in BackupType
  BY CreationBounds DEF NewScheduler, BackupType, Times
<1>3. ASSUME NEW todo \in SUBSET (Names \union Snapshot), NEW pc \in {"off", "idle", "snapshot", "prune"}, NEW due \in BOOLEAN,
             backup' = [backup EXCEPT !.pc = pc, !.todo = todo, !.due = due]
      PROVE  backup' \in BackupType
  BY <1>3 DEF BackupType
<1>4. ASSUME NEW n \in Names PROVE Named("backup", n, None) \in Snapshot
  BY DEF Named, Snapshot
<1>5. CASE StartPass
  <2>1. backup' = [backup EXCEPT !.pc = "snapshot", !.todo = Managed, !.due = FALSE]
        \/ backup' = [backup EXCEPT !.pc = "snapshot", !.todo = {}, !.due = FALSE]
    BY <1>5 DEF StartPass
  <2>2. Managed \in SUBSET (Names \union Snapshot)
    BY DEF Managed
  <2>3. backup' \in BackupType
    BY <1>3, <2>1, <2>2
  <2> QED BY <1>1, <1>5, <2>3 DEF StartPass, snapVars
<1>6. CASE ListExpired
  <2>1. Expired \in SUBSET (Names \union Snapshot)
    BY DEF Expired
  <2>2. backup' \in BackupType
    BY <1>6, <2>1 DEF ListExpired, BackupType
  <2> QED BY <1>1, <1>6, <2>2 DEF ListExpired, snapVars
<1>7. CASE EndPass
  BY <1>1, <1>7 DEF EndPass, BackupType, snapVars
<1>8. CASE Crash
  BY <1>1, <1>2, <1>8 DEF Crash, snapVars
<1>9. ASSUME NEW n \in Names, BackUp(n)
      PROVE  backup' \in BackupType /\ snaps' \subseteq Snapshot
  BY <1>4, <1>9 DEF BackUp, BackupType
<1>10. ASSUME NEW s \in backup.todo, Prune(s)
       PROVE  backup' \in BackupType /\ dying' \subseteq Snapshot
  BY <1>10 DEF Prune, BackupType
<1>11. ASSUME NEW s \in snaps, DeleteBackup(s)
       PROVE  dying' \subseteq Snapshot /\ erased' \subseteq Snapshot
  BY <1>11 DEF DeleteBackup, Mark
<1>12. CASE \E n \in Names : BackUp(n)
  BY <1>1, <1>9, <1>12 DEF BackUp
<1>13. CASE \E s \in backup.todo : Prune(s)
  BY <1>1, <1>10, <1>13 DEF Prune
<1>14. CASE \E s \in snaps : DeleteBackup(s)
  BY <1>1, <1>11, <1>14 DEF DeleteBackup
<1> QED BY <1>5, <1>6, <1>7, <1>8, <1>12, <1>13, <1>14 DEF Schedule

LEMMA TypeInit == Init => TypeInv
<1> SUFFICES ASSUME Init PROVE TypeInv
  OBVIOUS
<1>1. StoreInv
  BY StoreInvInit
<1>2. NoPolicy \in Policy /\ now \in Times /\ faults \in 0..MaxFaults
  BY NoPolicyIsPolicy, CreationBounds DEF Init, Times
<1>3. NewRequest \in RequestType
  BY NoPolicyIsPolicy DEF NewRequest, RequestType, Stations, Kinds, Usage
<1>4. RequestsOk
  <2>1. requests \in [Requests -> RequestType]
    BY <1>3 DEF Init
  <2>2. \A r \in Requests : Ready(r, requests[r])
    BY DEF Init, Ready, NewRequest
  <2> QED BY <2>1, <2>2 DEF RequestsOk
<1>5. backup \in BackupType
  <2>1. NewScheduler \in BackupType
    BY <1>2, CreationBounds DEF NewScheduler, BackupType, Times
  <2>2. [NewScheduler EXCEPT !.pc = "off"] \in BackupType
    BY <2>1 DEF BackupType
  <2> QED BY <2>1, <2>2 DEF Init
<1>6. vols \in [Names -> Volume]
  BY CreationBounds DEF Init, NoVolume, Volume, Times
<1>7. sandboxes \in [Names -> Sandbox \union {None}] /\ warm \in 0..MaxWarm /\ hook \in BOOLEAN
      /\ snaps = {} /\ dying = {} /\ erased = {} /\ cache = [sandboxes |-> sandboxes, policies |-> store.policies]
  BY DEF Init
<1>8. store \in [rv : Nat, policies : [Scopes -> Policy]]
  BY <1>1 DEF StoreInv, EditorType, ScopeMap
<1>9. cache \in [sandboxes : [Names -> Sandbox \union {None}], policies : [Scopes -> Policy]]
  BY <1>7, <1>8
<1>10. \A r \in Requests : requests[r].pc = "create" => requests[r].next \in DOMAIN requests[r].items
  BY <1>4 DEF RequestsOk, Ready
<1>11. \A r \in Requests : requests[r].pc \in Stations /\ requests[r].policy \in Policy
  BY <1>4 DEF RequestsOk, RequestType
<1>12. TypeOK
  BY <1>1, <1>2, <1>5, <1>6, <1>7, <1>8, <1>9, <1>10, <1>11
     DEF TypeOK, StoreInv, EditorType, Stages, ScopeMap, Stations, BackupType
<1> QED BY <1>4, <1>5, <1>12 DEF TypeInv

LEMMA TypeStep == TypeInv /\ StoreInv /\ [Next]_vars => TypeInv'
<1> SUFFICES ASSUME TypeInv, StoreInv, [Next]_vars PROVE TypeInv'
  OBVIOUS
<1> USE DEF TypeInv
<1>1. /\ store' \in [rv : Nat, policies : [Scopes -> Policy]]
      /\ editors' \in [Editors -> [pc : {"off", "idle", "save", "reload", "update", "done"}, scope : Scopes,
           policy : Policy, map : [Scopes -> Policy], rv : Nat]]
  BY StoreInvStep DEF StoreInv, EditorType, ScopeMap, Stages
<1>2. RequestsOk'
  <2>1. CASE \E r \in Requests : Route(r)
    BY <2>1, RouteTypes
  <2>2. CASE requests' = requests
    BY <2>2 DEF RequestsOk
  <2> QED BY <2>1, <2>2 DEF Next, Edit, Control, Sync, Schedule, Tick, vars, quotaVars
<1>3. sandboxes' \in [Names -> Sandbox \union {None}]
  <2>1. CASE \E r \in Requests : Route(r)
    BY <2>1, RouteTypes
  <2>2. CASE Control
    BY <2>2, ControlTypes
  <2> QED BY <2>1, <2>2 DEF Next, Edit, Sync, Schedule, Tick, vars, TypeOK
<1>4. vols' \in [Names -> Volume] /\ warm' \in 0..MaxWarm
  <2>1. CASE Control
    BY <2>1, ControlTypes
  <2> QED BY <2>1 DEF Next, Edit, Route, Sync, Schedule, Tick, vars, TypeOK
<1>5. hook' \in BOOLEAN /\ now' \in Times
  BY CreationBounds DEF Next, Edit, Route, Control, Sync, Schedule, Tick, vars, timeVars, TypeOK, Times
<1>6. cache' \in [sandboxes : [Names -> Sandbox \union {None}], policies : [Scopes -> Policy]]
  <2>1. CASE Sync
    BY <2>1 DEF Sync, TypeOK
  <2> QED BY <2>1 DEF Next, Edit, Route, Control, Schedule, Tick, vars, TypeOK
<1>7. snaps' \subseteq Snapshot /\ dying' \subseteq Snapshot /\ erased' \subseteq Snapshot /\ faults' \in 0..MaxFaults
  <2>1. CASE \E r \in Requests : Route(r)
    BY <2>1, RouteTypes DEF Route, TypeOK
  <2>2. CASE Control
    BY <2>2, ControlTypes DEF Control, TypeOK
  <2>3. CASE Schedule
    BY <2>3, ScheduleTypes
  <2> QED BY <2>1, <2>2, <2>3 DEF Next, Edit, Sync, Tick, vars, snapVars, TypeOK
<1>8. backup' \in BackupType
  <2>1. CASE Schedule
    BY <2>1, ScheduleTypes
  <2>2. CASE Tick
    <3>1. backup.next + Interval \in Nat
      BY CreationBounds DEF BackupType
    <3> QED BY <2>2, <3>1 DEF Tick, BackupType
  <2> QED BY <2>1, <2>2 DEF Next, Edit, Route, Control, Sync, vars, timeVars
<1>9. \A r \in Requests : /\ requests'[r].pc \in Stations /\ requests'[r].policy \in Policy
                          /\ requests'[r].pc = "create" => requests'[r].next \in DOMAIN requests'[r].items
  BY <1>2 DEF RequestsOk, RequestType, Ready
<1>10. TypeOK'
  BY <1>1, <1>3, <1>4, <1>5, <1>6, <1>7, <1>8, <1>9 DEF TypeOK, Stations, BackupType
<1> QED BY <1>2, <1>8, <1>10

-----------------------------------------------------------------------------
(* What a step does to the snapshots.                                      *)

\* Why a snapshot that was kept is deleted: a clone failed, or it is too old.
CleanedUp(s) == \E r \in Requests : requests[r].pc = "cleanup" /\ s = requests[r].snap /\ requests'[r].pc = "done"
Pruned(s) == backup.pc = "prune" /\ s \in backup.todo /\ backup'.todo = backup.todo \ {s}

\* A new snapshot is of this moment, a clone's is that of its request; and
\* what is deleted otherwise than by a user is cleaned up or pruned.
SnapshotStep ==
  /\ erased \subseteq erased'
  /\ \A s \in snaps' :
       s \in snaps \/ (s.at = now /\ (s.kind = "clone" => s.by \in Requests /\ requests'[s.by].pc = "create"))
  /\ \A s \in dying' : s \in dying \/ (s \in erased' /\ s \in snaps) \/ CleanedUp(s) \/ Pruned(s)
  /\ \A s \in Lasting : s \in Lasting' \/ CleanedUp(s) \/ Pruned(s)
  /\ \A s \in Kept' : s \in Kept \/ s.at = now

LEMMA SnapshotSteps == TypeInv /\ [Next]_vars => SnapshotStep
<1> SUFFICES ASSUME TypeInv, [Next]_vars PROVE SnapshotStep
  OBVIOUS
<1>1. ASSUME UNCHANGED <<snapVars, erased>>
      PROVE  SnapshotStep
  <2>1. snaps' = snaps /\ dying' = dying /\ erased' = erased
    BY <1>1 DEF snapVars
  <2>2. Kept' = Kept
    BY <2>1 DEF Kept
  <2>3. Lasting' = Lasting
    BY <2>1, <2>2 DEF Lasting
  <2>4. SnapshotStep
    BY <2>1, <2>2, <2>3 DEF SnapshotStep
  <2> QED BY <2>4
<1>2. ASSUME NEW r \in Requests, Route(r)
      PROVE  SnapshotStep
  <2>1. erased' = erased
    BY <1>2 DEF Route
  <2>2. CASE Receive(r) \/ Lookup(r) \/ ReadCluster(r) \/ ReadNamespace(r) \/ List(r) \/ Create(r)
    <3>1. UNCHANGED snapVars
      BY <2>2 DEF Receive, ReceiveCreate, ReceiveBulk, ReceiveApply, ReceiveClone, ReceiveBackup, ReceiveRestore, Open,
                  Lookup, ReadCluster, ReadNamespace, List, Create
    <3> QED BY <1>1, <2>1, <3>1
  <2>3. CASE SnapshotSource(r) \/ CreateBackup(r)
    <3>1. /\ dying' = dying
          /\ \/ snaps' = snaps
             \/ \E k \in {"clone", "backup"} :
                  /\ snaps' = snaps \union {Named(k, requests[r].source, r)}
                  /\ k = "clone" => requests'[r].pc = "create"
      BY <2>3 DEF SnapshotSource, CreateBackup, Snap, TypeInv, RequestsOk, RequestType
    <3>2. ASSUME NEW k PROVE LET s == Named(k, requests[r].source, r) IN s.at = now /\ s.by = r /\ s.kind = k
      BY DEF Named
    <3> QED BY <2>1, <3>1, <3>2 DEF SnapshotStep, Lasting, Kept
  <2>4. CASE Cleanup(r)
    <3>1. /\ snaps' = snaps /\ (dying' = dying \/ dying' = dying \union {requests[r].snap})
          /\ requests[r].pc = "cleanup" /\ requests'[r].pc = "done"
      BY <2>4 DEF Cleanup, Become, Mark, TypeInv, RequestsOk, RequestType
    <3>2. CleanedUp(requests[r].snap)
      BY <3>1 DEF CleanedUp
    <3> QED BY <2>1, <3>1, <3>2 DEF SnapshotStep, Lasting, Kept
  <2> QED BY <1>2, <2>2, <2>3, <2>4 DEF Route
<1>3. CASE Control
  <2>1. CASE \E n \in Names : Claim(n) \/ Provision(n) \/ Hydrate(n) \/ Start(n) \/ Fail(n) \/ Resume(n) \/ Delete(n)
    BY <1>1, <1>3, <2>1 DEF Control, Claim, Provision, Hydrate, Start, Fail, Resume, Delete
  <2>2. ASSUME NEW s \in snaps, Expire(s)
        PROVE  SnapshotStep
    BY <1>3, <2>2 DEF Control, Expire, SnapshotStep, Lasting, Kept
  <2> QED BY <1>3, <2>1, <2>2 DEF Control
<1>4. CASE Schedule
  <2>1. CASE StartPass \/ ListExpired \/ EndPass \/ Crash
    BY <1>1, <2>1 DEF StartPass, ListExpired, EndPass, Crash
  <2>2. ASSUME NEW n \in Names, BackUp(n)
        PROVE  SnapshotStep
    <3>1. /\ dying' = dying /\ erased' = erased
          /\ snaps' = snaps \/ snaps' = snaps \union {Named("backup", n, None)}
      BY <2>2 DEF BackUp
    <3>2. Named("backup", n, None).at = now /\ Named("backup", n, None).kind = "backup"
      BY DEF Named
    <3> QED BY <3>1, <3>2 DEF SnapshotStep, Lasting, Kept
  <2>3. ASSUME NEW s \in backup.todo, Prune(s)
        PROVE  SnapshotStep
    <3>1. /\ snaps' = snaps /\ erased' = erased /\ dying' \subseteq dying \union {s} /\ dying \subseteq dying'
          /\ backup.pc = "prune" /\ backup'.todo = backup.todo \ {s}
      BY <2>3 DEF Prune, TypeInv, BackupType
    <3>2. Pruned(s)
      BY <3>1 DEF Pruned
    <3> QED BY <3>1, <3>2 DEF SnapshotStep, Lasting, Kept
  <2>4. ASSUME NEW s \in snaps, DeleteBackup(s)
        PROVE  SnapshotStep
    BY <2>4 DEF DeleteBackup, Mark, SnapshotStep, Lasting, Kept
  <2> QED BY <1>4, <2>1, <2>2, <2>3, <2>4 DEF Schedule
<1> QED BY <1>1, <1>2, <1>3, <1>4 DEF Next, Edit, Sync, Tick, vars

\* A failure is never taken back.
LEMMA FaultsStay == ASSUME TypeInv, [Next]_vars PROVE faults' = 0 => faults = 0 /\ faults' = faults
<1>1. ASSUME Fault PROVE faults' # 0
  BY <1>1 DEF Fault, TypeInv, TypeOK
<1>2. faults' = faults \/ Fault
  BY DEF Next, Edit, Sync, Tick, vars, Control, Fail, Schedule, StartPass, ListExpired, EndPass, Crash, BackUp, Prune,
         DeleteBackup, Route, Receive, ReceiveCreate, ReceiveBulk, ReceiveApply, ReceiveClone, ReceiveBackup, ReceiveRestore,
         Open, SnapshotSource, CreateBackup, Snap, Lookup, ReadCluster, ReadNamespace, List, Create, Cleanup
<1> QED BY <1>1, <1>2

-----------------------------------------------------------------------------
(* The scheduler.                                                          *)

\* The numbers of the scheduler.
LEMMA Numbers ==
  ASSUME TypeInv
  PROVE  /\ now \in Nat /\ backup.next \in Nat /\ Interval \in Nat /\ Interval > 0 /\ Retention \in Nat
         /\ \A s \in snaps \union dying \union erased : s \in Snapshot /\ s.at \in Nat
         /\ \A n \in Names : vols[n].born \in Nat
  BY CreationBounds DEF TypeInv, TypeOK, BackupType, Times, Snapshot, Volume

\* The steps of a pass and of the clock.
LEMMA PassSteps ==
  ASSUME TypeInv, [Next]_vars
  PROVE  \/ UNCHANGED <<now, backup>>
         \/ Schedule /\ now' = now /\ vols' = vols
         \/ Tick /\ UNCHANGED <<snapVars, erased, vols, faults>>
  BY DEF Next, Edit, Route, Control, Sync, Schedule, vars, timeVars, Tick

LEMMA PassesStep ==
  TypeInv /\ PassesInTime /\ PassOk /\ [Next]_vars => PassesInTime' /\ PassOk'
<1> SUFFICES ASSUME TypeInv, PassesInTime, PassOk, [Next]_vars
             PROVE  PassesInTime' /\ PassOk'
  OBVIOUS
<1> USE Numbers
<1>0. backup \in BackupType
  BY DEF TypeInv
<1>1. CASE UNCHANGED <<now, backup>>
  BY <1>1 DEF PassesInTime, PassOk, Pending
<1>2. ASSUME now' = now, backup'.next = backup.next, backup.pc # "off", Pending, backup'.pc \in {"idle", "snapshot", "prune"},
             backup'.due = FALSE, backup'.pc = "snapshot" => backup'.todo \subseteq Names,
             backup'.pc = "prune" => \A s \in backup'.todo : s \in Snapshot /\ s.kind = "backup" /\ s.at + Retention <= now
      PROVE  PassesInTime' /\ PassOk'
  BY <1>2 DEF PassesInTime, PassOk, Pending
<1>3. CASE Tick
  <2>1. backup.pc = "idle" /\ ~Pending /\ now' = now + 1
    BY <1>3 DEF Tick, Pending
  <2>2. \/ now' = backup.next /\ backup'.pc = "idle" /\ backup'.due = TRUE /\ backup'.next = backup.next + Interval
        \/ now' # backup.next /\ backup' = backup
    BY <1>0, <1>3, <2>1 DEF Tick, BackupType
  <2> QED BY <2>1, <2>2 DEF PassesInTime, PassOk, Pending
<1>4. CASE Schedule /\ now' = now
  <2>1. CASE Crash
    BY <1>4, <2>1 DEF Crash, NewScheduler, PassesInTime, PassOk, Pending
  <2>2. CASE \E s \in snaps : DeleteBackup(s)
    BY <1>1, <1>4, <2>2 DEF DeleteBackup
  <2>3. CASE StartPass
    <3>1. /\ backup'.next = backup.next /\ backup'.pc = "snapshot" /\ backup'.due = FALSE /\ backup'.todo \subseteq Names
          /\ backup.pc = "idle" /\ backup.due
      BY <1>0, <2>3 DEF StartPass, BackupType, Managed
    <3>2. Pending
      BY <3>1 DEF Pending
    <3>3. PassesInTime'
      BY <1>4, <3>1, <3>2 DEF PassesInTime, Pending
    <3>4. PassOk'
      BY <3>1 DEF PassOk
    <3> QED BY <3>3, <3>4
  <2>4. CASE ListExpired
    <3>1. /\ backup'.next = backup.next /\ backup'.due = backup.due /\ backup.pc = "snapshot"
          /\ \/ backup'.pc = "prune" /\ backup'.todo = Expired
             \/ backup'.pc = "idle"
      BY <1>0, <2>4 DEF ListExpired, BackupType
    <3>2. \A s \in Expired : s \in Snapshot /\ s.kind = "backup" /\ s.at + Retention <= now
      BY DEF Expired, TypeInv, TypeOK
    <3>3. PassOk'
      BY <1>4, <3>1, <3>2 DEF PassOk
    <3>4. PassesInTime'
      BY <1>4, <3>1 DEF PassesInTime, Pending
    <3> QED BY <3>3, <3>4
  <2>5. CASE EndPass
    <3>1. backup'.next = backup.next /\ backup'.due = backup.due /\ backup.pc = "prune" /\ backup'.pc = "idle"
      BY <1>0, <2>5 DEF EndPass, BackupType
    <3> QED BY <1>4, <3>1 DEF PassesInTime, PassOk, Pending
  <2>6. CASE (\E n \in Names : BackUp(n)) \/ (\E s \in backup.todo : Prune(s))
    <3>1. /\ backup'.next = backup.next /\ backup'.due = backup.due /\ backup'.pc = backup.pc
          /\ backup'.todo \subseteq backup.todo /\ backup.pc \in {"snapshot", "prune"}
      BY <1>0, <2>6 DEF BackUp, Prune, BackupType
    <3> QED BY <1>4, <3>1 DEF PassesInTime, PassOk, Pending
  <2> QED BY <1>4, <2>1, <2>2, <2>3, <2>4, <2>5, <2>6 DEF Schedule
<1> QED BY <1>1, <1>3, <1>4, PassSteps

LEMMA DyingStep ==
  TypeInv /\ PassOk /\ DyingForAReason /\ [Next]_vars => DyingForAReason'
<1> SUFFICES ASSUME TypeInv, PassOk, DyingForAReason, [Next]_vars, NEW s \in dying'
             PROVE  s.kind = "clone" \/ s \in erased' \/ s.at + Retention <= now'
  BY DEF DyingForAReason
<1>1. SnapshotStep
  BY SnapshotSteps
<1>2. now' \in Nat /\ now <= now'
  <2>1. now' = now \/ now' = now + 1
    BY PassSteps DEF Tick
  <2> QED BY <2>1, Numbers
<1>3. CASE s \in dying
  <2>1. s.at \in Nat
    BY <1>3, Numbers
  <2> QED BY <1>1, <1>2, <1>3, <2>1, Numbers DEF DyingForAReason, SnapshotStep
<1>4. CASE CleanedUp(s)
  <2>1. s.kind = "clone"
    BY <1>4 DEF CleanedUp, TypeInv, RequestsOk, Ready
  <2> QED BY <2>1
<1>5. CASE Pruned(s)
  <2>1. s \in Snapshot /\ s.at + Retention <= now
    BY <1>5 DEF Pruned, PassOk
  <2>2. s.at \in Nat
    BY <2>1 DEF Snapshot, Times
  <2> QED BY <1>2, <2>1, <2>2, Numbers
<1> QED BY <1>1, <1>3, <1>4, <1>5 DEF SnapshotStep

LEMMA OldOnesStep ==
  TypeInv /\ PassesInTime /\ PassOk /\ OldOnesGo /\ [Next]_vars => OldOnesGo'
<1> SUFFICES ASSUME TypeInv, PassesInTime, PassOk, OldOnesGo, [Next]_vars,
                    faults' = 0, ~Pending' \/ backup'.pc = "prune", NEW s \in Kept', s.kind = "backup"
             PROVE  backup'.next <= s.at + Retention + Interval \/ (backup'.pc = "prune" /\ s \in backup'.todo)
  BY DEF OldOnesGo
<1> USE Numbers
<1>0. faults = 0 /\ backup \in BackupType /\ (s \in Kept \/ s.at = now) /\ s.at \in Nat
  <2>1. SnapshotStep
    BY SnapshotSteps
  <2>2. s \in Kept \/ s.at = now
    BY <2>1 DEF SnapshotStep
  <2>3. \A k \in Kept : k.at \in Nat
    BY DEF Kept
  <2> QED BY <2>2, <2>3, FaultsStay DEF TypeInv
<1>f. ~Fault
  BY <1>0 DEF Fault
<1>1. ASSUME backup'.next = backup.next, backup.pc # "off", s.at = now
      PROVE  backup'.next <= s.at + Retention + Interval
  <2>1. backup.next <= now + Interval
    BY <1>1 DEF PassesInTime
  <2> QED BY <1>1, <2>1
<1>2. CASE UNCHANGED <<now, backup>>
  <2>1. ~Pending \/ backup.pc = "prune"
    BY <1>2 DEF Pending
  <2>2. backup.pc # "off"
    BY <2>1 DEF Pending
  <2> QED BY <1>0, <1>1, <1>2, <2>1, <2>2 DEF OldOnesGo
<1>3. CASE Tick /\ UNCHANGED <<snapVars, erased, vols, faults>>
  <2>1. s \in Kept
    BY <1>3 DEF Kept, snapVars
  <2>2. ~Pending /\ backup' = backup
    BY <1>0, <1>3 DEF Tick, Pending, BackupType
  <2> QED BY <1>0, <2>1, <2>2 DEF OldOnesGo, Pending
<1>4. CASE Schedule /\ now' = now
  <2>1. CASE StartPass \/ Crash \/ \E n \in Names : BackUp(n)
    <3>1. backup'.pc \in {"idle", "snapshot"} /\ (backup'.pc = "idle" => backup'.due)
      <4>1. CASE StartPass
        BY <1>0, <1>f, <4>1 DEF StartPass, BackupType
      <4>2. CASE Crash
        BY <4>2 DEF Crash, NewScheduler
      <4>3. CASE \E n \in Names : BackUp(n)
        BY <1>0, <4>3 DEF BackUp, BackupType
      <4> QED BY <2>1, <4>1, <4>2, <4>3
    <3> QED BY <3>1 DEF Pending
  <2>2. CASE ListExpired
    <3>1. backup'.pc = "prune" /\ backup'.todo = Expired /\ snaps' = snaps /\ dying' = dying /\ backup'.next = backup.next
      BY <1>0, <1>f, <2>2 DEF ListExpired, BackupType, snapVars
    <3>2. s \in snaps
      BY <3>1 DEF Kept
    <3>3. CASE s.at + Retention <= now
      BY <3>1, <3>2, <3>3 DEF Expired
    <3>4. CASE ~(s.at + Retention <= now)
      <4>1. backup.next = now + Interval
        BY <2>2 DEF ListExpired, PassesInTime, Pending
      <4> QED BY <1>0, <3>1, <3>4, <4>1
    <3> QED BY <3>3, <3>4
  <2>3. CASE EndPass
    <3>1. backup.pc = "prune" /\ backup.todo = {} /\ backup'.next = backup.next /\ UNCHANGED snapVars
      BY <1>0, <2>3 DEF EndPass, BackupType
    <3>2. s \in Kept
      BY <3>1 DEF Kept, snapVars
    <3> QED BY <1>0, <3>1, <3>2 DEF OldOnesGo
  <2>4. ASSUME NEW t \in backup.todo, Prune(t)
        PROVE  backup'.next <= s.at + Retention + Interval \/ (backup'.pc = "prune" /\ s \in backup'.todo)
    <3>1. /\ backup.pc = "prune" /\ backup'.pc = "prune" /\ backup'.next = backup.next /\ backup'.todo = backup.todo \ {t}
          /\ snaps' = snaps
      BY <1>0, <2>4 DEF Prune, BackupType
    <3>2. dying' = dying \union ({t} \intersect snaps)
      BY <1>0, <2>4 DEF Prune, Fault
    <3>3. s \in Kept /\ s # t
      BY <3>1, <3>2 DEF Kept
    <3> QED BY <1>0, <3>1, <3>3 DEF OldOnesGo
  <2>5. CASE \E t \in snaps : DeleteBackup(t)
    <3>1. UNCHANGED <<now, backup>>
      BY <1>4, <2>5 DEF DeleteBackup
    <3> QED BY <1>2, <3>1
  <2> QED BY <1>4, <2>1, <2>2, <2>3, <2>4, <2>5 DEF Schedule
<1> QED BY <1>2, <1>3, <1>4, PassSteps

\* A cover is not pruned in the pass that relies on it.
LEMMA CoverStays ==
  ASSUME TypeInv, PassesInTime, PassOk, [Next]_vars, Retention >= Interval, backup'.next = backup.next,
         NEW n \in Names, Covered(n)
  PROVE  Covered(n)'
<1> USE Numbers
<1>1. PICK s \in Lasting : s.kind = "backup" /\ s.of = n /\ backup.next <= s.at + Interval
  BY DEF Covered
<1>2. ~CleanedUp(s)
  BY <1>1 DEF CleanedUp, TypeInv, RequestsOk, Ready
<1>3. ~Pruned(s)
  <2> SUFFICES ASSUME Pruned(s) PROVE FALSE
    OBVIOUS
  <2>1. s.at + Retention <= now /\ s.at \in Nat
    BY <1>1 DEF Pruned, PassOk, Lasting, Kept
  <2>2. backup.next = now + Interval
    BY DEF Pruned, PassesInTime, Pending
  <2> QED BY <1>1, <2>1, <2>2
<1>4. s \in Lasting'
  BY <1>1, <1>2, <1>3, SnapshotSteps DEF SnapshotStep
<1> QED BY <1>1, <1>4 DEF Covered

LEMMA CoversStep ==
  TypeInv /\ PassesInTime /\ PassOk /\ DyingForAReason /\ VolumesCovered /\ [Next]_vars => VolumesCovered'
<1> SUFFICES ASSUME TypeInv, PassesInTime, PassOk, DyingForAReason, VolumesCovered, [Next]_vars,
                    faults' = 0, Retention >= Interval, ~Pending' \/ backup'.pc \in {"snapshot", "prune"},
                    NEW n \in Names, vols'[n].kind = "built", vols'[n].born + Interval < backup'.next
             PROVE  Covered(n)' \/ (backup'.pc = "snapshot" /\ n \in backup'.todo)
  BY DEF VolumesCovered
<1> USE Numbers
<1>0. faults = 0 /\ backup \in BackupType
  BY FaultsStay DEF TypeInv
<1>f. ~Fault
  BY <1>0 DEF Fault
<1>1. CASE UNCHANGED <<now, backup>>
  <2>1. ~Pending \/ backup.pc \in {"snapshot", "prune"}
    BY <1>1 DEF Pending
  <2>2. backup.next <= now + Interval
    BY <2>1 DEF Pending, PassesInTime
  <2>3. vols[n].kind = "built" /\ vols[n].born = vols'[n].born
    <3>1. CASE Control
      <4>1. vols'[n].born # now
        BY <1>1, <2>2
      <4> QED BY <3>1, <4>1, ControlTypes
    <3>2. CASE ~Control
      BY <3>2 DEF Next, Edit, Route, Sync, Schedule, Tick, vars
    <3> QED BY <3>1, <3>2
  <2>4. Covered(n) \/ (backup.pc = "snapshot" /\ n \in backup.todo)
    BY <1>0, <1>1, <2>1, <2>3 DEF VolumesCovered
  <2> QED BY <1>1, <2>4, CoverStays
<1>2. CASE Tick /\ UNCHANGED <<snapVars, erased, vols, faults>>
  <2>1. ~Pending /\ backup' = backup /\ backup.pc = "idle"
    BY <1>0, <1>2 DEF Tick, Pending, BackupType
  <2>2. Covered(n)
    BY <1>0, <1>2, <2>1 DEF VolumesCovered
  <2> QED BY <2>1, <2>2, CoverStays
<1>3. CASE Schedule /\ now' = now /\ vols' = vols
  <2>1. CASE Crash
    <3>1. backup'.pc = "idle" /\ backup'.due
      BY <2>1 DEF Crash, NewScheduler
    <3> QED BY <3>1 DEF Pending
  <2>2. CASE StartPass
    <3>1. backup'.pc = "snapshot" /\ backup'.todo = Managed
      BY <1>0, <1>f, <2>2 DEF StartPass, BackupType
    <3> QED BY <1>3, <3>1 DEF Managed
  <2>3. CASE ListExpired \/ EndPass \/ \E s \in backup.todo : Prune(s)
    <3>1. /\ backup'.next = backup.next /\ backup.pc \in {"snapshot", "prune"}
          /\ (backup.pc = "snapshot" => backup.todo = {})
      BY <1>0, <2>3 DEF ListExpired, EndPass, Prune, BackupType
    <3>2. Covered(n)
      BY <1>0, <1>3, <3>1 DEF VolumesCovered
    <3> QED BY <3>1, <3>2, CoverStays
  <2>4. ASSUME NEW m \in Names, BackUp(m)
        PROVE  Covered(n)' \/ (backup'.pc = "snapshot" /\ n \in backup'.todo)
    <3>1. /\ backup.pc = "snapshot" /\ backup'.pc = "snapshot" /\ backup'.next = backup.next
          /\ backup'.todo = backup.todo \ {m} /\ dying' = dying /\ erased' = erased
          /\ \/ snaps' = snaps \union {Named("backup", m, None)}
             \/ Clashes("backup", m) /\ snaps' = snaps
      BY <1>0, <2>4 DEF BackUp, BackupType, Fault
    <3>2. Covered(n) \/ n \in backup.todo
      BY <1>0, <1>3, <3>1 DEF VolumesCovered
    <3>3. CASE Covered(n)
      BY <3>1, <3>3, CoverStays
    <3>4. CASE n \in backup.todo /\ n # m
      BY <3>1, <3>4
    <3>5. CASE n = m
      <4>1. backup.next = now + Interval
        BY <3>1 DEF PassesInTime, Pending
      <4>2. PICK s \in snaps' : s.kind = "backup" /\ s.of = n /\ s.at = now
        <5>1. LET s == Named("backup", m, None) IN s.kind = "backup" /\ s.of = m /\ s.at = now
          BY DEF Named
        <5> QED BY <3>1, <3>5, <5>1 DEF Clashes
      <4>3. s \in dying => s \in erased
        BY <4>2 DEF DyingForAReason
      <4>4. s \in Lasting'
        BY <3>1, <4>2, <4>3 DEF Lasting, Kept
      <4> QED BY <3>1, <4>1, <4>2, <4>4 DEF Covered
    <3> QED BY <3>2, <3>3, <3>4, <3>5
  <2>5. CASE \E s \in snaps : DeleteBackup(s)
    <3>1. UNCHANGED <<now, backup>>
      BY <1>3, <2>5 DEF DeleteBackup
    <3> QED BY <1>1, <3>1
  <2> QED BY <1>3, <2>1, <2>2, <2>3, <2>4, <2>5 DEF Schedule
<1> QED BY <1>1, <1>2, <1>3, PassSteps

-----------------------------------------------------------------------------
(* Clones.                                                                 *)

\* A request moves forward, and one that is done stays where it is; a clone
\* creates its sandbox after it took its snapshot.
RequestStep(r) ==
  /\ requests[r].pc \in {"create", "cleanup", "done"} => requests'[r].pc \in {"create", "cleanup", "done"}
  /\ requests[r].pc = "done" => requests'[r] = requests[r]
  /\ requests'[r].pc = "create" /\ requests'[r].kind = "clone" /\ requests'[r] # requests[r] =>
       /\ requests[r].pc = "snapshot" /\ requests'[r].snap \in snaps' /\ dying' = dying
       /\ requests'[r].snap.by = r /\ requests'[r].snap.kind = "clone"

LEMMA RequestSteps == ASSUME TypeInv, [Next]_vars, NEW r \in Requests PROVE RequestStep(r)
<1>0. requests \in [Requests -> RequestType] /\ requests[r] \in RequestType
  BY DEF TypeInv, RequestsOk
<1>1. CASE requests'[r] = requests[r]
  BY <1>1 DEF RequestStep
<1>2. CASE Receive(r)
  <2>1. PICK o \in Orders, pc \in {"cluster", "create", "snapshot", "lookup"} :
          /\ \E items : Open(r, o, pc, items)
          /\ pc = "create" => o.kind = "apply"
    BY <1>2 DEF Receive, ReceiveCreate, ReceiveBulk, ReceiveApply, ReceiveClone, ReceiveBackup, ReceiveRestore
  <2>2. requests[r].pc = "idle" /\ requests'[r].pc = pc /\ requests'[r].kind = o.kind
    BY <1>0, <2>1 DEF Open, RequestType
  <2> QED BY <2>1, <2>2 DEF RequestStep
<1>3. CASE SnapshotSource(r) \/ CreateBackup(r)
  <2> DEFINE s == Named("clone", requests[r].source, r)
  <2>1. /\ requests[r].pc = "snapshot" /\ dying' = dying
        /\ \/ requests'[r].pc = "done"
           \/ requests'[r].pc = "create" /\ requests'[r].snap = s /\ s \in snaps'
    BY <1>0, <1>3 DEF SnapshotSource, CreateBackup, Snap, Become, RequestType
  <2>2. s.by = r /\ s.kind = "clone"
    BY DEF Named
  <2> QED BY <2>1, <2>2 DEF RequestStep
<1>4. CASE Lookup(r) \/ ReadCluster(r) \/ ReadNamespace(r) \/ List(r)
  <2>1. /\ requests[r].pc \in {"lookup", "cluster", "namespace", "list"} /\ requests'[r].kind = requests[r].kind
    BY <1>0, <1>4 DEF Lookup, ReadCluster, ReadNamespace, List, Become, RequestType
  <2>2. requests[r].kind # "clone"
    BY <2>1 DEF TypeInv, RequestsOk, Ready
  <2> QED BY <2>1, <2>2 DEF RequestStep
<1>5. CASE Create(r)
  <2>1. PICK ok \in BOOLEAN : requests'[r] = After(requests[r], ok)
    BY <1>0, <1>5 DEF Create
  <2>2. /\ requests'[r].pc \in {"create", "cleanup", "done"} /\ requests'[r].kind = requests[r].kind
        /\ requests'[r].pc = "create" => requests[r].kind = "bulk"
    BY <1>0, <2>1 DEF After, RequestType
  <2>3. requests[r].pc = "create"
    BY <1>5 DEF Create
  <2> QED BY <2>2, <2>3 DEF RequestStep
<1>6. CASE Cleanup(r)
  <2>1. requests[r].pc = "cleanup" /\ requests'[r].pc = "done"
    BY <1>0, <1>6 DEF Cleanup, Become, RequestType
  <2> QED BY <2>1 DEF RequestStep
<1>7. CASE Route(r)
  BY <1>2, <1>3, <1>4, <1>5, <1>6, <1>7 DEF Route
<1>8. ASSUME NEW q \in Requests, Route(q), q # r
      PROVE  requests'[r] = requests[r]
  <2>1. CASE Receive(q)
    BY <1>0, <1>8, <2>1 DEF Receive, ReceiveCreate, ReceiveBulk, ReceiveApply, ReceiveClone, ReceiveBackup, ReceiveRestore, Open
  <2>2. CASE SnapshotSource(q) \/ CreateBackup(q)
    BY <1>0, <1>8, <2>2 DEF SnapshotSource, CreateBackup, Snap, Become
  <2>3. CASE Lookup(q) \/ ReadCluster(q) \/ ReadNamespace(q) \/ List(q) \/ Cleanup(q)
    BY <1>0, <1>8, <2>3 DEF Lookup, ReadCluster, ReadNamespace, List, Cleanup, Become
  <2>4. CASE Create(q)
    BY <1>0, <1>8, <2>4 DEF Create
  <2> QED BY <1>8, <2>1, <2>2, <2>3, <2>4 DEF Route
<1>9. CASE requests' = requests
  BY <1>1, <1>9
<1> QED BY <1>1, <1>7, <1>8, <1>9 DEF Next, Edit, Control, Sync, Schedule, Tick, vars, quotaVars

\* What the request of a clone holds on to is not taken by others.
LEMMA HeldStays ==
  ASSUME TypeInv, PassOk, [Next]_vars, NEW s \in Lasting, s.kind = "clone",
         s.by \in Requests, requests'[s.by].pc # "done" \/ requests[s.by].pc = "done"
  PROVE  s \in Lasting'
<1>1. ~CleanedUp(s)
  BY DEF CleanedUp, TypeInv, RequestsOk, Ready
<1>2. ~Pruned(s)
  BY DEF Pruned, PassOk
<1> QED BY <1>1, <1>2, SnapshotSteps DEF SnapshotStep

LEMMA ClonesStep ==
  TypeInv /\ PassOk /\ ClonesKeepSnapshots /\ [Next]_vars => ClonesKeepSnapshots'
<1> SUFFICES ASSUME TypeInv, PassOk, ClonesKeepSnapshots, [Next]_vars
             PROVE  ClonesKeepSnapshots'
  OBVIOUS
<1>0. SnapshotStep /\ \A r \in Requests : RequestStep(r)
  BY SnapshotSteps, RequestSteps
<1>1. ASSUME NEW s \in snaps' \union dying', s.kind = "clone"
      PROVE  s.by \in Requests /\ requests'[s.by].pc \in {"create", "cleanup", "done"}
  <2>1. CASE s \in snaps \union dying
    BY <1>0, <1>1, <2>1 DEF ClonesKeepSnapshots, RequestStep
  <2>2. CASE CleanedUp(s)
    <3>1. PICK r \in Requests : requests[r].pc = "cleanup" /\ s = requests[r].snap /\ requests'[r].pc = "done"
      BY <2>2 DEF CleanedUp
    <3>2. s.by = r
      BY <3>1 DEF TypeInv, RequestsOk, Ready
    <3> QED BY <3>1, <3>2
  <2>3. CASE Pruned(s)
    BY <1>1, <2>3 DEF Pruned, PassOk
  <2> QED BY <1>0, <1>1, <2>1, <2>2, <2>3 DEF SnapshotStep
<1>2. ASSUME faults' = 0, NEW r \in Requests, requests'[r].kind = "clone", requests'[r].pc = "create"
      PROVE  requests'[r].snap \in Lasting'
  <2>1. faults = 0
    BY <1>2, FaultsStay
  <2>2. CASE requests'[r] = requests[r]
    <3> DEFINE s == requests[r].snap
    <3>1. s \in Lasting
      BY <1>2, <2>1, <2>2 DEF ClonesKeepSnapshots
    <3>2. s.kind = "clone" /\ s.by = r
      BY <1>2, <2>2 DEF TypeInv, RequestsOk, Ready
    <3> QED BY <1>2, <2>2, <3>1, <3>2, HeldStays
  <2>3. CASE requests'[r] # requests[r]
    <3>1. /\ requests[r].pc = "snapshot" /\ requests'[r].snap \in snaps' /\ dying' = dying
          /\ requests'[r].snap.by = r /\ requests'[r].snap.kind = "clone"
      BY <1>0, <1>2, <2>3 DEF RequestStep
    <3>2. requests'[r].snap \notin dying
      BY <3>1 DEF ClonesKeepSnapshots
    <3> QED BY <3>1, <3>2 DEF Lasting, Kept
  <2> QED BY <2>2, <2>3
<1>3. ASSUME faults' = 0, NEW n \in Names, sandboxes'[n] # None, sandboxes'[n].label = "cloned"
      PROVE  LET s == sandboxes'[n].snapshot
             IN  s \in Lasting' /\ s \in Snapshot /\ s.kind = "clone" /\ s.by \in Requests /\ requests'[s.by].pc = "done"
  <2>1. faults = 0
    BY <1>3, FaultsStay
  <2>2. ASSUME sandboxes[n] # None, sandboxes'[n].snapshot = sandboxes[n].snapshot, sandboxes[n].label = "cloned"
        PROVE  LET s == sandboxes'[n].snapshot
               IN  s \in Lasting' /\ s \in Snapshot /\ s.kind = "clone" /\ s.by \in Requests /\ requests'[s.by].pc = "done"
    <3> DEFINE s == sandboxes[n].snapshot
    <3>1. s \in Lasting /\ s \in Snapshot /\ s.kind = "clone" /\ s.by \in Requests /\ requests[s.by].pc = "done"
      BY <2>1, <2>2 DEF ClonesKeepSnapshots
    <3>2. requests'[s.by].pc = "done"
      BY <1>0, <3>1 DEF RequestStep
    <3>3. s \in Lasting'
      BY <3>1, HeldStays
    <3> QED BY <2>2, <3>1, <3>2, <3>3
  <2>3. CASE sandboxes'[n] = sandboxes[n]
    BY <1>3, <2>2, <2>3
  <2>4. CASE Control
    BY <1>3, <2>2, <2>4, ControlTypes
  <2>5. ASSUME NEW r \in Requests, Create(r), sandboxes'[n] # sandboxes[n]
        PROVE  LET s == sandboxes'[n].snapshot
               IN  s \in Lasting' /\ s \in Snapshot /\ s.kind = "clone" /\ s.by \in Requests /\ requests'[s.by].pc = "done"
    <3>0. requests \in [Requests -> RequestType] /\ requests[r] \in RequestType /\ Ready(r, requests[r])
          /\ sandboxes \in [Names -> Sandbox \union {None}]
      BY DEF TypeInv, RequestsOk, TypeOK
    <3>1. /\ sandboxes'[n] = Built(requests[r]) /\ requests'[r] = After(requests[r], TRUE) /\ requests[r].pc = "create"
          /\ UNCHANGED snapVars
      <4>1. ~Fault
        BY <1>3, <2>1 DEF Fault
      <4>2. requests[r].items[requests[r].next].name \in Names
        <5>1. requests[r].pc = "create"
          BY <2>5 DEF Create
        <5>2. requests[r].items \in Seq(Item) /\ requests[r].next \in DOMAIN requests[r].items
          BY <3>0, <5>1 DEF RequestType, Ready
        <5>3. requests[r].items[requests[r].next] \in Item
          BY <5>2
        <5> QED BY <5>3 DEF Item
      <4>3. /\ \/ sandboxes' = sandboxes
               \/ /\ sandboxes' = [sandboxes EXCEPT ![requests[r].items[requests[r].next].name] = Built(requests[r])]
                  /\ requests' = [requests EXCEPT ![r] = After(requests[r], TRUE)]
            /\ requests[r].pc = "create" /\ UNCHANGED snapVars
        BY <2>5, <4>1 DEF Create
      <4> QED BY <2>5, <3>0, <4>2, <4>3
    <3>2. requests[r].kind = "clone" /\ sandboxes'[n].snapshot = requests[r].snap
      BY <1>3, <3>1 DEF Built, Label
    <3>3. requests'[r].pc = "done"
      BY <3>0, <3>1, <3>2 DEF After, RequestType
    <3>4. requests[r].snap \in Lasting /\ requests[r].snap \in Snapshot /\ requests[r].snap.kind = "clone" /\ requests[r].snap.by = r
      BY <2>1, <3>0, <3>1, <3>2 DEF ClonesKeepSnapshots, Ready
    <3>5. requests[r].snap \in Lasting'
      BY <1>0, <3>1, <3>4 DEF Lasting, Kept, snapVars, SnapshotStep
    <3> QED BY <3>2, <3>3, <3>4, <3>5
  <2>6. sandboxes'[n] = sandboxes[n] \/ Control \/ \E r \in Requests : Create(r)
    BY DEF Next, Edit, Sync, Schedule, Tick, vars, Route, Receive, ReceiveCreate, ReceiveBulk, ReceiveApply, ReceiveClone,
           ReceiveBackup, ReceiveRestore, Open, SnapshotSource, CreateBackup, Snap, Lookup, ReadCluster, ReadNamespace, List,
           Cleanup
  <2> QED BY <2>3, <2>4, <2>5, <2>6
<1> QED BY <1>1, <1>2, <1>3 DEF ClonesKeepSnapshots

LEMMA SnapshotInit == Init => SnapshotInv
<1> SUFFICES ASSUME Init PROVE SnapshotInv
  OBVIOUS
<1>1. snaps = {} /\ dying = {} /\ erased = {} /\ now = 0 /\ NewScheduler.next = 0 + Interval
  BY DEF Init, NewScheduler
<1>2. \/ backup.pc = "idle" /\ backup.due = TRUE /\ backup.next = Interval
      \/ backup.pc = "off"
  BY <1>1, CreationBounds DEF Init, NewScheduler
<1>3. /\ \A n \in Names : vols[n].kind = "none" /\ sandboxes[n] = None
      /\ \A r \in Requests : requests[r].pc = "idle"
  BY DEF Init, NoVolume, NewRequest
<1>4. PassesInTime /\ PassOk
  BY <1>1, <1>2, CreationBounds DEF PassesInTime, PassOk, Pending
<1>5. DyingForAReason /\ OldOnesGo
  BY <1>1 DEF DyingForAReason, OldOnesGo, Kept
<1>6. VolumesCovered /\ ClonesKeepSnapshots
  BY <1>1, <1>3 DEF VolumesCovered, ClonesKeepSnapshots
<1> QED BY <1>4, <1>5, <1>6 DEF SnapshotInv

LEMMA SnapshotInvStep == TypeInv /\ SnapshotInv /\ [Next]_vars => SnapshotInv'
  BY PassesStep, DyingStep, OldOnesStep, CoversStep, ClonesStep DEF SnapshotInv

LEMMA SnapshotsFit == TypeInv /\ SnapshotInv => SnapshotsKept
<1> SUFFICES ASSUME TypeInv, SnapshotInv PROVE SnapshotsKept
  OBVIOUS
<1> USE Numbers DEF SnapshotInv
<1>1. ASSUME Rested
      PROVE  faults = 0 /\ ~Pending /\ now < backup.next
  BY <1>1 DEF Rested, Pending, PassesInTime
<1>2. RetentionHolds
  <2> SUFFICES ASSUME Rested, NEW s \in Kept, s.kind = "backup"
               PROVE  now < s.at + Retention + Interval
    BY DEF RetentionHolds
  <2>1. backup.next <= s.at + Retention + Interval
    BY <1>1 DEF OldOnesGo, Rested
  <2>2. s.at \in Nat
    BY DEF Kept
  <2> QED BY <1>1, <2>1, <2>2
<1>3. RecentBackup
  <2> SUFFICES ASSUME Rested, Retention >= Interval,
                      NEW n \in Names, vols[n].kind = "built", vols[n].born + Interval <= now
               PROVE  \E s \in Kept \union erased : s.kind = "backup" /\ s.of = n /\ now < s.at + Interval
    BY DEF RecentBackup
  <2>1. vols[n].born + Interval < backup.next
    BY <1>1
  <2>2. Covered(n)
    BY <1>1, <2>1 DEF VolumesCovered, Rested
  <2>3. PICK s \in Kept \union erased : s.kind = "backup" /\ s.of = n /\ backup.next <= s.at + Interval
    BY <2>2 DEF Covered, Lasting
  <2>4. now < s.at + Interval
    <3>1. s.at \in Nat
      BY DEF Kept
    <3> QED BY <1>1, <2>3, <3>1
  <2> QED BY <2>3, <2>4
<1>4. CloneKeepsItsSnapshot
  BY DEF CloneKeepsItsSnapshot, ClonesKeepSnapshots, Phase, Lasting
<1> QED BY <1>2, <1>3, <1>4 DEF SnapshotsKept, TypeInv

\* Whatever users ask for and wherever the scheduler crashes: between passes no
\* backup is older than the retention and an interval, every volume that is
\* old enough has a recent one, and no clone loses the snapshot it is made from
\* (scheduler.go:104-191, handlers.go:396-436). For every retention, interval
\* and number of requests.
THEOREM SnapshotsAreKept == Spec => []SnapshotsKept
<1>1. Init => TypeInv /\ StoreInv /\ SnapshotInv
  BY TypeInit, StoreInvInit, SnapshotInit
<1>2. TypeInv /\ StoreInv /\ SnapshotInv /\ [Next]_vars => TypeInv' /\ StoreInv' /\ SnapshotInv'
  BY TypeStep, StoreInvStep, SnapshotInvStep
<1> QED BY <1>1, <1>2, SnapshotsFit, PTL DEF Spec

-----------------------------------------------------------------------------
(* The quota at the webhook.                                               *)

\* The webhook counts a sandbox more than there are: one more is within.
LEMMA OneMoreFits ==
  ASSUME TypeInv, NEW n \in Names, NEW sb, sandboxes' = [sandboxes EXCEPT ![n] = sb], hook, Current, HookAdmits(sb),
         Effective(store.policies).total # 0
  PROVE  Counted("total")' <= Effective(store.policies).total
<1> DEFINE p == Effective(store.policies)
           before == {m \in Names : Counts(sandboxes, m)}
           after == {m \in Names : Counts(sandboxes', m)}
<1>1. p \in Policy
  BY MergeType DEF Effective, TypeInv, TypeOK, Scopes
<1>2. Cardinality(before) < p.total
  <2>1. ~IsEmpty(p)
    BY DEF IsEmpty, NoPolicy
  <2>2. Check(p, CountUsage(sandboxes, sb.owner), sb)
    BY <2>1 DEF HookAdmits, Current
  <2>3. CountUsage(sandboxes, sb.owner).total = Cardinality(before)
    BY DEF CountUsage
  <2> HIDE DEF p, before
  <2>4. Below(p.total, Cardinality(before))
    BY <2>2, <2>3 DEF Check
  <2> QED BY <2>4 DEF Below, p
<1>3. IsFiniteSet(before) /\ Cardinality(before) \in Nat
  BY GovernanceAssumption, FS_Subset, FS_CardinalityType
<1>4. after \subseteq before \union {n}
  BY DEF Counts, TypeInv, TypeOK
<1>5. Cardinality(after) <= Cardinality(before) + 1
  <2> HIDE DEF before, after
  <2>1. IsFiniteSet(before \union {n}) /\ Cardinality(before \union {n}) <= Cardinality(before) + 1
    BY <1>3, FS_AddElement
  <2>2. Cardinality(after) <= Cardinality(before \union {n}) /\ Cardinality(after) \in Nat
        /\ Cardinality(before \union {n}) \in Nat
    BY <1>4, <2>1, FS_Subset, FS_CardinalityType
  <2> QED BY <1>3, <2>1, <2>2
<1>6. Counted("total")' = Cardinality(after)
  BY DEF Counted, Within
<1>7. p.total \in Nat /\ Cardinality(after) \in Nat
  BY <1>1, <1>4, GovernanceAssumption, FS_Subset, FS_CardinalityType DEF Policy
<1> HIDE DEF before, after
<1> QED BY <1>2, <1>3, <1>5, <1>6, <1>7

\* A sandbox comes from a request that creates it.
LEMMA OnlyCreateCreates ==
  ASSUME TypeInv, [Next]_vars, NEW n \in Names, sandboxes[n] = None, sandboxes'[n] # None
  PROVE  \E r \in Requests : Create(r)
<1>1. ~Control
  BY ControlTypes
<1>2. sandboxes' # sandboxes
  OBVIOUS
<1> QED BY <1>1, <1>2 DEF Next, Edit, Sync, Schedule, Tick, vars, Route, Receive, ReceiveCreate, ReceiveBulk, ReceiveApply,
           ReceiveClone, ReceiveBackup, ReceiveRestore, Open, SnapshotSource, CreateBackup, Snap, Lookup, ReadCluster,
           ReadNamespace, List, Cleanup

\* The admission webhook checks every creation, by the Router or by anyone else:
\* when its cache is up to date, none takes the namespace over its quota
\* (sandbox_webhook.go:100-114). For any number of users, sandboxes and requests
\* under way.
THEOREM WebhookHoldsQuota == Spec => WebhookClosesGap
<1> DEFINE Holds == LET cap == Effective(store.policies).total
                    IN hook /\ Current /\ cap # 0 /\ (\E n \in Names : sandboxes[n] = None /\ sandboxes'[n] # None)
                       => Counted("total")' <= cap
<1>1. TypeInv /\ [Next]_vars => [Holds]_vars
  <2> SUFFICES ASSUME TypeInv, [Next]_vars, hook, Current, Effective(store.policies).total # 0,
                      NEW n \in Names, sandboxes[n] = None, sandboxes'[n] # None
               PROVE  Counted("total")' <= Effective(store.policies).total
    OBVIOUS
  <2>1. PICK r \in Requests : Create(r)
    BY OnlyCreateCreates
  <2> DEFINE name == requests[r].items[requests[r].next].name
  <2>2. name \in Names
    <3>1. requests[r].items \in Seq(Item) /\ requests[r].next \in DOMAIN requests[r].items
      BY <2>1 DEF Create, TypeInv, RequestsOk, RequestType, Ready
    <3>2. requests[r].items[requests[r].next] \in Item
      BY <3>1
    <3> QED BY <3>2 DEF Item
  <2>3. sandboxes' = [sandboxes EXCEPT ![name] = Built(requests[r])] /\ HookAdmits(Built(requests[r]))
    BY <2>1 DEF Create
  <2> HIDE DEF name
  <2> QED BY <2>2, <2>3, OneMoreFits
<1>2. Spec => [](TypeInv /\ StoreInv)
  <2>1. Init => TypeInv /\ StoreInv
    BY TypeInit, StoreInvInit
  <2>2. TypeInv /\ StoreInv /\ [Next]_vars => TypeInv' /\ StoreInv'
    BY TypeStep, StoreInvStep
  <2> QED BY <2>1, <2>2, PTL DEF Spec
<1> QED BY <1>1, <1>2, PTL DEF Spec, WebhookClosesGap

-----------------------------------------------------------------------------
(* Quotas.                                                                 *)

\* A request is for one sandbox, but for a batch.
OneEach == \A r \in Requests : requests[r].pc # "idle" /\ requests[r].kind # "bulk" => Len(requests[r].items) <= 1

\* What the ledger is compared with.
AllOpened(d) == Sum(Opening(d), Requests)

LEMMA OpenedIsSum ==
  ASSUME NEW d, NEW rs
  PROVE  Opened(d, rs) = Sum(Opening(d), rs)
BY DEF Opened, Sum

LEMMA OpeningType ==
  ASSUME RequestsOk, NEW d
  PROVE  /\ Opening(d) \in [Requests -> Nat]
         /\ \A r \in Requests : Opening(d)[r] = IF Within(d, requests[r].user) THEN Left(requests[r]) ELSE 0
<1>1. ASSUME NEW r \in Requests PROVE Left(requests[r]) \in Nat
  <2>1. requests[r] \in RequestType /\ Ready(r, requests[r])
    BY DEF RequestsOk
  <2>2. requests[r].items \in Seq(Item) /\ (requests[r].pc = "create" => requests[r].next \in DOMAIN requests[r].items)
    BY <2>1 DEF RequestType, Ready
  <2> QED BY <2>2 DEF Left
<1> QED BY <1>1 DEF Opening

LEMMA OpenedSums ==
  ASSUME RequestsOk, NEW r \in Requests, NEW d
  PROVE  /\ AllOpened(d) \in Nat
         /\ Opened(d, Requests \ {r}) \in Nat /\ Opened(d, Requests \ {r}) = AllOpened(d) - Opening(d)[r]
<1>1. Opening(d) \in [Requests -> Int] /\ \A q \in Requests : Opening(d)[q] >= 0
  BY OpeningType
<1>2. IsFiniteSet(Requests)
  BY CreationBounds
<1>3. Sum(Opening(d), Requests) \in Nat
  BY <1>1, <1>2, SumNat
<1>4. Sum(Opening(d), Requests) = Opening(d)[r] + Sum(Opening(d), Requests \ {r})
  BY <1>1, <1>2, SumRemove
<1>5. IsFiniteSet(Requests \ {r}) /\ Sum(Opening(d), Requests \ {r}) \in Nat
  BY <1>1, <1>2, FS_Subset, SumNat
<1> QED BY <1>1, <1>3, <1>4, <1>5, OpenedIsSum DEF AllOpened

LEMMA OpenedNat == ASSUME RequestsOk, NEW d PROVE AllOpened(d) \in Nat
<1>1. Opening(d) \in [Requests -> Int] /\ \A q \in Requests : Opening(d)[q] >= 0
  BY OpeningType
<1> QED BY <1>1, CreationBounds, SumNat DEF AllOpened

\* A request that moves changes what is open by its own part.
LEMMA OpenedMoves ==
  ASSUME RequestsOk, RequestsOk', NEW r \in Requests, \A q \in Requests \ {r} : requests'[q] = requests[q], NEW d
  PROVE  /\ AllOpened(d)' \in Nat /\ AllOpened(d) \in Nat
         /\ AllOpened(d)' = AllOpened(d) + Opening(d)'[r] - Opening(d)[r]
<1>1. Opening(d) \in [Requests -> Int] /\ AllOpened(d) \in Nat
  <2>1. Opening(d) \in [Requests -> Nat]
    BY OpeningType
  <2>2. AllOpened(d) \in Nat
    BY OpenedSums
  <2> QED BY <2>1, <2>2
<1>2. /\ Opening(d)' \in [Requests -> Nat]
      /\ \A q \in Requests : Opening(d)'[q] = IF Within(d, requests'[q].user) THEN Left(requests'[q]) ELSE 0
  <2>1. ASSUME NEW q \in Requests PROVE Left(requests'[q]) \in Nat
    <3>1. requests'[q] \in RequestType /\ Ready(q, requests'[q])
      BY DEF RequestsOk
    <3>2. requests'[q].items \in Seq(Item) /\ (requests'[q].pc = "create" => requests'[q].next \in DOMAIN requests'[q].items)
      BY <3>1 DEF RequestType, Ready
    <3> QED BY <3>2 DEF Left
  <2> QED BY <2>1 DEF Opening, Within
<1>3. \A q \in Requests \ {r} : Opening(d)'[q] = Opening(d)[q]
  BY <1>2, OpeningType
<1>4. IsFiniteSet(Requests)
  BY CreationBounds
<1>5. PICK f \in [Requests -> Int], g \in [Requests -> Int] : f = Opening(d) /\ g = Opening(d)'
  BY <1>1, <1>2
<1>6. Sum(g, Requests) = Sum(f, Requests) + g[r] - f[r]
  BY <1>3, <1>4, <1>5, SumUpdate
<1>7. Sum(g, Requests) \in Nat
  BY <1>2, <1>4, <1>5, SumNat
<1> QED BY <1>1, <1>5, <1>6, <1>7 DEF AllOpened

\* One step of the Router moves one request.
LEMMA OthersStay ==
  ASSUME TypeInv, NEW r \in Requests, Route(r)
  PROVE  \A q \in Requests \ {r} : requests'[q] = requests[q]
<1>1. requests \in [Requests -> RequestType]
  BY DEF TypeInv, RequestsOk
<1>2. CASE Receive(r)
  BY <1>1, <1>2 DEF Receive, ReceiveCreate, ReceiveBulk, ReceiveApply, ReceiveClone, ReceiveBackup, ReceiveRestore, Open
<1>3. CASE SnapshotSource(r) \/ CreateBackup(r)
  BY <1>1, <1>3 DEF SnapshotSource, CreateBackup, Snap, Become
<1>4. CASE Lookup(r) \/ ReadCluster(r) \/ ReadNamespace(r) \/ List(r) \/ Cleanup(r)
  BY <1>1, <1>4 DEF Lookup, ReadCluster, ReadNamespace, List, Cleanup, Become
<1>5. CASE Create(r)
  BY <1>1, <1>5 DEF Create
<1> QED BY <1>2, <1>3, <1>4, <1>5 DEF Route

\* A body with one sandbox, or a batch.
LEMMA ReceivedIsOne ==
  ASSUME TypeInv, NEW r \in Requests, Receive(r)
  PROVE  /\ requests[r].pc = "idle" /\ sandboxes' = sandboxes
         /\ requests'[r].kind # "bulk" => Len(requests'[r].items) <= 1
<1>1. requests \in [Requests -> RequestType]
  BY DEF TypeInv, RequestsOk
<1>2. PICK o \in Orders :
      \/ ReceiveCreate(r, o) \/ ReceiveBulk(r, o) \/ ReceiveApply(r, o)
      \/ ReceiveClone(r, o) \/ ReceiveBackup(r, o) \/ ReceiveRestore(r, o)
  BY DEF Receive
<1>3. /\ o \in [kind : Kinds, user : Users, source : Names \union {None}, items : Seq(Item)]
      /\ o.kind \notin {"backup", "bulk"} => Len(o.items) = 1
  BY OrdersAssumption DEF Kinds
<1>4. DOMAIN Copied(o) = DOMAIN o.items
  BY DEF Copied
<1>5. o.kind \notin {"backup", "bulk"} => DOMAIN o.items = {1}
  BY <1>3
<1> DEFINE Opens(pc, items) == Open(r, o, pc, items) /\ (o.kind # "bulk" => DOMAIN items \subseteq {1})
<1>6. \E pc, items : Opens(pc, items)
  <2>1. CASE ReceiveCreate(r, o) \/ ReceiveBulk(r, o)
    <3>1. Opens("cluster", o.items)
      BY <1>5, <2>1 DEF ReceiveCreate, ReceiveBulk
    <3> QED BY <3>1, Zenon
  <2>2. CASE ReceiveApply(r, o)
    <3>1. Opens("create", o.items)
      BY <1>5, <2>2 DEF ReceiveApply
    <3> QED BY <3>1, Zenon
  <2>3. CASE ReceiveBackup(r, o)
    <3>1. DOMAIN <<>> \subseteq {1}
      OBVIOUS
    <3>2. Opens("snapshot", <<>>)
      BY <2>3, <3>1 DEF ReceiveBackup
    <3> QED BY <3>2, Zenon
  <2>4. CASE ReceiveClone(r, o)
    <3>1. Opens("snapshot", Copied(o))
      BY <1>4, <1>5, <2>4 DEF ReceiveClone
    <3> QED BY <3>1, Zenon
  <2>5. CASE ReceiveRestore(r, o)
    <3>1. Opens("lookup", Copied(o))
      BY <1>4, <1>5, <2>5 DEF ReceiveRestore
    <3> QED BY <3>1, Zenon
  <2> QED BY <1>2, <2>1, <2>2, <2>3, <2>4, <2>5
<1>7. PICK pc, items : Opens(pc, items)
  BY <1>6
<1>8. requests'[r].kind = o.kind /\ requests'[r].items = items /\ requests[r].pc = "idle" /\ sandboxes' = sandboxes
  BY <1>1, <1>7 DEF Open, RequestType
<1>9. ASSUME o.kind # "bulk" PROVE Len(items) <= 1
  <2>1. items \in Seq(Item) /\ DOMAIN items \subseteq {1}
    <3>1. requests'[r] \in RequestType
      BY ReceiveTypes DEF RequestsOk
    <3> QED BY <1>7, <1>8, <1>9, <3>1 DEF RequestType
  <2>2. Len(items) \in Nat /\ DOMAIN items = 1..Len(items)
    BY <2>1
  <2> QED BY <2>1, <2>2
<1> QED BY <1>8, <1>9

LEMMA OneEachStep == TypeInv /\ OneEach /\ [Next]_vars => OneEach'
<1> SUFFICES ASSUME TypeInv, OneEach, [Next]_vars PROVE OneEach'
  OBVIOUS
<1>0. requests \in [Requests -> RequestType]
  BY DEF TypeInv, RequestsOk
<1>1. CASE requests' = requests
  BY <1>1 DEF OneEach
<1>2. ASSUME NEW r \in Requests, Route(r)
      PROVE  OneEach'
  <2>1. CASE Receive(r)
    BY <1>2, <2>1, OthersStay, ReceivedIsOne DEF OneEach
  <2>2. CASE ~Receive(r)
    <3>1. requests[r].pc # "idle" /\ requests'[r].kind = requests[r].kind /\ requests'[r].items = requests[r].items
      <4>1. CASE SnapshotSource(r) \/ CreateBackup(r)
        BY <1>0, <4>1 DEF SnapshotSource, CreateBackup, Snap, Become, RequestType
      <4>2. CASE Lookup(r) \/ ReadCluster(r) \/ ReadNamespace(r) \/ List(r) \/ Cleanup(r)
        BY <1>0, <4>2 DEF Lookup, ReadCluster, ReadNamespace, List, Cleanup, Become, RequestType
      <4>3. CASE Create(r)
        <5>1. PICK ok \in BOOLEAN : requests'[r] = After(requests[r], ok) /\ requests[r].pc = "create"
          BY <1>0, <4>3 DEF Create
        <5> QED BY <1>0, <5>1 DEF After, RequestType
      <4> QED BY <1>2, <2>2, <4>1, <4>2, <4>3 DEF Route
    <3> QED BY <1>2, <3>1, OthersStay DEF OneEach
  <2> QED BY <2>1, <2>2
<1> QED BY <1>1, <1>2 DEF Next, Edit, Control, Sync, Schedule, Tick, vars, quotaVars

\* Sandboxes that count, and how many they can become.
LEMMA CountedType == ASSUME NEW d PROVE Counted(d) \in Nat
<1>1. {n \in Names : Counts(sandboxes, n) /\ Within(d, sandboxes[n].owner)} \in SUBSET Names
  OBVIOUS
<1> QED BY <1>1, GovernanceAssumption, FS_Subset, FS_CardinalityType DEF Counted

LEMMA CountedGrows ==
  ASSUME NEW d, NEW R \in SUBSET Names,
         \A n \in Names \ R : Counts(sandboxes', n) /\ Within(d, sandboxes'[n].owner) =>
                              Counts(sandboxes, n) /\ Within(d, sandboxes[n].owner)
  PROVE  Counted(d)' \in Nat /\ Cardinality(R) \in Nat /\ Counted(d)' <= Counted(d) + Cardinality(R)
<1> DEFINE before == {n \in Names : Counts(sandboxes, n) /\ Within(d, sandboxes[n].owner)}
           after == {n \in Names : Counts(sandboxes', n) /\ Within(d, sandboxes'[n].owner)}
<1>1. before \in SUBSET Names /\ after \in SUBSET Names /\ after \subseteq before \union R
  OBVIOUS
<1>2. Counted(d) = Cardinality(before) /\ Counted(d)' = Cardinality(after)
  BY DEF Counted, Within
<1> HIDE DEF before, after
<1>3. IsFiniteSet(before) /\ IsFiniteSet(R) /\ IsFiniteSet(after)
  BY <1>1, GovernanceAssumption, FS_Subset
<1>4. /\ IsFiniteSet(before \union R)
      /\ Cardinality(before \union R) = Cardinality(before) + Cardinality(R) - Cardinality(before \cap R)
  BY <1>3, FS_Union
<1>5. IsFiniteSet(before \cap R) /\ Cardinality(before \cap R) \in Nat
  BY <1>3, FS_Intersection, FS_CardinalityType
<1>6. Cardinality(after) <= Cardinality(before \union R)
  BY <1>1, <1>4, FS_Subset
<1>7. Cardinality(before) \in Nat /\ Cardinality(R) \in Nat /\ Cardinality(after) \in Nat
  BY <1>3, FS_CardinalityType
<1> QED BY <1>2, <1>4, <1>5, <1>6, <1>7

QuotaInv ==
  /\ ledger \in [Quotas -> [cap : Nat, unseen : Nat]]
  /\ \A d \in Quotas : ledger[d].cap # 0 => Counted(d) + AllOpened(d) <= ledger[d].cap + ledger[d].unseen

\* What is counted for a user, and what is left to create for one, is nobody else's.
LEMMA WithinUser ==
  ASSUME NEW d \in Quotas, NEW u \in Users, Within(d, u)
  PROVE  d = "total" \/ d = u
BY DEF Within

\* A request that passes its check fits into the quota it was checked for.
LEMMA ListFits ==
  ASSUME TypeInv, OneEach, NEW r \in Requests, List(r), requests'[r].pc = "create",
         NEW d \in Quotas, Within(d, requests[r].user), CapOf(requests[r].policy, d) # 0
  PROVE  Counted(d) + Left(requests'[r]) <= CapOf(requests[r].policy, d)
<1> DEFINE q == requests[r]
           used == CountUsage(sandboxes, q.user)
<1>1. q \in RequestType /\ Ready(r, q) /\ q.pc = "list" /\ requests \in [Requests -> RequestType]
  BY DEF TypeInv, RequestsOk, List
<1>2. requests'[r] = [q EXCEPT !.used = used, !.pc = "create"] /\ Admitted(q, used)
  BY <1>1 DEF List, Become, RequestType
<1>3. Left(requests'[r]) = Len(q.items)
  <2>1. requests'[r].pc = "create" /\ requests'[r].next = 1 /\ requests'[r].items = q.items
    BY <1>1, <1>2 DEF Ready, RequestType
  <2>2. Len(q.items) \in Nat
    BY <1>1 DEF RequestType
  <2> QED BY <2>1, <2>2 DEF Left
<1>4. /\ Counted(d) \in Nat /\ CapOf(q.policy, d) \in Nat /\ CapOf(q.policy, d) # 0
      /\ q.user \in Users /\ q.items \in Seq(Item)
  BY <1>1, CountedType DEF CapOf, RequestType, Policy, Ready
<1>5. Len(q.items) \in Nat /\ (q.kind # "bulk" => Len(q.items) <= 1)
  <2>1. q.kind # "bulk" => Len(q.items) <= 1
    BY <1>1 DEF OneEach
  <2> QED BY <1>4, <2>1
<1>6. CASE d = "total"
  <2>1. used.total = Counted(d) /\ CapOf(q.policy, d) = q.policy.total
    BY <1>6 DEF CountUsage, Counted, Within, CapOf
  <2>2. q.kind = "bulk" => Fits(q.policy.total, used.total, Len(q.items))
    BY <1>2 DEF Admitted, CheckBulk
  <2>3. q.kind # "bulk" => Below(q.policy.total, used.total)
    BY <1>2 DEF Admitted, Check
  <2> HIDE DEF used, q
  <2>4. Counted(d) + Len(q.items) <= CapOf(q.policy, d)
    BY <1>4, <1>5, <2>1, <2>2, <2>3 DEF Fits, Below
  <2> QED BY <1>3, <2>4 DEF q
<1>7. CASE d # "total"
  <2>1. d = q.user
    BY <1>4, <1>7 DEF Within
  <2>2. used.user = Counted(d) /\ CapOf(q.policy, d) = q.policy.perUser
    <3>1. \A n \in Names : Within(d, sandboxes[n].owner) <=> sandboxes[n].owner = q.user
      BY <1>7, <2>1 DEF Within
    <3>2. {n \in Names : Counts(sandboxes, n) /\ Within(d, sandboxes[n].owner)}
            = {n \in Names : Counts(sandboxes, n) /\ sandboxes[n].owner = q.user}
      BY <3>1
    <3> QED BY <1>7, <3>2 DEF CountUsage, Counted, CapOf
  <2>3. q.kind = "bulk" => Fits(q.policy.perUser, used.user, Len(q.items))
    BY <1>2 DEF Admitted, CheckBulk
  <2>4. q.kind # "bulk" => Below(q.policy.perUser, used.user)
    BY <1>2 DEF Admitted, Check
  <2> HIDE DEF used, q
  <2>5. Counted(d) + Len(q.items) <= CapOf(q.policy, d)
    BY <1>4, <1>5, <2>2, <2>3, <2>4 DEF Fits, Below
  <2> QED BY <1>3, <2>5 DEF q
<1> QED BY <1>6, <1>7

\* A creation takes at least one from what is left of its request.
LEMMA CreateTakes ==
  ASSUME TypeInv, NEW r \in Requests, Create(r)
  PROVE  /\ requests[r].pc = "create" /\ requests'[r].user = requests[r].user
         /\ Left(requests[r]) \in Nat /\ Left(requests'[r]) \in Nat /\ Left(requests'[r]) + 1 <= Left(requests[r])
         /\ \/ sandboxes' = sandboxes
            \/ \E n \in Names : /\ sandboxes' = [sandboxes EXCEPT ![n] = Built(requests[r])] /\ sandboxes[n] = None
                                /\ Owner(requests[r]) \in {requests[r].user, Router}
<1> DEFINE q == requests[r]
           name == q.items[q.next].name
<1>1. q \in RequestType /\ Ready(r, q) /\ q.pc = "create" /\ requests \in [Requests -> RequestType]
  BY DEF TypeInv, RequestsOk, Create
<1>2. PICK ok \in BOOLEAN : requests'[r] = After(q, ok)
  BY <1>1 DEF Create
<1>3. /\ After(q, ok).next = q.next + 1 /\ After(q, ok).items = q.items /\ After(q, ok).user = q.user
      /\ After(q, ok).pc = "create" => q.next < Len(q.items)
  BY <1>1 DEF After, RequestType
<1>4. q.next \in Nat /\ q.next >= 1 /\ Len(q.items) \in Nat /\ q.next <= Len(q.items) /\ q.items[q.next] \in Item
  <2>1. q.items \in Seq(Item) /\ q.next \in DOMAIN q.items
    BY <1>1 DEF RequestType, Ready
  <2> QED BY <2>1
<1>5. name \in Names
  BY <1>4 DEF Item
<1>6. sandboxes' = sandboxes \/ (sandboxes' = [sandboxes EXCEPT ![name] = Built(q)] /\ sandboxes[name] = None)
  BY DEF Create
<1>7. Owner(q) \in {q.user, Router}
  BY DEF Owner
<1>8. Left(q) = Len(q.items) - q.next + 1
  BY <1>1 DEF Left
<1>9. Left(requests'[r]) = IF After(q, ok).pc = "create" THEN Len(q.items) - (q.next + 1) + 1 ELSE 0
  BY <1>2, <1>3 DEF Left
<1> HIDE DEF q, name
<1>10. Left(q) \in Nat /\ Left(requests'[r]) \in Nat /\ Left(requests'[r]) + 1 <= Left(q)
  BY <1>3, <1>4, <1>8, <1>9
<1>11. requests'[r].user = q.user
  BY <1>2, <1>3
<1> QED BY <1>1, <1>5, <1>6, <1>7, <1>10, <1>11 DEF q

\* Any other step of a request creates nothing.
LEMMA OtherSteps ==
  ASSUME TypeInv, NEW r \in Requests, Route(r), ~Create(r)
  PROVE  /\ requests[r].pc # "create" /\ sandboxes' = sandboxes
         /\ requests[r].pc = "list" => /\ List(r) /\ requests'[r].user = requests[r].user
                                       /\ requests'[r].policy = requests[r].policy
<1>1. requests \in [Requests -> RequestType]
  BY DEF TypeInv, RequestsOk
<1>2. CASE Receive(r)
  BY <1>1, <1>2, ReceivedIsOne
<1>3. CASE SnapshotSource(r) \/ CreateBackup(r)
  BY <1>1, <1>3 DEF SnapshotSource, CreateBackup, Snap
<1>4. CASE Lookup(r) \/ ReadCluster(r) \/ ReadNamespace(r) \/ Cleanup(r)
  BY <1>1, <1>4 DEF Lookup, ReadCluster, ReadNamespace, Cleanup
<1>5. CASE List(r)
  BY <1>1, <1>5 DEF List, Become, RequestType
<1> QED BY <1>2, <1>3, <1>4, <1>5 DEF Route

LEMMA RouteAccounts ==
  ASSUME TypeInv, RequestsOk', OneEach, QuotaInv, NEW r \in Requests, Route(r)
  PROVE  QuotaInv'
<1>1. ASSUME NEW d \in Quotas
      PROVE  /\ ledger'[d] \in [cap : Nat, unseen : Nat]
             /\ ledger'[d].cap # 0 => Counted(d)' + AllOpened(d)' <= ledger'[d].cap + ledger'[d].unseen
  <2> DEFINE q == requests'[r]
             moved == Within(d, q.user) /\ q.pc = "create" /\ requests[r].pc # "create"
  <2>1. ledger'[d] = IF ~moved THEN ledger[d]
                     ELSE IF requests[r].pc = "list"
                          THEN [cap |-> CapOf(q.policy, d), unseen |-> Opened(d, Requests \ {r})]
                          ELSE [ledger[d] EXCEPT !.unseen = @ + Left(q)]
    BY DEF Route, Account
  <2>2. PICK cap \in Nat, unseen \in Nat : ledger[d] = [cap |-> cap, unseen |-> unseen]
    BY DEF QuotaInv
  <2>3. q \in RequestType /\ Ready(r, q) /\ RequestsOk
    BY DEF TypeInv, RequestsOk
  <2>4. Left(q) \in Nat /\ CapOf(q.policy, d) \in Nat
    <3>1. q.items \in Seq(Item) /\ (q.pc = "create" => q.next \in DOMAIN q.items) /\ q.policy \in Policy
      BY <2>3 DEF RequestType, Ready
    <3> QED BY <3>1 DEF Left, CapOf, Policy
  <2>5. PICK open \in Nat, open2 \in Nat, a \in Nat, a2 \in Nat, rest \in Nat :
          /\ open = AllOpened(d) /\ open2 = AllOpened(d)' /\ open2 = open + a2 - a
          /\ rest = Opened(d, Requests \ {r}) /\ rest = open - a
          /\ a = (IF Within(d, requests[r].user) THEN Left(requests[r]) ELSE 0)
          /\ a2 = (IF Within(d, q.user) THEN Left(q) ELSE 0)
    <3>1. Opening(d)[r] \in Nat /\ Opening(d)[r] = IF Within(d, requests[r].user) THEN Left(requests[r]) ELSE 0
      BY <2>3, OpeningType
    <3>2. Opening(d)'[r] \in Nat /\ Opening(d)'[r] = IF Within(d, q.user) THEN Left(q) ELSE 0
      <4>1. Opening(d)' = [o \in Requests |-> IF Within(d, requests'[o].user) THEN Left(requests'[o]) ELSE 0]
        BY DEF Opening, Within
      <4> QED BY <2>4, <4>1
    <3>3. /\ AllOpened(d)' \in Nat /\ AllOpened(d) \in Nat /\ Opened(d, Requests \ {r}) \in Nat
          /\ AllOpened(d)' = AllOpened(d) + Opening(d)'[r] - Opening(d)[r]
          /\ Opened(d, Requests \ {r}) = AllOpened(d) - Opening(d)[r]
      BY <2>3, OthersStay, OpenedSums, OpenedMoves
    <3> QED BY <3>1, <3>2, <3>3
  <2>6. cap # 0 => Counted(d) + open <= cap + unseen
    BY <2>2, <2>5 DEF QuotaInv
  <2>7. Counted(d) \in Nat
    BY CountedType
  <2>8. CASE Create(r)
    <3>1. ledger'[d] = ledger[d]
      BY <2>1, <2>8, CreateTakes
    <3>2. PICK s \in Nat, s2 \in Nat : s = Left(requests[r]) /\ s2 = Left(q) /\ s2 + 1 <= s
      BY <2>8, CreateTakes
    <3>3. q.user = requests[r].user
      BY <2>8, CreateTakes
    <3>4. \/ /\ Within(d, q.user) /\ Counted(d)' \in Nat /\ Counted(d)' <= Counted(d) + 1
          \/ /\ Counted(d)' \in Nat /\ Counted(d)' <= Counted(d)
      <4>1. CASE sandboxes' = sandboxes
        BY <2>7, <4>1 DEF Counted, Counts, Within
      <4>2. ASSUME NEW n \in Names, sandboxes' = [sandboxes EXCEPT ![n] = Built(requests[r])],
                   Owner(requests[r]) \in {requests[r].user, Router}
            PROVE  \/ Within(d, q.user) /\ Counted(d)' \in Nat /\ Counted(d)' <= Counted(d) + 1
                   \/ Counted(d)' \in Nat /\ Counted(d)' <= Counted(d)
        <5>1. \A m \in Names \ {n} : sandboxes'[m] = sandboxes[m]
          BY <4>2 DEF TypeInv, TypeOK
        <5>2. CASE Within(d, q.user)
          <6>1. \A m \in Names \ {n} : Counts(sandboxes', m) /\ Within(d, sandboxes'[m].owner) =>
                                       Counts(sandboxes, m) /\ Within(d, sandboxes[m].owner)
            BY <5>1 DEF Counts
          <6>2. {n} \in SUBSET Names /\ Cardinality({n}) = 1
            BY FS_Singleton
          <6> QED BY <5>2, <6>1, <6>2, CountedGrows
        <5>3. CASE ~Within(d, q.user)
          <6>1. sandboxes'[n].owner = Owner(requests[r])
            BY <4>2 DEF TypeInv, TypeOK, Built
          <6>2. ~Within(d, Owner(requests[r]))
            BY <3>3, <4>2, <5>3, GovernanceAssumption DEF Within, Quotas
          <6>3. \A m \in Names \ {} : Counts(sandboxes', m) /\ Within(d, sandboxes'[m].owner) =>
                                       Counts(sandboxes, m) /\ Within(d, sandboxes[m].owner)
            BY <5>1, <6>1, <6>2 DEF Counts
          <6>4. {} \in SUBSET Names /\ Cardinality({}) = 0
            BY FS_EmptySet
          <6> QED BY <2>7, <6>3, <6>4, CountedGrows
        <5> QED BY <5>2, <5>3
      <4> QED BY <2>8, <4>1, <4>2, CreateTakes
    <3> HIDE DEF q
    <3>5. cap # 0 => Counted(d)' + open2 <= cap + unseen
      BY <2>5, <2>6, <2>7, <3>2, <3>3, <3>4
    <3> QED BY <2>2, <2>5, <3>1, <3>5
  <2>9. CASE ~Create(r)
    <3>1. requests[r].pc # "create" /\ Counted(d)' = Counted(d)
      BY <2>9, OtherSteps DEF Counted, Counts, Within
    <3>2. a = 0
      BY <2>5, <3>1 DEF Left
    <3>3. CASE ~moved
      <4>1. a2 = 0
        BY <2>5, <3>1, <3>3 DEF Left
      <4> QED BY <2>1, <2>2, <2>5, <2>6, <2>7, <3>1, <3>2, <3>3, <4>1
    <3>4. CASE moved /\ requests[r].pc = "list"
      <4>1. List(r) /\ Within(d, requests[r].user) /\ q.policy = requests[r].policy
        BY <2>9, <3>4, OtherSteps
      <4>2. ledger'[d] = [cap |-> CapOf(q.policy, d), unseen |-> rest]
        BY <2>1, <2>5, <3>4
      <4>3. CapOf(q.policy, d) # 0 => Counted(d) + Left(q) <= CapOf(q.policy, d)
        BY <3>4, <4>1, ListFits
      <4>4. a2 = Left(q)
        BY <2>5, <3>4
      <4>5. PICK c \in Nat : c = CapOf(q.policy, d)
        BY <2>4
      <4> HIDE DEF q
      <4>6. c # 0 => Counted(d)' + open2 <= c + rest
        BY <2>5, <2>7, <3>1, <3>2, <4>3, <4>4, <4>5
      <4> QED BY <2>5, <4>2, <4>5, <4>6
    <3>5. CASE moved /\ requests[r].pc # "list"
      <4>1. a2 = Left(q)
        BY <2>5, <3>5
      <4>2. ledger'[d] = [cap |-> cap, unseen |-> unseen + a2]
        BY <2>1, <2>2, <3>5, <4>1
      <4>3. cap # 0 => Counted(d)' + open2 <= cap + (unseen + a2)
        BY <2>5, <2>6, <2>7, <3>1, <3>2
      <4> QED BY <2>5, <4>2, <4>3
    <3> QED BY <3>3, <3>4, <3>5
  <2> QED BY <2>8, <2>9
<1>2. ledger' = [d \in Quotas |-> ledger'[d]]
  BY DEF Route, Account
<1>3. ledger' \in [Quotas -> [cap : Nat, unseen : Nat]]
  BY <1>1, <1>2
<1> QED BY <1>1, <1>3 DEF QuotaInv

\* The controller makes a sandbox count again only by resuming it.
LEMMA ControlAccounts ==
  ASSUME TypeInv, QuotaInv, Control
  PROVE  QuotaInv'
<1>1. /\ requests' = requests
      /\ ledger' = [d \in Quotas |-> [ledger[d] EXCEPT !.unseen = @ + Cardinality({n \in Names : Resumed(n, d)})]]
  BY DEF Control
<1>2. ASSUME NEW n \in Names, Counts(sandboxes', n)
      PROVE  \/ sandboxes'[n] = sandboxes[n]
             \/ /\ sandboxes[n] # None /\ sandboxes'[n].owner = sandboxes[n].owner
                /\ \/ sandboxes[n].phase \notin {"Error", "Deleting"}
                   \/ Phase(n) = "Error" /\ Phase(n)' \in {"New", "Creating"}
  <2>1. ASSUME NEW m \in Names, NEW p \in {"New", "Creating", "Running", "Error", "Deleting"}, Phase(m) # "none", SetPhase(m, p)
        PROVE  /\ m # n => sandboxes'[n] = sandboxes[n]
               /\ m = n => /\ sandboxes[n] # None /\ sandboxes'[n].owner = sandboxes[n].owner
                           /\ sandboxes[n].phase = Phase(n) /\ sandboxes'[n].phase = p /\ Phase(n)' = p
    <3>1. sandboxes[m] \in Sandbox
      BY <2>1 DEF Phase, TypeInv, TypeOK
    <3> QED BY <1>2, <2>1, <3>1 DEF SetPhase, Phase, Counts, TypeInv, TypeOK, Sandbox
  <2>2. CASE \E m \in Names : Claim(m) \/ Provision(m) \/ Start(m)
    <3>1. PICK m \in Names, p \in {"Running", "Creating"} : SetPhase(m, p) /\ Phase(m) \in {"New", "Creating"}
      BY <2>2 DEF Claim, Provision, Start
    <3> QED BY <2>1, <3>1
  <2>3. CASE \E m \in Names : Fail(m) \/ Delete(m)
    <3>1. PICK m \in Names, p \in {"Error", "Deleting"} : SetPhase(m, p) /\ Phase(m) # "none"
      BY <2>3 DEF Fail, Delete
    <3> QED BY <1>2, <2>1, <3>1 DEF Counts
  <2>4. CASE \E m \in Names : Resume(m)
    <3>1. PICK m \in Names, p \in {"New", "Creating"} : SetPhase(m, p) /\ Phase(m) = "Error"
      BY <2>4 DEF Resume
    <3> QED BY <2>1, <3>1
  <2>5. CASE sandboxes' = sandboxes
    BY <2>5
  <2> QED BY <2>2, <2>3, <2>4, <2>5 DEF Control, Hydrate, Expire
<1>3. ASSUME NEW d \in Quotas
      PROVE  /\ ledger'[d] \in [cap : Nat, unseen : Nat]
             /\ ledger'[d].cap # 0 => Counted(d)' + AllOpened(d)' <= ledger'[d].cap + ledger'[d].unseen
  <2> DEFINE R == {n \in Names : Resumed(n, d)}
  <2>1. PICK cap \in Nat, unseen \in Nat : ledger[d] = [cap |-> cap, unseen |-> unseen]
    BY DEF QuotaInv
  <2>2. ledger'[d] = [ledger[d] EXCEPT !.unseen = @ + Cardinality(R)]
    BY <1>1
  <2>3. \A n \in Names \ R : Counts(sandboxes', n) /\ Within(d, sandboxes'[n].owner) =>
                             Counts(sandboxes, n) /\ Within(d, sandboxes[n].owner)
    <3> SUFFICES ASSUME NEW n \in Names, ~Resumed(n, d), Counts(sandboxes', n), Within(d, sandboxes'[n].owner)
                 PROVE  Counts(sandboxes, n) /\ Within(d, sandboxes[n].owner)
      OBVIOUS
    <3>1. CASE sandboxes'[n] = sandboxes[n]
      BY <3>1 DEF Counts
    <3>2. CASE sandboxes'[n] # sandboxes[n]
      <4>1. ~(Phase(n) = "Error" /\ Phase(n)' \in {"New", "Creating"}) \/ ~Within(d, sandboxes[n].owner)
        BY DEF Resumed
      <4> QED BY <1>2, <3>2, <4>1 DEF Counts
    <3> QED BY <3>1, <3>2
  <2>4. R \in SUBSET Names
    OBVIOUS
  <2> HIDE DEF R
  <2>5. Counted(d)' \in Nat /\ Cardinality(R) \in Nat /\ Counted(d)' <= Counted(d) + Cardinality(R)
    BY <2>3, <2>4, CountedGrows
  <2>6. PICK open \in Nat, more \in Nat : open = AllOpened(d) /\ AllOpened(d)' = open /\ more = Cardinality(R)
    <3>1. Opening(d)' = Opening(d)
      BY <1>1 DEF Opening, Within, Left
    <3>2. AllOpened(d)' = AllOpened(d)
      BY <3>1 DEF AllOpened
    <3>3. AllOpened(d) \in Nat
      BY OpenedNat DEF TypeInv
    <3> QED BY <2>5, <3>2, <3>3
  <2>7. ledger'[d] = [cap |-> cap, unseen |-> unseen + more]
    BY <2>1, <2>2, <2>6
  <2>8. cap # 0 => Counted(d)' + open <= cap + (unseen + more)
    <3>1. cap # 0 => Counted(d) + open <= cap + unseen
      BY <2>1, <2>6 DEF QuotaInv
    <3>2. Counted(d) \in Nat
      BY CountedType
    <3> QED BY <2>5, <2>6, <3>1, <3>2
  <2> QED BY <2>6, <2>7, <2>8
<1>4. ledger' = [d \in Quotas |-> ledger'[d]]
  BY <1>1
<1>5. ledger' \in [Quotas -> [cap : Nat, unseen : Nat]]
  BY <1>3, <1>4
<1> QED BY <1>3, <1>5 DEF QuotaInv

LEMMA QuotaStep == TypeInv /\ TypeInv' /\ OneEach /\ QuotaInv /\ [Next]_vars => QuotaInv'
<1> SUFFICES ASSUME TypeInv, TypeInv', OneEach, QuotaInv, [Next]_vars PROVE QuotaInv'
  OBVIOUS
<1>1. CASE \E r \in Requests : Route(r)
  BY <1>1, RouteAccounts DEF TypeInv
<1>2. CASE Control
  BY <1>2, ControlAccounts
<1>3. CASE UNCHANGED <<sandboxes, requests, ledger>>
  <2>1. ASSUME NEW d \in Quotas PROVE Counted(d)' = Counted(d) /\ AllOpened(d)' = AllOpened(d)
    <3>1. Opening(d)' = Opening(d)
      BY <1>3 DEF Opening, Within, Left
    <3> QED BY <1>3, <3>1 DEF AllOpened, Counted, Counts, Within
  <2> QED BY <1>3, <2>1 DEF QuotaInv
<1> QED BY <1>1, <1>2, <1>3 DEF Next, Edit, Sync, Schedule, Tick, vars, quotaVars

LEMMA QuotaInit == Init => OneEach /\ QuotaInv
BY DEF Init, OneEach, QuotaInv, NewRequest

\* A quota is exceeded by no more than the last check of it could not see: the
\* check lists what there is, and the creations of other requests are still to
\* come (handlers.go:150-173, bulk_handlers.go). For any number of users,
\* sandboxes, requests and items of a batch.
THEOREM OvershootIsKnown == Spec => []OvershootIsAccounted
<1>1. Init => TypeInv /\ StoreInv /\ OneEach /\ QuotaInv
  BY TypeInit, StoreInvInit, QuotaInit
<1>2. TypeInv /\ StoreInv /\ OneEach /\ QuotaInv /\ [Next]_vars => TypeInv' /\ StoreInv' /\ OneEach' /\ QuotaInv'
  BY TypeStep, StoreInvStep, OneEachStep, QuotaStep
<1>3. QuotaInv => OvershootIsAccounted
  BY OpenedIsSum DEF QuotaInv, OvershootIsAccounted, AllOpened
<1> QED BY <1>1, <1>2, <1>3, PTL DEF Spec
=============================================================================
