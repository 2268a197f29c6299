-------------------------- MODULE SandboxCreation --------------------------
(* How a sandbox comes to be: the Router's create, bulk, clone and restore *)
(* (pkg/router/handlers.go, bulk_handlers.go, backup_handlers.go) or a     *)
(* write to the API server, under the policies an administrator edits and, *)
(* when it is installed, the admission webhook; and its volume, from the   *)
(* warm pool, new, or restored from a snapshot, with the backups taken of  *)
(* it (pkg/controller/backup).                                             *)
EXTENDS Governance, Sequences, FiniteSetsExt

CONSTANTS
  Policies,     \* those an administrator writes
  Orders,       \* what clients ask for
  Requests,     \* handlers of the Router, one request each
  Admins,       \* users who may touch any sandbox
  Editors,      \* policy handlers, one request each
  Interval, Retention,  \* of the backups, in ticks
  MaxTime, MaxFaults, MaxWarm

\* One sandbox asked for; valid when its name, template and durations parse.
Item ==
  [name : Names, valid : BOOLEAN, template : Templates \union {None}, mode : {"code", "agent"},
   image : Images \union {None}, asked : Asked]

ASSUME OrdersAssumption ==
  /\ Admins \subseteq Users
  /\ Policies \subseteq Policy
  /\ Orders \subseteq [kind : {"create", "bulk", "clone", "restore", "backup", "apply"}, user : Users, source : Names \union {None}, items : Seq(Item)]
  /\ \A o \in Orders :
       /\ o.kind \in {"clone", "restore", "backup"} => o.source \in Names
       /\ o.kind # "backup" => o.items # <<>>
       /\ o.kind \notin {"backup", "bulk"} => Len(o.items) = 1
ASSUME CreationBounds ==
  /\ IsFiniteSet(Requests)
  /\ Interval \in Nat \ {0} /\ Retention \in Nat
  /\ MaxTime \in Nat /\ MaxFaults \in Nat /\ MaxWarm \in Nat

VARIABLES
  store,      \* the ConfigMap agenttier-governance
  editors,    \* SetPolicy and DeletePolicy
  sandboxes,
  vols,       \* the volume of each sandbox
  requests,
  hook,       \* whether the admission webhook is installed
  cache,      \* what the controller's informers show of sandboxes and store
  warm,       \* warm pods that wait
  snaps, dying,  \* snapshots, and those marked for deletion
  backup,     \* the scheduler's pass, its ticker, and whether it has ticked
  now, faults,
  ledger,     \* history: per quota, what the last check of it could not see
  erased      \* history: snapshots a user deleted

policyVars == <<store, editors>>
quotaVars == <<requests, ledger>>
timeVars == <<backup, now>>
snapVars == <<snaps, dying>>
vars == <<policyVars, sandboxes, vols, quotaVars, hook, cache, warm, snapVars, timeVars, faults, erased>>

Times == 0..MaxTime
Snapshot == [kind : {"clone", "backup"}, of : Names, at : Times, by : Requests \union {None}]
Sandbox ==
  [owner : Users \union {Router}, template : Templates \union {None}, mode : {"code", "agent"},
   image : Images \union {None}, asked : Asked, snapshot : Snapshot \union {None},
   label : {"none", "cloned", "restored"}, phase : {"New", "Creating", "Running", "Error", "Deleting"}]

\* A volume is the warm pool's or built for the sandbox, and holds nothing of
\* an older workspace unless it is restored.
NoVolume == [kind |-> "none", content |-> "blank", born |-> 0]
Volume == [kind : {"none", "pool", "built"}, content : {"blank", "pending", "restored"}, born : Times]

Fault == faults < MaxFaults /\ faults' = faults + 1

-----------------------------------------------------------------------------
(* governance.ConfigMapStore: rv is 0 while there is no ConfigMap.         *)

IdleEditor == [pc |-> "idle", scope |-> "cluster", policy |-> NoPolicy, map |-> [s \in Scopes |-> NoPolicy], rv |-> 0]

Edited(s, p) == [store.policies EXCEPT ![s] = p]
Load(e) ==
  /\ editors[e].pc = "idle"
  /\ \E s \in Scopes, p \in Policies \union {NoPolicy} :
       editors' = [editors EXCEPT ![e] =
         [pc |-> "save", scope |-> s, policy |-> p, map |-> Edited(s, p), rv |-> store.rv]]
  /\ UNCHANGED store

Put(e) == store' = [rv |-> store.rv + 1, policies |-> editors[e].map]

SaveBlind(e) ==
  /\ editors[e].pc = "save"
  /\ editors' = [editors EXCEPT ![e].pc = "done"]
  /\ Put(e)

\* Create when load found nothing, and Update at the version it found.
Save(e) ==
  /\ editors[e].pc = "save"
  /\ IF editors[e].rv = 0 /\ store.rv # 0
     THEN /\ editors' = [editors EXCEPT ![e].pc = "reload"]
          /\ UNCHANGED store
     ELSE /\ editors' = [editors EXCEPT ![e].pc = "done"]
          /\ IF editors[e].rv = store.rv THEN Put(e) ELSE UNCHANGED store

\* Another writer created it: Get for the version, and Update.
Reload(e) ==
  /\ editors[e].pc = "reload"
  /\ editors' = [editors EXCEPT ![e].pc = "update", ![e].rv = store.rv]
  /\ UNCHANGED store

Update(e) ==
  /\ editors[e].pc = "update"
  /\ editors' = [editors EXCEPT ![e].pc = "done"]
  /\ IF editors[e].rv = store.rv THEN Put(e) ELSE UNCHANGED store

Edit(e) ==
  /\ Load(e) \/ Save(e) \/ Reload(e) \/ Update(e)
  /\ UNCHANGED <<sandboxes, vols, quotaVars, hook, cache, warm, snapVars, timeVars, faults, erased>>

-----------------------------------------------------------------------------
(* Requests of the Router.                                                 *)

NewRequest ==
  [pc |-> "idle", kind |-> "create", user |-> None, source |-> None, items |-> <<>>, next |-> 1,
   policy |-> NoPolicy, used |-> [total |-> 0, user |-> 0, agents |-> 0], snap |-> None]

Become(r, pc) == requests' = [requests EXCEPT ![r].pc = pc]

\* getSandboxWithAuthCheck
Accessible(user, n) == sandboxes[n] # None /\ (user \in Admins \/ sandboxes[n].owner = user)

Belongs(s, n) == s.of = n

\* The handler reads the body and turns to pc.
Open(r, o, pc, items) ==
  /\ requests[r].pc = "idle"
  /\ requests' = [requests EXCEPT ![r] =
       [@ EXCEPT !.pc = pc, !.kind = o.kind, !.user = o.user, !.source = o.source, !.items = items]]
  /\ UNCHANGED <<sandboxes, snapVars, faults>>

\* A clone and a restore copy the source's spec.
Copied(o) ==
  [i \in DOMAIN o.items |->
    LET sb == sandboxes[o.source]
    IN [o.items[i] EXCEPT !.template = sb.template, !.mode = sb.mode, !.image = sb.image, !.asked = sb.asked]]

HasVolume(n) == vols[n].kind # "none"

ReceiveCreate(r, o) == o.kind = "create" /\ Open(r, o, "cluster", o.items)
ReceiveBulk(r, o) == o.kind = "bulk" /\ Open(r, o, "cluster", o.items)
ReceiveApply(r, o) == o.kind = "apply" /\ Open(r, o, "create", o.items)
ReceiveClone(r, o) ==
  /\ o.kind = "clone" /\ Accessible(o.user, o.source) /\ HasVolume(o.source)
  /\ Open(r, o, "snapshot", Copied(o))
ReceiveBackup(r, o) ==
  /\ o.kind = "backup" /\ Accessible(o.user, o.source) /\ HasVolume(o.source)
  /\ Open(r, o, "snapshot", <<>>)
ReceiveRestore(r, o) ==
  /\ o.kind = "restore" /\ Accessible(o.user, o.source)
  /\ Open(r, o, "lookup", Copied(o))
Receive(r) ==
  \E o \in Orders :
    \/ ReceiveCreate(r, o) \/ ReceiveBulk(r, o) \/ ReceiveApply(r, o)
    \/ ReceiveClone(r, o) \/ ReceiveBackup(r, o) \/ ReceiveRestore(r, o)

Named(kind, n, t) == [kind |-> kind, of |-> n, at |-> now, by |-> t]
\* The name has the second it was taken in.
Clashes(kind, n) == \E t \in snaps : t.kind = kind /\ t.of = n /\ t.at = now
Snap(r, kind, pc) ==
  LET s == Named(kind, requests[r].source, r)
  IN /\ requests[r].pc = "snapshot"
     /\ \/ /\ snaps' = snaps \union {s}
           /\ requests' = [requests EXCEPT ![r].pc = pc, ![r].snap = s]
           /\ UNCHANGED faults
        \/ /\ Fault \/ (Clashes(kind, requests[r].source) /\ UNCHANGED faults)
           /\ Become(r, "done")
           /\ UNCHANGED snaps
     /\ UNCHANGED <<sandboxes, dying>>

SnapshotSource(r) == requests[r].kind = "clone" /\ Snap(r, "clone", "create")
CreateBackup(r) == requests[r].kind = "backup" /\ Snap(r, "backup", "done")

Lookup(r) ==
  /\ requests[r].pc = "lookup"
  /\ \/ \E s \in snaps \ dying :
          /\ Belongs(s, requests[r].source)
          /\ requests' = [requests EXCEPT ![r].pc = "cluster", ![r].snap = s]
     \/ Become(r, "done")
  /\ UNCHANGED <<sandboxes, snapVars, faults>>

\* governance.Resolve: each scope is a read of its own, and a failed read
\* means no enforcement.
ReadCluster(r) ==
  /\ requests[r].pc = "cluster"
  /\ \/ /\ requests' = [requests EXCEPT ![r].pc = "namespace", ![r].policy = store.policies["cluster"]]
        /\ UNCHANGED faults
     \/ Fault /\ Become(r, "create")
  /\ UNCHANGED <<sandboxes, snapVars>>

ReadNamespace(r) ==
  LET p == MergePolicies(requests[r].policy, store.policies["namespace"])
  IN /\ requests[r].pc = "namespace"
     /\ \/ /\ requests' = [requests EXCEPT ![r].pc = IF IsEmpty(p) THEN "create" ELSE "list", ![r].policy = p]
           /\ UNCHANGED faults
        \/ Fault /\ requests' = [requests EXCEPT ![r].pc = "create", ![r].policy = NoPolicy]
     /\ UNCHANGED <<sandboxes, snapVars>>

\* The quotas see what List returned; a batch is admitted whole.
Admitted(q, used) ==
  IF q.kind = "bulk"
  THEN CheckBulk(q.policy, used, Len(q.items), Cardinality({i \in DOMAIN q.items : Mode(q.items[i].template) = "agent"}))
  ELSE Check(q.policy, used, q.items[1])

List(r) ==
  LET used == CountUsage(sandboxes, requests[r].user)
  IN /\ requests[r].pc = "list"
     /\ \/ /\ requests' = [requests EXCEPT ![r].used = used,
                ![r].pc = IF Admitted(requests[r], used) THEN "create" ELSE "done"]
           /\ UNCHANGED faults
        \/ Fault /\ Become(r, "done")
     /\ UNCHANGED <<sandboxes, snapVars>>

Left(q) == IF q.pc = "create" THEN Len(q.items) - q.next + 1 ELSE 0

\* The webhook writes who the API server heard: the Router is one user.
Owner(q) == IF hook /\ q.kind # "apply" THEN Router ELSE q.user
Label(kind) == CASE kind = "clone" -> "cloned" [] kind = "restore" -> "restored" [] OTHER -> "none"
Built(q) ==
  LET item == q.items[q.next]
  IN [owner |-> Owner(q), template |-> item.template, mode |-> item.mode, image |-> item.image,
      asked |-> item.asked, snapshot |-> q.snap, label |-> Label(q.kind), phase |-> "New"]

\* handleCreate of the webhook: its own policy and usage, from the cache.
Effective(policies) == MergePolicies(policies["cluster"], policies["namespace"])
HookTrustsRouter(sb) ==
  hook => sb.owner = Router \/ Check(Effective(cache.policies), CountUsage(cache.sandboxes, sb.owner), sb)
HookAdmits(sb) ==
  LET p == Effective(cache.policies)
  IN hook => IsEmpty(p) \/ Check(p, CountUsage(cache.sandboxes, sb.owner), sb)

\* An item of a batch is skipped when it is malformed or breaks the policy.
Skips(q) ==
  LET item == q.items[q.next]
  IN q.kind = "bulk" /\ (~item.valid \/ (~IsEmpty(q.policy) /\ ~Check(q.policy, q.used, item)))

\* One item is over: the batch goes on, and a failed clone cleans up.
After(q, ok) ==
  [q EXCEPT !.next = @ + 1,
            !.pc = CASE q.kind = "clone" /\ ~ok -> "cleanup"
                     [] q.kind = "bulk" /\ q.next < Len(q.items) -> "create"
                     [] OTHER -> "done"]

\* A fault is an error, whether or not the API server stored the object.
Create(r) ==
  LET q == requests[r]  n == q.items[q.next].name  sb == Built(q)
      fits == sandboxes[n] = None /\ HookAdmits(sb)
  IN /\ q.pc = "create"
     /\ \/ /\ ~Skips(q) /\ fits
           /\ sandboxes' = [sandboxes EXCEPT ![n] = sb]
           /\ \/ requests' = [requests EXCEPT ![r] = After(q, TRUE)] /\ UNCHANGED faults
              \/ requests' = [requests EXCEPT ![r] = After(q, FALSE)] /\ Fault
        \/ /\ IF Skips(q) \/ ~fits THEN UNCHANGED faults ELSE Fault
           /\ requests' = [requests EXCEPT ![r] = After(q, FALSE)]
           /\ UNCHANGED sandboxes
     /\ UNCHANGED snapVars

Mark(s) == dying' = dying \union {s}

Cleanup(r) ==
  /\ requests[r].pc = "cleanup"
  /\ Become(r, "done")
  /\ \/ Mark(requests[r].snap) /\ UNCHANGED faults
     \/ Fault /\ UNCHANGED dying
  /\ UNCHANGED <<sandboxes, snaps>>

\* What the quotas of a policy count: all sandboxes, or a user's.
Quotas == {"total"} \union Users
CapOf(p, d) == IF d = "total" THEN p.total ELSE p.perUser
Within(d, user) == d = "total" \/ d = user
Counted(d) == Cardinality({n \in Names : Counts(sandboxes, n) /\ Within(d, sandboxes[n].owner)})
Opening(d) == [r \in Requests |-> IF Within(d, requests[r].user) THEN Left(requests[r]) ELSE 0]
Opened(d, rs) == MapThenSumSet(LAMBDA r : Opening(d)[r], rs)

\* A check sees all but what other requests have still to create; a request
\* that is let through without one adds to what the last check did not see.
Account(r) ==
  LET q == requests'[r]
  IN ledger' = [d \in Quotas |->
       IF ~(Within(d, q.user) /\ q.pc = "create" /\ requests[r].pc # "create") THEN ledger[d]
       ELSE IF requests[r].pc = "list"
            THEN [cap |-> CapOf(q.policy, d), unseen |-> Opened(d, Requests \ {r})]
            ELSE [ledger[d] EXCEPT !.unseen = @ + Left(q)]]

Route(r) ==
  /\ \/ Receive(r) \/ SnapshotSource(r) \/ CreateBackup(r) \/ Lookup(r) \/ ReadCluster(r) \/ ReadNamespace(r)
     \/ List(r) \/ Create(r) \/ Cleanup(r)
  /\ Account(r)
  /\ UNCHANGED <<policyVars, vols, hook, cache, warm, timeVars, erased>>

-----------------------------------------------------------------------------
(* The controller and the storage, as far as the volumes go.               *)

SetPhase(n, phase) == sandboxes' = [sandboxes EXCEPT ![n].phase = phase]
Phase(n) == IF sandboxes[n] = None THEN "none" ELSE sandboxes[n].phase
Give(n, kind, content) == vols' = [vols EXCEPT ![n] = [kind |-> kind, content |-> content, born |-> now]]

\* handleCreating takes a warm pod of the template, whatever the sandbox is
\* restored from.
Claim(n) ==
  /\ Phase(n) = "New" /\ vols[n].kind = "none" /\ sandboxes[n].template # None /\ warm > 0
  /\ warm' = warm - 1
  /\ Give(n, "pool", "blank")
  /\ SetPhase(n, "Running")
  /\ UNCHANGED snapVars

Provision(n) ==
  /\ Phase(n) = "New" /\ (warm = 0 \/ sandboxes[n].template = None)
  /\ Give(n, "built", IF sandboxes[n].snapshot = None THEN "blank" ELSE "pending")
  /\ SetPhase(n, "Creating")
  /\ UNCHANGED <<warm, snapVars>>

\* The driver fills the volume while the snapshot is there.
Hydrate(n) ==
  /\ vols[n].content = "pending" /\ sandboxes[n].snapshot \in snaps
  /\ vols' = [vols EXCEPT ![n].content = "restored"]
  /\ UNCHANGED <<sandboxes, warm, snapVars>>

Start(n) ==
  /\ Phase(n) = "Creating" /\ vols[n].content # "pending"
  /\ SetPhase(n, "Running")
  /\ UNCHANGED <<vols, warm, snapVars>>

Fail(n) ==
  /\ Phase(n) \in {"New", "Creating", "Running"}
  /\ SetPhase(n, "Error")
  /\ Fault
  /\ UNCHANGED <<vols, warm, snapVars>>

\* The quotas do not count a failed sandbox, and nothing checks a resume.
Resume(n) ==
  /\ Phase(n) = "Error"
  /\ SetPhase(n, IF vols[n].kind = "none" THEN "New" ELSE "Creating")
  /\ UNCHANGED <<vols, warm, snapVars>>

\* The volume goes with the sandbox. A name is used once.
Delete(n) ==
  /\ Phase(n) \notin {"none", "Deleting"}
  /\ SetPhase(n, "Deleting")
  /\ vols' = [vols EXCEPT ![n] = NoVolume]
  /\ UNCHANGED <<warm, snapVars>>

\* The snapshotter lets a snapshot go when no volume is being filled from it.
Expire(s) ==
  /\ s \in dying \intersect snaps
  /\ \A n \in Names : ~(vols[n].content = "pending" /\ sandboxes[n].snapshot = s)
  /\ snaps' = snaps \ {s}
  /\ dying' = dying \ {s}
  /\ UNCHANGED <<sandboxes, vols, warm>>

Resumed(n, d) == Phase(n) = "Error" /\ Phase(n)' \in {"New", "Creating"} /\ Within(d, sandboxes[n].owner)
Control ==
  /\ \/ \E n \in Names : Fail(n)
     \/ /\ \/ \E n \in Names : Claim(n) \/ Provision(n) \/ Hydrate(n) \/ Start(n) \/ Resume(n) \/ Delete(n)
           \/ \E s \in snaps : Expire(s)
        /\ UNCHANGED faults
  /\ ledger' = [d \in Quotas |-> [ledger[d] EXCEPT !.unseen = @ + Cardinality({n \in Names : Resumed(n, d)})]]
  /\ UNCHANGED <<policyVars, requests, hook, cache, timeVars, erased>>

\* The watches of the controller's cache.
Sync ==
  /\ \/ cache' = [cache EXCEPT !.sandboxes = sandboxes]
     \/ cache' = [cache EXCEPT !.policies = store.policies]
  /\ UNCHANGED <<policyVars, sandboxes, vols, quotaVars, hook, warm, snapVars, timeVars, faults, erased>>

-----------------------------------------------------------------------------
(* backup.Scheduler                                                        *)

NewScheduler == [pc |-> "idle", todo |-> {}, due |-> TRUE, next |-> now + Interval]

\* snapshotManagedPVCs: the label is the PVC builder's, and a volume of the
\* warm pool never gets it.
Managed == {n \in Names : vols[n].kind = "built"}

StartPass ==
  /\ backup.pc = "idle" /\ backup.due
  /\ \/ backup' = [backup EXCEPT !.pc = "snapshot", !.todo = Managed, !.due = FALSE] /\ UNCHANGED faults
     \/ Fault /\ backup' = [backup EXCEPT !.pc = "snapshot", !.todo = {}, !.due = FALSE]
  /\ UNCHANGED <<snapVars, erased>>

BackUp(n) ==
  /\ backup.pc = "snapshot" /\ n \in backup.todo
  /\ backup' = [backup EXCEPT !.todo = @ \ {n}]
  /\ \/ /\ snaps' = snaps \union {Named("backup", n, None)}
        /\ UNCHANGED faults
     \/ /\ Fault \/ (Clashes("backup", n) /\ UNCHANGED faults)
        /\ UNCHANGED snaps
  /\ UNCHANGED <<dying, erased>>

\* pruneExpired
ExpiredAny == {s \in snaps : s.at + Retention <= now}
Expired == {s \in snaps : s.kind = "backup" /\ s.at + Retention <= now}
ListExpired ==
  /\ backup.pc = "snapshot" /\ backup.todo = {}
  /\ \/ backup' = [backup EXCEPT !.pc = "prune", !.todo = Expired] /\ UNCHANGED faults
     \/ Fault /\ backup' = [backup EXCEPT !.pc = "idle"]
  /\ UNCHANGED <<snapVars, erased>>

\* One that is gone by now is passed over.
Prune(s) ==
  /\ backup.pc = "prune" /\ s \in backup.todo
  /\ backup' = [backup EXCEPT !.todo = @ \ {s}]
  /\ \/ dying' = dying \union ({s} \intersect snaps) /\ UNCHANGED faults
     \/ Fault /\ UNCHANGED dying
  /\ UNCHANGED <<snaps, erased>>

EndPass ==
  /\ backup.pc = "prune" /\ backup.todo = {}
  /\ backup' = [backup EXCEPT !.pc = "idle"]
  /\ UNCHANGED <<snapVars, faults, erased>>

\* A new leader starts with a pass and a ticker of its own.
Crash ==
  /\ backup.pc # "off"
  /\ backup' = NewScheduler
  /\ UNCHANGED <<snapVars, faults, erased>>

\* handleDeleteBackup, by the owner of the source.
DeleteBackup(s) ==
  /\ s \in snaps /\ \E n \in Names, u \in Users : Belongs(s, n) /\ Accessible(u, n)
  /\ Mark(s)
  /\ erased' = erased \union {s}
  /\ UNCHANGED <<backup, snaps, faults>>

Schedule ==
  /\ \/ StartPass \/ ListExpired \/ EndPass \/ Crash
     \/ \E n \in Names : BackUp(n)
     \/ \E s \in backup.todo : Prune(s)
     \/ \E s \in snaps : DeleteBackup(s)
  /\ UNCHANGED <<policyVars, sandboxes, vols, quotaVars, hook, cache, warm, now>>

\* A pass ends before the clock moves.
Tick ==
  /\ now < MaxTime
  /\ backup.pc = "idle" /\ ~backup.due
  /\ now' = now + 1
  /\ backup' = IF now' = backup.next THEN [backup EXCEPT !.due = TRUE, !.next = @ + Interval] ELSE backup
  /\ UNCHANGED <<policyVars, sandboxes, vols, quotaVars, hook, cache, warm, snapVars, faults, erased>>

-----------------------------------------------------------------------------
Init ==
  /\ store = [rv |-> 0, policies |-> [s \in Scopes |-> NoPolicy]]
  /\ editors = [e \in Editors |-> IdleEditor]
  /\ sandboxes = [n \in Names |-> None]
  /\ vols = [n \in Names |-> NoVolume]
  /\ requests = [r \in Requests |-> NewRequest]
  /\ hook \in BOOLEAN
  /\ cache = [sandboxes |-> sandboxes, policies |-> store.policies]
  /\ warm \in 0..MaxWarm
  /\ snaps = {} /\ dying = {} /\ erased = {}
  /\ now = 0 /\ faults = 0
  /\ backup \in {NewScheduler, [NewScheduler EXCEPT !.pc = "off"]}
  /\ ledger = [d \in Quotas |-> [cap |-> 0, unseen |-> 0]]

Next ==
  \/ \E e \in Editors : Edit(e)
  \/ \E r \in Requests : Route(r)
  \/ Control \/ Sync \/ Schedule \/ Tick

Spec == Init /\ [][Next]_vars

-----------------------------------------------------------------------------
\* Requests, editors and the scheduler are where their code can be, and every
\* sandbox, volume, policy and snapshot is one the code can store.
TypeOK ==
  /\ store \in [rv : Nat, policies : [Scopes -> Policy]]
  /\ editors \in [Editors -> [pc : {"off", "idle", "save", "reload", "update", "done"}, scope : Scopes,
       policy : Policy, map : [Scopes -> Policy], rv : Nat]]
  /\ sandboxes \in [Names -> Sandbox \union {None}]
  /\ vols \in [Names -> Volume]
  /\ \A r \in Requests :
       /\ requests[r].pc \in {"off", "idle", "snapshot", "lookup", "cluster", "namespace", "list", "create", "cleanup", "done"}
       /\ requests[r].policy \in Policy
       /\ requests[r].pc = "create" => requests[r].next \in DOMAIN requests[r].items
  /\ hook \in BOOLEAN /\ warm \in 0..MaxWarm
  /\ cache \in [sandboxes : [Names -> Sandbox \union {None}], policies : [Scopes -> Policy]]
  /\ snaps \subseteq Snapshot /\ dying \union erased \subseteq Snapshot
  /\ backup.pc \in {"off", "idle", "snapshot", "prune"} /\ backup.due \in BOOLEAN /\ backup.next \in Nat
  /\ now \in Times /\ faults \in 0..MaxFaults

\* A quota is exceeded by no more than the last check of it could not see:
\* what other requests had yet to create, and what was let through unchecked
\* since (clones, direct writes, unread policies, resumed failures). The check
\* and the creation are two calls (handlers.go:150-173).
OvershootIsAccounted ==
  /\ ledger \in [Quotas -> [cap : Nat, unseen : Nat]]
  /\ \A d \in Quotas : ledger[d].cap # 0 =>
       Counted(d) + Opened(d, Requests) <= ledger[d].cap + ledger[d].unseen

\* With the webhook and its cache up to date, no creation by anyone takes the
\* namespace over its quota (sandbox_webhook.go:100-114, "closes the kubectl
\* bypass").
Current == cache.sandboxes = sandboxes /\ cache.policies = store.policies
WebhookClosesGap ==
  [][LET cap == Effective(store.policies).total
     IN hook /\ Current /\ cap # 0 /\ (\E n \in Names : sandboxes[n] = None /\ sandboxes'[n] # None)
        => Counted("total")' <= cap]_vars

\* An update of one scope's policy leaves the other scope's as it is in the
\* store, whatever was written since the ConfigMap was read (policy.go:197-203).
WritersKeepOthers ==
  [][\A e \in Editors : editors[e].pc = "save" /\ editors[e].rv # 0 /\ editors'[e].pc = "done" /\ store' # store
       => \A s \in Scopes \ {editors[e].scope} : store'.policies[s] = store.policies[s]]_vars

Rested == backup.pc = "idle" /\ ~backup.due /\ faults = 0
Kept == snaps \ dying

\* Between passes no backup is older than the retention and an interval, even
\* when its sandbox is gone or a crash broke a pass (scheduler.go:160-191).
RetentionHolds ==
  Rested => \A s \in Kept : s.kind = "backup" => now < s.at + Retention + Interval

\* Between passes a volume built an interval ago has a backup younger than
\* that, unless a user deleted it (scheduler.go:112-157).
RecentBackup ==
  Rested /\ Retention >= Interval =>
    \A n \in Names : vols[n].kind = "built" /\ vols[n].born + Interval <= now =>
      \E s \in Kept \union erased : s.kind = "backup" /\ s.of = n /\ now < s.at + Interval

\* A clone that still has to be filled finds its snapshot: neither the
\* retention of the backups nor the clean-up of another clone takes it
\* (scheduler.go:54-56, handlers.go:430-433).
CloneKeepsItsSnapshot ==
  faults = 0 => \A n \in Names :
    Phase(n) \notin {"none", "Deleting"} /\ sandboxes[n].label = "cloned" /\ vols[n].content # "restored"
      => sandboxes[n].snapshot \in Kept \union erased

\* The snapshots are those that have a use: backups of every volume, none too
\* old, and what a clone is made from.
SnapshotsKept == TypeOK /\ RetentionHolds /\ RecentBackup /\ CloneKeepsItsSnapshot

\* A sandbox made from a snapshot runs on what the snapshot held
\* (docs/docs/cloning.md).
RestoredWorkspace ==
  \A n \in Names : Phase(n) = "Running" /\ sandboxes[n].snapshot # None => vols[n].content = "restored"
=============================================================================
