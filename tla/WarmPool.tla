------------------------------ MODULE WarmPool ------------------------------
(***************************************************************************)
(* The warm pool (pkg/controller/warmpool/pool.go): the leader's reconcile *)
(* loop, which creates and deletes idle pods and their volumes, against    *)
(* the claims of concurrent sandbox reconciles, all of them working from   *)
(* an informer cache that lags behind the API server.                      *)
(*                                                                         *)
(* A claim and an adoption are versioned writes: they succeed only when    *)
(* the copy they were computed from is the server's.  A delete is not.     *)
(* Names come from a random source, so a name is used again only once      *)
(* nothing is left of its former bearer; a pod and its volume share one.   *)
(***************************************************************************)
EXTENDS Naturals, FiniteSets

CONSTANTS
  Templates,     \* the templates a pool can warm
  Sandboxes,     \* the sandboxes being created, each a claimer
  PodNames,      \* the supply of names for pool pods and their volumes
  None,          \* no template, no sandbox, no name
  MaxDesired,    \* the largest desiredCount (10 in the code)
  Configs,       \* the pool configurations an admin writes
  MaxAttempts,   \* claimMaxAttempts (3 in the code)
  MaxFaults,     \* bound on failed calls, failed pods and restarts
  MaxEdits       \* bound on changes of the configuration

ASSUME NoneAssumption == None \notin Templates \union Sandboxes \union PodNames
ASSUME NumbersAssumption ==
  MaxDesired \in Nat /\ MaxAttempts \in Nat \ {0} /\ MaxFaults \in Nat /\ MaxEdits \in Nat
ASSUME NamesAssumption == IsFiniteSet(PodNames)
\* A configuration is a set of entries <<template, desiredCount>>.
ASSUME ConfigsAssumption == Configs \subseteq SUBSET (Templates \X (0..MaxDesired))

VARIABLES
  config,   \* the ConfigMap's entries
  pods,     \* the pods on the API server
  podSeen,  \* the informer's copy of them
  vols,     \* their volumes: "none", "bound", or "dying" (deleted, in use)
  rec,      \* the reconcile loop of the pool
  claim,    \* for each sandbox, its claim
  faults, edits

vars == <<config, pods, podSeen, vols, rec, claim, faults, edits>>

\* template: the pool labels; they are stripped by a claim.
Pod ==
  [st : {"absent", "Pending", "Ready", "Failed"}, term : BOOLEAN,
   template : Templates \union {None}, owner : Sandboxes \union {None}]

NoPod == [st |-> "absent", term |-> FALSE, template |-> None, owner |-> None]

\* entries: the entries read at the start of the cycle; todo: those left;
\* template and target: the entry at work (None: the orphans); victims: the
\* listed pods not tried yet; excess: how many of them to delete; name: the
\* pod whose volume comes next.
Reconcile ==
  [pc : {"idle", "pools", "create", "createPod", "scale", "delete", "deletePvc"},
   entries : SUBSET (Templates \X (0..MaxDesired)),
   todo : SUBSET (Templates \X (0..MaxDesired)),
   template : Templates \union {None}, target : 0..MaxDesired,
   victims : SUBSET PodNames, excess : Nat, name : PodNames \union {None}]

Idle == [pc |-> "idle", entries |-> {}, todo |-> {}, template |-> None,
         target |-> 0, victims |-> {}, excess |-> 0, name |-> None]

\* listed: the ready pods of the last list not tried yet, and whether the copy
\* was terminating; lost: a race was lost since that list.
Claims ==
  [pc : {"list", "walk", "adopt", "running", "cold"},
   template : Templates \union {None}, attempt : 0..(MaxAttempts - 1),
   listed : SUBSET (PodNames \X BOOLEAN), lost : BOOLEAN,
   pod : PodNames \union {None}]

NewClaim == [pc |-> "list", template |-> None, attempt |-> 0, listed |-> {},
             lost |-> FALSE, pod |-> None]

Init ==
  /\ config = {}
  /\ pods = [n \in PodNames |-> NoPod]
  /\ podSeen = pods
  /\ vols = [n \in PodNames |-> "none"]
  /\ rec = Idle
  /\ claim = [s \in Sandboxes |-> NewClaim]
  /\ faults = MaxFaults
  /\ edits = MaxEdits

Fault ==
  /\ faults > 0
  /\ faults' = faults - 1

-----------------------------------------------------------------------------
(* The pool's reconcile loop.                                              *)

Templated(entries) == {e[1] : e \in entries}

\* listPoolPods: what the cache shows under the pool labels of t, whatever
\* its state.
PoolPods(cache, t) == {n \in PodNames : cache[n].template = t}

\* The ticker fires and the ConfigMap is read.  The interval (15 s) exceeds the
\* lag of the informer, so the cache shows what the previous cycle did.
StartCycle ==
  /\ rec.pc = "idle"
  /\ podSeen = pods
  /\ config # {} \/ \E n \in PodNames : pods[n].template # None
  /\ rec' = [Idle EXCEPT !.pc = "pools", !.entries = config, !.todo = config]
  /\ UNCHANGED <<config, pods, podSeen, vols, claim, faults, edits>>

\* Mutant: only the ready pods are counted.
ReconcilePoolReady ==
  /\ rec.pc = "pools"
  /\ \E e \in rec.todo :
       LET size == Cardinality({n \in PoolPods(podSeen, e[1]) : podSeen[n].st = "Ready"})
           step == IF e[2] = 0 \/ size > e[2] THEN "scale"
                   ELSE IF size < e[2] THEN "create" ELSE "pools"
       IN  rec' = [rec EXCEPT !.pc = step, !.todo = @ \ {e},
                              !.template = e[1], !.target = e[2]]
  /\ UNCHANGED <<config, pods, podSeen, vols, claim, faults, edits>>

\* Mutant: a disabled entry is skipped.
ReconcilePoolSkips ==
  /\ rec.pc = "pools"
  /\ \E e \in rec.todo :
       LET size == Cardinality(PoolPods(podSeen, e[1]))
           step == IF e[2] = 0 THEN "pools"
                   ELSE IF size > e[2] THEN "scale"
                   ELSE IF size < e[2] THEN "create" ELSE "pools"
       IN  rec' = [rec EXCEPT !.pc = step, !.todo = @ \ {e},
                              !.template = e[1], !.target = e[2]]
  /\ UNCHANGED <<config, pods, podSeen, vols, claim, faults, edits>>

\* reconcilePool: one entry is compared with the listed pods.
ReconcilePool ==
  /\ rec.pc = "pools"
  /\ \E e \in rec.todo :
       LET size == Cardinality(PoolPods(podSeen, e[1]))
           step == IF e[2] = 0 \/ size > e[2] THEN "scale"
                   ELSE IF size < e[2] THEN "create" ELSE "pools"
       IN  rec' = [rec EXCEPT !.pc = step, !.todo = @ \ {e},
                              !.template = e[1], !.target = e[2]]
  /\ UNCHANGED <<config, pods, podSeen, vols, claim, faults, edits>>

\* Nothing is left of the former bearer of n, and nobody remembers it.
Fresh(n) ==
  /\ pods[n] = NoPod /\ podSeen[n] = NoPod /\ vols[n] = "none"
  /\ n \notin rec.victims /\ n # rec.name
  /\ \A s \in Sandboxes : n # claim[s].pod /\ \A l \in claim[s].listed : l[1] # n

\* createPoolPod creates the volume, then the pod.  Either call may fail; the
\* volume is not taken back.
CreatePvc ==
  /\ rec.pc = "create"
  /\ \/ \E n \in PodNames :
          /\ Fresh(n)
          /\ vols' = [vols EXCEPT ![n] = "bound"]
          /\ rec' = [rec EXCEPT !.pc = "createPod", !.name = n]
          /\ UNCHANGED faults
     \/ Fault /\ rec' = [rec EXCEPT !.pc = "pools"] /\ UNCHANGED vols
     \* the supply of names of this model is used up
     \/ /\ \A n \in PodNames : ~Fresh(n)
        /\ rec' = [rec EXCEPT !.pc = "pools"]
        /\ UNCHANGED <<vols, faults>>
  /\ UNCHANGED <<config, pods, podSeen, claim, edits>>

CreatePod ==
  /\ rec.pc = "createPod"
  /\ \/ /\ pods' = [pods EXCEPT ![rec.name] =
                      [NoPod EXCEPT !.st = "Pending", !.template = rec.template]]
        /\ UNCHANGED faults
     \/ Fault /\ UNCHANGED pods
  /\ rec' = [rec EXCEPT !.pc = "pools", !.name = None]
  /\ UNCHANGED <<config, podSeen, vols, claim, edits>>

\* scaleDown lists again, and deletes what exceeds the target.
ScaleDown ==
  /\ rec.pc = "scale"
  /\ LET listed == PoolPods(podSeen, rec.template)
     IN  rec' = IF Cardinality(listed) <= rec.target
                THEN [rec EXCEPT !.pc = "pools"]
                ELSE [rec EXCEPT !.pc = "delete", !.victims = listed,
                                 !.excess = Cardinality(listed) - rec.target]
  /\ UNCHANGED <<config, pods, podSeen, vols, claim, faults, edits>>

\* cleanupOrphanedPools: the pods of templates the configuration dropped.
ListOrphans ==
  /\ rec.pc = "pools" /\ rec.todo = {}
  /\ LET orphans == {n \in PodNames : /\ podSeen[n].template # None
                                      /\ podSeen[n].template \notin Templated(rec.entries)}
     IN  rec' = [rec EXCEPT !.pc = "delete", !.template = None, !.victims = orphans,
                            !.excess = Cardinality(orphans)]
  /\ UNCHANGED <<config, pods, podSeen, vols, claim, faults, edits>>

\* Mutant: the volume is deleted even when the pod could not be.
DeletePodAnyway ==
  /\ rec.pc = "delete" /\ rec.excess > 0
  /\ \E n \in rec.victims :
       /\ \/ /\ pods' = IF pods[n].st = "absent" THEN pods
                        ELSE [pods EXCEPT ![n].term = TRUE]
             /\ UNCHANGED faults
          \/ Fault /\ UNCHANGED pods
       /\ rec' = [rec EXCEPT !.pc = "deletePvc", !.victims = @ \ {n}, !.name = n]
  /\ UNCHANGED <<config, podSeen, vols, claim, edits>>

\* deletePodAndPVC: a pod that is gone counts as deleted, a failed delete
\* leaves the volume alone and goes on with the next pod.
DeletePod ==
  /\ rec.pc = "delete" /\ rec.excess > 0
  /\ \E n \in rec.victims :
       \/ /\ pods' = IF pods[n].st = "absent" THEN pods
                     ELSE [pods EXCEPT ![n].term = TRUE]
          /\ rec' = [rec EXCEPT !.pc = "deletePvc", !.victims = @ \ {n}, !.name = n]
          /\ UNCHANGED faults
       \/ /\ Fault
          /\ rec' = [rec EXCEPT !.victims = @ \ {n}]
          /\ UNCHANGED pods
  /\ UNCHANGED <<config, podSeen, vols, claim, edits>>

\* A volume in use goes with its pod; a failure is ignored.
DeletePvc ==
  /\ rec.pc = "deletePvc"
  /\ \/ /\ vols' = [vols EXCEPT ![rec.name] =
                      IF @ = "none" \/ pods[rec.name].st = "absent" THEN "none" ELSE "dying"]
        /\ UNCHANGED faults
     \/ Fault /\ UNCHANGED vols
  /\ rec' = [rec EXCEPT !.pc = "delete", !.excess = @ - 1, !.name = None]
  /\ UNCHANGED <<config, pods, podSeen, claim, edits>>

EndDelete ==
  /\ rec.pc = "delete" /\ (rec.excess = 0 \/ rec.victims = {})
  /\ rec' = IF rec.template = None THEN Idle
            ELSE [rec EXCEPT !.pc = "pools", !.victims = {}, !.excess = 0]
  /\ UNCHANGED <<config, pods, podSeen, vols, claim, faults, edits>>

PoolLoop ==
  \/ StartCycle \/ ReconcilePool \/ CreatePvc \/ CreatePod \/ ScaleDown
  \/ ListOrphans \/ DeletePod \/ DeletePvc \/ EndDelete

-----------------------------------------------------------------------------
(* Claims.                                                                 *)

\* The pool pods of t that are ready in the cache.
ListReady(s) ==
  /\ claim[s].pc = "list"
  /\ \E t \in Templates :
       /\ claim[s].template \in {None, t}
       /\ claim' = [claim EXCEPT ![s].pc = "walk", ![s].template = t,
            ![s].lost = FALSE,
            ![s].listed = {<<n, podSeen[n].term>> :
                            n \in {m \in PoolPods(podSeen, t) : podSeen[m].st = "Ready"}}]
  /\ UNCHANGED <<config, pods, podSeen, vols, rec, faults, edits>>

\* The server still holds the listed copy of a ready pool pod.
Unchanged(l, t) == pods[l[1]] = [st |-> "Ready", term |-> l[2], template |-> t, owner |-> None]

\* Mutant: the labels are removed by a patch, without a version.
WalkPatching(s) ==
  /\ claim[s].pc = "walk"
  /\ \E l \in claim[s].listed :
       /\ pods[l[1]].st # "absent"
       /\ pods' = [pods EXCEPT ![l[1]].template = None]
       /\ claim' = [claim EXCEPT ![s].pc = "adopt", ![s].pod = l[1], ![s].listed = {}]
  /\ UNCHANGED <<config, podSeen, vols, rec, faults, edits>>

\* Claim tries the next listed pod: it wins it, or lost it to somebody else.
Walk(s) ==
  /\ claim[s].pc = "walk"
  /\ \E l \in claim[s].listed :
       IF Unchanged(l, claim[s].template)
       THEN /\ pods' = [pods EXCEPT ![l[1]].template = None]
            /\ claim' = [claim EXCEPT ![s].pc = "adopt", ![s].pod = l[1], ![s].listed = {}]
       ELSE /\ claim' = [claim EXCEPT ![s].listed = @ \ {l}, ![s].lost = TRUE]
            /\ UNCHANGED pods
  /\ UNCHANGED <<config, podSeen, vols, rec, faults, edits>>

\* Any other error ends the claim, before or after its write.
ClaimFails(s) ==
  /\ claim[s].pc \in {"list", "walk", "adopt"}
  /\ Fault
  /\ claim' = [claim EXCEPT ![s].pc = "cold", ![s].listed = {}, ![s].pod = None]
  /\ UNCHANGED <<config, pods, podSeen, vols, rec, edits>>

\* The walk is over: another list when a race was lost, else a cold start.
EndWalk(s) ==
  /\ claim[s].pc = "walk" /\ claim[s].listed = {}
  /\ LET again == claim[s].lost /\ claim[s].attempt + 1 < MaxAttempts
     IN  claim' = [claim EXCEPT ![s].pc = IF again THEN "list" ELSE "cold",
                                ![s].attempt = IF again THEN @ + 1 ELSE @]
  /\ UNCHANGED <<config, pods, podSeen, vols, rec, faults, edits>>

\* The sandbox adopts the pod, unless the cache does not show the claim yet:
\* then it starts cold and the claimed pod belongs to nobody.
Adopt(s) ==
  /\ claim[s].pc = "adopt"
  /\ LET n == claim[s].pod
     IN  IF podSeen[n] = pods[n] /\ pods[n].st # "absent"
         THEN /\ pods' = [pods EXCEPT ![n].owner = s]
              /\ claim' = [claim EXCEPT ![s].pc = "running"]
         ELSE /\ claim' = [claim EXCEPT ![s].pc = "cold", ![s].pod = None]
              /\ UNCHANGED pods
  /\ UNCHANGED <<config, podSeen, vols, rec, faults, edits>>

Claimer(s) == ListReady(s) \/ Walk(s) \/ EndWalk(s) \/ Adopt(s)

\* The controller restarts: the loop and the claims in progress start over.
Restart ==
  /\ Fault
  /\ rec' = Idle
  /\ claim' = [s \in Sandboxes |-> IF claim[s].pc \in {"running", "cold"}
                                   THEN claim[s] ELSE NewClaim]
  /\ UNCHANGED <<config, pods, podSeen, vols, edits>>

-----------------------------------------------------------------------------
(* The admin, the informer and the kubelet.                                *)

SetConfig ==
  /\ edits > 0 /\ edits' = edits - 1
  /\ config' \in Configs \ {config}
  /\ UNCHANGED <<pods, podSeen, vols, rec, claim, faults>>

SyncPods ==
  /\ podSeen # pods
  /\ podSeen' = pods
  /\ UNCHANGED <<config, pods, vols, rec, claim, faults, edits>>

PodReady(n) ==
  /\ pods[n].st = "Pending" /\ ~pods[n].term
  /\ pods' = [pods EXCEPT ![n].st = "Ready"]
  /\ UNCHANGED <<config, podSeen, vols, rec, claim, faults, edits>>

\* Pool pods are never restarted (RestartPolicyNever).
PodFails(n) ==
  /\ pods[n].st \in {"Pending", "Ready"}
  /\ Fault
  /\ pods' = [pods EXCEPT ![n].st = "Failed"]
  /\ UNCHANGED <<config, podSeen, vols, rec, claim, edits>>

\* A deleted pod goes after its grace period, and with it a deleted volume.
PodGone(n) ==
  /\ pods[n].term
  /\ pods' = [pods EXCEPT ![n] = NoPod]
  /\ vols' = [vols EXCEPT ![n] = IF @ = "dying" THEN "none" ELSE @]
  /\ UNCHANGED <<config, podSeen, rec, claim, faults, edits>>

Cluster ==
  SyncPods \/ \E n \in PodNames : PodReady(n) \/ PodFails(n) \/ PodGone(n)

Next ==
  PoolLoop \/ (\E s \in Sandboxes : Claimer(s) \/ ClaimFails(s)) \/ Restart \/ SetConfig \/ Cluster

Spec == Init /\ [][Next]_vars

\* The ticker, the reconciles of the sandboxes, the informer and the kubelet go on.
Fairness ==
  /\ WF_vars(PoolLoop) /\ WF_vars(SyncPods)
  /\ \A s \in Sandboxes : WF_vars(Claimer(s))
  /\ \A n \in PodNames : WF_vars(PodReady(n)) /\ WF_vars(PodGone(n))

FairSpec == Spec /\ Fairness

-----------------------------------------------------------------------------
(* Properties.                                                             *)

\* Every variable of the pool keeps its type: above all the counters of
\* reconcilePool, scaleDown and Claim stay in range.
TypeOK ==
  /\ config \in SUBSET (Templates \X (0..MaxDesired))
  /\ pods \in [PodNames -> Pod] /\ podSeen \in [PodNames -> Pod]
  /\ vols \in [PodNames -> {"none", "bound", "dying"}]
  /\ rec \in Reconcile
  /\ claim \in [Sandboxes -> Claims]
  /\ faults \in 0..MaxFaults /\ edits \in 0..MaxEdits

\* Claim: two sandboxes never win the same pod, however stale the lists are
\* they work from; and a pod that was won is in no pool.
ClaimedOnce ==
  \A s \in Sandboxes : claim[s].pod # None =>
    /\ \A r \in Sandboxes : claim[r].pod = claim[s].pod => r = s
    /\ pods[claim[s].pod].template = None
    /\ pods[claim[s].pod].owner \in {None, s}

\* deletePodAndPVC takes the volume only after the pod: a pod that is not
\* terminating has its volume.
LivePodsKeepVolumes ==
  \A n \in PodNames :
    pods[n].st # "absent" /\ ~pods[n].term => vols[n] = "bound"

\* reconcilePool creates at most what the largest configuration asks for.
PoolStaysBounded ==
  \A t \in Templates : Cardinality(PoolPods(pods, t)) <= MaxDesired

Wanted(t) == {e[2] : e \in {d \in config : d[1] = t}}

\* Whatever was claimed, failed or reconfigured, the pool ends with the pods the
\* configuration asks for, and with none of a template it dropped.
PoolConverges ==
  <>[](\A t \in Templates :
        LET size == Cardinality(PoolPods(pods, t))
        IN  IF Wanted(t) = {} THEN size = 0 ELSE Wanted(t) = {size})

\* reconcilePool and cleanupOrphanedPools delete pods of the pool only: the pod
\* of a sandbox is never terminated by them.
DrainSparesClaims ==
  [][\A n \in PodNames :
       pods[n].owner # None /\ ~pods[n].term => ~pods'[n].term]_vars
=============================================================================
