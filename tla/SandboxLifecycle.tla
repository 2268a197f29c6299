-------------------------- MODULE SandboxLifecycle --------------------------
(***************************************************************************)
(* One Sandbox object and everything that moves it: the controller's       *)
(* reconcile loop (pkg/controller/sandbox_controller.go), split at every   *)
(* API call it makes; the Router's stop, resume and delete handlers        *)
(* (pkg/router/handlers.go); the informer caches the controller reads      *)
(* from; the kubelet and the garbage collector.                            *)
(*                                                                         *)
(* Reconciles of one object never overlap, so the controller is one        *)
(* process: pc is the API call it is about to make and loc its in-memory   *)
(* copy of the Sandbox.  Reads come from caches that lag (seen, podSeen).  *)
(* A write of the Sandbox or of a pool pod carries the resourceVersion of  *)
(* the copy it was computed from and is refused when the object moved on;  *)
(* a Delete carries none.  Versions are modelled by seenCurrent and        *)
(* locCurrent: does the copy still have the version the server has?        *)
(*                                                                         *)
(* A sandbox's own pod is <name>-pod and mounts <name>-workspace, a pool   *)
(* pod mounts its own pool volume: pods and volumes share one set of names.*)
(***************************************************************************)
EXTENDS Naturals, FiniteSets

CONSTANTS
  PoolPods,         \* warm-pool pods of the sandbox's template ({}: no pool)
  Own,              \* the sandbox's own pod and volume
  NoPod,            \* an empty PodName or PVCName
  KubectlActions,   \* values a user may give agenttier.io/action by hand
  PodEnds,          \* the ways a pod may end, a subset of Ends
  MaxRestartCount,  \* failures that exhaust the restart budget
  MaxFaults         \* bound on failed calls, crashes, lost pods and patches

Names == PoolPods \union {Own}
Ends == {"FailedInfra", "FailedApp", "Succeeded"}

ASSUME NamesAssumption == Own \notin PoolPods /\ NoPod \notin Names
ASSUME ActionsAssumption == KubectlActions \subseteq {"stop", "resume"}
ASSUME EndsAssumption == PodEnds \subseteq Ends
ASSUME BoundsAssumption == MaxRestartCount \in Nat \ {0} /\ MaxFaults \in Nat

VARIABLES
  sb,           \* the Sandbox on the API server
  seen,         \* the informer's copy of it
  seenCurrent,  \* seen has the server's version
  pods,         \* the pods on the API server
  podSeen,      \* the informer's copy of them
  vols,         \* the volumes: "none", "free" (no owner) or "owned"
  netpol,       \* the sandbox's NetworkPolicy exists
  pc,           \* the next API call of the running reconcile
  loc,          \* its in-memory Sandbox
  locCurrent,   \* loc has the server's version
  claimed,      \* the pool pod it claimed
  hist,         \* history: the volume it first ran on, and whether its user
                \* asked for a stop that has not been carried out
  faults        \* adverse events left

vars == <<sb, seen, seenCurrent, pods, podSeen, vols, netpol, pc, loc,
          locCurrent, claimed, hist, faults>>
cluster == <<pods, podSeen, vols, netpol>>

PodOrNone == Names \union {NoPod}

\* restarts saturates at MaxRestartCount: the code only asks whether the
\* count is 0 and whether it reached the maximum.  retry: the message holds
\* "before restart attempt".  action: the annotation agenttier.io/action.
Sandbox ==
  [phase : {"New", "Creating", "Running", "Stopped", "Error", "Gone"},
   pod : PodOrNone, pvc : PodOrNone, restarts : 0..MaxRestartCount,
   retry : BOOLEAN, action : {"none", "stop", "resume"}, deleting : BOOLEAN,
   finalizer : BOOLEAN]

\* role: "pool" (pool labels), "loose" (claimed, labels stripped, no owner),
\* "owned" (owner reference to the sandbox).  term: deletionTimestamp is set.
Pod ==
  [st : {"absent", "Pending", "Ready"} \union Ends, term : BOOLEAN,
   role : {"pool", "loose", "owned"}]

Steps ==
  {"finalizer", "init", "resolve", "claim", "adopt", "adoptPvc",
   "netpolWarm", "cold", "netpolCold", "getPod", "createPod", "write",
   "running", "clearStop", "stopPod", "delPod", "delPvc", "delNetpol",
   "unfinalize"}

NewSandbox ==
  [phase |-> "New", pod |-> NoPod, pvc |-> NoPod, restarts |-> 0,
   retry |-> FALSE, action |-> "none", deleting |-> FALSE, finalizer |-> FALSE]

NoSuchPod == [st |-> "absent", term |-> FALSE, role |-> "owned"]

Init ==
  /\ sb = NewSandbox
  /\ seen = NewSandbox /\ seenCurrent = TRUE
  /\ pods = [n \in Names |->
               IF n = Own THEN NoSuchPod
               ELSE [st |-> "Ready", term |-> FALSE, role |-> "pool"]]
  /\ podSeen = pods
  /\ vols = [n \in Names |-> IF n = Own THEN "none" ELSE "free"]
  /\ netpol = FALSE
  /\ pc = "idle" /\ loc = NewSandbox /\ locCurrent = FALSE
  /\ claimed = NoPod
  /\ hist = [home |-> NoPod, asked |-> FALSE]
  /\ faults = MaxFaults

-----------------------------------------------------------------------------
(* How a reconcile reads, writes and returns.                              *)

\* The reconcile returns; its in-memory state is lost.
Return ==
  /\ pc' = "idle"
  /\ loc' = NewSandbox
  /\ locCurrent' = FALSE
  /\ claimed' = NoPod

\* In memory only: the reconcile goes on to the call "step" with the copy l.
Continue(step, l) ==
  /\ pc' = step
  /\ loc' = l
  /\ UNCHANGED <<locCurrent, claimed>>

\* Mutant: the write is not versioned.
StoreUnversioned(s) ==
  /\ sb' = s
  /\ hist' = [home |-> hist.home, asked |-> hist.asked /\ s.phase # "Stopped"]
  /\ seenCurrent' = FALSE

\* The server accepts a write of the Sandbox computed from its version.
Store(s) ==
  /\ locCurrent
  /\ sb' = s
  /\ hist' = [home |-> IF hist.home = NoPod /\ s.phase = "Running"
                      THEN s.pvc ELSE hist.home,
              asked |-> hist.asked /\ s.phase # "Stopped"]
  /\ seenCurrent' = FALSE

\* It refuses a write computed from an older version: the reconcile returns
\* the error and is tried again.
Refused ==
  /\ ~locCurrent
  /\ Return
  /\ UNCHANGED <<sb, hist, seenCurrent>>

ToError(l) == [l EXCEPT !.phase = "Error", !.retry = FALSE]

Fault ==
  /\ faults > 0
  /\ faults' = faults - 1

\* Delete of a pod sets its deletionTimestamp; deleting a missing pod is no
\* error.
Terminated(n) ==
  IF n = NoPod \/ pods[n].st = "absent" THEN pods
  ELSE [pods EXCEPT ![n].term = TRUE]

-----------------------------------------------------------------------------
(* The reconcile loop.                                                     *)

\* Mutant: reconcileError stops one restart short of the limit.
EntryOffByOne(s) ==
  IF s.phase = "Gone" \/ (s.deleting /\ ~s.finalizer) THEN "idle"
  ELSE IF s.deleting THEN "delPod"
  ELSE IF ~s.finalizer THEN "finalizer"
  ELSE IF s.phase = "New" THEN "init"
  ELSE IF s.phase = "Creating" THEN "resolve"
  ELSE IF s.phase = "Running" THEN "running"
  ELSE IF s.phase = "Error" /\ s.retry /\ s.restarts + 1 < MaxRestartCount THEN "write"
  ELSE "idle"

\* Where dispatch sends a sandbox ("idle": nothing to do).
Entry(s) ==
  IF s.phase = "Gone" \/ (s.deleting /\ ~s.finalizer) THEN "idle"
  ELSE IF s.deleting THEN "delPod"
  ELSE IF ~s.finalizer THEN "finalizer"
  ELSE IF s.phase = "New" THEN "init"
  ELSE IF s.phase = "Creating" THEN "resolve"
  ELSE IF s.phase = "Running" THEN "running"
  ELSE IF s.phase = "Error" /\ s.retry /\ s.restarts < MaxRestartCount THEN "write"
  ELSE "idle"

\* dispatch: read the cached Sandbox and branch.  For a failed sandbox whose
\* back-off elapsed, reconcileError has prepared the restart.
Dispatch ==
  /\ pc = "idle"
  /\ Entry(seen) # "idle"
  /\ pc' = Entry(seen)
  /\ loc' = IF Entry(seen) = "write"
            THEN [seen EXCEPT !.phase = "Creating", !.retry = FALSE]
            ELSE seen
  /\ locCurrent' = seenCurrent
  /\ UNCHANGED <<sb, seen, seenCurrent, claimed, hist, faults>>
  /\ UNCHANGED cluster

AddFinalizer ==
  /\ pc = "finalizer"
  /\ \/ Store([loc EXCEPT !.finalizer = TRUE]) /\ Return
     \/ Refused
  /\ UNCHANGED <<seen, faults>>
  /\ UNCHANGED cluster

\* reconcileCreating: the empty phase becomes Creating.
EnterCreating ==
  /\ pc = "init"
  /\ \/ /\ Store([loc EXCEPT !.phase = "Creating"])
        /\ Continue("resolve", [loc EXCEPT !.phase = "Creating"])
     \/ Refused
  /\ UNCHANGED <<seen, faults>>
  /\ UNCHANGED cluster

\* The template is resolved; a sandbox that has no pod may claim a warm one.
ResolveTemplate ==
  /\ pc = "resolve"
  /\ Continue(IF loc.pod = NoPod /\ PoolPods # {} THEN "claim" ELSE "cold", loc)
  /\ UNCHANGED <<sb, seen, seenCurrent, hist, faults>>
  /\ UNCHANGED cluster

\* warmpool.Claim strips the pool labels of a ready pool pod; the write is
\* refused unless the listed copy is the server's.
Claim ==
  /\ pc = "claim"
  /\ \E p \in PoolPods :
       /\ podSeen[p] = pods[p]
       /\ pods[p].st = "Ready" /\ pods[p].role = "pool"
       /\ pods' = [pods EXCEPT ![p].role = "loose"]
       /\ claimed' = p
  /\ pc' = "adopt"
  /\ UNCHANGED <<sb, seen, seenCurrent, podSeen, vols, netpol, loc, locCurrent,
                 hist, faults>>

\* Nothing to claim, or the claim failed: cold start.
ClaimNothing ==
  /\ pc = "claim"
  /\ Continue("cold", loc)
  /\ UNCHANGED <<sb, seen, seenCurrent, hist, faults>>
  /\ UNCHANGED cluster

\* The claimed pod is read back from the cache, relabelled and given the
\* sandbox as owner.
Adopt ==
  /\ pc = "adopt"
  /\ podSeen[claimed] = pods[claimed] /\ pods[claimed].st # "absent"
  /\ pods' = [pods EXCEPT ![claimed].role = "owned"]
  /\ Continue("adoptPvc", loc)
  /\ UNCHANGED <<sb, seen, seenCurrent, podSeen, vols, netpol, hist, faults>>

\* Mutant: a failed adoption is logged and the claim goes on.
AdoptRefusedIgnored ==
  /\ pc = "adopt"
  /\ podSeen[claimed] # pods[claimed]
  /\ Continue("adoptPvc", loc)
  /\ UNCHANGED <<sb, seen, seenCurrent, hist, faults>>
  /\ UNCHANGED cluster

\* The cached copy is not the claimed version (or the call fails): the error
\* is logged and the reconcile falls through to a cold start.
AdoptRefused ==
  /\ pc = "adopt"
  /\ \/ /\ podSeen[claimed] # pods[claimed] \/ pods[claimed].st = "absent"
        /\ UNCHANGED faults
     \/ Fault
  /\ pc' = "cold"
  /\ claimed' = NoPod
  /\ UNCHANGED <<sb, seen, seenCurrent, loc, locCurrent, hist>>
  /\ UNCHANGED cluster

\* Best effort: a failure to adopt the claimed volume is only logged.
AdoptPvc ==
  /\ pc = "adoptPvc"
  /\ \/ vols' = [vols EXCEPT ![claimed] = "owned"] /\ UNCHANGED faults
     \/ Fault /\ UNCHANGED vols
  /\ Continue("netpolWarm", loc)
  /\ UNCHANGED <<sb, seen, seenCurrent, pods, podSeen, netpol, hist>>

\* Mutant: a NetworkPolicy failure on the warm path is only logged.
IsolateWarmLogged ==
  /\ pc = "netpolWarm"
  /\ \/ netpol' = TRUE /\ UNCHANGED faults
     \/ Fault /\ UNCHANGED netpol
  /\ Continue("write", [loc EXCEPT !.phase = "Running", !.pod = claimed,
                                   !.pvc = claimed, !.retry = FALSE])
  /\ UNCHANGED <<sb, seen, seenCurrent, pods, podSeen, vols, hist>>

\* ensureNetworkPolicy, and then the claim is recorded in memory.
IsolateWarm ==
  /\ pc = "netpolWarm"
  /\ netpol' = TRUE
  /\ Continue("write", [loc EXCEPT !.phase = "Running", !.pod = claimed,
                                   !.pvc = claimed, !.retry = FALSE])
  /\ UNCHANGED <<sb, seen, seenCurrent, pods, podSeen, vols, hist, faults>>

\* Mutant: the volume is created without an owner reference.
EnsurePvcUnowned ==
  /\ pc = "cold"
  /\ vols' = [vols EXCEPT ![Own] = "free"]
  /\ Continue("netpolCold", [loc EXCEPT !.pvc = Own])
  /\ UNCHANGED <<sb, seen, seenCurrent, pods, podSeen, netpol, hist, faults>>

\* Secrets and ensurePVC.
EnsurePvc ==
  /\ pc = "cold"
  /\ vols' = [vols EXCEPT ![Own] = "owned"]
  /\ Continue("netpolCold", [loc EXCEPT !.pvc = Own])
  /\ UNCHANGED <<sb, seen, seenCurrent, pods, podSeen, netpol, hist, faults>>

IsolateCold ==
  /\ pc = "netpolCold"
  /\ netpol' = TRUE
  /\ Continue("getPod", loc)
  /\ UNCHANGED <<sb, seen, seenCurrent, pods, podSeen, vols, hist, faults>>

\* Mutant: a pod that failed before it was ready is waited for.
GetPodWaits ==
  /\ pc = "getPod"
  /\ \/ podSeen[Own].st = "absent" /\ Continue("createPod", loc)
     \/ /\ podSeen[Own].st = "Ready"
        /\ Continue("write", [loc EXCEPT !.phase = "Running", !.pod = Own,
                                         !.retry = FALSE])
     \/ podSeen[Own].st \notin {"absent", "Ready"} /\ Return
  /\ UNCHANGED <<sb, seen, seenCurrent, hist, faults>>
  /\ UNCHANGED cluster

\* The cached pod decides: create it, run, give up, or wait for it.
GetPod ==
  /\ pc = "getPod"
  /\ LET st == podSeen[Own].st
     IN  \/ st = "absent" /\ Continue("createPod", loc)
         \/ /\ st = "Ready"
            /\ Continue("write", [loc EXCEPT !.phase = "Running", !.pod = Own,
                                             !.retry = FALSE])
         \/ st \in {"FailedInfra", "FailedApp"} /\ Continue("write", ToError(loc))
         \/ st \in {"Pending", "Succeeded"} /\ Return
  /\ UNCHANGED <<sb, seen, seenCurrent, hist, faults>>
  /\ UNCHANGED cluster

\* Create fails with AlreadyExists when the cache had not seen the pod yet,
\* and the sandbox goes to Error.
CreatePod ==
  /\ pc = "createPod"
  /\ IF pods[Own].st = "absent"
     THEN /\ pods' = [pods EXCEPT ![Own] =
                        [st |-> "Pending", term |-> FALSE, role |-> "owned"]]
          /\ Continue("write", [loc EXCEPT !.pod = Own])
     ELSE /\ Continue("write", ToError(loc))
          /\ UNCHANGED pods
  /\ UNCHANGED <<sb, seen, seenCurrent, podSeen, vols, netpol, hist, faults>>

\* The Status().Update that ends the reconcile.
WriteStatus ==
  /\ pc = "write"
  /\ \/ Store(loc) /\ Return
     \/ Refused
  /\ UNCHANGED <<seen, faults>>
  /\ UNCHANGED cluster

\* handleInfrastructureFailure with the incremented count n.
Failed(l, n) ==
  IF n >= MaxRestartCount
  THEN ToError([l EXCEPT !.restarts = MaxRestartCount])
  ELSE [l EXCEPT !.phase = "Error", !.pod = NoPod, !.restarts = n, !.retry = TRUE]

\* reconcileRunning up to its first write: the stop annotation, the state of
\* the cached pod, the stability window, the two timeouts.  The timers are not
\* modelled: each may have expired.
CheckRunning ==
  /\ pc = "running"
  /\ \/ loc.pod # NoPod /\ loc.action = "stop" /\ Continue("clearStop", loc)
     \/ /\ \/ loc.pod = NoPod
           \/ loc.action # "stop" /\ podSeen[loc.pod].st = "FailedApp"
        /\ Continue("write", ToError(loc))
     \/ /\ loc.pod # NoPod /\ loc.action # "stop"
        /\ LET st == podSeen[loc.pod].st
           IN  \/ /\ st \in {"absent", "FailedInfra"}
                  /\ Continue("write", Failed(loc, loc.restarts + 1))
               \/ st = "Succeeded" /\ Continue("stopPod", loc)
               \/ /\ st = "Ready" /\ loc.restarts > 0
                  /\ Continue("write", [loc EXCEPT !.restarts = 0])
               \/ st \in {"Pending", "Ready"} /\ Continue("stopPod", loc)
               \/ st \in {"Pending", "Ready"} /\ Return
  /\ UNCHANGED <<sb, seen, seenCurrent, hist, faults>>
  /\ UNCHANGED cluster

\* Mutant: the annotation is cleared and the stop left to another reconcile.
ClearStopOnly ==
  /\ pc = "clearStop"
  /\ \/ Store([loc EXCEPT !.action = "none"]) /\ Return
     \/ Refused
  /\ UNCHANGED <<seen, faults>>
  /\ UNCHANGED cluster

\* The annotation is cleared before the stop is carried out.
ClearStop ==
  /\ pc = "clearStop"
  /\ \/ /\ Store([loc EXCEPT !.action = "none"])
        /\ Continue("stopPod", [loc EXCEPT !.action = "none"])
     \/ Refused
  /\ UNCHANGED <<seen, faults>>
  /\ UNCHANGED cluster

\* Mutant: only a pod the cache still shows is deleted.
StopPodIfSeen ==
  /\ pc = "stopPod"
  /\ pods' = IF podSeen[loc.pod].st = "absent" THEN pods ELSE Terminated(loc.pod)
  /\ Continue("write", [loc EXCEPT !.phase = "Stopped", !.pod = NoPod,
                                   !.retry = FALSE])
  /\ UNCHANGED <<sb, seen, seenCurrent, podSeen, vols, netpol, hist, faults>>

\* stopSandbox deletes the pod and keeps the volume.
StopPod ==
  /\ pc = "stopPod"
  /\ pods' = Terminated(loc.pod)
  /\ Continue("write", [loc EXCEPT !.phase = "Stopped", !.pod = NoPod,
                                   !.retry = FALSE])
  /\ UNCHANGED <<sb, seen, seenCurrent, podSeen, vols, netpol, hist, faults>>

\* reconcileDelete: pod, volume, NetworkPolicy, finalizer.
DeletePod ==
  /\ pc = "delPod"
  /\ pods' = Terminated(loc.pod)
  /\ Continue("delPvc", loc)
  /\ UNCHANGED <<sb, seen, seenCurrent, podSeen, vols, netpol, hist, faults>>

DeletePvc ==
  /\ pc = "delPvc"
  /\ vols' = IF loc.pvc = NoPod THEN vols ELSE [vols EXCEPT ![loc.pvc] = "none"]
  /\ Continue("delNetpol", loc)
  /\ UNCHANGED <<sb, seen, seenCurrent, pods, podSeen, netpol, hist, faults>>

DeleteNetpol ==
  /\ pc = "delNetpol"
  /\ netpol' = FALSE
  /\ Continue("unfinalize", loc)
  /\ UNCHANGED <<sb, seen, seenCurrent, pods, podSeen, vols, hist, faults>>

RemoveFinalizer ==
  /\ pc = "unfinalize"
  /\ \/ /\ Store([loc EXCEPT !.finalizer = FALSE, !.phase = "Gone"])
        /\ Return
     \/ Refused
  /\ UNCHANGED <<seen, faults>>
  /\ UNCHANGED cluster

\* A call fails and the handler turns the error into phase Error.
CallFails ==
  /\ pc \in {"resolve", "netpolWarm", "cold", "netpolCold", "createPod"}
  /\ Fault
  /\ Continue("write", ToError(loc))
  /\ UNCHANGED <<sb, seen, seenCurrent, hist>>
  /\ UNCHANGED cluster

\* A call fails and the reconcile returns the error, or the controller
\* crashes or loses its lease before the call.
Abort ==
  /\ pc # "idle"
  /\ Fault
  /\ Return
  /\ UNCHANGED <<sb, seen, seenCurrent, hist>>
  /\ UNCHANGED cluster

Reconcile ==
  \/ Dispatch \/ AddFinalizer \/ EnterCreating \/ ResolveTemplate
  \/ Claim \/ ClaimNothing \/ Adopt \/ AdoptRefused \/ AdoptPvc \/ IsolateWarm
  \/ EnsurePvc \/ IsolateCold \/ GetPod \/ CreatePod \/ WriteStatus
  \/ CheckRunning \/ ClearStop \/ StopPod
  \/ DeletePod \/ DeletePvc \/ DeleteNetpol \/ RemoveFinalizer

-----------------------------------------------------------------------------
(* The Router.  It reads the API server directly, so a handler's read and  *)
(* its versioned write succeed together or the request fails.              *)

\* What a write by anybody else does to the controller's copies.
Bump ==
  /\ seenCurrent' = FALSE
  /\ locCurrent' = FALSE
  /\ UNCHANGED <<seen, pc, loc, claimed>>

RequestStop ==
  /\ sb.phase = "Running" /\ sb.action # "stop"
  /\ sb' = [sb EXCEPT !.action = "stop"]
  /\ hist' = [hist EXCEPT !.asked = TRUE]
  /\ Bump
  /\ UNCHANGED faults
  /\ UNCHANGED cluster

RequestResume ==
  /\ sb.phase \in {"Stopped", "Error"}
  /\ sb' = [sb EXCEPT !.phase = "Creating", !.retry = FALSE]
  /\ hist' = [hist EXCEPT !.asked = FALSE]
  /\ Bump
  /\ UNCHANGED faults
  /\ UNCHANGED cluster

\* kubectl annotate, as the quickstart tells users to stop and resume.
KubectlAnnotate ==
  /\ sb.phase # "Gone"
  /\ \E a \in KubectlActions :
       /\ sb.action # a
       /\ sb' = [sb EXCEPT !.action = a]
  /\ Bump
  /\ UNCHANGED <<hist, faults>>
  /\ UNCHANGED cluster

\* Delete without a finalizer removes the object at once.
RequestDelete ==
  /\ sb.phase # "Gone" /\ ~sb.deleting
  /\ sb' = [sb EXCEPT !.deleting = TRUE,
                      !.phase = IF sb.finalizer THEN @ ELSE "Gone"]
  /\ Bump
  /\ UNCHANGED <<hist, faults>>
  /\ UNCHANGED cluster

\* Any other write of the object (PATCH, shares, port forwards, configure).
Touch ==
  /\ sb.phase # "Gone"
  /\ seenCurrent \/ locCurrent
  /\ Fault
  /\ Bump
  /\ UNCHANGED <<sb, hist>>
  /\ UNCHANGED cluster

-----------------------------------------------------------------------------
(* The informers, the kubelet and the garbage collector.                   *)

local == <<pc, loc, locCurrent, claimed>>

SyncSandbox ==
  /\ ~seenCurrent
  /\ seen' = sb
  /\ seenCurrent' = TRUE
  /\ UNCHANGED <<sb, hist, faults>>
  /\ UNCHANGED cluster
  /\ UNCHANGED local

SyncPods ==
  /\ podSeen # pods
  /\ podSeen' = pods
  /\ UNCHANGED <<sb, seen, seenCurrent, pods, vols, netpol, hist, faults>>
  /\ UNCHANGED local

\* A pod that left the pool, or was created for the sandbox, moves on.
SetPod(n, p) ==
  /\ pods' = [pods EXCEPT ![n] = p]
  /\ UNCHANGED <<sb, seen, seenCurrent, podSeen, vols, netpol, hist>>
  /\ UNCHANGED local

PodReady(n) ==
  /\ pods[n].st = "Pending" /\ ~pods[n].term /\ vols[n] # "none"
  /\ SetPod(n, [pods[n] EXCEPT !.st = "Ready"])
  /\ UNCHANGED faults

PodEnd(n) ==
  /\ pods[n].st \in {"Pending", "Ready"} /\ pods[n].role # "pool"
  /\ \E e \in PodEnds : SetPod(n, [pods[n] EXCEPT !.st = e])
  /\ UNCHANGED faults

\* The kubelet finished terminating the pod.
PodGone(n) ==
  /\ pods[n].term
  /\ SetPod(n, NoSuchPod)
  /\ UNCHANGED faults

\* The pod is lost with its node, evicted, or deleted by somebody else.
PodVanishes(n) ==
  /\ pods[n].st # "absent"
  /\ Fault
  /\ SetPod(n, NoSuchPod)

\* What a deleted sandbox owns is deleted.
Collect ==
  /\ sb.phase = "Gone"
  /\ LET owned == {n \in Names : /\ pods[n].role = "owned"
                                 /\ pods[n].st # "absent" /\ ~pods[n].term}
     IN  /\ owned # {} \/ netpol \/ \E n \in Names : vols[n] = "owned"
         /\ pods' = [n \in Names |-> IF n \in owned
                                     THEN [pods[n] EXCEPT !.term = TRUE]
                                     ELSE pods[n]]
  /\ vols' = [n \in Names |-> IF vols[n] = "owned" THEN "none" ELSE vols[n]]
  /\ netpol' = FALSE
  /\ UNCHANGED <<sb, seen, seenCurrent, podSeen, hist, faults>>
  /\ UNCHANGED local

Cluster ==
  \/ SyncSandbox \/ SyncPods \/ Collect
  \/ \E n \in Names : PodReady(n) \/ PodEnd(n) \/ PodGone(n) \/ PodVanishes(n)

Users ==
  RequestStop \/ RequestResume \/ RequestDelete \/ KubectlAnnotate \/ Touch

Next == Reconcile \/ CallFails \/ Abort \/ Users \/ Cluster

Spec == Init /\ [][Next]_vars
\* The calls of the controller are made and retried, the informers deliver,
\* and the kubelet starts or ends a pod and finishes terminating one.
Fairness ==
  /\ WF_vars(Reconcile)
  /\ WF_vars(SyncSandbox) /\ WF_vars(SyncPods) /\ WF_vars(Collect)
  /\ \A n \in Names : WF_vars(PodReady(n) \/ PodEnd(n)) /\ WF_vars(PodGone(n))

FairSpec == Spec /\ Fairness

-----------------------------------------------------------------------------
(* Properties.                                                             *)

\* Every variable keeps its type: above all handleInfrastructureFailure never
\* counts a restart beyond MaxRestartCount, and every reconcile works on a
\* version of the sandbox that was once the server's.
TypeOK ==
  /\ sb \in Sandbox /\ seen \in Sandbox /\ loc \in Sandbox
  /\ seenCurrent \in BOOLEAN /\ locCurrent \in BOOLEAN
  /\ pods \in [Names -> Pod] /\ podSeen \in [Names -> Pod]
  /\ vols \in [Names -> {"none", "free", "owned"}]
  /\ netpol \in BOOLEAN
  /\ pc \in Steps \union {"idle"}
  /\ claimed \in PodOrNone
  /\ hist \in [home : PodOrNone, asked : BOOLEAN]
  /\ faults \in 0..MaxFaults

\* A sandbox reports Running only with its NetworkPolicy in place, on the
\* warm path as on the cold one, unless its deletion was requested.
IsolatedWhenRunning ==
  sb.phase = "Running" /\ ~sb.deleting => netpol

\* The pod of a running sandbox is its own: adopted or created for it, never
\* a pool pod whose claim was left half done.
RunsOnOwnedPod ==
  sb.phase = "Running" =>
    /\ sb.pod # NoPod
    /\ pods[sb.pod].st # "absent" => pods[sb.pod].role = "owned"

\* A stopped sandbox keeps no pod running (where no warm pod was there to
\* claim; a deletion takes the rest).
StoppedReleasesPods ==
  sb.phase = "Stopped" /\ ~sb.deleting /\ (\A p \in PoolPods : vols[p] = "none") =>
    pods[Own].st = "absent" \/ pods[Own].term

\* The phase moves only as SandboxPhases allows.
Phases == INSTANCE SandboxPhases WITH
  phase <- sb.phase, restarts <- sb.restarts, retry <- sb.retry,
  deleting <- sb.deleting

FollowsPhases == Phases!Spec

\* A stop the user asked for is not undone by an automatic restart: only a
\* resume starts the sandbox again.
StopIsFinal ==
  [][hist.asked /\ hist'.asked /\ sb.phase = "Error" => sb'.phase # "Creating"]_vars

\* So long as no call has failed, it is not: the write that follows the
\* removal of the annotation makes the sandbox Stopped
\* (sandbox_controller.go:478-505).
QuietStopIsFinal ==
  [][faults = MaxFaults /\ hist.asked /\ hist'.asked /\ sb.phase = "Error" => sb'.phase # "Creating"]_vars

\* The volume the sandbox first ran on is the one it always runs on.
ResumeKeepsWorkspace ==
  sb.phase = "Running" => sb.pvc = hist.home

\* Where nothing fails, the sandbox does not go to Error: the steps of
\* reconcileCreating are meant to be idempotent ("Step 5: Create Pod (if not already
\* exists)", sandbox_controller.go:399).
HealthyNeverErrors == PodEnds = {} /\ MaxFaults = 0 => sb.phase # "Error"

\* A deletion ends, for good, with none of the sandbox's own resources left.
DeletionCompletes ==
  sb.deleting ~> [](/\ sb.phase = "Gone" /\ ~netpol
                    /\ vols[Own] = "none" /\ pods[Own].st = "absent")

\* A restart that was announced takes place: reconcileError and
\* handleInfrastructureFailure agree on the limit.
AnnouncedRestartHappens == sb.retry ~> ~sb.retry \/ sb.deleting

\* An automatic restart rebuilds the pod, or the sandbox runs again.
RestartRebuildsPod ==
  sb.retry ~> \/ pods[Own].st = "Pending" \/ sb.phase = "Running"
              \/ sb.deleting

\* Creating is a passage: the sandbox runs, or it reports an error.
CreatingResolves == sb.phase = "Creating" ~> sb.phase # "Creating"
=============================================================================
