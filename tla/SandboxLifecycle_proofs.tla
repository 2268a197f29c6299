---------------------- MODULE SandboxLifecycle_proofs -----------------------
(***************************************************************************)
(* Proofs about SandboxLifecycle, for every pool, every restart limit and  *)
(* any number of faults, and about SandboxTimers, for every poll delay,    *)
(* stable window, set of timeouts and length of the clock.  Both implement *)
(* SandboxPhases.                                                          *)
(***************************************************************************)
EXTENDS SandboxLifecycle, SandboxTimers, TLAPS

LEMMA RestartsType == 0 \in 0..MaxRestartCount /\ MaxRestartCount \in 0..MaxRestartCount
  BY BoundsAssumption

\* Status writes of the code stay within the type.
LEMMA ToErrorType ==
  ASSUME NEW l \in Sandbox
  PROVE  /\ ToError(l) \in Sandbox
         /\ ToError(l).phase = "Error" /\ ToError(l).retry = FALSE
         /\ ToError(l).restarts = l.restarts
         /\ ToError(l).deleting = l.deleting
         /\ ToError(l).pod = l.pod
  BY DEF ToError, Sandbox

LEMMA FailedType ==
  ASSUME NEW l \in Sandbox
  PROVE  /\ Failed(l, l.restarts + 1) \in Sandbox
         /\ Failed(l, l.restarts + 1).phase = "Error"
         /\ Failed(l, l.restarts + 1).deleting = l.deleting
         /\ \/ /\ ~Failed(l, l.restarts + 1).retry
               /\ l.restarts + 1 >= MaxRestartCount
               /\ Failed(l, l.restarts + 1).restarts = MaxRestartCount
            \/ /\ Failed(l, l.restarts + 1).retry
               /\ l.restarts + 1 < MaxRestartCount
               /\ Failed(l, l.restarts + 1).restarts = l.restarts + 1
<1> DEFINE n == l.restarts + 1
<1>1. l.restarts \in Nat /\ l.restarts <= MaxRestartCount /\ n \in Nat
  BY BoundsAssumption DEF Sandbox
<1>2. CASE n >= MaxRestartCount
  <2> DEFINE f == [l EXCEPT !.restarts = MaxRestartCount]
  <2>1. f \in Sandbox /\ f.restarts = MaxRestartCount /\ f.deleting = l.deleting
    BY BoundsAssumption DEF Sandbox
  <2>2. Failed(l, n) = ToError(f)
    BY <1>2 DEF Failed
  <2> HIDE DEF f
  <2> QED BY <1>1, <1>2, <2>1, <2>2, ToErrorType
<1>3. CASE ~(n >= MaxRestartCount)
  <2> DEFINE f == [l EXCEPT !.phase = "Error", !.pod = NoPod, !.restarts = n,
                            !.retry = TRUE]
  <2>1. n \in 0..MaxRestartCount
    BY <1>1, <1>3, BoundsAssumption
  <2>2. /\ f \in Sandbox /\ f.phase = "Error" /\ f.retry = TRUE
        /\ f.restarts = n /\ f.deleting = l.deleting
    BY <2>1 DEF Sandbox, PodOrNone
  <2>3. Failed(l, n) = f
    BY <1>3 DEF Failed
  <2> HIDE DEF f
  <2>4. ~(n >= MaxRestartCount) => n < MaxRestartCount
    BY <1>1, BoundsAssumption
  <2> QED BY <1>3, <2>2, <2>3, <2>4
<1> QED BY <1>2, <1>3

\* Every copy of the Sandbox the code computes has the type of one.
LEMMA EditTypes ==
  ASSUME NEW l \in Sandbox, NEW n \in PodOrNone
  PROVE  /\ NewSandbox \in Sandbox
         /\ [l EXCEPT !.finalizer = TRUE] \in Sandbox
         /\ [l EXCEPT !.finalizer = FALSE, !.phase = "Gone"] \in Sandbox
         /\ [l EXCEPT !.phase = "Creating"] \in Sandbox
         /\ [l EXCEPT !.phase = "Creating", !.retry = FALSE] \in Sandbox
         /\ [l EXCEPT !.phase = "Running", !.pod = n, !.pvc = n,
                      !.retry = FALSE] \in Sandbox
         /\ [l EXCEPT !.phase = "Running", !.pod = n, !.retry = FALSE] \in Sandbox
         /\ [l EXCEPT !.pvc = n] \in Sandbox
         /\ [l EXCEPT !.pod = n] \in Sandbox
         /\ [l EXCEPT !.restarts = 0] \in Sandbox
         /\ [l EXCEPT !.action = "none"] \in Sandbox
         /\ [l EXCEPT !.action = "stop"] \in Sandbox
         /\ [l EXCEPT !.action = "resume"] \in Sandbox
         /\ [l EXCEPT !.phase = "Stopped", !.pod = NoPod, !.retry = FALSE]
              \in Sandbox
         /\ [l EXCEPT !.deleting = TRUE,
                      !.phase = IF l.finalizer THEN @ ELSE "Gone"] \in Sandbox
<1> USE DEF Sandbox
<1>1. NewSandbox \in Sandbox
  BY BoundsAssumption DEF NewSandbox, PodOrNone
<1>2. /\ [l EXCEPT !.phase = "Running", !.pod = n, !.pvc = n, !.retry = FALSE]
           \in Sandbox
      /\ [l EXCEPT !.phase = "Running", !.pod = n, !.retry = FALSE] \in Sandbox
      /\ [l EXCEPT !.pvc = n] \in Sandbox
      /\ [l EXCEPT !.pod = n] \in Sandbox
  OBVIOUS
<1>3. [l EXCEPT !.restarts = 0] \in Sandbox
  BY BoundsAssumption
<1>4. [l EXCEPT !.phase = "Stopped", !.pod = NoPod, !.retry = FALSE] \in Sandbox
  BY DEF PodOrNone
<1>5. [l EXCEPT !.deleting = TRUE,
                !.phase = IF l.finalizer THEN @ ELSE "Gone"] \in Sandbox
  <2>1. CASE l.finalizer
    BY <2>1
  <2>2. CASE ~l.finalizer
    BY <2>2
  <2> QED BY <2>1, <2>2
<1>6. /\ [l EXCEPT !.finalizer = TRUE] \in Sandbox
      /\ [l EXCEPT !.finalizer = FALSE, !.phase = "Gone"] \in Sandbox
      /\ [l EXCEPT !.phase = "Creating"] \in Sandbox
      /\ [l EXCEPT !.phase = "Creating", !.retry = FALSE] \in Sandbox
      /\ [l EXCEPT !.action = "none"] \in Sandbox
      /\ [l EXCEPT !.action = "stop"] \in Sandbox
      /\ [l EXCEPT !.action = "resume"] \in Sandbox
  OBVIOUS
<1> QED BY <1>1, <1>2, <1>3, <1>4, <1>5, <1>6

LEMMA PodTypes ==
  ASSUME NEW p \in Pod
  PROVE  /\ NoSuchPod \in Pod
         /\ [st |-> "Pending", term |-> FALSE, role |-> "owned"] \in Pod
         /\ [p EXCEPT !.st = "Ready"] \in Pod
         /\ \A e \in PodEnds : [p EXCEPT !.st = e] \in Pod
         /\ [p EXCEPT !.term = TRUE] \in Pod
         /\ [p EXCEPT !.role = "loose"] \in Pod
         /\ [p EXCEPT !.role = "owned"] \in Pod
  BY EndsAssumption DEF Pod, NoSuchPod, Ends

LEMMA TypeInit == Init => TypeOK
<1> SUFFICES ASSUME Init PROVE TypeOK
  OBVIOUS
<1> USE DEF Init
<1>1. NewSandbox \in Sandbox /\ NoPod \in PodOrNone
  BY BoundsAssumption DEF NewSandbox, Sandbox, PodOrNone
<1>2. /\ NoSuchPod \in Pod
      /\ [st |-> "Ready", term |-> FALSE, role |-> "pool"] \in Pod
  BY DEF NoSuchPod, Pod
<1>3. pods \in [Names -> Pod] /\ podSeen \in [Names -> Pod]
  <2>1. pods \in [Names -> Pod]
    BY <1>2
  <2> QED BY <2>1
<1>4. vols \in [Names -> {"none", "free", "owned"}]
  OBVIOUS
<1>5. faults \in 0..MaxFaults
  BY BoundsAssumption
<1>6. /\ pc \in Steps \union {"idle"} /\ netpol \in BOOLEAN
      /\ seenCurrent \in BOOLEAN /\ locCurrent \in BOOLEAN
  OBVIOUS
<1>7. hist \in [home : PodOrNone, asked : BOOLEAN]
  BY <1>1
<1>8. sb \in Sandbox /\ seen \in Sandbox /\ loc \in Sandbox /\ claimed \in PodOrNone
  BY <1>1
<1> QED BY <1>3, <1>4, <1>5, <1>6, <1>7, <1>8 DEF TypeOK

LEMMA TypeStep == TypeOK /\ [Next]_vars => TypeOK'
<1> SUFFICES ASSUME TypeOK, [Next]_vars PROVE TypeOK'
  OBVIOUS
<1> USE DEF TypeOK
<1>w. NoPod \in PodOrNone /\ Own \in Names /\ Own \in PodOrNone /\ PoolPods \subseteq Names
  BY DEF PodOrNone, Names
<1>s. /\ NewSandbox \in Sandbox
      /\ \A s \in Sandbox : s.pvc \in PodOrNone /\ s.pod \in PodOrNone
  BY EditTypes, <1>w DEF Sandbox
<1>r. Return => /\ pc' \in Steps \union {"idle"} /\ loc' \in Sandbox
                /\ locCurrent' \in BOOLEAN /\ claimed' \in PodOrNone
  BY <1>w, <1>s DEF Return
<1>st. ASSUME NEW s \in Sandbox, Store(s)
       PROVE  /\ sb' \in Sandbox /\ seenCurrent' \in BOOLEAN
              /\ hist' \in [home : PodOrNone, asked : BOOLEAN]
  <2>1. (IF hist.home = NoPod /\ s.phase = "Running" THEN s.pvc ELSE hist.home)
          \in PodOrNone
    BY <1>s
  <2>2. (hist.asked /\ s.phase # "Stopped") \in BOOLEAN
    BY Zenon
  <2> QED BY <1>st, <2>1, <2>2 DEF Store
<1>t. ASSUME NEW n \in PodOrNone PROVE Terminated(n) \in [Names -> Pod]
  BY PodTypes DEF Terminated, PodOrNone
<1>f. Fault => faults' \in 0..MaxFaults
  BY BoundsAssumption DEF Fault
<1>1. CASE Dispatch
  <2>1. Entry(seen) \in Steps \union {"idle"}
    BY DEF Entry, Steps
  <2> QED BY <1>1, <2>1, EditTypes, <1>w DEF Dispatch, cluster
<1>2. CASE AddFinalizer
  BY <1>2, <1>r, <1>st, <1>w, EditTypes DEF AddFinalizer, Refused, cluster
<1>3. CASE EnterCreating
  BY <1>3, <1>r, <1>st, <1>w, EditTypes DEF EnterCreating, Refused, Continue, cluster, Steps
<1>4. CASE ResolveTemplate
  BY <1>4 DEF ResolveTemplate, Continue, cluster, Steps
<1>5. CASE Claim
  <2> PICK p \in PoolPods : /\ pods' = [pods EXCEPT ![p].role = "loose"]
                            /\ claimed' = p
    BY <1>5 DEF Claim
  <2>1. [pods[p] EXCEPT !.role = "loose"] \in Pod /\ claimed' \in PodOrNone
    BY <1>w, PodTypes DEF PodOrNone
  <2>2. pods' \in [Names -> Pod]
    BY <2>1
  <2> QED BY <1>5, <2>1, <2>2 DEF Claim, Steps
<1>6. CASE ClaimNothing
  BY <1>6 DEF ClaimNothing, Continue, cluster, Steps
<1>7. CASE Adopt
  BY <1>7, PodTypes DEF Adopt, Continue, Steps, PodOrNone
<1>8. CASE AdoptRefused
  BY <1>8, <1>w, <1>f DEF AdoptRefused, cluster, Steps
<1>9. CASE AdoptPvc
  BY <1>9, <1>f DEF AdoptPvc, Continue, Steps
<1>10. CASE IsolateWarm
  BY <1>10, EditTypes DEF IsolateWarm, Continue, Steps
<1>11. CASE EnsurePvc
  BY <1>11, <1>w, EditTypes DEF EnsurePvc, Continue, Steps
<1>12. CASE IsolateCold
  BY <1>12 DEF IsolateCold, Continue, Steps
<1>13. CASE GetPod
  <2>1. ASSUME NEW l \in Sandbox, Continue("write", l) PROVE loc' \in Sandbox /\ pc' \in Steps
    BY <2>1 DEF Continue, Steps
  <2>2. /\ ToError(loc) \in Sandbox
        /\ [loc EXCEPT !.phase = "Running", !.pod = Own, !.retry = FALSE] \in Sandbox
    BY <1>w, EditTypes, ToErrorType
  <2>3. loc' \in Sandbox /\ pc' \in Steps \union {"idle"}
    <3>1. CASE Continue("createPod", loc)
      BY <3>1 DEF Continue, Steps
    <3> QED BY <1>13, <1>r, <2>1, <2>2, <3>1 DEF GetPod
  <2>4. locCurrent' \in BOOLEAN /\ claimed' \in PodOrNone
    BY <1>13, <1>r DEF GetPod, Continue
  <2> QED BY <1>13, <2>3, <2>4 DEF GetPod, cluster
<1>14. CASE CreatePod
  <2>1. /\ ToError(loc) \in Sandbox /\ [loc EXCEPT !.pod = Own] \in Sandbox
        /\ [st |-> "Pending", term |-> FALSE, role |-> "owned"] \in Pod
    BY <1>w, EditTypes, ToErrorType DEF Pod
  <2>2. pods' \in [Names -> Pod]
    BY <1>14, <2>1 DEF CreatePod
  <2>3. loc' \in Sandbox /\ pc' \in Steps /\ UNCHANGED <<locCurrent, claimed>>
    BY <1>14, <2>1 DEF CreatePod, Continue, Steps
  <2> QED BY <1>14, <2>2, <2>3 DEF CreatePod
<1>15. CASE WriteStatus
  BY <1>15, <1>r, <1>st DEF WriteStatus, Refused, cluster
<1>16. CASE CheckRunning
  <2>1. ASSUME NEW l \in Sandbox, NEW k \in Steps, Continue(k, l)
        PROVE  loc' \in Sandbox /\ pc' \in Steps
    BY <2>1 DEF Continue
  <2>2. /\ ToError(loc) \in Sandbox /\ [loc EXCEPT !.restarts = 0] \in Sandbox
        /\ Failed(loc, loc.restarts + 1) \in Sandbox
        /\ {"write", "clearStop", "stopPod"} \subseteq Steps
    BY <1>w, EditTypes, ToErrorType, FailedType DEF Steps
  <2>3. loc' \in Sandbox /\ pc' \in Steps \union {"idle"}
    BY <1>16, <1>r, <2>1, <2>2 DEF CheckRunning
  <2>4. locCurrent' \in BOOLEAN /\ claimed' \in PodOrNone
    BY <1>16, <1>r DEF CheckRunning, Continue
  <2> QED BY <1>16, <2>3, <2>4 DEF CheckRunning, cluster
<1>17. CASE ClearStop
  BY <1>17, <1>r, <1>st, <1>w, EditTypes DEF ClearStop, Refused, Continue, cluster, Steps
<1>18. CASE StopPod
  BY <1>18, <1>s, <1>t, <1>w, EditTypes DEF StopPod, Continue, Steps
<1>19. CASE DeletePod
  BY <1>19, <1>s, <1>t DEF DeletePod, Continue, Steps
<1>20. CASE DeletePvc
  BY <1>20 DEF DeletePvc, Continue, Steps
<1>21. CASE DeleteNetpol
  BY <1>21 DEF DeleteNetpol, Continue, Steps
<1>22. CASE RemoveFinalizer
  BY <1>22, <1>r, <1>st, <1>w, EditTypes DEF RemoveFinalizer, Refused, cluster
<1>23. CASE CallFails
  BY <1>23, <1>f, ToErrorType DEF CallFails, Continue, cluster, Steps
<1>24. CASE Abort
  BY <1>24, <1>f, <1>r DEF Abort, cluster
<1>25. CASE Users
  <2>1. ASSUME NEW h \in BOOLEAN PROVE [hist EXCEPT !.asked = h] \in [home : PodOrNone, asked : BOOLEAN]
    OBVIOUS
  <2>2. CASE RequestStop
    BY <2>1, <2>2, <1>w, EditTypes DEF RequestStop, Bump, cluster
  <2>3. CASE RequestResume
    BY <2>1, <2>3, <1>w, EditTypes DEF RequestResume, Bump, cluster
  <2>4. CASE RequestDelete
    BY <2>4, <1>w, EditTypes DEF RequestDelete, Bump, cluster
  <2>5. CASE KubectlAnnotate
    <3> PICK a \in KubectlActions : sb' = [sb EXCEPT !.action = a]
      BY <2>5 DEF KubectlAnnotate
    <3>1. sb' \in Sandbox
      BY ActionsAssumption DEF Sandbox
    <3> QED BY <2>5, <3>1 DEF KubectlAnnotate, Bump, cluster
  <2>6. CASE Touch
    BY <2>6, <1>f DEF Touch, Bump, cluster
  <2> QED BY <1>25, <2>2, <2>3, <2>4, <2>5, <2>6 DEF Users
<1>26. CASE Cluster
  <2>1. CASE SyncSandbox
    BY <2>1 DEF SyncSandbox, cluster, local
  <2>2. CASE SyncPods
    BY <2>2 DEF SyncPods, local
  <2>3. CASE Collect
    BY <2>3, PodTypes DEF Collect, local
  <2>4. ASSUME NEW n \in Names, PodReady(n) \/ PodEnd(n) \/ PodGone(n) \/ PodVanishes(n)
        PROVE  TypeOK'
    <3>1. ASSUME NEW p \in Pod, SetPod(n, p) PROVE pods' \in [Names -> Pod]
      BY <3>1 DEF SetPod
    <3>2. pods' \in [Names -> Pod]
      <4>1. pods[n] \in Pod
        OBVIOUS
      <4> QED BY <2>4, <3>1, <4>1, PodTypes DEF PodReady, PodEnd, PodGone, PodVanishes
    <3>3. faults' \in 0..MaxFaults
      BY <2>4, <1>f DEF PodReady, PodEnd, PodGone, PodVanishes
    <3>4. UNCHANGED <<sb, seen, seenCurrent, podSeen, vols, netpol, hist, local>>
      BY <2>4 DEF PodReady, PodEnd, PodGone, PodVanishes, SetPod
    <3> QED BY <3>2, <3>3, <3>4 DEF local
  <2> QED BY <1>26, <2>1, <2>2, <2>3, <2>4 DEF Cluster
<1>27. CASE UNCHANGED vars
  BY <1>27 DEF vars
<1> QED
  BY <1>1, <1>2, <1>3, <1>4, <1>5, <1>6, <1>7, <1>8, <1>9, <1>10, <1>11, <1>12,
     <1>13, <1>14, <1>15, <1>16, <1>17, <1>18, <1>19, <1>20, <1>21, <1>22, <1>23,
     <1>24, <1>25, <1>26, <1>27 DEF Next, Reconcile

\* Every variable keeps its type.
THEOREM TypeCorrect == Spec => []TypeOK
<1>1. Init => TypeOK
  BY TypeInit
<1>2. TypeOK /\ [Next]_vars => TypeOK'
  BY TypeStep
<1> QED BY <1>1, <1>2, PTL DEF Spec

-----------------------------------------------------------------------------
(* The phase machine.  A write is accepted only from a current copy, so it *)
(* is enough to know how a current copy relates to the object: Matches.    *)

CreatingSteps ==
  {"resolve", "claim", "adopt", "adoptPvc", "netpolWarm", "cold",
   "netpolCold", "getPod", "createPod"}

RunningSteps == {"running", "clearStop", "stopPod"}

DeletingSteps == {"delPod", "delPvc", "delNetpol", "unfinalize"}

SameStatus(s, l) ==
  /\ l.phase = s.phase /\ l.pod = s.pod
  /\ l.restarts = s.restarts /\ l.retry = s.retry
  /\ l.deleting = s.deleting

\* What a status write may make of s: one move of SandboxPhases.
LegalWrite(s, l) ==
  /\ ~s.deleting /\ ~l.deleting
  /\ \/ /\ s.phase = "Creating" /\ l.phase \in {"Creating", "Running", "Error"}
        /\ l.restarts = s.restarts /\ ~l.retry
     \/ /\ s.phase = "Running" /\ l.phase = "Running"
        /\ l.restarts = 0 /\ ~l.retry
     \/ /\ s.phase = "Running" /\ l.phase \in {"Error", "Stopped"}
        /\ l.restarts = s.restarts /\ ~l.retry
     \/ /\ s.phase = "Running" /\ l.phase = "Error" /\ ~l.retry
        /\ s.restarts + 1 >= MaxRestartCount /\ l.restarts = MaxRestartCount
     \/ /\ s.phase = "Running" /\ l.phase = "Error" /\ l.retry
        /\ s.restarts + 1 < MaxRestartCount /\ l.restarts = s.restarts + 1
     \/ /\ s.phase = "Error" /\ l.phase = "Creating" /\ s.retry /\ ~l.retry
        /\ s.restarts < MaxRestartCount /\ l.restarts = s.restarts

Matches ==
  /\ pc # "idle"
  /\ pc # "write" => SameStatus(sb, loc)
  /\ pc \notin DeletingSteps => ~sb.deleting
  /\ pc = "init" => sb.phase = "New"
  /\ pc \in CreatingSteps => sb.phase = "Creating"
  /\ pc \in RunningSteps => sb.phase = "Running"
  /\ pc \in DeletingSteps => sb.deleting
  /\ pc = "write" => LegalWrite(sb, loc)

PhaseInv ==
  /\ TypeOK
  /\ seenCurrent => seen = sb
  /\ sb.retry => sb.phase \in {"Error", "Gone"}
  /\ locCurrent => Matches

LEMMA PhaseInit == Init => PhaseInv
  BY TypeInit DEF Init, PhaseInv, NewSandbox

\* What Init and every step mean for the four mapped variables.
LEMMA MappedVars ==
  UNCHANGED sb => UNCHANGED Phases!vars
  BY DEF Phases!vars

\* An action that leaves the Sandbox alone on the server keeps PhaseInv when
\* the copy it goes on with still matches.
LEMMA PhaseQuiet ==
  ASSUME PhaseInv, TypeOK', UNCHANGED <<sb, seen, seenCurrent>>,
         locCurrent' => Matches'
  PROVE  PhaseInv'
  BY DEF PhaseInv

LEMMA PhaseReturn ==
  ASSUME PhaseInv, TypeOK', UNCHANGED <<sb, seen, seenCurrent>>, Return
  PROVE  PhaseInv'
  BY DEF PhaseInv, Return

\* The next step of the same reconcile, with the same in-memory status.
LEMMA PhaseContinue ==
  ASSUME PhaseInv, TypeOK', UNCHANGED <<sb, seen, seenCurrent, locCurrent>>,
         pc # "write", pc' # "idle", pc' # "write", pc' # "init",
         SameStatus(loc, loc'),
         pc' \in CreatingSteps <=> pc \in CreatingSteps,
         pc' \in RunningSteps <=> pc \in RunningSteps,
         pc' \in DeletingSteps <=> pc \in DeletingSteps
  PROVE  PhaseInv'
  BY DEF PhaseInv, Matches, SameStatus

\* The step that decides the status to write.
LEMMA PhaseDecide ==
  ASSUME PhaseInv, TypeOK', UNCHANGED <<sb, seen, seenCurrent, locCurrent>>,
         pc' = "write",
         locCurrent => LegalWrite(sb, loc')
  PROVE  PhaseInv'
  BY DEF PhaseInv, Matches, LegalWrite, CreatingSteps, RunningSteps, DeletingSteps

\* A write of the Sandbox by somebody else.
LEMMA PhaseBump ==
  ASSUME PhaseInv, TypeOK', Bump, sb'.retry => sb'.phase \in {"Error", "Gone"}
  PROVE  PhaseInv'
  BY DEF PhaseInv, Bump

\* An accepted write of a copy with the same status as the object, and of a
\* new phase for it.
LEMMA StoreMoves ==
  ASSUME TypeOK, NEW s \in Sandbox, Store(s)
  PROVE  sb' = s /\ seenCurrent' = FALSE /\ locCurrent
  BY DEF Store

\* Every step keeps PhaseInv and is a move of SandboxPhases, or none.
LEMMA PhaseStep ==
  ASSUME PhaseInv, [Next]_vars
  PROVE  PhaseInv' /\ [Phases!Next]_(Phases!vars)
<1> TypeOK /\ TypeOK'
  BY TypeStep DEF PhaseInv
<1>t. sb \in Sandbox /\ seen \in Sandbox /\ loc \in Sandbox
  BY DEF TypeOK
<1>b. \A s \in Sandbox : /\ s.deleting \in BOOLEAN /\ s.retry \in BOOLEAN
                         /\ s.finalizer \in BOOLEAN
  BY DEF Sandbox
<1>q. UNCHANGED sb => [Phases!Next]_(Phases!vars)
  BY MappedVars
<1>r. ASSUME Refused PROVE UNCHANGED <<sb, seenCurrent>> /\ Return
  BY <1>r DEF Refused
<1>e. /\ ToError(loc) \in Sandbox /\ ToError(loc).phase = "Error"
      /\ ~ToError(loc).retry /\ ToError(loc).restarts = loc.restarts
      /\ ToError(loc).deleting = loc.deleting
  BY <1>t, ToErrorType
<1>1. CASE Dispatch
  <2>1. CASE Entry(seen) = "write"
    <3>1. seen.phase = "Error" /\ seen.retry /\ seen.restarts < MaxRestartCount /\ ~seen.deleting
      <4>1. seen.phase = "Error" /\ seen.retry /\ seen.restarts < MaxRestartCount
        BY <2>1, Zenon DEF Entry
      <4>2. seen.deleting => Entry(seen) \in {"idle", "delPod"}
        BY <1>t, <1>b, <4>1 DEF Entry
      <4> QED BY <2>1, <4>1, <4>2
    <3>2. /\ loc'.phase = "Creating" /\ ~loc'.retry /\ ~loc'.deleting
          /\ loc'.restarts = seen.restarts
      BY <1>1, <2>1, <3>1, <1>t DEF Dispatch, Sandbox
    <3>3. locCurrent' => LegalWrite(sb, loc')
      BY <1>1, <3>1, <3>2 DEF Dispatch, PhaseInv, LegalWrite
    <3>4. locCurrent' => Matches'
      BY <1>1, <2>1, <3>3 DEF Dispatch, Matches, LegalWrite, CreatingSteps,
         RunningSteps, DeletingSteps
    <3> QED BY <1>1, <3>4, <1>q, PhaseQuiet DEF Dispatch
  <2>2. CASE Entry(seen) # "write"
    <3>1. /\ loc' = seen /\ pc' = Entry(seen) /\ pc' # "idle"
          /\ UNCHANGED <<sb, seen, seenCurrent>> /\ locCurrent' = seenCurrent
      BY <1>1, <2>2 DEF Dispatch
    <3>2. /\ Entry(seen) \in {"idle", "delPod", "finalizer", "init", "resolve",
                              "running"}
          /\ Entry(seen) = "delPod" <=> seen.deleting /\ seen.phase # "Gone" /\ seen.finalizer
          /\ Entry(seen) # "idle" /\ Entry(seen) # "delPod" => ~seen.deleting
          /\ Entry(seen) = "init" => seen.phase = "New"
          /\ Entry(seen) = "resolve" => seen.phase = "Creating"
          /\ Entry(seen) = "running" => seen.phase = "Running"
      <4>1. /\ Entry(seen) = "idle" \/ seen.phase # "Gone"
            /\ Entry(seen) \in {"idle", "delPod", "finalizer", "init", "resolve",
                                "running"}
        BY <1>t, <1>b, <2>2 DEF Entry
      <4>2. CASE seen.phase = "Gone"
        BY <1>t, <1>b, <4>2 DEF Entry
      <4>3. CASE seen.phase # "Gone" /\ seen.deleting
        BY <1>t, <1>b, <4>3 DEF Entry
      <4>4. CASE seen.phase # "Gone" /\ ~seen.deleting
        BY <1>t, <1>b, <2>2, <4>4 DEF Entry
      <4> QED BY <4>1, <4>2, <4>3, <4>4
    <3>3. locCurrent' => Matches'
      BY <3>1, <3>2 DEF PhaseInv, Matches, SameStatus, CreatingSteps,
         RunningSteps, DeletingSteps
    <3> QED BY <3>1, <3>3, <1>q, PhaseQuiet
  <2> QED BY <2>1, <2>2
<1>2. CASE AddFinalizer
  <2>1. CASE Refused
    BY <1>2, <2>1, <1>r, <1>q, PhaseReturn DEF AddFinalizer
  <2>2. CASE Store([loc EXCEPT !.finalizer = TRUE]) /\ Return
    <3>1. SameStatus(sb, sb')
      BY <1>2, <2>2, <1>t DEF AddFinalizer, Store, PhaseInv, Matches, SameStatus, Sandbox
    <3>2. UNCHANGED Phases!vars
      BY <3>1 DEF SameStatus, Phases!vars
    <3>3. PhaseInv'
      BY <2>2, <3>1 DEF PhaseInv, Store, Return, SameStatus
    <3> QED BY <3>2, <3>3
  <2> QED BY <1>2, <2>1, <2>2 DEF AddFinalizer
<1>3. CASE EnterCreating
  <2>1. CASE Refused
    BY <1>3, <2>1, <1>r, <1>q, PhaseReturn DEF EnterCreating
  <2>2. CASE ~Refused
    <3> DEFINE l == [loc EXCEPT !.phase = "Creating"]
    <3>1. /\ sb' = l /\ loc' = l /\ seenCurrent' = FALSE /\ pc' = "resolve"
          /\ locCurrent /\ locCurrent'
      BY <1>3, <2>2 DEF EnterCreating, Store, Continue
    <3>2. /\ l.phase = "Creating" /\ l.restarts = sb.restarts /\ l.retry = sb.retry
          /\ l.deleting = sb.deleting /\ ~sb.deleting /\ sb.phase = "New"
      BY <1>3, <3>1, <1>t DEF EnterCreating, PhaseInv, Matches, SameStatus,
         DeletingSteps, Sandbox
    <3>3. ~sb.retry
      BY <3>2 DEF PhaseInv
    <3>4. Phases!Accept
      BY <3>1, <3>2 DEF Phases!Accept, Phases!Active
    <3>5. PhaseInv'
      BY <3>1, <3>2, <3>3 DEF PhaseInv, Matches, SameStatus, CreatingSteps,
         RunningSteps, DeletingSteps
    <3> QED BY <3>4, <3>5 DEF Phases!Next
  <2> QED BY <2>1, <2>2
<1>4. CASE \/ ResolveTemplate \/ Claim \/ ClaimNothing \/ Adopt \/ AdoptRefused
           \/ AdoptPvc \/ EnsurePvc \/ IsolateCold \/ DeletePod \/ DeletePvc
           \/ DeleteNetpol
  <2>1. SameStatus(loc, loc')
    BY <1>4, <1>t DEF ResolveTemplate, Claim, ClaimNothing, Adopt, AdoptRefused,
       AdoptPvc, EnsurePvc, IsolateCold, DeletePod, DeletePvc, DeleteNetpol,
       Continue, SameStatus, Sandbox
  <2>2. /\ UNCHANGED <<sb, seen, seenCurrent, locCurrent>>
        /\ pc # "write" /\ pc' # "idle" /\ pc' # "write" /\ pc' # "init"
        /\ pc' \in CreatingSteps <=> pc \in CreatingSteps
        /\ pc' \in RunningSteps <=> pc \in RunningSteps
        /\ pc' \in DeletingSteps <=> pc \in DeletingSteps
    BY <1>4 DEF ResolveTemplate, Claim, ClaimNothing, Adopt, AdoptRefused,
       AdoptPvc, EnsurePvc, IsolateCold, DeletePod, DeletePvc, DeleteNetpol,
       Continue, CreatingSteps, RunningSteps, DeletingSteps
  <2> QED BY <2>1, <2>2, <1>q, PhaseContinue
\* In a Creating step a current copy may be written back as Creating, Running
\* or Error.
<1>c. ASSUME NEW l \in Sandbox, pc \in CreatingSteps, locCurrent, ~l.retry,
             l.phase \in {"Creating", "Running", "Error"},
             l.restarts = loc.restarts, l.deleting = loc.deleting
      PROVE  LegalWrite(sb, l)
  BY <1>c DEF PhaseInv, Matches, SameStatus, LegalWrite, CreatingSteps,
     DeletingSteps
<1>5. CASE IsolateWarm
  <2>1. /\ loc'.phase = "Running" /\ ~loc'.retry /\ loc'.restarts = loc.restarts
        /\ loc'.deleting = loc.deleting /\ loc' \in Sandbox
    BY <1>5, <1>t DEF IsolateWarm, Continue, Sandbox, TypeOK
  <2>2. locCurrent => LegalWrite(sb, loc')
    BY <1>5, <2>1, <1>c DEF IsolateWarm, CreatingSteps
  <2> QED BY <1>5, <2>2, <1>q, PhaseDecide DEF IsolateWarm, Continue
<1>6. CASE GetPod
  <2>1. CASE Return
    BY <1>6, <2>1, <1>q, PhaseReturn DEF GetPod
  <2>2. CASE Continue("createPod", loc)
    <3>1. SameStatus(loc, loc')
      BY <2>2 DEF Continue, SameStatus
    <3> QED BY <1>6, <2>2, <3>1, <1>q, PhaseContinue DEF GetPod, Continue,
          CreatingSteps, RunningSteps, DeletingSteps
  <2>3. CASE Continue("write", [loc EXCEPT !.phase = "Running", !.pod = Own,
                                           !.retry = FALSE])
    <3>1. /\ loc'.phase = "Running" /\ ~loc'.retry /\ loc'.restarts = loc.restarts
          /\ loc'.deleting = loc.deleting /\ loc' \in Sandbox
      BY <2>3, <1>t DEF Continue, Sandbox, TypeOK
    <3>2. locCurrent => LegalWrite(sb, loc')
      BY <1>6, <3>1, <1>c DEF GetPod, CreatingSteps
    <3> QED BY <1>6, <2>3, <3>2, <1>q, PhaseDecide DEF GetPod, Continue
  <2>4. CASE Continue("write", ToError(loc))
    <3>1. locCurrent => LegalWrite(sb, ToError(loc))
      BY <1>6, <1>c, <1>e DEF GetPod, CreatingSteps
    <3> QED BY <1>6, <2>4, <3>1, <1>q, PhaseDecide DEF GetPod, Continue
  <2> QED BY <1>6, <2>1, <2>2, <2>3, <2>4 DEF GetPod
<1>7. CASE CreatePod \/ CallFails
  <2>1. CASE Continue("write", ToError(loc))
    <3>1. locCurrent => LegalWrite(sb, ToError(loc))
      BY <1>7, <1>c, <1>e DEF CreatePod, CallFails, CreatingSteps
    <3> QED BY <1>7, <2>1, <3>1, <1>q, PhaseDecide DEF CreatePod, CallFails, Continue
  <2>2. CASE CreatePod /\ Continue("write", [loc EXCEPT !.pod = Own])
    <3>1. /\ loc'.phase = loc.phase /\ loc'.retry = loc.retry
          /\ loc'.restarts = loc.restarts /\ loc'.deleting = loc.deleting
          /\ loc' \in Sandbox
      BY <2>2, <1>t DEF Continue, Sandbox, TypeOK
    <3>2. locCurrent => loc.phase = "Creating" /\ ~loc.retry
      BY <2>2 DEF CreatePod, CreatingSteps, PhaseInv, Matches, SameStatus
    <3>3. locCurrent => LegalWrite(sb, loc')
      BY <2>2, <3>1, <3>2, <1>c DEF CreatePod, CreatingSteps
    <3> QED BY <2>2, <3>3, <1>q, PhaseDecide DEF CreatePod, Continue
  <2> QED BY <1>7, <2>1, <2>2 DEF CreatePod, CallFails
<1>8. CASE WriteStatus
  <2>1. CASE Refused
    BY <1>8, <2>1, <1>r, <1>q, PhaseReturn DEF WriteStatus
  <2>2. CASE Store(loc) /\ Return
    <3>1. sb' = loc /\ LegalWrite(sb, loc)
      BY <1>8, <2>2 DEF WriteStatus, Store, PhaseInv, Matches
    <3>2. [Phases!Next]_(Phases!vars)
      <4> ~sb.retry \/ sb.phase \in {"Error", "Gone"}
        BY DEF PhaseInv
      <4> /\ sb'.deleting = FALSE /\ sb.deleting = FALSE /\ loc.deleting = FALSE
          /\ sb.retry \in BOOLEAN /\ loc.retry \in BOOLEAN
        BY <3>1, <1>t, <1>b DEF LegalWrite
      <4> USE DEF Phases!Active, Phases!Next, Phases!vars
      <4>1. CASE /\ sb.phase = "Creating" /\ loc.phase \in {"Creating", "Running", "Error"}
                 /\ loc.restarts = sb.restarts /\ ~loc.retry
        BY <3>1, <4>1 DEF Phases!Start, Phases!GiveUp
      <4>2. CASE /\ sb.phase = "Running" /\ loc.phase = "Running"
                 /\ loc.restarts = 0 /\ ~loc.retry
        BY <3>1, <4>2 DEF Phases!Stabilize
      <4>3. CASE /\ sb.phase = "Running" /\ loc.phase \in {"Error", "Stopped"}
                 /\ loc.restarts = sb.restarts /\ ~loc.retry
        BY <3>1, <4>3 DEF Phases!GiveUp, Phases!Stop
      <4>4. CASE /\ sb.phase = "Running" /\ loc.phase = "Error" /\ ~loc.retry
                 /\ sb.restarts + 1 >= MaxRestartCount /\ loc.restarts = MaxRestartCount
        BY <3>1, <4>4 DEF Phases!Exhaust
      <4>5. CASE /\ sb.phase = "Running" /\ loc.phase = "Error" /\ loc.retry
                 /\ sb.restarts + 1 < MaxRestartCount /\ loc.restarts = sb.restarts + 1
        BY <3>1, <4>5 DEF Phases!Break
      <4>6. CASE /\ sb.phase = "Error" /\ loc.phase = "Creating" /\ sb.retry /\ ~loc.retry
                 /\ sb.restarts < MaxRestartCount /\ loc.restarts = sb.restarts
        BY <3>1, <4>6 DEF Phases!Restart
      <4> QED BY <3>1, <4>1, <4>2, <4>3, <4>4, <4>5, <4>6 DEF LegalWrite
    <3>3. PhaseInv'
      BY <2>2, <3>1 DEF PhaseInv, Store, Return, LegalWrite
    <3> QED BY <3>2, <3>3
  <2> QED BY <1>8, <2>1, <2>2 DEF WriteStatus
\* In a Running step a current copy may be written back in several ways.
<1>u. ASSUME NEW l \in Sandbox, pc \in RunningSteps, locCurrent, ~l.retry,
             \/ l.phase \in {"Error", "Stopped"} /\ l.restarts = loc.restarts
             \/ l.phase = "Running" /\ l.restarts = 0,
             l.deleting = loc.deleting
      PROVE  LegalWrite(sb, l)
  BY <1>u DEF PhaseInv, Matches, SameStatus, LegalWrite, RunningSteps,
     DeletingSteps
<1>n. pc \in RunningSteps /\ locCurrent => ~loc.retry /\ loc.phase = "Running" /\ ~sb.deleting
  BY DEF PhaseInv, Matches, SameStatus, RunningSteps, DeletingSteps
<1>9. CASE CheckRunning
  <2>1. CASE Return
    BY <1>9, <2>1, <1>q, PhaseReturn DEF CheckRunning
  <2>2. CASE Continue("clearStop", loc) \/ Continue("stopPod", loc)
    <3>1. SameStatus(loc, loc')
      BY <2>2 DEF Continue, SameStatus
    <3> QED BY <1>9, <2>2, <3>1, <1>q, PhaseContinue DEF CheckRunning, Continue,
          CreatingSteps, RunningSteps, DeletingSteps
  <2>3. CASE Continue("write", ToError(loc))
    <3>1. locCurrent => LegalWrite(sb, ToError(loc))
      BY <1>9, <1>u, <1>e DEF CheckRunning, RunningSteps
    <3> QED BY <1>9, <2>3, <3>1, <1>q, PhaseDecide DEF CheckRunning, Continue
  <2>4. CASE Continue("write", Failed(loc, loc.restarts + 1))
    <3> DEFINE l == Failed(loc, loc.restarts + 1)
    <3>1. /\ l.phase = "Error" /\ l.deleting = loc.deleting
          /\ \/ /\ ~l.retry /\ loc.restarts + 1 >= MaxRestartCount
                /\ l.restarts = MaxRestartCount
             \/ /\ l.retry /\ loc.restarts + 1 < MaxRestartCount
                /\ l.restarts = loc.restarts + 1
      BY <1>t, FailedType
    <3> HIDE DEF l
    <3>2. locCurrent => SameStatus(sb, loc) /\ ~sb.deleting /\ sb.phase = "Running"
      BY <1>9 DEF CheckRunning, PhaseInv, Matches, RunningSteps, DeletingSteps
    <3>3. locCurrent => LegalWrite(sb, l)
      BY <3>1, <3>2 DEF SameStatus, LegalWrite
    <3>4. loc' = l /\ pc' = "write" /\ UNCHANGED locCurrent
      BY <2>4 DEF Continue, l
    <3> QED BY <1>9, <3>3, <3>4, <1>q, PhaseDecide DEF CheckRunning
  <2>5. CASE Continue("write", [loc EXCEPT !.restarts = 0])
    <3>1. /\ loc'.phase = loc.phase /\ loc'.retry = loc.retry /\ loc'.restarts = 0
          /\ loc'.deleting = loc.deleting /\ loc' \in Sandbox
      BY <2>5, <1>t DEF Continue, Sandbox, TypeOK
    <3>2. locCurrent => LegalWrite(sb, loc')
      BY <1>9, <3>1, <1>n, <1>u DEF CheckRunning, RunningSteps
    <3> QED BY <1>9, <2>5, <3>2, <1>q, PhaseDecide DEF CheckRunning, Continue
  <2> QED BY <1>9, <2>1, <2>2, <2>3, <2>4, <2>5 DEF CheckRunning
<1>10. CASE ClearStop
  <2>1. CASE Refused
    BY <1>10, <2>1, <1>r, <1>q, PhaseReturn DEF ClearStop
  <2>2. CASE ~Refused
    <3> DEFINE l == [loc EXCEPT !.action = "none"]
    <3>1. /\ sb' = l /\ loc' = l /\ seenCurrent' = FALSE /\ pc' = "stopPod"
          /\ locCurrent /\ locCurrent'
      BY <1>10, <2>2 DEF ClearStop, Store, Continue
    <3>2. SameStatus(loc, l)
      BY <1>t DEF Sandbox, SameStatus
    <3>3. SameStatus(sb, loc) /\ ~sb.deleting /\ sb.phase = "Running"
      BY <1>10, <3>1 DEF ClearStop, PhaseInv, Matches, RunningSteps, DeletingSteps
    <3> HIDE DEF l
    <3>4. UNCHANGED Phases!vars
      BY <3>1, <3>2, <3>3 DEF SameStatus, Phases!vars
    <3>5. PhaseInv'
      BY <3>1, <3>2, <3>3 DEF PhaseInv, Matches, SameStatus, CreatingSteps,
         RunningSteps, DeletingSteps
    <3> QED BY <3>4, <3>5
  <2> QED BY <2>1, <2>2
<1>11. CASE StopPod
  <2>1. /\ loc'.phase = "Stopped" /\ ~loc'.retry /\ loc'.restarts = loc.restarts
        /\ loc'.deleting = loc.deleting /\ loc' \in Sandbox
    BY <1>11, <1>t DEF StopPod, Continue, Sandbox, TypeOK
  <2>2. locCurrent => LegalWrite(sb, loc')
    BY <1>11, <2>1, <1>u DEF StopPod, RunningSteps
  <2> QED BY <1>11, <2>2, <1>q, PhaseDecide DEF StopPod, Continue
<1>12. CASE RemoveFinalizer
  <2>1. CASE Refused
    BY <1>12, <2>1, <1>r, <1>q, PhaseReturn DEF RemoveFinalizer
  <2>2. CASE ~Refused
    <3> DEFINE l == [loc EXCEPT !.finalizer = FALSE, !.phase = "Gone"]
    <3>1. sb' = l /\ seenCurrent' = FALSE /\ locCurrent /\ Return
      BY <1>12, <2>2 DEF RemoveFinalizer, Store
    <3>2. /\ l.phase = "Gone" /\ l.restarts = loc.restarts /\ l.retry = loc.retry
          /\ l.deleting = loc.deleting
      BY <1>t DEF Sandbox
    <3>3. SameStatus(sb, loc) /\ sb.deleting
      BY <1>12, <3>1 DEF RemoveFinalizer, PhaseInv, Matches, DeletingSteps
    <3> HIDE DEF l
    <3>4. Phases!Vanish
      BY <3>1, <3>2, <3>3 DEF SameStatus, Phases!Vanish
    <3>5. PhaseInv'
      BY <3>1, <3>2 DEF PhaseInv, Return
    <3> QED BY <3>4, <3>5 DEF Phases!Next
  <2> QED BY <2>1, <2>2
<1>13. CASE Abort
  BY <1>13, <1>q, PhaseReturn DEF Abort
<1>14. CASE Users
  <2>1. CASE RequestStop \/ KubectlAnnotate \/ Touch
    <3>1. SameStatus(sb, sb') /\ Bump
      BY <2>1, <1>t DEF RequestStop, KubectlAnnotate, Touch, SameStatus, Sandbox
    <3>2. UNCHANGED Phases!vars
      BY <3>1 DEF SameStatus, Phases!vars
    <3>3. sb'.retry => sb'.phase \in {"Error", "Gone"}
      BY <3>1 DEF SameStatus, PhaseInv
    <3> QED BY <3>1, <3>2, <3>3, PhaseBump
  <2>2. CASE RequestResume
    <3>1. /\ sb'.phase = "Creating" /\ ~sb'.retry /\ sb'.restarts = sb.restarts
          /\ sb'.deleting = sb.deleting /\ sb'.retry = FALSE
          /\ sb.phase \in {"Stopped", "Error"} /\ Bump
      BY <2>2, <1>t DEF RequestResume, Sandbox
    <3>2. Phases!Resume
      BY <3>1 DEF Phases!Resume
    <3> QED BY <3>1, <3>2, PhaseBump DEF Phases!Next
  <2>3. CASE RequestDelete
    <3>1. /\ sb'.phase = IF sb.finalizer THEN sb.phase ELSE "Gone"
          /\ sb'.retry = sb.retry /\ sb'.restarts = sb.restarts
          /\ sb'.deleting = TRUE /\ sb.phase # "Gone" /\ Bump
      BY <2>3, <1>t DEF RequestDelete, Sandbox
    <3>2. Phases!Delete
      BY <3>1 DEF Phases!Delete
    <3>3. sb'.retry => sb'.phase \in {"Error", "Gone"}
      BY <3>1 DEF PhaseInv
    <3> QED BY <3>1, <3>2, <3>3, PhaseBump DEF Phases!Next
  <2> QED BY <1>14, <2>1, <2>2, <2>3 DEF Users
<1>15. CASE Cluster
  <2>1. CASE SyncSandbox
    <3>1. /\ sb' = sb /\ seen' = sb /\ pc' = pc /\ loc' = loc
          /\ locCurrent' = locCurrent
      BY <2>1 DEF SyncSandbox, local
    <3>2. locCurrent' => Matches'
      BY <3>1 DEF PhaseInv, Matches
    <3>3. PhaseInv'
      BY <3>1, <3>2 DEF PhaseInv
    <3> QED BY <3>1, <3>3, <1>q
  <2>2. CASE ~SyncSandbox
    <3>1. UNCHANGED <<sb, seen, seenCurrent, pc, loc, locCurrent>>
      BY <1>15, <2>2 DEF Cluster, SyncPods, Collect, PodReady, PodEnd, PodGone,
         PodVanishes, SetPod, local
    <3>2. locCurrent' => Matches'
      BY <3>1 DEF PhaseInv, Matches
    <3> QED BY <3>1, <3>2, <1>q, PhaseQuiet
  <2> QED BY <2>1, <2>2
<1>16. CASE UNCHANGED vars
  <2>1. UNCHANGED <<sb, seen, seenCurrent, pc, loc, locCurrent>>
    BY <1>16 DEF vars
  <2>2. locCurrent' => Matches'
    BY <2>1 DEF PhaseInv, Matches
  <2> QED BY <2>1, <2>2, <1>q, PhaseQuiet
<1> QED
  BY <1>1, <1>2, <1>3, <1>4, <1>5, <1>6, <1>7, <1>8, <1>9, <1>10, <1>11, <1>12,
     <1>13, <1>14, <1>15, <1>16 DEF Next, Reconcile

\* The reconcile loop and the Router together implement SandboxPhases: the
\* versioned Status().Update of every handler is one move of the phase machine,
\* whatever the caches and the requests did since the object was read.
THEOREM ImplementsPhases == Spec => FollowsPhases
<1>1. Init => PhaseInv /\ Phases!Init
  BY PhaseInit DEF Init, NewSandbox, Phases!Init
<1>2. PhaseInv /\ [Next]_vars => PhaseInv' /\ [Phases!Next]_(Phases!vars)
  BY PhaseStep
<1> QED BY <1>1, <1>2, PTL DEF Spec, FollowsPhases, Phases!Spec

-----------------------------------------------------------------------------
(* What a running sandbox may rely on, for every pool and any faults: its  *)
(* NetworkPolicy exists and its pod belongs to it; and what a stop does:   *)
(* it releases the pod, and where no call fails it is final.  They follow  *)
(* from the order in which the handlers make their calls, and from the     *)
(* version a status write carries: a copy the controller may still write   *)
(* back is a copy of the sandbox as it is.                                 *)

-----------------------------------------------------------------------------
(* Deletion is for good, and only the deletion handlers and the collector  *)
(* take the NetworkPolicy away.                                            *)

DeletionInv ==
  /\ seen.deleting => sb.deleting
  /\ loc.deleting => sb.deleting
  /\ pc \in DeletingSteps => loc.deleting
  /\ sb.phase = "Gone" => sb.deleting

LEMMA DeletionInit == Init => DeletionInv
  BY DEF Init, DeletionInv, NewSandbox, DeletingSteps

\* A requested deletion is never withdrawn, and only it removes the object.
LEMMA DeletionForGood ==
  ASSUME PhaseInv, [Next]_vars
  PROVE  /\ sb.deleting => sb'.deleting
         /\ sb'.phase = "Gone" /\ sb.phase # "Gone" => sb'.deleting
<1> sb.deleting \in BOOLEAN /\ sb'.deleting \in BOOLEAN
  BY TypeStep DEF PhaseInv, TypeOK, Sandbox
<1> [Phases!Next]_(Phases!vars)
  BY PhaseStep
<1>1. CASE UNCHANGED Phases!vars
  BY <1>1 DEF Phases!vars
<1>2. CASE Phases!Next
  BY <1>2 DEF Phases!Next, Phases!Accept, Phases!Start, Phases!GiveUp,
     Phases!Exhaust, Phases!Break, Phases!Restart, Phases!Stabilize,
     Phases!Stop, Phases!Resume, Phases!Delete, Phases!Vanish
<1> QED BY <1>1, <1>2

\* The deletion flag of an in-memory copy is that of the copy it came from.
LEMMA CopiesKeepDeletion ==
  ASSUME TypeOK, [Next]_vars
  PROVE  /\ loc'.deleting => loc.deleting \/ (pc = "idle" /\ seen.deleting)
         /\ pc' \in DeletingSteps => \/ pc \in DeletingSteps /\ loc' = loc
                                     \/ loc'.deleting
<1> USE DEF DeletingSteps
<1>t. loc \in Sandbox /\ seen \in Sandbox
  BY DEF TypeOK
<1>e. ToError(loc).deleting = loc.deleting
  BY <1>t, ToErrorType
<1>f. Failed(loc, loc.restarts + 1).deleting = loc.deleting
  BY <1>t, FailedType
<1>n. NewSandbox.deleting = FALSE
  BY DEF NewSandbox
<1>1. CASE Dispatch
  <2>1. loc'.deleting = seen.deleting
    BY <1>1, <1>t DEF Dispatch, Sandbox
  <2>2. seen.deleting \in BOOLEAN /\ seen.finalizer \in BOOLEAN
    BY <1>t DEF Sandbox
  <2>3. Entry(seen) \in DeletingSteps => seen.deleting
    BY <2>2 DEF Entry
  <2> QED BY <1>1, <2>1, <2>2, <2>3 DEF Dispatch
<1>2. CASE AddFinalizer \/ EnterCreating \/ RemoveFinalizer
  BY <1>2, <1>t, <1>n DEF AddFinalizer, EnterCreating, RemoveFinalizer, Refused,
     Return, Continue, Sandbox
<1>3. CASE \/ ResolveTemplate \/ Claim \/ ClaimNothing \/ Adopt \/ AdoptRefused
           \/ AdoptPvc \/ IsolateCold \/ DeletePod \/ DeletePvc \/ DeleteNetpol
  BY <1>3 DEF ResolveTemplate, Claim, ClaimNothing, Adopt, AdoptRefused, AdoptPvc,
     IsolateCold, DeletePod, DeletePvc, DeleteNetpol, Continue
<1>4. CASE IsolateWarm \/ EnsurePvc \/ StopPod \/ ClearStop
  BY <1>4, <1>t, <1>n DEF IsolateWarm, EnsurePvc, StopPod, ClearStop, Refused,
     Return, Continue, Sandbox
<1>5. CASE GetPod \/ CreatePod
  BY <1>5, <1>t, <1>n, <1>e DEF GetPod, CreatePod, Return, Continue, Sandbox
<1>6. CASE WriteStatus \/ Abort \/ CallFails
  BY <1>6, <1>n, <1>e DEF WriteStatus, Abort, CallFails, Refused, Return, Continue
<1>7. CASE CheckRunning
  BY <1>7, <1>t, <1>n, <1>e, <1>f DEF CheckRunning, Return, Continue, Sandbox
<1>8. CASE Users
  BY <1>8 DEF Users, RequestStop, RequestResume, RequestDelete, KubectlAnnotate,
     Touch, Bump
<1>9. CASE Cluster
  BY <1>9 DEF Cluster, SyncSandbox, SyncPods, Collect, PodReady, PodEnd, PodGone,
     PodVanishes, SetPod, local
<1>10. CASE UNCHANGED vars
  BY <1>10 DEF vars
<1> QED
  BY <1>1, <1>2, <1>3, <1>4, <1>5, <1>6, <1>7, <1>8, <1>9, <1>10
  DEF Next, Reconcile

\* The informer's copy is the object as it was at some earlier moment.
LEMMA SeenKeepsUp ==
  ASSUME [Next]_vars
  PROVE  seen' \in {seen, sb}
<1>1. CASE Cluster
  BY <1>1 DEF Cluster, SyncSandbox, SyncPods, Collect, PodReady, PodEnd, PodGone,
     PodVanishes, SetPod
<1>2. CASE Users
  BY <1>2 DEF Users, RequestStop, RequestResume, RequestDelete, KubectlAnnotate,
     Touch, Bump
<1>3. CASE Reconcile \/ CallFails \/ Abort
  BY <1>3 DEF Reconcile, Dispatch, AddFinalizer, EnterCreating, ResolveTemplate,
     Claim, ClaimNothing, Adopt, AdoptRefused, AdoptPvc, IsolateWarm, EnsurePvc,
     IsolateCold, GetPod, CreatePod, WriteStatus, CheckRunning, ClearStop,
     StopPod, DeletePod, DeletePvc, DeleteNetpol, RemoveFinalizer, CallFails, Abort
<1>4. CASE UNCHANGED vars
  BY <1>4 DEF vars
<1> QED BY <1>1, <1>2, <1>3, <1>4 DEF Next

LEMMA DeletionStep ==
  ASSUME PhaseInv, DeletionInv, [Next]_vars
  PROVE  DeletionInv'
<1> USE DEF DeletionInv
<1>1. sb.deleting => sb'.deleting
  BY DeletionForGood
<1>2. seen'.deleting => sb'.deleting
  BY <1>1, SeenKeepsUp
<1>3. loc'.deleting => sb'.deleting
  BY <1>1, CopiesKeepDeletion DEF PhaseInv
<1>4. pc' \in DeletingSteps => loc'.deleting
  BY CopiesKeepDeletion DEF PhaseInv
<1>5. sb'.phase = "Gone" => sb'.deleting
  BY <1>1, DeletionForGood
<1> QED BY <1>2, <1>3, <1>4, <1>5

-----------------------------------------------------------------------------
(* A sandbox that runs is isolated.                                        *)

Isolated == netpol \/ sb.deleting

IsolationInv ==
  /\ sb.phase = "Running" => Isolated
  /\ pc \in {"getPod", "createPod"} => Isolated
  /\ pc = "write" /\ locCurrent /\ loc.phase = "Running" => Isolated

LEMMA IsolationInit == Init => IsolationInv
  BY DEF Init, IsolationInv, NewSandbox

\* The NetworkPolicy goes only once the deletion was requested.
LEMMA IsolationLasts ==
  ASSUME PhaseInv, DeletionInv, [Next]_vars, Isolated
  PROVE  Isolated'
<1>1. sb.deleting => sb'.deleting
  BY DeletionForGood
<1>2. netpol => netpol' \/ DeleteNetpol \/ Collect
  <2>1. CASE Cluster
    BY <2>1 DEF Cluster, SyncSandbox, SyncPods, PodReady, PodEnd, PodGone,
       PodVanishes, SetPod, cluster
  <2>2. CASE Users
    BY <2>2 DEF Users, RequestStop, RequestResume, RequestDelete,
       KubectlAnnotate, Touch, cluster
  <2>3. CASE Reconcile \/ CallFails \/ Abort
    BY <2>3 DEF Reconcile, Dispatch, AddFinalizer, EnterCreating,
       ResolveTemplate, Claim, ClaimNothing, Adopt, AdoptRefused, AdoptPvc,
       IsolateWarm, EnsurePvc, IsolateCold, GetPod, CreatePod, WriteStatus,
       CheckRunning, ClearStop, StopPod, DeletePod, DeletePvc, RemoveFinalizer,
       CallFails, Abort, cluster
  <2>4. CASE UNCHANGED vars
    BY <2>4 DEF vars
  <2> QED BY <2>1, <2>2, <2>3, <2>4 DEF Next
<1>3. DeleteNetpol \/ Collect => sb.deleting
  BY DEF DeleteNetpol, Collect, DeletionInv, DeletingSteps
<1> QED BY <1>1, <1>2, <1>3 DEF Isolated

LEMMA IsolationStep ==
  ASSUME PhaseInv, DeletionInv, IsolationInv, [Next]_vars
  PROVE  IsolationInv'
<1> TypeOK /\ TypeOK'
  BY TypeStep DEF PhaseInv
<1>t. sb \in Sandbox /\ seen \in Sandbox /\ loc \in Sandbox
  BY DEF TypeOK
<1>i. Isolated => Isolated'
  BY IsolationLasts
<1>a. ASSUME UNCHANGED <<sb, pc, loc>>, locCurrent' => locCurrent
      PROVE  IsolationInv'
  BY <1>a, <1>i DEF IsolationInv
\* A step that leaves the object alone and goes on with another call, or none.
<1>b. ASSUME UNCHANGED sb, pc' \notin {"getPod", "createPod", "write"}
      PROVE  IsolationInv'
  BY <1>b, <1>i DEF IsolationInv
\* A step that decides to write a copy that is not Running, or one in its place.
<1>c. ASSUME UNCHANGED sb, pc' = "write",
             loc'.phase = "Running" /\ locCurrent' => Isolated'
      PROVE  IsolationInv'
  BY <1>c, <1>i DEF IsolationInv
<1>e. ToError(loc).phase = "Error" /\ Failed(loc, loc.restarts + 1).phase = "Error"
  BY <1>t, ToErrorType, FailedType
<1>1. CASE Dispatch
  <2>1. CASE Entry(seen) = "write"
    <3>1. loc'.phase = "Creating"
      BY <1>1, <2>1, <1>t DEF Dispatch, Sandbox
    <3> QED BY <1>1, <2>1, <3>1, <1>c DEF Dispatch
  <2>2. CASE Entry(seen) # "write"
    <3>1. Entry(seen) \notin {"getPod", "createPod"}
      BY DEF Entry
    <3> QED BY <1>1, <2>2, <3>1, <1>b DEF Dispatch
  <2> QED BY <2>1, <2>2
<1>2. CASE AddFinalizer \/ EnterCreating \/ ClearStop \/ RemoveFinalizer
  <2>1. CASE Refused
    BY <2>1, <1>b DEF Refused, Return
  <2>2. CASE ~Refused
    <3>1. locCurrent /\ pc' \in {"idle", "resolve", "stopPod"}
      BY <1>2, <2>2 DEF AddFinalizer, EnterCreating, ClearStop, RemoveFinalizer,
         Store, Return, Continue
    <3>2. sb'.phase = "Running" => loc.phase = "Running" /\ pc \notin {"idle", "write"}
      BY <1>2, <2>2, <1>t DEF AddFinalizer, EnterCreating, ClearStop,
         RemoveFinalizer, Store, Sandbox
    <3>3. sb'.phase = "Running" => sb.phase = "Running"
      BY <3>1, <3>2 DEF PhaseInv, Matches, SameStatus
    <3> QED BY <3>1, <3>3, <1>i DEF IsolationInv
  <2> QED BY <2>1, <2>2
<1>3. CASE \/ ResolveTemplate \/ Claim \/ ClaimNothing \/ Adopt \/ AdoptRefused
           \/ AdoptPvc \/ EnsurePvc \/ DeletePod \/ DeletePvc \/ DeleteNetpol
           \/ Abort
  <2>1. UNCHANGED sb /\ pc' \notin {"getPod", "createPod", "write"}
    BY <1>3 DEF ResolveTemplate, Claim, ClaimNothing, Adopt, AdoptRefused,
       AdoptPvc, EnsurePvc, DeletePod, DeletePvc, DeleteNetpol, Abort, Return,
       Continue
  <2> QED BY <2>1, <1>b
<1>4. CASE IsolateWarm
  BY <1>4, <1>c DEF IsolateWarm, Continue, Isolated
<1>5. CASE IsolateCold
  BY <1>5, <1>i DEF IsolateCold, Continue, IsolationInv, Isolated
<1>6. CASE GetPod \/ CreatePod
  BY <1>6, <1>i DEF GetPod, CreatePod, Continue, Return, IsolationInv
<1>7. CASE WriteStatus
  <2>1. CASE Refused
    BY <2>1, <1>b DEF Refused, Return
  <2>2. CASE Store(loc) /\ Return
    BY <1>7, <2>2, <1>i DEF WriteStatus, Store, Return, IsolationInv
  <2> QED BY <1>7, <2>1, <2>2 DEF WriteStatus
<1>8. CASE CheckRunning
  <2>1. CASE pc' # "write"
    BY <1>8, <2>1, <1>b DEF CheckRunning, Continue, Return
  <2>2. CASE pc' = "write"
    <3>1. locCurrent => sb.phase = "Running"
      BY <1>8 DEF CheckRunning, PhaseInv, Matches, RunningSteps
    <3>2. UNCHANGED <<sb, locCurrent>>
      BY <1>8, <2>2 DEF CheckRunning, Continue, Return
    <3> QED BY <2>2, <3>1, <3>2, <1>c, <1>i DEF IsolationInv
  <2> QED BY <2>1, <2>2
<1>9. CASE StopPod
  <2>1. loc'.phase = "Stopped"
    BY <1>9, <1>t DEF StopPod, Continue, Sandbox
  <2> QED BY <1>9, <2>1, <1>c DEF StopPod, Continue
<1>10. CASE CallFails
  BY <1>10, <1>c, <1>e DEF CallFails, Continue
<1>11. CASE Users
  <2>1. sb'.phase = "Running" => sb.phase = "Running"
    BY <1>11, <1>t DEF Users, RequestStop, RequestResume, RequestDelete,
       KubectlAnnotate, Touch, Sandbox
  <2>2. Bump
    BY <1>11 DEF Users, RequestStop, RequestResume, RequestDelete,
       KubectlAnnotate, Touch
  <2> QED BY <2>1, <2>2, <1>i DEF IsolationInv, Bump
<1>12. CASE Cluster
  <2>1. UNCHANGED <<sb, pc, loc, locCurrent>>
    BY <1>12 DEF Cluster, SyncSandbox, SyncPods, Collect, PodReady, PodEnd,
       PodGone, PodVanishes, SetPod, local
  <2> QED BY <2>1, <1>a
<1>13. CASE UNCHANGED vars
  BY <1>13, <1>a DEF vars
<1> QED
  BY <1>1, <1>2, <1>3, <1>4, <1>5, <1>6, <1>7, <1>8, <1>9, <1>10, <1>11, <1>12,
     <1>13 DEF Next, Reconcile

\* A sandbox reports Running only behind its NetworkPolicy: ensureNetworkPolicy
\* precedes, on both paths of reconcileCreating, every write of phase Running,
\* and only reconcileDelete and the collector take the policy away.
THEOREM RunningIsIsolated == Spec => []IsolatedWhenRunning
<1> DEFINE Inv == PhaseInv /\ DeletionInv /\ IsolationInv
<1>1. Init => Inv
  BY PhaseInit, DeletionInit, IsolationInit
<1>2. Inv /\ [Next]_vars => Inv'
  BY PhaseStep, DeletionStep, IsolationStep
<1>3. Inv => IsolatedWhenRunning
  BY DEF IsolationInv, Isolated, IsolatedWhenRunning
<1> QED BY <1>1, <1>2, <1>3, PTL DEF Spec

-----------------------------------------------------------------------------
(* The pod a sandbox runs on belongs to it.                                *)

OwnPod(n) == n \in Names /\ pods[n].role = "owned"

OwnershipInv ==
  /\ OwnPod(Own)
  /\ \A n \in Names : pods[n].st = "absent" => OwnPod(n)
  /\ pc = "adopt" => claimed \in PoolPods
  /\ pc \in {"adoptPvc", "netpolWarm"} => claimed \in PoolPods /\ OwnPod(claimed)
  /\ pc = "write" /\ locCurrent /\ loc.phase = "Running" => OwnPod(loc.pod)
  /\ sb.phase = "Running" => OwnPod(sb.pod)

LEMMA OwnershipInit == Init => OwnershipInv
  BY NamesAssumption DEF Init, OwnershipInv, OwnPod, NewSandbox, NoSuchPod, Names

\* Only pods of the pool are claimed, and no pod is given back to it.
LEMMA OwnershipLasts ==
  ASSUME TypeOK, [Next]_vars, OwnershipInv
  PROVE  /\ \A n \in Names : OwnPod(n) => OwnPod(n)'
         /\ \A n \in Names : (pods[n].st = "absent")' => OwnPod(n)'
<1> USE DEF OwnPod
<1>t. pods \in [Names -> Pod] /\ PoolPods \subseteq Names /\ Own \in Names
  BY DEF TypeOK, Names
<1>p. \A n \in Names : pods[n] \in Pod /\ (pods[n].st = "absent" => pods[n].role = "owned")
  BY <1>t DEF OwnershipInv
<1>o. pods[Own].role = "owned"
  BY DEF OwnershipInv
\* The steps that change a pod change one field of it, or replace it.
<1>1. CASE Claim
  <2> PICK p \in PoolPods : /\ pods[p].st = "Ready" /\ pods[p].role = "pool"
                            /\ pods' = [pods EXCEPT ![p].role = "loose"]
    BY <1>1 DEF Claim
  <2>1. \A n \in Names : n # p => pods'[n] = pods[n]
    BY <1>t
  <2>2. pods'[p].st = "Ready"
    BY <1>t, <1>p DEF Pod
  <2> QED BY <2>1, <2>2, <1>p
<1>2. CASE Adopt
  BY <1>2, <1>t, <1>p DEF Adopt, Pod
<1>3. CASE CreatePod
  BY <1>3, <1>t, <1>p DEF CreatePod
<1>4. CASE StopPod \/ DeletePod
  BY <1>4, <1>t, <1>p DEF StopPod, DeletePod, Terminated, Pod
<1>5. CASE Collect
  BY <1>5, <1>t, <1>p DEF Collect, Pod
<1>6. ASSUME NEW m \in Names, PodReady(m) \/ PodEnd(m) \/ PodGone(m) \/ PodVanishes(m)
      PROVE  \A n \in Names : /\ pods[n].role = "owned" => pods'[n].role = "owned"
                              /\ pods'[n].st = "absent" => pods'[n].role = "owned"
  <2>1. CASE PodGone(m) \/ PodVanishes(m)
    BY <2>1, <1>t, <1>p DEF PodGone, PodVanishes, SetPod, NoSuchPod
  <2>2. CASE PodReady(m) \/ PodEnd(m)
    <3> PICK s \in {"Ready"} \union Ends : pods' = [pods EXCEPT ![m] = [pods[m] EXCEPT !.st = s]]
      BY <2>2, EndsAssumption DEF PodReady, PodEnd, SetPod
    <3>1. pods'[m].st # "absent" /\ pods'[m].role = pods[m].role
      BY <1>t, <1>p DEF Pod, Ends
    <3>2. \A n \in Names : n # m => pods'[n] = pods[n]
      BY <1>t
    <3> QED BY <3>1, <3>2, <1>p
  <2> QED BY <1>6, <2>1, <2>2
<1>7. CASE UNCHANGED pods
  BY <1>7, <1>p
<1>8. CASE Users \/ CallFails \/ Abort \/ UNCHANGED vars \/ SyncSandbox \/ SyncPods
  BY <1>7, <1>8 DEF Users, RequestStop, RequestResume, RequestDelete,
     KubectlAnnotate, Touch, CallFails, Abort, SyncSandbox, SyncPods, cluster, vars
<1>9. CASE Reconcile
  BY <1>1, <1>2, <1>3, <1>4, <1>7, <1>9 DEF Reconcile, Dispatch, AddFinalizer,
     EnterCreating, ResolveTemplate, ClaimNothing, AdoptRefused, AdoptPvc,
     IsolateWarm, EnsurePvc, IsolateCold, GetPod, WriteStatus, CheckRunning,
     ClearStop, DeletePvc, DeleteNetpol, RemoveFinalizer, cluster
<1> QED
  BY <1>t, <1>5, <1>6, <1>8, <1>9 DEF Next, Cluster

LEMMA OwnershipStep ==
  ASSUME PhaseInv, OwnershipInv, [Next]_vars
  PROVE  OwnershipInv'
<1> TypeOK /\ TypeOK'
  BY TypeStep DEF PhaseInv
<1>t. sb \in Sandbox /\ seen \in Sandbox /\ loc \in Sandbox
  BY DEF TypeOK
<1>o. \A n \in Names : OwnPod(n) => OwnPod(n)'
  BY OwnershipLasts
<1>n. \A n : OwnPod(n) => n \in Names
  BY DEF OwnPod
<1>k. OwnPod(Own)' /\ \A n \in Names : (pods[n].st = "absent")' => OwnPod(n)'
  BY <1>o, <1>n, OwnershipLasts DEF OwnershipInv
<1>p. PoolPods \subseteq Names
  BY DEF Names
\* A step that leaves the reconcile alone, and the pod of a running sandbox.
<1>a. ASSUME UNCHANGED <<pc, loc, claimed>>, locCurrent' => locCurrent,
             sb'.phase = "Running" => sb.phase = "Running" /\ sb'.pod = sb.pod
      PROVE  OwnershipInv'
  BY <1>a, <1>o, <1>n, <1>k DEF OwnershipInv
\* A step that goes on with a call that relies on no pod.
<1>b. ASSUME pc' \notin {"adopt", "adoptPvc", "netpolWarm", "write"},
             sb'.phase = "Running" => sb.phase = "Running" /\ sb'.pod = sb.pod
      PROVE  OwnershipInv'
  BY <1>b, <1>o, <1>n, <1>k DEF OwnershipInv
\* A step that decides what to write.
<1>c. ASSUME UNCHANGED sb, pc' = "write",
             loc'.phase = "Running" /\ locCurrent' => OwnPod(loc'.pod)
      PROVE  OwnershipInv'
  BY <1>c, <1>o, <1>n, <1>k DEF OwnershipInv
<1>e. ToError(loc).phase = "Error" /\ Failed(loc, loc.restarts + 1).phase = "Error"
  BY <1>t, ToErrorType, FailedType
<1>1. CASE Dispatch
  <2>1. CASE Entry(seen) = "write"
    <3>1. loc'.phase = "Creating"
      BY <1>1, <2>1, <1>t DEF Dispatch, Sandbox
    <3> QED BY <1>1, <2>1, <3>1, <1>c DEF Dispatch
  <2>2. CASE Entry(seen) # "write"
    <3>1. Entry(seen) \notin {"adopt", "adoptPvc", "netpolWarm"}
      BY DEF Entry
    <3> QED BY <1>1, <2>2, <3>1, <1>b DEF Dispatch
  <2> QED BY <2>1, <2>2
<1>2. CASE AddFinalizer \/ EnterCreating \/ ClearStop \/ RemoveFinalizer
  <2>1. CASE Refused
    BY <2>1, <1>b DEF Refused, Return
  <2>2. CASE ~Refused
    <3>1. locCurrent /\ pc' \in {"idle", "resolve", "stopPod"}
      BY <1>2, <2>2 DEF AddFinalizer, EnterCreating, ClearStop, RemoveFinalizer,
         Store, Return, Continue
    <3>2. sb'.phase = "Running" => /\ loc.phase = "Running" /\ sb'.pod = loc.pod
                                   /\ pc \notin {"idle", "write"}
      BY <1>2, <2>2, <1>t DEF AddFinalizer, EnterCreating, ClearStop,
         RemoveFinalizer, Store, Sandbox
    <3>3. sb'.phase = "Running" => sb.phase = "Running" /\ sb'.pod = sb.pod
      BY <3>1, <3>2 DEF PhaseInv, Matches, SameStatus
    <3> QED BY <3>1, <3>3, <1>b
  <2> QED BY <2>1, <2>2
<1>3. CASE \/ ResolveTemplate \/ ClaimNothing \/ AdoptRefused \/ EnsurePvc
           \/ IsolateCold \/ DeletePod \/ DeletePvc \/ DeleteNetpol \/ Abort
  <2>1. UNCHANGED sb /\ pc' \notin {"adopt", "adoptPvc", "netpolWarm", "write"}
    BY <1>3 DEF ResolveTemplate, ClaimNothing, AdoptRefused, EnsurePvc,
       IsolateCold, DeletePod, DeletePvc, DeleteNetpol, Abort, Return, Continue
  <2> QED BY <2>1, <1>b
<1>4. CASE Claim
  <2>1. claimed' \in PoolPods /\ pc' = "adopt" /\ UNCHANGED sb
    BY <1>4 DEF Claim
  <2> QED BY <2>1, <1>o, <1>n, <1>k DEF OwnershipInv
<1>5. CASE Adopt
  <2>1. /\ claimed \in PoolPods /\ claimed' = claimed
        /\ pc' = "adoptPvc" /\ UNCHANGED sb
    BY <1>5 DEF Adopt, Continue, OwnershipInv
  <2>2. OwnPod(claimed)'
    BY <1>5, <2>1, <1>p DEF Adopt, OwnPod, TypeOK, Pod
  <2> QED BY <2>1, <2>2, <1>o, <1>n, <1>k DEF OwnershipInv
<1>6. CASE AdoptPvc
  <2>1. /\ claimed \in PoolPods /\ claimed' = claimed /\ OwnPod(claimed)
        /\ pc' = "netpolWarm" /\ UNCHANGED <<sb, pods>>
    BY <1>6 DEF AdoptPvc, Continue, OwnershipInv
  <2> QED BY <2>1, <1>o, <1>n, <1>k DEF OwnershipInv, OwnPod
<1>7. CASE IsolateWarm
  <2>1. loc'.pod = claimed /\ OwnPod(claimed) /\ UNCHANGED pods
    BY <1>7, <1>t DEF IsolateWarm, Continue, OwnershipInv, Sandbox
  <2>2. OwnPod(loc'.pod)
    BY <2>1
  <2> QED BY <1>7, <2>2, <1>c DEF IsolateWarm, Continue
<1>8. CASE GetPod \/ CreatePod
  <2>1. CASE pc' # "write"
    BY <1>8, <2>1, <1>b DEF GetPod, CreatePod, Continue, Return
  <2>2. CASE pc' = "write"
    <3>1. OwnPod(loc'.pod) \/ loc'.phase # "Running"
      BY <1>8, <2>2, <1>e, <1>t DEF GetPod, CreatePod, Continue, Return,
         OwnershipInv, Sandbox
    <3> QED BY <1>8, <2>2, <3>1, <1>c DEF GetPod, CreatePod
  <2> QED BY <2>1, <2>2
<1>9. CASE WriteStatus
  <2>1. CASE Refused
    BY <2>1, <1>b DEF Refused, Return
  <2>2. CASE Store(loc) /\ Return
    BY <1>9, <2>2, <1>o, <1>n, <1>k DEF WriteStatus, Store, Return, OwnershipInv
  <2> QED BY <1>9, <2>1, <2>2 DEF WriteStatus
<1>10. CASE CheckRunning
  <2>1. CASE pc' # "write"
    BY <1>10, <2>1, <1>b DEF CheckRunning, Continue, Return
  <2>2. CASE pc' = "write"
    <3>1. locCurrent => sb.phase = "Running" /\ loc.pod = sb.pod
      BY <1>10 DEF CheckRunning, PhaseInv, Matches, RunningSteps, SameStatus
    <3>2. loc'.phase = "Running" => loc'.pod = loc.pod
      BY <1>10, <2>2, <1>e, <1>t DEF CheckRunning, Continue, Return, Sandbox
    <3>3. UNCHANGED <<sb, locCurrent>>
      BY <1>10, <2>2 DEF CheckRunning, Continue, Return
    <3> QED BY <2>2, <3>1, <3>2, <3>3, <1>c DEF OwnershipInv
  <2> QED BY <2>1, <2>2
<1>11. CASE StopPod
  <2>1. loc'.phase = "Stopped"
    BY <1>11, <1>t DEF StopPod, Continue, Sandbox
  <2> QED BY <1>11, <2>1, <1>c DEF StopPod, Continue
<1>12. CASE CallFails
  BY <1>12, <1>c, <1>e DEF CallFails, Continue
<1>13. CASE Users
  <2>1. sb'.phase = "Running" => sb.phase = "Running" /\ sb'.pod = sb.pod
    BY <1>13, <1>t DEF Users, RequestStop, RequestResume, RequestDelete,
       KubectlAnnotate, Touch, Sandbox
  <2>2. Bump
    BY <1>13 DEF Users, RequestStop, RequestResume, RequestDelete,
       KubectlAnnotate, Touch
  <2> QED BY <2>1, <2>2, <1>a DEF Bump
<1>14. CASE Cluster
  <2>1. UNCHANGED <<sb, pc, loc, locCurrent, claimed>>
    BY <1>14 DEF Cluster, SyncSandbox, SyncPods, Collect, PodReady, PodEnd,
       PodGone, PodVanishes, SetPod, local
  <2> QED BY <2>1, <1>a
<1>15. CASE UNCHANGED vars
  BY <1>15, <1>a DEF vars
<1> QED
  BY <1>1, <1>2, <1>3, <1>4, <1>5, <1>6, <1>7, <1>8, <1>9, <1>10, <1>11, <1>12,
     <1>13, <1>14, <1>15 DEF Next, Reconcile

\* A running sandbox runs on a pod of its own: a pool pod is recorded in the
\* status only after adoptWarmPod gave it the sandbox as owner, and a claim
\* that was left half done is never recorded.
THEOREM RunningOnOwnedPod == Spec => []RunsOnOwnedPod
<1> DEFINE Inv == PhaseInv /\ OwnershipInv
<1>1. Init => Inv
  BY PhaseInit, OwnershipInit
<1>2. Inv /\ [Next]_vars => Inv'
  BY PhaseStep, OwnershipStep
<1>3. Inv => RunsOnOwnedPod
  BY NamesAssumption DEF OwnershipInv, OwnPod, RunsOnOwnedPod
<1> QED BY <1>1, <1>2, <1>3, PTL DEF Spec
-----------------------------------------------------------------------------
(* A stop releases the pod of the sandbox, and lasts.                      *)

Released(n) == pods[n].st = "absent" \/ pods[n].term

\* The reconcile is about to stop the sandbox it has a current copy of.
Stopping == locCurrent /\ (pc \in RunningSteps \/ (pc = "write" /\ loc.phase = "Stopped"))

\* Once the sandbox is stopped, no reconcile that saw it in Creating is under
\* way or can start: the stop came from a copy that showed it running.
StopInv ==
  /\ sb.phase = "Stopped" /\ ~sb.deleting =>
       /\ Released(Own)
       /\ seen.phase \in {"Running", "Stopped"}
       /\ pc \notin CreatingSteps \union {"init"}
  /\ pc = "write" /\ locCurrent /\ loc.phase = "Stopped" => Released(Own)
  /\ Stopping => seen.phase = "Running"

LEMMA StopInit == Init => StopInv
  BY DEF Init, StopInv, Stopping, NewSandbox, RunningSteps

\* Only reconcileCreating makes a pod, and a deletion is not taken back.
LEMMA ReleasedLasts ==
  ASSUME TypeOK, [Next]_vars, NEW n \in Names, Released(n), pc # "createPod"
  PROVE  Released(n)'
<1> USE DEF Released
<1>t. pods \in [Names -> Pod] /\ PoolPods \subseteq Names /\ Own \in Names
  BY DEF TypeOK, Names
<1>p. pods[n] \in Pod
  BY <1>t
<1>1. CASE Claim \/ Adopt
  <2> PICK p \in PodOrNone, r \in {"loose", "owned"} :
         pods[p].st # "absent" /\ pods' = [pods EXCEPT ![p].role = r]
    BY <1>1 DEF Claim, Adopt, TypeOK, PodOrNone, Names
  <2> QED BY <1>t, <1>p DEF Pod
<1>2. CASE StopPod \/ DeletePod
  BY <1>2, <1>t, <1>p DEF StopPod, DeletePod, Terminated, Pod
<1>3. CASE Collect
  BY <1>3, <1>t, <1>p DEF Collect, Pod
<1>4. ASSUME NEW m \in Names, PodReady(m) \/ PodEnd(m) \/ PodGone(m) \/ PodVanishes(m)
      PROVE  Released(n)'
  <2>1. CASE PodGone(m) \/ PodVanishes(m)
    BY <2>1, <1>t, <1>p DEF PodGone, PodVanishes, SetPod, NoSuchPod
  <2>2. CASE PodReady(m) \/ PodEnd(m)
    <3> PICK s \in {"Ready"} \union Ends : pods' = [pods EXCEPT ![m] = [pods[m] EXCEPT !.st = s]]
      BY <2>2, EndsAssumption DEF PodReady, PodEnd, SetPod
    <3>1. m = n => pods[m].st # "absent"
      BY <2>2 DEF PodReady, PodEnd
    <3> QED BY <3>1, <1>t, <1>p DEF Pod
  <2> QED BY <1>4, <2>1, <2>2
<1>5. CASE UNCHANGED pods
  BY <1>5
<1>6. CASE Users \/ CallFails \/ Abort \/ UNCHANGED vars \/ SyncSandbox \/ SyncPods
  BY <1>5, <1>6 DEF Users, RequestStop, RequestResume, RequestDelete,
     KubectlAnnotate, Touch, CallFails, Abort, SyncSandbox, SyncPods, cluster, vars
<1>7. CASE Reconcile
  <2> ~CreatePod
    BY DEF CreatePod
  <2> QED
    BY <1>1, <1>2, <1>5, <1>7 DEF Reconcile, Dispatch, AddFinalizer,
     EnterCreating, ResolveTemplate, ClaimNothing, AdoptRefused, AdoptPvc,
     IsolateWarm, EnsurePvc, IsolateCold, GetPod, WriteStatus, CheckRunning,
     ClearStop, DeletePvc, DeleteNetpol, RemoveFinalizer, cluster
<1> QED
  BY <1>3, <1>4, <1>6, <1>7 DEF Next, Cluster

LEMMA StopStep ==
  ASSUME PoolPods = {}, PhaseInv, DeletionInv, OwnershipInv, StopInv, [Next]_vars
  PROVE  StopInv'
<1> TypeOK /\ TypeOK'
  BY TypeStep DEF PhaseInv
<1> DEFINE Still == sb.phase = "Stopped" /\ ~sb.deleting
<1>t. sb \in Sandbox /\ seen \in Sandbox /\ loc \in Sandbox
  BY DEF TypeOK
<1>w. NewSandbox.phase = "New"
  BY DEF NewSandbox
<1>r. pc # "createPod" => (Released(Own) => Released(Own)')
  BY ReleasedLasts DEF Names
<1>e. ToError(loc).phase = "Error" /\ Failed(loc, loc.restarts + 1).phase = "Error"
  BY <1>t, ToErrorType, FailedType
<1>d. Still => ~seen.deleting /\ ~loc.deleting /\ pc \notin DeletingSteps
  BY DEF DeletionInv
<1>c. Still => pc # "createPod"
  BY DEF StopInv, CreatingSteps
\* A step that neither stops the sandbox nor starts creating one.
<1>a. ASSUME Still' => Still, UNCHANGED seen,
             pc' \in CreatingSteps \union {"init"} => pc \in CreatingSteps \union {"init"},
             ~Stopping'
      PROVE  StopInv'
  BY <1>a, <1>r, <1>c DEF StopInv, Stopping
<1>1. CASE Dispatch
  <2>0. UNCHANGED <<sb, seen>> /\ pc' = Entry(seen) /\ pc = "idle"
    BY <1>1 DEF Dispatch
  <2>1. Entry(seen) \in RunningSteps => seen.phase = "Running"
    BY DEF Entry, RunningSteps
  <2>2. Entry(seen) \in CreatingSteps \union {"init"} => seen.phase \in {"New", "Creating"}
    BY DEF Entry, CreatingSteps
  <2>3. pc' = "write" => loc'.phase = "Creating"
    BY <1>1, <1>t DEF Dispatch, Sandbox
  <2> QED BY <2>0, <2>1, <2>2, <2>3, <1>r, <1>c DEF StopInv, Stopping
<1>2. CASE AddFinalizer \/ EnterCreating \/ ClearStop \/ RemoveFinalizer
  <2>1. CASE Refused
    BY <1>2, <2>1, <1>a DEF AddFinalizer, EnterCreating, ClearStop, RemoveFinalizer,
       Refused, Return, Stopping, RunningSteps, CreatingSteps
  <2>2. CASE ~Refused
    <3>1. locCurrent /\ pc' \in {"idle", "resolve", "stopPod"} /\ UNCHANGED seen
      BY <1>2, <2>2 DEF AddFinalizer, EnterCreating, ClearStop, RemoveFinalizer,
         Store, Return, Continue
    <3>2. Still' => loc.phase = "Stopped" /\ pc \notin {"idle", "write", "init"}
      BY <1>2, <2>2, <1>t DEF AddFinalizer, EnterCreating, ClearStop,
         RemoveFinalizer, Store, Sandbox
    <3>3. Still' => sb.phase = "Stopped" /\ pc \notin RunningSteps
      BY <3>1, <3>2 DEF PhaseInv, Matches, SameStatus, RunningSteps
    <3>4. Still' => Still
      BY <3>3, DeletionForGood
    <3>5. pc' = "resolve" => pc = "init"
      BY <1>2, <2>2 DEF AddFinalizer, EnterCreating, ClearStop, RemoveFinalizer,
         Store, Return, Continue
    <3>6. pc' = "stopPod" => pc = "clearStop"
      BY <1>2, <2>2 DEF AddFinalizer, EnterCreating, ClearStop, RemoveFinalizer,
         Store, Return, Continue
    <3> QED BY <3>1, <3>4, <3>5, <3>6, <1>r, <1>c DEF StopInv, Stopping, RunningSteps,
          CreatingSteps
  <2> QED BY <2>1, <2>2
<1>3. CASE \/ ResolveTemplate \/ Claim \/ ClaimNothing \/ Adopt \/ AdoptRefused
           \/ AdoptPvc \/ EnsurePvc \/ IsolateCold \/ DeletePod \/ DeletePvc
           \/ DeleteNetpol \/ Abort
  <2>1. /\ UNCHANGED <<sb, seen>> /\ pc' \notin RunningSteps /\ pc' # "write"
        /\ pc' \in CreatingSteps \union {"init"} => pc \in CreatingSteps \union {"init"}
    BY <1>3 DEF ResolveTemplate, Claim, ClaimNothing, Adopt, AdoptRefused,
       AdoptPvc, EnsurePvc, IsolateCold, DeletePod, DeletePvc, DeleteNetpol, Abort,
       Return, Continue, CreatingSteps, RunningSteps
  <2> QED BY <2>1, <1>a DEF Stopping
\* A step that decides to write something else than Stopped.
<1>u. ASSUME UNCHANGED <<sb, seen>>, pc' = "write", loc'.phase # "Stopped"
      PROVE  StopInv'
  BY <1>u, <1>a DEF Stopping, RunningSteps, CreatingSteps
<1>4. CASE IsolateWarm
  <2>1. loc'.phase = "Running"
    BY <1>4, <1>t DEF IsolateWarm, Continue, Sandbox
  <2> QED BY <1>4, <2>1, <1>u DEF IsolateWarm, Continue
<1>5. CASE GetPod \/ CreatePod
  <2>1. CASE pc' # "write"
    BY <1>5, <2>1, <1>a DEF GetPod, CreatePod, Continue, Return, Stopping,
       RunningSteps, CreatingSteps
  <2>2. CASE pc' = "write"
    <3>1. UNCHANGED <<sb, seen, locCurrent>> /\ pc \in CreatingSteps
      BY <1>5, <2>2 DEF GetPod, CreatePod, Continue, Return, CreatingSteps
    <3>2. loc'.phase \in {"Running", "Error", loc.phase}
      BY <1>5, <2>2, <1>e, <1>t DEF GetPod, CreatePod, Continue, Return, Sandbox
    <3>3. locCurrent => loc.phase = "Creating"
      BY <3>1 DEF PhaseInv, Matches, SameStatus, CreatingSteps
    <3>4. ~Stopping'
      BY <2>2, <3>1, <3>2, <3>3 DEF Stopping, RunningSteps
    <3> QED BY <2>2, <3>1, <3>4, <1>a DEF CreatingSteps
  <2> QED BY <2>1, <2>2
<1>6. CASE WriteStatus
  <2>1. CASE Refused
    BY <1>6, <2>1, <1>a DEF WriteStatus, Refused, Return, Stopping, RunningSteps,
       CreatingSteps
  <2>2. CASE Store(loc) /\ Return
    <3>1. sb' = loc /\ locCurrent /\ pc' = "idle" /\ UNCHANGED seen /\ pc = "write"
      BY <1>6, <2>2 DEF WriteStatus, Store, Return
    <3>2. Still' => seen.phase = "Running" /\ Released(Own)
      BY <3>1 DEF StopInv, Stopping
    <3> QED BY <3>1, <3>2, <1>r DEF StopInv, Stopping, RunningSteps, CreatingSteps
  <2> QED BY <1>6, <2>1, <2>2 DEF WriteStatus
<1>7. CASE CheckRunning
  <2>0. UNCHANGED <<sb, seen>> /\ pc = "running"
    BY <1>7 DEF CheckRunning
  <2>1. CASE pc' = "write"
    <3>1. loc'.phase \in {"Error", loc.phase} /\ UNCHANGED locCurrent
      BY <1>7, <2>1, <1>e, <1>t DEF CheckRunning, Continue, Return, Sandbox
    <3>2. locCurrent => loc.phase = "Running"
      BY <2>0 DEF PhaseInv, Matches, SameStatus, RunningSteps
    <3>3. ~Stopping'
      BY <2>1, <3>1, <3>2 DEF Stopping, RunningSteps
    <3> QED BY <2>0, <2>1, <3>3, <1>a DEF CreatingSteps
  <2>2. CASE pc' # "write"
    <3>1. pc' \in RunningSteps \union {"idle"} /\ (pc' # "idle" => UNCHANGED locCurrent)
      BY <1>7, <2>2 DEF CheckRunning, Continue, Return, RunningSteps
    <3> QED BY <2>0, <2>2, <3>1, <1>r, <1>c DEF StopInv, Stopping, RunningSteps, CreatingSteps
  <2> QED BY <2>1, <2>2
\* stopSandbox terminates the pod the sandbox runs on, which is its own.
<1>8. CASE StopPod
  <2>1. /\ UNCHANGED <<sb, seen, locCurrent>> /\ pc = "stopPod" /\ pc' = "write"
        /\ pods' = Terminated(loc.pod)
    BY <1>8 DEF StopPod, Continue
  <2>2. locCurrent => sb.phase = "Running" /\ loc.pod = sb.pod
    BY <2>1 DEF PhaseInv, Matches, SameStatus, RunningSteps
  <2>3. locCurrent => loc.pod = Own /\ Own # NoPod
    BY <2>2, NamesAssumption DEF OwnershipInv, OwnPod, Names
  <2>4. locCurrent => Released(Own)'
    BY <2>1, <2>3 DEF Terminated, Released, TypeOK, Pod, Names
  <2> QED BY <2>1, <2>4, <1>r, <1>c DEF StopInv, Stopping, RunningSteps, CreatingSteps
<1>9. CASE CallFails
  BY <1>9, <1>u, <1>e DEF CallFails, Continue
<1>10. CASE Users
  <2>1. sb'.phase = "Stopped" => sb.phase = "Stopped"
    BY <1>10, <1>t DEF Users, RequestStop, RequestResume, RequestDelete,
       KubectlAnnotate, Touch, Sandbox
  <2>2. Bump
    BY <1>10 DEF Users, RequestStop, RequestResume, RequestDelete,
       KubectlAnnotate, Touch
  <2> QED BY <2>1, <2>2, <1>a, DeletionForGood DEF Bump, Stopping
<1>11. CASE Cluster
  <2>1. UNCHANGED <<sb, pc, loc, locCurrent>>
    BY <1>11 DEF Cluster, SyncSandbox, SyncPods, Collect, PodReady, PodEnd,
       PodGone, PodVanishes, SetPod, local
  <2>2. Stopping => sb.phase = "Running"
    BY DEF PhaseInv, Matches, LegalWrite, Stopping, RunningSteps
  <2>3. seen' \in {seen, sb}
    BY SeenKeepsUp
  <2> QED BY <2>1, <2>2, <2>3, <1>r, <1>c DEF StopInv, Stopping
<1>12. CASE UNCHANGED vars
  BY <1>12, <1>r DEF vars, StopInv, Stopping, Released
<1> QED
  BY <1>1, <1>2, <1>3, <1>4, <1>5, <1>6, <1>7, <1>8, <1>9, <1>10, <1>11, <1>12
  DEF Next, Reconcile
\* Volumes of the pool go only with the sandbox that took them.
PoolVolumesStay == sb.deleting \/ \A p \in PoolPods : vols[p] # "none"

LEMMA PoolVolumesStep ==
  ASSUME PhaseInv, DeletionInv, PoolVolumesStay, [Next]_vars
  PROVE  PoolVolumesStay'
<1>t. vols \in [Names -> {"none", "free", "owned"}] /\ PoolPods \subseteq Names /\ Own \notin PoolPods
  BY NamesAssumption DEF PhaseInv, TypeOK, Names
<1>d. sb.deleting => sb'.deleting
  BY DeletionForGood
<1>1. CASE sb.deleting
  BY <1>1, <1>d DEF PoolVolumesStay
<1>2. CASE ~sb.deleting /\ ~DeletePvc /\ ~Collect
  <2>1. \A p \in PoolPods : vols'[p] = vols[p] \/ vols'[p] = "owned"
    <3>1. CASE Cluster
      BY <1>2, <3>1 DEF Cluster, SyncSandbox, SyncPods, PodReady, PodEnd, PodGone,
         PodVanishes, SetPod, cluster
    <3>2. CASE Users
      BY <3>2 DEF Users, RequestStop, RequestResume, RequestDelete,
         KubectlAnnotate, Touch, cluster
    <3>3. CASE AdoptPvc \/ EnsurePvc
      BY <3>3, <1>t DEF AdoptPvc, EnsurePvc
    <3>4. CASE (Reconcile \/ CallFails \/ Abort) /\ ~AdoptPvc /\ ~EnsurePvc
      BY <1>2, <3>4 DEF Reconcile, Dispatch, AddFinalizer, EnterCreating,
         ResolveTemplate, Claim, ClaimNothing, Adopt, AdoptRefused,
         IsolateWarm, IsolateCold, GetPod, CreatePod, WriteStatus,
         CheckRunning, ClearStop, StopPod, DeletePod, DeleteNetpol, RemoveFinalizer,
         CallFails, Abort, cluster
    <3>5. CASE UNCHANGED vars
      BY <3>5 DEF vars
    <3> QED BY <3>1, <3>2, <3>3, <3>4, <3>5 DEF Next
  <2> QED BY <1>2, <2>1 DEF PoolVolumesStay
<1>3. DeletePvc \/ Collect => sb.deleting
  BY DEF DeletePvc, Collect, DeletionInv, DeletingSteps
<1> QED BY <1>1, <1>2, <1>3

\* A sandbox that reports Stopped keeps no pod of its own running: stopSandbox
\* deletes the pod before it writes the phase, and no reconcile that read an
\* older phase is left to create another (sandbox_controller.go:408, :494-505).
\* Where a pool had pods to claim, the property says nothing.
THEOREM StopReleasesPods == Spec => []StoppedReleasesPods
<1> DEFINE Inv == /\ PhaseInv /\ DeletionInv /\ OwnershipInv /\ PoolVolumesStay
                  /\ (PoolPods = {} => StopInv)
<1>1. Init => Inv
  <2>1. Init => PoolVolumesStay
    BY NamesAssumption DEF Init, PoolVolumesStay, Names
  <2> QED BY <2>1, PhaseInit, DeletionInit, OwnershipInit, StopInit
<1>2. Inv /\ [Next]_vars => Inv'
  BY PhaseStep, DeletionStep, OwnershipStep, PoolVolumesStep, StopStep
<1>3. Inv => StoppedReleasesPods
  <2>1. CASE PoolPods = {}
    BY <2>1 DEF StopInv, Released, StoppedReleasesPods
  <2>2. CASE PoolPods # {}
    BY <2>2 DEF PoolVolumesStay, StoppedReleasesPods
  <2> QED BY <2>1, <2>2
<1> QED BY <1>1, <1>2, <1>3, PTL DEF Spec

\* Whatever pod the sandbox ran on, its own or one of the pool, the write that
\* stops it comes after the deletion of that pod.
StopFollowsDeletion ==
  pc = "write" /\ locCurrent /\ loc.phase = "Stopped" => Released(sb.pod)

LEMMA StopFollowsDeletionStep ==
  ASSUME PhaseInv, OwnershipInv, StopFollowsDeletion, [Next]_vars
  PROVE  StopFollowsDeletion'
<1> USE DEF StopFollowsDeletion
<1> TypeOK /\ TypeOK'
  BY TypeStep DEF PhaseInv
<1>t. sb \in Sandbox /\ seen \in Sandbox /\ loc \in Sandbox
  BY DEF TypeOK
<1>e. ToError(loc).phase = "Error" /\ Failed(loc, loc.restarts + 1).phase = "Error"
  BY <1>t, ToErrorType, FailedType
<1>1. CASE pc' # "write" \/ ~locCurrent' \/ loc'.phase # "Stopped"
  BY <1>1
<1>2. CASE StopPod
  <2>1. /\ UNCHANGED <<sb, locCurrent>> /\ pc = "stopPod"
        /\ pods' = Terminated(loc.pod)
    BY <1>2 DEF StopPod, Continue
  <2>2. locCurrent => sb.phase = "Running" /\ loc.pod = sb.pod
    BY <2>1 DEF PhaseInv, Matches, SameStatus, RunningSteps
  <2>3. locCurrent => sb.pod \in Names /\ sb.pod # NoPod
    BY <2>2, NamesAssumption DEF OwnershipInv, OwnPod
  <2>4. locCurrent => Released(sb.pod)'
    BY <2>1, <2>2, <2>3 DEF Terminated, Released, TypeOK, Pod
  <2> QED BY <2>1, <2>4
<1>3. CASE UNCHANGED <<sb, pc, loc>> /\ (locCurrent' => locCurrent)
  <2>1. pc = "write" /\ locCurrent => sb.phase = "Running" \/ loc.phase # "Stopped"
    BY DEF PhaseInv, Matches, LegalWrite
  <2>2. pc = "write" /\ locCurrent /\ loc.phase = "Stopped" => sb.pod \in Names
    BY <2>1 DEF OwnershipInv, OwnPod
  <2>3. pc = "write" /\ locCurrent /\ loc.phase = "Stopped" => Released(sb.pod)'
    BY <1>3, <2>2, ReleasedLasts
  <2> QED BY <1>3, <2>3
<1>4. CASE Dispatch
  <2>1. pc' = "write" => loc'.phase = "Creating"
    BY <1>4, <1>t DEF Dispatch, Sandbox
  <2> QED BY <2>1
<1>5. CASE \/ AddFinalizer \/ EnterCreating \/ ClearStop \/ RemoveFinalizer \/ WriteStatus
           \/ ResolveTemplate \/ Claim \/ ClaimNothing \/ Adopt \/ AdoptRefused
           \/ AdoptPvc \/ EnsurePvc \/ IsolateCold \/ DeletePod \/ DeletePvc
           \/ DeleteNetpol \/ Abort
  <2>1. pc' # "write"
    BY <1>5 DEF AddFinalizer, EnterCreating, ClearStop, RemoveFinalizer, WriteStatus,
       ResolveTemplate, Claim, ClaimNothing, Adopt, AdoptRefused,
       AdoptPvc, EnsurePvc, IsolateCold, DeletePod, DeletePvc, DeleteNetpol, Abort,
       Refused, Return, Continue
  <2> QED BY <2>1
<1>6. CASE IsolateWarm \/ CallFails
  <2>1. loc'.phase # "Stopped"
    BY <1>6, <1>t, <1>e DEF IsolateWarm, CallFails, Continue, Sandbox
  <2> QED BY <2>1
<1>7. CASE GetPod \/ CreatePod \/ CheckRunning
  <2>1. CASE Return
    BY <2>1 DEF Return
  <2>2. CASE ~Return
    <3>1. UNCHANGED locCurrent /\ pc \in CreatingSteps \union RunningSteps
      BY <1>7, <2>2 DEF GetPod, CreatePod, CheckRunning, Continue, CreatingSteps, RunningSteps
    <3>2. pc' = "write" => loc'.phase \in {"Running", "Error", loc.phase}
      BY <1>7, <2>2, <1>e, <1>t DEF GetPod, CreatePod, CheckRunning, Continue, Sandbox
    <3>3. locCurrent => loc.phase \in {"Creating", "Running"}
      BY <3>1 DEF PhaseInv, Matches, SameStatus, CreatingSteps, RunningSteps
    <3> QED BY <3>1, <3>2, <3>3
  <2> QED BY <2>1, <2>2
<1>8. CASE Users
  <2>1. ~locCurrent'
    BY <1>8 DEF Users, RequestStop, RequestResume, RequestDelete, KubectlAnnotate,
       Touch, Bump
  <2> QED BY <2>1
<1>9. CASE Cluster \/ UNCHANGED vars
  <2>1. UNCHANGED <<sb, pc, loc, locCurrent>>
    BY <1>9 DEF Cluster, SyncSandbox, SyncPods, Collect, PodReady, PodEnd,
       PodGone, PodVanishes, SetPod, local, vars
  <2> QED BY <2>1, <1>3
<1> QED
  BY <1>2, <1>4, <1>5, <1>6, <1>7, <1>8, <1>9 DEF Next, Reconcile

\* With a pool or without one, a sandbox goes from Running to Stopped only when
\* the pod it ran on is gone or terminating (sandbox_controller.go:494-505).
THEOREM StopReleasesItsPod ==
  Spec => [][sb.phase = "Running" /\ sb'.phase = "Stopped" => Released(sb.pod)]_vars
<1> DEFINE Inv == PhaseInv /\ OwnershipInv /\ StopFollowsDeletion
           Held == sb.phase = "Running" /\ sb'.phase = "Stopped" => Released(sb.pod)
<1>1. Init => Inv
  BY PhaseInit, OwnershipInit DEF Init, StopFollowsDeletion
<1>2. Inv /\ [Next]_vars => Inv'
  BY PhaseStep, OwnershipStep, StopFollowsDeletionStep
<1>3. Inv /\ [Next]_vars => [Held]_vars
  <2> SUFFICES ASSUME Inv, Next, sb.phase = "Running", sb'.phase = "Stopped"
               PROVE  Released(sb.pod)
    OBVIOUS
  <2>t. sb \in Sandbox /\ loc \in Sandbox
    BY DEF PhaseInv, TypeOK
  <2>1. CASE WriteStatus
    BY <2>1 DEF WriteStatus, Store, Refused, StopFollowsDeletion
  <2>2. CASE AddFinalizer \/ EnterCreating \/ ClearStop \/ RemoveFinalizer
    <3>1. locCurrent /\ loc.phase = "Stopped" /\ pc \notin {"idle", "write"}
      BY <2>2, <2>t DEF AddFinalizer, EnterCreating, ClearStop, RemoveFinalizer,
         Store, Refused, Sandbox
    <3> QED BY <3>1 DEF PhaseInv, Matches, SameStatus
  <2>3. CASE Users
    BY <2>3, <2>t DEF Users, RequestStop, RequestResume, RequestDelete,
       KubectlAnnotate, Touch, Sandbox
  <2>4. CASE Cluster
    BY <2>4 DEF Cluster, SyncSandbox, SyncPods, Collect, PodReady, PodEnd,
       PodGone, PodVanishes, SetPod
  <2>5. CASE (Reconcile \/ CallFails \/ Abort) /\ ~WriteStatus /\ ~AddFinalizer
             /\ ~EnterCreating /\ ~ClearStop /\ ~RemoveFinalizer
    BY <2>5 DEF Reconcile, Dispatch, ResolveTemplate, Claim, ClaimNothing, Adopt,
       AdoptRefused, AdoptPvc, IsolateWarm, EnsurePvc, IsolateCold, GetPod, CreatePod,
       CheckRunning, StopPod, DeletePod, DeletePvc, DeleteNetpol, CallFails, Abort
  <2> QED BY <2>1, <2>2, <2>3, <2>4, <2>5 DEF Next
<1> QED BY <1>1, <1>2, <1>3, PTL DEF Spec
-----------------------------------------------------------------------------
(* While no call fails, a stop that was asked for is carried out.          *)

Quiet == faults = MaxFaults

\* What is left of a stop: its annotation, or the reconcile that took it off.
StopPending ==
  /\ sb.phase = "Running"
  /\ sb.action = "stop" \/ (locCurrent /\ (pc = "stopPod" \/ (pc = "write" /\ loc.phase = "Stopped")))

AskInv ==
  /\ locCurrent => loc.action = sb.action
  /\ pc = "write" /\ locCurrent /\ sb.phase = "Running" /\ loc.phase = "Error" =>
       loc.action # "stop"
  /\ hist.asked /\ ~sb.deleting => StopPending

LEMMA NoFaultIsQuiet ==
  ASSUME TypeOK, [Next]_vars, Quiet'
  PROVE  Quiet /\ ~Fault
<1>t. faults \in Nat /\ MaxFaults \in Nat /\ faults <= MaxFaults
  BY BoundsAssumption DEF TypeOK
<1>1. faults' = faults \/ Fault
  <2>1. CASE Cluster
    BY <2>1 DEF Cluster, SyncSandbox, SyncPods, Collect, PodReady, PodEnd, PodGone,
       PodVanishes
  <2>2. CASE Users
    BY <2>2 DEF Users, RequestStop, RequestResume, RequestDelete, KubectlAnnotate, Touch
  <2>3. CASE Reconcile \/ CallFails \/ Abort
    BY <2>3 DEF Reconcile, Dispatch, AddFinalizer, EnterCreating, ResolveTemplate,
       Claim, ClaimNothing, Adopt, AdoptRefused, AdoptPvc, IsolateWarm, EnsurePvc,
       IsolateCold, GetPod, CreatePod, WriteStatus, CheckRunning, ClearStop,
       StopPod, DeletePod, DeletePvc, DeleteNetpol, RemoveFinalizer, CallFails, Abort
  <2>4. CASE UNCHANGED vars
    BY <2>4 DEF vars
  <2> QED BY <2>1, <2>2, <2>3, <2>4 DEF Next
<1>2. ~Fault
  BY <1>t DEF Fault, Quiet
<1> QED BY <1>1, <1>2 DEF Quiet

\* The edits of a copy leave its annotation alone, but for ClearStop's.
LEMMA EditsKeepAction ==
  ASSUME NEW l \in Sandbox
  PROVE  ToError(l).action = l.action /\ Failed(l, l.restarts + 1).action = l.action
  BY DEF ToError, Failed, Sandbox

LEMMA AskStep ==
  ASSUME KubectlActions \subseteq {"stop"}, PhaseInv, DeletionInv, OwnershipInv, AskInv,
         [Next]_vars, ~Fault
  PROVE  AskInv'
<1> TypeOK /\ TypeOK'
  BY TypeStep DEF PhaseInv
<1> USE DEF AskInv
<1>t. sb \in Sandbox /\ seen \in Sandbox /\ loc \in Sandbox
  BY DEF TypeOK
<1>h. hist \in [home : PodOrNone, asked : BOOLEAN]
  BY DEF TypeOK
<1>e. /\ ToError(loc).phase = "Error" /\ Failed(loc, loc.restarts + 1).phase = "Error"
      /\ ToError(loc).action = loc.action
      /\ Failed(loc, loc.restarts + 1).action = loc.action
  BY <1>t, ToErrorType, FailedType, EditsKeepAction
<1>d. sb.deleting => sb'.deleting
  BY DeletionForGood
\* A step of the reconcile in memory that is not yet, and will not be, a stop.
<1>a. ASSUME UNCHANGED <<sb, hist, locCurrent>>, loc'.action = loc.action,
             ~(pc = "stopPod" \/ (pc = "write" /\ loc.phase = "Stopped")) \/ ~locCurrent,
             pc' = "write" /\ locCurrent /\ sb.phase = "Running" /\ loc'.phase = "Error" =>
               loc'.action # "stop"
      PROVE  AskInv'
  BY <1>a DEF StopPending
\* A step of somebody else.
<1>b. ASSUME UNCHANGED <<sb, hist, pc, loc, locCurrent>>
      PROVE  AskInv'
  BY <1>b DEF StopPending
<1>1. CASE Dispatch
  <2>1. /\ UNCHANGED <<sb, hist>> /\ pc = "idle" /\ locCurrent' = seenCurrent
        /\ loc'.action = seen.action
    BY <1>1, <1>t DEF Dispatch, Sandbox
  <2>2. pc' = "write" => loc'.phase = "Creating"
    BY <1>1, <1>t DEF Dispatch, Sandbox
  <2>3. seenCurrent => seen = sb
    BY DEF PhaseInv
  <2> QED BY <2>1, <2>2, <2>3 DEF StopPending
\* A refused write: the copy was old, so the stop was not under way.
<1>r. ASSUME Refused PROVE AskInv'
  BY <1>r DEF Refused, Return, StopPending
<1>2. CASE AddFinalizer
  <2>1. CASE Refused
    BY <2>1, <1>r
  <2>2. CASE ~Refused
    <3>1. /\ locCurrent /\ pc = "finalizer" /\ sb' = [loc EXCEPT !.finalizer = TRUE]
          /\ ~locCurrent' /\ (hist'.asked => hist.asked)
      BY <1>2, <2>2, <1>h DEF AddFinalizer, Store, Return
    <3>2. sb'.phase = sb.phase /\ sb'.deleting = sb.deleting /\ sb'.action = sb.action
      BY <3>1, <1>t DEF PhaseInv, Matches, SameStatus, Sandbox
    <3> QED BY <3>1, <3>2 DEF StopPending
  <2> QED BY <2>1, <2>2
<1>3. CASE EnterCreating
  <2>1. CASE Refused
    BY <2>1, <1>r
  <2>2. CASE ~Refused
    <3>1. /\ locCurrent /\ pc = "init" /\ sb' = [loc EXCEPT !.phase = "Creating"]
          /\ loc' = [loc EXCEPT !.phase = "Creating"] /\ pc' = "resolve"
          /\ (hist'.asked => hist.asked)
      BY <1>3, <2>2, <1>h DEF EnterCreating, Store, Continue
    <3>2. sb.phase = "New" /\ ~sb.deleting
      BY <3>1 DEF PhaseInv, Matches, DeletingSteps
    <3>3. ~hist.asked
      BY <3>2 DEF StopPending
    <3> QED BY <3>1, <3>3
  <2> QED BY <2>1, <2>2
<1>4. CASE \/ ResolveTemplate \/ Claim \/ ClaimNothing \/ Adopt \/ AdoptRefused
           \/ AdoptPvc \/ EnsurePvc \/ IsolateCold \/ DeletePod \/ DeletePvc
           \/ DeleteNetpol
  <2>1. /\ UNCHANGED <<sb, hist, locCurrent>> /\ loc'.action = loc.action
        /\ pc \notin {"stopPod", "write"} /\ pc' # "write"
    BY <1>4, <1>t DEF ResolveTemplate, Claim, ClaimNothing, Adopt, AdoptRefused,
       AdoptPvc, EnsurePvc, IsolateCold, DeletePod, DeletePvc, DeleteNetpol,
       Continue, Sandbox
  <2> QED BY <2>1, <1>a
\* Creating steps work on a sandbox that does not run.
<1>5. CASE IsolateWarm \/ GetPod \/ CreatePod
  <2>1. CASE Return
    <3>1. UNCHANGED <<sb, hist>> /\ pc \in CreatingSteps
      BY <1>5, <2>1 DEF IsolateWarm, GetPod, CreatePod, CreatingSteps
    <3> QED BY <2>1, <3>1 DEF Return, StopPending, CreatingSteps
  <2>2. CASE ~Return
    <3>1. UNCHANGED <<sb, hist, locCurrent>> /\ pc \in CreatingSteps
      BY <1>5, <2>2 DEF IsolateWarm, GetPod, CreatePod, Continue, CreatingSteps
    <3>2. loc'.action = loc.action
      BY <1>5, <2>2, <1>e, <1>t DEF IsolateWarm, GetPod, CreatePod, Continue, Sandbox
    <3>3. locCurrent => sb.phase = "Creating"
      BY <3>1 DEF PhaseInv, Matches
    <3> QED BY <3>1, <3>2, <3>3, <1>a DEF CreatingSteps
  <2> QED BY <2>1, <2>2
<1>6. CASE WriteStatus
  <2>1. CASE Refused
    BY <2>1, <1>r
  <2>2. CASE Store(loc) /\ Return
    <3>1. /\ locCurrent /\ sb' = loc /\ pc = "write" /\ ~locCurrent'
          /\ hist'.asked = (hist.asked /\ loc.phase # "Stopped")
      BY <1>6, <2>2, <1>h DEF WriteStatus, Store, Return
    <3>2. LegalWrite(sb, loc) /\ loc.action = sb.action
      BY <3>1 DEF PhaseInv, Matches
    <3>3. hist'.asked => sb.phase = "Running" /\ sb.action = "stop" /\ loc.phase # "Stopped"
      BY <3>1, <3>2 DEF StopPending, LegalWrite
    <3>4. hist'.asked => loc.phase = "Running"
      BY <3>1, <3>2, <3>3 DEF LegalWrite
    <3> QED BY <3>1, <3>2, <3>3, <3>4 DEF StopPending
  <2> QED BY <1>6, <2>1, <2>2 DEF WriteStatus
\* reconcileRunning looks for the annotation before anything else.
<1>7. CASE CheckRunning
  <2>0. UNCHANGED <<sb, hist>> /\ pc = "running"
    BY <1>7 DEF CheckRunning
  <2>1. CASE Return
    BY <2>0, <2>1 DEF Return, StopPending
  <2>2. CASE ~Return
    <3>1. UNCHANGED locCurrent /\ loc'.action = loc.action
      BY <1>7, <2>2, <1>e, <1>t DEF CheckRunning, Continue, Sandbox
    <3>2. locCurrent => loc.pod # NoPod
      <4>1. locCurrent => sb.phase = "Running" /\ loc.pod = sb.pod
        BY <2>0 DEF PhaseInv, Matches, SameStatus, RunningSteps
      <4> QED BY <4>1, NamesAssumption DEF OwnershipInv, OwnPod
    <3>3. pc' = "write" /\ locCurrent => loc.action # "stop"
      BY <1>7, <2>2, <3>2 DEF CheckRunning, Continue
    <3> QED BY <2>0, <3>1, <3>3, <1>a
  <2> QED BY <2>1, <2>2
<1>8. CASE ClearStop
  <2>1. CASE Refused
    BY <2>1, <1>r
  <2>2. CASE ~Refused
    <3>1. /\ locCurrent /\ pc = "clearStop" /\ sb' = [loc EXCEPT !.action = "none"]
          /\ loc' = [loc EXCEPT !.action = "none"] /\ pc' = "stopPod" /\ locCurrent'
      BY <1>8, <2>2 DEF ClearStop, Store, Continue
    <3>2. sb.phase = "Running" /\ loc.phase = "Running"
      BY <3>1 DEF PhaseInv, Matches, SameStatus, RunningSteps
    <3>3. sb'.phase = "Running"
      BY <3>1, <3>2, <1>t DEF Sandbox
    <3> QED BY <3>1, <3>3 DEF StopPending
  <2> QED BY <2>1, <2>2
<1>9. CASE StopPod
  <2>1. /\ UNCHANGED <<sb, hist, locCurrent>> /\ pc = "stopPod" /\ pc' = "write"
        /\ loc'.action = loc.action /\ loc'.phase = "Stopped"
    BY <1>9, <1>t DEF StopPod, Continue, Sandbox
  <2> QED BY <2>1 DEF StopPending
<1>10. CASE RemoveFinalizer
  <2>1. CASE Refused
    BY <2>1, <1>r
  <2>2. CASE ~Refused
    <3>1. locCurrent /\ pc = "unfinalize" /\ ~locCurrent'
      BY <1>10, <2>2 DEF RemoveFinalizer, Store, Return
    <3>2. sb.deleting
      BY <3>1 DEF PhaseInv, Matches, DeletingSteps
    <3> QED BY <3>1, <3>2, <1>d
  <2> QED BY <2>1, <2>2
<1>11. CASE RequestStop
  <2>1. sb'.phase = "Running" /\ sb'.action = "stop" /\ ~locCurrent'
    BY <1>11, <1>t DEF RequestStop, Bump, Sandbox
  <2> QED BY <2>1 DEF StopPending
<1>12. CASE RequestResume
  BY <1>12, <1>h DEF RequestResume, Bump
<1>13. CASE RequestDelete
  <2>1. sb'.deleting /\ ~locCurrent'
    BY <1>13, <1>t DEF RequestDelete, Bump, Sandbox
  <2> QED BY <2>1
<1>14. CASE KubectlAnnotate
  <2>1. sb'.action = "stop" /\ sb'.phase = sb.phase /\ sb'.deleting = sb.deleting
    BY <1>14, <1>t DEF KubectlAnnotate, Sandbox
  <2> QED BY <1>14, <2>1 DEF KubectlAnnotate, Bump, StopPending
<1>15. CASE Cluster
  <2>1. UNCHANGED <<sb, hist, pc, loc, locCurrent>>
    BY <1>15 DEF Cluster, SyncSandbox, SyncPods, Collect, PodReady, PodEnd,
       PodGone, PodVanishes, SetPod, local
  <2> QED BY <2>1, <1>b
<1>16. CASE UNCHANGED vars
  BY <1>16, <1>b DEF vars
<1>17. CASE Touch \/ CallFails \/ Abort
  BY <1>17 DEF Touch, CallFails, Abort
<1> QED
  BY <1>1, <1>2, <1>3, <1>4, <1>5, <1>6, <1>7, <1>8, <1>9, <1>10, <1>11, <1>12,
     <1>13, <1>14, <1>15, <1>16, <1>17 DEF Next, Reconcile, Users

\* As long as no call has failed, and if nobody overwrites the annotation with
\* "resume" by hand, a stop asked for through the Router is not followed by an
\* automatic restart: reconcileRunning looks for the annotation before the pod
\* and both timeouts (sandbox_controller.go:478-505).
THEOREM StopsAreFinal ==
  ASSUME KubectlActions \subseteq {"stop"}
  PROVE  Spec => QuietStopIsFinal
<1> DEFINE Inv == PhaseInv /\ DeletionInv /\ OwnershipInv /\ (Quiet => AskInv)
           Final == Quiet /\ hist.asked /\ hist'.asked /\ sb.phase = "Error" => sb'.phase # "Creating"
<1>1. Init => Inv
  <2>1. Init => AskInv
    BY DEF Init, AskInv, NewSandbox
  <2> QED BY <2>1, PhaseInit, DeletionInit, OwnershipInit
<1>2. Inv /\ [Next]_vars => Inv'
  <2> SUFFICES ASSUME Inv, [Next]_vars PROVE Inv'
    OBVIOUS
  <2>1. TypeOK
    BY DEF PhaseInv
  <2>2. Quiet' => AskInv'
    BY <2>1, NoFaultIsQuiet, AskStep
  <2> QED BY <2>2, PhaseStep, DeletionStep, OwnershipStep
<1>3. Inv /\ [Next]_vars => [Final]_vars
  <2> SUFFICES ASSUME Inv, [Next]_vars, Quiet, hist.asked, sb.phase = "Error", sb'.phase = "Creating"
               PROVE  ~hist'.asked
    BY DEF Quiet
  <2>1. sb.deleting
    BY DEF AskInv, StopPending
  <2>t. sb \in Sandbox /\ loc \in Sandbox /\ hist \in [home : PodOrNone, asked : BOOLEAN]
    BY DEF PhaseInv, TypeOK
  <2>2. locCurrent /\ pc # "idle" => pc \in DeletingSteps
    BY <2>1 DEF PhaseInv, Matches
  <2>3. CASE WriteStatus \/ AddFinalizer \/ EnterCreating \/ ClearStop \/ RemoveFinalizer
    BY <2>2, <2>3, <2>t DEF WriteStatus, AddFinalizer, EnterCreating, ClearStop,
       RemoveFinalizer, Store, Refused, DeletingSteps, Sandbox
  <2>4. CASE Users
    BY <2>4, <2>t DEF Users, RequestStop, RequestResume, RequestDelete,
       KubectlAnnotate, Touch, Sandbox
  <2>5. CASE Cluster \/ UNCHANGED vars
    BY <2>5 DEF Cluster, SyncSandbox, SyncPods, Collect, PodReady, PodEnd,
       PodGone, PodVanishes, SetPod, vars
  <2>6. CASE (Reconcile \/ CallFails \/ Abort) /\ ~WriteStatus /\ ~AddFinalizer
             /\ ~EnterCreating /\ ~ClearStop /\ ~RemoveFinalizer
    BY <2>6 DEF Reconcile, Dispatch, ResolveTemplate, Claim, ClaimNothing, Adopt,
       AdoptRefused, AdoptPvc, IsolateWarm, EnsurePvc, IsolateCold, GetPod, CreatePod,
       CheckRunning, StopPod, DeletePod, DeletePvc, DeleteNetpol, CallFails, Abort
  <2> QED BY <2>3, <2>4, <2>5, <2>6 DEF Next
<1>4. [][Final]_vars <=> QuietStopIsFinal
  BY PTL DEF QuietStopIsFinal, Quiet
<1> QED BY <1>1, <1>2, <1>3, <1>4, PTL DEF Spec

-----------------------------------------------------------------------------
(* The timers.                                                             *)

-----------------------------------------------------------------------------
(* The operators of the clock.                                              *)

\* The least of two and of three times is one of them and bounds each.
LEMMA MinOfTwo ==
  ASSUME NEW a \in Nat, NEW b \in Nat
  PROVE  /\ Min({a, b}) \in {a, b}
         /\ Min({a, b}) <= a /\ Min({a, b}) <= b
<1>1. \E x \in {a, b} : \A y \in {a, b} : x =< y
  OBVIOUS
<1> QED BY <1>1 DEF Min

LEMMA MaxOfTwo ==
  ASSUME NEW a \in Nat, NEW b \in Nat
  PROVE  /\ Max({a, b}) \in {a, b}
         /\ a <= Max({a, b}) /\ b <= Max({a, b})
<1>1. \E x \in {a, b} : \A y \in {a, b} : x >= y
  OBVIOUS
<1> QED BY <1>1 DEF Max

LEMMA MinOfThree ==
  ASSUME NEW a \in Nat, NEW b \in Nat, NEW c \in Nat
  PROVE  /\ Min({a, b, c}) \in {a, b, c}
         /\ Min({a, b, c}) <= a /\ Min({a, b, c}) <= b /\ Min({a, b, c}) <= c
<1>1. \E x \in {a, b, c} : \A y \in {a, b, c} : x =< y
  OBVIOUS
<1> QED BY <1>1 DEF Min

LEMMA BackoffDelayType == \A n \in Nat : BackoffDelay(n) \in Nat
<1>1. 2^0 \in Nat /\ 2^1 \in Nat /\ 2^2 \in Nat /\ 2^3 \in Nat
  OBVIOUS
<1>2. \A n \in Nat : n < 4 => n = 0 \/ n = 1 \/ n = 2 \/ n = 3
  OBVIOUS
<1> QED BY <1>1, <1>2 DEF BackoffDelay

\* The next check of a running sandbox comes within a poll, and no later than
\* a tick after either deadline that is still ahead.
LEMMA NextCheckInTime ==
  ASSUME TimersTypeOK, status.phase = "Running", ~Idle, ~Expired
  PROVE  /\ NextCheck \in Nat /\ NextCheck <= PollDelay
         /\ maxRuntime > 0 => clock + NextCheck <= status.started + maxRuntime + 1
         /\ idleTimeout > 0 => clock + NextCheck <= status.active + idleTimeout + 1
<1> DEFINE idle == status.active + idleTimeout - clock
           runs == status.started + maxRuntime - clock
           \* A deadline that does not count is as good as the poll.
           a == IF idleTimeout > 0 /\ idle < PollDelay THEN idle + 1 ELSE PollDelay
           b == IF maxRuntime > 0 /\ runs < PollDelay THEN runs + 1 ELSE PollDelay
<1>1. /\ clock \in Nat /\ PollDelay \in Nat /\ idleTimeout \in Nat /\ maxRuntime \in Nat
      /\ status.started \in Nat /\ status.active \in Nat
  BY TimersAssumption DEF TimersTypeOK, Ticks
<1>2. /\ idle \in Int /\ (idleTimeout > 0 => idle > 0)
      /\ runs \in Int /\ (maxRuntime > 0 => runs > 0)
  BY <1>1 DEF Idle, Expired
<1>3. /\ Remaining(idleTimeout, status.active) = IF idleTimeout > 0 THEN {idle} ELSE {}
      /\ Remaining(maxRuntime, status.started) = IF maxRuntime > 0 THEN {runs} ELSE {}
  BY <1>1 DEF Remaining, Idle, Expired
<1>4. NextCheck = Min({PollDelay, a, b})
  <2> DEFINE due == Remaining(idleTimeout, status.active) \union Remaining(maxRuntime, status.started)
  <2> HIDE DEF idle, runs
  <2>1. {n + 1 : n \in {r \in due : r < PollDelay}}
          = (IF idleTimeout > 0 /\ idle < PollDelay THEN {idle + 1} ELSE {})
            \union (IF maxRuntime > 0 /\ runs < PollDelay THEN {runs + 1} ELSE {})
    BY <1>1, <1>2, <1>3
  <2>2. {PollDelay} \union {n + 1 : n \in {r \in due : r < PollDelay}} = {PollDelay, a, b}
    BY <2>1
  <2> QED BY <2>2 DEF NextCheck
<1>5. a \in Nat /\ b \in Nat
  BY <1>1, <1>2
<1>6. /\ NextCheck \in Nat
      /\ NextCheck <= PollDelay /\ NextCheck <= a /\ NextCheck <= b
  <2> HIDE DEF a, b
  <2> QED BY <1>1, <1>4, <1>5, MinOfThree
<1>7. /\ maxRuntime > 0 => clock + b <= status.started + maxRuntime + 1
      /\ idleTimeout > 0 => clock + a <= status.active + idleTimeout + 1
  BY <1>1, <1>2
<1> HIDE DEF a, b
<1> QED BY <1>1, <1>5, <1>6, <1>7

-----------------------------------------------------------------------------
(* The inductive invariant.                                                 *)

\* A restart is announced only while the sandbox is in Error.
RetryMeansError == status.retry => status.phase = "Error"

\* Whoever runs unqueued has a requeue pending for either deadline.
WakesForDeadlines ==
  status.phase = "Running" /\ ~dirty =>
    /\ maxRuntime > 0 => wake <= status.started + maxRuntime + 1
    /\ idleTimeout > 0 => wake <= status.active + idleTimeout + 1

\* The pod of a run that still owes restarts has not been seen stable: the
\* window has passed, or the pod become ready, no longer than a poll ago, and
\* the requeue that will see it is pending.
LastStable == Max({readySince, status.started + StableWindow})
WakesForStability ==
  status.phase = "Running" /\ runPod = "ready" /\ status.restarts > 0 =>
    /\ clock <= LastStable + PollDelay
    /\ ~dirty => wake <= LastStable + PollDelay

TimersInv ==
  /\ TimersTypeOK
  /\ RetryMeansError
  /\ WakesForDeadlines
  /\ BudgetCountsFlaps /\ WakesForStability

-----------------------------------------------------------------------------
(* Every step keeps the types.                                              *)

\* The requeues: whatever is pending stays a time, and the new one bounds it.
LEMMA RequeueType ==
  ASSUME TimersTypeOK
  PROVE  /\ Pending \in Nat
         /\ Wrote => wake' \in Nat /\ dirty' = TRUE
         /\ \A n \in Nat : After(n) => wake' \in Nat /\ wake' <= clock + n /\ dirty' = FALSE
<1>1. clock \in Nat /\ wake \in Nat /\ Never \in Nat
  BY TimersAssumption DEF TimersTypeOK, Ticks, Never
<1>2. Pending \in Nat
  BY <1>1 DEF Pending
<1>3. ASSUME NEW n \in Nat, After(n) PROVE wake' \in Nat /\ wake' <= clock + n /\ dirty' = FALSE
  <2>1. clock + n \in Nat
    BY <1>1
  <2> QED BY <1>2, <1>3, <2>1, MinOfTwo DEF After
<1> QED BY <1>2, <1>3 DEF Wrote

LEMMA InitTypes == TimersInit => TimersInv
<1> SUFFICES ASSUME TimersInit PROVE TimersInv
  OBVIOUS
<1>1. TimersTypeOK
  <2>1. 0 \in Ticks /\ 0 \in 0..RestartLimit /\ Never \in Nat
    BY TimersAssumption DEF Ticks, Never
  <2> QED BY <2>1 DEF TimersInit, TimersTypeOK
<1> QED BY <1>1, TimersAssumption
    DEF TimersInit, TimersInv, RetryMeansError, WakesForDeadlines, BudgetCountsFlaps, WakesForStability

StatusTypeOK ==
  status \in [phase : {"New", "Creating", "Running", "Stopped", "Error"}, restarts : 0..RestartLimit,
              retry : BOOLEAN, started : Ticks \union {NoTime}, active : Ticks \union {NoTime}]

\* The loss of a pod within the budget, and the one that spends it.
LEMMA LoseStatus ==
  ASSUME TimersTypeOK, Lose
  PROVE  /\ status'.phase = "Error" /\ status'.started = status.started /\ status'.active = status.active
         /\ \/ /\ status.restarts + 1 >= RestartLimit
               /\ status'.restarts = RestartLimit /\ status'.retry = status.retry
            \/ /\ status.restarts + 1 < RestartLimit
               /\ status'.restarts = status.restarts + 1 /\ status'.retry = TRUE
         /\ StatusTypeOK'
         /\ status'.restarts <= status.restarts + 1
         /\ flaps' \in 0..RestartLimit
         /\ status.restarts <= flaps => status'.restarts <= flaps'
<1>1. /\ RestartLimit \in Nat /\ flaps \in 0..RestartLimit /\ status.restarts \in 0..RestartLimit
      /\ status.phase = "Running"
  BY TimersAssumption DEF TimersTypeOK, Lose, Phase
<1>2. /\ flaps' \in 0..RestartLimit
      /\ flaps' = flaps + 1 \/ flaps' = RestartLimit
  <2>1. flaps + 1 \in Nat
    BY <1>1
  <2>2. flaps' = Min({RestartLimit, flaps + 1})
    BY DEF Lose
  <2> QED BY <1>1, <2>1, <2>2, MinOfTwo
<1>3. CASE status.restarts + 1 >= RestartLimit
  <2>1. status' = [status EXCEPT !.phase = "Error", !.restarts = RestartLimit]
    BY <1>3 DEF Lose, Exhausted
  <2>2. RestartLimit \in 0..RestartLimit /\ RestartLimit <= status.restarts + 1
    BY <1>1, <1>3
  <2>3. /\ status'.phase = "Error" /\ status'.restarts = RestartLimit
        /\ status'.retry = status.retry /\ status'.started = status.started /\ status'.active = status.active
        /\ StatusTypeOK'
    BY <2>1, <2>2 DEF TimersTypeOK, StatusTypeOK
  <2>4. status.restarts <= flaps => RestartLimit <= flaps'
    BY <1>1, <1>2, <2>2
  <2> QED BY <1>2, <1>3, <2>2, <2>3, <2>4
<1>4. CASE ~(status.restarts + 1 >= RestartLimit)
  <2>1. status' = [status EXCEPT !.phase = "Error", !.restarts = status.restarts + 1, !.retry = TRUE]
    BY <1>4 DEF Lose, Exhausted
  <2>2. status.restarts + 1 \in 0..RestartLimit /\ status.restarts + 1 < RestartLimit
    BY <1>1, <1>4
  <2>3. /\ status'.phase = "Error" /\ status'.restarts = status.restarts + 1
        /\ status'.retry = TRUE /\ status'.started = status.started /\ status'.active = status.active
        /\ StatusTypeOK'
    BY <2>1, <2>2 DEF TimersTypeOK, StatusTypeOK
  <2>4. status.restarts <= flaps => status.restarts + 1 <= flaps'
    BY <1>1, <1>2, <2>2
  <2> QED BY <1>1, <1>2, <2>2, <2>3, <2>4
<1> QED BY <1>3, <1>4

\* The end of the wait before a restart.
LEMMA RecoverStatus ==
  ASSUME TimersTypeOK, Recover
  PROVE  /\ UNCHANGED <<clock, idleTimeout, maxRuntime, stopAsked, runPod, readySince, flaps>>
         /\ status.phase = "Error" /\ status.retry /\ status.restarts < RestartLimit
         /\ \/ status' = status
            \/ status'.phase = "Creating" /\ status'.retry = FALSE /\ status'.restarts = status.restarts
<1>1. status.restarts \in Nat /\ RestartLimit \in Nat
  BY TimersAssumption DEF TimersTypeOK
<1>2. status.restarts < RestartLimit
  BY <1>1 DEF Recover, Exhausted
<1>3. \/ status' = status
      \/ status' = [status EXCEPT !.phase = "Creating", !.retry = FALSE]
  BY DEF Recover
<1>4. status' = status \/ (status'.phase = "Creating" /\ status'.retry = FALSE /\ status'.restarts = status.restarts)
  BY <1>3 DEF TimersTypeOK
<1> QED BY <1>2, <1>4 DEF Recover, Phase

LEMMA TypeOKStep == TimersTypeOK /\ [TimersNext]_timersVars => TimersTypeOK'
<1> SUFFICES ASSUME TimersTypeOK, [TimersNext]_timersVars PROVE TimersTypeOK'
  OBVIOUS
<1> USE TimersAssumption, RequeueType
<1>1. /\ clock \in Ticks /\ clock \in Nat /\ clock # NoTime /\ 1 \in Nat
      /\ 0 \in 0..RestartLimit
  BY DEF TimersTypeOK, Ticks
<1>2. CASE Initialize
  BY <1>1, <1>2 DEF Initialize, TimersTypeOK, Phase
<1>3. CASE EnsurePod
  BY <1>1, <1>3 DEF EnsurePod, TimersTypeOK, Phase
<1>4. CASE Run
  BY <1>1, <1>4 DEF Run, TimersTypeOK, Phase
<1>5. CASE Lose
  <2>1. wake' \in Nat /\ dirty' = TRUE
    BY <1>5 DEF Lose
  <2> QED BY <1>1, <1>5, <2>1, LoseStatus DEF Lose, TimersTypeOK, StatusTypeOK, Phase
<1>6. CASE ResetRestarts
  BY <1>1, <1>6 DEF ResetRestarts, TimersTypeOK, Watched, Phase
<1>7. CASE StopRun
  BY <1>1, <1>7 DEF StopRun, TimersTypeOK, Watched, Phase
<1>8. CASE Watch
  <2>1. NextCheck \in Nat
    BY <1>8, NextCheckInTime DEF Watch, Watched, Phase
  <2> QED BY <1>1, <1>8, <2>1 DEF Watch, TimersTypeOK, Watched, Phase
<1>9. CASE Recover
  <2>1. Phase("Error") /\ UNCHANGED <<stopAsked, runPod, readySince, flaps>>
    BY <1>9 DEF Recover
  <2>2. CASE clock < Backoff /\ After(Backoff - clock) /\ UNCHANGED status
    <3>1. Backoff \in Nat
      BY <2>1, BackoffDelayType DEF Backoff, TimersTypeOK, Phase, Ticks
    <3>2. Backoff - clock \in Nat
      BY <1>1, <2>2, <3>1
    <3> QED BY <1>1, <2>1, <2>2, <3>2 DEF TimersTypeOK, Phase
  <2>3. CASE Wrote /\ status' = [status EXCEPT !.phase = "Creating", !.retry = FALSE]
    BY <1>1, <2>1, <2>3 DEF TimersTypeOK, Phase
  <2> QED BY <1>9, <2>2, <2>3 DEF Recover
<1>10. CASE Rest
  BY <1>1, <1>10 DEF Rest, TimersTypeOK, Phase
<1>11. CASE ControllerRestarts
  BY <1>1, <1>11 DEF ControllerRestarts, TimersTypeOK, userVars, Never
<1>12. CASE PodMoves
  BY <1>1, <1>12 DEF PodMoves, TimersTypeOK, userVars
<1>13. CASE TickClock
  BY <1>1, <1>13 DEF TickClock, TimersTypeOK, userVars, Ticks
<1>14. CASE AskStop
  BY <1>1, <1>14 DEF AskStop, TimersTypeOK
<1>15. CASE AskResume
  BY <1>1, <1>15 DEF AskResume, TimersTypeOK, userVars
<1>16. CASE PatchIdleTimeout
  BY <1>1, <1>16 DEF PatchIdleTimeout, TimersTypeOK
<1>17. CASE UNCHANGED timersVars
  BY <1>17 DEF timersVars, TimersTypeOK
<1> QED BY <1>2, <1>3, <1>4, <1>5, <1>6, <1>7, <1>8, <1>9, <1>10, <1>11, <1>12, <1>13,
           <1>14, <1>15, <1>16, <1>17 DEF TimersNext

-----------------------------------------------------------------------------
(* Every step keeps the invariant.                                          *)

\* What the actions have in common: most of them queue the sandbox, end the
\* run, or leave what a requeue is for alone.
LEMMA RetryStep ==
  TimersTypeOK /\ RetryMeansError /\ [TimersNext]_timersVars => RetryMeansError'
<1> SUFFICES ASSUME TimersTypeOK, RetryMeansError, [TimersNext]_timersVars PROVE RetryMeansError'
  OBVIOUS
<1> USE DEF RetryMeansError
<1>1. CASE Lose
  BY <1>1, LoseStatus
<1>2. CASE Initialize \/ Run \/ ResetRestarts \/ StopRun \/ AskResume
  BY <1>2 DEF TimersTypeOK, Initialize, Run, ResetRestarts, StopRun, AskResume, Watched, Phase
<1>3. CASE Recover
  BY <1>3, RecoverStatus
<1>4. CASE \/ EnsurePod \/ Watch \/ Rest \/ ControllerRestarts \/ PodMoves \/ TickClock
           \/ AskStop \/ PatchIdleTimeout \/ UNCHANGED timersVars
  BY <1>4 DEF EnsurePod, Watch, Rest, ControllerRestarts, PodMoves, TickClock, AskStop,
              PatchIdleTimeout, timersVars
<1> QED BY <1>1, <1>2, <1>3, <1>4 DEF TimersNext

LEMMA DeadlinesStep ==
  TimersTypeOK /\ WakesForDeadlines /\ [TimersNext]_timersVars => WakesForDeadlines'
<1> SUFFICES ASSUME TimersTypeOK, WakesForDeadlines, [TimersNext]_timersVars PROVE WakesForDeadlines'
  OBVIOUS
<1>0. TimersTypeOK'
  BY TypeOKStep
<1> SUFFICES ASSUME status'.phase = "Running", dirty' = FALSE
             PROVE  /\ maxRuntime' > 0 => wake' <= status'.started + maxRuntime' + 1
                    /\ idleTimeout' > 0 => wake' <= status'.active + idleTimeout' + 1
  BY <1>0 DEF WakesForDeadlines, TimersTypeOK
\* These put the sandbox in the queue.
<1>1. CASE \/ Initialize \/ Run \/ ResetRestarts \/ StopRun \/ ControllerRestarts \/ PodMoves
           \/ AskStop \/ AskResume \/ PatchIdleTimeout
  BY <1>1 DEF Initialize, Run, ResetRestarts, StopRun, ControllerRestarts, PodMoves, AskStop,
              AskResume, PatchIdleTimeout, Wrote
\* These are not for a run.
<1>2. CASE EnsurePod \/ Rest
  BY <1>2 DEF EnsurePod, Rest, Phase
<1>3. CASE Lose
  BY <1>3, LoseStatus
<1>4. CASE Recover
  BY <1>4, RecoverStatus
<1>5. CASE Watch
  <2>1. /\ status.phase = "Running" /\ After(NextCheck)
        /\ UNCHANGED <<clock, idleTimeout, maxRuntime, status>>
    BY <1>5 DEF Watch, Watched, Phase
  <2>2. /\ NextCheck \in Nat
        /\ maxRuntime > 0 => clock + NextCheck <= status.started + maxRuntime + 1
        /\ idleTimeout > 0 => clock + NextCheck <= status.active + idleTimeout + 1
    BY <1>5, <2>1, NextCheckInTime DEF Watch
  <2>3. wake' \in Nat /\ wake' <= clock + NextCheck
    BY <2>1, <2>2, RequeueType
  <2>4. /\ clock \in Nat /\ maxRuntime \in Nat /\ idleTimeout \in Nat
        /\ status.started \in Nat /\ status.active \in Nat
    BY <2>1, TimersAssumption DEF TimersTypeOK, Ticks
  <2> QED BY <2>1, <2>2, <2>3, <2>4
<1>6. CASE TickClock \/ UNCHANGED timersVars
  BY <1>6 DEF WakesForDeadlines, TickClock, userVars, timersVars
<1> QED BY <1>1, <1>2, <1>3, <1>4, <1>5, <1>6 DEF TimersNext

LEMMA LastStableType ==
  ASSUME TimersTypeOK, status.phase = "Running"
  PROVE  /\ LastStable \in Nat
         /\ readySince <= LastStable /\ status.started + StableWindow <= LastStable
<1>1. readySince \in Nat /\ status.started + StableWindow \in Nat
  BY TimersAssumption DEF TimersTypeOK, Ticks
<1> QED BY <1>1, MaxOfTwo DEF LastStable

\* The history variable: a run that owes restarts was not seen stable.
LEMMA OwingIsUnseen ==
  ASSUME TimersTypeOK, WakesForStability, SeenStable
  PROVE  status.restarts = 0
<1>1. clock > LastStable + PollDelay
  BY DEF SeenStable, LastStable
<1>2. clock \in Nat /\ PollDelay \in Nat /\ LastStable \in Nat /\ status.restarts \in Nat
  BY TimersAssumption, LastStableType DEF TimersTypeOK, Ticks, SeenStable
<1> QED BY <1>1, <1>2 DEF WakesForStability, SeenStable

LEMMA BudgetStep ==
  TimersTypeOK /\ BudgetCountsFlaps /\ WakesForStability /\ [TimersNext]_timersVars => BudgetCountsFlaps'
<1> SUFFICES ASSUME TimersTypeOK, BudgetCountsFlaps, WakesForStability, [TimersNext]_timersVars
             PROVE  status'.restarts <= flaps'
  BY DEF BudgetCountsFlaps
<1>0. status.restarts <= flaps /\ flaps \in Nat
  BY DEF BudgetCountsFlaps, TimersTypeOK
<1>1. CASE Lose
  BY <1>0, <1>1, LoseStatus
<1>2. CASE ResetRestarts
  BY <1>0, <1>2 DEF ResetRestarts, TimersTypeOK
<1>3. CASE Initialize \/ Run \/ StopRun \/ AskResume \/ Recover
  <2>1. status'.restarts = status.restarts /\ flaps' = flaps
    BY <1>3 DEF TimersTypeOK, Initialize, Run, StopRun, AskResume, Recover
  <2> QED BY <1>0, <2>1
<1>4. CASE PodMoves
  <2>1. status' = status /\ flaps' = IF SeenStable THEN 0 ELSE flaps
    BY <1>4 DEF PodMoves
  <2>2. CASE SeenStable
    BY <2>1, <2>2, OwingIsUnseen
  <2>3. CASE ~SeenStable
    BY <1>0, <2>1, <2>3
  <2> QED BY <2>2, <2>3
<1>5. CASE \/ EnsurePod \/ Watch \/ Rest \/ ControllerRestarts \/ TickClock
           \/ AskStop \/ PatchIdleTimeout \/ UNCHANGED timersVars
  BY <1>0, <1>5 DEF EnsurePod, Watch, Rest, ControllerRestarts, TickClock, AskStop, PatchIdleTimeout, timersVars
<1> QED BY <1>1, <1>2, <1>3, <1>4, <1>5 DEF TimersNext

LEMMA StabilityStep ==
  TimersTypeOK /\ WakesForStability /\ [TimersNext]_timersVars => WakesForStability'
<1> SUFFICES ASSUME TimersTypeOK, WakesForStability, [TimersNext]_timersVars PROVE WakesForStability'
  OBVIOUS
<1>0. TimersTypeOK'
  BY TypeOKStep
<1>p. PollDelay \in Nat /\ StableWindow \in Nat
  BY TimersAssumption
<1> SUFFICES ASSUME status'.phase = "Running", runPod' = "ready", status'.restarts > 0
             PROVE  \E last \in Nat :
                      /\ last = LastStable' /\ clock' <= last + PollDelay
                      /\ dirty' = FALSE => wake' <= last + PollDelay
  BY <1>0 DEF WakesForStability, TimersTypeOK
<1>1. PICK last \in Nat : last = LastStable' /\ readySince' <= last /\ status'.started + StableWindow <= last
  <2>1. readySince' \in Nat /\ status'.started + StableWindow \in Nat
    BY <1>0, <1>p DEF TimersTypeOK, Ticks
  <2> QED BY <2>1, MaxOfTwo DEF LastStable
<1> SUFFICES clock' <= last + PollDelay /\ (dirty' = FALSE => wake' <= last + PollDelay)
  BY <1>1
<1>2. clock \in Nat /\ clock' \in Nat /\ wake \in Nat /\ wake' \in Nat
  BY <1>0 DEF TimersTypeOK, Ticks
\* A run starts now, a pod becomes ready now: the window ends after the clock.
<1>3. CASE Run
  <2>1. clock' = clock /\ status'.started = clock /\ dirty' = TRUE
    BY <1>3 DEF Run, Phase, Wrote, TimersTypeOK
  <2>2. clock <= last
    BY <1>0, <1>p, <1>1, <1>2, <2>1
  <2>3. clock' <= last + PollDelay
    BY <1>p, <1>2, <2>1, <2>2
  <2> QED BY <2>1, <2>3
<1>4. CASE PodMoves
  <2>1. clock' = clock /\ dirty' = TRUE /\ readySince' = clock
    BY <1>4 DEF PodMoves
  <2>2. clock <= last
    BY <1>1, <2>1
  <2>3. clock' <= last + PollDelay
    BY <1>p, <1>2, <2>1, <2>2
  <2> QED BY <2>1, <2>3
\* A run that is not stable yet is seen again within a poll.
<1>5. CASE Watch
  <2>1. /\ status.phase = "Running" /\ After(NextCheck) /\ ~Stable /\ ~Idle /\ ~Expired
        /\ UNCHANGED <<clock, status, runPod, readySince>>
    BY <1>5 DEF Watch, Watched, Phase
  <2>2. NextCheck \in Nat /\ NextCheck <= PollDelay
    BY <2>1, NextCheckInTime
  <2>3. wake' <= clock + NextCheck
    BY <2>1, <2>2, RequeueType
  <2>4. status.started + StableWindow \in Nat /\ clock < status.started + StableWindow
    BY <1>0, <1>p, <1>2, <2>1 DEF Stable, TimersTypeOK, Ticks
  <2>5. status.started + StableWindow <= last
    BY <1>1, <2>1
  <2>6. clock <= last
    BY <1>2, <2>4, <2>5
  <2>7. clock' <= last + PollDelay /\ wake' <= last + PollDelay
    BY <1>p, <1>2, <2>1, <2>2, <2>3, <2>6
  <2> QED BY <2>7
\* The clock waits for the requeue.
<1>6. CASE TickClock
  <2>1. /\ UNCHANGED <<status, runPod, dirty, wake, readySince>>
        /\ dirty = FALSE /\ clock < wake /\ clock' = clock + 1
    BY <1>2, <1>6 DEF TickClock, Queued, TimersTypeOK
  <2>2. last = LastStable
    BY <1>1, <2>1 DEF LastStable
  <2>3. wake <= LastStable + PollDelay
    BY <2>1 DEF WakesForStability
  <2> QED BY <1>0, <1>p, <1>1, <1>2, <2>1, <2>2, <2>3
<1>7. CASE ControllerRestarts \/ AskStop \/ PatchIdleTimeout \/ UNCHANGED timersVars
  <2>1. /\ UNCHANGED <<status, runPod, clock, readySince>>
        /\ dirty' = TRUE \/ UNCHANGED <<dirty, wake>>
    BY <1>7 DEF ControllerRestarts, AskStop, PatchIdleTimeout, timersVars
  <2>2. last = LastStable
    BY <1>1, <2>1 DEF LastStable
  <2> QED BY <2>1, <2>2 DEF WakesForStability
\* These do not leave a run that owes restarts.
<1>8. CASE Initialize \/ StopRun \/ AskResume
  BY <1>8 DEF Initialize, StopRun, AskResume, TimersTypeOK
<1>9. CASE ResetRestarts
  BY <1>9 DEF ResetRestarts, TimersTypeOK
<1>10. CASE EnsurePod \/ Rest
  BY <1>10 DEF EnsurePod, Rest, Phase
<1>11. CASE Lose \/ Recover
  BY <1>11, LoseStatus, RecoverStatus
<1> QED BY <1>3, <1>4, <1>5, <1>6, <1>7, <1>8, <1>9, <1>10, <1>11 DEF TimersNext

LEMMA TimersInvStep == TimersInv /\ [TimersNext]_timersVars => TimersInv'
BY TypeOKStep, RetryStep, DeadlinesStep, BudgetStep, StabilityStep DEF TimersInv

LEMMA TimersInvHolds == TimersSpec => []TimersInv
BY InitTypes, TimersInvStep, PTL DEF TimersSpec

-----------------------------------------------------------------------------
(* Results.                                                                 *)

\* Whatever the poll delay and the timeouts: a run goes on for no more than the
\* second added to the requeue beyond either timeout, a shorter one set
\* meanwhile and a new controller included (sandbox_controller.go:553-566).
THEOREM RunsStopOnTime == TimersSpec => []StopsOnTime
<1>1. ASSUME TimersInv PROVE StopsOnTime
  <2> SUFFICES ASSUME status.phase = "Running", ~Queued
               PROVE  /\ maxRuntime > 0 => clock <= status.started + maxRuntime
                      /\ idleTimeout > 0 => clock <= status.active + idleTimeout
    BY DEF StopsOnTime
  <2>1. /\ clock \in Nat /\ wake \in Nat /\ maxRuntime \in Nat /\ idleTimeout \in Nat
        /\ status.started \in Nat /\ status.active \in Nat
    BY <1>1, TimersAssumption DEF TimersInv, TimersTypeOK, Ticks
  <2>2. clock < wake
    BY <2>1 DEF Queued
  <2>3. /\ maxRuntime > 0 => wake <= status.started + maxRuntime + 1
        /\ idleTimeout > 0 => wake <= status.active + idleTimeout + 1
    BY <1>1 DEF TimersInv, WakesForDeadlines, Queued
  <2> QED BY <2>1, <2>2, <2>3
<1> QED BY <1>1, TimersInvHolds, PTL

\* For every restart limit: the budget is spent on losses in a row only; a run
\* that a poll has seen ready beyond the window gives it back
\* (sandbox_controller.go:512-530).
THEOREM RestartsAreCounted == TimersSpec => []RestartsCount
<1>1. TimersInv => RestartsCount
  BY DEF TimersInv, RestartsCount
<1> QED BY <1>1, TimersInvHolds, PTL

\* The reconciler with its timeouts, its polls and its back-off implements the
\* phase machine of SandboxPhases, step by step (state_machine.go:17-42).
THEOREM TimersImplementPhases == TimersSpec => TimersFollowPhases
<1> USE DEF Machine!Active, Machine!vars
<1>1. TimersInit => Machine!Init
  BY DEF TimersInit, Machine!Init
<1>2. ASSUME TimersInv, [TimersNext]_timersVars
      PROVE  [Machine!Next]_Machine!vars
  <2>1. TimersTypeOK /\ RetryMeansError /\ status.retry \in BOOLEAN
    BY <1>2 DEF TimersInv, TimersTypeOK
  <2>2. CASE Initialize
    <3>1. Machine!Accept
      BY <2>1, <2>2 DEF Initialize, Phase, TimersTypeOK, Machine!Accept
    <3> QED BY <3>1 DEF Machine!Next
  <2>3. CASE Run
    <3>1. Machine!Start
      BY <2>1, <2>3 DEF Run, Phase, TimersTypeOK, RetryMeansError, Machine!Start
    <3> QED BY <3>1 DEF Machine!Next
  <2>4. CASE Lose
    <3>1. Machine!Exhaust \/ Machine!Break
      BY <2>1, <2>4, LoseStatus DEF Lose, Phase, Machine!Exhaust, Machine!Break
    <3> QED BY <3>1 DEF Machine!Next
  <2>5. CASE ResetRestarts
    <3>1. Machine!Stabilize
      BY <2>1, <2>5 DEF ResetRestarts, Watched, Phase, TimersTypeOK, Machine!Stabilize
    <3> QED BY <3>1 DEF Machine!Next
  <2>6. CASE StopRun
    <3>1. Machine!Stop
      BY <2>1, <2>6 DEF StopRun, Watched, Phase, TimersTypeOK, Machine!Stop
    <3> QED BY <3>1 DEF Machine!Next
  <2>7. CASE Recover
    <3>1. Machine!Restart \/ UNCHANGED Machine!vars
      BY <2>1, <2>7, RecoverStatus DEF Machine!Restart
    <3> QED BY <3>1 DEF Machine!Next
  <2>8. CASE AskResume
    <3>1. Machine!Resume
      BY <2>1, <2>8 DEF AskResume, TimersTypeOK, Machine!Resume
    <3> QED BY <3>1 DEF Machine!Next
  <2>9. CASE \/ EnsurePod \/ Watch \/ Rest \/ ControllerRestarts \/ PodMoves \/ TickClock
             \/ AskStop \/ PatchIdleTimeout \/ UNCHANGED timersVars
    BY <2>9 DEF EnsurePod, Watch, Rest, ControllerRestarts, PodMoves, TickClock, AskStop,
                PatchIdleTimeout, timersVars
  <2> QED BY <1>2, <2>2, <2>3, <2>4, <2>5, <2>6, <2>7, <2>8, <2>9 DEF TimersNext
<1> QED BY <1>1, <1>2, TimersInvHolds, PTL DEF TimersSpec, TimersFollowPhases, Machine!Spec
=============================================================================
