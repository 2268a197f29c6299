-------------------------- MODULE WarmPool_proofs ---------------------------
(***************************************************************************)
(* Proofs about WarmPool, for every pool, any number of claimers and names *)
(* and every history of faults and configurations.                         *)
(***************************************************************************)
EXTENDS WarmPool, FiniteSetTheorems, TLAPS

\* The counters of the loop are counters.
Counting ==
  /\ rec.pc = "deletePvc" => rec.excess > 0
  /\ rec.pc \in {"deletePvc", "createPod"} => rec.name \in PodNames
  /\ \A s \in Sandboxes : claim[s].pc = "walk" => claim[s].template \in Templates

LEMMA SubsetCardinality ==
  ASSUME NEW S \in SUBSET PodNames
  PROVE  Cardinality(S) \in Nat
  BY NamesAssumption, FS_Subset, FS_CardinalityType

LEMMA PoolPodsCount ==
  ASSUME NEW cache, NEW t
  PROVE  PoolPods(cache, t) \in SUBSET PodNames /\ Cardinality(PoolPods(cache, t)) \in Nat
<1>1. PoolPods(cache, t) \in SUBSET PodNames
  BY DEF PoolPods
<1> QED BY <1>1, SubsetCardinality

LEMMA NoPodType == NoPod \in Pod
  BY DEF NoPod, Pod

LEMMA IdleType == Idle \in Reconcile
  BY NumbersAssumption DEF Idle, Reconcile

LEMMA NewClaimType == NewClaim \in Claims
  BY NumbersAssumption DEF NewClaim, Claims

LEMMA TypeInit == Init => TypeOK /\ Counting
<1> SUFFICES ASSUME Init PROVE TypeOK /\ Counting
  OBVIOUS
<1>1. pods \in [PodNames -> Pod] /\ podSeen \in [PodNames -> Pod]
  BY NoPodType DEF Init
<1>2. /\ config \in SUBSET (Templates \X (0..MaxDesired)) /\ rec \in Reconcile
      /\ vols \in [PodNames -> {"none", "bound", "dying"}]
      /\ claim \in [Sandboxes -> Claims]
  BY IdleType, NewClaimType DEF Init
<1>3. faults \in 0..MaxFaults /\ edits \in 0..MaxEdits
  BY NumbersAssumption DEF Init
<1>4. Counting
  BY DEF Init, Counting, Idle, NewClaim
<1> QED BY <1>1, <1>2, <1>3, <1>4 DEF TypeOK

\* What the loop of the pool does to its own state.
LEMMA LoopTypes ==
  ASSUME TypeOK, Counting, PoolLoop
  PROVE  /\ rec' \in Reconcile
         /\ rec'.pc = "deletePvc" => rec'.excess > 0
         /\ rec'.pc \in {"deletePvc", "createPod"} => rec'.name \in PodNames
<1> rec \in Reconcile
  BY DEF TypeOK
<1> USE DEF Reconcile
<1>1. CASE StartCycle
  BY <1>1, IdleType DEF StartCycle, TypeOK, Idle
<1>2. CASE ReconcilePool
  <2> PICK e \in rec.todo :
        \E step \in {"scale", "create", "pools"} :
          rec' = [rec EXCEPT !.pc = step, !.todo = @ \ {e},
                             !.template = e[1], !.target = e[2]]
    BY <1>2 DEF ReconcilePool
  <2> PICK step \in {"scale", "create", "pools"} :
        rec' = [rec EXCEPT !.pc = step, !.todo = @ \ {e},
                           !.template = e[1], !.target = e[2]]
    OBVIOUS
  <2>1. e[1] \in Templates /\ e[2] \in 0..MaxDesired
    OBVIOUS
  <2>2. rec.todo \ {e} \in SUBSET (Templates \X (0..MaxDesired))
    OBVIOUS
  <2>3. rec' \in Reconcile
    BY <2>1, <2>2
  <2>4. rec'.pc = step
    OBVIOUS
  <2> QED BY <2>3, <2>4
<1>3. CASE CreatePvc
  BY <1>3 DEF CreatePvc
<1>4. CASE CreatePod
  BY <1>4 DEF CreatePod
<1>5. CASE ScaleDown
  <2> DEFINE L == PoolPods(podSeen, rec.template)
             excess == Cardinality(L) - rec.target
  <2>1. L \in SUBSET PodNames /\ Cardinality(L) \in Nat
    BY PoolPodsCount
  <2>2. CASE Cardinality(L) <= rec.target
    BY <1>5, <2>2 DEF ScaleDown
  <2>3. CASE ~(Cardinality(L) <= rec.target)
    <3>1. excess \in Nat
      BY <2>1, <2>3, NumbersAssumption
    <3>2. rec' = [rec EXCEPT !.pc = "delete", !.victims = L, !.excess = excess]
      BY <1>5, <2>3 DEF ScaleDown
    <3> HIDE DEF L, excess
    <3> QED BY <2>1, <3>1, <3>2
  <2> QED BY <2>2, <2>3
<1>6. CASE ListOrphans
  <2> DEFINE O == {n \in PodNames : /\ podSeen[n].template # None
                                    /\ podSeen[n].template \notin Templated(rec.entries)}
  <2>1. O \in SUBSET PodNames /\ Cardinality(O) \in Nat
    BY SubsetCardinality
  <2>2. rec' = [rec EXCEPT !.pc = "delete", !.template = None, !.victims = O,
                           !.excess = Cardinality(O)]
    BY <1>6 DEF ListOrphans
  <2> HIDE DEF O
  <2> QED BY <2>1, <2>2
<1>7. CASE DeletePod
  <2> PICK n \in rec.victims :
        \/ rec' = [rec EXCEPT !.pc = "deletePvc", !.victims = @ \ {n}, !.name = n]
        \/ rec' = [rec EXCEPT !.victims = @ \ {n}]
    BY <1>7 DEF DeletePod
  <2> DEFINE V == rec.victims \ {n}
  <2>1. V \in SUBSET PodNames /\ n \in PodNames /\ rec.pc = "delete" /\ rec.excess > 0
    BY <1>7 DEF DeletePod
  <2>2. \/ rec' = [rec EXCEPT !.pc = "deletePvc", !.victims = V, !.name = n]
        \/ rec' = [rec EXCEPT !.victims = V]
    OBVIOUS
  <2> HIDE DEF V
  <2> QED BY <2>1, <2>2
<1>8. CASE DeletePvc
  <2>1. rec.excess - 1 \in Nat
    BY <1>8 DEF DeletePvc, Counting
  <2> QED BY <1>8, <2>1 DEF DeletePvc
<1>9. CASE EndDelete
  BY <1>9, IdleType DEF EndDelete, Idle
<1> QED BY <1>1, <1>2, <1>3, <1>4, <1>5, <1>6, <1>7, <1>8, <1>9 DEF PoolLoop

\* What a claimer does to its own state.
LEMMA ClaimTypes ==
  ASSUME TypeOK, Counting, NEW s \in Sandboxes, Claimer(s) \/ ClaimFails(s)
  PROVE  /\ claim' \in [Sandboxes -> Claims]
         /\ \A r \in Sandboxes : claim'[r].pc = "walk" => claim'[r].template \in Templates
         /\ \A r \in Sandboxes : r # s => claim'[r] = claim[r]
<1> claim \in [Sandboxes -> Claims] /\ claim[s] \in Claims
  BY DEF TypeOK
<1> SUFFICES \E c \in Claims : /\ claim' = [claim EXCEPT ![s] = c]
                               /\ c.pc = "walk" => c.template \in Templates
  BY DEF Counting
<1> USE DEF Claims
<1>1. CASE ListReady(s)
  <2> PICK t \in Templates :
        claim' = [claim EXCEPT ![s].pc = "walk", ![s].template = t,
                  ![s].lost = FALSE,
                  ![s].listed = {<<n, podSeen[n].term>> :
                                  n \in {m \in PoolPods(podSeen, t) : podSeen[m].st = "Ready"}}]
    BY <1>1 DEF ListReady
  <2> DEFINE L == {<<n, podSeen[n].term>> :
                    n \in {m \in PoolPods(podSeen, t) : podSeen[m].st = "Ready"}}
  <2>1. L \in SUBSET (PodNames \X BOOLEAN)
    BY DEF TypeOK, PoolPods, Pod
  <2> HIDE DEF L
  <2> DEFINE c == [claim[s] EXCEPT !.pc = "walk", !.template = t, !.lost = FALSE, !.listed = L]
  <2>2. c \in Claims /\ c.template = t
    BY <2>1
  <2>3. claim' = [claim EXCEPT ![s] = c]
    BY DEF L
  <2> QED BY <2>2, <2>3
<1>2. CASE Walk(s)
  <2> PICK l \in claim[s].listed :
        \/ claim' = [claim EXCEPT ![s].pc = "adopt", ![s].pod = l[1], ![s].listed = {}]
        \/ claim' = [claim EXCEPT ![s].listed = @ \ {l}, ![s].lost = TRUE]
    BY <1>2 DEF Walk
  <2>1. l[1] \in PodNames
    OBVIOUS
  <2> DEFINE c == [claim[s] EXCEPT !.pc = "adopt", !.pod = l[1], !.listed = {}]
             d == [claim[s] EXCEPT !.listed = @ \ {l}, !.lost = TRUE]
  <2>2. c \in Claims /\ d \in Claims /\ c.pc = "adopt" /\ d.template = claim[s].template
    BY <2>1
  <2>3. claim' = [claim EXCEPT ![s] = c] \/ claim' = [claim EXCEPT ![s] = d]
    OBVIOUS
  <2>4. claim[s].template \in Templates
    BY <1>2 DEF Walk, Counting
  <2> HIDE DEF c, d
  <2> QED BY <2>2, <2>3, <2>4
<1>3. CASE EndWalk(s)
  <2> DEFINE again == claim[s].lost /\ claim[s].attempt + 1 < MaxAttempts
             p == IF again THEN "list" ELSE "cold"
             a == IF again THEN claim[s].attempt + 1 ELSE claim[s].attempt
             c == [claim[s] EXCEPT !.pc = p, !.attempt = a]
  <2>1. a \in 0..(MaxAttempts - 1) /\ p \in {"list", "cold"}
    BY NumbersAssumption
  <2>2. c \in Claims /\ c.pc # "walk"
    BY <2>1
  <2>3. claim' = [claim EXCEPT ![s] = c]
    BY <1>3 DEF EndWalk
  <2> QED BY <2>2, <2>3
<1>4. CASE Adopt(s)
  <2> DEFINE c == [claim[s] EXCEPT !.pc = "running"]
             d == [claim[s] EXCEPT !.pc = "cold", !.pod = None]
  <2>1. c \in Claims /\ d \in Claims /\ c.pc # "walk" /\ d.pc # "walk"
    OBVIOUS
  <2>2. claim' = [claim EXCEPT ![s] = c] \/ claim' = [claim EXCEPT ![s] = d]
    BY <1>4 DEF Adopt
  <2> HIDE DEF c, d
  <2> QED BY <2>1, <2>2
<1>5. CASE ClaimFails(s)
  <2> DEFINE c == [claim[s] EXCEPT !.pc = "cold", !.listed = {}, !.pod = None]
  <2>1. c \in Claims /\ c.pc # "walk"
    OBVIOUS
  <2>2. claim' = [claim EXCEPT ![s] = c]
    BY <1>5 DEF ClaimFails
  <2> QED BY <2>1, <2>2
<1> QED BY <1>1, <1>2, <1>3, <1>4, <1>5 DEF Claimer

LEMMA TypeStep ==
  ASSUME TypeOK, Counting, [Next]_vars
  PROVE  TypeOK' /\ Counting'
<1>t. /\ pods \in [PodNames -> Pod] /\ podSeen \in [PodNames -> Pod]
      /\ rec \in Reconcile /\ faults \in 0..MaxFaults
  BY DEF TypeOK
<1>f. Fault => faults' \in 0..MaxFaults
  BY <1>t, NumbersAssumption DEF Fault
\* One field of a pod.
<1>p. ASSUME NEW p \in Pod
      PROVE  /\ [p EXCEPT !.st = "Ready"] \in Pod /\ [p EXCEPT !.st = "Failed"] \in Pod
             /\ [p EXCEPT !.term = TRUE] \in Pod
             /\ [p EXCEPT !.template = None] \in Pod
             /\ \A s \in Sandboxes : [p EXCEPT !.owner = s] \in Pod
             /\ \A t \in Templates \union {None} :
                  [NoPod EXCEPT !.st = "Pending", !.template = t] \in Pod
  BY DEF Pod, NoPod
<1>q. ASSUME NEW n \in PodNames, NEW p \in Pod
      PROVE  [pods EXCEPT ![n] = p] \in [PodNames -> Pod]
  BY <1>t
<1>1. CASE PoolLoop
  <2>1. pods' \in [PodNames -> Pod]
    <3>1. CASE CreatePod
      <4>1. rec.name \in PodNames /\ rec.template \in Templates \union {None}
        BY <1>t, <3>1 DEF CreatePod, Reconcile, Counting
      <4>2. \/ UNCHANGED pods
            \/ pods' = [pods EXCEPT ![rec.name] =
                          [NoPod EXCEPT !.st = "Pending", !.template = rec.template]]
        BY <3>1 DEF CreatePod
      <4>3. [NoPod EXCEPT !.st = "Pending", !.template = rec.template] \in Pod
        BY <1>p, <4>1, NoPodType
      <4> QED BY <1>t, <1>q, <4>1, <4>2, <4>3
    <3>2. CASE DeletePod
      <4> PICK n \in rec.victims :
            \/ pods' = pods
            \/ pods' = [pods EXCEPT ![n] = [pods[n] EXCEPT !.term = TRUE]]
        BY <3>2 DEF DeletePod
      <4>1. n \in PodNames
        BY <1>t DEF Reconcile
      <4>2. [pods[n] EXCEPT !.term = TRUE] \in Pod
        BY <1>t, <1>p, <4>1
      <4> QED BY <1>t, <1>q, <4>1, <4>2
    <3> QED BY <1>1, <1>t, <3>1, <3>2 DEF PoolLoop, StartCycle, ReconcilePool, CreatePvc,
          ScaleDown, ListOrphans, DeletePvc, EndDelete
  <2>2. /\ vols' \in [PodNames -> {"none", "bound", "dying"}]
        /\ UNCHANGED <<config, podSeen, claim, edits>>
    BY <1>1 DEF TypeOK, PoolLoop, StartCycle, ReconcilePool, CreatePvc, CreatePod,
       ScaleDown, ListOrphans, DeletePod, DeletePvc, EndDelete
  <2>3. faults' \in 0..MaxFaults
    BY <1>1, <1>t, <1>f DEF PoolLoop, StartCycle, ReconcilePool, CreatePvc, CreatePod,
       ScaleDown, ListOrphans, DeletePod, DeletePvc, EndDelete
  <2> QED BY <1>1, <2>1, <2>2, <2>3, LoopTypes DEF TypeOK, Counting
<1>2. ASSUME NEW s \in Sandboxes, Claimer(s) \/ ClaimFails(s)
      PROVE  TypeOK' /\ Counting'
  <2>1. pods' \in [PodNames -> Pod]
    <3>1. CASE Walk(s)
      <4> PICK l \in claim[s].listed :
            pods' = pods \/ pods' = [pods EXCEPT ![l[1]] = [pods[l[1]] EXCEPT !.template = None]]
        BY <3>1 DEF Walk
      <4>1. l[1] \in PodNames
        BY DEF TypeOK, Claims
      <4>2. [pods[l[1]] EXCEPT !.template = None] \in Pod
        BY <1>t, <1>p, <4>1
      <4> QED BY <1>t, <1>q, <4>1, <4>2
    <3>2. CASE Adopt(s)
      <4> DEFINE n == claim[s].pod
      <4>1. CASE n \in PodNames
        <5>1. [pods[n] EXCEPT !.owner = s] \in Pod
          BY <1>t, <1>p, <4>1
        <5>2. pods' = pods \/ pods' = [pods EXCEPT ![n] = [pods[n] EXCEPT !.owner = s]]
          BY <3>2 DEF Adopt
        <5> QED BY <1>t, <1>q, <4>1, <5>1, <5>2
      <4>2. CASE n \notin PodNames
        <5>1. pods' = pods \/ pods' = [pods EXCEPT ![n].owner = s]
          BY <3>2 DEF Adopt
        <5> QED BY <1>t, <4>2, <5>1
      <4> QED BY <4>1, <4>2
    <3> QED BY <1>2, <1>t, <3>1, <3>2 DEF Claimer, ListReady, EndWalk, ClaimFails
  <2>2. UNCHANGED <<config, podSeen, vols, rec, edits>> /\ faults' \in 0..MaxFaults
    BY <1>2, <1>t, <1>f DEF Claimer, ListReady, Walk, EndWalk, Adopt, ClaimFails
  <2> QED BY <1>2, <2>1, <2>2, ClaimTypes DEF TypeOK, Counting
<1>3. CASE Restart
  <2>1. claim' \in [Sandboxes -> Claims]
    BY <1>3, NewClaimType DEF Restart, TypeOK
  <2>2. \A s \in Sandboxes : claim'[s].pc # "walk"
    BY <1>3 DEF Restart, NewClaim
  <2> QED BY <1>3, <1>f, <2>1, <2>2, IdleType DEF Restart, TypeOK, Counting, Idle
<1>4. CASE SetConfig
  BY <1>4, ConfigsAssumption, NumbersAssumption DEF SetConfig, TypeOK, Counting
<1>5. CASE SyncPods
  BY <1>5 DEF SyncPods, TypeOK, Counting
<1>6. ASSUME NEW n \in PodNames, PodReady(n) \/ PodFails(n) \/ PodGone(n)
      PROVE  TypeOK' /\ Counting'
  <2>1. pods' \in [PodNames -> Pod]
    <3>1. /\ [pods[n] EXCEPT !.st = "Ready"] \in Pod
          /\ [pods[n] EXCEPT !.st = "Failed"] \in Pod
          /\ NoPod \in Pod
      BY <1>t, <1>p, NoPodType
    <3>2. \/ pods' = [pods EXCEPT ![n] = [pods[n] EXCEPT !.st = "Ready"]]
          \/ pods' = [pods EXCEPT ![n] = [pods[n] EXCEPT !.st = "Failed"]]
          \/ pods' = [pods EXCEPT ![n] = NoPod]
      BY <1>6 DEF PodReady, PodFails, PodGone
    <3> QED BY <1>q, <3>1, <3>2
  <2>2. vols' \in [PodNames -> {"none", "bound", "dying"}] /\ faults' \in 0..MaxFaults
    BY <1>6, <1>f DEF PodReady, PodFails, PodGone, TypeOK
  <2>3. UNCHANGED <<config, podSeen, rec, claim, edits>>
    BY <1>6 DEF PodReady, PodFails, PodGone
  <2> QED BY <2>1, <2>2, <2>3 DEF TypeOK, Counting
<1>7. CASE UNCHANGED vars
  BY <1>7 DEF vars, TypeOK, Counting
<1> QED BY <1>1, <1>2, <1>3, <1>4, <1>5, <1>6, <1>7 DEF Next, Cluster

\* Every variable of the pool keeps its type; above all the count of pods to
\* delete never goes below zero, and Claim never tries more than MaxAttempts times.
THEOREM TypeCorrect == Spec => []TypeOK
<1>1. Init => TypeOK /\ Counting
  BY TypeInit
<1>2. TypeOK /\ Counting /\ [Next]_vars => (TypeOK /\ Counting)'
  BY TypeStep
<1> QED BY <1>1, <1>2, PTL DEF Spec

-----------------------------------------------------------------------------
(* A pod is won once.  A claim needs the server's copy to be ready and in  *)
(* the pool, and the write that wins it takes it out of the pool.  Only    *)
(* CreatePod could put it back, for a name nobody holds.                   *)

Exclusive ==
  /\ ClaimedOnce
  /\ \A s \in Sandboxes :
       /\ claim[s].pod # None => claim[s].pc \in {"adopt", "running"}
       /\ claim[s].pc = "adopt" => claim[s].pod # None
  /\ rec.pc = "createPod" =>
       pods[rec.name] = NoPod /\ \A s \in Sandboxes : claim[s].pod # rec.name

LEMMA ExclusiveInit == Init => Exclusive
<1> SUFFICES ASSUME Init PROVE Exclusive
  OBVIOUS
<1>1. \A s \in Sandboxes : claim[s].pod = None /\ claim[s].pc = "list"
  BY DEF Init, NewClaim
<1>2. rec.pc = "idle"
  BY DEF Init, Idle
<1> QED BY <1>1, <1>2 DEF Exclusive, ClaimedOnce

\* The loop creates pods nobody holds, and of a held pod it changes at most
\* whether it is terminating.
LEMMA ExclusiveLoop ==
  ASSUME TypeOK, Counting, Exclusive, PoolLoop
  PROVE  Exclusive'
<1>t. /\ pods \in [PodNames -> Pod] /\ rec \in Reconcile
      /\ claim \in [Sandboxes -> Claims]
  BY DEF TypeOK
<1>c. claim' = claim
  BY DEF PoolLoop, StartCycle, ReconcilePool, CreatePvc, CreatePod, ScaleDown,
     ListOrphans, DeletePod, DeletePvc, EndDelete
<1>h. \A s \in Sandboxes : claim[s].pod # None => claim[s].pod \in PodNames
  BY <1>t DEF Claims
\* It is enough that no held pod is put in a pool or given away, ...
<1>1. ASSUME NEW s \in Sandboxes, claim[s].pod # None
      PROVE  /\ pods'[claim[s].pod].template = pods[claim[s].pod].template
             /\ pods'[claim[s].pod].owner = pods[claim[s].pod].owner
  <2> DEFINE m == claim[s].pod
  <2>1. m \in PodNames
    BY <1>1, <1>h
  <2>2. CASE CreatePod
    <3>1. m # rec.name
      BY <1>1, <2>2 DEF CreatePod, Exclusive
    <3> QED BY <1>t, <2>1, <2>2, <3>1 DEF CreatePod
  <2>3. CASE DeletePod
    <3> PICK n \in rec.victims : pods' = pods \/ pods' = [pods EXCEPT ![n].term = TRUE]
      BY <2>3 DEF DeletePod
    <3>1. n \in PodNames /\ pods[n] \in Pod
      BY <1>t DEF Reconcile
    <3>2. [pods[n] EXCEPT !.term = TRUE].template = pods[n].template
      BY <3>1 DEF Pod
    <3>3. [pods[n] EXCEPT !.term = TRUE].owner = pods[n].owner
      BY <3>1 DEF Pod
    <3>4. pods' = pods \/ pods' = [pods EXCEPT ![n] = [pods[n] EXCEPT !.term = TRUE]]
      OBVIOUS
    <3>5. ASSUME NEW k \in PodNames
          PROVE  pods'[k].template = pods[k].template /\ pods'[k].owner = pods[k].owner
      BY <1>t, <3>1, <3>2, <3>3, <3>4
    <3> QED BY <2>1, <3>5
  <2> QED BY <2>2, <2>3 DEF PoolLoop, StartCycle, ReconcilePool, CreatePvc,
        ScaleDown, ListOrphans, DeletePvc, EndDelete
\* ... and that the pod to create is fresh.
<1>2. rec'.pc = "createPod" =>
        pods'[rec'.name] = NoPod /\ \A s \in Sandboxes : claim[s].pod # rec'.name
  <2>1. CASE CreatePvc
    <3>0. pods' = pods /\ claim' = claim
      BY <2>1 DEF CreatePvc
    <3>1. CASE \E n \in PodNames : Fresh(n) /\ rec' = [rec EXCEPT !.pc = "createPod", !.name = n]
      <4> PICK n \in PodNames : Fresh(n) /\ rec' = [rec EXCEPT !.pc = "createPod", !.name = n]
        BY <3>1
      <4>1. pods[n] = NoPod /\ \A s \in Sandboxes : claim[s].pod # n
        BY DEF Fresh
      <4>2. rec'.name = n
        BY <1>t DEF Reconcile
      <4> QED BY <3>0, <4>1, <4>2
    <3>2. CASE rec' = [rec EXCEPT !.pc = "pools"]
      BY <1>t, <3>2 DEF Reconcile
    <3> QED BY <2>1, <3>1, <3>2 DEF CreatePvc
  <2>2. CASE ~CreatePvc
    <3>1. rec'.pc # "createPod"
      <4>1. CASE ReconcilePool
        <5> PICK e \in rec.todo : \E step \in {"scale", "create", "pools"} :
              rec' = [rec EXCEPT !.pc = step, !.todo = @ \ {e},
                                 !.template = e[1], !.target = e[2]]
          BY <4>1 DEF ReconcilePool
        <5> QED BY <1>t DEF Reconcile
      <4>2. CASE DeletePod
        BY <1>t, <4>2 DEF DeletePod, Reconcile
      <4>3. CASE ScaleDown
        BY <1>t, <4>3 DEF ScaleDown, Reconcile
      <4>4. CASE StartCycle
        BY <4>4 DEF StartCycle, Idle
      <4>7. CASE EndDelete
        <5>1. rec' = Idle \/ rec' = [rec EXCEPT !.pc = "pools", !.victims = {}, !.excess = 0]
          BY <4>7 DEF EndDelete
        <5>2. Idle.pc = "idle"
          BY DEF Idle
        <5> QED BY <1>t, <5>1, <5>2 DEF Reconcile
      <4>5. CASE CreatePod \/ DeletePvc
        BY <1>t, <4>5 DEF CreatePod, DeletePvc, Reconcile
      <4>6. CASE ListOrphans
        BY <1>t, <4>6 DEF ListOrphans, Reconcile
      <4> QED BY <2>2, <4>1, <4>2, <4>3, <4>4, <4>5, <4>6, <4>7 DEF PoolLoop
    <3> QED BY <3>1
  <2> QED BY <2>1, <2>2
<1> QED BY <1>c, <1>1, <1>2 DEF Exclusive, ClaimedOnce

LEMMA ExclusiveClaim ==
  ASSUME TypeOK, Counting, Exclusive, NEW s \in Sandboxes, Claimer(s) \/ ClaimFails(s)
  PROVE  Exclusive'
<1>t. /\ pods \in [PodNames -> Pod] /\ claim \in [Sandboxes -> Claims]
      /\ None \notin PodNames
  BY NoneAssumption DEF TypeOK
<1>r. rec' = rec
  BY DEF Claimer, ListReady, Walk, EndWalk, Adopt, ClaimFails
<1>h. rec.pc = "createPod" => rec.name \in PodNames
  BY DEF Counting
\* A step that takes no pod: s holds the pod it held, or none.
<1>k. ASSUME NEW c \in Claims, claim' = [claim EXCEPT ![s] = c], UNCHANGED pods,
             c.pod # None => c.pod = claim[s].pod /\ c.pc \in {"adopt", "running"},
             c.pc = "adopt" => c.pod # None
      PROVE  Exclusive'
  <2>1. \A r \in Sandboxes : claim'[r].pod # None => claim'[r].pod = claim[r].pod
    BY <1>t, <1>k
  <2>2. \A r \in Sandboxes : /\ claim'[r].pod # None => claim'[r].pc \in {"adopt", "running"}
                             /\ claim'[r].pc = "adopt" => claim'[r].pod # None
    BY <1>t, <1>k DEF Exclusive
  <2>3. ClaimedOnce'
    BY <1>k, <2>1 DEF Exclusive, ClaimedOnce
  <2>4. rec'.pc = "createPod" =>
          pods'[rec'.name] = NoPod /\ \A r \in Sandboxes : claim'[r].pod # rec'.name
    BY <1>t, <1>r, <1>h, <1>k, <2>1 DEF Exclusive
  <2> QED BY <2>2, <2>3, <2>4 DEF Exclusive
<1>1. CASE ListReady(s)
  <2> PICK t \in Templates, L \in {{<<n, podSeen[n].term>> :
                    n \in {m \in PoolPods(podSeen, u) : podSeen[m].st = "Ready"}} : u \in Templates} :
        claim' = [claim EXCEPT ![s].pc = "walk", ![s].template = t, ![s].lost = FALSE,
                               ![s].listed = L]
    BY <1>1 DEF ListReady
  <2>1. L \in SUBSET (PodNames \X BOOLEAN)
    BY DEF TypeOK, PoolPods, Pod
  <2> DEFINE c == [claim[s] EXCEPT !.pc = "walk", !.template = t, !.lost = FALSE, !.listed = L]
  <2>2. c \in Claims /\ c.pod = claim[s].pod /\ c.pc = "walk"
    BY <1>t, <2>1 DEF Claims
  <2>3. claim' = [claim EXCEPT ![s] = c]
    OBVIOUS
  <2>4. claim[s].pod = None
    BY <1>1 DEF ListReady, Exclusive
  <2> HIDE DEF c
  <2> QED BY <1>k, <1>1, <2>2, <2>3, <2>4 DEF ListReady
<1>2. CASE Walk(s)
  <2>0. claim[s].pod = None /\ claim[s].pc = "walk" /\ claim[s].template \in Templates
    BY <1>2 DEF Walk, Exclusive, Counting
  <2> PICK l \in claim[s].listed :
        \/ /\ Unchanged(l, claim[s].template)
           /\ pods' = [pods EXCEPT ![l[1]].template = None]
           /\ claim' = [claim EXCEPT ![s].pc = "adopt", ![s].pod = l[1], ![s].listed = {}]
        \/ /\ claim' = [claim EXCEPT ![s].listed = @ \ {l}, ![s].lost = TRUE]
           /\ UNCHANGED pods
    BY <1>2 DEF Walk
  <2> DEFINE n == l[1]
  <2>1. n \in PodNames /\ n # None /\ pods[n] \in Pod
    BY <1>t DEF Claims
  <2>2. CASE UNCHANGED pods /\ claim' = [claim EXCEPT ![s].listed = @ \ {l}, ![s].lost = TRUE]
    <3> DEFINE c == [claim[s] EXCEPT !.listed = @ \ {l}, !.lost = TRUE]
    <3>0. claim[s] \in Claims /\ claim[s].listed \ {l} \in SUBSET (PodNames \X BOOLEAN)
      BY <1>t DEF Claims
    <3>1. c \in Claims /\ c.pod = None /\ c.pc = "walk"
      <4> DEFINE R == claim[s].listed \ {l}
      <4>1. R \in SUBSET (PodNames \X BOOLEAN)
        BY <3>0
      <4> HIDE DEF R
      <4> QED BY <2>0, <3>0, <4>1 DEF Claims
    <3>2. claim' = [claim EXCEPT ![s] = c]
      BY <2>2
    <3> HIDE DEF c
    <3> QED BY <1>k, <2>2, <3>1, <3>2
  <2>3. CASE /\ Unchanged(l, claim[s].template)
             /\ pods' = [pods EXCEPT ![l[1]].template = None]
             /\ claim' = [claim EXCEPT ![s].pc = "adopt", ![s].pod = l[1], ![s].listed = {}]
    <3>1. pods[n].template # None /\ pods[n].owner = None /\ pods[n] # NoPod
      BY <2>0, <2>3, NoneAssumption DEF Unchanged, NoPod
    <3>2. \A r \in Sandboxes : claim[r].pod # n
      BY <2>1, <3>1 DEF Exclusive, ClaimedOnce
    <3>3. /\ pods'[n].template = None /\ pods'[n].owner = None
          /\ \A m \in PodNames : m # n => pods'[m] = pods[m]
      <4>1. /\ [pods[n] EXCEPT !.template = None].template = None
            /\ [pods[n] EXCEPT !.template = None].owner = pods[n].owner
        BY <2>1 DEF Pod
      <4>2. pods' = [pods EXCEPT ![n] = [pods[n] EXCEPT !.template = None]]
        BY <2>3
      <4> HIDE DEF n
      <4> QED BY <1>t, <2>1, <3>1, <4>1, <4>2
    <3>4. /\ claim'[s].pod = n /\ claim'[s].pc = "adopt"
          /\ \A r \in Sandboxes : r # s => claim'[r] = claim[r]
      BY <1>t, <2>3 DEF Claims
    <3>5. \A r \in Sandboxes : claim[r].pod # None => claim[r].pod \in PodNames
      BY <1>t DEF Claims
    <3>6. ClaimedOnce'
      <4> HIDE DEF n
      <4> QED BY <2>1, <3>2, <3>3, <3>4, <3>5 DEF Exclusive, ClaimedOnce
    <3>7. rec.pc = "createPod" => rec.name # n
      BY <3>1 DEF Exclusive
    <3> HIDE DEF n
    <3>8. rec'.pc = "createPod" =>
            pods'[rec'.name] = NoPod /\ \A r \in Sandboxes : claim'[r].pod # rec'.name
      BY <1>r, <1>h, <3>3, <3>4, <3>7 DEF Exclusive
    <3>9. \A r \in Sandboxes : /\ claim'[r].pod # None => claim'[r].pc \in {"adopt", "running"}
                               /\ claim'[r].pc = "adopt" => claim'[r].pod # None
      BY <2>1, <3>4 DEF Exclusive
    <3> QED BY <3>6, <3>8, <3>9 DEF Exclusive
  <2> QED BY <2>2, <2>3
<1>3. CASE EndWalk(s)
  <2> PICK p \in {"list", "cold"}, a \in {claim[s].attempt, claim[s].attempt + 1} :
        claim' = [claim EXCEPT ![s].pc = p, ![s].attempt = a]
    BY <1>3 DEF EndWalk
  <2> DEFINE c == [claim[s] EXCEPT !.pc = p, !.attempt = a]
  <2>1. c.pod = claim[s].pod /\ c.pc = p
    BY <1>t DEF Claims
  <2>2. claim' = [claim EXCEPT ![s] = c]
    OBVIOUS
  <2>3. claim[s].pod = None
    BY <1>3 DEF EndWalk, Exclusive
  <2>4. c \in Claims
    BY <2>2, <1>t, ClaimTypes
  <2> HIDE DEF c
  <2> QED BY <1>k, <1>3, <2>1, <2>2, <2>3, <2>4 DEF EndWalk
<1>4. CASE Adopt(s)
  <2> DEFINE n == claim[s].pod
  <2>0. n \in PodNames /\ n # None /\ pods[n] \in Pod
    BY <1>t, <1>4 DEF Adopt, Exclusive, Claims
  <2>1. CASE UNCHANGED pods /\ claim' = [claim EXCEPT ![s].pc = "cold", ![s].pod = None]
    <3> DEFINE c == [claim[s] EXCEPT !.pc = "cold", !.pod = None]
    <3>1. c \in Claims /\ c.pod = None /\ c.pc = "cold"
      BY <1>t DEF Claims
    <3>2. claim' = [claim EXCEPT ![s] = c]
      BY <2>1
    <3> HIDE DEF c
    <3> QED BY <1>k, <2>1, <3>1, <3>2
  <2>2. CASE /\ pods[n].st # "absent"
             /\ pods' = [pods EXCEPT ![n].owner = s]
             /\ claim' = [claim EXCEPT ![s].pc = "running"]
    <3>1. /\ pods'[n].template = pods[n].template /\ pods'[n].owner = s
          /\ \A m \in PodNames : m # n => pods'[m] = pods[m]
      <4>1. /\ [pods[n] EXCEPT !.owner = s].template = pods[n].template
            /\ [pods[n] EXCEPT !.owner = s].owner = s
        BY <2>0 DEF Pod
      <4>2. pods' = [pods EXCEPT ![n] = [pods[n] EXCEPT !.owner = s]]
        BY <2>2
      <4> HIDE DEF n
      <4> QED BY <1>t, <2>0, <4>1, <4>2
    <3>2. /\ claim'[s].pod = n /\ claim'[s].pc = "running"
          /\ \A r \in Sandboxes : r # s => claim'[r] = claim[r]
      BY <1>t, <2>2 DEF Claims
    <3>3. \A r \in Sandboxes : claim[r].pod # None => claim[r].pod \in PodNames
      BY <1>t DEF Claims
    <3>4. ClaimedOnce'
      BY <2>0, <3>1, <3>2, <3>3 DEF Exclusive, ClaimedOnce
    <3>5. rec'.pc = "createPod" =>
            pods'[rec'.name] = NoPod /\ \A r \in Sandboxes : claim'[r].pod # rec'.name
      BY <1>r, <1>h, <3>1, <3>2 DEF Exclusive
    <3>6. \A r \in Sandboxes : /\ claim'[r].pod # None => claim'[r].pc \in {"adopt", "running"}
                               /\ claim'[r].pc = "adopt" => claim'[r].pod # None
      BY <3>2 DEF Exclusive
    <3> QED BY <3>4, <3>5, <3>6 DEF Exclusive
  <2> QED BY <1>4, <2>1, <2>2 DEF Adopt
<1>5. CASE ClaimFails(s)
  <2> DEFINE c == [claim[s] EXCEPT !.pc = "cold", !.listed = {}, !.pod = None]
  <2>1. c \in Claims /\ c.pod = None /\ c.pc = "cold"
    BY <1>t DEF Claims
  <2>2. claim' = [claim EXCEPT ![s] = c]
    BY <1>5 DEF ClaimFails
  <2> HIDE DEF c
  <2> QED BY <1>k, <1>5, <2>1, <2>2 DEF ClaimFails
<1> QED BY <1>1, <1>2, <1>3, <1>4, <1>5 DEF Claimer

LEMMA ExclusiveStep ==
  ASSUME TypeOK, Counting, Exclusive, [Next]_vars
  PROVE  Exclusive'
<1>t. pods \in [PodNames -> Pod] /\ claim \in [Sandboxes -> Claims]
  BY DEF TypeOK
<1>h. \A s \in Sandboxes : claim[s].pod # None => claim[s].pod \in PodNames
  BY <1>t DEF Claims
<1>1. CASE PoolLoop
  BY <1>1, ExclusiveLoop
<1>2. ASSUME NEW s \in Sandboxes, Claimer(s) \/ ClaimFails(s)
      PROVE  Exclusive'
  BY <1>2, ExclusiveClaim
<1>3. CASE Restart
  <2>1. \A s \in Sandboxes : /\ claim'[s].pod # None => claim'[s] = claim[s]
                             /\ claim'[s].pc # "adopt"
    BY <1>3 DEF Restart, NewClaim
  <2>2. rec'.pc = "idle" /\ UNCHANGED pods
    BY <1>3 DEF Restart, Idle
  <2> QED BY <2>1, <2>2 DEF Exclusive, ClaimedOnce
<1>4. CASE SetConfig \/ SyncPods \/ UNCHANGED vars
  BY <1>4 DEF SetConfig, SyncPods, vars, Exclusive, ClaimedOnce
<1>5. ASSUME NEW n \in PodNames, PodReady(n) \/ PodFails(n) \/ PodGone(n)
      PROVE  Exclusive'
  <2>1. claim' = claim /\ rec' = rec
    BY <1>5 DEF PodReady, PodFails, PodGone
  \* A held pod stays out of the pools, and an absent pod stays absent.
  <2>2. ASSUME NEW m \in PodNames
        PROVE  /\ pods[m].template = None => pods'[m].template = None
               /\ pods'[m].owner \in {None, pods[m].owner}
               /\ pods[m] = NoPod => pods'[m] = NoPod
    <3>1. \/ pods' = [pods EXCEPT ![n] = [pods[n] EXCEPT !.st = "Ready"]]
          \/ pods' = [pods EXCEPT ![n] = [pods[n] EXCEPT !.st = "Failed"]]
          \/ pods' = [pods EXCEPT ![n] = NoPod]
      BY <1>5 DEF PodReady, PodFails, PodGone
    <3>2. /\ [pods[n] EXCEPT !.st = "Ready"].template = pods[n].template
          /\ [pods[n] EXCEPT !.st = "Ready"].owner = pods[n].owner
          /\ [pods[n] EXCEPT !.st = "Failed"].template = pods[n].template
          /\ [pods[n] EXCEPT !.st = "Failed"].owner = pods[n].owner
      BY <1>t DEF Pod
    <3>3. NoPod.template = None /\ NoPod.owner = None
      BY DEF NoPod
    <3>4. pods[n] # NoPod
      BY <1>5 DEF PodReady, PodFails, PodGone, NoPod
    <3> QED BY <1>t, <3>1, <3>2, <3>3, <3>4
  <2> QED BY <1>h, <2>1, <2>2 DEF Exclusive, ClaimedOnce, Counting
<1> QED BY <1>1, <1>2, <1>3, <1>4, <1>5 DEF Next, Cluster

\* Claim: in every execution a pod is won by one sandbox, and a pod that was
\* won is in no pool, however stale the lists the claimers walk.
THEOREM ClaimsAreExclusive == Spec => []ClaimedOnce
<1>1. Init => TypeOK /\ Counting /\ Exclusive
  BY TypeInit, ExclusiveInit
<1>2. TypeOK /\ Counting /\ Exclusive /\ [Next]_vars => (TypeOK /\ Counting /\ Exclusive)'
  BY TypeStep, ExclusiveStep
<1>3. TypeOK /\ Counting /\ Exclusive => ClaimedOnce
  BY DEF Exclusive
<1> QED BY <1>1, <1>2, <1>3, PTL DEF Spec

-----------------------------------------------------------------------------
(* What a step does to a pod: an edit brings none to life and takes no mark *)
(* of deletion away, and no pod but the one CreatePod makes enters a pool.  *)

Edited(n) ==
  /\ pods'[n].st = "absent" <=> pods[n].st = "absent"
  /\ pods[n].term => pods'[n].term
  /\ pods'[n].template \in {None, pods[n].template}

Created(n) == CreatePod /\ n = rec.name /\ pods'[n].template = rec.template

LEMMA PodEdits ==
  ASSUME NEW p \in Pod
  PROVE  /\ [p EXCEPT !.term = TRUE].st = p.st /\ [p EXCEPT !.term = TRUE].template = p.template
         /\ [p EXCEPT !.term = TRUE].term = TRUE
         /\ [p EXCEPT !.template = None].st = p.st /\ [p EXCEPT !.template = None].term = p.term
         /\ [p EXCEPT !.template = None].template = None
         /\ \A s : [p EXCEPT !.owner = s].st = p.st /\ [p EXCEPT !.owner = s].term = p.term
                  /\ [p EXCEPT !.owner = s].template = p.template
         /\ \A st : [p EXCEPT !.st = st].st = st /\ [p EXCEPT !.st = st].term = p.term
                   /\ [p EXCEPT !.st = st].template = p.template
BY DEF Pod

LEMMA PodSteps ==
  ASSUME TypeOK, Counting, [Next]_vars, NEW n \in PodNames
  PROVE  Edited(n) \/ pods'[n] = NoPod \/ Created(n)
<1>0. pods \in [PodNames -> Pod] /\ pods[n] \in Pod /\ rec \in Reconcile /\ claim \in [Sandboxes -> Claims]
  BY DEF TypeOK
<1>1. pods' = pods => Edited(n)
  BY DEF Edited
<1>2. CASE PoolLoop
  <2>1. CASE CreatePod
    <3>1. rec.name \in PodNames
      BY <2>1 DEF CreatePod, Counting
    <3>2. CASE pods' = [pods EXCEPT ![rec.name] = [NoPod EXCEPT !.st = "Pending", !.template = rec.template]]
      <4>1. [NoPod EXCEPT !.st = "Pending", !.template = rec.template].template = rec.template
        BY DEF NoPod
      <4>2. n = rec.name => Created(n)
        BY <1>0, <2>1, <3>1, <3>2, <4>1 DEF Created
      <4>3. n # rec.name => pods'[n] = pods[n]
        BY <1>0, <3>1, <3>2
      <4> QED BY <4>2, <4>3 DEF Edited
    <3> QED BY <1>1, <2>1, <3>2 DEF CreatePod
  <2>2. CASE DeletePod
    <3>1. PICK m \in PodNames : pods' = pods \/ (pods[m].st # "absent" /\ pods' = [pods EXCEPT ![m] = [pods[m] EXCEPT !.term = TRUE]])
      BY <1>0, <2>2 DEF DeletePod, Reconcile
    <3>2. pods' = [pods EXCEPT ![m] = [pods[m] EXCEPT !.term = TRUE]] => Edited(n)
      BY <1>0, PodEdits DEF Edited
    <3> QED BY <1>1, <3>1, <3>2
  <2> QED BY <1>1, <1>2, <2>1, <2>2 DEF PoolLoop, StartCycle, ReconcilePool, CreatePvc, ScaleDown,
        ListOrphans, DeletePvc, EndDelete
<1>3. ASSUME NEW s \in Sandboxes, Claimer(s) \/ ClaimFails(s) PROVE Edited(n)
  <2>1. CASE Walk(s)
    <3>1. PICK l \in claim[s].listed :
            pods' = pods \/ pods' = [pods EXCEPT ![l[1]] = [pods[l[1]] EXCEPT !.template = None]]
      BY <2>1 DEF Walk
    <3>2. l[1] \in PodNames
      BY <1>0 DEF Claims
    <3>3. pods' = [pods EXCEPT ![l[1]] = [pods[l[1]] EXCEPT !.template = None]] => Edited(n)
      BY <1>0, <3>2, PodEdits DEF Edited
    <3> QED BY <1>1, <3>1, <3>3
  <2>2. CASE Adopt(s)
    <3>1. PICK m : m = claim[s].pod
      OBVIOUS
    <3>2. pods' = pods \/ (pods' = [pods EXCEPT ![m] = [pods[m] EXCEPT !.owner = s]])
      BY <2>2, <3>1 DEF Adopt
    <3>3. pods' = [pods EXCEPT ![m] = [pods[m] EXCEPT !.owner = s]] => Edited(n)
      BY <1>0, PodEdits DEF Edited
    <3> QED BY <1>1, <3>2, <3>3
  <2> QED BY <1>1, <1>3, <2>1, <2>2 DEF Claimer, ListReady, EndWalk, ClaimFails
<1>4. CASE Restart \/ SetConfig \/ SyncPods \/ UNCHANGED vars
  BY <1>1, <1>4 DEF Restart, SetConfig, SyncPods, vars
<1>5. ASSUME NEW m \in PodNames, PodReady(m) \/ PodFails(m) \/ PodGone(m)
      PROVE  Edited(n) \/ pods'[n] = NoPod
  <2>1. CASE PodReady(m) \/ PodFails(m)
    <3>1. PICK st \in {"Ready", "Failed"} : pods' = [pods EXCEPT ![m] = [pods[m] EXCEPT !.st = st]]
      BY <2>1 DEF PodReady, PodFails
    <3>2. pods[m].st # "absent"
      BY <2>1 DEF PodReady, PodFails
    <3> QED BY <1>0, <3>1, <3>2, PodEdits DEF Edited
  <2>2. CASE PodGone(m)
    BY <1>0, <2>2 DEF PodGone, Edited
  <2> QED BY <1>5, <2>1, <2>2
<1> QED BY <1>2, <1>3, <1>4, <1>5 DEF Next, Cluster

-----------------------------------------------------------------------------
(* The volumes.  A pod is created with its volume, and the volume is only   *)
(* taken from a pod that is gone or going, which stays so.                  *)

VolumesHeld ==
  /\ LivePodsKeepVolumes
  /\ rec.pc = "createPod" => vols[rec.name] = "bound"
  /\ rec.pc = "deletePvc" => pods[rec.name].st = "absent" \/ pods[rec.name].term

LEMMA VolumesInit == Init => VolumesHeld
BY DEF Init, VolumesHeld, LivePodsKeepVolumes, Idle, NoPod

LEMMA VolumesStep ==
  ASSUME TypeOK, Counting, Exclusive, VolumesHeld, [Next]_vars
  PROVE  VolumesHeld'
<1>0. /\ pods \in [PodNames -> Pod] /\ rec \in Reconcile
      /\ vols \in [PodNames -> {"none", "bound", "dying"}]
      /\ Idle.pc = "idle" /\ NoPod.st = "absent" /\ NoPod.term = FALSE
  BY DEF TypeOK, Idle, NoPod
<1> DEFINE Live(n) == pods[n].st # "absent" /\ ~pods[n].term
\* The pods that come to life, and the loop's next volume.
<1>1. ASSUME NEW n \in PodNames, Live(n)' PROVE Live(n) \/ (rec.pc = "createPod" /\ rec.name = n)
  BY <1>0, <1>1, PodSteps DEF Edited, Created, CreatePod
<1>2. /\ rec'.pc = "createPod" => rec' = rec \/ CreatePvc
      /\ rec'.pc = "deletePvc" => rec' = rec \/ DeletePod
  <2>1. CASE CreatePvc \/ DeletePod \/ rec' = rec
    <3>1. CreatePvc => rec'.pc # "deletePvc"
      BY <1>0 DEF CreatePvc, Reconcile
    <3>2. DeletePod => rec'.pc # "createPod"
      BY <1>0 DEF DeletePod, Reconcile
    <3> QED BY <2>1, <3>1, <3>2
  <2>2. CASE StartCycle \/ ReconcilePool \/ CreatePod \/ ScaleDown \/ ListOrphans \/ DeletePvc \/ EndDelete \/ Restart
    <3>1. rec'.pc \notin {"createPod", "deletePvc"}
      <4>1. CASE StartCycle
        BY <4>1 DEF StartCycle, Idle
      <4>2. CASE ReconcilePool
        <5>1. \E e, step : /\ step \in {"scale", "create", "pools"}
                           /\ rec' = [rec EXCEPT !.pc = step, !.todo = @ \ {e}, !.template = e[1], !.target = e[2]]
          BY <4>2 DEF ReconcilePool
        <5> QED BY <1>0, <5>1 DEF Reconcile
      <4>3. CASE CreatePod \/ ScaleDown \/ ListOrphans
        BY <1>0, <4>3 DEF CreatePod, ScaleDown, ListOrphans, Reconcile
      <4>4. CASE DeletePvc
        BY <1>0, <4>4 DEF DeletePvc, Reconcile
      <4>5. CASE EndDelete
        <5>1. rec' = Idle \/ rec' = [rec EXCEPT !.pc = "pools", !.victims = {}, !.excess = 0]
          BY <4>5 DEF EndDelete
        <5> QED BY <1>0, <5>1 DEF Reconcile
      <4>6. CASE Restart
        BY <1>0, <4>6 DEF Restart
      <4> QED BY <2>2, <4>1, <4>2, <4>3, <4>4, <4>5, <4>6
    <3> QED BY <3>1
  <2>3. CASE \/ \E s \in Sandboxes : Claimer(s) \/ ClaimFails(s)
             \/ SetConfig \/ Cluster \/ UNCHANGED vars
    <3>1. rec' = rec
      BY <2>3 DEF Claimer, ListReady, Walk, EndWalk, Adopt, ClaimFails, SetConfig, Cluster, SyncPods,
                  PodReady, PodFails, PodGone, vars
    <3> QED BY <3>1
  <2> QED BY <2>1, <2>2, <2>3 DEF Next, PoolLoop
\* What a step does to a volume.
<1>3. \/ vols' = vols
      \/ \E n \in PodNames : vols' = [vols EXCEPT ![n] = "bound"]
      \/ rec.pc = "deletePvc" /\ vols' = [vols EXCEPT ![rec.name] = IF @ = "none" \/ pods[rec.name].st = "absent" THEN "none" ELSE "dying"]
      \/ \E n \in PodNames : /\ pods[n].term /\ pods' = [pods EXCEPT ![n] = NoPod]
                             /\ vols' = [vols EXCEPT ![n] = IF @ = "dying" THEN "none" ELSE @]
  BY DEF Next, vars, PoolLoop, StartCycle, ReconcilePool, CreatePvc, CreatePod, ScaleDown, ListOrphans, DeletePod,
         DeletePvc, EndDelete, Claimer, ListReady, Walk, EndWalk, Adopt, ClaimFails, Restart, SetConfig, Cluster,
         SyncPods, PodReady, PodFails, PodGone
<1>4. LivePodsKeepVolumes'
  <2> SUFFICES ASSUME NEW n \in PodNames, Live(n)' PROVE vols'[n] = "bound"
    BY DEF LivePodsKeepVolumes
  <2>1. vols[n] = "bound"
    BY <1>1 DEF VolumesHeld, LivePodsKeepVolumes
  <2>2. rec.pc = "deletePvc" => rec.name # n
    BY <1>1 DEF VolumesHeld
  <2> QED BY <1>0, <1>3, <2>1, <2>2
<1>5. rec'.pc = "createPod" => vols'[rec'.name] = "bound"
  <2> SUFFICES ASSUME rec'.pc = "createPod" PROVE vols'[rec'.name] = "bound"
    OBVIOUS
  <2>1. CASE rec' = rec
    <3>1. rec.name \in PodNames /\ vols[rec.name] = "bound" /\ pods[rec.name] = NoPod
      BY <2>1 DEF VolumesHeld, Counting, Exclusive
    <3> QED BY <1>0, <1>3, <2>1, <3>1
  <2>2. CASE CreatePvc
    <3>1. PICK n \in PodNames : vols' = [vols EXCEPT ![n] = "bound"] /\ rec' = [rec EXCEPT !.pc = "createPod", !.name = n]
      BY <1>0, <2>2 DEF CreatePvc, Reconcile
    <3> QED BY <1>0, <3>1 DEF Reconcile
  <2> QED BY <1>2, <2>1, <2>2
<1>6. rec'.pc = "deletePvc" => pods'[rec'.name].st = "absent" \/ pods'[rec'.name].term
  <2> SUFFICES ASSUME rec'.pc = "deletePvc" PROVE ~Live(rec.name)'
    OBVIOUS
  <2>1. CASE rec' = rec
    <3>1. rec.name \in PodNames /\ ~Live(rec.name)
      BY <2>1 DEF VolumesHeld, Counting
    <3> QED BY <1>1, <2>1, <3>1
  <2>2. CASE DeletePod
    <3>1. PICK n \in PodNames : /\ pods' = IF pods[n].st = "absent" THEN pods ELSE [pods EXCEPT ![n].term = TRUE]
                                /\ rec' = [rec EXCEPT !.pc = "deletePvc", !.victims = @ \ {n}, !.name = n]
      BY <1>0, <2>2 DEF DeletePod, Reconcile
    <3>2. rec'.name = n
      BY <1>0, <3>1 DEF Reconcile
    <3>3. ~Live(n)'
      BY <1>0, <3>1 DEF Pod
    <3> QED BY <3>2, <3>3
  <2> QED BY <1>2, <2>1, <2>2
<1> QED BY <1>4, <1>5, <1>6 DEF VolumesHeld

\* deletePodAndPVC takes the volume only after the pod: in every execution a
\* pod that is not terminating has its volume, whether it was warmed, claimed
\* or adopted (pool.go:798-814).
THEOREM VolumesAreKept == Spec => []LivePodsKeepVolumes
<1>1. Init => TypeOK /\ Counting /\ Exclusive /\ VolumesHeld
  BY TypeInit, ExclusiveInit, VolumesInit
<1>2. TypeOK /\ Counting /\ Exclusive /\ VolumesHeld /\ [Next]_vars
        => (TypeOK /\ Counting /\ Exclusive /\ VolumesHeld)'
  BY TypeStep, ExclusiveStep, VolumesStep
<1>3. VolumesHeld => LivePodsKeepVolumes
  BY DEF VolumesHeld
<1> QED BY <1>1, <1>2, <1>3, PTL DEF Spec

-----------------------------------------------------------------------------
(* The size of a pool.  The loop creates one pod per entry, for an entry    *)
(* that asks for more than the cache showed; what it may still create is    *)
(* bounded by the entries to come that ask for more than the cache shows,   *)
(* and by those that ask for more than there is, whichever is more.         *)

\* The targets to come for t that exceed x.
Due(todo, t, x) == {d \in (x + 1)..MaxDesired : <<t, d>> \in todo}

\* n pods, k about to be created, and what may be created at size x.
Fits(todo, t, x, n, k) == n + k + Cardinality(Due(todo, t, x)) <= MaxDesired

LEMMA DueCount ==
  ASSUME NEW todo, NEW t, NEW x \in Nat
  PROVE  /\ IsFiniteSet(Due(todo, t, x)) /\ Cardinality(Due(todo, t, x)) \in Nat
         /\ x <= MaxDesired => x + Cardinality(Due(todo, t, x)) <= MaxDesired
<1>1. /\ IsFiniteSet((x + 1)..MaxDesired)
      /\ Cardinality((x + 1)..MaxDesired) = IF x + 1 > MaxDesired THEN 0 ELSE MaxDesired - (x + 1) + 1
  BY NumbersAssumption, FS_Interval
<1>2. Due(todo, t, x) \in SUBSET ((x + 1)..MaxDesired)
  BY DEF Due
<1>3. /\ IsFiniteSet(Due(todo, t, x)) /\ Cardinality(Due(todo, t, x)) \in Nat
      /\ Cardinality(Due(todo, t, x)) <= Cardinality((x + 1)..MaxDesired)
  BY <1>1, <1>2, FS_Subset, FS_CardinalityType
<1> QED BY <1>1, <1>3, NumbersAssumption

\* Fewer entries, or a larger size, leave less to create.
LEMMA DueShrinks ==
  ASSUME NEW todo, NEW left \in SUBSET todo, NEW t, NEW x \in Nat, NEW y \in Nat, x <= y
  PROVE  Cardinality(Due(left, t, y)) <= Cardinality(Due(todo, t, x))
<1>1. Due(left, t, y) \in SUBSET Due(todo, t, x)
  BY NumbersAssumption DEF Due
<1> QED BY <1>1, DueCount, FS_Subset

\* A pod less leaves at most one more to create: the targets differ.
LEMMA DueGrows ==
  ASSUME NEW todo, NEW t, NEW x \in Nat, NEW y \in Nat, y <= x
  PROVE  y + Cardinality(Due(todo, t, y)) <= x + Cardinality(Due(todo, t, x))
<1> DEFINE D == Due(todo, t, x)
           I == (y + 1)..x
<1>1. /\ IsFiniteSet(D) /\ Cardinality(D) \in Nat
      /\ IsFiniteSet(I) /\ Cardinality(I) = x - y
  BY DueCount, FS_Interval
<1>2. Due(todo, t, y) \in SUBSET (D \union I)
  BY NumbersAssumption DEF Due
<1> HIDE DEF D, I
<1>3. /\ IsFiniteSet(D \union I)
      /\ Cardinality(D \union I) = Cardinality(D) + Cardinality(I) - Cardinality(D \intersect I)
  BY <1>1, FS_Union
<1>4. Cardinality(D \intersect I) \in Nat
  <2>1. D \intersect I \in SUBSET D
    OBVIOUS
  <2> QED BY <1>1, <2>1, FS_Subset, FS_CardinalityType
<1>5. Cardinality(Due(todo, t, y)) <= Cardinality(D \union I) /\ Cardinality(Due(todo, t, y)) \in Nat
  BY <1>2, <1>3, DueCount, FS_Subset
<1>6. Cardinality(D \union I) <= Cardinality(D) + (x - y)
  BY <1>1, <1>3, <1>4
<1>7. Cardinality(Due(todo, t, y)) <= Cardinality(D) + (x - y)
  <2>1. Cardinality(D \union I) \in Nat
    BY <1>3, FS_CardinalityType
  <2> QED BY <1>1, <1>5, <1>6, <2>1
<1>8. y + Cardinality(Due(todo, t, y)) <= x + Cardinality(D)
  BY <1>1, <1>5, <1>7
<1> QED BY <1>8 DEF D

\* An entry that was taken is not to come any more.
LEMMA DueTaken ==
  ASSUME NEW todo, NEW t, NEW x \in Nat, NEW d \in (x + 1)..MaxDesired, <<t, d>> \in todo
  PROVE  Cardinality(Due(todo \ {<<t, d>>}, t, x)) = Cardinality(Due(todo, t, x)) - 1
<1>1. Due(todo \ {<<t, d>>}, t, x) = Due(todo, t, x) \ {d} /\ d \in Due(todo, t, x)
  BY DEF Due
<1> QED BY <1>1, DueCount, FS_RemoveElement

\* The room of a pool, with n pods of which the cache shows s.
Room(todo, t, s, n, k) == Fits(todo, t, s, n, k) /\ Fits(todo, t, n, n, k)

\* Pods leave the pool, entries are done with, a creation is given up.
LEMMA RoomShrinks ==
  ASSUME NEW todo, NEW left \in SUBSET todo, NEW t, NEW s \in Nat, NEW n \in Nat, NEW m \in Nat,
         NEW k \in {0, 1}, NEW j \in {0, 1}, m <= n, j <= k, Room(todo, t, s, n, k)
  PROVE  Room(left, t, s, m, j)
<1>1. /\ Cardinality(Due(left, t, s)) <= Cardinality(Due(todo, t, s))
      /\ Cardinality(Due(left, t, m)) <= Cardinality(Due(todo, t, m))
      /\ m + Cardinality(Due(todo, t, m)) <= n + Cardinality(Due(todo, t, n))
  BY DueShrinks, DueGrows
<1>2. /\ Cardinality(Due(left, t, s)) \in Nat /\ Cardinality(Due(todo, t, s)) \in Nat
      /\ Cardinality(Due(left, t, m)) \in Nat /\ Cardinality(Due(todo, t, m)) \in Nat
      /\ Cardinality(Due(todo, t, n)) \in Nat /\ MaxDesired \in Nat
  BY DueCount, NumbersAssumption
<1>3. /\ n + k + Cardinality(Due(todo, t, s)) <= MaxDesired
      /\ n + k + Cardinality(Due(todo, t, n)) <= MaxDesired
  BY DEF Room, Fits
<1>4. m + j + Cardinality(Due(left, t, s)) <= MaxDesired
  BY <1>1, <1>2, <1>3
<1>5. m + j + Cardinality(Due(left, t, m)) <= MaxDesired
  BY <1>1, <1>2, <1>3
<1> QED BY <1>4, <1>5 DEF Room, Fits

\* The pod that was about to be created exists.
LEMMA RoomCreates ==
  ASSUME NEW todo, NEW t, NEW s \in Nat, NEW n \in Nat, Room(todo, t, s, n, 1)
  PROVE  Room(todo, t, s, n + 1, 0)
<1>1. Cardinality(Due(todo, t, n + 1)) <= Cardinality(Due(todo, t, n))
  BY DueShrinks
<1>2. /\ Cardinality(Due(todo, t, s)) \in Nat /\ Cardinality(Due(todo, t, n)) \in Nat
      /\ Cardinality(Due(todo, t, n + 1)) \in Nat /\ MaxDesired \in Nat
  BY DueCount, NumbersAssumption
<1> QED BY <1>1, <1>2 DEF Room, Fits

\* An entry asks for more than the cache shows: one is about to be created.
LEMMA RoomTaken ==
  ASSUME NEW todo, NEW t, NEW s \in Nat, NEW n \in Nat, NEW d \in 0..MaxDesired,
         <<t, d>> \in todo, s < d, Room(todo, t, s, n, 0)
  PROVE  Room(todo \ {<<t, d>>}, t, s, n, 1)
<1> DEFINE left == todo \ {<<t, d>>}
           ds == Cardinality(Due(todo, t, s))
           dn == Cardinality(Due(todo, t, n))
<1>1. Cardinality(Due(left, t, s)) = ds - 1
  BY NumbersAssumption, DueTaken
<1>2. ds \in Nat /\ dn \in Nat /\ MaxDesired \in Nat
  BY DueCount, NumbersAssumption
<1>3. n + ds <= MaxDesired /\ n + dn <= MaxDesired
  BY <1>2 DEF Room, Fits
<1>4. Fits(left, t, s, n, 1)
  <2> HIDE DEF left, ds
  <2> QED BY <1>1, <1>2, <1>3 DEF Fits
<1>5. Fits(left, t, n, n, 1)
  <2>1. CASE n < d
    <3>1. Cardinality(Due(left, t, n)) = dn - 1
      BY <2>1, NumbersAssumption, DueTaken
    <3> HIDE DEF left, dn
    <3> QED BY <1>2, <1>3, <3>1 DEF Fits
  <2>2. CASE ~(n < d)
    <3>1. Cardinality(Due(left, t, n)) <= Cardinality(Due(left, t, s))
      BY <2>2, NumbersAssumption, DueShrinks
    <3>2. Cardinality(Due(left, t, n)) \in Nat
      BY DueCount
    <3> HIDE DEF left, ds
    <3> QED BY <1>1, <1>2, <1>3, <3>1, <3>2 DEF Fits
  <2> QED BY <2>1, <2>2
<1> QED BY <1>4, <1>5 DEF Room

Size(t) == Cardinality(PoolPods(pods, t))
Seen(t) == Cardinality(PoolPods(podSeen, t))
Creating(t) == IF rec.pc \in {"create", "createPod"} /\ rec.template = t THEN 1 ELSE 0

PoolsFit == \A t \in Templates : Room(rec.todo, t, Seen(t), Size(t), Creating(t))

LEMMA SizesCount == \A t : Size(t) \in Nat /\ Seen(t) \in Nat /\ Creating(t) \in {0, 1}
BY PoolPodsCount DEF Size, Seen, Creating

LEMMA PoolsFitInit == Init => PoolsFit
<1> SUFFICES ASSUME Init, NEW t \in Templates PROVE Room(rec.todo, t, Seen(t), Size(t), Creating(t))
  BY DEF PoolsFit
<1>1. PoolPods(pods, t) = {} /\ PoolPods(podSeen, t) = {}
  BY NoneAssumption DEF Init, NoPod, PoolPods
<1>2. Size(t) = 0 /\ Seen(t) = 0 /\ Creating(t) = 0
  BY <1>1, FS_EmptySet DEF Size, Seen, Creating, Init, Idle
<1>3. Cardinality(Due(rec.todo, t, 0)) <= MaxDesired /\ Cardinality(Due(rec.todo, t, 0)) \in Nat
  BY DueCount, NumbersAssumption
<1> QED BY <1>2, <1>3 DEF Room, Fits

\* Only CreatePod puts a pod into a pool.
LEMMA SizeSteps ==
  ASSUME TypeOK, Counting, [Next]_vars, NEW t \in Templates
  PROVE  /\ Size(t)' \in Nat
         /\ Size(t)' <= Size(t) \/ (CreatePod /\ rec.template = t /\ Size(t)' <= Size(t) + 1)
<1>1. \A n \in PodNames : pods'[n].template = t =>
        pods[n].template = t \/ (CreatePod /\ n = rec.name /\ rec.template = t)
  BY PodSteps, NoneAssumption DEF Edited, Created, NoPod
<1>2. IsFiniteSet(PoolPods(pods, t)) /\ PoolPods(pods, t)' \in SUBSET PodNames
  BY NamesAssumption, FS_Subset DEF PoolPods
<1>3. Size(t)' \in Nat
  BY <1>2, SubsetCardinality DEF Size
<1>4. CASE CreatePod /\ rec.template = t
  <2>1. PoolPods(pods, t)' \in SUBSET (PoolPods(pods, t) \union {rec.name})
    BY <1>1 DEF PoolPods
  <2>2. /\ IsFiniteSet(PoolPods(pods, t) \union {rec.name})
        /\ Cardinality(PoolPods(pods, t) \union {rec.name}) \in {Size(t), Size(t) + 1}
    BY <1>2, FS_AddElement DEF Size
  <2>3. Cardinality(PoolPods(pods, t)') <= Cardinality(PoolPods(pods, t) \union {rec.name})
    BY <2>1, <2>2, FS_Subset
  <2> QED BY <1>3, <1>4, <2>2, <2>3, SizesCount DEF Size
<1>5. CASE ~(CreatePod /\ rec.template = t)
  <2>1. PoolPods(pods, t)' \in SUBSET PoolPods(pods, t)
    BY <1>1, <1>5 DEF PoolPods
  <2> QED BY <1>2, <1>3, <2>1, FS_Subset DEF Size
<1> QED BY <1>4, <1>5

\* Whatever the loop does outside StartCycle and ReconcilePool, it takes up no
\* entry and starts no creation.
LEMMA LoopWindsDown ==
  ASSUME TypeOK, Counting, [Next]_vars, ~StartCycle, ~ReconcilePool
  PROVE  /\ rec'.todo \in SUBSET rec.todo
         /\ rec'.pc \in {"create", "createPod"} => rec.pc \in {"create", "createPod"} /\ rec'.template = rec.template
<1>0. rec \in Reconcile
  BY DEF TypeOK
<1>1. CASE rec' = rec
  BY <1>1
<1>2. CASE CreatePvc \/ CreatePod \/ ScaleDown \/ ListOrphans \/ DeletePvc
  BY <1>0, <1>2 DEF CreatePvc, CreatePod, ScaleDown, ListOrphans, DeletePvc, Reconcile
<1>3. CASE DeletePod
  BY <1>0, <1>3 DEF DeletePod, Reconcile
<1>4. CASE EndDelete \/ Restart
  <2>1. rec' = Idle \/ rec' = [rec EXCEPT !.pc = "pools", !.victims = {}, !.excess = 0]
    BY <1>4 DEF EndDelete, Restart
  <2>2. Idle.todo = {} /\ Idle.pc = "idle"
    BY DEF Idle
  <2> QED BY <1>0, <2>1, <2>2 DEF Reconcile
<1>5. CASE \/ \E s \in Sandboxes : Claimer(s) \/ ClaimFails(s)
           \/ SetConfig \/ Cluster \/ UNCHANGED vars
  <2>1. rec' = rec
    BY <1>5 DEF Claimer, ListReady, Walk, EndWalk, Adopt, ClaimFails, SetConfig, Cluster, SyncPods,
                PodReady, PodFails, PodGone, vars
  <2> QED BY <1>1, <2>1
<1> QED BY <1>2, <1>3, <1>4, <1>5 DEF Next, PoolLoop

LEMMA PoolsFitStep ==
  ASSUME TypeOK, Counting, PoolsFit, [Next]_vars
  PROVE  PoolsFit'
<1> SUFFICES ASSUME NEW t \in Templates
             PROVE  Room(rec'.todo, t, Seen(t)', Size(t)', Creating(t)')
  BY DEF PoolsFit
<1>a. PICK todo, left : todo = rec.todo /\ left = rec'.todo
  OBVIOUS
<1>0. PICK n \in Nat, s \in Nat, k \in {0, 1}, m \in Nat, j \in {0, 1} :
        /\ n = Size(t) /\ s = Seen(t) /\ k = Creating(t) /\ m = Size(t)' /\ j = Creating(t)'
        /\ todo = rec.todo /\ left = rec'.todo
  BY <1>a, SizesCount, SizeSteps DEF Creating
<1>1. Room(todo, t, s, n, k)
  BY <1>0 DEF PoolsFit
<1>2. rec \in Reconcile /\ todo \in SUBSET (Templates \X (0..MaxDesired))
  BY <1>0 DEF TypeOK, Reconcile
<1>3. m <= n \/ (CreatePod /\ rec.template = t /\ m <= n + 1)
  BY <1>0, SizeSteps
<1> SUFFICES Room(left, t, Seen(t)', m, j)
  BY <1>0
\* The cycle starts with what there is in the cache.
<1>4. CASE StartCycle
  <2>1. j = 0 /\ m = n /\ Seen(t)' = n
    BY <1>0, <1>4 DEF StartCycle, Idle, Creating, Size, Seen
  <2>2. n <= MaxDesired
    <3>1. Cardinality(Due(todo, t, n)) \in Nat /\ n + k + Cardinality(Due(todo, t, n)) <= MaxDesired
      BY <1>1, DueCount DEF Room, Fits
    <3> QED BY <3>1, NumbersAssumption
  <2>3. n + 0 + Cardinality(Due(left, t, n)) <= MaxDesired
    <3>1. n + Cardinality(Due(left, t, n)) <= MaxDesired /\ Cardinality(Due(left, t, n)) \in Nat
      BY <2>2, DueCount
    <3> QED BY <3>1
  <2> QED BY <2>1, <2>3 DEF Room, Fits
\* An entry is compared with the cache.
<1>5. CASE ReconcilePool
  <2>1. PICK e \in todo, step \in {"scale", "create", "pools"} :
          /\ rec' = [rec EXCEPT !.pc = step, !.todo = @ \ {e}, !.template = e[1], !.target = e[2]]
          /\ step = "create" => Cardinality(PoolPods(podSeen, e[1])) < e[2]
    BY <1>0, <1>5 DEF ReconcilePool
  <2>2. e[1] \in Templates /\ e[2] \in 0..MaxDesired /\ e = <<e[1], e[2]>>
    BY <1>2
  <2>3. rec'.pc = step /\ rec'.todo = todo \ {e} /\ rec'.template = e[1] /\ rec.pc = "pools"
    BY <1>0, <1>2, <1>5, <2>1 DEF Reconcile, ReconcilePool
  <2>4. left = todo \ {e} /\ k = 0 /\ m = n /\ Seen(t)' = s
    BY <1>0, <1>5, <2>3 DEF ReconcilePool, Creating, Size, Seen
  <2>5. CASE step = "create" /\ e[1] = t
    <3>1. j = 1 /\ s < e[2] /\ e = <<t, e[2]>>
      BY <1>0, <2>1, <2>2, <2>3, <2>5 DEF Creating, Seen
    <3> QED BY <1>1, <2>2, <2>4, <3>1, RoomTaken
  <2>6. CASE ~(step = "create" /\ e[1] = t)
    <3>1. j = 0
      BY <1>0, <2>3, <2>6 DEF Creating
    <3>2. left \in SUBSET todo
      BY <2>4
    <3> QED BY <1>1, <2>4, <3>1, <3>2, RoomShrinks
  <2> QED BY <2>5, <2>6
\* The informer catches up.
<1>6. CASE SyncPods
  <2>1. Seen(t)' = n /\ m = n /\ j = k /\ left = todo
    BY <1>0, <1>6 DEF SyncPods, Seen, Size, Creating
  <2> QED BY <1>1, <2>1 DEF Room
\* Everything else only takes pods out, but for CreatePod.
<1>7. CASE ~StartCycle /\ ~ReconcilePool /\ ~SyncPods
  <2>1. Seen(t)' = s
    <3>1. podSeen' = podSeen
      BY <1>7 DEF Next, vars, PoolLoop, CreatePvc, CreatePod, ScaleDown, ListOrphans, DeletePod, DeletePvc, EndDelete,
                  Claimer, ListReady, Walk, EndWalk, Adopt, ClaimFails, Restart, SetConfig, Cluster,
                  PodReady, PodFails, PodGone
    <3> QED BY <1>0, <3>1 DEF Seen
  <2>2. left \in SUBSET todo /\ j <= k
    BY <1>0, <1>7, LoopWindsDown DEF Creating
  <2>3. CASE CreatePod /\ rec.template = t
    <3>1. k = 1 /\ j = 0
      BY <1>0, <1>2, <2>3 DEF CreatePod, Creating, Reconcile
    <3>2. Room(todo, t, s, n + 1, 0)
      BY <1>1, <3>1, RoomCreates
    <3>3. m <= n + 1 /\ n + 1 \in Nat
      BY <1>3
    <3> QED BY <2>1, <2>2, <3>1, <3>2, <3>3, RoomShrinks
  <2>4. CASE ~(CreatePod /\ rec.template = t)
    <3>1. m <= n
      BY <1>3, <2>4
    <3> QED BY <1>1, <2>1, <2>2, <3>1, RoomShrinks
  <2> QED BY <2>3, <2>4
<1> QED BY <1>4, <1>5, <1>6, <1>7

\* reconcilePool creates at most what the largest configuration asks for: in
\* every execution, for every set of configurations - several entries for one
\* template included - and however stale the cache it counts in
\* (pool.go:285-303, reconcilePool).
THEOREM PoolsStayBounded == Spec => []PoolStaysBounded
<1>1. Init => TypeOK /\ Counting /\ PoolsFit
  BY TypeInit, PoolsFitInit
<1>2. TypeOK /\ Counting /\ PoolsFit /\ [Next]_vars => (TypeOK /\ Counting /\ PoolsFit)'
  BY TypeStep, PoolsFitStep
<1>3. PoolsFit => PoolStaysBounded
  <2> SUFFICES ASSUME PoolsFit, NEW t \in Templates PROVE Size(t) <= MaxDesired
    BY DEF PoolStaysBounded, Size
  <2>1. /\ Size(t) \in Nat /\ Creating(t) \in Nat /\ Cardinality(Due(rec.todo, t, Size(t))) \in Nat
        /\ Size(t) + Creating(t) + Cardinality(Due(rec.todo, t, Size(t))) <= MaxDesired
    BY SizesCount, DueCount DEF PoolsFit, Room, Fits
  <2> QED BY <2>1, NumbersAssumption
<1> QED BY <1>1, <1>2, <1>3, PTL DEF Spec
=============================================================================
