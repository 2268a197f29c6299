----------------------- MODULE WebhookDelivery_proofs -----------------------
(***************************************************************************)
(* Proofs about WebhookDelivery, for every number of events, subscriptions *)
(* and faults: the variables keep their types, a subscription is disabled  *)
(* only after Threshold failures in a row, and an event is sent only when  *)
(* it is due.                                                              *)
(***************************************************************************)
EXTENDS WebhookDelivery, WellFoundedInduction, TLAPS

USE NumbersAssumption

-----------------------------------------------------------------------------
(* Numbers and lists.                                                      *)

\* listNewEvents: a listing has a latest time.
LEMMA MaximumExists ==
  ASSUME NEW N \in Nat, NEW S \in SUBSET (0..N), S # {}
  PROVE  \E t \in S : \A u \in S : u <= t
<1> DEFINE T == {n \in 0..N : N - n \in S}
<1>1. T \in SUBSET Nat
  OBVIOUS
<1>2. T # {}
  <2>1. PICK t \in S : TRUE
    OBVIOUS
  <2>2. N - t \in 0..N /\ N - (N - t) = t
    BY <2>1
  <2> QED BY <2>1, <2>2
<1>3. PICK x \in T : \A y \in T : ~(<<y, x>> \in OpToRel(<, Nat))
  BY <1>1, <1>2, NatLessThanWellFounded, WFMin, Zenon
<1>4. \A y \in T : ~(y < x)
  BY <1>1, <1>3 DEF OpToRel
<1>5. ASSUME NEW u \in S
      PROVE  u <= N - x
  <2>1. N - u \in T
    OBVIOUS
  <2>2. ~(N - u < x)
    BY <2>1, <1>4
  <2> QED BY <2>2
<1> QED BY <1>3, <1>5

\* The second of a time is not after it.
LEMMA SecondType == ASSUME NEW t \in Times PROVE Second(t) \in Times
<1>1. t % SecondLength \in 0..t
  BY DEF Times
<1> QED BY <1>1 DEF Second, Times

\* RecordAttempt: one more outcome, and the list stays within its bound.
LEMMA TrimmedAppend ==
  ASSUME NEW h \in Histories, NEW o \in Outcomes
  PROVE  /\ Trim(Append(h, o)) \in Histories
         /\ Trim(Append(h, o)) =
              IF Len(h) < MaxHistory THEN Append(h, o) ELSE Tail(Append(h, o))
<1>1. h \in Seq(Outcomes) /\ Len(h) \in 0..MaxHistory
  BY DEF Histories
<1>2. /\ Append(h, o) \in Seq(Outcomes) /\ Len(Append(h, o)) = Len(h) + 1
  BY <1>1
<1>3. CASE Len(h) < MaxHistory
  BY <1>1, <1>2, <1>3 DEF Trim, Histories
<1>4. CASE Len(h) = MaxHistory
  <2>1. Tail(Append(h, o)) \in Seq(Outcomes) /\ Len(Tail(Append(h, o))) = MaxHistory
    BY <1>1, <1>2, <1>4
  <2> QED BY <1>1, <1>2, <1>4, <2>1 DEF Trim, Histories
<1> QED BY <1>1, <1>3, <1>4

-----------------------------------------------------------------------------
(* Types.                                                                  *)

\* A pass that records or disables has a subscription at work, and one that
\* still delivers has an event.
AtWork ==
  /\ pass.pc \in {"record", "disable"} => pass.to \in Subs
  /\ pass.left # {} => pass.event \in Occurrences

LEMMA TypeInit == Init => TypeOK /\ AtWork
<1> SUFFICES ASSUME Init PROVE TypeOK /\ AtWork
  OBVIOUS
<1>1. <<>> \in Histories
  BY DEF Histories
<1>2. cm \in State
  BY <1>1 DEF Init, State, TimeOrNone
<1>3. cached \in CursorState
  BY DEF Init, CursorState, CursorOf, TimeOrNone
<1>4. pass \in Pass /\ AtWork
  BY DEF Init, NoPass, Pass, Outcomes, TimeOrNone, AtWork
<1>5. /\ now \in Times /\ faults \in 0..MaxFaults
      /\ start \in [cursor : TimeOrNone, backlog : SUBSET Occurrences]
  BY DEF Init, Times, TimeOrNone
<1>6. /\ shown \in [Events -> TimeOrNone] /\ due \in [Events -> TimeOrNone]
      /\ sub \in [Subs -> {"none", "active", "disabled", "deleted"}]
      /\ sent \in [Events -> [Subs -> 0..2]]
  BY DEF Init, TimeOrNone
<1>7. gone \in BOOLEAN /\ fresh \in BOOLEAN /\ slipped \in BOOLEAN
  BY DEF Init
<1> QED BY <1>2, <1>3, <1>4, <1>5, <1>6, <1>7 DEF TypeOK

LEMMA ListedTypes ==
  ASSUME TypeOK
  PROVE  /\ MaxSeen \in Times
         /\ AsListed(Listed) \in SUBSET Occurrences
         /\ AsListed(NewEvents) \in SUBSET Occurrences
         /\ AtMaxSecond \in SUBSET Events /\ NextSeen \in SUBSET Events
<1>1. \A e \in Listed : e \in Events /\ shown[e] \in Times
  BY DEF TypeOK, Listed, TimeOrNone
<1> DEFINE times == {shown[e] : e \in Listed} \union ({cached.cursor} \ {None})
<1>2. MaxSeen \in Times
  <2>1. times \in SUBSET (0..MaxTime)
    BY <1>1 DEF TypeOK, CursorState, TimeOrNone, Times
  <2>2. CASE times = {}
    BY <2>2 DEF MaxSeen, TypeOK
  <2>3. CASE times # {}
    <3>1. \E t \in times : \A u \in times : u <= t
      <4> HIDE DEF times
      <4> QED BY <2>1, <2>3, MaximumExists
    <3>2. MaxSeen \in times
      BY <2>3, <3>1 DEF MaxSeen
    <3> QED BY <2>1, <3>2 DEF Times
  <2> QED BY <2>2, <2>3
<1>3. /\ AsListed(Listed) \in SUBSET Occurrences
      /\ AsListed(NewEvents) \in SUBSET Occurrences
  BY <1>1 DEF AsListed, NewEvents, Occurrences
<1>4. AtMaxSecond \in SUBSET Events /\ NextSeen \in SUBSET Events
  BY <1>1 DEF AtMaxSecond, NextSeen, TypeOK, CursorState
<1> QED BY <1>2, <1>3, <1>4

LEMMA CountedType ==
  ASSUME cm \in State, NEW s \in Subs, NEW o \in Outcomes
  PROVE  /\ Counted(s, o) \in State
         /\ Counted(s, o).history = [cm.history EXCEPT ![s] = Trim(Append(@, o))]
         /\ Counted(s, o).failures =
              [cm.failures EXCEPT ![s] = IF o = "delivered" THEN 0
                                         ELSE IF @ = Threshold THEN @ ELSE @ + 1]
<1>1. cm.history \in [Subs -> Histories] /\ cm.failures \in [Subs -> 0..Threshold]
  BY DEF State
<1>2. Trim(Append(cm.history[s], o)) \in Histories
  BY <1>1, TrimmedAppend
<1>3. [cm.history EXCEPT ![s] = Trim(Append(@, o))] \in [Subs -> Histories]
  BY <1>1, <1>2
<1>4. [cm.failures EXCEPT ![s] = IF o = "delivered" THEN 0
                                 ELSE IF @ = Threshold THEN @ ELSE @ + 1]
        \in [Subs -> 0..Threshold]
  BY <1>1
<1> QED BY <1>3, <1>4 DEF Counted, State

\* What the loop does to its own state.
LEMMA LoopTypes ==
  ASSUME TypeOK, AtWork, RunOnce
  PROVE  /\ cm' \in State /\ cached' \in CursorState /\ fresh' \in BOOLEAN
         /\ pass' \in Pass /\ AtWork'
<1> USE DEF TypeOK, AtWork
<1>1. CASE Bootstrap
  BY <1>1, ListedTypes DEF Bootstrap, State, TimeOrNone
<1>2. CASE StartPass
  BY <1>2, ListedTypes DEF StartPass, NoPass, Pass, TimeOrNone, Outcomes
<1>3. CASE NextEvent
  <2> PICK e \in pass.todo :
        pass' = [pass EXCEPT !.todo = @ \ {e}, !.event = e, !.left = pass.subs]
    BY <1>3 DEF NextEvent
  <2>1. e \in Occurrences
    BY DEF Pass
  <2>2. pass' \in Pass /\ AtWork'
    BY <1>3, <2>1 DEF NextEvent, Pass
  <2> QED BY <1>3, <2>2 DEF NextEvent
<1>4. CASE Deliver
  <2> PICK s \in pass.left :
        \/ pass' = [pass EXCEPT !.left = @ \ {s}]
        \/ \E o \in Outcomes : pass' = [pass EXCEPT !.pc = "record", !.left = @ \ {s},
                                                    !.to = s, !.outcome = o]
    BY <1>4 DEF Deliver
  <2>1. s \in Subs /\ pass.event \in Occurrences
    BY DEF Pass
  <2>2. pass' \in Pass
    <3>1. CASE pass' = [pass EXCEPT !.left = @ \ {s}]
      BY <3>1 DEF Pass
    <3>2. ASSUME NEW o \in Outcomes,
                 pass' = [pass EXCEPT !.pc = "record", !.left = @ \ {s},
                                      !.to = s, !.outcome = o]
          PROVE  pass' \in Pass
      BY <2>1, <3>2 DEF Pass
    <3> QED BY <3>1, <3>2
  <2>3. AtWork'
    BY <1>4, <2>1 DEF Deliver, Pass
  <2> QED BY <1>4, <2>2, <2>3 DEF Deliver
<1>5. CASE Record
  <2>1. pass.to \in Subs /\ pass.outcome \in Outcomes
    BY <1>5 DEF Record, Pass
  <2>2. Counted(pass.to, pass.outcome) \in State
    BY <2>1, CountedType
  <2>3. cm' = Counted(pass.to, pass.outcome) \/ cm' = cm
    BY <1>5 DEF Record
  <2>4. fresh' = FALSE \/ fresh' = fresh
    BY <1>5 DEF Record
  <2>5. pass' \in Pass /\ AtWork'
    BY <1>5 DEF Record, Pass
  <2> QED BY <1>5, <2>2, <2>3, <2>4, <2>5 DEF Record
<1>6. CASE Disable
  BY <1>6 DEF Disable, Pass
<1>7. CASE SaveCursor
  <2>1. cm' \in State
    BY <1>7 DEF SaveCursor, State, Pass
  <2>2. pass' \in Pass /\ AtWork'
    BY <1>7 DEF SaveCursor, NoPass, Pass, TimeOrNone, Outcomes
  <2> QED BY <1>7, <2>1, <2>2 DEF SaveCursor
<1> QED BY <1>1, <1>2, <1>3, <1>4, <1>5, <1>6, <1>7 DEF RunOnce

\* What the loop does to the rest.
LEMMA LoopEffects ==
  ASSUME TypeOK, AtWork, RunOnce
  PROVE  /\ now' \in Times /\ shown' \in [Events -> TimeOrNone]
         /\ due' \in [Events -> TimeOrNone] /\ gone' \in BOOLEAN
         /\ sub' \in [Subs -> {"none", "active", "disabled", "deleted"}]
         /\ sent' \in [Events -> [Subs -> 0..2]]
         /\ start' \in [cursor : TimeOrNone, backlog : SUBSET Occurrences]
         /\ slipped' \in BOOLEAN /\ faults' \in 0..MaxFaults
<1> USE DEF TypeOK, AtWork, Fault
<1>1. CASE Bootstrap
  BY <1>1, ListedTypes DEF Bootstrap, TimeOrNone
<1>2. CASE StartPass
  <2>1. slipped' = slipped \/ slipped' = TRUE
    BY <1>2 DEF StartPass
  <2>2. faults' \in 0..MaxFaults
    BY <1>2 DEF StartPass
  <2> QED BY <1>2, <2>1, <2>2 DEF StartPass
<1>3. CASE NextEvent
  BY <1>3 DEF NextEvent
<1>4. CASE Deliver
  <2> PICK s \in pass.left :
        \/ sent' = sent
        \/ sent' = [sent EXCEPT ![pass.event[1]][s] =
             IF @ < 2 /\ shown[pass.event[1]] = pass.event[2] THEN @ + 1 ELSE @]
    BY <1>4 DEF Deliver
  <2>1. s \in Subs /\ pass.event[1] \in Events
    BY DEF Pass, Occurrences
  <2>2. sent' \in [Events -> [Subs -> 0..2]]
    BY <2>1
  <2> QED BY <1>4, <2>2 DEF Deliver
<1>5. CASE Record
  <2>1. slipped' = slipped \/ slipped' = TRUE
    BY <1>5 DEF Record
  <2>2. faults' \in 0..MaxFaults
    BY <1>5 DEF Record
  <2> QED BY <1>5, <2>1, <2>2 DEF Record
<1>6. CASE Disable
  <2>1. sub' \in [Subs -> {"none", "active", "disabled", "deleted"}]
    BY <1>6 DEF Disable
  <2> QED BY <1>6, <2>1 DEF Disable
<1>7. CASE SaveCursor
  <2>1. slipped' = slipped \/ slipped' = TRUE
    BY <1>7 DEF SaveCursor
  <2>2. faults' \in 0..MaxFaults
    BY <1>7 DEF SaveCursor
  <2> QED BY <1>7, <2>1, <2>2 DEF SaveCursor
<1> QED BY <1>1, <1>2, <1>3, <1>4, <1>5, <1>6, <1>7 DEF RunOnce

LEMMA TypeStep == TypeOK /\ AtWork /\ [Next]_vars => TypeOK' /\ AtWork'
<1> SUFFICES ASSUME TypeOK, AtWork, [Next]_vars PROVE TypeOK' /\ AtWork'
  OBVIOUS
<1>1. CASE RunOnce
  BY <1>1, LoopTypes, LoopEffects DEF TypeOK
<1> USE DEF TypeOK, AtWork, loop
<1>2. CASE Crash
  <2>1. pass' \in Pass /\ AtWork'
    BY <1>2 DEF Crash, NoPass, Pass, TimeOrNone, Outcomes
  <2>2. cached' \in CursorState
    BY <1>2 DEF Crash, CursorOf, CursorState, State
  <2> QED BY <1>2, <2>1, <2>2 DEF Crash, Fault
<1>3. CASE SyncState
  BY <1>3 DEF SyncState, CursorOf, CursorState, State
<1>4. CASE Tick
  BY <1>4 DEF Tick, Times
<1>5. CASE SandboxGone
  BY <1>5 DEF SandboxGone
<1>6. ASSUME NEW e \in Events, Emit(e)
      PROVE  TypeOK' /\ AtWork'
  BY <1>6, SecondType DEF Emit, TimeOrNone
<1>7. ASSUME NEW e \in Events, List(e)
      PROVE  TypeOK' /\ AtWork'
  BY <1>7 DEF List, TimeOrNone
<1>8. ASSUME NEW s \in Subs, Subscribe(s) \/ Unsubscribe(s)
      PROVE  TypeOK' /\ AtWork'
  BY <1>8 DEF Subscribe, Unsubscribe
<1>9. CASE UNCHANGED vars
  BY <1>9 DEF vars
<1> QED BY <1>1, <1>2, <1>3, <1>4, <1>5, <1>6, <1>7, <1>8, <1>9 DEF Next

\* The variables of the delivery loop keep their types; above all RecordAttempt
\* never keeps more than MaxHistory outcomes of a subscription.
THEOREM TypeCorrect == Spec => []TypeOK
<1>1. Spec => [](TypeOK /\ AtWork)
  BY TypeInit, TypeStep, PTL DEF Spec
<1> QED BY <1>1, PTL

-----------------------------------------------------------------------------
(* Disabling.                                                              *)

\* The counter of a subscription counts the failures its history ends with.
Failing(h, n) ==
  /\ n <= Len(h)
  /\ \A i \in (Len(h) - n + 1)..Len(h) : h[i] = "failed"

CounterMatchesHistory == \A s \in Subs : Failing(cm.history[s], cm.failures[s])

\* Between the save that crossed the threshold and the write of the Secret the
\* counter does not change.
DisableIsDue == pass.pc = "disable" => cm.failures[pass.to] >= Threshold

DisableInv == CounterMatchesHistory /\ DisableIsDue

\* RecordAttempt: one more outcome keeps the counter in step with the history,
\* trimmed or not.
LEMMA FailingAppend ==
  ASSUME NEW h \in Histories, NEW n \in 0..Threshold, Failing(h, n),
         NEW o \in Outcomes
  PROVE  Failing(Trim(Append(h, o)), IF o = "delivered" THEN 0
                                     ELSE IF n = Threshold THEN n ELSE n + 1)
<1> DEFINE m == IF o = "delivered" THEN 0 ELSE IF n = Threshold THEN n ELSE n + 1
<1>1. h \in Seq(Outcomes) /\ Len(h) \in 0..MaxHistory
  BY DEF Histories
<1>2. /\ Append(h, o) \in Seq(Outcomes) /\ Len(Append(h, o)) = Len(h) + 1
      /\ \A i \in 1..Len(h) : Append(h, o)[i] = h[i]
      /\ Append(h, o)[Len(h) + 1] = o
  BY <1>1
<1>3. m <= MaxHistory /\ m \in 0..(n + 1)
  OBVIOUS
<1>4. o = "delivered" => m = 0
  OBVIOUS
<1> SUFFICES Failing(Trim(Append(h, o)), m)
  OBVIOUS
<1> HIDE DEF m
<1>5. ASSUME o = "failed", NEW i \in (Len(h) + 2 - m)..(Len(h) + 1)
      PROVE  Append(h, o)[i] = "failed"
  <2>1. CASE i = Len(h) + 1
    BY <1>2, <1>5, <2>1
  <2>2. CASE i <= Len(h)
    <3>1. i \in (Len(h) - n + 1)..Len(h) /\ i \in 1..Len(h)
      BY <1>1, <1>3, <1>5, <2>2 DEF Failing
    <3> QED BY <1>2, <3>1 DEF Failing
  <2>3. i <= Len(h) \/ i = Len(h) + 1
    BY <1>1, <1>3, <1>5
  <2> QED BY <2>1, <2>2, <2>3
<1>6. Failing(Append(h, o), m)
  <2>1. m <= Len(h) + 1
    BY <1>1, <1>3 DEF Failing
  <2>2. Len(Append(h, o)) - m + 1 = Len(h) + 2 - m
    BY <1>1, <1>2, <1>3
  <2>3. \A i \in (Len(h) + 2 - m)..(Len(h) + 1) : Append(h, o)[i] = "failed"
    <3>1. CASE o = "failed"
      BY <1>5, <3>1
    <3>2. CASE o = "delivered"
      BY <1>1, <1>4, <3>2
    <3> QED BY <3>1, <3>2 DEF Outcomes
  <2> DEFINE A == Append(h, o)
  <2>4. Len(A) = Len(h) + 1 /\ m <= Len(A) /\ Len(A) - m + 1 = Len(h) + 2 - m
    BY <1>2, <2>1, <2>2
  <2>5. \A i \in (Len(h) + 2 - m)..(Len(h) + 1) : A[i] = "failed"
    BY <2>3
  <2> HIDE DEF A
  <2>6. Failing(A, m)
    BY <2>4, <2>5 DEF Failing
  <2> QED BY <2>6 DEF A
<1>7. CASE Len(h) < MaxHistory
  BY <1>6, <1>7, TrimmedAppend
<1>8. CASE Len(h) = MaxHistory
  <2>1. /\ Len(Tail(Append(h, o))) = Len(h)
        /\ \A i \in 1..Len(h) : Tail(Append(h, o))[i] = Append(h, o)[i + 1]
    BY <1>1, <1>2
  <2>2. m <= Len(h)
    BY <1>3, <1>8
  <2>3. ASSUME NEW i \in (Len(h) - m + 1)..Len(h)
        PROVE  Tail(Append(h, o))[i] = "failed"
    <3>1. i \in 1..Len(h) /\ i + 1 \in (Len(h) + 1 - m + 1)..(Len(h) + 1)
      BY <1>1, <1>3, <2>2, <2>3
    <3>2. i + 1 \in (Len(Append(h, o)) - m + 1)..Len(Append(h, o))
      BY <1>1, <1>2, <1>3, <2>2, <2>3
    <3>3. Append(h, o)[i + 1] = "failed"
      BY <1>6, <3>2, Zenon DEF Failing
    <3> QED BY <2>1, <3>1, <3>3
  <2>4. Failing(Tail(Append(h, o)), m)
    BY <2>1, <2>2, <2>3 DEF Failing
  <2>5. Trim(Append(h, o)) = Tail(Append(h, o))
    BY <1>8, TrimmedAppend
  <2> QED BY <2>4, <2>5
<1> QED BY <1>1, <1>7, <1>8

LEMMA DisableInit == Init => DisableInv
  BY DEF Init, DisableInv, CounterMatchesHistory, DisableIsDue, Failing, NoPass

\* Only RecordAttempt touches the counters and the history.
LEMMA CountersKept ==
  ASSUME TypeOK, [Next]_vars, ~Record
  PROVE  cm'.history = cm.history /\ cm'.failures = cm.failures
<1>1. CASE RunOnce
  <2>1. CASE Bootstrap \/ SaveCursor
    BY <2>1 DEF Bootstrap, SaveCursor, TypeOK, State
  <2>2. CASE StartPass \/ NextEvent \/ Deliver \/ Disable
    BY <2>2 DEF StartPass, NextEvent, Deliver, Disable
  <2> QED BY <1>1, <2>1, <2>2 DEF RunOnce
<1>2. CASE ~RunOnce
  BY <1>2 DEF Next, vars, loop, Crash, SyncState, Tick, SandboxGone, Emit, List,
              Subscribe, Unsubscribe
<1> QED BY <1>1, <1>2

LEMMA DisableStep == TypeOK /\ AtWork /\ DisableInv /\ [Next]_vars => DisableInv'
<1> SUFFICES ASSUME TypeOK, AtWork, DisableInv, [Next]_vars
             PROVE  DisableInv'
  OBVIOUS
<1>1. /\ cm \in State /\ pass \in Pass
      /\ cm.history \in [Subs -> Histories] /\ cm.failures \in [Subs -> 0..Threshold]
  BY DEF TypeOK, State
<1>2. CASE Record
  <2>1. pass.to \in Subs /\ pass.outcome \in Outcomes
    BY <1>1, <1>2 DEF Record, Pass, AtWork
  <2> DEFINE c == Counted(pass.to, pass.outcome)
  <2>2. /\ c.history = [cm.history EXCEPT ![pass.to] = Trim(Append(@, pass.outcome))]
        /\ c.failures = [cm.failures EXCEPT ![pass.to] =
                           IF pass.outcome = "delivered" THEN 0
                           ELSE IF @ = Threshold THEN @ ELSE @ + 1]
    BY <1>1, <2>1, CountedType
  <2>3. \/ cm' = c /\ (pass'.pc = "disable" => c.failures[pass.to] >= Threshold)
        \/ cm' = cm /\ pass'.pc = "dispatch"
    BY <1>1, <1>2 DEF Record, Pass
  <2>4. pass'.to = pass.to
    BY <1>1, <1>2 DEF Record, Pass
  <2>5. ASSUME NEW s \in Subs
        PROVE  Failing(c.history[s], c.failures[s])
    <3>1. CASE s = pass.to
      <4>1. Failing(cm.history[s], cm.failures[s])
        BY DEF DisableInv, CounterMatchesHistory
      <4>2. cm.history[s] \in Histories /\ cm.failures[s] \in 0..Threshold
        BY <1>1
      <4>3. Failing(Trim(Append(cm.history[s], pass.outcome)),
                    IF pass.outcome = "delivered" THEN 0
                    ELSE IF cm.failures[s] = Threshold THEN cm.failures[s]
                    ELSE cm.failures[s] + 1)
        BY <2>1, <4>1, <4>2, FailingAppend
      <4>4. /\ c.history[s] = Trim(Append(cm.history[s], pass.outcome))
            /\ c.failures[s] = IF pass.outcome = "delivered" THEN 0
                               ELSE IF cm.failures[s] = Threshold THEN cm.failures[s]
                               ELSE cm.failures[s] + 1
        BY <1>1, <2>1, <2>2, <3>1
      <4> QED BY <4>3, <4>4
    <3>2. CASE s # pass.to
      <4>1. c.history[s] = cm.history[s] /\ c.failures[s] = cm.failures[s]
        BY <1>1, <2>2, <3>2
      <4> QED BY <4>1 DEF DisableInv, CounterMatchesHistory
    <3> QED BY <3>1, <3>2
  <2> HIDE DEF c
  <2>6. CounterMatchesHistory'
    BY <2>3, <2>5 DEF DisableInv, CounterMatchesHistory
  <2>7. DisableIsDue'
    BY <2>3, <2>4 DEF DisableIsDue
  <2> QED BY <2>6, <2>7 DEF DisableInv
<1>3. CASE ~Record
  <2>1. CounterMatchesHistory'
    BY <1>3, CountersKept DEF DisableInv, CounterMatchesHistory
  <2>2. pass'.pc = "disable" => pass.pc = "disable" /\ pass'.to = pass.to
    <3>1. CASE RunOnce
      <4>1. CASE Bootstrap \/ StartPass \/ SaveCursor
        <5>1. CASE Bootstrap
          BY <5>1 DEF Bootstrap
        <5>2. CASE StartPass
          BY <5>2 DEF StartPass, NoPass
        <5>3. CASE SaveCursor
          BY <5>3 DEF SaveCursor, NoPass
        <5> QED BY <4>1, <5>1, <5>2, <5>3
      <4>2. CASE NextEvent \/ Disable
        BY <1>1, <4>2 DEF NextEvent, Disable, Pass
      <4>3. CASE Deliver
        <5>1. pass'.pc \in {"dispatch", "record"}
          BY <1>1, <4>3 DEF Deliver, Pass
        <5> QED BY <5>1
      <4> QED BY <1>3, <3>1, <4>1, <4>2, <4>3 DEF RunOnce
    <3>2. CASE ~RunOnce
      BY <3>2 DEF Next, vars, loop, Crash, SyncState, Tick, SandboxGone, Emit, List,
                  Subscribe, Unsubscribe, NoPass
    <3> QED BY <3>1, <3>2
  <2>3. DisableIsDue'
    BY <1>3, <2>2, CountersKept DEF DisableInv, DisableIsDue
  <2> QED BY <2>1, <2>3 DEF DisableInv
<1> QED BY <1>2, <1>3

\* DisableSubscription runs only after as many failures in a row as the
\* threshold asks for, all of them in the history the owner can read, whatever
\* saves were refused and passes cut short in between.
THEOREM DisablesOnlyFailing == Spec => DisabledAfterFailures
<1>1. Spec => [](TypeOK /\ AtWork /\ DisableInv)
  <2>1. Init => TypeOK /\ AtWork /\ DisableInv
    BY TypeInit, DisableInit
  <2>2. TypeOK /\ AtWork /\ DisableInv /\ [Next]_vars
          => TypeOK' /\ AtWork' /\ DisableInv'
    BY TypeStep, DisableStep
  <2> QED BY <2>1, <2>2, PTL DEF Spec
<1> DEFINE Due(s) == LET h == cm.history[s]
                     IN  /\ Len(h) >= Threshold
                         /\ \A i \in (Len(h) - Threshold + 1)..Len(h) : h[i] = "failed"
<1>2. TypeOK /\ AtWork /\ DisableInv /\ [Next]_vars =>
        [\A s \in Subs : sub[s] = "active" /\ sub'[s] = "disabled" => Due(s)]_vars
  <2> SUFFICES ASSUME TypeOK, AtWork, DisableInv, Next,
                      NEW s \in Subs, sub[s] = "active", sub'[s] = "disabled"
               PROVE  Due(s)
    BY DEF vars
  <2>1. Disable /\ s = pass.to
    <3>1. CASE RunOnce
      BY <3>1 DEF RunOnce, Bootstrap, StartPass, NextEvent, Deliver, Record, Disable,
                  SaveCursor, TypeOK
    <3>2. CASE ~RunOnce
      BY <3>2 DEF Next, loop, Crash, SyncState, Tick, SandboxGone, Emit, List,
                  Subscribe, Unsubscribe, TypeOK
    <3> QED BY <3>1, <3>2
  <2>2. cm.failures[s] >= Threshold
    BY <2>1 DEF Disable, DisableInv, DisableIsDue
  <2>3. cm.failures[s] \in 0..Threshold
    BY DEF TypeOK, State
  <2>4. Failing(cm.history[s], Threshold)
    <3>1. cm.failures[s] = Threshold
      BY <2>2, <2>3
    <3> QED BY <3>1 DEF DisableInv, CounterMatchesHistory
  <2>5. Len(cm.history[s]) \in Nat
    BY DEF TypeOK, State, Histories
  <2> QED BY <2>4, <2>5 DEF Failing
<1> QED BY <1>1, <1>2, PTL DEF Spec, DisabledAfterFailures
-----------------------------------------------------------------------------
(* Sending.                                                                *)

\* listNewEvents: a cursor has passed an event that is before it, or in its
\* second and among those seen there.
Passed(o, c) ==
  /\ c.cursor \in Times
  /\ o[2] < c.cursor \/ (o[2] = c.cursor /\ o[1] \in c.seen)

\* The cursor a pass is going to save.
NextCursor == [cursor |-> pass.next, seen |-> pass.nextSeen]

\* There is a cursor before there is a pass, and nothing was sent before; a
\* fresh cache shows the cursor that was saved.
CursorComesFirst ==
  /\ fresh => cached = CursorOf(cm)
  /\ cached.cursor # None => cm.cursor # None
  /\ cached.cursor = None => pass.pc = "idle" /\ \A e \in Events, s \in Subs : sent[e][s] = 0
  /\ cm.cursor = None => start.backlog = {}
  /\ pass.pc = "idle" => pass = NoPass
  /\ pass.pc # "idle" => pass.next \in Times

\* Every cursor there is has passed the backlog, and no pass is at work on it.
BacklogIsPassed ==
  \A o \in start.backlog :
    /\ Passed(o, cm)
    /\ cached.cursor # None => Passed(o, cached)
    /\ pass.pc # "idle" => Passed(o, NextCursor)
    /\ o \notin pass.todo
    /\ pass.left # {} => pass.event # o

\* What a pass still has to send is what its next cursor passes, and was not
\* sent yet.
ToSend ==
  /\ \A o \in pass.todo :
       /\ Passed(o, NextCursor)
       /\ shown[o[1]] = o[2] => \A s \in Subs : sent[o[1]][s] = 0
  /\ pass.left # {} =>
       /\ Passed(pass.event, NextCursor)
       /\ pass.event \notin pass.todo
       /\ shown[pass.event[1]] = pass.event[2] =>
            \A s \in pass.left : sent[pass.event[1]][s] = 0

\* What was sent was passed, by the saved cursor or the one about to be saved.
SentIsPassed ==
  \A e \in Listed, s \in Subs : sent[e][s] > 0 =>
    Passed(<<e, shown[e]>>, IF pass.pc = "idle" THEN CursorOf(cm) ELSE NextCursor)

SendInv ==
  /\ CursorComesFirst /\ BacklogIsPassed /\ NoBacklog
  /\ ~slipped => ToSend /\ SentIsPassed /\ DeliveredOnce

\* A listing has a latest second, and the cursor set to it passes every event
\* listed, and what the cursor before it passed.
LEMMA ListingIsPassed ==
  ASSUME TypeOK
  PROVE  /\ MaxSeen \in Times
         /\ \A e \in Listed : /\ Passed(<<e, shown[e]>>, [cursor |-> MaxSeen, seen |-> AtMaxSecond])
                              /\ Passed(<<e, shown[e]>>, [cursor |-> MaxSeen, seen |-> NextSeen])
         /\ \A o \in Occurrences :
              Passed(o, cached) => Passed(o, [cursor |-> MaxSeen, seen |-> NextSeen])
<1> DEFINE times == {shown[e] : e \in Listed} \union ({cached.cursor} \ {None})
<1>1. \A e \in Listed : e \in Events /\ shown[e] \in Times
  BY DEF TypeOK, Listed, TimeOrNone
<1>2. times \in SUBSET (0..MaxTime) /\ cached.cursor \in TimeOrNone
  BY <1>1 DEF TypeOK, CursorState, TimeOrNone, Times
<1>3. MaxSeen \in Times
  BY ListedTypes
<1>4. \A t \in times : t <= MaxSeen
  <2>1. CASE times = {}
    BY <2>1
  <2>2. CASE times # {}
    <3>1. \E t \in times : \A u \in times : u <= t
      <4> HIDE DEF times
      <4> QED BY <1>2, <2>2, MaximumExists
    <3> QED BY <2>2, <3>1 DEF MaxSeen
  <2> QED BY <2>1, <2>2
<1>5. ASSUME NEW e \in Listed
      PROVE  /\ Passed(<<e, shown[e]>>, [cursor |-> MaxSeen, seen |-> AtMaxSecond])
             /\ Passed(<<e, shown[e]>>, [cursor |-> MaxSeen, seen |-> NextSeen])
  <2>1. shown[e] <= MaxSeen /\ shown[e] \in Nat /\ MaxSeen \in Nat
    BY <1>1, <1>3, <1>4 DEF Times
  <2>2. shown[e] = MaxSeen => e \in AtMaxSecond
    BY DEF AtMaxSecond
  <2>3. AtMaxSecond \subseteq NextSeen
    BY DEF NextSeen
  <2> QED BY <1>3, <2>1, <2>2, <2>3 DEF Passed
<1>6. ASSUME NEW o \in Occurrences, Passed(o, cached)
      PROVE  Passed(o, [cursor |-> MaxSeen, seen |-> NextSeen])
  <2>1. cached.cursor \in Times /\ o[2] \in Times
    BY <1>6 DEF Passed, Occurrences
  <2>2. cached.cursor <= MaxSeen
    BY <1>4, <2>1, NoneAssumption DEF Times
  <2>3. MaxSeen = cached.cursor => cached.seen \subseteq NextSeen
    BY DEF NextSeen
  <2>4. o[2] < MaxSeen \/ (o[2] = MaxSeen /\ MaxSeen = cached.cursor /\ o[1] \in cached.seen)
    BY <1>3, <1>6, <2>1, <2>2 DEF Passed, Times
  <2> QED BY <1>3, <2>3, <2>4 DEF Passed
<1> QED BY <1>3, <1>5, <1>6

\* What a pass finds new is what the cursor had not passed.
LEMMA NewIsNotPassed ==
  ASSUME TypeOK, NEW e \in NewEvents
  PROVE  ~Passed(<<e, shown[e]>>, cached)
<1>1. shown[e] \in Times /\ shown[e] >= cached.cursor
      /\ ~(shown[e] = cached.cursor /\ e \in cached.seen)
  BY DEF NewEvents, Listed, TypeOK, TimeOrNone
<1> QED BY <1>1 DEF Passed, Times

LEMMA SendInit == Init => SendInv
<1> SUFFICES ASSUME Init PROVE SendInv
  OBVIOUS
<1>1. CursorComesFirst
  BY DEF Init, CursorComesFirst, CursorOf, NoPass
<1>2. BacklogIsPassed /\ NoBacklog
  BY DEF Init, BacklogIsPassed, NoBacklog
<1>3. ToSend /\ SentIsPassed /\ DeliveredOnce
  BY DEF Init, ToSend, SentIsPassed, DeliveredOnce, NoPass, Listed
<1> QED BY <1>1, <1>2, <1>3 DEF SendInv

-----------------------------------------------------------------------------
(* A pass starts, sends and ends.                                          *)

LEMMA SendBootstrap ==
  ASSUME TypeOK, AtWork, SendInv, Bootstrap
  PROVE  SendInv'
<1> USE DEF SendInv
<1>1. /\ pass = NoPass /\ pass' = pass /\ cached' = cached /\ shown' = shown /\ sent' = sent
      /\ cm'.cursor = MaxSeen /\ cm'.seen = AtMaxSecond /\ cached.cursor = None /\ fresh' = FALSE
      /\ start'.backlog = AsListed(Listed) /\ MaxSeen # None
      /\ \A e \in Events, s \in Subs : sent[e][s] = 0
  <2>1. cm'.cursor = MaxSeen /\ cm'.seen = AtMaxSecond
    BY DEF Bootstrap, TypeOK, State
  <2>2. MaxSeen # None
    BY ListedTypes, NoneAssumption DEF Times
  <2> QED BY <2>1, <2>2 DEF Bootstrap, CursorComesFirst
<1>2. CursorComesFirst'
  BY <1>1 DEF CursorComesFirst, NoPass
<1>3. ASSUME NEW o \in start'.backlog
      PROVE  Passed(o, cm') /\ o[1] \in Events
  <2>1. PICK e \in Listed : o = <<e, shown[e]>>
    BY <1>1 DEF AsListed
  <2>2. Passed(o, [cursor |-> MaxSeen, seen |-> AtMaxSecond])
    BY <2>1, ListingIsPassed
  <2>3. Passed(o, cm')
    BY <1>1, <2>2 DEF Passed
  <2> QED BY <2>1, <2>3 DEF Listed
<1>4. BacklogIsPassed' /\ NoBacklog'
  BY <1>1, <1>3 DEF BacklogIsPassed, NoBacklog, NoPass
<1>5. ToSend' /\ SentIsPassed' /\ DeliveredOnce'
  BY <1>1 DEF ToSend, SentIsPassed, DeliveredOnce, NoPass, Listed
<1> QED BY <1>2, <1>4, <1>5

LEMMA SendStartPass ==
  ASSUME TypeOK, AtWork, SendInv, StartPass
  PROVE  SendInv'
<1> USE DEF SendInv
<1>1. /\ pass'.pc = "dispatch" /\ pass'.todo = AsListed(NewEvents) /\ pass'.left = {}
      /\ pass'.next = MaxSeen /\ pass'.nextSeen = NextSeen
      /\ NextCursor' = [cursor |-> MaxSeen, seen |-> NextSeen]
      /\ pass.pc = "idle" /\ cached.cursor # None
      /\ UNCHANGED <<cm, cached, fresh, shown, sent, start>>
      /\ ~slipped' => fresh /\ ~slipped
  BY DEF StartPass, NoPass, NextCursor
<1>2. MaxSeen \in Times
  BY ListedTypes
<1>3. CursorComesFirst'
  BY <1>1, <1>2 DEF CursorComesFirst, CursorOf
<1>4. ASSUME NEW o \in start.backlog
      PROVE  Passed(o, NextCursor') /\ o \notin pass'.todo
  <2>1. Passed(o, cached) /\ o \in Occurrences
    BY <1>1 DEF BacklogIsPassed, TypeOK
  <2>2. Passed(o, NextCursor')
    BY <1>1, <2>1, ListingIsPassed
  <2>3. o \notin AsListed(NewEvents)
    BY <2>1, NewIsNotPassed DEF AsListed
  <2> QED BY <1>1, <2>2, <2>3
<1>5. BacklogIsPassed' /\ NoBacklog'
  BY <1>1, <1>4 DEF BacklogIsPassed, NoBacklog
<1>6. ASSUME ~slipped'
      PROVE  ToSend' /\ SentIsPassed' /\ DeliveredOnce'
  <2>1. cached = CursorOf(cm) /\ ToSend /\ SentIsPassed /\ DeliveredOnce
    BY <1>1, <1>6 DEF CursorComesFirst
  <2>2. ASSUME NEW e \in Listed
        PROVE  Passed(<<e, shown[e]>>, NextCursor')
    BY <1>1, ListingIsPassed
  <2>3. ASSUME NEW e \in NewEvents, NEW s \in Subs
        PROVE  sent[e][s] = 0
    <3>1. ~(sent[e][s] > 0)
      BY <1>1, <2>1, NewIsNotPassed DEF SentIsPassed, NewEvents
    <3>2. sent[e][s] \in 0..2
      BY DEF TypeOK, NewEvents, Listed
    <3> QED BY <3>1, <3>2
  <2>4. ToSend'
    <3>1. ASSUME NEW o \in pass'.todo
          PROVE  Passed(o, NextCursor') /\ \A s \in Subs : sent[o[1]][s] = 0
      <4>1. PICK e \in NewEvents : o = <<e, shown[e]>>
        BY <1>1 DEF AsListed
      <4> QED BY <2>2, <2>3, <4>1 DEF NewEvents
    <3> QED BY <1>1, <3>1 DEF ToSend
  <2>5. SentIsPassed'
    BY <1>1, <2>2 DEF SentIsPassed, Listed
  <2>6. DeliveredOnce'
    BY <1>1, <1>6, <2>1 DEF DeliveredOnce
  <2> QED BY <2>4, <2>5, <2>6
<1> QED BY <1>3, <1>5, <1>6

LEMMA SendNextEvent ==
  ASSUME TypeOK, AtWork, SendInv, NextEvent
  PROVE  SendInv'
<1> USE DEF SendInv
<1>1. PICK e \in pass.todo : pass' = [pass EXCEPT !.todo = @ \ {e}, !.event = e, !.left = pass.subs]
  BY DEF NextEvent
<1>2. /\ pass'.pc = pass.pc /\ pass.pc = "dispatch" /\ pass'.todo = pass.todo \ {e}
      /\ pass'.event = e /\ pass'.left \subseteq Subs /\ pass'.next = pass.next
      /\ NextCursor' = NextCursor /\ e \in Occurrences
  BY <1>1 DEF NextEvent, TypeOK, Pass, NextCursor
<1>3. UNCHANGED <<cm, cached, fresh, shown, sent, start, slipped>>
  BY DEF NextEvent
<1>4. CursorComesFirst'
  BY <1>2, <1>3 DEF CursorComesFirst, CursorOf
<1>5. BacklogIsPassed' /\ NoBacklog'
  BY <1>2, <1>3 DEF BacklogIsPassed, NoBacklog
<1>6. ~slipped => ToSend'
  BY <1>2, <1>3 DEF ToSend
<1>7. ~slipped => SentIsPassed' /\ DeliveredOnce'
  BY <1>2, <1>3 DEF SentIsPassed, DeliveredOnce, Listed
<1> QED BY <1>3, <1>4, <1>5, <1>6, <1>7

\* Delivering an event counts once, and only for the occurrence listed.
LEMMA SendDeliver ==
  ASSUME TypeOK, AtWork, SendInv, Deliver
  PROVE  SendInv'
<1> USE DEF SendInv
<1>1. PICK d \in pass.left :
        /\ \/ pass' = [pass EXCEPT !.left = @ \ {d}]
           \/ \E o \in Outcomes : pass' = [pass EXCEPT !.pc = "record", !.left = @ \ {d},
                                                       !.to = d, !.outcome = o]
        /\ \/ sent' = sent
           \/ sent' = [sent EXCEPT ![pass.event[1]][d] =
                IF @ < 2 /\ shown[pass.event[1]] = pass.event[2] THEN @ + 1 ELSE @]
  BY DEF Deliver
<1>2. /\ d \in Subs /\ pass.event \in Occurrences /\ pass.event[1] \in Events
      /\ pass.event[2] \in Times /\ pass.todo \subseteq Occurrences /\ pass.left \subseteq Subs
  BY DEF TypeOK, Pass, AtWork, Occurrences
<1>3. /\ pass.pc = "dispatch" /\ pass'.pc \in {"dispatch", "record"} /\ pass'.todo = pass.todo
      /\ pass'.event = pass.event /\ pass'.left = pass.left \ {d} /\ pass'.next = pass.next
      /\ NextCursor' = NextCursor
  BY <1>1 DEF Deliver, TypeOK, Pass, NextCursor
<1>4. UNCHANGED <<cm, cached, fresh, shown, start, slipped>>
  BY DEF Deliver
<1>5. ASSUME NEW e \in Events, NEW s \in Subs
      PROVE  /\ sent[e][s] \in 0..2 /\ sent'[e][s] \in sent[e][s]..(sent[e][s] + 1)
             /\ sent'[e][s] # sent[e][s] =>
                  e = pass.event[1] /\ s = d /\ shown[e] = pass.event[2]
  <2>1. sent[e][s] \in 0..2 /\ sent \in [Events -> [Subs -> 0..2]]
    BY DEF TypeOK
  <2>2. CASE sent' = sent
    BY <2>1, <2>2
  <2>3. CASE sent' = [sent EXCEPT ![pass.event[1]][d] =
                IF @ < 2 /\ shown[pass.event[1]] = pass.event[2] THEN @ + 1 ELSE @]
    <3>1. sent'[e][s] = IF e = pass.event[1] /\ s = d /\ sent[e][s] < 2
                             /\ shown[pass.event[1]] = pass.event[2]
                        THEN sent[e][s] + 1 ELSE sent[e][s]
      BY <1>2, <2>1, <2>3
    <3> QED BY <2>1, <3>1
  <2> QED BY <1>1, <2>2, <2>3
<1>6. CursorComesFirst'
  BY <1>3, <1>4, <1>5 DEF CursorComesFirst, CursorOf
<1>7. BacklogIsPassed'
  BY <1>3, <1>4 DEF BacklogIsPassed
<1>8. NoBacklog'
  <2> SUFFICES ASSUME NEW o \in start.backlog, shown[o[1]] = o[2], NEW s \in Subs
               PROVE  sent'[o[1]][s] = 0
    BY <1>4 DEF NoBacklog
  <2>1. o \in Occurrences /\ o # pass.event /\ sent[o[1]][s] = 0
    BY DEF TypeOK, BacklogIsPassed, NoBacklog
  <2>2. ~(o[1] = pass.event[1] /\ o[2] = pass.event[2]) /\ o[1] \in Events
    BY <1>2, <2>1 DEF Occurrences
  <2> QED BY <1>5, <2>1, <2>2
<1>9. ASSUME ~slipped
      PROVE  ToSend' /\ SentIsPassed' /\ DeliveredOnce'
  <2>1. ToSend /\ SentIsPassed /\ DeliveredOnce /\ pass.left # {}
    BY <1>9
  <2>2. ASSUME NEW o \in pass.todo, shown[o[1]] = o[2], NEW s \in Subs
        PROVE  sent'[o[1]][s] = 0
    <3>1. o \in Occurrences /\ o # pass.event /\ sent[o[1]][s] = 0
      BY <1>2, <2>1, <2>2 DEF ToSend
    <3>2. ~(o[1] = pass.event[1] /\ o[2] = pass.event[2]) /\ o[1] \in Events
      BY <1>2, <3>1 DEF Occurrences
    <3> QED BY <1>5, <2>2, <3>1, <3>2
  <2>3. ASSUME shown[pass.event[1]] = pass.event[2], NEW s \in pass'.left
        PROVE  sent'[pass.event[1]][s] = 0
    <3>1. s \in pass.left /\ s # d /\ s \in Subs
      BY <1>2, <1>3
    <3>2. sent[pass.event[1]][s] = 0
      BY <2>1, <2>3, <3>1 DEF ToSend
    <3> QED BY <1>2, <1>5, <3>1, <3>2
  <2>4. ToSend'
    BY <1>3, <1>4, <2>1, <2>2, <2>3 DEF ToSend
  <2>5. SentIsPassed'
    <3> SUFFICES ASSUME NEW e \in Listed, NEW s \in Subs, sent'[e][s] > 0
                 PROVE  Passed(<<e, shown[e]>>, NextCursor)
      BY <1>3, <1>4 DEF SentIsPassed, Listed
    <3>1. e \in Events
      BY DEF Listed
    <3>2. CASE sent'[e][s] = sent[e][s]
      BY <1>3, <2>1, <3>2 DEF SentIsPassed
    <3>3. CASE sent'[e][s] # sent[e][s]
      <4>1. e = pass.event[1] /\ shown[e] = pass.event[2]
        BY <1>5, <3>1, <3>3
      <4>2. Passed(pass.event, NextCursor)
        BY <2>1 DEF ToSend
      <4> QED BY <4>1, <4>2 DEF Passed
    <3> QED BY <3>2, <3>3
  <2>6. DeliveredOnce'
    <3> SUFFICES ASSUME NEW e \in Events, NEW s \in Subs
                 PROVE  sent'[e][s] <= 1
      BY DEF DeliveredOnce
    <3>1. CASE sent'[e][s] = sent[e][s]
      BY <1>9, <2>1, <3>1 DEF DeliveredOnce
    <3>2. CASE sent'[e][s] # sent[e][s]
      <4>1. e = pass.event[1] /\ s = d /\ shown[e] = pass.event[2]
        BY <1>5, <3>2
      <4>2. sent[e][s] = 0
        BY <2>1, <4>1 DEF ToSend
      <4> QED BY <1>5, <4>2
    <3> QED BY <3>1, <3>2
  <2> QED BY <2>4, <2>5, <2>6
<1> QED BY <1>4, <1>6, <1>7, <1>8, <1>9

\* Recording and disabling leave the cursors and what was sent alone.
LEMMA SendRecord ==
  ASSUME TypeOK, AtWork, SendInv, Record \/ Disable
  PROVE  SendInv'
<1> USE DEF SendInv
<1>1. /\ pass.pc # "idle" /\ pass'.pc # "idle" /\ pass'.todo = pass.todo
      /\ pass'.event = pass.event /\ pass'.left = pass.left /\ pass'.next = pass.next
      /\ NextCursor' = NextCursor
  BY DEF Record, Disable, TypeOK, Pass, NextCursor
<1>2. /\ UNCHANGED <<cached, shown, sent, start>> /\ (fresh' => fresh /\ cm' = cm)
      /\ (~slipped' => ~slipped)
  BY DEF Record, Disable
<1>3. cm'.cursor = cm.cursor /\ cm'.seen = cm.seen
  BY DEF Record, Disable, Counted, TypeOK, State
<1>4. CursorComesFirst'
  <2>1. fresh' => cached' = CursorOf(cm')
    BY <1>2 DEF CursorComesFirst
  <2>2. cm'.cursor = None => start'.backlog = {}
    BY <1>2, <1>3 DEF CursorComesFirst
  <2> QED BY <1>1, <1>2, <1>3, <2>1, <2>2 DEF CursorComesFirst
<1>5. BacklogIsPassed'
  <2>1. \A o : Passed(o, cm) => Passed(o, cm')
    BY <1>3 DEF Passed
  <2> QED BY <1>1, <1>2, <2>1 DEF BacklogIsPassed
<1>6. NoBacklog'
  BY <1>2 DEF NoBacklog
<1>7. ~slipped' => ToSend' /\ SentIsPassed' /\ DeliveredOnce'
  <2>1. ~slipped' => ToSend'
    BY <1>1, <1>2 DEF ToSend
  <2>2. ~slipped' => SentIsPassed'
    BY <1>1, <1>2 DEF SentIsPassed, Listed
  <2>3. ~slipped' => DeliveredOnce'
    BY <1>2 DEF DeliveredOnce
  <2> QED BY <2>1, <2>2, <2>3
<1> QED BY <1>4, <1>5, <1>6, <1>7

LEMMA SendSaveCursor ==
  ASSUME TypeOK, AtWork, SendInv, SaveCursor
  PROVE  SendInv'
<1> USE DEF SendInv
<1>1. /\ pass' = NoPass /\ pass.pc = "dispatch" /\ UNCHANGED <<cached, shown, sent, start>>
      /\ pass'.pc = "idle" /\ pass'.todo = {} /\ pass'.left = {}
  BY DEF SaveCursor, NoPass
<1>2. \/ /\ cm'.cursor = pass.next /\ cm'.seen = pass.nextSeen /\ CursorOf(cm') = NextCursor
         /\ fresh' = FALSE /\ slipped' = slipped
      \/ cm' = cm /\ fresh' = fresh /\ slipped' = TRUE
  BY DEF SaveCursor, TypeOK, State, CursorOf, NextCursor
<1>3. pass.next # None /\ cached.cursor # None
  BY <1>1, NoneAssumption DEF CursorComesFirst, Times
<1>4. CursorComesFirst'
  BY <1>1, <1>2, <1>3 DEF CursorComesFirst
<1>5. BacklogIsPassed'
  <2>1. ASSUME NEW o \in start.backlog
        PROVE  Passed(o, cm')
    <3>1. Passed(o, cm) /\ Passed(o, NextCursor)
      BY <1>1 DEF BacklogIsPassed
    <3> QED BY <1>2, <3>1 DEF Passed, NextCursor
  <2> QED BY <1>1, <2>1 DEF BacklogIsPassed
<1>6. NoBacklog'
  BY <1>1 DEF NoBacklog
<1>7. ASSUME ~slipped'
      PROVE  ToSend' /\ SentIsPassed' /\ DeliveredOnce'
  <2>1. ~slipped /\ CursorOf(cm') = NextCursor
    BY <1>2, <1>7
  <2>2. SentIsPassed'
    BY <1>1, <2>1 DEF SentIsPassed, Listed
  <2>3. ToSend' /\ DeliveredOnce'
    BY <1>1, <2>1 DEF ToSend, DeliveredOnce
  <2> QED BY <2>2, <2>3
<1> QED BY <1>4, <1>5, <1>6, <1>7

-----------------------------------------------------------------------------
(* What happens around the loop.                                           *)

\* A crash, or the cache showing the last save.
LEMMA SendSync ==
  ASSUME TypeOK, AtWork, SendInv, Crash \/ SyncState
  PROVE  SendInv'
<1> USE DEF SendInv
<1>1. /\ cached' = CursorOf(cm) /\ cached'.cursor = cm.cursor /\ cached'.seen = cm.seen
      /\ UNCHANGED <<cm, shown, sent, start>>
  BY DEF Crash, SyncState, CursorOf
<1>2. \/ pass' = NoPass /\ pass.pc # "idle" /\ slipped' = TRUE
      \/ pass' = pass /\ slipped' = slipped
  BY DEF Crash, SyncState
<1>3. /\ NoPass.pc = "idle" /\ NoPass.todo = {} /\ NoPass.left = {}
      /\ (pass' = pass => NextCursor' = NextCursor)
  BY DEF NoPass, NextCursor
<1>4. CursorComesFirst'
  BY <1>1, <1>2, <1>3 DEF CursorComesFirst
<1>5. BacklogIsPassed'
  <2>1. \A o : Passed(o, cm) => Passed(o, cm') /\ Passed(o, cached')
    BY <1>1 DEF Passed
  <2> QED BY <1>1, <1>2, <1>3, <2>1 DEF BacklogIsPassed
<1>6. NoBacklog'
  BY <1>1 DEF NoBacklog
<1>7. ASSUME ~slipped'
      PROVE  ToSend' /\ SentIsPassed' /\ DeliveredOnce'
  <2>1. ~slipped /\ pass' = pass /\ NextCursor' = NextCursor
    BY <1>2, <1>3, <1>7
  <2> QED BY <1>1, <2>1 DEF ToSend, SentIsPassed, DeliveredOnce, Listed
<1> QED BY <1>4, <1>5, <1>6, <1>7

\* An event is listed, or listed again: nothing of this occurrence was sent.
LEMMA SendList ==
  ASSUME TypeOK, AtWork, SendInv, NEW e \in Events, List(e)
  PROVE  SendInv'
<1> USE DEF SendInv
<1>1. UNCHANGED <<cm, cached, fresh, pass, start, slipped>> /\ NextCursor' = NextCursor
  BY DEF List, NextCursor
<1>2. /\ \A s \in Subs : sent'[e][s] = 0
      /\ \A f \in Events : f # e => shown'[f] = shown[f] /\ sent'[f] = sent[f]
  BY DEF List, TypeOK
<1>3. CursorComesFirst'
  BY <1>1, <1>2 DEF CursorComesFirst
<1>4. BacklogIsPassed'
  BY <1>1 DEF BacklogIsPassed
<1>5. NoBacklog'
  <2> SUFFICES ASSUME NEW o \in start.backlog, shown'[o[1]] = o[2], NEW s \in Subs
               PROVE  sent'[o[1]][s] = 0
    BY <1>1 DEF NoBacklog
  <2>1. o[1] \in Events
    BY DEF TypeOK, Occurrences
  <2> QED BY <1>2, <2>1 DEF NoBacklog
<1>6. ASSUME ~slipped
      PROVE  ToSend' /\ SentIsPassed' /\ DeliveredOnce'
  <2>1. ToSend /\ SentIsPassed /\ DeliveredOnce
    BY <1>6
  <2>2. pass.todo \subseteq Occurrences /\ pass.left \subseteq Subs
    BY DEF TypeOK, Pass
  <2>3. ToSend'
    <3>1. ASSUME NEW o \in Occurrences, NEW s \in Subs, shown'[o[1]] = o[2],
                 shown[o[1]] = o[2] => sent[o[1]][s] = 0
          PROVE  sent'[o[1]][s] = 0
      <4>1. o[1] \in Events
        BY DEF Occurrences
      <4> QED BY <1>2, <3>1, <4>1
    <3>2. pass.left # {} => pass.event \in Occurrences
      BY DEF AtWork
    <3> QED BY <1>1, <2>1, <2>2, <3>1, <3>2 DEF ToSend
  <2>4. SentIsPassed'
    <3> SUFFICES ASSUME NEW f \in Listed', NEW s \in Subs, sent'[f][s] > 0
                 PROVE  Passed(<<f, shown'[f]>>, IF pass.pc = "idle" THEN CursorOf(cm)
                                                 ELSE NextCursor)
      BY <1>1 DEF SentIsPassed
    <3>1. f \in Events /\ f # e /\ shown'[f] = shown[f] /\ sent'[f][s] = sent[f][s]
      BY <1>2 DEF Listed
    <3>2. f \in Listed
      BY <3>1 DEF Listed
    <3> QED BY <2>1, <3>1, <3>2 DEF SentIsPassed
  <2>5. DeliveredOnce'
    BY <1>2, <1>6, <2>1 DEF DeliveredOnce
  <2> QED BY <2>3, <2>4, <2>5
<1> QED BY <1>1, <1>3, <1>4, <1>5, <1>6

\* Nothing else moves the cursors, the list or what was sent.
LEMMA SendKept ==
  ASSUME SendInv, UNCHANGED <<cm, cached, fresh, pass, start, slipped, shown, sent>>
  PROVE  SendInv'
  BY DEF SendInv, CursorComesFirst, BacklogIsPassed, NoBacklog, ToSend, SentIsPassed,
         DeliveredOnce, NextCursor, Listed

LEMMA SendStep == TypeOK /\ AtWork /\ SendInv /\ [Next]_vars => SendInv'
<1> SUFFICES ASSUME TypeOK, AtWork, SendInv, [Next]_vars
             PROVE  SendInv'
  OBVIOUS
<1>1. CASE RunOnce
  BY <1>1, SendBootstrap, SendStartPass, SendNextEvent, SendDeliver, SendRecord,
     SendSaveCursor DEF RunOnce
<1>2. CASE Crash \/ SyncState
  BY <1>2, SendSync
<1>3. ASSUME NEW e \in Events, List(e)
      PROVE  SendInv'
  BY <1>3, SendList
<1>4. CASE Tick \/ SandboxGone \/ UNCHANGED vars
  BY <1>4, SendKept DEF Tick, SandboxGone, loop, vars
<1>5. ASSUME NEW e \in Events, Emit(e)
      PROVE  SendInv'
  BY <1>5, SendKept DEF Emit, loop
<1>6. ASSUME NEW s \in Subs, Subscribe(s) \/ Unsubscribe(s)
      PROVE  SendInv'
  BY <1>6, SendKept DEF Subscribe, Unsubscribe, loop
<1> QED BY <1>1, <1>2, <1>3, <1>4, <1>5, <1>6 DEF Next

\* dispatchEvent and listNewEvents: nothing from before the first pass is sent,
\* and an event goes twice to a subscription only after a pass was cut short, a
\* save was refused, or a pass began with an old cursor; however the events
\* share seconds, and in whatever order they are listed.
THEOREM SendsWhenDue == Spec => []SentWhenDue
<1>1. Init => TypeOK /\ AtWork /\ SendInv
  BY TypeInit, SendInit
<1>2. TypeOK /\ AtWork /\ SendInv /\ [Next]_vars => TypeOK' /\ AtWork' /\ SendInv'
  BY TypeStep, SendStep
<1>3. SendInv => SentWhenDue
  BY DEF SendInv, SentWhenDue, DeliveredOnce
<1> QED BY <1>1, <1>2, <1>3, PTL DEF Spec
=============================================================================
