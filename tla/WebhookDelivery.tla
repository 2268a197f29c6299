--------------------------- MODULE WebhookDelivery ---------------------------
(***************************************************************************)
(* The webhook delivery loop (pkg/controller/webhook_delivery): one leader *)
(* lists the Sandbox events, delivers those its cursor has not passed to   *)
(* every subscription that wants them, counts failures, disables a         *)
(* subscription that keeps failing, and saves the cursor at the end of the *)
(* pass.  The cursor is a time.  Events carry the second they were         *)
(* recorded in and reach the loop later; the cursor and the counters live  *)
(* in one ConfigMap that is read through a cache and written with the      *)
(* version that was read.                                                  *)
(***************************************************************************)
EXTENDS Naturals, Sequences, FiniteSets

CONSTANTS
  Events,        \* the Event objects about one sandbox
  Subs,          \* subscriptions; every one wants every event
  None,          \* no time, no event, no subscription
  SecondLength,  \* ticks of the clock in a second
  MaxTime,       \* bound on the clock
  Threshold,     \* consecutive failures that disable (15 in the code)
  MaxHistory,    \* maxHistoryPerSubscription (20 in the code)
  InOrder,       \* events reach the loop in the order they were recorded
  MaxFaults      \* bound on failed calls, crashes and passes that start too early

ASSUME NoneAssumption == None \notin Nat \union Events \union Subs
ASSUME NumbersAssumption ==
  /\ SecondLength \in Nat \ {0} /\ MaxTime \in Nat /\ MaxFaults \in Nat
  /\ MaxHistory \in Nat /\ Threshold \in 1..MaxHistory
ASSUME InOrderAssumption == InOrder \in BOOLEAN
ASSUME FinitenessAssumption == IsFiniteSet(Events) /\ IsFiniteSet(Subs)

VARIABLES
  now,      \* the clock
  shown,    \* the time of each event as the loop lists it, or None
  due,      \* the time of an event that was recorded and is not listed yet
  gone,     \* the sandbox no longer exists
  sub,      \* each subscription: "none", "active", "disabled" or "deleted"
  cm,       \* the state ConfigMap: cursor, seen, history and counters
  cached,   \* its cursor and seen as the cache of the controller shows them
  fresh,    \* the cache shows the last version
  pass,     \* the running pass
  sent,     \* history: how often an event, as last listed, went to a subscription
  start,    \* history: the starting point, and what was listed by then
  slipped,  \* history: a pass was cut short, or began before the cache showed
            \* the last save, or a save was refused
  faults

vars == <<now, shown, due, gone, sub, cm, cached, fresh, pass, sent, start, slipped, faults>>
loop == <<cm, cached, fresh, pass, sent, start, slipped>>

Times == 0..MaxTime
TimeOrNone == Times \union {None}

\* The API server keeps whole seconds of a LastTimestamp.
Second(t) == t - (t % SecondLength)

Outcomes == {"delivered", "failed"}
Histories == {h \in Seq(Outcomes) : Len(h) <= MaxHistory}

\* cursor and seen: persistedState; history: the outcomes of the last
\* deliveries; failures: the consecutive ones, counted up to Threshold.
State ==
  [cursor : TimeOrNone, seen : SUBSET Events, history : [Subs -> Histories],
   failures : [Subs -> 0..Threshold]]

\* What a pass reads of it: LoadCursorState.
CursorState == [cursor : TimeOrNone, seen : SUBSET Events]

CursorOf(c) == [cursor |-> c.cursor, seen |-> c.seen]

\* An event as it was listed: a later recurrence is another occurrence.
Occurrences == Events \X Times

\* todo: the matched events not dispatched yet; event: the one at work; left:
\* the subscriptions it still goes to; to: the one at work, with the outcome;
\* subs: the subscriptions listed as active; next, nextSeen: the cursor to save.
Pass ==
  [pc : {"idle", "dispatch", "record", "disable"},
   todo : SUBSET Occurrences, event : Occurrences \union {None}, left : SUBSET Subs,
   to : Subs \union {None}, outcome : Outcomes, subs : SUBSET Subs,
   next : TimeOrNone, nextSeen : SUBSET Events]

NoPass ==
  [pc |-> "idle", todo |-> {}, event |-> None, left |-> {}, to |-> None,
   outcome |-> "failed", subs |-> {}, next |-> None, nextSeen |-> {}]

Init ==
  /\ now = 0
  /\ shown = [e \in Events |-> None]
  /\ due = [e \in Events |-> None]
  /\ gone = FALSE
  /\ sub = [s \in Subs |-> "none"]
  /\ cm = [cursor |-> None, seen |-> {}, history |-> [s \in Subs |-> <<>>],
           failures |-> [s \in Subs |-> 0]]
  /\ cached = CursorOf(cm)
  /\ fresh = TRUE
  /\ pass = NoPass
  /\ sent = [e \in Events |-> [s \in Subs |-> 0]]
  /\ start = [cursor |-> None, backlog |-> {}]
  /\ slipped = FALSE
  /\ faults = MaxFaults

Fault ==
  /\ faults > 0
  /\ faults' = faults - 1

-----------------------------------------------------------------------------
(* The pass.                                                               *)

Listed == {e \in Events : shown[e] # None}
AsListed(S) == {<<e, shown[e]>> : e \in S}

\* The latest time among the cursor and all listed events; the clock when there
\* is neither.
MaxSeen ==
  LET times == {shown[e] : e \in Listed} \union ({cached.cursor} \ {None})
  IN  IF times = {} THEN now ELSE CHOOSE t \in times : \A u \in times : u <= t

AtMaxSecond == {e \in Listed : shown[e] = MaxSeen}

\* Mutant: the boundary second is excluded.
NewEventsStrict == {e \in Listed : shown[e] > cached.cursor}

\* The events the cursor has not passed: its own second is included, but for
\* the events already seen in it.
NewEvents ==
  {e \in Listed : /\ shown[e] >= cached.cursor
                  /\ ~(shown[e] = cached.cursor /\ e \in cached.seen)}

\* Mutant: while the second lasts, what it brings is not added.
NextSeenFrozen == IF MaxSeen = cached.cursor THEN cached.seen ELSE AtMaxSecond

\* The events seen at the second of the next cursor.
NextSeen == IF MaxSeen = cached.cursor THEN cached.seen \union AtMaxSecond ELSE AtMaxSecond

\* The first pass ever delivers nothing: it sets the starting point.
Bootstrap ==
  /\ pass.pc = "idle" /\ cached.cursor = None /\ fresh
  /\ cm' = [cm EXCEPT !.cursor = MaxSeen, !.seen = AtMaxSecond]
  /\ fresh' = FALSE
  /\ start' = [cursor |-> MaxSeen, backlog |-> AsListed(Listed)]
  /\ UNCHANGED <<now, shown, due, gone, sub, cached, pass, sent, slipped, faults>>

\* A pass starts: the cursor is loaded, events and subscriptions are listed.  A
\* pass longer than the interval is followed at once by the next, and the cache
\* may not show its save: at most MaxFaults times.
StartPass ==
  /\ pass.pc = "idle" /\ cached.cursor # None
  /\ NewEvents # {}
  /\ pass' = [NoPass EXCEPT !.pc = "dispatch", !.todo = AsListed(NewEvents),
                            !.subs = {s \in Subs : sub[s] = "active"},
                            !.next = MaxSeen, !.nextSeen = NextSeen]
  /\ \/ fresh /\ UNCHANGED <<slipped, faults>>
     \/ ~fresh /\ slipped' = TRUE /\ Fault
  /\ UNCHANGED <<now, shown, due, gone, sub, cm, cached, fresh, sent, start>>

\* dispatchEvent takes the oldest event left.
NextEvent ==
  /\ pass.pc = "dispatch" /\ pass.left = {}
  /\ \E e \in pass.todo :
       /\ \A f \in pass.todo : e[2] <= f[2]
       /\ pass' = [pass EXCEPT !.todo = @ \ {e}, !.event = e, !.left = pass.subs]
  /\ UNCHANGED <<now, shown, due, gone, sub, cm, cached, fresh, sent, start, slipped, faults>>

\* deliverWithRetry: all attempts at one subscription, with their outcome.  A
\* subscription without access to the sandbox is passed over.
Deliver ==
  /\ pass.pc = "dispatch"
  /\ \E s \in pass.left :
       IF gone
       THEN /\ pass' = [pass EXCEPT !.left = @ \ {s}]
            /\ UNCHANGED sent
       ELSE /\ \E o \in Outcomes : pass' = [pass EXCEPT !.pc = "record", !.left = @ \ {s},
                                                      !.to = s, !.outcome = o]
            /\ sent' = [sent EXCEPT ![pass.event[1]][s] =
                          IF @ < 2 /\ shown[pass.event[1]] = pass.event[2] THEN @ + 1 ELSE @]
  /\ UNCHANGED <<now, shown, due, gone, sub, cm, cached, fresh, start, slipped, faults>>

Trim(h) == IF Len(h) > MaxHistory THEN Tail(h) ELSE h

\* Mutant: a success does not reset the counter.
CountedNoReset(s, o) ==
  [cm EXCEPT !.history[s] = Trim(Append(@, o)),
             !.failures[s] = IF o = "delivered" \/ @ = Threshold THEN @ ELSE @ + 1]

\* The ConfigMap after one more outcome for s.
Counted(s, o) ==
  [cm EXCEPT !.history[s] = Trim(Append(@, o)),
             !.failures[s] = IF o = "delivered" THEN 0 ELSE IF @ = Threshold THEN @ ELSE @ + 1]

\* RecordAttempt loads and saves: the save is refused when the cache is behind.
Record ==
  /\ pass.pc = "record"
  /\ \/ /\ fresh
        /\ cm' = Counted(pass.to, pass.outcome)
        /\ fresh' = FALSE
        /\ pass' = [pass EXCEPT !.pc = IF cm'.failures[pass.to] >= Threshold
                                       THEN "disable" ELSE "dispatch"]
        /\ UNCHANGED <<slipped, faults>>
     \/ /\ IF fresh THEN Fault ELSE UNCHANGED faults
        /\ pass' = [pass EXCEPT !.pc = "dispatch"]
        /\ slipped' = TRUE
        /\ UNCHANGED <<cm, fresh>>
  /\ UNCHANGED <<now, shown, due, gone, sub, cached, sent, start>>

\* DisableSubscription writes the subscription's Secret, unless the owner
\* deleted it.
Disable ==
  /\ pass.pc = "disable"
  /\ \/ /\ sub' = IF sub[pass.to] = "active" THEN [sub EXCEPT ![pass.to] = "disabled"] ELSE sub
        /\ UNCHANGED faults
     \/ Fault /\ UNCHANGED sub
  /\ pass' = [pass EXCEPT !.pc = "dispatch"]
  /\ UNCHANGED <<now, shown, due, gone, cm, cached, fresh, sent, start, slipped>>

\* Every event was dispatched: the cursor is saved, or refused.
SaveCursor ==
  /\ pass.pc = "dispatch" /\ pass.todo = {} /\ pass.left = {}
  /\ \/ /\ fresh
        /\ cm' = [cm EXCEPT !.cursor = pass.next, !.seen = pass.nextSeen]
        /\ fresh' = FALSE
        /\ UNCHANGED <<slipped, faults>>
     \/ /\ IF fresh THEN Fault ELSE UNCHANGED faults
        /\ slipped' = TRUE
        /\ UNCHANGED <<cm, fresh>>
  /\ pass' = NoPass
  /\ UNCHANGED <<now, shown, due, gone, sub, cached, sent, start>>

\* The leader stops in the middle of a pass; its successor starts with a cache
\* that is up to date.
Crash ==
  /\ pass.pc # "idle"
  /\ Fault
  /\ pass' = NoPass
  /\ cached' = CursorOf(cm) /\ fresh' = TRUE
  /\ slipped' = TRUE
  /\ UNCHANGED <<now, shown, due, gone, sub, cm, sent, start>>

RunOnce == Bootstrap \/ StartPass \/ NextEvent \/ Deliver \/ Record \/ Disable \/ SaveCursor

-----------------------------------------------------------------------------
(* Events, subscriptions, the cache and the clock.                         *)

\* An event is recorded, or recorded again: one object then stands for both,
\* with the later time.
Emit(e) ==
  /\ due[e] = None /\ ~gone
  /\ shown[e] # None => shown[e] < Second(now)
  /\ due' = [due EXCEPT ![e] = Second(now)]
  /\ UNCHANGED <<now, shown, gone, sub, faults>> /\ UNCHANGED loop

\* It reaches the list the loop reads.
List(e) ==
  /\ due[e] # None
  /\ InOrder => \A f \in Events : due[f] # None => due[e] <= due[f]
  /\ shown' = [shown EXCEPT ![e] = due[e]]
  /\ due' = [due EXCEPT ![e] = None]
  /\ sent' = [sent EXCEPT ![e] = [s \in Subs |-> 0]]
  /\ UNCHANGED <<now, gone, sub, cm, cached, fresh, pass, start, slipped, faults>>

SandboxGone ==
  /\ ~gone
  /\ gone' = TRUE
  /\ UNCHANGED <<now, shown, due, sub, faults>> /\ UNCHANGED loop

Subscribe(s) ==
  /\ sub[s] = "none"
  /\ sub' = [sub EXCEPT ![s] = "active"]
  /\ UNCHANGED <<now, shown, due, gone, faults>> /\ UNCHANGED loop

Unsubscribe(s) ==
  /\ sub[s] \in {"active", "disabled"}
  /\ sub' = [sub EXCEPT ![s] = "deleted"]
  /\ UNCHANGED <<now, shown, due, gone, faults>> /\ UNCHANGED loop

SyncState ==
  /\ ~fresh
  /\ cached' = CursorOf(cm) /\ fresh' = TRUE
  /\ UNCHANGED <<now, shown, due, gone, sub, cm, pass, sent, start, slipped, faults>>

Tick ==
  /\ now < MaxTime
  /\ now' = now + 1
  /\ UNCHANGED <<shown, due, gone, sub, faults>> /\ UNCHANGED loop

Next ==
  \/ RunOnce \/ Crash \/ SyncState \/ Tick \/ SandboxGone
  \/ \E e \in Events : Emit(e) \/ List(e)
  \/ \E s \in Subs : Subscribe(s) \/ Unsubscribe(s)

Spec == Init /\ [][Next]_vars

\* The ticker starts passes, a pass goes on, and recorded events and written
\* ConfigMaps reach the caches.
Fairness ==
  /\ WF_vars(RunOnce) /\ WF_vars(SyncState)
  /\ \A e \in Events : WF_vars(List(e))

FairSpec == Spec /\ Fairness

-----------------------------------------------------------------------------
(* Properties.                                                             *)

\* Every variable keeps its type: above all the history of a subscription
\* is trimmed (RecordAttempt).
TypeOK ==
  /\ now \in Times
  /\ shown \in [Events -> TimeOrNone] /\ due \in [Events -> TimeOrNone]
  /\ gone \in BOOLEAN
  /\ sub \in [Subs -> {"none", "active", "disabled", "deleted"}]
  /\ cm \in State /\ cached \in CursorState /\ fresh \in BOOLEAN /\ pass \in Pass
  /\ sent \in [Events -> [Subs -> 0..2]]
  /\ start \in [cursor : TimeOrNone, backlog : SUBSET Occurrences]
  /\ slipped \in BOOLEAN /\ faults \in 0..MaxFaults

\* listNewEvents: an event that was there before the loop first ran is not
\* delivered, although the cursor's own second is scanned again.
NoBacklog ==
  \A o \in start.backlog : shown[o[1]] = o[2] =>
    \A s \in Subs : sent[o[1]][s] = 0

\* The set of seen events does its work: an event goes twice to a subscription
\* only after a pass was cut short, a save was refused, or a pass began before
\* the cache showed the save of the last.
DeliveredOnce ==
  ~slipped => \A e \in Events, s \in Subs : sent[e][s] <= 1

\* Nothing is sent that should not be: the two bounds on dispatchEvent together.
SentWhenDue == NoBacklog /\ DeliveredOnce

\* RecordAttempt and DisableSubscription: a subscription is disabled only when
\* its last Threshold recorded deliveries all failed.
DisabledAfterFailures ==
  [][\A s \in Subs : sub[s] = "active" /\ sub'[s] = "disabled" =>
       LET h == cm.history[s]
       IN  /\ Len(h) >= Threshold
           /\ \A i \in (Len(h) - Threshold + 1)..Len(h) : h[i] = "failed"]_vars

\* RunOnce: at least once.  An event recorded at or after the starting point is
\* sent to a subscription that was active then and stays so, unless its sandbox
\* is gone or the event recurred before the pass.
AtLeastOnce ==
  \A e \in Events, s \in Subs : \A t \in {Second(u) : u \in Times} :
    (due[e] = t /\ start.cursor # None /\ start.cursor <= t /\ sub[s] = "active")
      ~> \/ shown[e] = t /\ sent[e][s] > 0
         \/ shown[e] # None /\ shown[e] > t
         \/ sub[s] # "active" \/ gone

\* Deliveries end: when nothing happens any more, a subscription is not sent the
\* same events for ever.
DeliveriesEnd == <>[](pass.pc = "idle")
=============================================================================
