----------------------------- MODULE RateLimits -----------------------------
(* The Router's rate limiter (pkg/router/ratelimit.go): a bucket of tokens  *)
(* per client address and one per user, charged in that order, a batch for  *)
(* each of its items, and a Retry-After on a refusal. The buckets are those *)
(* of golang.org/x/time/rate, each of whose calls takes the bucket's lock.  *)
EXTENDS Naturals, Integers, FiniteSetsExt

CONSTANTS
  Clients,        \* connections, with one request each at a time
  Batches,        \* numbers of items of a request
  Second,         \* ticks of a second; a tick adds a token to each bucket
  AddrBurst, UserBurst,
  LimiterTTL,
  LastTick,       \* the clock stops here
  MaxDebt,        \* a request comes only while no bucket lacks more than that
  Nothing

ASSUME BurstsAssumption ==
  AddrBurst \in Nat \ {0} /\ UserBurst \in Nat \ {0}
  /\ Second \in Nat \ {0}
\* A bucket is full again before it may be swept.
ASSUME TTLAssumption == LimiterTTL \in Nat /\ LimiterTTL >= AddrBurst /\ LimiterTTL >= UserBurst
ASSUME ClientsAssumption == IsFiniteSet(Clients)
ASSUME BatchesAssumption == IsFiniteSet(Batches) /\ Batches \subseteq Nat /\ LastTick \in Nat /\ MaxDebt \in Nat
ASSUME NothingAssumption ==
  /\ Nothing \notin Nat \union {"addr", "user"}
  /\ Nothing \notin [seen : Nat, tokens : Int, last : Nat, lastEvent : Nat]

VARIABLES
  buckets,   \* byIP and byUser: the buckets of the one address and user
  calls,     \* per client: its request in the middleware
  granted,   \* per tick: items let through to the handlers
  crowded,   \* a refused batch has held its reservation together with another's
  clock

limiterVars == <<buckets, calls, granted, crowded, clock>>

Layers == {"addr", "user"}
Burst(l) == IF l = "addr" THEN AddrBurst ELSE UserBurst
Clock == 0..LastTick

\* limiterEntry: lastSeen, and what rate.Limiter keeps.
Bucket == [seen : Clock, tokens : Int, last : Clock, lastEvent : Nat]
Call ==
  [pc : {"idle", "take", "reserve", "cancel", "off"}, layer : Layers,
   batch : Batches \union {0},
   at : Clock,                       \* now, read once for AllowN and ReserveN
   act : Nat \union {Nothing},       \* the reservation: when it may act
   due : Nat \union {Nothing},       \* when the client was told to retry
   told : Layers \union {Nothing},   \* by which bucket
   alone : BOOLEAN]                  \* no other call on the buckets since it was refused, or came

IdleCall ==
  [pc |-> "idle", layer |-> "addr", batch |-> 0, at |-> 0, act |-> Nothing, due |-> Nothing,
   told |-> Nothing, alone |-> TRUE]

LimiterInit ==
  /\ buckets = [l \in Layers |-> Nothing]
  /\ calls \in [Clients -> {IdleCall, [IdleCall EXCEPT !.pc = "off"]}]
  /\ granted = [t \in Clock |-> 0]
  /\ crowded = FALSE
  /\ clock = 0

InFlight(c) == calls[c].pc \notin {"idle", "off"}

\* A batch costs its items, at least one token; one that is empty, cannot be
\* decoded or is cut at routeCostMaxPeekBytes has none.
CostOne(c) == 1
Cost(c) == IF calls[c].layer = "addr" \/ calls[c].batch = 0 THEN 1 ELSE calls[c].batch

\* Limiter.advance: tokens at time t, which may be before the last one.
TokensAt(l, b, t) == Min({Burst(l), b.tokens + (t - Min({t, b.last}))})

\* Everyone else's refusals are no longer undisturbed.
Disturb(c, f) == [d \in Clients |-> IF d = c THEN f[d] ELSE [f[d] EXCEPT !.alone = FALSE]]

\* A request comes; after a refusal, the same one again.
Arrive(c) ==
  /\ calls[c].pc = "idle"
  /\ \A l \in Layers : buckets[l] # Nothing => buckets[l].tokens >= -MaxDebt
  /\ \/ \E n \in Batches :
          calls' = [calls EXCEPT ![c] = [IdleCall EXCEPT !.pc = "take", !.batch = n,
                                           !.alone = \A d \in Clients \ {c} : ~InFlight(d)]]
     \/ calls[c].due # Nothing /\ calls[c].due <= clock
        /\ calls' = [calls EXCEPT ![c].pc = "take"]
  /\ UNCHANGED <<buckets, granted, crowded, clock>>

\* getOrCreate and AllowN of gateRequestN, for the address, then, once the
\* caller is known, for the user; then the handler.
Found(l) ==
  IF buckets[l] = Nothing THEN [seen |-> clock, tokens |-> Burst(l), last |-> clock, lastEvent |-> 0]
  ELSE [buckets[l] EXCEPT !.seen = clock]

Allows(l, n) == n <= Burst(l) /\ TokensAt(l, Found(l), clock) >= n

Take(c) ==
  LET l == calls[c].layer
      n == Cost(c)
  IN /\ calls[c].pc = "take"
     /\ \/ /\ Allows(l, n)
           /\ buckets' = [buckets EXCEPT ![l] = [Found(l) EXCEPT !.tokens = TokensAt(l, Found(l), clock) - n,
                                                              !.last = clock, !.lastEvent = clock]]
           /\ \/ /\ l = "addr"
                 /\ calls' = Disturb(c, [calls EXCEPT ![c].layer = "user"])
                 /\ UNCHANGED granted
              \/ /\ l = "user"
                 /\ calls' = Disturb(c, [calls EXCEPT ![c] = IdleCall])
                 /\ granted' = [granted EXCEPT ![clock] = @ + calls[c].batch]
        \/ /\ ~Allows(l, n)
           /\ buckets' = [buckets EXCEPT ![l] = Found(l)]
           /\ calls' = Disturb(c, [calls EXCEPT ![c].pc = "reserve", ![c].at = clock])
           /\ UNCHANGED granted
     /\ UNCHANGED <<crowded, clock>>

\* Whose reservation is not yet cancelled, of the user's tokens; and the ones of
\* more than a token among others.
Holds(c) == calls[c].pc = "cancel" /\ calls[c].layer = "user" /\ calls[c].act # Nothing
Crowds(c) ==
  calls[c].layer = "user" /\ \E d \in Clients \ {c} : Holds(d) /\ (Cost(c) # 1 \/ Cost(d) # 1)

\* ReserveN with the time AllowN was given, for the delay: none if the burst
\* is too small for the cost.
Reserve(c) ==
  LET l == calls[c].layer
      b == buckets[l]
      t == calls[c].at
      left == TokensAt(l, b, t) - Cost(c)
      act == t + Max({0, -left})
  IN /\ calls[c].pc = "reserve"
     /\ IF Cost(c) > Burst(l)
        THEN calls' = Disturb(c, [calls EXCEPT ![c].pc = "cancel"]) /\ UNCHANGED <<buckets, crowded>>
        ELSE /\ crowded' = (crowded \/ Crowds(c))
             /\ calls' = Disturb(c, [calls EXCEPT ![c].pc = "cancel", ![c].act = act])
             /\ buckets' = [buckets EXCEPT ![l] = [b EXCEPT !.tokens = left, !.last = t, !.lastEvent = act]]
     /\ UNCHANGED <<granted, clock>>

\* Reservation.Cancel: what was reserved is given back, but for what others
\* have reserved since.
Restored(l, b, act, n) ==
  LET back == n - (b.lastEvent - act)
      earlier == act - n
  IN IF act = Nothing \/ act < clock \/ back <= 0 THEN b
     ELSE [b EXCEPT !.tokens = Min({Burst(l), TokensAt(l, b, clock) + back}), !.last = clock,
                    !.lastEvent = IF act = @ /\ earlier >= clock THEN earlier ELSE @]

\* Seconds, rounded up, on the wire; the client counts from there.
RetryTruncated(delay) == (delay \div Second) * Second
RetryAfter(delay) == ((delay \div Second) + 1) * Second

Refuse(c) ==
  LET call == calls[c]
      due == IF call.act = Nothing THEN Nothing ELSE clock + RetryAfter(Max({0, call.act - clock}))
  IN /\ call.pc = "cancel"
     /\ buckets' = [buckets EXCEPT ![call.layer] = Restored(call.layer, @, call.act, Cost(c))]
     /\ calls' = Disturb(c, [calls EXCEPT ![c] = [IdleCall EXCEPT !.batch = call.batch, !.due = due,
                                                  !.told = call.layer, !.alone = call.alone]])
     /\ UNCHANGED <<granted, crowded, clock>>

\* cleanupLoop.
Sweep ==
  /\ \E l \in Layers : buckets[l] # Nothing /\ buckets[l].seen + LimiterTTL < clock
  /\ buckets' = [l \in Layers |-> IF buckets[l] # Nothing /\ buckets[l].seen + LimiterTTL < clock
                                  THEN Nothing ELSE buckets[l]]
  /\ UNCHANGED <<calls, granted, crowded, clock>>

\* No request is held for a whole tick between AllowN and Cancel.
Pass ==
  /\ clock < LastTick /\ \A c \in Clients : calls[c].pc \notin {"reserve", "cancel"}
  /\ clock' = clock + 1
  /\ UNCHANGED <<buckets, calls, granted, crowded>>

LimiterNext == Sweep \/ Pass \/ \E c \in Clients : Arrive(c) \/ Take(c) \/ Reserve(c) \/ Refuse(c)

LimiterSpec == LimiterInit /\ [][LimiterNext]_limiterVars

----------------------------------------------------------------------------
(* Properties.                                                              *)

\* Values have their types, and no bucket holds more than its burst.
LimiterTypeOK ==
  /\ buckets \in [Layers -> Bucket \union {Nothing}] /\ calls \in [Clients -> Call]
  /\ granted \in [Clock -> Nat] /\ crowded \in BOOLEAN /\ clock \in Clock
  /\ \A l \in Layers : buckets[l] # Nothing => buckets[l].tokens <= Burst(l)

\* Between any two ticks a user is let through no more items than the burst
\* and what was added meanwhile (ratelimit.go:48-60).
ServedWithinBudget ==
  \A from \in Clock : \A to \in from..LastTick :
    MapThenSumSet(LAMBDA t : granted[t], from..to) <= UserBurst + (to - from)

\* The buckets hold no more, and give no more, than they are configured for,
\* whatever requests were batches, were refused, or found their bucket swept, as
\* long as no refused batch held its reservation together with another refusal:
\* then CancelAt gives back more than was reserved (ratelimit.go:270-314).
BudgetHolds == LimiterTypeOK /\ (~crowded => ServedWithinBudget)

\* A client that was alone, waited for as long as it was told and asks again
\* is not refused again by the bucket that refused it: the delay is read
\* from a reservation that its cancellation takes back (ratelimit.go:289-299,
\* :452-464).
RetryIsServed ==
  \A c \in Clients : calls[c].pc = "reserve" /\ calls[c].alone => calls[c].told # calls[c].layer

\* A refused request takes nothing from the user's quota, once no request is
\* under way (the comment at ratelimit.go:291-293).
RefusalsAreFree ==
  (\A c \in Clients : ~InFlight(c)) /\ buckets["user"] # Nothing =>
    buckets["user"].tokens >= UserBurst - MapThenSumSet(LAMBDA t : granted[t], Clock)
=============================================================================
