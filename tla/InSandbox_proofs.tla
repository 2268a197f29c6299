-------------------------- MODULE InSandbox_proofs --------------------------
(***************************************************************************)
(* Proofs about what runs inside a sandbox: AgentInvoke, for any replicas  *)
(* and requests, every set of caps and any number of faults;               *)
(* AgentConfigure, for any number of requests and faults, any files and    *)
(* commands, and any ceiling; TerminalSessions, for any number of          *)
(* browsers, any sizes and any number of resizes.                          *)
(***************************************************************************)
EXTENDS AgentInvoke, AgentConfigure, TerminalSessions, FiniteSetTheorems, TLAPS

-----------------------------------------------------------------------------
(* AgentInvoke                                                             *)

-----------------------------------------------------------------------------
(* Types.                                                                   *)

CallsAreTyped == call \in [Calls -> Call] /\ proc \in [Calls -> Proc]

LEMMA ContextTypes ==
  ASSUME NEW ctx \in Contexts
  PROVE  /\ Ended(ctx, "canceled") \in Contexts
         /\ ErrorReason(ctx) \in Reasons /\ ErrorReason(ctx) # "completed"
  BY DEF Contexts, Ended, ErrorReason, Reasons

\* Every record the code writes has the type of one.
LEMMA EndsTypes ==
  ASSUME CallsAreTyped, NEW c \in Calls, NEW reason \in Reasons, NEW code \in Codes, Ends(c, reason, code)
  PROVE  /\ call' \in [Calls -> Call]
         /\ \A d \in Calls : d # c => call'[d] = call[d]
         /\ call'[c].pc = IF c \in Invokes THEN "ended" ELSE "done"
         /\ call'[c].reason = reason /\ call'[c].code = code
         /\ call'[c].via = call[c].via /\ call'[c].at = call[c].at /\ call'[c].limit = call[c].limit
<1> DEFINE pc == IF c \in Invokes THEN "ended" ELSE "done"
           d == [call[c] EXCEPT !.pc = pc, !.reason = reason, !.code = code]
<1>1. call \in [Calls -> Call] /\ call[c] \in Call
  BY DEF CallsAreTyped
<1>2. pc \in {"ended", "done"}
  OBVIOUS
<1>3. d \in Call /\ d.pc = pc /\ d.reason = reason /\ d.code = code
      /\ d.via = call[c].via /\ d.at = call[c].at /\ d.limit = call[c].limit
  <2> HIDE DEF pc
  <2> QED BY <1>1, <1>2 DEF Call
<1>4. call' = [call EXCEPT ![c] = d]
  BY <1>1 DEF Ends
<1> HIDE DEF d
<1> QED BY <1>1, <1>3, <1>4

LEMMA ReportedTypes ==
  ASSUME CallsAreTyped, NEW c \in Calls, NEW reason \in Reasons, NEW code \in Codes,
         proc' = Reported(c, reason, code)
  PROVE  /\ proc' \in [Calls -> Proc]
         /\ \A d \in Calls : d # c => proc'[d] = proc[d]
         /\ proc'[c].st = "reported"
<1> DEFINE d == [proc[c] EXCEPT !.st = "reported", !.listed = FALSE, !.reason = reason, !.code = code]
<1>1. proc \in [Calls -> Proc] /\ proc[c] \in Proc
  BY DEF CallsAreTyped
<1>2. d \in Proc /\ d.st = "reported"
  BY <1>1 DEF Proc
<1>3. proc' = [proc EXCEPT ![c] = d]
  BY <1>1 DEF Reported
<1> HIDE DEF d
<1> QED BY <1>1, <1>2, <1>3

LEMMA InitTyped == Init => CallsAreTyped
<1>1. NewProc \in Proc
  BY DEF NewProc, Proc, Contexts, Codes, Reasons
<1>2. NewCall \in Call /\ [NewCall EXCEPT !.pc = "refused"] \in Call
  BY DEF NewCall, Call, Contexts, Codes, Reasons
<1> QED BY <1>1, <1>2 DEF Init, CallsAreTyped

LEMMA TypedStep == CallsAreTyped /\ [Next]_vars => CallsAreTyped'
<1> SUFFICES ASSUME CallsAreTyped, [Next]_vars PROVE CallsAreTyped'
  OBVIOUS
<1> USE DEF CallsAreTyped
<1>1. /\ None \in Reasons /\ "completed" \in Reasons /\ "error" \in Reasons
      /\ "none" \in Codes /\ "status" \in Codes
      /\ \A c \in Calls : proc[c].reason \in Reasons /\ proc[c].code \in Codes
      /\ \A c \in Calls : call[c].ctx \in Contexts /\ proc[c].ctx \in Contexts
      /\ \A c \in Calls : NoStatus(c) \in Codes
      /\ Invokes \subseteq Calls /\ Execs \subseteq Calls
  BY DEF Reasons, Codes, Call, Proc, Calls, NoStatus
<1>2. ASSUME NEW c \in Calls, NEW r \in Replicas, Load(c, r) \/ Exec(c, r) PROVE CallsAreTyped'
  BY <1>2 DEF Load, Exec, Call
<1>3. ASSUME NEW r \in Replicas, Crash(r) PROVE CallsAreTyped'
  BY <1>3 DEF Crash, Call
<1>4. ASSUME NEW c \in Invokes, CancelHere(c) \/ CancelThere(c) PROVE CallsAreTyped'
  <2>1. Ended(call[c].ctx, "canceled") \in Contexts /\ Ended(proc[c].ctx, "canceled") \in Contexts
    BY <1>1, ContextTypes
  <2>2. CASE CancelHere(c)
    <3> DEFINE d == [call[c] EXCEPT !.acked = TRUE, !.ctx = Ended(@, "canceled")]
    <3>1. d \in Call
      BY <1>1, <2>1 DEF Call
    <3>2. call' = [call EXCEPT ![c] = d] /\ proc' = proc
      BY <1>1, <2>2 DEF CancelHere
    <3> QED BY <3>1, <3>2
  <2>3. CASE CancelThere(c)
    <3>1. call' \in [Calls -> Call]
      <4>1. [call[c] EXCEPT !.acked = TRUE] \in Call
        BY <1>1 DEF Call
      <4> QED BY <1>1, <2>3, <4>1 DEF CancelThere
    <3>2. proc' \in [Calls -> Proc]
      BY <1>1, <2>1, <2>3 DEF CancelThere, Proc
    <3> QED BY <3>1, <3>2
  <2> QED BY <1>4, <2>2, <2>3
<1>5. ASSUME NEW c \in Calls, Handler(c) PROVE CallsAreTyped'
  <2>1. CASE Admit(c) \/ Start(c) \/ Enlist(c) \/ Return(c)
    BY <2>1 DEF Admit, Start, Enlist, Return, Call, Contexts
  <2>2. CASE Dispatch(c)
    <3>1. PICK via \in {"http", "spdy"} : call' = [call EXCEPT ![c].pc = "streaming", ![c].via = via]
      BY <2>2 DEF Dispatch
    <3> DEFINE d == [call[c] EXCEPT !.pc = "streaming", !.via = via]
    <3>2. d \in Call
      BY <3>1 DEF Call
    <3>3. call' = [call EXCEPT ![c] = d] /\ proc' = proc
      BY <2>2, <3>1 DEF Dispatch
    <3> QED BY <3>2, <3>3
  <2>3. ErrorReason(call[c].ctx) \in Reasons
    BY <1>1, ContextTypes
  <2>4. CASE InvokeHTTP(c) \/ ExecHTTP(c) \/ StreamSPDY(c) \/ DropSPDY(c)
    <3>1. \E reason \in Reasons, code \in Codes : Ends(c, reason, code)
      BY <1>1, <2>3, <2>4 DEF InvokeHTTP, ExecHTTP, StreamSPDY, DropSPDY
    <3> QED BY <2>4, <3>1, EndsTypes DEF InvokeHTTP, ExecHTTP, StreamSPDY, DropSPDY
  <2> QED BY <1>5, <2>1, <2>2, <2>4 DEF Handler
<1>6. ASSUME NEW c \in Calls, Runtime(c) PROVE CallsAreTyped'
  <2>1. call' = call
    BY <1>6 DEF Runtime, Spawn, Kill, Report, Hangup
  <2>2. CASE Kill(c) \/ Hangup(c)
    BY <2>1, <2>2 DEF Kill, Hangup, Proc, Contexts
  <2>3. RunReason(c) \in Reasons /\ RunCode(c) \in Codes
    BY <1>1, ContextTypes DEF RunReason, RunCode
  <2>4. CASE Spawn(c)
    <3>1. proc' = [proc EXCEPT ![c].st = "running"] \/ proc' = Reported(c, "error", "none")
      BY <2>4 DEF Spawn
    <3>2. CASE proc' = [proc EXCEPT ![c].st = "running"]
      BY <2>1, <3>2 DEF Proc
    <3> QED BY <1>1, <2>1, <3>1, <3>2, ReportedTypes
  <2>5. CASE Report(c)
    BY <2>1, <2>3, <2>5, ReportedTypes DEF Report
  <2> QED BY <1>6, <2>2, <2>4, <2>5 DEF Runtime
<1>7. ASSUME NEW c \in Calls, Reject(c) \/ Deadline(c) \/ Disconnect(c) PROVE CallsAreTyped'
  <2>1. Ended(call[c].ctx, "canceled") \in Contexts
    BY <1>1, ContextTypes
  <2>2. CASE Reject(c) \/ Deadline(c)
    BY <2>2 DEF Reject, Deadline, Call, Contexts
  <2>3. CASE Disconnect(c)
    <3> DEFINE d == [call[c] EXCEPT !.client = FALSE, !.ctx = Ended(@, "canceled")]
    <3>1. d \in Call
      BY <2>1 DEF Call
    <3>2. call' = [call EXCEPT ![c] = d] /\ proc' = proc
      BY <2>3 DEF Disconnect
    <3> QED BY <3>1, <3>2
  <2> QED BY <1>7, <2>2, <2>3
<1>8. ASSUME NEW c \in Calls, Accept(c) \/ Exit(c) \/ Drain(c) \/ RuntimeDeadline(c) PROVE CallsAreTyped'
  BY <1>8 DEF Accept, Exit, Drain, RuntimeDeadline, Proc, Contexts, Codes
<1>9. CASE ContainerGone
  BY <1>9 DEF ContainerGone, Proc
<1>10. CASE UNCHANGED vars
  BY <1>10 DEF vars
<1> QED BY <1>2, <1>3, <1>4, <1>5, <1>6, <1>7, <1>8, <1>9, <1>10 DEF Next

-----------------------------------------------------------------------------
(* How a request moves, whichever action is taken.                          *)

KeepsOutcome(c) == call'[c].via = call[c].via /\ call'[c].reason = call[c].reason /\ call'[c].code = call[c].code
KeepsPlace(c) == call'[c].at = call[c].at /\ call'[c].limit = call[c].limit

\* The moves that take no slot and give none back.
Stays(c) == call'[c].pc = call[c].pc /\ KeepsPlace(c) /\ KeepsOutcome(c)
Loads(c) ==
  /\ c \in Invokes /\ call[c].pc = "new" /\ call'[c].pc = "loaded" /\ KeepsOutcome(c)
  /\ call'[c].at \in Replicas /\ call'[c].limit \in Caps
Executes(c) == c \in Execs /\ call[c].pc = "new" /\ call'[c].pc = "streaming"
Proceeds(c) ==
  /\ KeepsPlace(c)
  /\ \/ call[c].pc = "admitted" /\ call'[c].pc = "started" /\ KeepsOutcome(c)
     \/ call[c].pc = "started" /\ call'[c].pc = "listed" /\ KeepsOutcome(c)
     \/ /\ call[c].pc = "listed" /\ call'[c].pc = "streaming"
        /\ call'[c].reason = call[c].reason /\ call'[c].code = call[c].code
Concludes(c) ==
  /\ KeepsPlace(c) /\ call'[c].via = call[c].via
  /\ call[c].pc = "streaming" /\ call'[c].pc = IF c \in Invokes THEN "ended" ELSE "done"
  /\ c \in Invokes /\ call'[c].reason = "completed" /\ call'[c].code # "none" =>
       /\ proc[c].code = call'[c].code
       /\ proc[c].st = "reported" \/ (call[c].via = "spdy" /\ proc[c].st = "exited")
Moves(c) == Stays(c) \/ Loads(c) \/ Executes(c) \/ Proceeds(c) \/ Concludes(c)

LEMMA OneMoves ==
  ASSUME CallsAreTyped, NEW c \in Calls, NEW d \in Call, call' = [call EXCEPT ![c] = d]
  PROVE  call'[c] = d /\ \A e \in Calls : e # c => call'[e] = call[e] /\ Stays(e)
BY DEF CallsAreTyped, Stays, KeepsPlace, KeepsOutcome

\* The end of a stream: a status is passed on only of a command that ended.
LEMMA StreamEnds ==
  ASSUME CallsAreTyped, NEW c \in Calls,
         InvokeHTTP(c) \/ ExecHTTP(c) \/ StreamSPDY(c) \/ DropSPDY(c)
  PROVE  Concludes(c) /\ \A e \in Calls : e # c => Stays(e)
<1>1. /\ ErrorReason(call[c].ctx) \in Reasons /\ ErrorReason(call[c].ctx) # "completed"
      /\ proc[c].reason \in Reasons /\ proc[c].code \in Codes
      /\ {"none", "status"} \subseteq Codes /\ "completed" \in Reasons
  <2>1. call[c] \in Call /\ proc[c] \in Proc
    BY DEF CallsAreTyped
  <2>2. call[c].ctx \in Contexts /\ proc[c].reason \in Reasons /\ proc[c].code \in Codes
    BY <2>1 DEF Call, Proc
  <2> QED BY <2>2, ContextTypes DEF Reasons, Codes
<1>2. \A reason \in Reasons, code \in Codes : Ends(c, reason, code) =>
        /\ \A e \in Calls : e # c => Stays(e)
        /\ KeepsPlace(c) /\ call'[c].via = call[c].via
        /\ call'[c].pc = IF c \in Invokes THEN "ended" ELSE "done"
        /\ call'[c].reason = reason /\ call'[c].code = code
  BY EndsTypes DEF Stays, KeepsPlace, KeepsOutcome
<1>3. call[c].pc = "streaming"
  BY DEF InvokeHTTP, ExecHTTP, StreamSPDY, DropSPDY
<1>4. CASE InvokeHTTP(c)
  <2>1. \/ proc[c].st = "reported" /\ Ends(c, proc[c].reason, proc[c].code)
        \/ Ends(c, ErrorReason(call[c].ctx), "none")
    BY <1>4 DEF InvokeHTTP
  <2> QED BY <1>1, <1>2, <1>3, <2>1 DEF Concludes
<1>5. CASE ExecHTTP(c)
  <2>1. c \notin Invokes
    BY <1>5, CallsAssumption DEF ExecHTTP
  <2>2. \E reason \in Reasons, code \in Codes : Ends(c, reason, code)
    BY <1>1, <1>5 DEF ExecHTTP
  <2> QED BY <1>2, <1>3, <2>1, <2>2 DEF Concludes
<1>6. CASE StreamSPDY(c)
  <2>1. NoStatus(c) \in Codes /\ (c \in Invokes => NoStatus(c) = "none")
    BY <1>1 DEF NoStatus
  <2>2. /\ call[c].via = "spdy"
        /\ \/ proc[c].st = "exited" /\ Ends(c, "completed", proc[c].code)
           \/ Ends(c, "completed", NoStatus(c))
    BY <1>6 DEF StreamSPDY
  <2> QED BY <1>1, <1>2, <1>3, <2>1, <2>2 DEF Concludes
<1>7. CASE DropSPDY(c)
  <2>1. IF c \in Invokes THEN Ends(c, ErrorReason(call[c].ctx), "none") ELSE Ends(c, "completed", "status")
    BY <1>7 DEF DropSPDY
  <2> QED BY <1>1, <1>2, <1>3, <2>1 DEF Concludes
<1> QED BY <1>4, <1>5, <1>6, <1>7

\* Edits that leave a request where it is.
Alike(d, l) ==
  /\ d.pc = l.pc /\ d.at = l.at /\ d.limit = l.limit
  /\ d.via = l.via /\ d.reason = l.reason /\ d.code = l.code

LEMMA AlikeEdits ==
  ASSUME NEW l \in Call, NEW ctx
  PROVE  /\ Alike([l EXCEPT !.acked = TRUE, !.ctx = ctx], l)
         /\ Alike([l EXCEPT !.client = FALSE, !.ctx = ctx], l)
         /\ Alike([l EXCEPT !.acked = TRUE], l)
         /\ Alike([l EXCEPT !.ctx = ctx], l)
         /\ Alike([l EXCEPT !.listed = TRUE, !.ctx = ctx], l)
BY DEF Call, Alike

LEMMA AlikeStays ==
  ASSUME CallsAreTyped, NEW c \in Calls, NEW d, Alike(d, call[c]), call' = [call EXCEPT ![c] = d]
  PROVE  \A e \in Calls : Stays(e)
BY DEF CallsAreTyped, Alike, Stays, KeepsPlace, KeepsOutcome

\* The actions that leave the counters alone.
LEMMA SlotFreeMoves ==
  ASSUME CallsAreTyped,
         \/ \E r \in Replicas, c \in Calls : Load(c, r) \/ Exec(c, r)
         \/ \E c \in Invokes : CancelHere(c) \/ CancelThere(c)
         \/ \E c \in Calls :
              \/ Start(c) \/ Enlist(c) \/ Dispatch(c)
              \/ InvokeHTTP(c) \/ ExecHTTP(c) \/ StreamSPDY(c) \/ DropSPDY(c)
              \/ Runtime(c) \/ Deadline(c) \/ Disconnect(c)
              \/ Accept(c) \/ Exit(c) \/ Drain(c) \/ RuntimeDeadline(c)
         \/ ContainerGone \/ UNCHANGED vars
  PROVE  counts' = counts /\ \A e \in Calls : Moves(e)
<1> USE DEF Moves
<1>0. /\ call \in [Calls -> Call] /\ Invokes \subseteq Calls
      /\ call' = call => \A e \in Calls : Stays(e)
  BY DEF CallsAreTyped, Calls, Stays, KeepsPlace, KeepsOutcome
<1>1. ASSUME NEW r \in Replicas, NEW c \in Calls, Load(c, r) PROVE counts' = counts /\ \A e \in Calls : Moves(e)
  <2>1. PICK n \in Caps : call' = [call EXCEPT ![c].pc = "loaded", ![c].at = r, ![c].limit = n]
    BY <1>1 DEF Load
  <2> DEFINE d == [call[c] EXCEPT !.pc = "loaded", !.at = r, !.limit = n]
  <2>2. call' = [call EXCEPT ![c] = d]
    BY <1>0, <2>1
  <2>3. /\ d.pc = "loaded" /\ d.at = r /\ d.limit = n
        /\ d.via = call[c].via /\ d.reason = call[c].reason /\ d.code = call[c].code
    BY <1>0 DEF Call
  <2> HIDE DEF d
  <2>4. Loads(c)
    BY <1>0, <1>1, <2>2, <2>3 DEF Load, Loads, KeepsOutcome
  <2>5. \A e \in Calls : e # c => Stays(e)
    BY <1>0, <2>2 DEF Stays, KeepsPlace, KeepsOutcome
  <2> QED BY <1>1, <2>4, <2>5 DEF Load
<1>2. ASSUME NEW r \in Replicas, NEW c \in Calls, Exec(c, r) PROVE counts' = counts /\ \A e \in Calls : Moves(e)
  <2>1. PICK via \in {"http", "spdy"} : call' = [call EXCEPT ![c].pc = "streaming", ![c].at = r, ![c].via = via]
    BY <1>2 DEF Exec
  <2> DEFINE d == [call[c] EXCEPT !.pc = "streaming", !.at = r, !.via = via]
  <2>2. call' = [call EXCEPT ![c] = d]
    BY <1>0, <2>1
  <2>3. d.pc = "streaming"
    BY <1>0 DEF Call
  <2> HIDE DEF d
  <2>4. Executes(c)
    BY <1>0, <1>2, <2>2, <2>3 DEF Exec, Executes
  <2>5. \A e \in Calls : e # c => Stays(e)
    BY <1>0, <2>2 DEF Stays, KeepsPlace, KeepsOutcome
  <2> QED BY <1>2, <2>4, <2>5 DEF Exec
<1>3. ASSUME NEW c \in Calls, CancelHere(c) \/ CancelThere(c) PROVE counts' = counts /\ \A e \in Calls : Moves(e)
  <2>1. \E ctx : \/ call' = [call EXCEPT ![c] = [call[c] EXCEPT !.acked = TRUE, !.ctx = ctx]]
                 \/ call' = [call EXCEPT ![c] = [call[c] EXCEPT !.acked = TRUE]]
    BY <1>0, <1>3 DEF CancelHere, CancelThere
  <2>2. \A e \in Calls : Stays(e)
    BY <1>0, <2>1, AlikeEdits, AlikeStays
  <2> QED BY <1>3, <2>2 DEF CancelHere, CancelThere
<1>4. ASSUME NEW c \in Calls, Deadline(c) \/ Disconnect(c) PROVE counts' = counts /\ \A e \in Calls : Moves(e)
  <2>1. \E ctx : \/ call' = [call EXCEPT ![c] = [call[c] EXCEPT !.client = FALSE, !.ctx = ctx]]
                 \/ call' = [call EXCEPT ![c] = [call[c] EXCEPT !.ctx = ctx]]
    BY <1>0, <1>4 DEF Deadline, Disconnect
  <2>2. \A e \in Calls : Stays(e)
    BY <1>0, <2>1, AlikeEdits, AlikeStays
  <2> QED BY <1>4, <2>2 DEF Deadline, Disconnect
<1>5. ASSUME NEW c \in Calls, Start(c) \/ Enlist(c) \/ Dispatch(c)
      PROVE  counts' = counts /\ \A e \in Calls : Moves(e)
  <2>1. CASE Start(c)
    <3>1. Proceeds(c) /\ \A e \in Calls : e # c => Stays(e)
      BY <1>0, <2>1 DEF Start, Proceeds, Stays, KeepsPlace, KeepsOutcome, Call
    <3> QED BY <2>1, <3>1 DEF Start
  <2>2. CASE Enlist(c)
    <3>1. PICK ctx : call' = [call EXCEPT ![c] = [call[c] EXCEPT !.pc = "listed", !.listed = TRUE, !.ctx = ctx]]
      BY <1>0, <2>2 DEF Enlist
    <3> DEFINE d == [call[c] EXCEPT !.pc = "listed", !.listed = TRUE, !.ctx = ctx]
    <3>2. /\ d.pc = "listed" /\ d.at = call[c].at /\ d.limit = call[c].limit
          /\ d.via = call[c].via /\ d.reason = call[c].reason /\ d.code = call[c].code
      BY <1>0 DEF Call
    <3> HIDE DEF d
    <3>3. call' = [call EXCEPT ![c] = d]
      BY <3>1 DEF d
    <3>4. Proceeds(c) /\ \A e \in Calls : e # c => Stays(e)
      BY <1>0, <2>2, <3>2, <3>3 DEF Enlist, Proceeds, Stays, KeepsPlace, KeepsOutcome
    <3> QED BY <2>2, <3>4 DEF Enlist
  <2>3. CASE Dispatch(c)
    <3>1. \E via : call' = [call EXCEPT ![c] = [call[c] EXCEPT !.pc = "streaming", !.via = via]]
      BY <1>0, <2>3 DEF Dispatch
    <3>2. Proceeds(c) /\ \A e \in Calls : e # c => Stays(e)
      BY <1>0, <2>3, <3>1 DEF Dispatch, Proceeds, Stays, KeepsPlace, KeepsOutcome, Call
    <3> QED BY <2>3, <3>2 DEF Dispatch
  <2> QED BY <1>5, <2>1, <2>2, <2>3
<1>6. ASSUME NEW c \in Calls, InvokeHTTP(c) \/ ExecHTTP(c) \/ StreamSPDY(c) \/ DropSPDY(c)
      PROVE  counts' = counts /\ \A e \in Calls : Moves(e)
  <2>1. counts' = counts
    BY <1>6 DEF InvokeHTTP, ExecHTTP, StreamSPDY, DropSPDY
  <2> QED BY <1>6, <2>1, StreamEnds
<1>7. ASSUME NEW c \in Calls, \/ Runtime(c) \/ Accept(c) \/ Exit(c) \/ Drain(c) \/ RuntimeDeadline(c)
      PROVE  counts' = counts /\ \A e \in Calls : Moves(e)
  <2>1. UNCHANGED <<counts, call>>
    BY <1>7 DEF Runtime, Spawn, Kill, Report, Hangup, Accept, Exit, Drain, RuntimeDeadline
  <2> QED BY <1>0, <2>1
<1>8. CASE ContainerGone \/ UNCHANGED vars
  <2>1. UNCHANGED <<counts, call>>
    BY <1>8 DEF ContainerGone, vars
  <2> QED BY <1>0, <2>1
<1> QED BY <1>0, <1>1, <1>2, <1>3, <1>4, <1>5, <1>6, <1>7, <1>8

-----------------------------------------------------------------------------
(* The inductive invariant.                                                 *)

\* What Load read is there when Admit uses it; only an invoke asks for a slot;
\* a status is passed on at the end.
LoadedKnowsCap == \A c \in Calls : call[c].pc = "loaded" => call[c].at \in Replicas /\ call[c].limit \in Caps
ExecsTakeNoSlot == \A c \in Execs : call[c].pc \in {"new", "streaming", "done", "refused", "crashed"}
StatusMeansOver ==
  \A c \in Invokes :
    call[c].reason = "completed" /\ call[c].code # "none" => call[c].pc \in {"ended", "done", "crashed"}
Shape == LoadedKnowsCap /\ ExecsTakeNoSlot /\ StatusMeansOver

CountsAreTyped ==
  /\ counts \in [Replicas -> Nat]
  /\ \A r \in Replicas : counts[r] > 0 => \E n \in Caps : counts[r] <= n

\* A status that was passed on is the one of a command that ended, and nothing
\* that happens to the command after that changes it.
OutcomeIsFinal ==
  \A c \in Invokes :
    call[c].reason = "completed" /\ call[c].code # "none" =>
      /\ proc[c].code = call[c].code
      /\ proc[c].st = "reported" \/ (call[c].via = "spdy" /\ proc[c].st \in {"exited", "gone"})

CallsInv ==
  /\ CallsAreTyped /\ opted \in BOOLEAN /\ faults \in 0..MaxFaults
  /\ Shape
  /\ CountsAreTyped /\ SlotsAreAccounted
  /\ OutcomeIsFinal

\* The handlers that hold a slot of a replica.
HoldersAt(r) == {c \in Invokes : Holding(c) /\ call[c].at = r}

LEMMA HoldersAreFinite ==
  \A r : IsFiniteSet(HoldersAt(r)) /\ Cardinality(HoldersAt(r)) \in Nat
BY FS_Subset, FS_CardinalityType, CallsAssumption DEF HoldersAt

LEMMA CallsInvInit == Init => CallsInv
<1> SUFFICES ASSUME Init PROVE CallsInv
  OBVIOUS
<1>1. CallsAreTyped /\ opted \in BOOLEAN /\ faults \in 0..MaxFaults
  BY InitTyped DEF Init
<1>2. \A c \in Calls : call[c].pc \in {"new", "refused"}
  BY DEF Init, NewCall
<1>3. Invokes \subseteq Calls /\ Execs \subseteq Calls
  BY DEF Calls
<1>4. Shape /\ OutcomeIsFinal
  <2>1. \A c \in Calls : call[c].code = "none"
    BY DEF Init, NewCall
  <2> QED BY <1>2, <1>3, <2>1 DEF Shape, LoadedKnowsCap, ExecsTakeNoSlot, StatusMeansOver, OutcomeIsFinal
<1>5. \A r \in Replicas : HoldersAt(r) = {}
  BY <1>2, <1>3 DEF HoldersAt, Holding
<1>6. \A r \in Replicas : counts[r] = 0 /\ Cardinality(HoldersAt(r)) = 0
  BY <1>5, FS_EmptySet DEF Init
<1>7. CountsAreTyped /\ SlotsAreAccounted
  BY <1>6 DEF Init, CountsAreTyped, SlotsAreAccounted, HoldersAt
<1> QED BY <1>1, <1>4, <1>7 DEF CallsInv

\* The moves that take no slot keep what is known of a request, and the holders.
LEMMA FreeStep ==
  ASSUME CallsInv, counts' = counts, \A e \in Calls : Moves(e)
  PROVE  Shape' /\ CountsAreTyped' /\ SlotsAreAccounted'
<1> USE DEF Moves, Stays, Loads, Executes, Proceeds, Concludes, KeepsPlace, KeepsOutcome
<1>1. Invokes \subseteq Calls /\ Execs \subseteq Calls /\ Invokes \intersect Execs = {}
  BY CallsAssumption DEF Calls
<1>2. LoadedKnowsCap'
  BY DEF CallsInv, Shape, LoadedKnowsCap
<1>3. ExecsTakeNoSlot'
  BY <1>1 DEF CallsInv, Shape, ExecsTakeNoSlot
<1>4. StatusMeansOver'
  BY <1>1 DEF CallsInv, Shape, StatusMeansOver
<1>5. \A c \in Invokes : Holding(c)' = Holding(c) /\ (Holding(c) => call'[c].at = call[c].at)
  BY <1>1 DEF Holding
<1>6. \A r \in Replicas : HoldersAt(r)' = HoldersAt(r)
  BY <1>5 DEF HoldersAt
<1>7. CountsAreTyped' /\ SlotsAreAccounted'
  BY <1>6 DEF CallsInv, CountsAreTyped, SlotsAreAccounted, HoldersAt
<1> QED BY <1>2, <1>3, <1>4, <1>7 DEF Shape

\* A handler that gives its slot back (Reject, Return), and one that is refused.
LEMMA SlotTakers ==
  ASSUME CallsInv, NEW c \in Calls, NEW r, r = call[c].at,
         call'[c].at = r /\ KeepsOutcome(c) /\ call'[c].limit = call[c].limit,
         \A e \in Calls : e # c => Stays(e),
         \/ call[c].pc = "loaded" /\ call'[c].pc \in {"admitted", "refused"}
         \/ call[c].pc = "admitted" /\ call'[c].pc = "refused"
         \/ call[c].pc = "ended" /\ call'[c].pc = "done"
  PROVE  /\ Shape' /\ c \in Invokes
         /\ \A q \in Replicas : q # r => HoldersAt(q)' = HoldersAt(q)
         /\ r \in Replicas => HoldersAt(r)' = IF call'[c].pc = "admitted" THEN HoldersAt(r) \union {c}
                                             ELSE HoldersAt(r) \ {c}
         /\ c \in HoldersAt(r) <=> call[c].pc # "loaded"
<1> USE DEF Stays, KeepsPlace, KeepsOutcome
<1>1. /\ Invokes \subseteq Calls /\ Execs \subseteq Calls /\ Calls = Invokes \union Execs
      /\ Invokes \intersect Execs = {}
  BY CallsAssumption DEF Calls
<1>2. c \in Invokes /\ c \notin Execs
  BY <1>1 DEF CallsInv, Shape, ExecsTakeNoSlot
<1>3. Shape'
  BY <1>1, <1>2 DEF CallsInv, Shape, LoadedKnowsCap, ExecsTakeNoSlot, StatusMeansOver
<1>4. \A e \in Invokes : e # c => Holding(e)' = Holding(e) /\ call'[e].at = call[e].at
  BY <1>1 DEF Holding
<1>5. Holding(c)' = (call'[c].pc = "admitted") /\ Holding(c) = (call[c].pc # "loaded")
  BY <1>2 DEF Holding
<1>6. \A q \in Replicas : q # r => HoldersAt(q)' = HoldersAt(q)
  BY <1>2, <1>4 DEF HoldersAt
<1>7. HoldersAt(r)' = IF call'[c].pc = "admitted" THEN HoldersAt(r) \union {c} ELSE HoldersAt(r) \ {c}
  BY <1>2, <1>4, <1>5 DEF HoldersAt
<1>8. c \in HoldersAt(r) <=> call[c].pc # "loaded"
  BY <1>2, <1>5 DEF HoldersAt
<1> QED BY <1>2, <1>3, <1>6, <1>7, <1>8

LEMMA AdmitStep ==
  ASSUME CallsInv, NEW c \in Calls, Admit(c)
  PROVE  Shape' /\ CountsAreTyped' /\ SlotsAreAccounted' /\ KeepsOutcome(c) /\ \A e \in Calls : e # c => Stays(e)
<1>0. PICK r, n : r = call[c].at /\ n = call[c].limit
  OBVIOUS
<1> DEFINE to == IF counts[r] >= n THEN "refused" ELSE "admitted"
<1>1. call \in [Calls -> Call] /\ counts \in [Replicas -> Nat]
  BY DEF CallsInv, CallsAreTyped, CountsAreTyped
<1>2. call[c].pc = "loaded" /\ r \in Replicas /\ n \in Caps /\ n \in Nat /\ counts[r] \in Nat
  BY <1>0, <1>1, CapsAssumption DEF Admit, CallsInv, Shape, LoadedKnowsCap
<1>3. /\ call' = [call EXCEPT ![c].pc = to]
      /\ counts' = IF counts[r] >= n THEN counts ELSE [counts EXCEPT ![r] = @ + 1]
  BY <1>0 DEF Admit
<1>4. to \in {"admitted", "refused"} /\ (to = "refused" <=> counts[r] >= n)
  OBVIOUS
<1>5. /\ call'[c].pc = to /\ call'[c].at = r /\ call'[c].limit = n /\ KeepsOutcome(c)
      /\ \A e \in Calls : e # c => Stays(e)
  <2> HIDE DEF to
  <2> QED BY <1>0, <1>1, <1>3 DEF KeepsOutcome, Stays, KeepsPlace, Call
<1>6. /\ Shape' /\ c \in Invokes /\ c \notin HoldersAt(r)
      /\ \A q \in Replicas : q # r => HoldersAt(q)' = HoldersAt(q)
      /\ HoldersAt(r)' = IF to = "admitted" THEN HoldersAt(r) \union {c} ELSE HoldersAt(r) \ {c}
  <2> HIDE DEF to
  <2> QED BY <1>0, <1>2, <1>4, <1>5, SlotTakers
<1>7. \A q \in Replicas : counts[q] = Cardinality(HoldersAt(q))
  BY DEF CallsInv, SlotsAreAccounted, HoldersAt
<1>8. CASE counts[r] >= n
  <2>1. counts' = counts /\ \A q \in Replicas : HoldersAt(q)' = HoldersAt(q)
    BY <1>3, <1>6, <1>8
  <2>2. CountsAreTyped' /\ SlotsAreAccounted'
    BY <1>7, <2>1 DEF CallsInv, CountsAreTyped, SlotsAreAccounted, HoldersAt
  <2> QED BY <1>5, <1>6, <2>2
<1>9. CASE ~(counts[r] >= n)
  <2>1. counts' = [counts EXCEPT ![r] = @ + 1] /\ HoldersAt(r)' = HoldersAt(r) \union {c}
    BY <1>3, <1>6, <1>9
  <2>2. Cardinality(HoldersAt(r)') = Cardinality(HoldersAt(r)) + 1
    BY <1>6, <2>1, FS_AddElement, HoldersAreFinite
  <2>3. counts' \in [Replicas -> Nat] /\ counts'[r] = counts[r] + 1 /\ counts'[r] <= n
    BY <1>1, <1>2, <1>9, <2>1
  <2>4. \A q \in Replicas : q # r => counts'[q] = counts[q]
    BY <1>1, <2>1
  <2>5. \A q \in Replicas : counts'[q] = Cardinality(HoldersAt(q)')
    <3> TAKE q \in Replicas
    <3>1. CASE q = r
      BY <1>7, <2>2, <2>3, <3>1
    <3>2. CASE q # r
      BY <1>6, <1>7, <2>4, <3>2
    <3> QED BY <3>1, <3>2
  <2>6. CountsAreTyped'
    BY <1>2, <2>3, <2>4 DEF CallsInv, CountsAreTyped
  <2>7. SlotsAreAccounted'
    BY <2>5 DEF SlotsAreAccounted, HoldersAt
  <2> QED BY <1>5, <1>6, <2>6, <2>7
<1> QED BY <1>8, <1>9

LEMMA GiveBackStep ==
  ASSUME CallsInv, NEW c \in Calls, Reject(c) \/ Return(c)
  PROVE  Shape' /\ CountsAreTyped' /\ SlotsAreAccounted' /\ KeepsOutcome(c) /\ \A e \in Calls : e # c => Stays(e)
<1>0. PICK r : r = call[c].at
  OBVIOUS
<1>1. call \in [Calls -> Call] /\ counts \in [Replicas -> Nat]
  BY DEF CallsInv, CallsAreTyped, CountsAreTyped
<1>2. /\ counts' = Released(r)
      /\ call'[c].at = r /\ call'[c].limit = call[c].limit /\ KeepsOutcome(c)
      /\ \A e \in Calls : e # c => Stays(e)
      /\ \/ call[c].pc = "admitted" /\ call'[c].pc = "refused"
         \/ call[c].pc = "ended" /\ call'[c].pc = "done"
  <2>1. CASE Reject(c)
    BY <1>0, <1>1, <2>1 DEF Reject, KeepsOutcome, Stays, KeepsPlace, Call
  <2>2. CASE Return(c)
    BY <1>0, <1>1, <2>2 DEF Return, KeepsOutcome, Stays, KeepsPlace, Call
  <2> QED BY <2>1, <2>2
<1>3. /\ Shape' /\ c \in HoldersAt(r)
      /\ \A q \in Replicas : q # r => HoldersAt(q)' = HoldersAt(q)
      /\ r \in Replicas => HoldersAt(r)' = HoldersAt(r) \ {c}
  BY <1>0, <1>2, SlotTakers
<1>4. \A q \in Replicas : counts[q] = Cardinality(HoldersAt(q))
  BY DEF CallsInv, SlotsAreAccounted, HoldersAt
<1>5. \A q \in Replicas : q # r => counts'[q] = counts[q]
  BY <1>1, <1>2 DEF Released
<1>6. ASSUME r \in Replicas
      PROVE  /\ counts[r] \in Nat /\ counts[r] > 0 /\ counts'[r] = counts[r] - 1
             /\ counts'[r] = Cardinality(HoldersAt(r)')
  <2>1. /\ Cardinality(HoldersAt(r) \ {c}) = Cardinality(HoldersAt(r)) - 1
        /\ Cardinality(HoldersAt(r) \ {c}) \in Nat
    BY <1>3, FS_RemoveElement, FS_CardinalityType, HoldersAreFinite
  <2>2. counts[r] \in Nat /\ counts[r] > 0
    BY <1>1, <1>4, <1>6, <2>1
  <2>3. counts'[r] = counts[r] - 1
    BY <1>1, <1>2, <1>6, <2>2 DEF Released
  <2> QED BY <1>3, <1>4, <1>6, <2>1, <2>2, <2>3
<1>7. counts' \in [Replicas -> Nat]
  <2>1. r \in Replicas => counts[r] \in Nat /\ counts[r] - 1 \in Nat
    BY <1>6
  <2> QED BY <1>1, <1>2, <1>6, <2>1 DEF Released
<1>8. CountsAreTyped'
  <2>1. \A q \in Replicas : counts'[q] > 0 => \E n \in Caps : counts'[q] <= n
    <3> SUFFICES ASSUME NEW q \in Replicas, counts'[q] > 0 PROVE \E n \in Caps : counts'[q] <= n
      OBVIOUS
    <3>1. CASE q # r
      BY <1>5, <3>1 DEF CallsInv, CountsAreTyped
    <3>2. CASE q = r
      <4>1. PICK n \in Caps : counts[r] <= n
        BY <1>6, <3>2 DEF CallsInv, CountsAreTyped
      <4>2. n \in Nat
        BY CapsAssumption
      <4> QED BY <1>6, <3>2, <4>1, <4>2
    <3> QED BY <3>1, <3>2
  <2> QED BY <1>7, <2>1 DEF CountsAreTyped
<1>9. SlotsAreAccounted'
  <2>1. \A q \in Replicas : counts'[q] = Cardinality(HoldersAt(q)')
    <3> TAKE q \in Replicas
    <3>1. CASE q = r
      BY <1>6, <3>1
    <3>2. CASE q # r
      BY <1>3, <1>4, <1>5, <3>2
    <3> QED BY <3>1, <3>2
  <2> QED BY <2>1 DEF SlotsAreAccounted, HoldersAt
<1> QED BY <1>2, <1>3, <1>8, <1>9

LEMMA CrashStep ==
  ASSUME CallsInv, NEW r \in Replicas, Crash(r)
  PROVE  Shape' /\ CountsAreTyped' /\ SlotsAreAccounted' /\ \A e \in Calls : KeepsOutcome(e)
<1>1. counts \in [Replicas -> Nat] /\ call \in [Calls -> Call] /\ Invokes \subseteq Calls /\ Execs \subseteq Calls
  BY DEF CallsInv, CallsAreTyped, CountsAreTyped, Calls
<1>2. \A c \in Calls :
        /\ call[c].at # r => call'[c] = call[c]
        /\ call'[c].at = call[c].at /\ call'[c].limit = call[c].limit /\ KeepsOutcome(c)
        /\ call'[c].pc = IF call[c].at = r /\ call[c].pc \notin {"done", "refused"} THEN "crashed" ELSE call[c].pc
  BY <1>1 DEF Crash, KeepsOutcome, Call
<1>3. LoadedKnowsCap' /\ ExecsTakeNoSlot' /\ StatusMeansOver'
  BY <1>1, <1>2 DEF CallsInv, Shape, LoadedKnowsCap, ExecsTakeNoSlot, StatusMeansOver, KeepsOutcome
<1>4. counts' = [counts EXCEPT ![r] = 0]
  BY DEF Crash
<1>5. HoldersAt(r)' = {} /\ \A q \in Replicas : q # r => HoldersAt(q)' = HoldersAt(q)
  BY <1>1, <1>2 DEF HoldersAt, Holding
<1>6. CountsAreTyped'
  BY <1>1, <1>4 DEF CallsInv, CountsAreTyped
<1>7. \A q \in Replicas : counts'[q] = Cardinality(HoldersAt(q)')
  BY <1>1, <1>4, <1>5, FS_EmptySet DEF CallsInv, SlotsAreAccounted, HoldersAt
<1>8. SlotsAreAccounted'
  BY <1>7 DEF SlotsAreAccounted, HoldersAt
<1> QED BY <1>2, <1>3, <1>6, <1>8 DEF Shape

\* What has ended stays ended, with its status: a report is final, and a command
\* run by the kubelet is only ever lost with its container.
LEMMA EndedStays ==
  ASSUME CallsAreTyped, [Next]_vars, NEW c \in Calls
  PROVE  /\ proc[c].st = "reported" => proc'[c].st = "reported" /\ proc'[c].code = proc[c].code
         /\ call[c].via = "spdy" /\ proc[c].st \in {"exited", "gone"} =>
              proc'[c].st \in {"exited", "gone"} /\ proc'[c].code = proc[c].code
<1> SUFFICES ASSUME \/ proc[c].st = "reported"
                    \/ call[c].via = "spdy" /\ proc[c].st \in {"exited", "gone"}
             PROVE  /\ proc'[c].code = proc[c].code
                    /\ \/ proc'[c].st = proc[c].st
                       \/ proc[c].st = "exited" /\ proc'[c].st = "gone"
  OBVIOUS
<1>0. proc \in [Calls -> Proc]
  BY DEF CallsAreTyped
<1>1. CASE proc' = proc
  BY <1>1
<1>2. ASSUME NEW d \in Calls, Runtime(d) \/ Accept(d) \/ Exit(d) \/ Drain(d) \/ RuntimeDeadline(d)
      PROVE  proc'[c] = proc[c]
  <2>1. CASE d # c
    BY <1>0, <1>2, <2>1 DEF Runtime, Spawn, Kill, Report, Hangup, Reported, Accept, Exit, Drain, RuntimeDeadline
  <2>2. CASE d = c
    BY <1>2, <2>2 DEF Runtime, Spawn, Kill, Report, Hangup, Accept, Exit, Drain, RuntimeDeadline
  <2> QED BY <2>1, <2>2
<1>3. ASSUME NEW d \in Invokes, CancelThere(d)
      PROVE  proc'[c].st = proc[c].st /\ proc'[c].code = proc[c].code
  <2>1. \E ctx : proc' = [proc EXCEPT ![d] = [proc[d] EXCEPT !.listed = FALSE, !.ctx = ctx]]
    BY <1>0, <1>3 DEF CancelThere, Calls
  <2> QED BY <1>0, <2>1 DEF Proc
<1>4. CASE ContainerGone
  BY <1>0, <1>4 DEF ContainerGone, Proc
<1>5. ASSUME NEW d \in Calls, Handler(d) \/ Reject(d) \/ Deadline(d) \/ Disconnect(d) PROVE proc' = proc
  BY <1>5 DEF Handler, Admit, Start, Enlist, Dispatch, InvokeHTTP, ExecHTTP, StreamSPDY, DropSPDY, Return,
              Reject, Deadline, Disconnect
<1>6. ASSUME NEW r \in Replicas, Crash(r) \/ (\E d \in Calls : Load(d, r) \/ Exec(d, r)) PROVE proc' = proc
  BY <1>6 DEF Crash, Load, Exec
<1>7. ASSUME NEW d \in Invokes, CancelHere(d) PROVE proc' = proc
  BY <1>7 DEF CancelHere
<1>8. CASE UNCHANGED vars
  BY <1>1, <1>8 DEF vars
<1> QED BY <1>1, <1>2, <1>3, <1>4, <1>5, <1>6, <1>7, <1>8 DEF Next

LEMMA CallsInvStep == CallsInv /\ [Next]_vars => CallsInv'
<1> SUFFICES ASSUME CallsInv, [Next]_vars PROVE CallsInv'
  OBVIOUS
<1>1. CallsAreTyped /\ CallsAreTyped'
  BY TypedStep DEF CallsInv
<1>2. opted' \in BOOLEAN /\ faults' \in 0..MaxFaults
  <2>1. opted' = opted
    BY DEF Next, vars, Crash, Load, Exec, CancelHere, CancelThere, Handler, Admit, Start, Enlist, Dispatch,
           InvokeHTTP, ExecHTTP, StreamSPDY, DropSPDY, Return, Runtime, Spawn, Kill, Report, Hangup, Reject,
           Deadline, Disconnect, Accept, Exit, Drain, RuntimeDeadline, ContainerGone
  <2>2. UNCHANGED faults \/ Fault
    BY DEF Next, vars, Crash, Load, Exec, CancelHere, CancelThere, Handler, Admit, Start, Enlist, Dispatch,
           InvokeHTTP, ExecHTTP, StreamSPDY, DropSPDY, Return, Runtime, Spawn, Kill, Report, Hangup, Reject,
           Deadline, Disconnect, Accept, Exit, Drain, RuntimeDeadline, ContainerGone, Chosen, Interrupted
  <2>3. Fault => faults' \in 0..MaxFaults
    BY FaultsAssumption DEF Fault, CallsInv
  <2> QED BY <2>1, <2>2, <2>3 DEF CallsInv
\* The slots.
<1>3. /\ Shape' /\ CountsAreTyped' /\ SlotsAreAccounted'
      /\ \A c \in Calls : Moves(c) \/ KeepsOutcome(c)
  <2>1. ASSUME NEW c \in Calls, Admit(c) \/ Reject(c) \/ Return(c)
        PROVE  Shape' /\ CountsAreTyped' /\ SlotsAreAccounted' /\ \A e \in Calls : KeepsOutcome(e)
    BY <2>1, AdmitStep, GiveBackStep DEF Stays
  <2>2. ASSUME NEW r \in Replicas, Crash(r)
        PROVE  Shape' /\ CountsAreTyped' /\ SlotsAreAccounted' /\ \A e \in Calls : KeepsOutcome(e)
    BY <2>2, CrashStep
  <2>3. CASE \/ \E r \in Replicas, c \in Calls : Load(c, r) \/ Exec(c, r)
             \/ \E c \in Invokes : CancelHere(c) \/ CancelThere(c)
             \/ \E c \in Calls :
                  \/ Start(c) \/ Enlist(c) \/ Dispatch(c)
                  \/ InvokeHTTP(c) \/ ExecHTTP(c) \/ StreamSPDY(c) \/ DropSPDY(c)
                  \/ Runtime(c) \/ Deadline(c) \/ Disconnect(c)
                  \/ Accept(c) \/ Exit(c) \/ Drain(c) \/ RuntimeDeadline(c)
             \/ ContainerGone \/ UNCHANGED vars
    BY <1>1, <2>3, SlotFreeMoves, FreeStep
  <2> QED BY <2>1, <2>2, <2>3 DEF Next, Handler
\* The outcome: it is given once, of a command that has ended.
<1>4. OutcomeIsFinal'
  <2> SUFFICES ASSUME NEW c \in Invokes, call'[c].reason = "completed", call'[c].code # "none"
               PROVE  /\ proc'[c].code = call'[c].code
                      /\ \/ proc'[c].st = "reported"
                         \/ call'[c].via = "spdy" /\ proc'[c].st \in {"exited", "gone"}
    BY DEF OutcomeIsFinal
  <2>1. c \in Calls /\ c \notin Execs
    BY CallsAssumption DEF Calls
  <2>2. /\ call'[c].via = call[c].via
        /\ proc[c].code = call'[c].code
        /\ proc[c].st = "reported" \/ (call[c].via = "spdy" /\ proc[c].st \in {"exited", "gone"})
    <3>1. CASE Concludes(c)
      BY <3>1 DEF Concludes
    <3>2. CASE KeepsOutcome(c)
      BY <3>2 DEF KeepsOutcome, CallsInv, OutcomeIsFinal
    <3>3. CASE Proceeds(c)
      BY <3>2, <3>3 DEF Proceeds, CallsInv, Shape, StatusMeansOver
    <3> QED BY <1>3, <2>1, <3>1, <3>2, <3>3 DEF Moves, Stays, Loads, Executes
  <2> QED BY <1>1, <2>1, <2>2, EndedStays
<1> QED BY <1>1, <1>2, <1>3, <1>4 DEF CallsInv

LEMMA CallsInvHolds == Spec => []CallsInv
BY CallsInvInit, CallsInvStep, PTL DEF Spec

-----------------------------------------------------------------------------
(* Results.                                                                 *)

\* For any replicas, requests, caps and faults: the counter of a replica is the
\* number of its handlers that hold a slot - no way out of handleInvoke keeps
\* one, none gives one back twice - and stays within a cap that was configured
\* (pkg/router/agent/invoke.go, concurrencyTracker).
THEOREM SlotsAlwaysHold == Spec => []SlotsHold
<1>1. CallsInv => SlotsHold
  BY DEF CallsInv, CallsAreTyped, CountsAreTyped, SlotsHold, TypeOK
<1> QED BY <1>1, CallsInvHolds, PTL

\* "completed" with an exit code is only said of a command that ended by itself
\* with that code, whatever the deadlines, cancels and crashes in between
\* (pkg/router/agent/invoke.go and pkg/sandboxruntime/server.go, exit events).
THEOREM OutcomesAreTrue == Spec => []CompletedMeansExited
<1>1. CallsInv => CompletedMeansExited
  BY DEF CallsInv, OutcomeIsFinal, CompletedMeansExited
<1> QED BY <1>1, CallsInvHolds, PTL

-----------------------------------------------------------------------------
(* AgentConfigure                                                          *)

-----------------------------------------------------------------------------
(* The inductive invariants.                                               *)

\* Where a request can be, by what it has done; and a copy of the object that
\* is still current shows the status the controller wrote last.
Sane(q) ==
  LET c == conf[q] IN
  /\ c.skipped => c.pc \notin {"new", "loaded"}
  /\ c.exit # 0 => c.pc = "done" /\ ~c.stored
  /\ c.stored => c.pc = "done" /\ ~c.running
  /\ c.running => c.pc \in {"install", "done"}
  /\ c.result # Absent => c.pc = "done"
  /\ c.result = "refused" => ~c.running
  /\ c.copy => c.old = rest

\* A configure with these inputs was carried out and its status written.
Recorded(h) ==
  \E o \in Configures :
    conf[o].stored /\ conf[o].exit = 0 /\ ~conf[o].skipped /\ InstallHash(input[o]) = h

\* Whatever the status, or a request that read it, takes for done was done.
RecordsInv ==
  /\ status # Absent => Recorded(status.hash)
  /\ \A q \in Configures :
       /\ conf[q].seen # Absent => Recorded(conf[q].seen)
       /\ conf[q].skipped => Recorded(InstallHash(input[q]))

\* A cap on its way to the status is clamped.
CapInv ==
  upsets = 0 /\ spec.agent /\ spec.ceiling > 0 =>
    /\ status # Absent => status.cap \in 1..spec.ceiling
    /\ \A q \in Configures :
         conf[q].pc \notin {"new", "loaded", "done"} => conf[q].cap \in 1..spec.ceiling

AloneInv ==
  \A q \in Configures : Active(q) /\ conf[q].alone => \A o \in Configures \ {q} : ~Active(o)

ConfigureInv ==
  /\ ConfigureTypeOK /\ (\A q \in Configures : Sane(q))
  /\ RecordsInv /\ CapInv /\ AloneInv

\* No two requests overlapped, and none of those that are done has failed.
Calm ==
  \A o \in Configures : conf[o].pc # "new" =>
    conf[o].alone /\ (Active(o) \/ conf[o].stored \/ conf[o].result = "refused")

\* The sandbox holds these files, except for some that are still to be written.
HasFiles(h, S) == \A p \in Paths \ S : h.files[p] # Absent => disk.files[p] = h.files[p]
Has(h) == HasFiles(h, {}) /\ (h.install # Absent => disk.install = h.install)

\* While a request is served alone, the sandbox holds what it has done so far.
Doing(q) ==
  /\ conf[q].pc = "loaded" =>
       /\ status # Absent => Has(status.hash)
       /\ conf[q].seen = IF status = Absent THEN Absent ELSE status.hash
  /\ conf[q].pc = "writing" => HasFiles(input[q], conf[q].todo)
  /\ conf[q].pc = "install" => HasFiles(input[q], {})
  /\ conf[q].pc \in {"log", "get", "update"} => Has(InstallHash(input[q]))

\* Between two requests the sandbox holds what its status says.
QuietInv ==
  Calm =>
    /\ (\A o \in Configures : ~Active(o)) /\ status # Absent => Has(status.hash)
    /\ \A q \in Configures : Doing(q)

AllInv == ConfigureInv /\ QuietInv

-----------------------------------------------------------------------------
(* Records of a request.                                                   *)

LEMMA FinishLaw ==
  ASSUME NEW q \in Configures, conf[q] \in Conf, NEW result \in Results
  PROVE  /\ Finish(q, result) \in Conf
         /\ Finish(q, result).pc = "done" /\ Finish(q, result).result = result
         /\ Finish(q, result).skipped = conf[q].skipped
         /\ Finish(q, result).running = conf[q].running
         /\ Finish(q, result).exit = conf[q].exit
         /\ Finish(q, result).alone = conf[q].alone
         /\ Finish(q, result).stored = FALSE /\ Finish(q, result).copy = FALSE
         /\ Finish(q, result).seen = Absent
<1>1. NewConf \in Conf
  BY DEF NewConf, Conf, Results, Outcomes
<1>2. PICK n \in Conf : n = NewConf
  BY <1>1
<1>3. n.stored = FALSE /\ n.copy = FALSE /\ n.seen = Absent
  BY <1>2 DEF NewConf
<1>4. Finish(q, result) =
        [n EXCEPT !.pc = "done", !.result = result, !.skipped = conf[q].skipped,
                  !.running = conf[q].running, !.exit = conf[q].exit, !.alone = conf[q].alone]
  BY <1>2 DEF Finish
<1> QED BY <1>3, <1>4 DEF Conf

\* What was recorded stays so, as long as no request that is done changes.
LEMMA RecordedStays ==
  ASSUME NEW h, input' = input,
         \A o \in Configures : conf[o].stored =>
           conf'[o].stored /\ conf'[o].exit = conf[o].exit /\ conf'[o].skipped = conf[o].skipped,
         Recorded(h)
  PROVE  Recorded(h)'
BY DEF Recorded, InstallHash

\* The inputs of a request are no absence.
LEMMA InputsAreSome ==
  ASSUME ConfigureTypeOK, NEW q \in Configures
  PROVE  /\ InstallHash(input[q]) \in HashInputs /\ InstallHash(input[q]) # Absent
         /\ InstallHash(input[q]).files = input[q].files
         /\ InstallHash(input[q]).install = input[q].install
         /\ input[q].files \in [Paths -> Contents \union {Absent}]
         /\ input[q].install \in Commands \union {Absent}
         /\ input[q].entry \in Entries \union {Absent}
<1>1. input[q] \in [files : [Paths -> Contents \union {Absent}],
                    install : Commands \union {Absent}, entry : Entries \union {Absent}]
  BY ConfigureAssumption DEF ConfigureTypeOK
<1>2. InstallHash(input[q]) \in HashInputs
  BY <1>1 DEF InstallHash, HashInputs
<1>3. InstallHash(input[q]) # Absent
  BY <1>2, ConfigureAssumption DEF HashInputs
<1> QED BY <1>1, <1>2, <1>3 DEF InstallHash

-----------------------------------------------------------------------------
(* The steps of one request.                                               *)

\* A step that changes a request's own record, and neither the status nor what
\* it asks, keeps the invariants if the new record is sane.
LEMMA OwnStep ==
  ASSUME ConfigureInv, NEW q \in Configures, NEW x \in Conf,
         conf' = [conf EXCEPT ![q] = x], input' = input, spec' = spec,
         rest' = rest, status' = status, disk' \in [files : [Paths -> Contents \union {Absent, Torn}],
                                                    install : Commands \union {Absent, Torn}],
         log' \in Configures \union {Absent}, upsets' \in 0..MaxUpsets, upsets' = 0 => upsets = 0,
         conf[q].pc # "new", x.alone = conf[q].alone, x.pc # "done" => x.pc # "new" /\ Active(q),
         Sane(q)',
         x.seen # Absent => x.seen = conf[q].seen,
         x.skipped => conf[q].skipped \/ (conf[q].seen = InstallHash(input[q])),
         conf[q].stored => x.stored /\ x.exit = conf[q].exit /\ x.skipped = conf[q].skipped,
         /\ upsets' = 0 /\ spec.agent /\ spec.ceiling > 0 /\ x.pc \notin {"loaded", "done"}
            => x.cap \in 1..spec.ceiling
  PROVE  ConfigureInv'
<1>1. ConfigureTypeOK /\ conf'[q] = x /\ (\A o \in Configures \ {q} : conf'[o] = conf[o])
  BY DEF ConfigureInv, ConfigureTypeOK
<1>2. ConfigureTypeOK'
  BY <1>1 DEF ConfigureTypeOK
<1>3. \A o \in Configures : Sane(o)'
  <2>1. ASSUME NEW o \in Configures, o # q PROVE Sane(o)'
    BY <1>1, <2>1 DEF ConfigureInv, Sane
  <2> QED BY <2>1
<1>4. RecordsInv'
  <2>1. \A o \in Configures : conf[o].stored =>
           conf'[o].stored /\ conf'[o].exit = conf[o].exit /\ conf'[o].skipped = conf[o].skipped
    BY <1>1
  <2>2. \A h : Recorded(h) => Recorded(h)'
    BY <2>1, RecordedStays
  <2>3. status' # Absent => Recorded(status.hash)'
    <3>1. PICK h : h = status.hash /\ h = status'.hash
      OBVIOUS
    <3>2. status # Absent => Recorded(h)'
      BY <2>2, <3>1 DEF ConfigureInv, RecordsInv
    <3> QED BY <3>1, <3>2 DEF Recorded
  <2>4. ASSUME NEW o \in Configures
        PROVE  /\ conf'[o].seen # Absent => Recorded(conf[o].seen)'
               /\ conf'[o].skipped => Recorded(InstallHash(input[o]))'
    <3>1. PICK g, h : g = conf'[o].seen /\ h = InstallHash(input[o])
      OBVIOUS
    <3>2. /\ Recorded(g)' => Recorded(conf[o].seen)'
          /\ Recorded(h)' => Recorded(InstallHash(input[o]))'
      BY <3>1 DEF Recorded, InstallHash
    <3>3. h # Absent
      BY <1>1, <3>1, InputsAreSome
    <3>4. g # Absent => Recorded(g)
      BY <1>1, <3>1 DEF ConfigureInv, RecordsInv
    <3>5. conf'[o].skipped => Recorded(h)
      BY <1>1, <3>1, <3>3 DEF ConfigureInv, RecordsInv
    <3> QED BY <2>2, <3>1, <3>2, <3>4, <3>5
  <2> QED BY <2>3, <2>4 DEF RecordsInv
<1>5. CapInv'
  BY <1>1 DEF ConfigureInv, CapInv
<1>6. AloneInv'
  <2>1. \A o \in Configures : Active(o)' => Active(o)
    BY <1>1 DEF Active
  <2>2. \A o \in Configures : conf'[o].alone = conf[o].alone
    BY <1>1
  <2> QED BY <2>1, <2>2 DEF ConfigureInv, AloneInv
<1> QED BY <1>2, <1>3, <1>4, <1>5, <1>6 DEF ConfigureInv

\* Such a step of a request that was served alone, or of one that is done.
LEMMA OwnQuietStep ==
  ASSUME AllInv, NEW q \in Configures, NEW x \in Conf,
         conf' = [conf EXCEPT ![q] = x], input' = input, status' = status,
         conf[q].pc # "new", x.alone = conf[q].alone,
         Active(q), x.pc # "new", x.stored = FALSE,
         Calm /\ x.pc = "done" /\ x.result = "refused" => disk' = disk /\ conf[q].pc = "loaded",
         Calm => Doing(q)'
  PROVE  QuietInv'
<1> SUFFICES ASSUME Calm'
             PROVE  /\ (\A o \in Configures : ~Active(o)') /\ status' # Absent => Has(status.hash)'
                    /\ \A o \in Configures : Doing(o)'
  BY DEF QuietInv
<1>1. ConfigureTypeOK /\ conf'[q] = x /\ (\A o \in Configures \ {q} : conf'[o] = conf[o])
  BY DEF AllInv, ConfigureInv, ConfigureTypeOK
<1>2. Calm
  <2>1. ASSUME NEW o \in Configures, o # q, conf[o].pc # "new"
        PROVE  conf[o].alone /\ (Active(o) \/ conf[o].stored \/ conf[o].result = "refused")
    BY <1>1, <2>1 DEF Calm, Active
  <2>2. conf[q].alone
    BY <1>1 DEF Calm
  <2> QED BY <2>1, <2>2 DEF Calm
<1>3. \A o \in Configures \ {q} : ~Active(o)
  BY <1>2 DEF Calm, AllInv, ConfigureInv, AloneInv
<1>4. \A o \in Configures \ {q} : Doing(o)'
  BY <1>1, <1>3 DEF Doing, Active
<1>5. ASSUME \A o \in Configures : ~Active(o)', status' # Absent
      PROVE  Has(status.hash)'
  <2>1. x.pc \in {"new", "done"}
    BY <1>1, <1>5 DEF Active
  <2>2. x.pc = "done" /\ x.result = "refused"
    <3>1. ~Active(q)' /\ x.pc = "done"
      BY <1>1, <1>5, <2>1
    <3> QED BY <1>1, <3>1 DEF Calm
  <2>3. disk' = disk /\ conf[q].pc = "loaded"
    BY <1>2, <2>2
  <2>4. Doing(q)
    BY <1>2 DEF AllInv, QuietInv
  <2>5. Has(status.hash)
    BY <1>5, <2>3, <2>4 DEF Doing
  <2> QED BY <2>3, <2>5 DEF Has, HasFiles
<1> QED BY <1>2, <1>4, <1>5

\* A step of a request that is being served.
LEMMA ServedStep ==
  ASSUME AllInv, NEW q \in Configures, NEW x \in Conf,
         conf' = [conf EXCEPT ![q] = x], input' = input, spec' = spec,
         rest' = rest, status' = status,
         disk' \in [files : [Paths -> Contents \union {Absent, Torn}], install : Commands \union {Absent, Torn}],
         log' \in Configures \union {Absent}, upsets' = upsets \/ ConfigureFault,
         Active(q), x.pc \notin {"new", "loaded"}, x.alone = conf[q].alone, x.stored = FALSE,
         x.seen = Absent \/ x.seen = conf[q].seen,
         x.skipped => conf[q].skipped \/ (conf[q].seen = InstallHash(input[q])),
         x.exit # 0 => x.pc = "done", x.running => x.pc \in {"install", "done"},
         x.result # Absent => x.pc = "done", x.result = "refused" => ~x.running, x.copy => x.old = rest,
         upsets' = 0 /\ spec.agent /\ spec.ceiling > 0 /\ x.pc # "done" => x.cap \in 1..spec.ceiling,
         x.pc = "done" /\ x.result = "refused" => disk' = disk /\ conf[q].pc = "loaded",
         Calm => Doing(q)'
  PROVE  AllInv'
<1>1. ConfigureInv /\ ConfigureTypeOK /\ conf'[q] = x /\ conf[q].pc \notin {"new", "done"} /\ Sane(q)
  BY DEF AllInv, ConfigureInv, ConfigureTypeOK, Active
<1>2. Sane(q)'
  BY <1>1 DEF Sane
<1>3. upsets' \in 0..MaxUpsets /\ (upsets' = 0 => upsets = 0)
  BY <1>1, ConfigureAssumption DEF ConfigureFault, ConfigureTypeOK
<1>4. ~conf[q].stored
  BY <1>1 DEF Sane
<1>5. ConfigureInv'
  BY <1>1, <1>2, <1>3, <1>4, OwnStep
<1>6. QuietInv'
  BY <1>1, OwnQuietStep
<1> QED BY <1>5, <1>6 DEF AllInv

\* A request that ends, otherwise than by a write of its status.
LEMMA FinishStep ==
  ASSUME AllInv, NEW q \in Configures, NEW result \in Results \ {"refused"},
         conf' = [conf EXCEPT ![q] = Finish(q, result)], input' = input, spec' = spec,
         rest' = rest, status' = status,
         disk' \in [files : [Paths -> Contents \union {Absent, Torn}], install : Commands \union {Absent, Torn}],
         log' \in Configures \union {Absent}, upsets' = upsets \/ ConfigureFault, Active(q)
  PROVE  AllInv'
<1>1. conf[q] \in Conf /\ Sane(q) /\ conf[q].pc \notin {"new", "done"} /\ conf \in [Configures -> Conf]
  BY DEF AllInv, ConfigureInv, ConfigureTypeOK, Active
<1>2. PICK x \in Conf : x = Finish(q, result)
  BY <1>1, FinishLaw
<1>3. /\ x.pc = "done" /\ x.result = result /\ x.skipped = conf[q].skipped /\ x.running = conf[q].running
      /\ x.exit = conf[q].exit /\ x.alone = conf[q].alone /\ x.stored = FALSE /\ x.copy = FALSE /\ x.seen = Absent
  BY <1>1, <1>2, FinishLaw
<1>4. x.exit = 0
  BY <1>1, <1>3 DEF Sane
<1>5. Doing(q)'
  BY <1>1, <1>2, <1>3 DEF Doing
<1>6. conf' = [conf EXCEPT ![q] = x]
  BY <1>2
<1> QED BY <1>3, <1>4, <1>5, <1>6, ServedStep

LEMMA AbandonStep ==
  ASSUME AllInv, NEW q \in Configures, Abandon(q) \/ InstallAborts(q)
  PROVE  AllInv'
<1>1. /\ disk \in [files : [Paths -> Contents \union {Absent, Torn}], install : Commands \union {Absent, Torn}]
      /\ log \in Configures \union {Absent}
  BY DEF AllInv, ConfigureInv, ConfigureTypeOK
<1>2. /\ conf' = [conf EXCEPT ![q] = Finish(q, "error")] /\ Active(q) /\ (upsets' = upsets \/ ConfigureFault)
      /\ UNCHANGED <<input, disk, status, rest, log, spec>>
  BY DEF Abandon, InstallAborts, Active
<1>3. "error" \in Results \ {"refused"}
  BY DEF Results, Outcomes
<1> QED BY <1>1, <1>2, <1>3, FinishStep

\* The cap a request takes on is clamped when the policy could be read.
LEMMA CapLaw ==
  ASSUME ConfigureTypeOK, NEW readable \in BOOLEAN
  PROVE  /\ Cap(readable) \in Ceilings \union {0}
         /\ readable /\ spec.agent /\ spec.ceiling > 0 => Cap(readable) \in 1..spec.ceiling
<1>1. PICK n, m \in Ceilings \union {0} : n = spec.cap /\ m = spec.ceiling
  BY DEF ConfigureTypeOK, Spec0
<1>2. n \in Nat /\ m \in Nat
  BY ConfigureAssumption
<1> QED BY <1>1, <1>2 DEF Cap, ClampConcurrency

LEMMA BeginStep ==
  ASSUME AllInv, NEW q \in Configures, Begin(q)
  PROVE  AllInv'
<1>1. /\ ConfigureTypeOK /\ conf[q] \in Conf /\ Sane(q) /\ conf[q].pc = "loaded" /\ Active(q)
      /\ conf \in [Configures -> Conf] /\ log \in Configures \union {Absent}
      /\ disk \in [files : [Paths -> Contents \union {Absent, Torn}], install : Commands \union {Absent, Torn}]
  BY DEF AllInv, ConfigureInv, ConfigureTypeOK, Begin, Active
<1>2. PICK readable \in BOOLEAN :
        /\ IF readable THEN UNCHANGED upsets ELSE ConfigureFault
        /\ conf' = [conf EXCEPT ![q] =
             IF Denied(readable) THEN Finish(q, "refused")
             ELSE [@ EXCEPT !.cap = Cap(readable), !.skipped = (conf[q].seen = InstallHash(input[q])),
                            !.todo = IF conf[q].seen = InstallHash(input[q]) THEN {}
                                     ELSE {p \in Paths : input[q].files[p] # Absent},
                            !.pc = IF conf[q].seen = InstallHash(input[q]) THEN "log" ELSE "writing"]]
  BY DEF Begin
<1>3. UNCHANGED <<input, disk, status, rest, log, spec>>
  BY DEF Begin
<1>4. upsets' = upsets \/ ConfigureFault
  BY <1>2
<1>5. upsets' = 0 => readable
  BY <1>1, <1>2, ConfigureAssumption DEF ConfigureFault, ConfigureTypeOK
<1>6. CASE Denied(readable)
  <2>1. PICK x \in Conf : x = Finish(q, "refused")
    BY <1>1, FinishLaw DEF Results, Outcomes
  <2>2. /\ x.pc = "done" /\ x.result = "refused" /\ x.skipped = conf[q].skipped /\ x.running = conf[q].running
        /\ x.exit = conf[q].exit /\ x.alone = conf[q].alone /\ x.stored = FALSE /\ x.copy = FALSE /\ x.seen = Absent
    BY <1>1, <2>1, FinishLaw DEF Results, Outcomes
  <2>3. x.exit = 0 /\ ~x.running /\ ~x.skipped
    BY <1>1, <2>2 DEF Sane
  <2>4. conf' = [conf EXCEPT ![q] = x]
    BY <1>2, <1>6, <2>1
  <2>5. Doing(q)'
    BY <1>1, <2>2, <2>4 DEF Doing
  <2> QED BY <1>1, <1>3, <1>4, <2>2, <2>3, <2>4, <2>5, ServedStep
<1>7. CASE ~Denied(readable)
  <2>1. PICK s \in BOOLEAN, n \in Ceilings \union {0}, t \in SUBSET Paths :
          /\ s = (conf[q].seen = InstallHash(input[q])) /\ n = Cap(readable)
          /\ t = IF s THEN {} ELSE {p \in Paths : input[q].files[p] # Absent}
    BY <1>1, CapLaw
  <2>2. PICK x \in Conf :
          x = [conf[q] EXCEPT !.cap = n, !.skipped = s, !.todo = t, !.pc = IF s THEN "log" ELSE "writing"]
    BY <1>1, <2>1 DEF Conf
  <2>3. /\ x.cap = n /\ x.skipped = s /\ x.todo = t /\ x.pc = IF s THEN "log" ELSE "writing"
        /\ x.seen = conf[q].seen /\ x.running = conf[q].running /\ x.exit = conf[q].exit /\ x.copy = conf[q].copy
        /\ x.old = conf[q].old /\ x.result = conf[q].result /\ x.stored = conf[q].stored /\ x.alone = conf[q].alone
    BY <2>2 DEF Conf
  <2>4. conf' = [conf EXCEPT ![q] = x] /\ conf'[q] = x
    BY <1>1, <1>2, <1>7, <2>1, <2>2
  <2>5. ~conf[q].running /\ conf[q].exit = 0 /\ conf[q].result = Absent /\ conf[q].stored = FALSE /\ (conf[q].copy => conf[q].old = rest)
    BY <1>1 DEF Sane, Conf
  <2>6. ASSUME Calm PROVE Doing(q)'
    <3>1. Doing(q)
      BY <2>6 DEF AllInv, QuietInv
    <3>2. CASE s
      <4>1. status # Absent /\ status.hash = InstallHash(input[q]) /\ Has(status.hash)
        BY <1>1, <2>1, <3>1, <3>2, InputsAreSome DEF Doing
      <4>2. Has(InstallHash(input[q]))
        BY <4>1
      <4>3. Has(InstallHash(input[q]))'
        BY <1>3, <4>2 DEF Has, HasFiles, InstallHash
      <4> QED BY <2>3, <2>4, <3>2, <4>3 DEF Doing
    <3>3. CASE ~s
      <4>1. HasFiles(input[q], conf[q].todo)'
        BY <1>3, <2>1, <2>3, <2>4, <3>3 DEF HasFiles
      <4> QED BY <2>3, <2>4, <3>3, <4>1 DEF Doing
    <3> QED BY <3>2, <3>3
  <2>7. upsets' = 0 /\ spec.agent /\ spec.ceiling > 0 => x.cap \in 1..spec.ceiling
    BY <1>1, <1>5, <2>1, <2>3, CapLaw
  <2>8. x.pc # "done" /\ x.pc \notin {"new", "loaded"}
    BY <2>3
  <2>9. /\ x.skipped => conf[q].seen = InstallHash(input[q])
        /\ x.exit = 0 /\ ~x.running /\ x.result = Absent /\ x.stored = FALSE /\ x.alone = conf[q].alone
        /\ x.copy => x.old = rest
    BY <2>1, <2>3, <2>5
  <2>10. x.seen = conf[q].seen
    BY <2>3
  <2> QED BY <1>1, <1>3, <1>4, <2>4, <2>6, <2>7, <2>8, <2>9, <2>10, ServedStep
<1> QED BY <1>6, <1>7

\* What is known of a request past its checks.
LEMMA ServedLaw ==
  ASSUME AllInv, NEW q \in Configures, conf[q].pc \notin {"new", "loaded", "done"}
  PROVE  /\ ConfigureTypeOK /\ conf[q] \in Conf /\ conf \in [Configures -> Conf] /\ Active(q)
         /\ log \in Configures \union {Absent}
         /\ disk \in [files : [Paths -> Contents \union {Absent, Torn}], install : Commands \union {Absent, Torn}]
         /\ disk.files \in [Paths -> Contents \union {Absent, Torn}]
         /\ conf[q].exit = 0 /\ conf[q].result = Absent /\ conf[q].stored = FALSE
         /\ (conf[q].running => conf[q].pc = "install") /\ (conf[q].copy => conf[q].old = rest)
         /\ upsets' = 0 /\ (upsets' = upsets \/ ConfigureFault) /\ spec.agent /\ spec.ceiling > 0
            => conf[q].cap \in 1..spec.ceiling
         /\ Calm => Doing(q)
<1>1. /\ ConfigureTypeOK /\ conf[q] \in Conf /\ conf \in [Configures -> Conf] /\ Active(q) /\ Sane(q)
      /\ disk \in [files : [Paths -> Contents \union {Absent, Torn}], install : Commands \union {Absent, Torn}]
      /\ log \in Configures \union {Absent} /\ CapInv
  BY DEF AllInv, ConfigureInv, ConfigureTypeOK, Active
<1>2. upsets' = 0 /\ (upsets' = upsets \/ ConfigureFault) => upsets = 0
  BY <1>1, ConfigureAssumption DEF ConfigureFault, ConfigureTypeOK
<1>3. /\ conf[q].exit = 0 /\ conf[q].result = Absent /\ conf[q].stored = FALSE
      /\ (conf[q].running => conf[q].pc = "install") /\ (conf[q].copy => conf[q].old = rest)
  BY <1>1 DEF Sane, Conf
<1>4. upsets = 0 /\ spec.agent /\ spec.ceiling > 0 => conf[q].cap \in 1..spec.ceiling
  BY <1>1 DEF CapInv
<1>5. Calm => Doing(q)
  BY DEF AllInv, QuietInv
<1> QED BY <1>1, <1>2, <1>3, <1>4, <1>5

\* A step of a request past its checks that goes on.
LEMMA MiddleStep ==
  ASSUME AllInv, NEW q \in Configures, NEW x \in Conf,
         conf' = [conf EXCEPT ![q] = x], UNCHANGED <<input, status, rest, spec>>,
         disk' \in [files : [Paths -> Contents \union {Absent, Torn}], install : Commands \union {Absent, Torn}],
         log' \in Configures \union {Absent}, upsets' = upsets \/ ConfigureFault,
         conf[q].pc \notin {"new", "loaded", "done"}, x.pc \notin {"new", "loaded", "done"},
         x.skipped = conf[q].skipped, x.seen = conf[q].seen, x.alone = conf[q].alone, x.cap = conf[q].cap,
         x.exit = 0, x.result = conf[q].result, x.stored = conf[q].stored,
         x.running => x.pc = "install", x.copy => x.old = rest,
         Calm => Doing(q)'
  PROVE  AllInv'
<1>1. /\ conf[q].result = Absent /\ conf[q].stored = FALSE /\ Active(q)
      /\ upsets' = 0 /\ spec.agent /\ spec.ceiling > 0 => conf[q].cap \in 1..spec.ceiling
  BY ServedLaw
<1>2. x.result = Absent /\ x.stored = FALSE /\ (upsets' = 0 /\ spec.agent /\ spec.ceiling > 0 => x.cap \in 1..spec.ceiling)
  BY <1>1
<1>3. x.running => x.pc \in {"install", "done"}
  OBVIOUS
<1>4. x.result # "refused"
  BY <1>2, ConfigureAssumption DEF Outcomes
<1> QED BY <1>1, <1>2, <1>3, <1>4, ServedStep

LEMMA WriteFileStep ==
  ASSUME AllInv, NEW q \in Configures, NEW p \in Paths, WriteFile(q, p)
  PROVE  AllInv'
<1>1. conf[q].pc = "writing" /\ p \in conf[q].todo
  BY DEF WriteFile
<1>2. UNCHANGED <<input, status, rest, log, spec>>
  BY DEF WriteFile
<1>3. conf[q].pc \notin {"new", "loaded", "done"}
  BY <1>1
<1>4. ConfigureTypeOK /\ conf[q] \in Conf /\ conf \in [Configures -> Conf] /\ Active(q) /\ log \in Configures \union {Absent}
  BY <1>3, ServedLaw
<1>5. PICK d : /\ d = disk /\ d \in [files : [Paths -> Contents \union {Absent, Torn}], install : Commands \union {Absent, Torn}]
  BY <1>3, ServedLaw
<1>6. input[q].files[p] \in Contents \union {Absent, Torn}
  BY <1>4, InputsAreSome
<1>7. CASE /\ disk' = [disk EXCEPT !.files[p] = input[q].files[p]]
           /\ conf' = [conf EXCEPT ![q].todo = @ \ {p}]
           /\ UNCHANGED upsets
  <2>1. PICK x \in Conf : x = [conf[q] EXCEPT !.todo = conf[q].todo \ {p}]
    BY <1>4 DEF Conf
  <2>2. /\ x.todo = conf[q].todo \ {p} /\ x.pc = "writing" /\ x.skipped = conf[q].skipped
        /\ x.seen = conf[q].seen /\ x.running = conf[q].running /\ x.exit = conf[q].exit /\ x.copy = conf[q].copy
        /\ x.old = conf[q].old /\ x.result = conf[q].result /\ x.stored = conf[q].stored /\ x.alone = conf[q].alone
        /\ x.cap = conf[q].cap
    BY <1>1, <2>1 DEF Conf
  <2>3. conf' = [conf EXCEPT ![q] = x] /\ conf'[q] = x
    BY <1>4, <1>7, <2>1
  <2>4. /\ disk' \in [files : [Paths -> Contents \union {Absent, Torn}], install : Commands \union {Absent, Torn}]
        /\ disk'.files = [disk.files EXCEPT ![p] = input[q].files[p]]
    BY <1>5, <1>6, <1>7
  <2>5. ASSUME Calm PROVE Doing(q)'
    <3>1. HasFiles(input[q], conf[q].todo)
      BY <1>1, <1>3, <2>5, ServedLaw DEF Doing
    <3>2. disk.files \in [Paths -> Contents \union {Absent, Torn}]
      BY <1>3, ServedLaw
    <3>3. HasFiles(input[q], conf[q].todo)'
      BY <1>2, <2>2, <2>3, <2>4, <3>1, <3>2 DEF HasFiles
    <3> QED BY <2>2, <2>3, <3>3 DEF Doing
  <2>6. x.exit = 0 /\ ~x.running /\ (x.copy => x.old = rest)
    BY <1>1, <1>3, <2>2, ServedLaw
  <2>7. x.pc \notin {"new", "loaded", "done"}
    BY <2>2
  <2> QED BY <1>2, <1>3, <1>4, <1>7, <2>2, <2>3, <2>4, <2>5, <2>6, <2>7, MiddleStep
<1>8. CASE /\ ConfigureFault
           /\ \E left \in {disk.files[p], input[q].files[p], Torn} :
                disk' = [disk EXCEPT !.files[p] = left]
           /\ conf' = [conf EXCEPT ![q] = Finish(q, "error")]
  <2>1. PICK left \in {disk.files[p], input[q].files[p], Torn} : disk' = [disk EXCEPT !.files[p] = left]
    BY <1>8
  <2>2. disk.files[p] \in Contents \union {Absent, Torn}
    BY <1>3, ServedLaw
  <2>3. disk' \in [files : [Paths -> Contents \union {Absent, Torn}], install : Commands \union {Absent, Torn}]
    BY <1>5, <1>6, <2>1, <2>2
  <2>4. "error" \in Results \ {"refused"}
    BY DEF Results, Outcomes
  <2> QED BY <1>2, <1>4, <1>8, <2>3, <2>4, FinishStep
<1> QED BY <1>7, <1>8 DEF WriteFile

LEMMA StartInstallStep ==
  ASSUME AllInv, NEW q \in Configures, StartInstall(q)
  PROVE  AllInv'
<1>1. conf[q].pc = "writing" /\ conf[q].todo = {} /\ UNCHANGED <<input, disk, status, rest, log, spec, upsets>>
  BY DEF StartInstall
<1>2. /\ ConfigureTypeOK /\ conf[q] \in Conf /\ conf \in [Configures -> Conf] /\ Active(q) /\ log \in Configures \union {Absent}
      /\ disk \in [files : [Paths -> Contents \union {Absent, Torn}], install : Commands \union {Absent, Torn}]
      /\ conf[q].exit = 0 /\ conf[q].result = Absent /\ conf[q].stored = FALSE /\ (conf[q].copy => conf[q].old = rest)
      /\ upsets' = 0 /\ spec.agent /\ spec.ceiling > 0 => conf[q].cap \in 1..spec.ceiling
      /\ Calm => Doing(q)
  BY <1>1, ServedLaw
<1>3. PICK r \in BOOLEAN : r = (input[q].install # Absent)
  OBVIOUS
<1>4. PICK x \in Conf : x = [conf[q] EXCEPT !.pc = IF r THEN "install" ELSE "log", !.running = r]
  BY <1>2 DEF Conf
<1>5. /\ x.pc = (IF r THEN "install" ELSE "log") /\ x.running = r /\ x.skipped = conf[q].skipped
      /\ x.seen = conf[q].seen /\ x.exit = conf[q].exit /\ x.copy = conf[q].copy
      /\ x.old = conf[q].old /\ x.result = conf[q].result /\ x.stored = conf[q].stored /\ x.alone = conf[q].alone
      /\ x.cap = conf[q].cap
  BY <1>2, <1>4 DEF Conf
<1>6. conf' = [conf EXCEPT ![q] = x] /\ conf'[q] = x
  BY <1>2, <1>3, <1>4 DEF StartInstall
<1>7. ASSUME Calm PROVE Doing(q)'
  <2>1. HasFiles(input[q], {})
    BY <1>1, <1>2, <1>7 DEF Doing
  <2>2. HasFiles(input[q], {})'
    BY <1>1, <2>1 DEF HasFiles
  <2>3. ~r => Has(InstallHash(input[q]))'
    BY <1>1, <1>3, <2>2 DEF Has, HasFiles, InstallHash
  <2> QED BY <1>5, <1>6, <2>2, <2>3 DEF Doing
<1>8. x.pc \notin {"new", "loaded", "done"} /\ (x.running => x.pc = "install") /\ (x.copy => x.old = rest) /\ x.exit = 0
  BY <1>2, <1>5
<1> QED BY <1>1, <1>2, <1>5, <1>6, <1>7, <1>8, MiddleStep

LEMMA InstallEndsStep ==
  ASSUME AllInv, NEW q \in Configures, InstallEnds(q)
  PROVE  AllInv'
<1>1. conf[q].pc = "install" /\ UNCHANGED <<input, status, rest, log, spec, upsets>>
  BY DEF InstallEnds
<1>2. PICK exit \in 0..1, text \in BOOLEAN :
        /\ conf' = [conf EXCEPT ![q] =
             IF Persisted(exit)
             THEN [@ EXCEPT !.pc = "log", !.running = FALSE, !.exit = exit, !.text = text]
             ELSE [Finish(q, "nonzero") EXCEPT !.running = FALSE, !.exit = exit]]
        /\ disk' = [disk EXCEPT !.install = IF exit = 0 THEN input[q].install ELSE Torn]
  BY DEF InstallEnds
<1>3. /\ ConfigureTypeOK /\ conf[q] \in Conf /\ conf \in [Configures -> Conf] /\ Active(q) /\ log \in Configures \union {Absent}
      /\ disk \in [files : [Paths -> Contents \union {Absent, Torn}], install : Commands \union {Absent, Torn}]
      /\ conf[q].exit = 0 /\ conf[q].result = Absent /\ conf[q].stored = FALSE /\ (conf[q].copy => conf[q].old = rest)
      /\ Calm => Doing(q)
  BY <1>1, ServedLaw
<1>4. input[q].install \in Commands \union {Absent}
  BY <1>3, InputsAreSome
<1>5. /\ disk' \in [files : [Paths -> Contents \union {Absent, Torn}], install : Commands \union {Absent, Torn}]
      /\ disk'.files = disk.files /\ disk'.install = IF exit = 0 THEN input[q].install ELSE Torn
  BY <1>2, <1>3, <1>4
<1>6. CASE exit = 0
  <2>1. PICK x \in Conf : x = [conf[q] EXCEPT !.pc = "log", !.running = FALSE, !.exit = exit, !.text = text]
    BY <1>3 DEF Conf
  <2>2. /\ x.pc = "log" /\ x.running = FALSE /\ x.exit = exit /\ x.skipped = conf[q].skipped
        /\ x.seen = conf[q].seen /\ x.copy = conf[q].copy /\ x.old = conf[q].old /\ x.result = conf[q].result
        /\ x.stored = conf[q].stored /\ x.alone = conf[q].alone /\ x.cap = conf[q].cap
    BY <1>3, <2>1 DEF Conf
  <2>3. conf' = [conf EXCEPT ![q] = x] /\ conf'[q] = x
    BY <1>2, <1>3, <1>6, <2>1 DEF Persisted
  <2>4. ASSUME Calm PROVE Doing(q)'
    <3>1. HasFiles(input[q], {})
      BY <1>1, <1>3, <2>4 DEF Doing
    <3>2. Has(InstallHash(input[q]))'
      BY <1>1, <1>5, <1>6, <3>1 DEF Has, HasFiles, InstallHash
    <3> QED BY <2>2, <2>3, <3>2 DEF Doing
  <2>5. x.copy => x.old = rest
    BY <1>3, <2>2
  <2> QED BY <1>1, <1>3, <1>5, <1>6, <2>2, <2>3, <2>4, <2>5, MiddleStep
<1>7. CASE exit # 0
  <2>1. PICK f \in Conf : f = Finish(q, "nonzero")
    BY <1>3, FinishLaw DEF Results, Outcomes
  <2>2. /\ f.pc = "done" /\ f.result = "nonzero" /\ f.skipped = conf[q].skipped
        /\ f.alone = conf[q].alone /\ f.stored = FALSE /\ f.copy = FALSE /\ f.seen = Absent
    BY <1>3, <2>1, FinishLaw DEF Results, Outcomes
  <2>3. PICK x \in Conf : x = [f EXCEPT !.running = FALSE, !.exit = exit]
    BY DEF Conf
  <2>4. /\ x.pc = "done" /\ x.result = "nonzero" /\ x.skipped = conf[q].skipped
        /\ x.alone = conf[q].alone /\ x.stored = FALSE /\ x.copy = FALSE /\ x.seen = Absent /\ x.running = FALSE
    BY <2>2, <2>3 DEF Conf
  <2>5. conf' = [conf EXCEPT ![q] = x] /\ conf'[q] = x
    BY <1>2, <1>3, <1>7, <2>1, <2>3 DEF Persisted
  <2>6. Doing(q)'
    BY <2>4, <2>5 DEF Doing
  <2> QED BY <1>1, <1>3, <1>5, <2>4, <2>5, <2>6, ServedStep
<1> QED BY <1>6, <1>7

\* What a request has done stays done by a step that leaves the sandbox alone.
LEMMA HasStays ==
  ASSUME NEW q \in Configures, UNCHANGED <<input, disk>>, Has(InstallHash(input[q]))
  PROVE  Has(InstallHash(input[q]))'
BY DEF Has, HasFiles, InstallHash

LEMMA WriteLogStep ==
  ASSUME AllInv, NEW q \in Configures, WriteLog(q)
  PROVE  AllInv'
<1>1. conf[q].pc = "log" /\ UNCHANGED <<input, disk, status, rest, spec>>
  BY DEF WriteLog
<1>2. /\ ConfigureTypeOK /\ conf[q] \in Conf /\ conf \in [Configures -> Conf] /\ log \in Configures \union {Absent}
      /\ disk \in [files : [Paths -> Contents \union {Absent, Torn}], install : Commands \union {Absent, Torn}]
      /\ conf[q].exit = 0 /\ ~conf[q].running /\ (conf[q].copy => conf[q].old = rest)
      /\ Calm => Doing(q)
  BY <1>1, ServedLaw
<1>3. PICK r \in BOOLEAN :
        /\ conf' = [conf EXCEPT ![q] = [conf[q] EXCEPT !.pc = "get", !.ref = r]]
        /\ log' \in Configures \union {Absent} /\ (upsets' = upsets \/ ConfigureFault)
  <2>1. PICK t \in BOOLEAN, o \in BOOLEAN : t = conf[q].text /\ o = conf[q].ref
    BY <1>2 DEF Conf
  <2>2. CASE /\ log' = IF conf[q].text THEN q ELSE Absent
             /\ conf' = [conf EXCEPT ![q].pc = "get", ![q].ref = conf[q].text]
             /\ UNCHANGED upsets
    BY <1>2, <2>1, <2>2
  <2>3. CASE /\ ConfigureFault \/ (~conf[q].alone /\ UNCHANGED upsets)
             /\ conf' = [conf EXCEPT ![q].pc = "get"]
             /\ UNCHANGED log
    <3>1. [conf[q] EXCEPT !.pc = "get"] = [conf[q] EXCEPT !.pc = "get", !.ref = o]
      BY <1>2, <2>1 DEF Conf
    <3> QED BY <1>2, <2>3, <3>1
  <2> QED BY <2>2, <2>3 DEF WriteLog
<1>4. PICK x \in Conf : x = [conf[q] EXCEPT !.pc = "get", !.ref = r]
  BY <1>2 DEF Conf
<1>5. /\ x.pc = "get" /\ x.running = conf[q].running /\ x.exit = conf[q].exit /\ x.skipped = conf[q].skipped
      /\ x.seen = conf[q].seen /\ x.copy = conf[q].copy /\ x.old = conf[q].old /\ x.result = conf[q].result
      /\ x.stored = conf[q].stored /\ x.alone = conf[q].alone /\ x.cap = conf[q].cap
  BY <1>2, <1>4 DEF Conf
<1>6. conf' = [conf EXCEPT ![q] = x] /\ conf'[q] = x
  BY <1>2, <1>3, <1>4
<1>7. ASSUME Calm PROVE Doing(q)'
  BY <1>1, <1>2, <1>5, <1>6, <1>7, HasStays DEF Doing
<1>8. (x.copy => x.old = rest) /\ x.exit = 0 /\ ~x.running
  BY <1>2, <1>5
<1>9. log' \in Configures \union {Absent} /\ (upsets' = upsets \/ ConfigureFault)
  BY <1>3
<1>10. disk' \in [files : [Paths -> Contents \union {Absent, Torn}], install : Commands \union {Absent, Torn}]
  BY <1>1, <1>2
<1> QED BY <1>1, <1>5, <1>6, <1>7, <1>8, <1>9, <1>10, MiddleStep

LEMMA GetFreshStep ==
  ASSUME AllInv, NEW q \in Configures, GetFresh(q)
  PROVE  AllInv'
<1>1. conf[q].pc = "get" /\ UNCHANGED <<input, disk, status, rest, log, spec>>
  BY DEF GetFresh
<1>2. /\ ConfigureTypeOK /\ conf[q] \in Conf /\ conf \in [Configures -> Conf] /\ Active(q) /\ log \in Configures \union {Absent}
      /\ disk \in [files : [Paths -> Contents \union {Absent, Torn}], install : Commands \union {Absent, Torn}]
      /\ conf[q].exit = 0 /\ ~conf[q].running /\ rest \in BOOLEAN
      /\ Calm => Doing(q)
  BY <1>1, ServedLaw DEF ConfigureTypeOK
<1>3. CASE /\ conf' = [conf EXCEPT ![q].pc = "update", ![q].copy = TRUE, ![q].old = rest]
           /\ UNCHANGED upsets
  <2>1. PICK x \in Conf : x = [conf[q] EXCEPT !.pc = "update", !.copy = TRUE, !.old = rest]
    BY <1>2 DEF Conf
  <2>2. /\ x.pc = "update" /\ x.running = conf[q].running /\ x.exit = conf[q].exit /\ x.skipped = conf[q].skipped
        /\ x.seen = conf[q].seen /\ x.old = rest /\ x.result = conf[q].result
        /\ x.stored = conf[q].stored /\ x.alone = conf[q].alone /\ x.cap = conf[q].cap
    BY <1>2, <2>1 DEF Conf
  <2>3. conf' = [conf EXCEPT ![q] = x] /\ conf'[q] = x
    BY <1>2, <1>3, <2>1
  <2>4. ASSUME Calm PROVE Doing(q)'
    BY <1>1, <1>2, <2>2, <2>3, <2>4, HasStays DEF Doing
  <2> QED BY <1>1, <1>2, <1>3, <2>2, <2>3, <2>4, MiddleStep
<1>4. CASE ConfigureFault /\ conf' = [conf EXCEPT ![q] = Finish(q, Result(q))]
  <2>1. Result(q) \in Results \ {"refused"}
    BY DEF Result, Results, Outcomes
  <2> QED BY <1>1, <1>2, <1>4, <2>1, FinishStep
<1> QED BY <1>3, <1>4 DEF GetFresh

\* A write of the object leaves every copy of it out of date, and nothing else.
LEMMA StaleLaw ==
  ASSUME NEW f \in [Configures -> Conf]
  PROVE  /\ Stale(f) \in [Configures -> Conf]
         /\ \A o \in Configures :
              /\ Stale(f)[o].pc = f[o].pc /\ Stale(f)[o].seen = f[o].seen /\ Stale(f)[o].skipped = f[o].skipped
              /\ Stale(f)[o].todo = f[o].todo /\ Stale(f)[o].running = f[o].running
              /\ Stale(f)[o].cap = f[o].cap /\ Stale(f)[o].exit = f[o].exit
              /\ Stale(f)[o].result = f[o].result /\ Stale(f)[o].stored = f[o].stored
              /\ Stale(f)[o].alone = f[o].alone /\ ~Stale(f)[o].copy
<1>1. ASSUME NEW o \in Configures
      PROVE  /\ [f[o] EXCEPT !.copy = FALSE] \in Conf
             /\ [f[o] EXCEPT !.copy = FALSE].pc = f[o].pc /\ [f[o] EXCEPT !.copy = FALSE].seen = f[o].seen
             /\ [f[o] EXCEPT !.copy = FALSE].skipped = f[o].skipped /\ [f[o] EXCEPT !.copy = FALSE].todo = f[o].todo
             /\ [f[o] EXCEPT !.copy = FALSE].running = f[o].running /\ [f[o] EXCEPT !.copy = FALSE].cap = f[o].cap
             /\ [f[o] EXCEPT !.copy = FALSE].exit = f[o].exit /\ [f[o] EXCEPT !.copy = FALSE].result = f[o].result
             /\ [f[o] EXCEPT !.copy = FALSE].stored = f[o].stored /\ [f[o] EXCEPT !.copy = FALSE].alone = f[o].alone
             /\ ~[f[o] EXCEPT !.copy = FALSE].copy
  BY DEF Conf
<1>2. \A o \in Configures : Stale(f)[o] = [f[o] EXCEPT !.copy = FALSE]
  BY DEF Stale
<1>3. Stale(f) \in [Configures -> Conf]
  BY <1>1 DEF Stale
<1> QED BY <1>1, <1>2, <1>3

\* The write of a status: it says what the request did.
LEMMA StoreStep ==
  ASSUME AllInv, NEW q \in Configures, conf[q].pc = "update", conf[q].copy,
         status' = NewStatus(q), rest' = conf[q].old,
         conf' = Stale([conf EXCEPT ![q] = [Finish(q, Result(q)) EXCEPT !.stored = TRUE]]),
         UNCHANGED <<input, disk, log, spec, upsets>>
  PROVE  AllInv' /\ rest' = rest
<1>1. /\ ConfigureTypeOK /\ conf[q] \in Conf /\ conf \in [Configures -> Conf] /\ Active(q) /\ conf[q].exit = 0
      /\ ~conf[q].running /\ conf[q].old = rest /\ (Calm => Doing(q))
  BY ServedLaw
<1>2. rest' = rest
  BY <1>1
<1>3. PICK x \in Conf :
        /\ x = [Finish(q, Result(q)) EXCEPT !.stored = TRUE]
        /\ x.pc = "done" /\ x.result = Result(q) /\ x.skipped = conf[q].skipped /\ x.running = conf[q].running
        /\ x.exit = 0 /\ x.alone = conf[q].alone /\ x.stored = TRUE /\ x.seen = Absent
  <2>1. Result(q) \in Results /\ Result(q) # "refused"
    BY DEF Result, Results, Outcomes
  <2>2. PICK f \in Conf : f = Finish(q, Result(q))
    BY <1>1, <2>1, FinishLaw
  <2>3. /\ f.pc = "done" /\ f.result = Result(q) /\ f.skipped = conf[q].skipped /\ f.running = conf[q].running
        /\ f.exit = 0 /\ f.alone = conf[q].alone /\ f.seen = Absent
    BY <1>1, <2>1, <2>2, FinishLaw
  <2>4. [f EXCEPT !.stored = TRUE] \in Conf
    BY DEF Conf
  <2>5. PICK y \in Conf : y = [f EXCEPT !.stored = TRUE]
    BY <2>4
  <2>6. /\ y.pc = f.pc /\ y.result = f.result /\ y.skipped = f.skipped /\ y.running = f.running /\ y.exit = f.exit
        /\ y.alone = f.alone /\ y.seen = f.seen /\ y.stored = TRUE
    BY <2>5 DEF Conf
  <2> QED BY <2>2, <2>3, <2>5, <2>6
<1>4. PICK g \in [Configures -> Conf] : g = [conf EXCEPT ![q] = x]
  BY <1>1
<1>5. g[q] = x /\ \A o \in Configures \ {q} : g[o] = conf[o]
  BY <1>1, <1>4
<1>6. conf' = Stale(g)
  BY <1>3, <1>4
<1>7. conf' \in [Configures -> Conf] /\ \A o \in Configures : ~conf'[o].copy
  BY <1>6, StaleLaw
<1>8. /\ conf'[q].pc = "done" /\ conf'[q].result = Result(q) /\ conf'[q].skipped = conf[q].skipped
      /\ conf'[q].running = conf[q].running /\ conf'[q].exit = 0 /\ conf'[q].alone = conf[q].alone
      /\ conf'[q].stored = TRUE /\ conf'[q].seen = Absent
  <2>1. /\ conf'[q].pc = x.pc /\ conf'[q].result = x.result /\ conf'[q].skipped = x.skipped
        /\ conf'[q].running = x.running /\ conf'[q].exit = x.exit /\ conf'[q].alone = x.alone
        /\ conf'[q].stored = x.stored /\ conf'[q].seen = x.seen
    BY <1>5, <1>6, StaleLaw
  <2> QED BY <1>3, <2>1
<1>9. \A o \in Configures \ {q} :
        /\ conf'[o].pc = conf[o].pc /\ conf'[o].seen = conf[o].seen /\ conf'[o].skipped = conf[o].skipped
        /\ conf'[o].running = conf[o].running /\ conf'[o].cap = conf[o].cap /\ conf'[o].exit = conf[o].exit
        /\ conf'[o].result = conf[o].result /\ conf'[o].stored = conf[o].stored /\ conf'[o].alone = conf[o].alone
  BY <1>5, <1>6, StaleLaw
<1>10. PICK h : h = InstallHash(input[q]) /\ h \in HashInputs
  BY <1>1, InputsAreSome
<1>11. /\ status' \in Status /\ status'.exit = 0 /\ status'.hash = h /\ status'.cap = conf[q].cap
  <2>1. input[q].entry \in Entries \union {Absent}
    BY <1>1, InputsAreSome
  <2>2. conf[q].ref \in BOOLEAN /\ conf[q].cap \in Ceilings \union {0}
    BY <1>1 DEF Conf
  <2> QED BY <1>1, <1>10, <2>1, <2>2 DEF NewStatus, Status
<1>12. ConfigureTypeOK'
  BY <1>1, <1>2, <1>7, <1>11 DEF ConfigureTypeOK
<1>13. \A o \in Configures : Sane(o)'
  <2>1. Result(q) # "refused"
    BY DEF Result
  <2>2. Sane(q)'
    <3>1. q \in Configures /\ ~conf'[q].copy
      BY <1>7
    <3> QED BY <1>1, <1>8, <2>1, <3>1 DEF Sane
  <2>3. ASSUME NEW o \in Configures \ {q} PROVE Sane(o)'
    <3>1. Sane(o) /\ ~conf'[o].copy
      BY <1>7 DEF AllInv, ConfigureInv
    <3> QED BY <1>9, <3>1 DEF Sane
  <2> QED BY <2>2, <2>3
<1>14. RecordsInv'
  <2>1. ~conf[q].stored
    BY ServedLaw
  <2>2. \A o \in Configures : conf[o].stored =>
           conf'[o].stored /\ conf'[o].exit = conf[o].exit /\ conf'[o].skipped = conf[o].skipped
    BY <1>9, <2>1
  <2>3. \A k : Recorded(k) => Recorded(k)'
    BY <2>2, RecordedStays
  <2>4. Recorded(h)'
    <3>1. CASE conf[q].skipped
      <4>1. Recorded(h)
        BY <1>10, <3>1 DEF AllInv, ConfigureInv, RecordsInv, Recorded, InstallHash
      <4> QED BY <2>3, <4>1
    <3>2. CASE ~conf[q].skipped
      BY <1>8, <1>10, <3>2 DEF Recorded, InstallHash
    <3> QED BY <3>1, <3>2
  <2>5. status' # Absent => Recorded(status.hash)'
    BY <1>11, <2>4 DEF Recorded
  <2>6. ASSUME NEW o \in Configures
        PROVE  /\ conf'[o].seen # Absent => Recorded(conf[o].seen)'
               /\ conf'[o].skipped => Recorded(InstallHash(input[o]))'
    <3>1. PICK s, k : s = conf'[o].seen /\ k = InstallHash(input[o])
      OBVIOUS
    <3>2. /\ Recorded(s)' => Recorded(conf[o].seen)'
          /\ Recorded(k)' => Recorded(InstallHash(input[o]))'
      BY <3>1 DEF Recorded, InstallHash
    <3>3. conf'[o].seen = Absent \/ conf'[o].seen = conf[o].seen
      BY <1>8, <1>9
    <3>4. conf'[o].skipped = conf[o].skipped
      BY <1>8, <1>9
    <3>5. /\ s # Absent => Recorded(s)
          /\ conf[o].skipped => Recorded(k)
      BY <3>1, <3>3 DEF AllInv, ConfigureInv, RecordsInv
    <3> QED BY <2>3, <3>1, <3>2, <3>4, <3>5
  <2> QED BY <2>5, <2>6 DEF RecordsInv
<1>15. CapInv'
  <2>1. upsets = 0 /\ spec.agent /\ spec.ceiling > 0 => conf[q].cap \in 1..spec.ceiling
    BY DEF AllInv, ConfigureInv, CapInv
  <2> QED BY <1>8, <1>9, <1>11, <2>1 DEF AllInv, ConfigureInv, CapInv
<1>16. AloneInv'
  <2>1. \A o \in Configures : (Active(o)' => Active(o)) /\ conf'[o].alone = conf[o].alone
    BY <1>8, <1>9 DEF Active
  <2> QED BY <2>1 DEF AllInv, ConfigureInv, AloneInv
<1>17. QuietInv'
  <2> SUFFICES ASSUME Calm'
               PROVE  /\ (\A o \in Configures : ~Active(o)') /\ status' # Absent => Has(status.hash)'
                      /\ \A o \in Configures : Doing(o)'
    BY DEF QuietInv
  <2>1. Calm
    <3>1. ASSUME NEW o \in Configures, o # q, conf[o].pc # "new"
          PROVE  conf[o].alone /\ (Active(o) \/ conf[o].stored \/ conf[o].result = "refused")
      BY <1>9, <3>1 DEF Calm, Active
    <3>2. conf[q].alone
      BY <1>8 DEF Calm
    <3> QED BY <1>1, <3>1, <3>2 DEF Calm
  <2>2. conf[q].alone
    BY <1>1, <2>1 DEF Calm, Active
  <2>3. \A o \in Configures \ {q} : ~Active(o)
    BY <1>1, <2>2 DEF AllInv, ConfigureInv, AloneInv
  <2>4. \A o \in Configures : conf'[o].pc \in {"new", "done"}
    BY <1>8, <1>9, <2>3 DEF Active
  <2>5. \A o \in Configures : Doing(o)'
    BY <2>4 DEF Doing
  <2>6. Has(h)
    BY <1>1, <1>10, <2>1 DEF Doing, Has, HasFiles, InstallHash
  <2>7. Has(status.hash)'
    BY <1>11, <2>6 DEF Has, HasFiles
  <2> QED BY <2>5, <2>7
<1> QED BY <1>2, <1>12, <1>13, <1>14, <1>15, <1>16, <1>17 DEF AllInv, ConfigureInv

LEMMA UpdateStep ==
  ASSUME AllInv, NEW q \in Configures, Update(q)
  PROVE  AllInv' /\ rest' = rest
<1>1. conf[q].pc = "update" /\ UNCHANGED <<input, disk, log, spec>>
  BY DEF Update
<1>2. /\ ConfigureTypeOK /\ conf[q] \in Conf /\ conf \in [Configures -> Conf] /\ Active(q) /\ log \in Configures \union {Absent}
      /\ disk \in [files : [Paths -> Contents \union {Absent, Torn}], install : Commands \union {Absent, Torn}]
      /\ conf[q].exit = 0 /\ ~conf[q].running /\ (conf[q].copy => conf[q].old = rest)
      /\ Calm => Doing(q)
  BY <1>1, ServedLaw
<1>3. Result(q) \in Results \ {"refused"}
  BY DEF Result, Results, Outcomes
<1>4. CASE /\ ~Conflict(q) /\ status' = NewStatus(q) /\ rest' = conf[q].old
           /\ conf' = Stale([conf EXCEPT ![q] = [Finish(q, Result(q)) EXCEPT !.stored = TRUE]])
           /\ UNCHANGED upsets
  BY <1>1, <1>4, StoreStep DEF Conflict
<1>5. CASE /\ Conflict(q)
           /\ conf' = IF Remaining(conf[q].tries) = 0
                      THEN [conf EXCEPT ![q] = Finish(q, Result(q))]
                      ELSE [conf EXCEPT ![q].pc = "get", ![q].tries = Remaining(@)]
           /\ UNCHANGED <<status, rest, upsets>>
  <2>1. CASE Remaining(conf[q].tries) = 0
    <3>1. conf' = [conf EXCEPT ![q] = Finish(q, Result(q))]
      BY <1>5, <2>1
    <3> QED BY <1>1, <1>2, <1>3, <1>5, <3>1, FinishStep
  <2>2. CASE Remaining(conf[q].tries) # 0
    <3>1. PICK n \in 1..3 : n = Remaining(conf[q].tries)
      BY <1>2, <2>2 DEF Conf, Remaining
    <3>2. PICK x \in Conf : x = [conf[q] EXCEPT !.pc = "get", !.tries = n]
      BY <1>2 DEF Conf
    <3>3. /\ x.pc = "get" /\ x.running = conf[q].running /\ x.exit = conf[q].exit /\ x.skipped = conf[q].skipped
          /\ x.seen = conf[q].seen /\ x.copy = conf[q].copy /\ x.old = conf[q].old /\ x.result = conf[q].result
          /\ x.stored = conf[q].stored /\ x.alone = conf[q].alone /\ x.cap = conf[q].cap
      BY <1>2, <3>2 DEF Conf
    <3>4. conf' = [conf EXCEPT ![q] = x] /\ conf'[q] = x
      BY <1>2, <1>5, <2>2, <3>1, <3>2
    <3>5. ASSUME Calm PROVE Doing(q)'
      BY <1>1, <1>2, <3>3, <3>4, <3>5, HasStays DEF Doing
    <3>6. (x.copy => x.old = rest) /\ x.exit = 0 /\ ~x.running
      BY <1>2, <3>3
    <3> QED BY <1>1, <1>2, <1>5, <3>3, <3>4, <3>5, <3>6, MiddleStep
  <2> QED BY <1>5, <2>1, <2>2
<1>6. CASE /\ ConfigureFault /\ conf' = [conf EXCEPT ![q] = Finish(q, Result(q))]
           /\ UNCHANGED <<status, rest>>
  BY <1>1, <1>2, <1>3, <1>6, FinishStep
<1> QED BY <1>4, <1>5, <1>6 DEF Update

\* An install that outlives its request: that request has failed.
LEMMA LateInstallStep ==
  ASSUME AllInv, NEW q \in Configures, LateInstall(q)
  PROVE  AllInv'
<1>1. conf[q].pc = "done" /\ conf[q].running /\ UNCHANGED <<input, status, rest, log, spec, upsets>>
  BY DEF LateInstall
<1>2. /\ ConfigureInv /\ ConfigureTypeOK /\ conf[q] \in Conf /\ conf \in [Configures -> Conf] /\ Sane(q)
      /\ log \in Configures \union {Absent} /\ upsets \in 0..MaxUpsets
      /\ disk \in [files : [Paths -> Contents \union {Absent, Torn}], install : Commands \union {Absent, Torn}]
  BY DEF AllInv, ConfigureInv, ConfigureTypeOK
<1>3. PICK x \in Conf : x = [conf[q] EXCEPT !.running = FALSE]
  BY <1>2 DEF Conf
<1>4. /\ x.pc = "done" /\ x.running = FALSE /\ x.exit = conf[q].exit /\ x.skipped = conf[q].skipped
      /\ x.seen = conf[q].seen /\ x.copy = conf[q].copy /\ x.old = conf[q].old /\ x.result = conf[q].result
      /\ x.stored = conf[q].stored /\ x.alone = conf[q].alone
  BY <1>1, <1>2, <1>3 DEF Conf
<1>5. conf' = [conf EXCEPT ![q] = x] /\ conf'[q] = x
  BY <1>2, <1>3 DEF LateInstall
<1>6. disk' \in [files : [Paths -> Contents \union {Absent, Torn}], install : Commands \union {Absent, Torn}]
  <2>1. PICK left \in {input[q].install, Torn} : disk' = [disk EXCEPT !.install = left]
    BY DEF LateInstall
  <2>2. left \in Commands \union {Absent, Torn}
    BY <1>2, InputsAreSome
  <2> QED BY <1>2, <2>1, <2>2
<1>7. Sane(q)'
  BY <1>1, <1>2, <1>4, <1>5 DEF Sane
<1>8. ConfigureInv'
  BY <1>1, <1>2, <1>4, <1>5, <1>6, <1>7, OwnStep
<1>9. ~Calm'
  <2>1. ~conf[q].stored /\ conf[q].result # "refused"
    BY <1>1, <1>2 DEF Sane
  <2>2. ~(conf'[q].alone /\ (Active(q)' \/ conf'[q].stored \/ conf'[q].result = "refused")) /\ conf'[q].pc # "new"
    BY <1>4, <1>5, <2>1 DEF Active
  <2> QED BY <2>2 DEF Calm
<1> QED BY <1>8, <1>9 DEF AllInv, QuietInv

\* A request that begins.
LEMMA LoadStep ==
  ASSUME AllInv, NEW q \in Configures, LoadConfigure(q)
  PROVE  AllInv'
<1>1. conf[q].pc = "new" /\ UNCHANGED <<input, disk, status, rest, log, spec, upsets>>
  BY DEF LoadConfigure
<1>2. ConfigureTypeOK /\ conf \in [Configures -> Conf] /\ Sane(q)
  BY DEF AllInv, ConfigureInv, ConfigureTypeOK
<1>3. PICK seen \in HashInputs \union {Absent} : seen = IF status = Absent THEN Absent ELSE status.hash
  BY <1>2 DEF ConfigureTypeOK, Status
<1>4. PICK alone \in BOOLEAN : alone = \A o \in Configures : ~Active(o)
  OBVIOUS
<1>5. PICK x \in Conf : x = [conf[q] EXCEPT !.pc = "loaded", !.seen = seen, !.alone = alone]
  <2>1. conf[q] \in Conf
    BY <1>2
  <2> QED BY <2>1 DEF Conf
<1>6. /\ x.pc = "loaded" /\ x.seen = seen /\ x.alone = alone /\ x.running = conf[q].running
      /\ x.exit = conf[q].exit /\ x.skipped = conf[q].skipped /\ x.copy = conf[q].copy /\ x.old = conf[q].old
      /\ x.result = conf[q].result /\ x.stored = conf[q].stored
  <2>1. conf[q] \in Conf
    BY <1>2
  <2> QED BY <1>5, <2>1 DEF Conf
<1>7. conf' = [c \in Configures |->
                 IF c = q THEN x ELSE IF Active(c) THEN [conf[c] EXCEPT !.alone = FALSE] ELSE conf[c]]
  BY <1>3, <1>4, <1>5 DEF LoadConfigure
<1>8. conf'[q] = x
  BY <1>7
<1>9. ASSUME NEW o \in Configures \ {q}
      PROVE  /\ conf'[o] \in Conf
             /\ conf'[o].pc = conf[o].pc /\ conf'[o].seen = conf[o].seen /\ conf'[o].skipped = conf[o].skipped
             /\ conf'[o].running = conf[o].running /\ conf'[o].cap = conf[o].cap /\ conf'[o].exit = conf[o].exit
             /\ conf'[o].result = conf[o].result /\ conf'[o].stored = conf[o].stored
             /\ conf'[o].copy = conf[o].copy /\ conf'[o].old = conf[o].old /\ conf'[o].todo = conf[o].todo
             /\ Active(o) => ~conf'[o].alone
             /\ ~Active(o) => conf'[o].alone = conf[o].alone
  <2>1. CASE Active(o)
    <3>1. conf'[o] = [conf[o] EXCEPT !.alone = FALSE]
      BY <1>7, <2>1
    <3> QED BY <1>2, <2>1, <3>1 DEF Conf
  <2>2. CASE ~Active(o)
    BY <1>2, <1>7, <2>2
  <2> QED BY <2>1, <2>2
<1>10. conf' \in [Configures -> Conf]
  <2>1. ASSUME NEW o \in Configures PROVE conf'[o] \in Conf
    BY <1>8, <1>9
  <2>2. DOMAIN conf' = Configures /\ conf' = [c \in Configures |-> conf'[c]]
    BY <1>7
  <2> QED BY <2>1, <2>2
<1>11. ConfigureTypeOK'
  BY <1>1, <1>2, <1>10 DEF ConfigureTypeOK
<1>12. \A o \in Configures : Sane(o)'
  <2>1. Sane(q)'
    BY <1>1, <1>2, <1>6, <1>8 DEF Sane
  <2>2. ASSUME NEW o \in Configures \ {q} PROVE Sane(o)'
    BY <1>1, <1>9 DEF AllInv, ConfigureInv, Sane
  <2> QED BY <2>1, <2>2
<1>13. RecordsInv'
  <2>1. ~conf[q].stored /\ ~conf[q].skipped
    BY <1>1, <1>2 DEF Sane
  <2>2. \A o \in Configures : conf[o].stored =>
           conf'[o].stored /\ conf'[o].exit = conf[o].exit /\ conf'[o].skipped = conf[o].skipped
    BY <1>9, <2>1
  <2>3. \A k : Recorded(k) => Recorded(k)'
    BY <1>1, <2>2, RecordedStays
  <2>4. PICK h : h = status.hash
    OBVIOUS
  <2>5. status # Absent => Recorded(h)
    BY <2>4 DEF AllInv, ConfigureInv, RecordsInv
  <2>6. status' # Absent => Recorded(status.hash)'
    BY <1>1, <2>3, <2>4, <2>5 DEF Recorded
  <2>7. ASSUME NEW o \in Configures
        PROVE  /\ conf'[o].seen # Absent => Recorded(conf[o].seen)'
               /\ conf'[o].skipped => Recorded(InstallHash(input[o]))'
    <3>1. PICK s, k : s = conf'[o].seen /\ k = InstallHash(input[o])
      OBVIOUS
    <3>2. /\ Recorded(s)' => Recorded(conf[o].seen)'
          /\ Recorded(k)' => Recorded(InstallHash(input[o]))'
      BY <1>1, <3>1 DEF Recorded, InstallHash
    <3>3. CASE o = q
      <4>1. ~conf'[o].skipped /\ (s # Absent => Recorded(s))
        BY <1>3, <1>6, <1>8, <2>1, <2>4, <2>5, <3>1, <3>3
      <4> QED BY <2>3, <3>1, <3>2, <4>1
    <3>4. CASE o # q
      <4>1. /\ s # Absent => Recorded(s)
            /\ conf'[o].skipped => Recorded(k)
        BY <1>9, <3>1, <3>4 DEF AllInv, ConfigureInv, RecordsInv
      <4> QED BY <2>3, <3>1, <3>2, <4>1
    <3> QED BY <3>3, <3>4
  <2> QED BY <2>6, <2>7 DEF RecordsInv
<1>14. CapInv'
  BY <1>1, <1>6, <1>8, <1>9 DEF AllInv, ConfigureInv, CapInv
<1>15. AloneInv'
  <2>1. ASSUME NEW o \in Configures \ {q} PROVE Active(o)' <=> Active(o)
    BY <1>9 DEF Active
  <2>2. ASSUME NEW o \in Configures \ {q}, Active(o)' PROVE ~conf'[o].alone
    BY <1>9, <2>1, <2>2
  <2>3. conf'[q].alone => \A o \in Configures \ {q} : ~Active(o)'
    BY <1>4, <1>6, <1>8, <2>1
  <2> QED BY <2>2, <2>3 DEF AloneInv
<1>16. QuietInv'
  <2> SUFFICES ASSUME Calm'
               PROVE  /\ (\A o \in Configures : ~Active(o))' /\ status' # Absent => Has(status.hash)'
                      /\ \A o \in Configures : Doing(o)'
    BY DEF QuietInv
  <2>1. alone /\ \A o \in Configures : ~Active(o)
    BY <1>4, <1>6, <1>8 DEF Calm
  <2>2. Calm
    BY <1>1, <1>9, <2>1 DEF Calm, Active
  <2>3. status # Absent => Has(status.hash)
    BY <2>1, <2>2 DEF AllInv, QuietInv
  <2>4. status' # Absent => Has(status.hash)'
    BY <1>1, <2>3 DEF Has, HasFiles
  <2>5. Doing(q)'
    BY <1>1, <1>3, <1>6, <1>8, <2>4 DEF Doing
  <2>6. ASSUME NEW o \in Configures \ {q} PROVE Doing(o)'
    BY <1>9, <2>1 DEF Doing, Active
  <2> QED BY <2>4, <2>5, <2>6
<1> QED BY <1>11, <1>12, <1>13, <1>14, <1>15, <1>16 DEF AllInv, ConfigureInv
-----------------------------------------------------------------------------
(* The other writers.                                                      *)

\* The controller's write makes every copy out of date, and touches nothing
\* else of the requests.
LEMMA ReconciledStep ==
  ASSUME AllInv, Reconciled
  PROVE  AllInv'
<1>1. /\ rest' = ~rest /\ conf' = Stale(conf)
      /\ UNCHANGED <<input, disk, status, log, spec, upsets>>
  BY DEF Reconciled
<1>2. ConfigureTypeOK /\ conf \in [Configures -> Conf]
  BY DEF AllInv, ConfigureInv, ConfigureTypeOK
<1>3. conf' \in [Configures -> Conf]
  BY <1>1, <1>2, StaleLaw
<1>4. ASSUME NEW o \in Configures
      PROVE  /\ conf'[o].pc = conf[o].pc /\ conf'[o].seen = conf[o].seen /\ conf'[o].skipped = conf[o].skipped
             /\ conf'[o].todo = conf[o].todo /\ conf'[o].running = conf[o].running
             /\ conf'[o].cap = conf[o].cap /\ conf'[o].exit = conf[o].exit
             /\ conf'[o].result = conf[o].result /\ conf'[o].stored = conf[o].stored
             /\ conf'[o].alone = conf[o].alone /\ ~conf'[o].copy
  BY <1>1, <1>2, StaleLaw
<1>5. ConfigureTypeOK'
  <2>1. rest' \in BOOLEAN
    BY <1>1
  <2> QED BY <1>1, <1>2, <1>3, <2>1 DEF ConfigureTypeOK
<1>6. \A o \in Configures : Sane(o)'
  BY <1>4 DEF AllInv, ConfigureInv, Sane
<1>7. RecordsInv'
  <2>1. \A k : Recorded(k) => Recorded(k)'
    BY <1>1, <1>4, RecordedStays
  <2>2. PICK h : h = status.hash
    OBVIOUS
  <2>3. status # Absent => Recorded(h)
    BY <2>2 DEF AllInv, ConfigureInv, RecordsInv
  <2>4. status' # Absent => Recorded(status.hash)'
    BY <1>1, <2>1, <2>2, <2>3 DEF Recorded
  <2>5. ASSUME NEW o \in Configures
        PROVE  /\ conf'[o].seen # Absent => Recorded(conf[o].seen)'
               /\ conf'[o].skipped => Recorded(InstallHash(input[o]))'
    <3>1. PICK s, k : s = conf[o].seen /\ k = InstallHash(input[o])
      OBVIOUS
    <3>2. /\ Recorded(s)' => Recorded(conf[o].seen)'
          /\ Recorded(k)' => Recorded(InstallHash(input[o]))'
      BY <1>1, <1>4, <3>1 DEF Recorded, InstallHash
    <3>3. /\ s # Absent => Recorded(s)
          /\ conf[o].skipped => Recorded(k)
      BY <3>1 DEF AllInv, ConfigureInv, RecordsInv
    <3> QED BY <1>4, <2>1, <3>1, <3>2, <3>3
  <2> QED BY <2>4, <2>5 DEF RecordsInv
<1>8. CapInv'
  BY <1>1, <1>4 DEF AllInv, ConfigureInv, CapInv
<1>9. AloneInv'
  BY <1>4 DEF AllInv, ConfigureInv, AloneInv, Active
<1>10. QuietInv'
  <2> SUFFICES ASSUME Calm'
               PROVE  /\ (\A o \in Configures : ~Active(o))' /\ status' # Absent => Has(status.hash)'
                      /\ \A o \in Configures : Doing(o)'
    BY DEF QuietInv
  <2>1. Calm
    BY <1>4 DEF Calm, Active
  <2>2. (\A o \in Configures : ~Active(o))' /\ status' # Absent => Has(status.hash)'
    BY <1>1, <1>4, <2>1 DEF AllInv, QuietInv, Active, Has, HasFiles
  <2>3. ASSUME NEW o \in Configures PROVE Doing(o)'
    <3>1. Doing(o)
      BY <2>1 DEF AllInv, QuietInv
    <3> QED BY <1>1, <1>4, <3>1 DEF Doing, Has, HasFiles, InstallHash
  <2> QED BY <2>2, <2>3
<1> QED BY <1>5, <1>6, <1>7, <1>8, <1>9, <1>10 DEF AllInv, ConfigureInv

\* Nothing looks at the policy but a request that begins.
LEMMA SetPolicyStep ==
  ASSUME AllInv, SetPolicy
  PROVE  AllInv'
<1>1. /\ spec' = [spec EXCEPT !.allowed = ~@]
      /\ UNCHANGED <<input, conf, disk, status, rest, log, upsets>>
  BY DEF SetPolicy
<1>2. spec \in Spec0
  BY DEF AllInv, ConfigureInv, ConfigureTypeOK
<1>3. spec' \in Spec0 /\ spec'.agent = spec.agent /\ spec'.ceiling = spec.ceiling
  BY <1>1, <1>2 DEF Spec0
<1>4. ConfigureTypeOK'
  BY <1>1, <1>3 DEF AllInv, ConfigureInv, ConfigureTypeOK
<1>5. (\A o \in Configures : Sane(o))' /\ AloneInv'
  BY <1>1 DEF AllInv, ConfigureInv, Sane, AloneInv, Active
<1>6. RecordsInv'
  BY <1>1 DEF AllInv, ConfigureInv, RecordsInv, Recorded, InstallHash
<1>7. CapInv'
  BY <1>1, <1>3 DEF AllInv, ConfigureInv, CapInv
<1>8. QuietInv'
  BY <1>1 DEF AllInv, QuietInv, Calm, Doing, Has, HasFiles, InstallHash, Active
<1> QED BY <1>4, <1>5, <1>6, <1>7, <1>8 DEF AllInv, ConfigureInv

-----------------------------------------------------------------------------
(* The invariant, and the properties of the runs.                          *)

LEMMA InitInv == ConfigureInit => AllInv
<1> SUFFICES ASSUME ConfigureInit PROVE AllInv
  OBVIOUS
<1>1. PICK n \in Conf : n = NewConf
  <2>1. NewConf \in Conf
    BY DEF NewConf, Conf, Results, Outcomes
  <2> QED BY <2>1
<1>2. PICK d \in Conf : d = [n EXCEPT !.pc = "done", !.result = "refused", !.alone = FALSE]
  <2>1. [n EXCEPT !.pc = "done", !.result = "refused", !.alone = FALSE] \in Conf
    BY DEF Conf, Results, Outcomes
  <2> QED BY <2>1
<1>3. /\ n.pc = "new" /\ n.result = Absent /\ n.alone
      /\ ~n.stored /\ ~n.copy /\ ~n.skipped /\ ~n.running /\ n.exit = 0 /\ n.seen = Absent
  BY <1>1 DEF NewConf
<1>4. /\ d.pc = "done" /\ d.result = "refused" /\ ~d.alone
      /\ ~d.stored /\ ~d.copy /\ ~d.skipped /\ ~d.running /\ d.exit = 0 /\ d.seen = Absent
  BY <1>2, <1>3 DEF Conf
<1>5. conf \in [Configures -> {n, d}]
  BY <1>1, <1>2 DEF ConfigureInit
<1>6. ConfigureTypeOK
  <2>1. input \in [Configures -> Inputs] /\ conf \in [Configures -> Conf] /\ status = Absent
    BY <1>5 DEF ConfigureInit
  <2>2. disk \in [files : [Paths -> Contents \union {Absent, Torn}], install : Commands \union {Absent, Torn}]
    BY DEF ConfigureInit
  <2>3. rest \in BOOLEAN /\ log \in Configures \union {Absent} /\ spec \in Spec0 /\ upsets \in 0..MaxUpsets
    BY ConfigureAssumption DEF ConfigureInit
  <2> QED BY <2>1, <2>2, <2>3 DEF ConfigureTypeOK
<1>7. \A q \in Configures : Sane(q)
  BY <1>3, <1>4, <1>5, ConfigureAssumption DEF Sane, Outcomes
<1>8. RecordsInv /\ CapInv
  BY <1>3, <1>4, <1>5 DEF ConfigureInit, RecordsInv, CapInv
<1>9. AloneInv
  BY <1>3, <1>4, <1>5 DEF AloneInv, Active
<1>10. QuietInv
  BY <1>3, <1>4, <1>5 DEF ConfigureInit, QuietInv, Doing, Active
<1> QED BY <1>6, <1>7, <1>8, <1>9, <1>10 DEF AllInv, ConfigureInv

LEMMA AllStep == AllInv /\ [ConfigureNext]_configureVars => AllInv'
<1> SUFFICES ASSUME AllInv, [ConfigureNext]_configureVars PROVE AllInv'
  OBVIOUS
<1>1. CASE UNCHANGED configureVars
  <2>1. ConfigureTypeOK' /\ CapInv' /\ AloneInv'
    BY <1>1 DEF configureVars, AllInv, ConfigureInv, ConfigureTypeOK, CapInv, AloneInv, Active
  <2>2. (\A o \in Configures : Sane(o))' /\ RecordsInv'
    BY <1>1 DEF configureVars, AllInv, ConfigureInv, Sane, RecordsInv, Recorded, InstallHash
  <2>3. QuietInv'
    BY <1>1 DEF configureVars, AllInv, QuietInv, Calm, Doing, Has, HasFiles, InstallHash, Active
  <2> QED BY <2>1, <2>2, <2>3 DEF AllInv, ConfigureInv
<1>2. ASSUME NEW q \in Configures, LoadConfigure(q) \/ Step(q) \/ LateInstall(q) \/ Abandon(q) PROVE AllInv'
  BY <1>2, LoadStep, BeginStep, WriteFileStep, StartInstallStep, InstallEndsStep, AbandonStep, WriteLogStep,
     GetFreshStep, UpdateStep, LateInstallStep DEF Step
<1>3. CASE Reconciled
  BY <1>3, ReconciledStep
<1>4. CASE SetPolicy
  BY <1>4, SetPolicyStep
<1> QED BY <1>1, <1>2, <1>3, <1>4 DEF ConfigureNext

\* A request is skipped only after another with the same inputs was carried out
\* and recorded, and the cap in the status is clamped by the policy's: no
\* interleaving of handlers, controller and faults makes the status promise
\* more than was done.
THEOREM StatusMeansDoneAlways == ConfigureSpec => []StatusMeansDone
<1>1. AllInv => StatusMeansDone
  <2> SUFFICES ASSUME AllInv PROVE StatusMeansDone
    OBVIOUS
  <2>1. ConfigureTypeOK /\ CapIsClamped
    BY DEF AllInv, ConfigureInv, CapInv, CapIsClamped
  <2>2. ASSUME NEW q \in Configures, conf[q].skipped
        PROVE  \E o \in Configures \ {q} :
                 /\ input[o].files = input[q].files /\ input[o].install = input[q].install
                 /\ conf[o].stored /\ conf[o].exit = 0 /\ ~conf[o].skipped
    <3>1. PICK o \in Configures : /\ conf[o].stored /\ conf[o].exit = 0 /\ ~conf[o].skipped
                                  /\ InstallHash(input[o]) = InstallHash(input[q])
      BY <2>2 DEF AllInv, ConfigureInv, RecordsInv, Recorded
    <3>2. /\ InstallHash(input[o]).files = input[o].files /\ InstallHash(input[o]).install = input[o].install
          /\ InstallHash(input[q]).files = input[q].files /\ InstallHash(input[q]).install = input[q].install
      BY DEF InstallHash
    <3> QED BY <2>2, <3>1, <3>2
  <2> QED BY <2>1, <2>2 DEF StatusMeansDone, SkipsOnlyAfterSuccess
<1> QED BY <1>1, InitInv, AllStep, PTL DEF ConfigureSpec

\* persistStatus writes the whole status back, the part it never looked at
\* included; the version it read keeps that from undoing the controller's.
THEOREM ControllerStatusIsKept == ConfigureSpec => ControllerStatusKept
<1>1. AllInv /\ [ConfigureNext]_configureVars => [(\E q \in Configures : conf'[q].pc # conf[q].pc) => rest' = rest]_configureVars
  <2> SUFFICES ASSUME AllInv, ConfigureNext, NEW q \in Configures, conf'[q].pc # conf[q].pc PROVE rest' = rest
    OBVIOUS
  <2>1. ASSUME NEW o \in Configures, Update(o) PROVE rest' = rest
    BY <2>1, UpdateStep
  <2>2. ASSUME NEW o \in Configures, LoadConfigure(o) \/ Step(o) \/ LateInstall(o) \/ Abandon(o) PROVE rest' = rest
    BY <2>1, <2>2 DEF LoadConfigure, Step, Begin, StartInstall, InstallEnds, InstallAborts, WriteLog, GetFresh,
                      WriteFile, LateInstall, Abandon
  <2>3. CASE SetPolicy
    BY <2>3 DEF SetPolicy
  <2>4. CASE Reconciled
    <3>1. conf \in [Configures -> Conf] /\ conf' = Stale(conf)
      BY <2>4 DEF AllInv, ConfigureInv, ConfigureTypeOK, Reconciled
    <3> QED BY <3>1, StaleLaw
  <2> QED BY <2>2, <2>3, <2>4 DEF ConfigureNext
<1> QED BY <1>1, InitInv, AllStep, PTL DEF ConfigureSpec, ControllerStatusKept
\* Only the write of its status makes a request stored.
LEMMA StoredByUpdate ==
  ASSUME AllInv, ConfigureNext, NEW q \in Configures, conf[q].pc # "done", conf'[q].stored
  PROVE  /\ conf[q].pc = "update" /\ disk' = disk
         /\ conf' = Stale([conf EXCEPT ![q] = [Finish(q, Result(q)) EXCEPT !.stored = TRUE]])
<1>1. /\ conf[q] \in Conf /\ conf \in [Configures -> Conf] /\ conf[q].stored = FALSE
  BY DEF AllInv, ConfigureInv, ConfigureTypeOK, Sane, Conf
<1>2. \A r \in Results : Finish(q, r).stored = FALSE
  BY <1>1, FinishLaw
<1>3. "nonzero" \in Results /\ "error" \in Results /\ "refused" \in Results /\ Result(q) \in Results
  BY DEF Results, Outcomes, Result
<1>4. ASSUME NEW o \in Configures, o # q, LoadConfigure(o) \/ LateInstall(o) \/ Abandon(o) PROVE FALSE
  <2>1. CASE LoadConfigure(o)
    <3>1. conf'[q].stored = conf[q].stored
      BY <1>1, <1>4, <2>1 DEF LoadConfigure, Conf
    <3> QED BY <1>1, <3>1
  <2>2. CASE LateInstall(o) \/ Abandon(o)
    <3>1. conf'[q] = conf[q]
      BY <1>1, <1>4, <2>2 DEF LateInstall, Abandon
    <3> QED BY <1>1, <3>1
  <2> QED BY <1>4, <2>1, <2>2
<1>5. ASSUME NEW o \in Configures, o # q, Step(o) PROVE FALSE
  <2>1. CASE Update(o)
    <3>1. CASE conf' = Stale([conf EXCEPT ![o] = [Finish(o, Result(o)) EXCEPT !.stored = TRUE]])
      <4>1. PICK x : x = [Finish(o, Result(o)) EXCEPT !.stored = TRUE]
        OBVIOUS
      <4>2. conf' = [c \in Configures |-> [[conf EXCEPT ![o] = x][c] EXCEPT !.copy = FALSE]]
        BY <3>1, <4>1 DEF Stale
      <4>3. conf'[q] = [conf[q] EXCEPT !.copy = FALSE]
        BY <1>1, <1>5, <4>2
      <4> QED BY <1>1, <4>3 DEF Conf
    <3>2. CASE conf' # Stale([conf EXCEPT ![o] = [Finish(o, Result(o)) EXCEPT !.stored = TRUE]])
      <4>1. conf'[q] = conf[q]
        BY <1>1, <1>5, <2>1, <3>2 DEF Update
      <4> QED BY <1>1, <4>1
    <3> QED BY <3>1, <3>2
  <2>2. CASE ~Update(o)
    <3>1. conf'[q] = conf[q]
      BY <1>1, <1>5, <2>2 DEF Step, Begin, StartInstall, InstallEnds, InstallAborts, WriteLog, GetFresh, WriteFile
    <3> QED BY <1>1, <3>1
  <2> QED BY <2>1, <2>2
<1>6. ASSUME Reconciled \/ SetPolicy PROVE FALSE
  <2>1. CASE Reconciled
    BY <1>1, <2>1, StaleLaw DEF Reconciled
  <2>2. CASE SetPolicy
    BY <1>1, <2>2 DEF SetPolicy
  <2> QED BY <1>6, <2>1, <2>2
<1>7. ASSUME LoadConfigure(q) PROVE FALSE
  <2>1. conf'[q].stored = conf[q].stored
    BY <1>1, <1>7 DEF LoadConfigure, Conf
  <2> QED BY <1>1, <2>1
<1>8. ASSUME LateInstall(q) \/ Abandon(q) PROVE FALSE
  BY <1>1, <1>2, <1>3, <1>8 DEF LateInstall, Abandon
<1>9. ASSUME Begin(q) PROVE FALSE
  <2>1. PICK readable \in BOOLEAN :
          conf' = [conf EXCEPT ![q] =
            IF Denied(readable) THEN Finish(q, "refused")
            ELSE [conf[q] EXCEPT !.cap = Cap(readable), !.skipped = conf[q].seen = InstallHash(input[q]),
                                 !.todo = IF conf[q].seen = InstallHash(input[q]) THEN {}
                                          ELSE {p \in Paths : input[q].files[p] # Absent},
                                 !.pc = IF conf[q].seen = InstallHash(input[q]) THEN "log" ELSE "writing"]]
    BY <1>9 DEF Begin
  <2>2. CASE Denied(readable)
    <3>1. conf'[q] = Finish(q, "refused")
      BY <1>1, <2>1, <2>2
    <3> QED BY <1>2, <1>3, <3>1
  <2>3. CASE ~Denied(readable)
    <3>1. conf'[q].stored = conf[q].stored
      BY <1>1, <2>1, <2>3 DEF Conf
    <3> QED BY <1>1, <3>1
  <2> QED BY <2>2, <2>3
<1>10. ASSUME StartInstall(q) \/ InstallAborts(q) \/ WriteLog(q) \/ GetFresh(q) PROVE FALSE
  BY <1>1, <1>2, <1>3, <1>10 DEF StartInstall, InstallAborts, WriteLog, GetFresh, Conf
<1>11. ASSUME InstallEnds(q) PROVE FALSE
  BY <1>1, <1>2, <1>3, <1>11 DEF InstallEnds, Conf
<1>12. ASSUME NEW p \in Paths, WriteFile(q, p) PROVE FALSE
  BY <1>1, <1>2, <1>3, <1>12 DEF WriteFile, Conf
<1>13. Update(q)
  BY <1>4, <1>5, <1>6, <1>7, <1>8, <1>9, <1>10, <1>11, <1>12 DEF ConfigureNext, Step
<1>14. conf[q].pc = "update" /\ disk' = disk
  BY <1>13 DEF Update
<1>15. ASSUME conf' # Stale([conf EXCEPT ![q] = [Finish(q, Result(q)) EXCEPT !.stored = TRUE]]) PROVE FALSE
  <2>1. CASE conf' = [conf EXCEPT ![q] = Finish(q, Result(q))]
    BY <1>1, <1>2, <1>3, <2>1
  <2>2. CASE conf' = [conf EXCEPT ![q].pc = "get", ![q].tries = Remaining(@)]
    BY <1>1, <2>2 DEF Conf
  <2> QED BY <1>13, <1>15, <2>1, <2>2 DEF Update
<1> QED BY <1>14, <1>15

\* A configure that is recorded while none overlapped another, and none failed,
\* leaves in the sandbox the files it asked for and the install it asked for,
\* also when it was skipped.
THEOREM QuietConfigureAlwaysHolds == ConfigureSpec => QuietConfigureHolds
<1>1. AllInv /\ [ConfigureNext]_configureVars =>
        [\A q \in Configures :
           /\ conf[q].pc # "done" /\ conf'[q].stored
           /\ \A o \in Configures : conf[o].pc # "new" =>
                conf'[o].alone /\ (conf'[o].stored \/ conf'[o].result = "refused")
           => /\ \A p \in Paths : input[q].files[p] # Absent => disk'.files[p] = input[q].files[p]
              /\ input[q].install # Absent => disk'.install = input[q].install]_configureVars
  <2> SUFFICES ASSUME AllInv, ConfigureNext, NEW q \in Configures, conf[q].pc # "done", conf'[q].stored,
                      \A o \in Configures : conf[o].pc # "new" =>
                        conf'[o].alone /\ (conf'[o].stored \/ conf'[o].result = "refused")
               PROVE  /\ \A p \in Paths : input[q].files[p] # Absent => disk'.files[p] = input[q].files[p]
                      /\ input[q].install # Absent => disk'.install = input[q].install
    OBVIOUS
  <2>1. /\ conf[q].pc = "update" /\ disk' = disk
        /\ conf' = Stale([conf EXCEPT ![q] = [Finish(q, Result(q)) EXCEPT !.stored = TRUE]])
    BY StoredByUpdate
  <2>2. conf \in [Configures -> Conf] /\ conf[q] \in Conf /\ Result(q) \in Results
    BY DEF AllInv, ConfigureInv, ConfigureTypeOK, Result, Results, Outcomes
  <2>3. PICK f : f = Finish(q, Result(q))
    OBVIOUS
  <2>4. f \in Conf /\ f.alone = conf[q].alone
    BY <2>2, <2>3, FinishLaw
  <2>5. PICK x \in Conf : x = [f EXCEPT !.stored = TRUE]
    BY <2>4 DEF Conf
  <2>6. x.alone = conf[q].alone
    BY <2>4, <2>5 DEF Conf
  <2>7. PICK g \in [Configures -> Conf] : g = [conf EXCEPT ![q] = x]
    BY <2>2
  <2>8. conf' = Stale(g)
    BY <2>1, <2>3, <2>5, <2>7
  <2>9. \A o \in Configures : conf'[o].alone = g[o].alone /\ conf'[o].stored = g[o].stored
                              /\ conf'[o].result = g[o].result
    BY <2>8, StaleLaw
  <2>10. Calm
    <3> SUFFICES ASSUME NEW o \in Configures, conf[o].pc # "new"
                 PROVE  conf[o].alone /\ (Active(o) \/ conf[o].stored \/ conf[o].result = "refused")
      BY DEF Calm
    <3>1. CASE o = q
      BY <2>1, <2>2, <2>6, <2>7, <2>9, <3>1 DEF Active
    <3>2. CASE o # q
      BY <2>2, <2>7, <2>9, <3>2
    <3> QED BY <3>1, <3>2
  <2>11. Has(InstallHash(input[q]))
    BY <2>1, <2>10 DEF AllInv, QuietInv, Doing
  <2> QED BY <2>1, <2>11 DEF Has, HasFiles, InstallHash
<1> QED BY <1>1, InitInv, AllStep, PTL DEF ConfigureSpec, QuietConfigureHolds

-----------------------------------------------------------------------------
(* TerminalSessions                                                        *)

-----------------------------------------------------------------------------
(* The inductive invariant.                                                *)

Up == {"open", "picked", "bridge"}

\* A session that is not bridged has no goroutine but the keepalive's, and the
\* size NewSession pushed waits in its queue.
Waiting(s) ==
  /\ ~s.reader /\ ~s.fwd /\ s.writing \subseteq {"beat"}
  /\ s.queue = DefaultWidth /\ s.sent = DefaultWidth /\ s.width = DefaultWidth

\* Over SPDY the lock lets one write at a time through, and the last size sent is
\* either in the queue or on the terminal; over HTTP it is on the terminal.
Bridged(s) ==
  /\ s.via = "spdy" => s.writing # {"fwd", "beat"}
  /\ s.via = "spdy" => IF s.queue = Unset THEN s.width = s.sent ELSE s.queue = s.sent
  /\ s.via # "spdy" => s.width = s.sent

Whole(s) == IF s.pc = "bridge" THEN Bridged(s) ELSE Waiting(s)

TerminalInv == SessionTypeOK /\ \A k \in Sessions : Whole(ses[k])
-----------------------------------------------------------------------------
(* Steps.                                                                  *)

\* A step that leaves a session with a record that is whole, and in the maps of
\* the Manager as long as its handler runs, keeps the invariant.
LEMMA SessionStep ==
  ASSUME TerminalInv, NEW k \in Sessions, NEW x \in Router, Whole(x),
         ses' = [ses EXCEPT ![k] = x],
         registered' = IF x.pc \in Up THEN registered \union {k} ELSE registered \ {k},
         bySandbox' = registered', pod' = pod, tmux' = tmux,
         pty' \in [Sessions -> RuntimePty],
         shell' \in [Shells -> {"none", "quiet", "chatty", "ended"}]
  PROVE  TerminalInv'
<1>1. SessionTypeOK /\ ses \in [Sessions -> Router]
  BY DEF TerminalInv, SessionTypeOK
<1>2. ses' \in [Sessions -> Router] /\ ses'[k] = x /\ \A j \in Sessions \ {k} : ses'[j] = ses[j]
  BY <1>1
<1>3. registered' = {j \in Sessions : ses'[j].pc \in {"open", "picked", "bridge"}}
  BY <1>1, <1>2 DEF SessionTypeOK, Up
<1>4. SessionTypeOK'
  BY <1>1, <1>2, <1>3 DEF SessionTypeOK
<1>5. ASSUME NEW j \in Sessions PROVE Whole(ses[j])'
  <2>1. Whole(ses'[j])
    BY <1>2 DEF TerminalInv
  <2> QED BY <2>1 DEF Whole, Waiting, Bridged
<1> QED BY <1>4, <1>5 DEF TerminalInv

\* So does one of a goroutine of a session, and of nothing else.
LEMMA GoroutineStep ==
  ASSUME TerminalInv, NEW k \in Sessions, NEW x \in Router, Whole(x),
         ses' = [ses EXCEPT ![k] = x], x.pc = ses[k].pc,
         UNCHANGED <<pod, tmux, registered, bySandbox, pty, shell>>
  PROVE  TerminalInv'
<1>1. SessionTypeOK
  BY DEF TerminalInv
<1>2. registered' = IF x.pc \in Up THEN registered \union {k} ELSE registered \ {k}
  BY <1>1 DEF SessionTypeOK, Up
<1>3. pty' \in [Sessions -> RuntimePty] /\ shell' \in [Shells -> {"none", "quiet", "chatty", "ended"}]
      /\ bySandbox' = registered'
  BY <1>1 DEF SessionTypeOK
<1> QED BY <1>2, <1>3, SessionStep

\* Nor can a step outside the sessions disturb it.
LEMMA PodStep ==
  ASSUME TerminalInv, UNCHANGED <<tmux, ses, registered, bySandbox>>, pod' \in BOOLEAN,
         pty' \in [Sessions -> RuntimePty],
         shell' \in [Shells -> {"none", "quiet", "chatty", "ended"}]
  PROVE  TerminalInv'
<1>1. SessionTypeOK'
  BY DEF TerminalInv, SessionTypeOK
<1>2. \A j \in Sessions : Whole(ses[j])'
  BY DEF TerminalInv, Whole, Waiting, Bridged
<1> QED BY <1>1, <1>2 DEF TerminalInv

LEMMA NewLaw ==
  /\ NewRouter \in Router /\ Closed \in Router /\ [Closed EXCEPT !.pc = "crashed"] \in Router
  /\ Whole(Closed) /\ Closed.pc = "done"
  /\ Whole([Closed EXCEPT !.pc = "crashed"]) /\ [Closed EXCEPT !.pc = "crashed"].pc = "crashed"
  /\ \A p \in {"new", "refused"}, n \in 0..MaxResizes :
       /\ [NewRouter EXCEPT !.pc = p, !.resizes = n] \in Router
       /\ Whole([NewRouter EXCEPT !.pc = p, !.resizes = n])
       /\ [NewRouter EXCEPT !.pc = p, !.resizes = n].pc = p
<1>1. NewRouter \in Router
  BY ResizesAssumption DEF NewRouter, Router, Widths
<1>2. PICK n \in Router : n = NewRouter
  BY <1>1
<1>3. Waiting(n)
  BY <1>2 DEF NewRouter, Waiting
<1>4. PICK d \in Router : d = [n EXCEPT !.pc = "done"]
  BY DEF Router
<1>5. d.pc = "done" /\ Waiting(d)
  BY <1>3, <1>4 DEF Router, Waiting
<1>6. [d EXCEPT !.pc = "crashed"] \in Router /\ [d EXCEPT !.pc = "crashed"].pc = "crashed"
      /\ Waiting([d EXCEPT !.pc = "crashed"])
  BY <1>5 DEF Router, Waiting
<1>7. ASSUME NEW p \in {"new", "refused"}, NEW m \in 0..MaxResizes
      PROVE  /\ [n EXCEPT !.pc = p, !.resizes = m] \in Router
             /\ Waiting([n EXCEPT !.pc = p, !.resizes = m])
             /\ [n EXCEPT !.pc = p, !.resizes = m].pc = p
  BY <1>3 DEF Router, Waiting
<1>8. Closed = d
  BY <1>2, <1>4 DEF Closed
<1> QED BY <1>1, <1>2, <1>5, <1>6, <1>7, <1>8 DEF Whole

LEMMA ShellLaw ==
  ASSUME SessionTypeOK, NEW k \in Sessions
  PROVE  /\ Attached(k) \in [Shells -> {"none", "quiet", "chatty", "ended"}]
         /\ Hungup(k) \in [Shells -> {"none", "quiet", "chatty", "ended"}]
BY DEF SessionTypeOK, Attached, Hungup, Live, ShellOf, Shells

\* The handler, from the connection to its return.
LEMMA HandlerStep ==
  ASSUME TerminalInv, NEW k \in Sessions, SessionHandler(k)
  PROVE  TerminalInv'
<1>1. /\ SessionTypeOK /\ ses[k] \in Router /\ Whole(ses[k]) /\ ses \in [Sessions -> Router]
      /\ pty \in [Sessions -> RuntimePty] /\ bySandbox = registered
      /\ shell \in [Shells -> {"none", "quiet", "chatty", "ended"}]
      /\ k \in registered <=> ses[k].pc \in Up
  BY DEF TerminalInv, SessionTypeOK, Up
<1>2. CASE Open(k)
  <2>1. /\ ses[k].pc = "new" /\ UNCHANGED <<pod, tmux, pty, shell>>
    BY <1>2 DEF Open
  <2>2. CASE /\ ses' = [ses EXCEPT ![k].pc = "open", ![k].conn = TRUE, ![k].beat = TRUE]
             /\ CreateSession(k)
    <3>1. PICK x \in Router : x = [ses[k] EXCEPT !.pc = "open", !.conn = TRUE, !.beat = TRUE]
      BY <1>1 DEF Router
    <3>2. x.pc = "open" /\ Whole(x)
      BY <1>1, <2>1, <3>1 DEF Router, Whole, Waiting
    <3>3. ses' = [ses EXCEPT ![k] = x]
      BY <2>2, <3>1
    <3> QED BY <1>1, <2>1, <2>2, <3>2, <3>3, SessionStep DEF CreateSession, Up
  <2>3. CASE /\ ses' = [ses EXCEPT ![k].pc = "refused"]
             /\ UNCHANGED <<registered, bySandbox>>
    <3>1. PICK x \in Router : x = [ses[k] EXCEPT !.pc = "refused"]
      BY <1>1 DEF Router
    <3>2. x.pc = "refused" /\ Whole(x)
      BY <1>1, <2>1, <3>1 DEF Router, Whole, Waiting
    <3>3. ses' = [ses EXCEPT ![k] = x]
      BY <2>3, <3>1
    <3>4. registered' = registered \ {k} /\ bySandbox' = registered'
      BY <1>1, <2>1, <2>3 DEF Up
    <3> QED BY <1>1, <2>1, <3>2, <3>3, <3>4, SessionStep DEF Up
  <2> QED BY <1>2, <2>2, <2>3 DEF Open
<1>3. CASE PickTransport(k)
  <2>1. /\ ses[k].pc = "open" /\ UNCHANGED <<pod, tmux, registered, bySandbox, pty, shell>>
    BY <1>3 DEF PickTransport
  <2>2. PICK v \in {"http", "spdy"} : ses' = [ses EXCEPT ![k].pc = "picked", ![k].via = v]
    BY <1>3 DEF PickTransport
  <2>3. PICK x \in Router : x = [ses[k] EXCEPT !.pc = "picked", !.via = v]
    BY <1>1 DEF Router
  <2>4. x.pc = "picked" /\ Whole(x)
    BY <1>1, <2>1, <2>3 DEF Router, Whole, Waiting
  <2>5. ses' = [ses EXCEPT ![k] = x]
    BY <2>2, <2>3
  <2>6. registered' = registered \union {k} /\ bySandbox' = registered'
    BY <1>1, <2>1 DEF Up
  <2> QED BY <1>1, <2>1, <2>4, <2>5, <2>6, SessionStep DEF Up
<1>4. CASE Unreachable(k) \/ PtyStreamEnds(k) \/ SessionReturn(k)
  <2>1. /\ ses' = [ses EXCEPT ![k] = Closed] /\ RemoveSession(k) /\ pod' = pod /\ tmux' = tmux
    BY <1>4 DEF Unreachable, PtyStreamEnds, SessionReturn
  <2>2. PICK x \in Router : x = Closed
    BY NewLaw
  <2>3. Whole(x) /\ x.pc = "done"
    BY <2>2, NewLaw
  <2>4. pty' \in [Sessions -> RuntimePty]
    <3>1. CASE pty' = [pty EXCEPT ![k].client = FALSE]
      BY <1>1, <3>1 DEF RuntimePty
    <3>2. CASE pty' = pty
      BY <1>1, <3>2
    <3> QED BY <1>4, <3>1, <3>2 DEF Unreachable, PtyStreamEnds, SessionReturn
  <2>5. shell' \in [Shells -> {"none", "quiet", "chatty", "ended"}]
    BY <1>1, <1>4, ShellLaw DEF Unreachable, PtyStreamEnds, SessionReturn
  <2>6. registered' = registered \ {k} /\ bySandbox' = registered'
    BY <1>1, <2>1 DEF RemoveSession
  <2> QED BY <2>1, <2>2, <2>3, <2>4, <2>5, <2>6, SessionStep DEF Up
<1>5. CASE Connect(k)
  <2>1. /\ ses[k].pc = "picked" /\ ses[k].via = "spdy" /\ shell' = Attached(k)
        /\ ses' = [ses EXCEPT ![k].pc = "bridge", ![k].reader = TRUE, ![k].fwd = TRUE]
        /\ pty' = [pty EXCEPT ![k].client = TRUE]
        /\ UNCHANGED <<pod, tmux, registered, bySandbox>>
    BY <1>5 DEF Connect
  <2>2. PICK x \in Router : x = [ses[k] EXCEPT !.pc = "bridge", !.reader = TRUE, !.fwd = TRUE]
    BY <1>1 DEF Router
  <2>3. /\ x.pc = "bridge" /\ x.writing = ses[k].writing /\ x.queue = ses[k].queue
        /\ x.sent = ses[k].sent /\ x.width = ses[k].width /\ x.via = "spdy"
    BY <1>1, <2>1, <2>2 DEF Router
  <2>4. Waiting(ses[k])
    BY <1>1, <2>1 DEF Whole
  <2>5. Whole(x)
    BY <2>3, <2>4 DEF Whole, Waiting, Bridged
  <2>6. ses' = [ses EXCEPT ![k] = x]
    BY <2>1, <2>2
  <2>7. pty' \in [Sessions -> RuntimePty] /\ shell' \in [Shells -> {"none", "quiet", "chatty", "ended"}]
    BY <1>1, <2>1, ShellLaw DEF RuntimePty
  <2>8. registered' = registered \union {k} /\ bySandbox' = registered'
    BY <1>1, <2>1 DEF Up
  <2> QED BY <2>1, <2>3, <2>5, <2>6, <2>7, <2>8, SessionStep DEF Up
<1>6. CASE Dial(k)
  <2>1. /\ ses[k].pc = "picked" /\ ses[k].via = "http" /\ shell' = Attached(k)
        /\ ses' = [ses EXCEPT ![k].pc = "bridge", ![k].reader = TRUE, ![k].fwd = TRUE,
                              ![k].width = DefaultWidth]
        /\ pty' = [pty EXCEPT ![k] = [pc |-> "bridging", reader |-> TRUE, fwd |-> TRUE,
                                      ctx |-> TRUE, client |-> TRUE]]
        /\ UNCHANGED <<pod, tmux, registered, bySandbox>>
    BY <1>6 DEF Dial
  <2>2. PICK x \in Router : x = [ses[k] EXCEPT !.pc = "bridge", !.reader = TRUE, !.fwd = TRUE,
                                               !.width = DefaultWidth]
    BY <1>1 DEF Router, Widths
  <2>3. x.pc = "bridge" /\ x.sent = ses[k].sent /\ x.width = DefaultWidth /\ x.via = "http"
    BY <1>1, <2>1, <2>2 DEF Router
  <2>4. Waiting(ses[k])
    BY <1>1, <2>1 DEF Whole
  <2>5. Whole(x)
    BY <2>3, <2>4 DEF Whole, Waiting, Bridged
  <2>6. ses' = [ses EXCEPT ![k] = x]
    BY <2>1, <2>2
  <2>7. pty' \in [Sessions -> RuntimePty] /\ shell' \in [Shells -> {"none", "quiet", "chatty", "ended"}]
    BY <1>1, <2>1, ShellLaw DEF RuntimePty
  <2>8. registered' = registered \union {k} /\ bySandbox' = registered'
    BY <1>1, <2>1 DEF Up
  <2> QED BY <2>1, <2>3, <2>5, <2>6, <2>7, <2>8, SessionStep DEF Up
<1> QED BY <1>2, <1>3, <1>4, <1>5, <1>6 DEF SessionHandler
\* The browser and the goroutine that reads it: what it sent last is queued, or
\* passed on.
LEMMA ReaderStep ==
  ASSUME TerminalInv, NEW k \in Sessions,
         Leave(k) \/ ReaderEnds(k) \/ TakeSize(k) \/ \E d \in Dims : Resize(k, d)
  PROVE  TerminalInv'
<1>1. /\ SessionTypeOK /\ ses[k] \in Router /\ Whole(ses[k]) /\ ses \in [Sessions -> Router]
      /\ UNCHANGED <<pod, tmux, registered, bySandbox, pty, shell>>
  BY DEF TerminalInv, SessionTypeOK, Leave, ReaderEnds, TakeSize, Resize
<1>2. CASE Leave(k)
  <2>1. PICK p \in {"gone", "mute"} : ses' = [ses EXCEPT ![k].peer = p]
    BY <1>2 DEF Leave
  <2>2. PICK x \in Router : x = [ses[k] EXCEPT !.peer = p]
    BY <1>1 DEF Router
  <2>3. x.pc = ses[k].pc /\ Whole(x)
    BY <1>1, <2>2 DEF Router, Whole, Waiting, Bridged
  <2>4. ses' = [ses EXCEPT ![k] = x]
    BY <1>2, <2>1, <2>2 DEF Leave
  <2> QED BY <1>1, <2>3, <2>4, GoroutineStep
<1>3. CASE ReaderEnds(k)
  <2>1. PICK x \in Router : x = [ses[k] EXCEPT !.reader = FALSE]
    BY <1>1 DEF Router
  <2>2. x.pc = ses[k].pc /\ Whole(x)
    BY <1>1, <2>1 DEF Router, Whole, Waiting, Bridged
  <2>3. ses' = [ses EXCEPT ![k] = x]
    BY <1>1, <1>3, <2>1 DEF ReaderEnds
  <2> QED BY <1>1, <2>2, <2>3, GoroutineStep
<1>4. CASE TakeSize(k)
  <2>1. /\ ses[k].pc = "bridge" /\ ses[k].via = "spdy" /\ ses[k].queue # Unset
        /\ ses' = [ses EXCEPT ![k].width = ses[k].queue, ![k].queue = Unset]
    BY <1>4 DEF TakeSize
  <2>2. PICK x \in Router : x = [ses[k] EXCEPT !.width = ses[k].queue, !.queue = Unset]
    BY <1>1, <2>1 DEF Router
  <2>3. /\ x.pc = "bridge" /\ x.via = "spdy" /\ x.queue = Unset /\ x.width = ses[k].queue
        /\ x.sent = ses[k].sent /\ x.writing = ses[k].writing
    BY <1>1, <2>1, <2>2 DEF Router
  <2>4. Whole(x)
    BY <1>1, <2>1, <2>3 DEF Whole, Bridged
  <2>5. ses' = [ses EXCEPT ![k] = x]
    BY <2>1, <2>2
  <2> QED BY <1>1, <2>1, <2>3, <2>4, <2>5, GoroutineStep
<1>5. ASSUME NEW d \in Dims, Resize(k, d) PROVE TerminalInv'
  <2>1. PICK w \in Widths : w = Clamped(d)
    BY DEF Widths
  <2>2. w # Unset /\ ses[k].pc = "bridge" /\ ses[k].resizes < MaxResizes
    BY <1>1, <1>5, NoneAssumption DEF Resize, Whole, Waiting
  <2>3. PICK n \in 0..MaxResizes : n = ses[k].resizes + 1
    BY <1>1, <2>2, ResizesAssumption DEF Router
  <2>4. CASE ses[k].via = "spdy" /\ ses' = [ses EXCEPT ![k] = Push(k, Clamped(d))]
    <3>1. PICK x \in Router : x = [ses[k] EXCEPT !.sent = w, !.resizes = n, !.queue = w]
      BY <1>1 DEF Router
    <3>2. /\ x.pc = "bridge" /\ x.via = "spdy" /\ x.queue = w /\ x.sent = w
          /\ x.writing = ses[k].writing
      BY <1>1, <2>2, <2>4, <3>1 DEF Router
    <3>3. Whole(x)
      BY <1>1, <2>2, <2>4, <3>2 DEF Whole, Bridged
    <3>4. ses' = [ses EXCEPT ![k] = x]
      BY <2>1, <2>3, <2>4, <3>1 DEF Push
    <3> QED BY <1>1, <2>2, <3>2, <3>3, <3>4, GoroutineStep
  <2>5. CASE /\ ses[k].via = "http"
             /\ ses' = [ses EXCEPT ![k].sent = Clamped(d), ![k].width = Clamped(d),
                                   ![k].resizes = @ + 1]
    <3>1. PICK x \in Router : x = [ses[k] EXCEPT !.sent = w, !.width = w, !.resizes = n]
      BY <1>1 DEF Router
    <3>2. x.pc = "bridge" /\ x.via = "http" /\ x.width = w /\ x.sent = w
      BY <1>1, <2>2, <2>5, <3>1 DEF Router
    <3>3. Whole(x)
      BY <3>2 DEF Whole, Bridged
    <3>4. ses' = [ses EXCEPT ![k] = x]
      BY <1>1, <2>1, <2>3, <2>5, <3>1
    <3> QED BY <1>1, <2>2, <3>2, <3>3, <3>4, GoroutineStep
  <2>6. CASE ses' = [ses EXCEPT ![k].reader = FALSE]
    <3>1. PICK x \in Router : x = [ses[k] EXCEPT !.reader = FALSE]
      BY <1>1 DEF Router
    <3>2. x.pc = ses[k].pc /\ Whole(x)
      BY <1>1, <3>1 DEF Router, Whole, Waiting, Bridged
    <3>3. ses' = [ses EXCEPT ![k] = x]
      BY <2>6, <3>1
    <3> QED BY <1>1, <2>2, <3>2, <3>3, GoroutineStep
  <2> QED BY <1>5, <2>4, <2>5, <2>6 DEF Resize
<1> QED BY <1>2, <1>3, <1>4, <1>5

\* The goroutines that write to the browser: over SPDY one has to wait for the
\* other.
LEMMA WriterStep ==
  ASSUME TerminalInv, NEW k \in Sessions,
         Output(k) \/ Written(k) \/ Tick(k) \/ Beaten(k) \/ UpstreamEnds(k)
  PROVE  TerminalInv'
<1>1. /\ SessionTypeOK /\ ses[k] \in Router /\ Whole(ses[k]) /\ ses \in [Sessions -> Router]
      /\ UNCHANGED <<pod, tmux, registered, bySandbox, pty, shell>>
  BY DEF TerminalInv, SessionTypeOK, Output, Written, Tick, Beaten, UpstreamEnds
<1>2. PICK w \in SUBSET {"fwd", "beat"} : w = ses[k].writing
  BY <1>1 DEF Router
<1>3. ASSUME NEW v \in SUBSET {"fwd", "beat"}, NEW f \in BOOLEAN, NEW b \in BOOLEAN, NEW c \in BOOLEAN,
             ses' = [ses EXCEPT ![k].writing = v, ![k].fwd = f, ![k].beat = b, ![k].conn = c],
             ses[k].pc = "bridge" \/ (v \subseteq {"beat"} /\ ~f),
             ses[k].pc = "bridge" /\ ses[k].via = "spdy" => v # {"fwd", "beat"}
      PROVE  TerminalInv'
  <2>1. PICK x \in Router : x = [ses[k] EXCEPT !.writing = v, !.fwd = f, !.beat = b, !.conn = c]
    BY <1>1 DEF Router
  <2>2. /\ x.pc = ses[k].pc /\ x.via = ses[k].via /\ x.writing = v /\ x.fwd = f /\ x.reader = ses[k].reader
        /\ x.sent = ses[k].sent /\ x.queue = ses[k].queue /\ x.width = ses[k].width
    BY <1>1, <2>1 DEF Router
  <2>3. Whole(x)
    BY <1>1, <1>3, <2>2 DEF Whole, Waiting, Bridged
  <2>4. ses' = [ses EXCEPT ![k] = x]
    BY <1>1, <1>3, <2>1
  <2> QED BY <1>1, <2>2, <2>3, <2>4, GoroutineStep
<1>4. /\ ses[k].fwd \in BOOLEAN /\ ses[k].beat \in BOOLEAN /\ ses[k].conn \in BOOLEAN
      /\ ses[k].fwd \/ "fwd" \in w => ses[k].pc = "bridge"
      /\ ses[k].pc # "bridge" => w \subseteq {"beat"} /\ ~ses[k].fwd
      /\ ses[k].pc = "bridge" /\ ses[k].via = "spdy" => w # {"fwd", "beat"}
  BY <1>1, <1>2 DEF Router, Whole, Waiting, Bridged
<1>5. CASE Output(k)
  <2>1. ses[k].pc = "bridge" /\ ses' = [ses EXCEPT ![k].writing = w \union {"fwd"}]
    BY <1>2, <1>5 DEF Output
  <2>2. ses[k].via = "spdy" => w \union {"fwd"} # {"fwd", "beat"}
    BY <1>2, <1>5 DEF Output, WriteLock
  <2>3. ses' = [ses EXCEPT ![k].writing = w \union {"fwd"}, ![k].fwd = ses[k].fwd,
                           ![k].beat = ses[k].beat, ![k].conn = ses[k].conn]
    BY <1>1, <2>1 DEF Router
  <2> QED BY <1>3, <1>4, <2>1, <2>2, <2>3
<1>6. CASE Written(k)
  <2>1. PICK f \in BOOLEAN : ses' = [ses EXCEPT ![k].writing = w \ {"fwd"}, ![k].fwd = f,
                                     ![k].beat = ses[k].beat, ![k].conn = ses[k].conn]
    <3>1. CASE ses' = [ses EXCEPT ![k].writing = @ \ {"fwd"}]
      <4>1. ses' = [ses EXCEPT ![k].writing = w \ {"fwd"}, ![k].fwd = ses[k].fwd,
                               ![k].beat = ses[k].beat, ![k].conn = ses[k].conn]
        BY <1>1, <1>2, <3>1 DEF Router
      <4> QED BY <1>4, <4>1
    <3>2. CASE ses' = [ses EXCEPT ![k].writing = @ \ {"fwd"}, ![k].fwd = FALSE]
      <4>1. ses' = [ses EXCEPT ![k].writing = w \ {"fwd"}, ![k].fwd = FALSE,
                               ![k].beat = ses[k].beat, ![k].conn = ses[k].conn]
        BY <1>1, <1>2, <3>2 DEF Router
      <4> QED BY <1>4, <4>1
    <3> QED BY <1>6, <3>1, <3>2 DEF Written
  <2>2. ses[k].pc = "bridge" /\ w \ {"fwd"} # {"fwd", "beat"}
    BY <1>2, <1>4, <1>6 DEF Written
  <2> QED BY <1>3, <1>4, <2>1, <2>2
<1>7. CASE Tick(k)
  <2>1. ses' = [ses EXCEPT ![k].writing = w \union {"beat"}]
    BY <1>2, <1>7 DEF Tick
  <2>2. ses[k].via = "spdy" => w \union {"beat"} # {"fwd", "beat"}
    BY <1>2, <1>7 DEF Tick, BeatLock
  <2>3. ses' = [ses EXCEPT ![k].writing = w \union {"beat"}, ![k].fwd = ses[k].fwd,
                           ![k].beat = ses[k].beat, ![k].conn = ses[k].conn]
    BY <1>1, <2>1 DEF Router
  <2>4. ses[k].pc # "bridge" => w \union {"beat"} \subseteq {"beat"} /\ ~ses[k].fwd
    BY <1>4
  <2> QED BY <1>3, <1>4, <2>2, <2>3, <2>4
<1>8. CASE Beaten(k)
  <2>1. PICK b \in BOOLEAN, c \in BOOLEAN :
          ses' = [ses EXCEPT ![k].writing = w \ {"beat"}, ![k].fwd = ses[k].fwd,
                             ![k].beat = b, ![k].conn = c]
    <3>1. CASE ses' = [ses EXCEPT ![k].writing = @ \ {"beat"}]
      <4>1. ses' = [ses EXCEPT ![k].writing = w \ {"beat"}, ![k].fwd = ses[k].fwd,
                               ![k].beat = ses[k].beat, ![k].conn = ses[k].conn]
        BY <1>1, <1>2, <3>1 DEF Router
      <4> QED BY <1>4, <4>1
    <3>2. CASE ses' = [ses EXCEPT ![k].writing = @ \ {"beat"}, ![k].beat = FALSE, ![k].conn = FALSE]
      <4>1. ses' = [ses EXCEPT ![k].writing = w \ {"beat"}, ![k].fwd = ses[k].fwd,
                               ![k].beat = FALSE, ![k].conn = FALSE]
        BY <1>1, <1>2, <3>2 DEF Router
      <4> QED BY <1>4, <4>1
    <3> QED BY <1>8, <3>1, <3>2 DEF Beaten
  <2>2. w \ {"beat"} # {"fwd", "beat"} /\ w \ {"beat"} \in SUBSET {"fwd", "beat"}
        /\ (ses[k].pc # "bridge" => w \ {"beat"} \subseteq {"beat"} /\ ~ses[k].fwd)
    BY <1>4
  <2> QED BY <1>3, <1>4, <2>1, <2>2
<1>9. CASE UpstreamEnds(k)
  <2>1. ses' = [ses EXCEPT ![k].fwd = FALSE] /\ ses[k].pc = "bridge"
    BY <1>9 DEF UpstreamEnds
  <2>2. ses' = [ses EXCEPT ![k].writing = w, ![k].fwd = FALSE,
                           ![k].beat = ses[k].beat, ![k].conn = ses[k].conn]
    BY <1>1, <1>2, <2>1 DEF Router
  <2> QED BY <1>3, <1>4, <2>1, <2>2
<1> QED BY <1>5, <1>6, <1>7, <1>8, <1>9

\* A crash of the Router ends every session that was up.
LEMMA PanicStep ==
  ASSUME TerminalInv, NEW k \in Sessions, Panic(k)
  PROVE  TerminalInv'
<1>1. /\ SessionTypeOK /\ ses \in [Sessions -> Router] /\ UNCHANGED <<pod, tmux, pty, shell>>
      /\ registered' = {} /\ bySandbox' = {}
  BY DEF TerminalInv, SessionTypeOK, Panic
<1>2. PICK x \in Router : x = [Closed EXCEPT !.pc = "crashed"]
  BY NewLaw
<1>3. x.pc = "crashed" /\ Whole(x)
  BY <1>2, NewLaw
<1>4. ses' = [j \in Sessions |-> IF ses[j].pc \in {"open", "picked", "bridge"} THEN x ELSE ses[j]]
  BY <1>2 DEF Panic
<1>5. ses' \in [Sessions -> Router] /\ \A j \in Sessions : ses'[j].pc \notin {"open", "picked", "bridge"}
  BY <1>1, <1>3, <1>4
<1>6. SessionTypeOK'
  BY <1>1, <1>5 DEF SessionTypeOK
<1>7. ASSUME NEW j \in Sessions PROVE Whole(ses[j])'
  <2>1. Whole(ses'[j])
    BY <1>3, <1>4 DEF TerminalInv
  <2> QED BY <2>1 DEF Whole, Waiting, Bridged
<1> QED BY <1>6, <1>7 DEF TerminalInv

\* The runtime, the shells and the pod.
LEMMA RuntimeStep ==
  ASSUME TerminalInv,
         \/ \E k \in Sessions : InPod(k)
         \/ \E s \in Shells : Mood(s) \/ ShellExits(s)
         \/ PodGone
  PROVE  TerminalInv'
<1>1. /\ SessionTypeOK /\ pty \in [Sessions -> RuntimePty] /\ pod \in BOOLEAN
      /\ shell \in [Shells -> {"none", "quiet", "chatty", "ended"}]
  BY DEF TerminalInv, SessionTypeOK
<1>2. ASSUME NEW k \in Sessions, InPod(k) PROVE TerminalInv'
  <2>1. UNCHANGED <<pod, tmux, ses, registered, bySandbox>>
    BY <1>2 DEF InPod, PtyReadEnds, WaitEnds, PtyReaderEnds, PtyOver
  <2>2. pty' \in [Sessions -> RuntimePty]
    <3>1. CASE PtyReadEnds(k)
      BY <1>1, <3>1 DEF PtyReadEnds, RuntimePty
    <3>2. CASE WaitEnds(k)
      BY <1>1, <3>2 DEF WaitEnds, RuntimePty
    <3>3. CASE PtyReaderEnds(k)
      BY <1>1, <3>3 DEF PtyReaderEnds, RuntimePty
    <3>4. CASE PtyOver(k)
      BY <1>1, <3>4 DEF PtyOver, RuntimePty
    <3> QED BY <1>2, <3>1, <3>2, <3>3, <3>4 DEF InPod
  <2>3. shell' \in [Shells -> {"none", "quiet", "chatty", "ended"}]
    BY <1>1, <1>2, ShellLaw DEF InPod, PtyReadEnds, WaitEnds, PtyReaderEnds, PtyOver
  <2> QED BY <1>1, <2>1, <2>2, <2>3, PodStep
<1>3. ASSUME NEW s \in Shells, Mood(s) PROVE TerminalInv'
  BY <1>1, <1>3, PodStep DEF Mood
<1>4. ASSUME NEW s \in Shells, ShellExits(s) PROVE TerminalInv'
  <2>1. pty' \in [Sessions -> RuntimePty] /\ shell' \in [Shells -> {"none", "quiet", "chatty", "ended"}]
    BY <1>1, <1>4 DEF ShellExits, RuntimePty
  <2> QED BY <1>1, <1>4, <2>1, PodStep DEF ShellExits
<1>5. CASE PodGone
  <2>1. pty' \in [Sessions -> RuntimePty]
    BY <1>1, <1>5 DEF PodGone, RuntimePty, NewRuntime
  <2>2. shell' \in [Shells -> {"none", "quiet", "chatty", "ended"}]
    BY <1>1, <1>5 DEF PodGone
  <2> QED BY <1>5, <2>1, <2>2, PodStep DEF PodGone
<1> QED BY <1>2, <1>3, <1>4, <1>5

-----------------------------------------------------------------------------
(* The invariant.                                                          *)

LEMMA SessionStart == SessionInit => TerminalInv
<1> SUFFICES ASSUME SessionInit PROVE TerminalInv
  OBVIOUS
<1>1. ASSUME NEW k \in Sessions
      PROVE  ses[k] \in Router /\ ses[k].pc \in {"new", "refused"} /\ Whole(ses[k])
  <2>1. PICK p \in {"new", "refused"} : ses[k] \in Before(p)
    BY DEF SessionInit
  <2>2. PICK n \in 0..MaxResizes : ses[k] = [NewRouter EXCEPT !.pc = p, !.resizes = n]
    BY <2>1 DEF Before
  <2>3. PICK x : x = [NewRouter EXCEPT !.pc = p, !.resizes = n]
    OBVIOUS
  <2>4. x \in Router /\ x.pc = p /\ Whole(x)
    BY <2>3, NewLaw
  <2>5. ses[k] = x
    BY <2>2, <2>3
  <2> QED BY <2>4, <2>5
<1>2. ses \in [Sessions -> Router]
  <2>1. ses = [k \in Sessions |-> ses[k]]
    BY DEF SessionInit
  <2> QED BY <1>1, <2>1
<1>3. pty \in [Sessions -> RuntimePty]
  BY DEF SessionInit, RuntimePty, NewRuntime
<1>4. SessionTypeOK
  <2>1. registered = {k \in Sessions : ses[k].pc \in {"open", "picked", "bridge"}} /\ bySandbox = registered
    BY <1>1 DEF SessionInit
  <2>2. /\ pod \in BOOLEAN /\ tmux \in BOOLEAN
        /\ shell \in [Shells -> {"none", "quiet", "chatty", "ended"}]
    BY DEF SessionInit
  <2> QED BY <1>2, <1>3, <2>1, <2>2 DEF SessionTypeOK
<1> QED BY <1>1, <1>4 DEF TerminalInv

LEMMA TerminalStep == TerminalInv /\ [SessionNext]_sessionVars => TerminalInv'
<1> SUFFICES ASSUME TerminalInv, [SessionNext]_sessionVars PROVE TerminalInv'
  OBVIOUS
<1>1. CASE UNCHANGED sessionVars
  BY <1>1 DEF sessionVars, TerminalInv, SessionTypeOK, Whole, Waiting, Bridged
<1>2. ASSUME NEW k \in Sessions, SessionHandler(k) \/ Goroutines(k) PROVE TerminalInv'
  BY <1>2, HandlerStep, ReaderStep, WriterStep, PanicStep DEF Goroutines
<1> QED BY <1>1, <1>2, RuntimeStep DEF SessionNext

\* Over SPDY output and heartbeats never write to a browser's connection at the
\* same time, a terminal whose queue is empty has the size its browser sent last,
\* and the two maps of the Manager hold the sessions whose handler has not
\* returned (session.go, manager.go).
THEOREM TerminalIsAlwaysWhole == SessionSpec => []TerminalIsWhole
<1>1. TerminalInv => TerminalIsWhole
  <2> SUFFICES ASSUME TerminalInv PROVE TerminalIsWhole
    OBVIOUS
  <2>1. ASSUME NEW k \in Sessions, ses[k].via = "spdy"
        PROVE  Cardinality(ses[k].writing) <= 1
    <3>1. ses[k].writing \in SUBSET {"fwd", "beat"} /\ ses[k].writing # {"fwd", "beat"}
      <4>1. ses[k] \in Router /\ Whole(ses[k])
        BY DEF TerminalInv, SessionTypeOK
      <4>2. ses[k].writing \in SUBSET {"fwd", "beat"}
        BY <4>1 DEF Router
      <4> QED BY <2>1, <4>1, <4>2 DEF Whole, Waiting, Bridged
    <3>2. ses[k].writing = {} \/ \E w : ses[k].writing = {w}
      BY <3>1
    <3>3. Cardinality(ses[k].writing) = 0 \/ Cardinality(ses[k].writing) = 1
      BY <3>2, FS_EmptySet, FS_Singleton
    <3> QED BY <3>3
  <2>2. LastSizeWins
    BY DEF TerminalInv, LastSizeWins, Whole, Bridged
  <2> QED BY <2>1, <2>2 DEF TerminalInv, TerminalIsWhole, StreamWritesAlone
<1> QED BY <1>1, SessionStart, TerminalStep, PTL DEF SessionSpec
=============================================================================
