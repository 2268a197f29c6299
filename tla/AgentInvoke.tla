----------------------------- MODULE AgentInvoke -----------------------------
(* Commands run in a sandbox: POST /invoke (pkg/router/agent/invoke.go),   *)
(* with its slots, cancel functions and event stream, and POST /exec       *)
(* (pkg/router/exec_dispatch.go), either through SPDY or through the       *)
(* runtime in the pod (pkg/sandboxruntime).                                *)
EXTENDS Naturals, FiniteSets

CONSTANTS
  Replicas,   \* the Router's pods
  Invokes,    \* requests to /invoke
  Execs,      \* requests to /exec
  Caps,       \* values of maxConcurrentInvokes that are configured
  None,
  MaxFaults

ASSUME CallsAssumption ==
  /\ IsFiniteSet(Invokes) /\ IsFiniteSet(Execs) /\ Invokes \intersect Execs = {}
  /\ None \notin Replicas
ASSUME CapsAssumption == Caps \subseteq Nat \ {0}
ASSUME FaultsAssumption == MaxFaults \in Nat

VARIABLES
  opted,    \* the sandbox has a runtime token: use the runtime when it answers
  counts,   \* per replica: concurrencyTracker
  call,     \* per request: its handler in the Router
  proc,     \* per request: its process, and the runtime's handler of it
  faults

vars == <<opted, counts, call, proc, faults>>

Calls == Invokes \union Execs
Contexts == {"live", "deadline", "canceled"}
\* status: the exit status of a command; none: -1, it is not known
Codes == {"status", "none"}
Reasons == {None, "completed", "timeout", "canceled", "error"}

\* listed: in the handler's registry of invokes; client: still connected;
\* acked: a cancel of it was answered 204.
Call ==
  [pc : {"new", "loaded", "admitted", "started", "listed", "streaming", "ended", "done", "refused", "crashed"},
   at : Replicas \union {None}, limit : Caps \union {None},
   via : {None, "spdy", "http"}, ctx : Contexts, client : BOOLEAN,
   listed : BOOLEAN, acked : BOOLEAN, reason : Reasons, code : Codes]

\* orphaned: the command ended and left a child that holds its pipes;
\* gone: the container went away; reported: the handler wrote its last event.
Proc ==
  [st : {"none", "accepted", "running", "orphaned", "exited", "killed", "gone", "reported"},
   ctx : Contexts, listed : BOOLEAN, code : Codes, reason : Reasons]

NewCall == [pc |-> "new", at |-> None, limit |-> None, via |-> None, ctx |-> "live",
            client |-> TRUE, listed |-> FALSE, acked |-> FALSE, reason |-> None,
            code |-> "none"]
NewProc == [st |-> "none", ctx |-> "live", listed |-> FALSE, code |-> "none",
            reason |-> None]

\* Some requests may have been refused before, some faults have happened.
Init ==
  /\ opted \in BOOLEAN
  /\ counts = [r \in Replicas |-> 0]
  /\ call \in [Calls -> {NewCall, [NewCall EXCEPT !.pc = "refused"]}]
  /\ proc = [c \in Calls |-> NewProc]
  /\ faults \in 0..MaxFaults

Fault == faults < MaxFaults /\ faults' = faults + 1

\* The handler holds a slot of its replica.
Holding(c) ==
  c \in Invokes /\ call[c].pc \in {"admitted", "started", "listed", "streaming", "ended"}

-----------------------------------------------------------------------------
(* The Router's handlers.                                                  *)

\* handleInvoke reads the sandbox, and with it the cap that /configure stored
\* last: it applies that one, whatever is stored in the meantime.
Load(c, r) ==
  /\ c \in Invokes /\ call[c].pc = "new"
  /\ \E n \in Caps :
       call' = [call EXCEPT ![c].pc = "loaded", ![c].at = r, ![c].limit = n]
  /\ UNCHANGED <<opted, counts, proc, faults>>

\* concurrencyTracker.try
Admit(c) ==
  /\ call[c].pc = "loaded"
  /\ IF counts[call[c].at] >= call[c].limit
     THEN /\ call' = [call EXCEPT ![c].pc = "refused"]
          /\ UNCHANGED counts
     ELSE /\ call' = [call EXCEPT ![c].pc = "admitted"]
          /\ counts' = [counts EXCEPT ![call[c].at] = @ + 1]
  /\ UNCHANGED <<opted, proc, faults>>

\* concurrencyTracker.release
Released(r) == [counts EXCEPT ![r] = IF @ > 0 THEN @ - 1 ELSE 0]

RejectKeepsSlot(c) ==
  /\ call[c].pc = "admitted"
  /\ call' = [call EXCEPT ![c].pc = "refused"]
  /\ UNCHANGED <<opted, counts, proc, faults>>

\* The body is read with the slot held; too large a body, or a response that
\* cannot be streamed, ends the request.
Reject(c) ==
  /\ call[c].pc = "admitted"
  /\ call' = [call EXCEPT ![c].pc = "refused"]
  /\ counts' = Released(call[c].at)
  /\ UNCHANGED <<opted, proc, faults>>

\* The start event tells the client the id ...
Start(c) ==
  /\ call[c].pc = "admitted"
  /\ call' = [call EXCEPT ![c].pc = "started"]
  /\ UNCHANGED <<opted, counts, proc, faults>>

\* ... and only then is the invoke listed, under a context with its deadline.
Enlist(c) ==
  /\ call[c].pc = "started"
  /\ call' = [call EXCEPT ![c].pc = "listed", ![c].listed = TRUE,
                          ![c].ctx = IF call[c].client THEN "live" ELSE "canceled"]
  /\ UNCHANGED <<opted, counts, proc, faults>>

\* pickExecutor and agentHTTPExec: the runtime when there is a token, an
\* address and an answer to the probe; SPDY in every other case.
Chosen(c, via) ==
  IF opted /\ call[c].ctx = "live"
  THEN \/ via = "http" /\ UNCHANGED faults
       \/ via = "spdy" /\ Fault
  ELSE via = "spdy" /\ UNCHANGED faults

Dispatch(c) ==
  /\ call[c].pc = "listed"
  /\ \E via \in {"http", "spdy"} :
       /\ Chosen(c, via)
       /\ call' = [call EXCEPT ![c].pc = "streaming", ![c].via = via]
  /\ UNCHANGED <<opted, counts, proc>>

\* handleExecCommand: no slot, no deadline, no registry.
Exec(c, r) ==
  /\ c \in Execs /\ call[c].pc = "new"
  /\ \E via \in {"http", "spdy"} :
       /\ Chosen(c, via)
       /\ call' = [call EXCEPT ![c].pc = "streaming", ![c].at = r, ![c].via = via]
  /\ UNCHANGED <<opted, counts, proc>>

\* What the end of the context makes of an error.
ErrorReason(ctx) == CASE ctx = "deadline" -> "timeout"
                      [] ctx = "canceled" -> "canceled"
                      [] OTHER -> "error"

Ends(c, reason, code) ==
  call' = [call EXCEPT ![c].pc = IF c \in Invokes THEN "ended" ELSE "done",
                       ![c].reason = reason, ![c].code = code]

\* InvokeStream and parseSSE: the stream stops before the runtime's last event,
\* because the context, the container or the connection ended.
Interrupted(c) ==
  \/ (call[c].ctx # "live" \/ proc[c].st = "gone") /\ UNCHANGED faults
  \/ Fault

\* streamInvokeViaHTTP, and the second look handleInvoke takes at an "error".
InvokeHTTP(c) ==
  /\ c \in Invokes /\ call[c].pc = "streaming" /\ call[c].via = "http"
  /\ \/ /\ proc[c].st = "reported" /\ proc[c].reason # "error"
        /\ Ends(c, proc[c].reason, proc[c].code)
        /\ UNCHANGED faults
     \/ /\ proc[c].st = "reported" /\ proc[c].reason = "error"
        /\ Ends(c, ErrorReason(call[c].ctx), "none")
        /\ UNCHANGED faults
     \/ /\ Interrupted(c)
        /\ Ends(c, ErrorReason(call[c].ctx), "none")
  /\ UNCHANGED <<opted, counts, proc>>

\* The client of /exec waits 5 s for the header of the answer, and the runtime
\* sends it with the result.
ExecHTTP(c) ==
  /\ c \in Execs /\ call[c].pc = "streaming" /\ call[c].via = "http"
  /\ \/ /\ proc[c].st = "reported"
        /\ Ends(c, proc[c].reason, proc[c].code)
     \/ Ends(c, ErrorReason(call[c].ctx), "none")
  /\ UNCHANGED <<opted, counts, proc, faults>>

NoStatusZero(c) == "status"

\* extractExitCode: an error that carries no exit status; ExecCommand reports a
\* status whatever the error.
NoStatus(c) == IF c \in Invokes THEN "none" ELSE "status"

\* The exec stream of the API server ends with the command or, without its
\* status, with the container or the connection.
StreamSPDY(c) ==
  /\ call[c].pc = "streaming" /\ call[c].via = "spdy" /\ call[c].ctx = "live"
  /\ \/ /\ proc[c].st = "exited"
        /\ Ends(c, "completed", proc[c].code)
        /\ UNCHANGED faults
     \/ /\ proc[c].st = "gone"
        /\ Ends(c, "completed", NoStatus(c))
        /\ UNCHANGED faults
     \/ /\ Fault
        /\ Ends(c, "completed", NoStatus(c))
  /\ UNCHANGED <<opted, counts, proc>>

\* ExecCommandStreamWithStdin asks the context first; ExecCommand ignores it.
DropSPDY(c) ==
  /\ call[c].pc = "streaming" /\ call[c].via = "spdy" /\ call[c].ctx # "live"
  /\ IF c \in Invokes THEN Ends(c, ErrorReason(call[c].ctx), "none")
                      ELSE Ends(c, "completed", "status")
  /\ UNCHANGED <<opted, counts, proc, faults>>

\* The exit event and the audit event, then the deferred calls: the registry
\* forgets the invoke, its context is cancelled, the slot is released.
Return(c) ==
  /\ call[c].pc = "ended"
  /\ call' = [call EXCEPT ![c].pc = "done", ![c].listed = FALSE, ![c].ctx = "canceled"]
  /\ counts' = Released(call[c].at)
  /\ UNCHANGED <<opted, proc, faults>>

Ended(ctx, how) == IF ctx = "live" THEN how ELSE ctx

\* The invoke's timeout, from the template or shorter from the request.
Deadline(c) ==
  /\ c \in Invokes /\ call[c].pc \in {"listed", "streaming"} /\ call[c].ctx = "live"
  /\ call' = [call EXCEPT ![c].ctx = "deadline"]
  /\ UNCHANGED <<opted, counts, proc, faults>>

\* The client closes the connection; every context of the request ends.
Disconnect(c) ==
  /\ call[c].client /\ call[c].pc \notin {"new", "done", "refused", "crashed"}
  /\ call' = [call EXCEPT ![c].client = FALSE, ![c].ctx = Ended(@, "canceled")]
  /\ UNCHANGED <<opted, counts, proc, faults>>

\* handleInvokeCancel on the replica that runs the invoke, by an admin or its
\* owner: the registry of the handler.
CancelHere(c) ==
  /\ call[c].listed
  /\ call' = [call EXCEPT ![c].acked = TRUE, ![c].ctx = Ended(@, "canceled")]
  /\ UNCHANGED <<opted, counts, proc, faults>>

\* On any other replica, by an admin: the registry of the runtime.
CancelThere(c) ==
  /\ opted /\ proc[c].listed
  /\ call[c].pc \in {"listed", "streaming", "ended"}
  /\ call' = [call EXCEPT ![c].acked = TRUE]
  /\ proc' = [proc EXCEPT ![c].listed = FALSE, ![c].ctx = Ended(@, "canceled")]
  /\ UNCHANGED <<opted, counts, faults>>

\* A replica stops: its handlers and its counters are gone, its connections
\* close.
Crash(r) ==
  /\ Fault
  /\ counts' = [counts EXCEPT ![r] = 0]
  /\ call' = [c \in Calls |->
       IF call[c].at = r /\ call[c].pc \notin {"done", "refused"}
       THEN [call[c] EXCEPT !.pc = "crashed", !.listed = FALSE] ELSE call[c]]
  /\ UNCHANGED <<opted, proc>>

-----------------------------------------------------------------------------
(* The pod: the runtime's handlers (http), or the kubelet (spdy).          *)

\* handleInvoke of the runtime derives its context from the request, and lists
\* it; handleExec and the kubelet only start the command.  Whether the kubelet ends a
\* command whose SPDY stream was dropped is not known: here it does not.
Accept(c) ==
  /\ call[c].pc = "streaming" /\ proc[c].st = "none"
  /\ proc' = [proc EXCEPT ![c].st = "accepted",
                          ![c].listed = c \in Invokes /\ call[c].via = "http"]
  /\ UNCHANGED <<opted, counts, call, faults>>

\* The runtime's handler ends: it writes its last event and forgets the run.
Reported(c, reason, code) ==
  [proc EXCEPT ![c].st = "reported", ![c].listed = FALSE, ![c].reason = reason,
               ![c].code = code]

\* exec refuses to start a command whose context is over.
Spawn(c) ==
  /\ proc[c].st = "accepted"
  /\ \/ /\ proc[c].ctx = "live"
        /\ proc' = [proc EXCEPT ![c].st = "running"]
        /\ UNCHANGED faults
     \/ /\ proc[c].ctx # "live" /\ UNCHANGED faults
        /\ proc' = Reported(c, "error", "none")
     \/ /\ Fault /\ call[c].via = "http"
        /\ proc' = Reported(c, "error", "none")
  /\ UNCHANGED <<opted, counts, call>>

\* The command ends, and may leave a child behind that keeps the pipes open.
Exit(c) ==
  /\ proc[c].st = "running"
  /\ \E st \in {"exited", "orphaned"} :
       proc' = [proc EXCEPT ![c].st = st, ![c].code = "status"]
  /\ UNCHANGED <<opted, counts, call, faults>>

Drain(c) ==
  /\ proc[c].st = "orphaned"
  /\ proc' = [proc EXCEPT ![c].st = "exited"]
  /\ UNCHANGED <<opted, counts, call, faults>>

\* exec.CommandContext kills the command, and after WaitDelay closes the pipes.
Kill(c) ==
  /\ proc[c].ctx # "live" /\ proc[c].st \in {"running", "orphaned"}
  /\ proc' = [proc EXCEPT ![c].st = "killed"]
  /\ UNCHANGED <<opted, counts, call, faults>>

\* runStreamed and Execute ask the context before they look at the exit code.
RunReason(c) == IF proc[c].ctx = "live" THEN "completed" ELSE ErrorReason(proc[c].ctx)
RunCode(c) == IF proc[c].ctx = "live" THEN proc[c].code ELSE "none"

Report(c) ==
  /\ call[c].via = "http" /\ proc[c].st \in {"exited", "killed"}
  /\ proc' = Reported(c, RunReason(c), RunCode(c))
  /\ UNCHANGED <<opted, counts, call, faults>>

\* The runtime's own timeout, at most MaxExecTimeout.
RuntimeDeadline(c) ==
  /\ call[c].via = "http" /\ proc[c].st \in {"accepted", "running", "orphaned"}
  /\ proc[c].ctx = "live"
  /\ proc' = [proc EXCEPT ![c].ctx = "deadline"]
  /\ UNCHANGED <<opted, counts, call, faults>>

HangupDetached(c) ==
  /\ call[c].via = "http" /\ proc[c].st \in {"accepted", "running", "orphaned", "exited"}
  /\ proc[c].ctx = "live" /\ call[c].pc = "crashed"
  /\ proc' = [proc EXCEPT ![c].ctx = "canceled"]
  /\ UNCHANGED <<opted, counts, call, faults>>

\* The request's connection to the runtime is closed when its handler in the
\* Router returns or gives up, and when that Router is gone.
Hangup(c) ==
  /\ call[c].via = "http" /\ proc[c].st \in {"accepted", "running", "orphaned", "exited"}
  /\ proc[c].ctx = "live"
  /\ call[c].pc # "streaming" \/ call[c].ctx # "live"
  /\ proc' = [proc EXCEPT ![c].ctx = "canceled"]
  /\ UNCHANGED <<opted, counts, call, faults>>

\* The container restarts: the runtime, its registry and every process are gone.
ContainerGone ==
  /\ Fault
  /\ proc' = [c \in Calls |->
       IF proc[c].st \in {"none", "reported"} THEN proc[c]
       ELSE [proc[c] EXCEPT !.st = "gone", !.listed = FALSE]]
  /\ UNCHANGED <<opted, counts, call>>

-----------------------------------------------------------------------------
Handler(c) == \/ Admit(c) \/ Start(c) \/ Enlist(c) \/ Dispatch(c) \/ InvokeHTTP(c)
              \/ ExecHTTP(c) \/ StreamSPDY(c) \/ DropSPDY(c) \/ Return(c)

Runtime(c) == Spawn(c) \/ Kill(c) \/ Report(c) \/ Hangup(c)

Next ==
  \/ \E r \in Replicas : Crash(r) \/ \E c \in Calls : Load(c, r) \/ Exec(c, r)
  \/ \E c \in Invokes : CancelHere(c) \/ CancelThere(c)
  \/ \E c \in Calls :
       \/ Handler(c) \/ Runtime(c) \/ Reject(c) \/ Deadline(c) \/ Disconnect(c)
       \/ Accept(c) \/ Exit(c) \/ Drain(c) \/ RuntimeDeadline(c)
  \/ ContainerGone

Spec == Init /\ [][Next]_vars

\* Handlers run; the runtime's contexts and kills take effect.  Nothing makes a
\* command end, a client cancel or, here, a clock pass a deadline.
Fairness ==
  \A c \in Calls : WF_vars(Handler(c)) /\ WF_vars(Runtime(c)) /\ WF_vars(Accept(c))

FairSpec == Spec /\ Fairness

-----------------------------------------------------------------------------
\* Types; and a replica never runs more invokes at once than a cap that was
\* configured (concurrencyTracker.try).
TypeOK ==
  /\ opted \in BOOLEAN
  /\ counts \in [Replicas -> Nat]
  /\ \A r \in Replicas : counts[r] > 0 => \E n \in Caps : counts[r] <= n
  /\ call \in [Calls -> Call]
  /\ proc \in [Calls -> Proc]
  /\ faults \in 0..MaxFaults

\* A counter is the number of handlers that hold a slot: no way out of
\* handleInvoke keeps a slot, and none gives one back twice.
SlotsAreAccounted ==
  \A r \in Replicas :
    counts[r] = Cardinality({c \in Invokes : Holding(c) /\ call[c].at = r})

\* The tracker keeps to the cap and to the handlers (concurrencyTracker).
SlotsHold == TypeOK /\ SlotsAreAccounted

\* "completed" with an exit code is said only of a command that ended by
\* itself, never of one that was killed or abandoned (invoke.go, exit events).
CompletedMeansExited ==
  \A c \in Invokes :
    call[c].reason = "completed" /\ call[c].code # "none" =>
      proc[c].st \in {"exited", "reported", "gone"} /\ proc[c].code = call[c].code

\* A command run through the runtime does not outlive the request for long,
\* whichever of the client, the Router and the clock ends it.
NothingLeftRunning ==
  \A c \in Calls :
    call[c].via = "http" /\ call[c].pc \in {"done", "crashed"} ~>
      proc[c].st \notin {"accepted", "running", "orphaned"}

\* An invoke whose cancellation was acknowledged ends, even if no deadline ever
\* passes and the command never ends by itself.
CancelEndsInvoke ==
  \A c \in Invokes : call[c].acked ~> call[c].pc \in {"done", "crashed"}

\* A command ends with its request, and the request when it is cancelled.
CommandsEnd == NothingLeftRunning /\ CancelEndsInvoke

\* The cap is one of the sandbox, whichever replicas serve it ("Cap on parallel
\* invokes per sandbox", docs/docs/templates.md).
CapPerSandbox ==
  \E n \in Caps : Cardinality({c \in Invokes : Holding(c)}) <= n

\* The timeout of an exec bounds the command ("to bound long-running commands",
\* docs/docs/tutorials/python-sdk.md).
ExecEnds ==
  (\A c \in Calls : WF_vars(RuntimeDeadline(c))) =>
    \A c \in Execs : call[c].pc = "streaming" ~> call[c].pc # "streaming"
=============================================================================
