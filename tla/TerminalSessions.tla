-------------------------- MODULE TerminalSessions --------------------------
(* Terminals of one sandbox: the Router's WebSocket handler                *)
(* (pkg/router/handlers.go, pkg/router/terminal), its two transports, SPDY *)
(* and the runtime's /pty (pkg/router/pty_dispatch.go), and the runtime's  *)
(* end of the second (pkg/sandboxruntime/pty.go).                          *)
EXTENDS Integers, FiniteSets

CONSTANTS
  Sessions,    \* connections of browsers
  Dims,        \* terminal widths a browser may send
  MaxResizes,  \* resize frames per browser
  Unset

ASSUME SessionsAssumption == IsFiniteSet(Sessions) /\ Unset \notin Sessions
ASSUME DimsAssumption == Dims \subseteq Int
ASSUME ResizesAssumption == MaxResizes \in Nat

VARIABLES
  pod,         \* the sandbox's pod runs
  tmux,        \* its image has tmux
  ses,         \* per session: its handler and goroutines in the Router
  registered,  \* Manager.sessions
  bySandbox,   \* Manager.bySandbox[sandbox]
  pty,         \* per session: runPTYSession in the runtime
  shell        \* per shell: what it does

sessionVars == <<pod, tmux, ses, registered, bySandbox, pty, shell>>

\* The shell a session attaches to: with tmux all share one, named for the
\* sandbox; without it each session has its own.
Shells == Sessions \union {Unset}
ShellOf(k) == IF tmux THEN Unset ELSE k

\* The widths the exec protocol can carry (uint16).
MaxDim == 2^16
ClampedLow(d) == IF d >= MaxDim THEN MaxDim - 1 ELSE d
Clamped(d) == IF d < 1 THEN 1 ELSE ClampedLow(d)
DefaultWidth == 120
Widths == {Clamped(d) : d \in Dims} \union {DefaultWidth}

ASSUME NoneAssumption == Unset \notin Widths

Router ==
  [pc : {"new", "refused", "open", "picked", "bridge", "done", "crashed"},
   via : {Unset, "spdy", "http"},
   peer : {"here", "gone", "mute"},  \* the browser's end of the connection
   conn : BOOLEAN,                   \* the Router has not closed its end
   reader : BOOLEAN,                 \* the goroutine that reads the browser
   fwd : BOOLEAN,                    \* the one that writes the shell's output
   beat : BOOLEAN,                   \* the keepalive's
   writing : SUBSET {"fwd", "beat"}, \* in WriteMessage on the browser's connection
   sent : Widths, queue : Widths \union {Unset}, width : Widths,
   resizes : 0..MaxResizes]

\* client: the process on the terminal, the tmux client or the shell itself.
RuntimePty ==
  [pc : {"none", "bridging", "over"}, reader : BOOLEAN, fwd : BOOLEAN,
   ctx : BOOLEAN, client : BOOLEAN]

\* NewSession pushes the default size.
NewRouter ==
  [pc |-> "new", via |-> Unset, peer |-> "here", conn |-> FALSE, reader |-> FALSE,
   fwd |-> FALSE, beat |-> FALSE, writing |-> {}, sent |-> DefaultWidth,
   queue |-> DefaultWidth, width |-> DefaultWidth, resizes |-> 0]
NewRuntime == [pc |-> "none", reader |-> FALSE, fwd |-> FALSE, ctx |-> FALSE, client |-> FALSE]

\* Some connections may have been refused before, some resizes be used up.
Before(p) == {[NewRouter EXCEPT !.pc = p, !.resizes = n] : n \in 0..MaxResizes}

SessionInit ==
  /\ pod = TRUE /\ tmux \in BOOLEAN
  /\ ses \in [Sessions -> Before("new") \union Before("refused")]
  /\ registered = {} /\ bySandbox = {}
  /\ pty = [k \in Sessions |-> NewRuntime]
  /\ shell = [s \in Shells |-> "none"]

Live(s) == shell[s] \in {"quiet", "chatty"}

-----------------------------------------------------------------------------
(* The Router's handler.                                                   *)

\* CreateSession
CreateSession(k) ==
  /\ registered' = registered \union {k}
  /\ bySandbox' = bySandbox \union {k}

\* handleTerminalWebSocket: the caller may use the sandbox and it is Running.
Open(k) ==
  /\ ses[k].pc = "new"
  /\ \/ /\ pod
        /\ ses' = [ses EXCEPT ![k].pc = "open", ![k].conn = TRUE, ![k].beat = TRUE]
        /\ CreateSession(k)
     \/ /\ ses' = [ses EXCEPT ![k].pc = "refused"]
        /\ UNCHANGED <<registered, bySandbox>>
  /\ UNCHANGED <<pod, tmux, pty, shell>>

\* pickTerminalTransport: the runtime when the sandbox has a token, its pod an
\* address and the runtime is healthy.
PickTransport(k) ==
  /\ ses[k].pc = "open"
  /\ \/ pod /\ ses' = [ses EXCEPT ![k].pc = "picked", ![k].via = "http"]
     \/ ses' = [ses EXCEPT ![k].pc = "picked", ![k].via = "spdy"]
  /\ UNCHANGED <<pod, tmux, registered, bySandbox, pty, shell>>

\* RemoveSession
RemoveSession(k) ==
  /\ registered' = registered \ {k}
  /\ bySandbox' = bySandbox \ {k}

\* What the handler leaves when the transport returns: nothing of the session.
Closed == [NewRouter EXCEPT !.pc = "done"]

\* The shell a client starts, or finds: tmux new-session -A.
Attached(k) ==
  [shell EXCEPT ![ShellOf(k)] = IF Live(ShellOf(k)) THEN @ ELSE "quiet"]

\* The transport cannot be opened: SPDY is refused, or DialPTY fails.
Unreachable(k) ==
  /\ ses[k].pc = "picked"
  /\ ses' = [ses EXCEPT ![k] = Closed]
  /\ RemoveSession(k)
  /\ UNCHANGED <<pod, tmux, pty, shell>>

\* Bridge.Connect
Connect(k) ==
  /\ ses[k].pc = "picked" /\ ses[k].via = "spdy" /\ pod
  /\ ses' = [ses EXCEPT ![k].pc = "bridge", ![k].reader = TRUE, ![k].fwd = TRUE]
  /\ pty' = [pty EXCEPT ![k].client = TRUE]
  /\ shell' = Attached(k)
  /\ UNCHANGED <<pod, tmux, registered, bySandbox>>

\* DialPTY: handlePTY upgrades, starts the shell with the size of the query and
\* its goroutines, while run starts the Router's.
Dial(k) ==
  /\ ses[k].pc = "picked" /\ ses[k].via = "http" /\ pod
  /\ ses' = [ses EXCEPT ![k].pc = "bridge", ![k].reader = TRUE, ![k].fwd = TRUE,
                        ![k].width = DefaultWidth]
  /\ pty' = [pty EXCEPT ![k] = [pc |-> "bridging", reader |-> TRUE, fwd |-> TRUE,
                                ctx |-> TRUE, client |-> TRUE]]
  /\ shell' = Attached(k)
  /\ UNCHANGED <<pod, tmux, registered, bySandbox>>

\* What is left of a shell when the process on its terminal goes: everything if
\* that was a tmux client.
Hungup(k) == IF tmux \/ ~Live(k) THEN shell ELSE [shell EXCEPT ![k] = "ended"]

\* The SPDY stream closes: the process ended, the network dropped it, or (as the
\* client library sees fit) the browser no longer reads or writes.
PtyStreamEnds(k) ==
  /\ ses[k].pc = "bridge" /\ ses[k].via = "spdy"
  /\ ses' = [ses EXCEPT ![k] = Closed]
  /\ RemoveSession(k)
  /\ pty' = [pty EXCEPT ![k].client = FALSE]
  /\ shell' = Hungup(k)
  /\ UNCHANGED <<pod, tmux>>

\* run: both goroutines have ended, so it closes upstream and returns.
SessionReturn(k) ==
  /\ ses[k].pc = "bridge" /\ ses[k].via = "http"
  /\ ~ses[k].reader /\ ~ses[k].fwd
  /\ ses' = [ses EXCEPT ![k] = Closed]
  /\ RemoveSession(k)
  /\ UNCHANGED <<pod, tmux, pty, shell>>

-----------------------------------------------------------------------------
(* The goroutines of a session in the Router.                              *)

\* The browser closes the connection, or is cut off without a word.
Leave(k) ==
  /\ ses[k].pc \in {"open", "picked", "bridge"} /\ ses[k].peer = "here"
  /\ \E p \in {"gone", "mute"} : ses' = [ses EXCEPT ![k].peer = p]
  /\ UNCHANGED <<pod, tmux, registered, bySandbox, pty, shell>>

\* The read fails: at once, or when no pong came for PongWait.
ReaderEnds(k) ==
  /\ ses[k].reader /\ (ses[k].peer # "here" \/ ~ses[k].conn)
  /\ ses' = [ses EXCEPT ![k].reader = FALSE]
  /\ UNCHANGED <<pod, tmux, registered, bySandbox, pty, shell>>

\* TerminalSizeQueue.Push: an old size nobody took makes room.
Push(k, w) == [ses[k] EXCEPT !.sent = w, !.resizes = @ + 1, !.queue = w]

\* TerminalSizeQueue.Next, called by the SPDY stream.
TakeSize(k) ==
  /\ ses[k].pc = "bridge" /\ ses[k].via = "spdy" /\ ses[k].queue # Unset
  /\ ses' = [ses EXCEPT ![k].width = ses[k].queue, ![k].queue = Unset]
  /\ UNCHANGED <<pod, tmux, registered, bySandbox, pty, shell>>

\* A resize frame: queued for SPDY, passed on to the runtime otherwise, which
\* sets it; a frame that cannot be passed on ends the reader.
Resize(k, d) ==
  /\ ses[k].reader /\ ses[k].peer = "here" /\ ses[k].conn
  /\ ses[k].resizes < MaxResizes
  /\ \/ ses[k].via = "spdy" /\ ses' = [ses EXCEPT ![k] = Push(k, Clamped(d))]
     \/ /\ ses[k].via = "http" /\ pty[k].reader
        /\ ses' = [ses EXCEPT ![k].sent = Clamped(d), ![k].width = Clamped(d),
                              ![k].resizes = @ + 1]
     \/ /\ ses[k].via = "http" /\ pty[k].pc = "over"
        /\ ses' = [ses EXCEPT ![k].reader = FALSE]
  /\ UNCHANGED <<pod, tmux, registered, bySandbox, pty, shell>>

\* Session.Write takes the session's lock; the goroutine of run takes its own.
UnlockedWrite(k) == "fwd" \notin ses[k].writing
WriteLock(k) == IF ses[k].via = "spdy" THEN ses[k].writing = {} ELSE "fwd" \notin ses[k].writing
BeatLock(k) == IF ses[k].via = "spdy" THEN ses[k].writing = {} ELSE "beat" \notin ses[k].writing

\* Output of the shell arrives and is being written to the browser.
Output(k) ==
  /\ ses[k].pc = "bridge" /\ ses[k].fwd /\ WriteLock(k)
  /\ pty[k].client /\ shell[ShellOf(k)] = "chatty"
  /\ ses[k].via = "http" => pty[k].fwd
  /\ ses' = [ses EXCEPT ![k].writing = @ \union {"fwd"}]
  /\ UNCHANGED <<pod, tmux, registered, bySandbox, pty, shell>>

\* The write ends; it may succeed for some time after the browser went. When it
\* fails the goroutine ends.
Written(k) ==
  /\ "fwd" \in ses[k].writing
  /\ \/ /\ ses[k].conn
        /\ ses' = [ses EXCEPT ![k].writing = @ \ {"fwd"}]
     \/ /\ ses[k].peer # "here" \/ ~ses[k].conn
        /\ ses' = [ses EXCEPT ![k].writing = @ \ {"fwd"}, ![k].fwd = FALSE]
  /\ UNCHANGED <<pod, tmux, registered, bySandbox, pty, shell>>

\* The ticker of StartKeepalive: writePingAndHeartbeat begins to write.
Tick(k) ==
  /\ ses[k].beat /\ BeatLock(k)
  /\ ses' = [ses EXCEPT ![k].writing = @ \union {"beat"}]
  /\ UNCHANGED <<pod, tmux, registered, bySandbox, pty, shell>>

\* It ends; when it fails the session is closed.
Beaten(k) ==
  /\ "beat" \in ses[k].writing
  /\ \/ /\ ses[k].peer # "gone"
        /\ ses' = [ses EXCEPT ![k].writing = @ \ {"beat"}]
     \/ /\ ses[k].peer # "here"
        /\ ses' = [ses EXCEPT ![k].writing = @ \ {"beat"}, ![k].beat = FALSE, ![k].conn = FALSE]
  /\ UNCHANGED <<pod, tmux, registered, bySandbox, pty, shell>>

\* Two writes at once: the WebSocket library panics when it notices, and a panic
\* of a goroutine stops the Router.
Panic(k) ==
  /\ ses[k].writing = {"fwd", "beat"}
  /\ ses' = [j \in Sessions |->
               IF ses[j].pc \in {"open", "picked", "bridge"}
               THEN [Closed EXCEPT !.pc = "crashed"] ELSE ses[j]]
  /\ registered' = {} /\ bySandbox' = {}
  /\ UNCHANGED <<pod, tmux, pty, shell>>

\* The runtime closed its end, or went away.
UpstreamEnds(k) ==
  /\ ses[k].pc = "bridge" /\ ses[k].via = "http"
  /\ ses[k].fwd /\ "fwd" \notin ses[k].writing /\ pty[k].pc = "over"
  /\ ses' = [ses EXCEPT ![k].fwd = FALSE]
  /\ UNCHANGED <<pod, tmux, registered, bySandbox, pty, shell>>

-----------------------------------------------------------------------------
(* The runtime in the pod, and the shells.                                 *)

RouterGone(k) == ses[k].pc \in {"done", "crashed"}

\* A command begins or ends to print.
Mood(s) ==
  /\ Live(s)
  /\ \E m \in {"quiet", "chatty"} \ {shell[s]} : shell' = [shell EXCEPT ![s] = m]
  /\ UNCHANGED <<pod, tmux, ses, registered, bySandbox, pty>>

\* The user leaves the shell: the clients attached to it end.
ShellExits(s) ==
  /\ Live(s)
  /\ shell' = [shell EXCEPT ![s] = "ended"]
  /\ pty' = [k \in Sessions |->
               IF ShellOf(k) = s THEN [pty[k] EXCEPT !.client = FALSE] ELSE pty[k]]
  /\ UNCHANGED <<pod, tmux, ses, registered, bySandbox>>

\* The goroutine that reads the terminal: the process ended, or a frame cannot
\* be written.
PtyReadEnds(k) ==
  /\ pty[k].fwd
  /\ ~pty[k].client \/ (RouterGone(k) /\ shell[ShellOf(k)] = "chatty")
  /\ pty' = [pty EXCEPT ![k].fwd = FALSE, ![k].ctx = FALSE]
  /\ UNCHANGED <<pod, tmux, ses, registered, bySandbox, shell>>

\* cmd.Wait returns.
WaitEnds(k) ==
  /\ pty[k].pc = "bridging" /\ pty[k].ctx /\ ~pty[k].client
  /\ pty' = [pty EXCEPT ![k].ctx = FALSE]
  /\ UNCHANGED <<pod, tmux, ses, registered, bySandbox, shell>>

\* The runtime's keepalive pings and the Router's goroutine answers.
Pinged(k) == pty[k].ctx /\ ses[k].fwd

NoReadDeadline(k) ==
  /\ pty[k].reader /\ RouterGone(k)
  /\ pty' = [pty EXCEPT ![k].reader = FALSE, ![k].ctx = FALSE]
  /\ UNCHANGED <<pod, tmux, ses, registered, bySandbox, shell>>

\* The goroutine that reads the Router's frames: the connection is closed, or no
\* pong came for ptyPongWait, for nobody pings once the context is cancelled,
\* nor answers a ping once the Router's goroutine has ended.
PtyReaderEnds(k) ==
  /\ pty[k].reader
  /\ RouterGone(k) \/ ~Pinged(k)
  /\ pty' = [pty EXCEPT ![k].reader = FALSE, ![k].ctx = FALSE]
  /\ UNCHANGED <<pod, tmux, ses, registered, bySandbox, shell>>

\* runPTYSession returns: its goroutines have ended; the terminal is closed, the
\* process on it killed and the connection closed.
PtyOver(k) ==
  /\ pty[k].pc = "bridging" /\ ~pty[k].reader /\ ~pty[k].fwd
  /\ pty' = [pty EXCEPT ![k].pc = "over", ![k].ctx = FALSE, ![k].client = FALSE]
  /\ shell' = Hungup(k)
  /\ UNCHANGED <<pod, tmux, ses, registered, bySandbox>>

\* The sandbox is stopped or deleted, or its pod is lost.
PodGone ==
  /\ pod /\ pod' = FALSE
  /\ shell' = [s \in Shells |-> IF Live(s) THEN "ended" ELSE shell[s]]
  /\ pty' = [k \in Sessions |->
               IF pty[k].pc = "bridging" THEN [NewRuntime EXCEPT !.pc = "over"]
               ELSE [pty[k] EXCEPT !.client = FALSE]]
  /\ UNCHANGED <<tmux, ses, registered, bySandbox>>

-----------------------------------------------------------------------------
SessionHandler(k) ==
  \/ Open(k) \/ PickTransport(k) \/ Unreachable(k) \/ Connect(k) \/ Dial(k)
  \/ PtyStreamEnds(k) \/ SessionReturn(k)
Goroutines(k) ==
  \/ Leave(k) \/ ReaderEnds(k) \/ TakeSize(k) \/ (\E d \in Dims : Resize(k, d))
  \/ Output(k) \/ Written(k) \/ Tick(k) \/ Beaten(k) \/ Panic(k) \/ UpstreamEnds(k)
InPod(k) == PtyReadEnds(k) \/ WaitEnds(k) \/ PtyReaderEnds(k) \/ PtyOver(k)

SessionNext ==
  \/ \E k \in Sessions : SessionHandler(k) \/ Goroutines(k) \/ InPod(k)
  \/ \E s \in Shells : Mood(s) \/ ShellExits(s)
  \/ PodGone

\* Goroutines run, deadlines pass, and a write to a peer that is gone fails in
\* the end. Nobody has to type, leave or print.
SessionFairness ==
  \A k \in Sessions :
    /\ WF_sessionVars(ReaderEnds(k)) /\ WF_sessionVars(Written(k)) /\ WF_sessionVars(UpstreamEnds(k))
    /\ WF_sessionVars(SessionReturn(k)) /\ WF_sessionVars(InPod(k))
    /\ WF_sessionVars(PtyStreamEnds(k) /\ ~pty[k].client)
    /\ SF_sessionVars(Output(k)) /\ SF_sessionVars(Tick(k))
    /\ SF_sessionVars(Beaten(k) /\ ~ses'[k].beat) /\ WF_sessionVars(Beaten(k))

SessionSpec == SessionInit /\ [][SessionNext]_sessionVars /\ SessionFairness

-----------------------------------------------------------------------------
(* Properties.                                                             *)

\* The variables have their types, and the two maps of Manager hold the sessions
\* whose handler has not returned (manager.go, RemoveSession).
SessionTypeOK ==
  /\ pod \in BOOLEAN /\ tmux \in BOOLEAN
  /\ ses \in [Sessions -> Router]
  /\ pty \in [Sessions -> RuntimePty]
  /\ shell \in [Shells -> {"none", "quiet", "chatty", "ended"}]
  /\ registered = {k \in Sessions : ses[k].pc \in {"open", "picked", "bridge"}}
  /\ bySandbox = registered

\* Over SPDY the output, the heartbeats and the pongs never write to the
\* browser's connection at the same time (session.go, Session.mu).
StreamWritesAlone ==
  \A k \in Sessions : ses[k].via = "spdy" => Cardinality(ses[k].writing) <= 1

\* The terminal has the size the browser sent last as soon as the queue is
\* empty, however resizes and the stream that takes them are interleaved
\* (session.go, TerminalSizeQueue).
LastSizeWins ==
  \A k \in Sessions :
    ses[k].pc = "bridge" /\ (ses[k].via = "spdy" => ses[k].queue = Unset) =>
      ses[k].width = ses[k].sent

\* What the browser sees is one terminal: whole frames, at its size (session.go).
TerminalIsWhole == SessionTypeOK /\ StreamWritesAlone /\ LastSizeWins

\* The end of the shell ends the session: in the Router over SPDY, and in the
\* runtime, whose end the Router's goroutine sees, otherwise.
ExitIsNoticed ==
  \A k \in Sessions :
    ses[k].pc = "bridge" /\ ~pty[k].client ~>
      ses[k].pc # "bridge" \/ (ses[k].via = "http" /\ pty[k].pc = "over" /\ ~ses[k].fwd)

\* A browser that went away does not keep the session of a shell that prints.
LeaverIsNoticed ==
  \A k \in Sessions :
    ses[k].pc = "bridge" /\ ses[k].via = "http" /\ ses[k].peer # "here"
      /\ pty[k].client /\ shell[ShellOf(k)] = "chatty" ~>
      ses[k].pc # "bridge" \/ shell[ShellOf(k)] # "chatty"

\* A session ends with either of its ends (bridge.go, pty_dispatch.go).
SessionsEnd == ExitIsNoticed /\ LeaverIsNoticed

\* "gorilla/websocket disallows concurrent writes per connection. Each side gets
\* its own write mutex." (pty_dispatch.go, run)
OneWriter == \A k \in Sessions : Cardinality(ses[k].writing) <= 1

\* Frames are ferried "until either side closes" (pty_dispatch.go, run).
EitherSideEnds ==
  \A k \in Sessions :
    ses[k].pc = "bridge" /\ ses[k].via = "http"
      /\ (ses[k].peer # "here" \/ pty[k].pc = "over") ~> ses[k].pc # "bridge"
=============================================================================
