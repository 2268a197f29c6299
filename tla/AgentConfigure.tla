--------------------------- MODULE AgentConfigure ---------------------------
(* POST /configure (pkg/router/agent/configure.go): files are written in    *)
(* the sandbox, an install command runs, and the status remembers what was  *)
(* done, so that a request with the same inputs can be skipped.  Requests   *)
(* are served side by side, and the controller writes the same object.      *)
EXTENDS Naturals, FiniteSets

CONSTANTS
  Configures,  \* requests to /configure
  Inputs,      \* what they may ask: records [files, install, entry]
  Paths, Contents, Commands, Entries,
  Ceilings,    \* values of the policy's cap on invokes, and of the template's; 0: no cap
  Absent,
  MaxUpsets

\* What a client is told.
Outcomes == {"ok", "skipped", "nonzero", "error", "refused"}

ASSUME ConfigureAssumption ==
  /\ Inputs \subseteq [files : [Paths -> Contents \union {Absent}],
                       install : Commands \union {Absent},
                       entry : Entries \union {Absent}]
  /\ Ceilings \subseteq Nat /\ MaxUpsets \in Nat
  /\ Absent \notin Contents \union Commands \union Entries \union Configures \union Outcomes
  /\ Absent \notin [files : [Paths -> Contents \union {Absent}], install : Commands \union {Absent}]

VARIABLES
  input,    \* per request: what it asks
  conf,     \* per request: its handler
  disk,     \* the files in the sandbox, and the install that took effect last
  status,   \* status.agentConfigure
  rest,     \* the rest of the status, that the controller writes
  log,      \* the install log's ConfigMap: the request it is of
  spec,     \* the template's agent section and the governance policy
  upsets

configureVars == <<input, conf, disk, status, rest, log, spec, upsets>>

Torn == "torn"

\* What the hash stands for: the install command and the files, in any order.
HashInputs == [files : [Paths -> Contents \union {Absent}], install : Commands \union {Absent}]

Status == [hash : HashInputs, entry : Entries \union {Absent}, exit : 0..1,
           ref : BOOLEAN, cap : Ceilings \union {0}]

Results == Outcomes \union {Absent}

\* seen: the hash in the status it loaded (Absent: never configured); todo: files
\* not yet written; running: its install runs, seen by the handler or not;
\* copy: the object it read last is still the current one; old: the rest of the
\* status in it; tries: left;
\* stored: its status was written; alone: no other handler ran at the same time.
Conf ==
  [pc : {"new", "loaded", "writing", "install", "log", "get", "update", "done"},
   seen : HashInputs \union {Absent}, skipped : BOOLEAN, todo : SUBSET Paths,
   running : BOOLEAN, cap : Ceilings \union {0}, exit : 0..1, text : BOOLEAN,
   ref : BOOLEAN, copy : BOOLEAN, old : BOOLEAN, tries : 1..3, result : Results,
   stored : BOOLEAN, alone : BOOLEAN]

NewConf ==
  [pc |-> "new", seen |-> Absent, skipped |-> FALSE, todo |-> {}, running |-> FALSE,
   cap |-> 0, exit |-> 0, text |-> FALSE, ref |-> FALSE, copy |-> FALSE, old |-> FALSE,
   tries |-> 3, result |-> Absent, stored |-> FALSE,
   alone |-> TRUE]

\* agent: the template has an agent section; cap: what it says; allowed: the
\* policy admits the template and the image.
Spec0 == [agent : BOOLEAN, cap : Ceilings \union {0}, ceiling : Ceilings \union {0},
          allowed : BOOLEAN]

\* Some requests may have been refused before.
ConfigureInit ==
  /\ input \in [Configures -> Inputs]
  /\ conf \in [Configures -> {NewConf, [NewConf EXCEPT !.pc = "done", !.result = "refused",
                                                     !.alone = FALSE]}]
  /\ disk = [files |-> [p \in Paths |-> Absent], install |-> Absent]
  /\ status = Absent /\ rest \in BOOLEAN /\ log = Absent
  /\ spec \in {s \in Spec0 : s.allowed /\ (~s.agent => s.cap = 0)}
  /\ upsets = 0

ConfigureFault == upsets < MaxUpsets /\ upsets' = upsets + 1

\* The handler returns: its variables are gone.
Finish(q, result) ==
  [NewConf EXCEPT !.pc = "done", !.result = result, !.skipped = conf[q].skipped,
                  !.running = conf[q].running, !.exit = conf[q].exit, !.alone = conf[q].alone]

Active(q) == conf[q].pc \notin {"new", "done"}

-----------------------------------------------------------------------------
(* The handler.                                                            *)

\* loadSandbox: everything the handler decides from the object is from this
\* copy of it.
LoadConfigure(q) ==
  /\ conf[q].pc = "new"
  /\ conf' = [c \in Configures |->
       IF c = q THEN [conf[q] EXCEPT !.pc = "loaded",
                        !.seen = IF status = Absent THEN Absent ELSE status.hash,
                        !.alone = \A o \in Configures : ~Active(o)]
       ELSE IF Active(c) THEN [conf[c] EXCEPT !.alone = FALSE] ELSE conf[c]]
  /\ UNCHANGED <<input, disk, status, rest, log, spec, upsets>>

\* installHash, and one that forgets the files.
HashCommandOnly(r) == [files |-> [p \in Paths |-> Absent], install |-> r.install]
InstallHash(r) == [files |-> r.files, install |-> r.install]

\* ClampConcurrency: 0 is no cap, on either side.
ClampConcurrency(ceiling, n) ==
  IF ceiling > 0 /\ (n = 0 \/ n > ceiling) THEN ceiling ELSE n

\* resolveAgentCaps: without an agent section nothing is clamped; nor when the
\* policy cannot be read.
Cap(readable) ==
  IF ~spec.agent THEN 0
  ELSE IF readable THEN ClampConcurrency(spec.ceiling, spec.cap) ELSE spec.cap

\* checkConfigureGovernance lets the request pass when the policy cannot be
\* read.
Denied(readable) == readable /\ ~spec.allowed

\* The request is skipped when the hash it loaded is its own.
Begin(q) ==
  /\ conf[q].pc = "loaded"
  /\ \E readable \in BOOLEAN :
       /\ IF readable THEN UNCHANGED upsets ELSE ConfigureFault
       /\ LET skipped == conf[q].seen = InstallHash(input[q])
              files == {p \in Paths : input[q].files[p] # Absent} IN
          conf' = [conf EXCEPT ![q] =
            IF Denied(readable) THEN Finish(q, "refused")
            ELSE [@ EXCEPT !.cap = Cap(readable), !.skipped = skipped,
                           !.todo = IF skipped THEN {} ELSE files,
                           !.pc = IF skipped THEN "log" ELSE "writing"]]
  /\ UNCHANGED <<input, disk, status, rest, log, spec>>

\* writeFiles, one exec per file.  A write that fails may leave the file as it
\* was, complete, or torn, and ends the request.
WriteFile(q, p) ==
  /\ conf[q].pc = "writing" /\ p \in conf[q].todo
  /\ \/ /\ disk' = [disk EXCEPT !.files[p] = input[q].files[p]]
        /\ conf' = [conf EXCEPT ![q].todo = @ \ {p}]
        /\ UNCHANGED upsets
     \/ /\ ConfigureFault
        /\ \E left \in {disk.files[p], input[q].files[p], Torn} :
             disk' = [disk EXCEPT !.files[p] = left]
        /\ conf' = [conf EXCEPT ![q] = Finish(q, "error")]
  /\ UNCHANGED <<input, status, rest, log, spec>>

\* runInstall starts the command, if there is one.
StartInstall(q) ==
  /\ conf[q].pc = "writing" /\ conf[q].todo = {}
  /\ conf' = [conf EXCEPT ![q].pc = IF input[q].install = Absent THEN "log" ELSE "install",
                          ![q].running = input[q].install # Absent]
  /\ UNCHANGED <<input, disk, status, rest, log, spec, upsets>>

\* Only a zero exit is persisted.
Persisted(exit) == exit = 0

\* The command ends by itself, with an output or none.
InstallEnds(q) ==
  /\ conf[q].pc = "install"
  /\ \E exit \in 0..1, text \in BOOLEAN :
       /\ conf' = [conf EXCEPT ![q] =
            IF Persisted(exit)
            THEN [@ EXCEPT !.pc = "log", !.running = FALSE, !.exit = exit, !.text = text]
            ELSE [Finish(q, "nonzero") EXCEPT !.running = FALSE, !.exit = exit]]
       /\ disk' = [disk EXCEPT !.install = IF exit = 0 THEN input[q].install ELSE Torn]
  /\ UNCHANGED <<input, status, rest, log, spec, upsets>>

\* The soft timeout, or a lost stream: the handler gives up, the command may
\* still be running.
InstallAborts(q) ==
  /\ conf[q].pc = "install"
  /\ conf' = [conf EXCEPT ![q] = Finish(q, "error")]
  /\ UNCHANGED <<input, disk, status, rest, log, spec, upsets>>

LateInstall(q) ==
  /\ conf[q].pc = "done" /\ conf[q].running
  /\ conf' = [conf EXCEPT ![q].running = FALSE]
  /\ \E left \in {input[q].install, Torn} : disk' = [disk EXCEPT !.install = left]
  /\ UNCHANGED <<input, status, rest, log, spec, upsets>>

\* writeInstallLog: an install without output, or none, removes the log.  A
\* failure, of the API or of a race with another request, is only logged.
WriteLog(q) ==
  /\ conf[q].pc = "log"
  /\ \/ /\ log' = IF conf[q].text THEN q ELSE Absent
        /\ conf' = [conf EXCEPT ![q].pc = "get", ![q].ref = conf[q].text]
        /\ UNCHANGED upsets
     \/ /\ \/ ConfigureFault
           \/ ~conf[q].alone /\ UNCHANGED upsets
        /\ conf' = [conf EXCEPT ![q].pc = "get"]
        /\ UNCHANGED log
  /\ UNCHANGED <<input, disk, status, rest, spec>>

Result(q) == IF conf[q].skipped THEN "skipped" ELSE "ok"

\* persistStatus reads the object ...
GetFresh(q) ==
  /\ conf[q].pc = "get"
  /\ \/ /\ conf' = [conf EXCEPT ![q].pc = "update", ![q].copy = TRUE, ![q].old = rest]
        /\ UNCHANGED upsets
     \/ /\ ConfigureFault
        /\ conf' = [conf EXCEPT ![q] = Finish(q, Result(q))]
  /\ UNCHANGED <<input, disk, status, rest, log, spec>>

\* A write of the status makes every copy of the object out of date.
Stale(changed) == [c \in Configures |-> [changed[c] EXCEPT !.copy = FALSE]]

RemainingForever(n) == n
Remaining(n) == n - 1

NoConflict(q) == FALSE
Conflict(q) == ~conf[q].copy

NewStatusKeepsHash(q) ==
  [hash |-> IF status = Absent THEN InstallHash(input[q]) ELSE status.hash,
   entry |-> input[q].entry, exit |-> conf[q].exit, ref |-> conf[q].ref, cap |-> conf[q].cap]
NewStatus(q) ==
  [hash |-> InstallHash(input[q]), entry |-> input[q].entry,
   exit |-> conf[q].exit, ref |-> conf[q].ref, cap |-> conf[q].cap]

\* ... and writes all of it, if nobody has since; three times at most.  The client is
\* told of a success either way.
Update(q) ==
  /\ conf[q].pc = "update"
  /\ \/ /\ ~Conflict(q)
        /\ status' = NewStatus(q)
        /\ rest' = conf[q].old
        /\ conf' = Stale([conf EXCEPT ![q] = [Finish(q, Result(q)) EXCEPT !.stored = TRUE]])
        /\ UNCHANGED upsets
     \/ /\ Conflict(q)
        /\ conf' = IF Remaining(conf[q].tries) = 0
                   THEN [conf EXCEPT ![q] = Finish(q, Result(q))]
                   ELSE [conf EXCEPT ![q].pc = "get", ![q].tries = Remaining(@)]
        /\ UNCHANGED <<status, rest, upsets>>
     \/ /\ ConfigureFault
        /\ conf' = [conf EXCEPT ![q] = Finish(q, Result(q))]
        /\ UNCHANGED <<status, rest>>
  /\ UNCHANGED <<input, disk, log, spec>>

\* The client is gone, or the replica: every call after that fails.
Abandon(q) ==
  /\ ConfigureFault /\ Active(q)
  /\ conf' = [conf EXCEPT ![q] = Finish(q, "error")]
  /\ UNCHANGED <<input, disk, status, rest, log, spec>>

-----------------------------------------------------------------------------
\* The controller writes the status: a phase, an activity.
Reconciled ==
  /\ rest' = ~rest
  /\ conf' = Stale(conf)
  /\ UNCHANGED <<input, disk, status, log, spec, upsets>>

\* The operator tightens or relaxes the policy.
SetPolicy ==
  /\ \A q \in Configures : ~Active(q)
  /\ spec' = [spec EXCEPT !.allowed = ~@]
  /\ UNCHANGED <<input, conf, disk, status, rest, log, upsets>>

Step(q) ==
  \/ Begin(q) \/ StartInstall(q) \/ InstallEnds(q) \/ InstallAborts(q) \/ WriteLog(q)
  \/ GetFresh(q) \/ Update(q) \/ \E p \in Paths : WriteFile(q, p)

ConfigureNext ==
  \/ \E q \in Configures : LoadConfigure(q) \/ Step(q) \/ LateInstall(q) \/ Abandon(q)
  \/ Reconciled \/ SetPolicy

\* A handler goes on; its install is bounded by the soft timeout.
ConfigureSpec ==
  ConfigureInit /\ [][ConfigureNext]_configureVars
  /\ \A q \in Configures : WF_configureVars(Step(q))

-----------------------------------------------------------------------------
\* Types; and an install that failed is never what the status records.
ConfigureTypeOK ==
  /\ input \in [Configures -> Inputs]
  /\ conf \in [Configures -> Conf]
  /\ disk \in [files : [Paths -> Contents \union {Absent, Torn}], install : Commands \union {Absent, Torn}]
  /\ status # Absent => status \in Status /\ status.exit = 0
  /\ rest \in BOOLEAN /\ log \in Configures \union {Absent}
  /\ spec \in Spec0 /\ upsets \in 0..MaxUpsets

\* A request is skipped only when one with the same inputs was carried out to
\* its end (handleConfigure, "we only short-circuit on a successful prior
\* configure").
SkipsOnlyAfterSuccess ==
  \A q \in Configures :
    conf[q].skipped =>
      \E o \in Configures \ {q} :
        /\ input[o].files = input[q].files /\ input[o].install = input[q].install
        /\ conf[o].stored /\ conf[o].exit = 0 /\ ~conf[o].skipped

\* When no two requests overlapped and none failed, a request that is done has
\* left in the sandbox what it asked for, skipped or not (handleConfigure,
\* "re-running install is wasteful").
QuietConfigureHolds ==
  [][\A q \in Configures :
       /\ conf[q].pc # "done" /\ conf'[q].stored
       /\ \A o \in Configures : conf[o].pc # "new" =>
            conf'[o].alone /\ (conf'[o].stored \/ conf'[o].result = "refused")
       => /\ \A p \in Paths : input[q].files[p] # Absent => disk'.files[p] = input[q].files[p]
          /\ input[q].install # Absent => disk'.install = input[q].install]_configureVars

\* The status keeps a hash only with the cap resolved for it: with an agent
\* section and a readable policy, never more than the ceiling (resolveAgentCaps).
CapIsClamped ==
  status # Absent /\ upsets = 0 /\ spec.agent /\ spec.ceiling > 0 =>
    status.cap \in 1..spec.ceiling

\* The status records what was done, and is read as such (configure.go).
StatusMeansDone == ConfigureTypeOK /\ SkipsOnlyAfterSuccess /\ CapIsClamped

\* persistStatus writes the whole object back, and never undoes what the
\* controller wrote meanwhile.
ControllerStatusKept ==
  [][(\E q \in Configures : conf'[q].pc # conf[q].pc) => rest' = rest]_configureVars

\* A request ends however often the controller gets in between.
ConfigureEnds == \A q \in Configures : Active(q) ~> ~Active(q)

\* A request that answers success leaves in the sandbox what it asked for, when
\* no other ran meanwhile (configure.go, "Same files + same install command
\* means re-running install is wasteful").
SkipLeavesInputs ==
  [][\A q \in Configures :
       /\ conf[q].pc # "done" /\ conf'[q].pc = "done" /\ conf'[q].alone
       /\ conf'[q].result \in {"ok", "skipped"}
       => \A p \in Paths : input[q].files[p] # Absent => disk'.files[p] = input[q].files[p]]_configureVars

\* A failed install is recorded (configure.go, "Even when the install failed
\* (exitCode != 0) we record the attempt so the UI can surface it").
FailedInstallRecorded ==
  \A q \in Configures :
    conf[q].result = "nonzero" /\ conf[q].alone /\ (\A o \in Configures \ {q} : conf[o].pc = "new") =>
      status # Absent /\ status.exit # 0

\* The ceiling of the policy bounds the cap (engine.go, "applying the policy's
\* MaxConcurrentInvokesPerSandbox as a cluster ceiling").
CapUnderCeiling ==
  status # Absent /\ upsets = 0 /\ spec.ceiling > 0 => status.cap \in 1..spec.ceiling
=============================================================================
