--------------------------- MODULE RuntimeControl ---------------------------
(***************************************************************************)
(* src/cli/commands.py (start, stop, restart, replay, service), src/cli/   *)
(* runtime_controller.py and launchd.py: the processes that start and end  *)
(* the trading runtime.                                                    *)
(*                                                                         *)
(* The processes share three files and signals, and no lock: the pid file  *)
(* names the runtime, the request file holds the action an operator asked  *)
(* for, the status file says whether a runtime runs.  Every write to a     *)
(* file and every signal is a step of its own, a command may begin between *)
(* any two, and so may a process be killed.                                *)
(***************************************************************************)
EXTENDS Naturals

CONSTANTS
  Pids,        \* the process ids
  NoPid,       \* no process
  Recognised,  \* programs whose command line holds a token of the trader
  MaxCommands, \* bound of the model: commands, interrupts included
  MaxKills,    \* bound of the model: processes killed
  MaxOthers    \* bound of the model: unrelated processes that start

\* es-trade start and restart, and python -m src.cli start: each becomes the
\* runtime in its own process.
Starters == {"start", "restart", "module_start"}
Runtimes == Starters \cup {"replay"}
\* Those that look for a runtime to signal it: of the command line, and of
\* runtime_controller.
Requesters == {"stop", "restart"}
Controllers == {"controlled_stop", "controlled_restart"}
Programs == Runtimes \cup Requesters \cup Controllers

ASSUME RuntimeBounds ==
  /\ NoPid \notin Pids
  /\ Recognised \subseteq Programs
  /\ MaxCommands \in Nat /\ MaxKills \in Nat /\ MaxOthers \in Nat

VARIABLES
  process,      \* what runs under each process id
  pid_file,     \* the pid in trader.pid
  request_file, \* the action in lifecycle_request.json
  running,      \* the flag running of runtime_status.json
  job,          \* the process launchd started
  commands, kills, others, \* ghosts: how often each happened
  raced,        \* ghost: a runtime began while another command had looked at
                \* the pid file and not yet acted on it
  left          \* ghost: a runtime died and left its pid in the file

files == <<pid_file, request_file, running>>
vars == <<process, files, job, commands, kills, others, raced, left>>

\* After a look at the pid file, and before the write that follows from it.
Looked == {"unlink", "mark_pid", "request", "check", "clean", "clean_status",
           "report"}
\* With the engine possibly trading.
Trade == {"engine", "running", "clear", "wait", "resolve", "stopping", "halt"}
Steps == Looked \cup Trade
         \cup {"ensure", "read", "ask", "signal", "await", "launch", "mark_status",
               "setup", "unmark_pid", "unmark_status", "forget", "idle"}
Actions == {"none", "stop", "restart"}

\* program runs at its step at.  A request looks for target and has seen the
\* flag of the status file; a runtime that ends has resolved an action.
Process == [program : Programs \cup {"none", "other"}, at : Steps,
            target : Pids \cup {NoPid}, seen : BOOLEAN,
            action : Actions \cup {"failed"}, signalled : BOOLEAN]

Running(program, step) ==
  [program |-> program, at |-> step, target |-> NoPid, seen |-> FALSE,
   action |-> "none", signalled |-> FALSE]
Dead == Running("none", "idle")

TypeOK ==
  /\ process \in [Pids -> Process]
  /\ pid_file \in Pids \cup {NoPid}
  /\ request_file \in Actions /\ running \in BOOLEAN
  /\ job \in Pids \cup {NoPid}
  /\ commands \in Nat /\ kills \in Nat /\ others \in Nat
  /\ raced \in BOOLEAN /\ left \in BOOLEAN

Init ==
  /\ process = [p \in Pids |-> Dead]
  /\ pid_file = NoPid /\ request_file = "none" /\ running = FALSE
  /\ job = NoPid
  /\ commands = 0 /\ kills = 0 /\ others = 0
  /\ raced = FALSE /\ left = FALSE
-----------------------------------------------------------------------------
(* Processes, files and signals *)

_pid_is_running(p) == p # NoPid /\ process[p].program # "none"
_pid_is_trader_process(p) == process[p].program \in Recognised
_pid_is_active_trader(p) == _pid_is_running(p) /\ _pid_is_trader_process(p)

IsTrading(p) ==
  process[p].program \in Starters /\ process[p].at \in Trade

\* A step of p: it goes on to step, or ends.
Goes(p, step) == process' = [process EXCEPT ![p].at = step]
Ends(p) == process' = [process EXCEPT ![p] = Dead]
At(p, programs, step) ==
  process[p].program \in programs /\ process[p].at = step

\* The handlers of SIGTERM and SIGINT: installed before the engine starts,
\* restored once the runtime is asked to end, never after a failed start.
Handles(p) ==
  \/ At(p, Starters, "engine") \/ At(p, Starters, "running")
  \/ At(p, Starters, "clear") \/ At(p, Starters, "wait")
  \/ process[p].action = "failed"
AfterSignal(p) ==
  IF Handles(p) THEN [process[p] EXCEPT !.signalled = TRUE] ELSE Dead

\* The death of p leaves the pid file, which may name it.
Leaves(p) == left' = (left \/ p = pid_file)
LeavesUnhandled(p) == left' = (left \/ (p = pid_file /\ ~Handles(p)))

\* A pid a new process may get: pids go round, and one that a file or a
\* command still names is not given to a command at once.
Fresh(p) ==
  /\ ~_pid_is_running(p) /\ p # pid_file
  /\ \A q \in Pids : process[q].target # p

Command == commands < MaxCommands /\ commands' = commands + 1

\* launchd no longer takes the pid of a new process for its own.
NotJob(p) == job' = IF job = p THEN NoPid ELSE job

Invoke(p, name) ==
  /\ Command /\ Fresh(p) /\ NotJob(p)
  /\ process' = [process EXCEPT ![p] =
       Running(name, IF name \in {"start", "module_start", "replay"}
                     THEN "ensure" ELSE "read")]
  /\ UNCHANGED <<files, kills, others, raced, left>>

\* Control-C, or a kill by hand.
Interrupt(p) ==
  /\ Command /\ process[p].program \in Runtimes
  /\ process' = [process EXCEPT ![p] = AfterSignal(p)] /\ LeavesUnhandled(p)
  /\ UNCHANGED <<files, job, kills, others, raced>>

Kill(p) ==
  /\ _pid_is_running(p) /\ kills < MaxKills /\ kills' = kills + 1
  /\ Ends(p) /\ Leaves(p)
  /\ UNCHANGED <<files, job, commands, others, raced>>

\* An unrelated process may get any pid no live process has, but one a
\* command is waiting for.
OtherStarts(p) ==
  /\ ~_pid_is_running(p) /\ \A q \in Pids : process[q].target # p
  /\ others < MaxOthers /\ others' = others + 1
  /\ process' = [process EXCEPT ![p] = Running("other", "idle")]
  /\ NotJob(p)
  /\ UNCHANGED <<files, commands, kills, raced, left>>
OtherEnds(p) ==
  /\ process[p].program = "other" /\ Ends(p)
  /\ UNCHANGED <<files, job, commands, kills, others, raced, left>>

counts == <<job, commands, kills, others>>
local == <<counts, raced, left>>
-----------------------------------------------------------------------------
(* start and replay *)

\* A mutation: the check asks the status file whether a runtime runs.
EnsureByStatus(p) ==
  /\ At(p, Runtimes, "ensure")
  /\ \/ pid_file = NoPid /\ Goes(p, "mark_pid")
     \/ pid_file # NoPid /\ running /\ Ends(p)
     \/ pid_file # NoPid /\ ~running /\ Goes(p, "unlink")
  /\ UNCHANGED <<files, local>>

\* _ensure_runtime_is_not_active: the check, and the removal of a stale file.
EnsureNotActive(p) ==
  /\ At(p, Runtimes, "ensure")
  /\ \/ pid_file = NoPid /\ Goes(p, "mark_pid")
     \/ pid_file # NoPid /\ _pid_is_active_trader(pid_file) /\ Ends(p)
     \/ pid_file # NoPid /\ ~_pid_is_active_trader(pid_file) /\ Goes(p, "unlink")
  /\ UNCHANGED <<files, local>>
RemoveStalePid(p) ==
  /\ At(p, Runtimes, "unlink") /\ Goes(p, "mark_pid")
  /\ pid_file' = NoPid
  /\ UNCHANGED <<request_file, running, local>>

\* _mark_runtime_active
MarkPid(p) ==
  /\ At(p, Runtimes, "mark_pid") /\ Goes(p, "mark_status")
  /\ pid_file' = p
  /\ raced' = (raced \/ \E q \in Pids \ {p} : process[q].at \in Looked)
  /\ UNCHANGED <<request_file, running, counts, left>>
MarkStarting(p) ==
  /\ At(p, Runtimes, "mark_status") /\ Goes(p, "setup")
  /\ running' = TRUE
  /\ UNCHANGED <<pid_file, request_file, local>>

\* start: servers, provenance, account history; then the handlers.
Setup(p) ==
  /\ At(p, Starters, "setup") /\ Goes(p, "engine")
  /\ UNCHANGED <<files, local>>

\* engine.start() returns or raises.  The threads that a start that fails leaves
\* behind, such as the streams', end with the process and are not shown.
EngineStart(p) ==
  /\ At(p, Starters, "engine")
  /\ \/ Goes(p, "running")
     \/ process' = [process EXCEPT ![p].at = "unmark_pid", ![p].action = "failed"]
  /\ UNCHANGED <<files, local>>
MarkRunning(p) ==
  /\ At(p, Starters, "running") /\ Goes(p, "clear")
  /\ running' = TRUE
  /\ UNCHANGED <<pid_file, request_file, local>>
ClearRequest(p) ==
  /\ At(p, Starters, "clear") /\ Goes(p, "wait")
  /\ request_file' = "none"
  /\ UNCHANGED <<pid_file, running, local>>

\* shutdown_requested is set: the former handlers return.
ShutdownRequested(p) ==
  /\ At(p, Starters, "wait") /\ process[p].signalled
  /\ Goes(p, "resolve")
  /\ UNCHANGED <<files, local>>
\* The request file says what is asked, or the signal alone asks to stop.
_resolve_shutdown_request ==
  IF request_file = "none" THEN "stop" ELSE request_file
ResolveRequest(p) ==
  /\ At(p, Starters, "resolve")
  /\ process' = [process EXCEPT ![p].at = "stopping",
                                ![p].action = _resolve_shutdown_request]
  /\ UNCHANGED <<files, local>>

\* A mutation: the runtime leaves the pid file before its engine stops.
MarkStoppingEarly(p) ==
  /\ At(p, Starters, "stopping") /\ Goes(p, "halt")
  /\ running' = FALSE /\ pid_file' = NoPid
  /\ UNCHANGED <<request_file, local>>

\* _shutdown_runtime
MarkStopping(p) ==
  /\ At(p, Starters, "stopping") /\ Goes(p, "halt")
  /\ running' = FALSE
  /\ UNCHANGED <<pid_file, request_file, local>>
\* engine.stop() and server.stop(), whose exceptions are caught.
Halt(p) ==
  /\ At(p, Starters, "halt") /\ Goes(p, "unmark_pid")
  /\ UNCHANGED <<files, local>>
\* A replay, to its end or to an exception.
Replayed(p) ==
  /\ At(p, {"replay"}, "setup") /\ Goes(p, "unmark_pid")
  /\ UNCHANGED <<files, local>>

\* _mark_runtime_inactive: the pid file is removed whoever it names.
UnmarkPid(p) ==
  /\ At(p, Runtimes, "unmark_pid") /\ Goes(p, "unmark_status")
  /\ pid_file' = NoPid
  /\ UNCHANGED <<request_file, running, local>>
UnmarkStatus(p) ==
  /\ At(p, Runtimes, "unmark_status")
  /\ IF process[p].program = "replay" THEN Ends(p) ELSE Goes(p, "forget")
  /\ running' = FALSE
  /\ UNCHANGED <<pid_file, request_file, local>>
\* A request to restart stays for the process that starts next.
Forget(p) ==
  /\ At(p, Starters, "forget") /\ Ends(p)
  /\ request_file' =
       IF process[p].action = "restart" THEN request_file ELSE "none"
  /\ UNCHANGED <<pid_file, running, local>>
-----------------------------------------------------------------------------
(* stop and restart: _request_runtime_action *)

\* A mutation: the request names the command.
AskedByName(p) == process[p].program

Asked(p) ==
  IF process[p].program \in {"stop", "controlled_stop"} THEN "stop" ELSE "restart"

ReadFiles(p) ==
  /\ At(p, Requesters, "read")
  /\ process' = [process EXCEPT ![p].at = "request", ![p].target = pid_file,
                                ![p].seen = running]
  /\ UNCHANGED <<files, local>>
WriteRequest(p) ==
  /\ At(p, Requesters, "request") /\ Goes(p, "check")
  /\ request_file' = Asked(p)
  /\ UNCHANGED <<pid_file, running, local>>

\* What follows when no runtime was found, or none is left: stop reports it,
\* restart goes on to start.
Reports(p) ==
  process' = [process EXCEPT ![p] =
    IF @.program = "stop" THEN [@ EXCEPT !.at = "report"]
    ELSE Running("restart", "ensure")]
NotFound(p) ==
  IF process[p].seen THEN Goes(p, "clean_status") ELSE Reports(p)
\* A mutation: a process that lives is the runtime.
CheckAlive(p) ==
  /\ At(p, Requesters, "check")
  /\ IF _pid_is_running(process[p].target) THEN Goes(p, "signal")
     ELSE IF process[p].target # NoPid THEN Goes(p, "clean")
     ELSE NotFound(p)
  /\ UNCHANGED <<files, local>>
\* A mutation: a status file that says stopped is believed.
CheckStatus(p) ==
  /\ At(p, Requesters, "check")
  /\ IF process[p].seen /\ _pid_is_active_trader(process[p].target)
     THEN Goes(p, "signal") ELSE Reports(p)
  /\ UNCHANGED <<files, local>>

CheckTarget(p) ==
  /\ At(p, Requesters, "check")
  /\ IF _pid_is_active_trader(process[p].target) THEN Goes(p, "signal")
     ELSE IF process[p].target # NoPid THEN Goes(p, "clean")
     ELSE NotFound(p)
  /\ UNCHANGED <<files, local>>
CleanPid(p) ==
  /\ At(p, Requesters, "clean") /\ NotFound(p)
  /\ pid_file' = NoPid
  /\ UNCHANGED <<request_file, running, local>>
\* _mark_runtime_inactive for the status file that was left running, its
\* removal of the pid file included.
CleanStatus(p) ==
  /\ At(p, Requesters, "clean_status") /\ Reports(p)
  /\ pid_file' = NoPid /\ running' = FALSE
  /\ UNCHANGED <<request_file, local>>
\* "Trading engine is not running."
ReportNotRunning(p) ==
  /\ At(p, {"stop"}, "report") /\ Ends(p)
  /\ request_file' = "none"
  /\ UNCHANGED <<pid_file, running, local>>

\* os.kill fails when the process has ended since the check.
SignalTarget(p) ==
  LET t == process[p].target
  IN  /\ At(p, Requesters, "signal")
      /\ IF _pid_is_running(t)
         THEN /\ process' = [process EXCEPT ![p].at = "await",
                                            ![t] = AfterSignal(t)]
              /\ LeavesUnhandled(t)
         ELSE Ends(p) /\ UNCHANGED left
      /\ UNCHANGED <<files, counts, raced>>

\* The wait ends with the target, or with an error at the deadline.
TargetGone(p) ==
  /\ At(p, Requesters, "await") /\ ~_pid_is_active_trader(process[p].target)
  /\ IF process[p].program = "stop" THEN Ends(p)
     ELSE Reports(p)
  /\ UNCHANGED <<files, local>>
TimedOut(p) ==
  /\ At(p, Requesters \cup Controllers, "await") /\ Ends(p)
  /\ UNCHANGED <<files, local>>
-----------------------------------------------------------------------------
(* runtime_controller.request_runtime_action, and launchd *)

\* active_pid asks only that the process be alive.
ControllerReads(p) ==
  /\ At(p, Controllers, "read")
  /\ IF _pid_is_running(pid_file)
     THEN process' = [process EXCEPT ![p].at = "ask", ![p].target = pid_file]
     ELSE Ends(p)
  /\ UNCHANGED <<files, local>>
ControllerWrites(p) ==
  /\ At(p, Controllers, "ask") /\ Goes(p, "signal")
  /\ request_file' = Asked(p)
  /\ UNCHANGED <<pid_file, running, local>>
ControllerSignals(p) ==
  LET t == process[p].target
  IN  /\ At(p, Controllers, "signal")
      /\ IF _pid_is_running(t)
         THEN /\ process' = [process EXCEPT ![p].at = "await",
                                            ![t] = AfterSignal(t)]
              /\ LeavesUnhandled(t)
         ELSE Ends(p) /\ UNCHANGED left
      /\ UNCHANGED <<files, counts, raced>>
ControllerTargetGone(p) ==
  /\ At(p, Controllers, "await") /\ ~_pid_is_running(process[p].target)
  /\ IF process[p].program = "controlled_stop" THEN Ends(p)
     ELSE process' = [process EXCEPT ![p].at = "launch", ![p].target = NoPid]
  /\ UNCHANGED <<files, local>>

\* The new runtime is a process of its own.
launch_start_process(p, child) ==
  /\ At(p, Controllers, "launch")
  /\ IF _pid_is_running(pid_file) THEN Ends(p) /\ UNCHANGED job
     ELSE /\ Fresh(child) /\ NotJob(child)
          /\ process' = [process EXCEPT ![p] = Dead,
                           ![child] = Running("module_start", "ensure")]
  /\ UNCHANGED <<files, commands, kills, others, raced, left>>

\* launchctl kickstart -k: an instance that runs is killed.
start_launch_agent(p) ==
  /\ Command /\ Fresh(p)
  /\ process' = [q \in Pids |->
       IF q = p THEN Running("module_start", "ensure")
       ELSE IF q = job THEN Dead ELSE process[q]]
  /\ job' = p /\ Leaves(job)
  /\ UNCHANGED <<files, kills, others, raced>>
\* launchctl bootout: SIGTERM; a later SIGKILL is a Kill.
stop_launch_agent ==
  /\ Command /\ job # NoPid
  /\ process' = [process EXCEPT ![job] = AfterSignal(job)]
  /\ job' = NoPid /\ LeavesUnhandled(job)
  /\ UNCHANGED <<files, kills, others, raced>>
-----------------------------------------------------------------------------
Step(p) ==
  \/ EnsureNotActive(p) \/ RemoveStalePid(p) \/ MarkPid(p) \/ MarkStarting(p)
  \/ Setup(p) \/ EngineStart(p) \/ MarkRunning(p) \/ ClearRequest(p)
  \/ ShutdownRequested(p) \/ ResolveRequest(p) \/ MarkStopping(p) \/ Halt(p)
  \/ Replayed(p) \/ UnmarkPid(p) \/ UnmarkStatus(p) \/ Forget(p)
  \/ ReadFiles(p) \/ WriteRequest(p) \/ CheckTarget(p) \/ CleanPid(p)
  \/ CleanStatus(p) \/ ReportNotRunning(p) \/ SignalTarget(p) \/ TargetGone(p)
  \/ TimedOut(p)
  \/ ControllerReads(p) \/ ControllerWrites(p) \/ ControllerSignals(p)
  \/ ControllerTargetGone(p)
  \/ \E child \in Pids : launch_start_process(p, child)

Environment ==
  \/ \E p \in Pids :
       \/ \E name \in Programs : Invoke(p, name)
       \/ Interrupt(p) \/ Kill(p) \/ OtherStarts(p) \/ OtherEnds(p)
       \/ start_launch_agent(p)
  \/ stop_launch_agent

Next == (\E p \in Pids : Step(p)) \/ Environment

Spec == Init /\ [][Next]_vars
-----------------------------------------------------------------------------
(* Properties *)

\* The process that holds the pid file.
IsRuntime(p) ==
  /\ process[p].program \in Runtimes
  /\ process[p].at \in Trade \cup {"mark_status", "setup", "unmark_pid"}

\* trader.pid names the process that starts, trades or replays, whatever was
\* removed, killed or restarted before: stop finds it.  A runtime that began
\* beside a command which had looked at the file already voids this: the file is
\* written, and removed, without a lock.
PidFileNamesRuntime == raced \/ \A p \in Pids : IsRuntime(p) => pid_file = p

\* What stop says when it finds no runtime is true, but for such a race: no
\* engine that has started may trade.
StopSaysTrue ==
  raced \/ \A p \in Pids :
             At(p, {"stop"}, "report") => \A q \in Pids : ~IsTrading(q)

\* What a signal of stop or restart reaches is of the trader, also when the
\* runtime was killed and its pid given to another program.  The controllers
\* look no further than the pid file and a live pid: what they signal is of the
\* trader unless a runtime died and left its pid behind.
SignalsOnlyTraders ==
  [][\A p \in Pids :
       /\ SignalTarget(p) \/ (ControllerSignals(p) /\ ~left)
       /\ process'[p].at = "await"
       => process[process[p].target].program \in Programs]_vars

\* One runtime after the other: SingleRuntime with the holders of the pid file,
\* up to the first race.  Starts, stops and restarts may overlap in any way: two
\* runtimes come only of one that begins while another command stands between
\* its look at the pid file and the write that follows (commands.py: start calls
\* _ensure_runtime_is_not_active, then _mark_runtime_active).
Runtime == INSTANCE SingleRuntime WITH
  runtimes <- IF raced THEN {} ELSE {p \in Pids : IsRuntime(p)}
OneRuntime == Runtime!Spec
=============================================================================
