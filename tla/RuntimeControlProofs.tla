------------------------ MODULE RuntimeControlProofs ------------------------
(***************************************************************************)
(* Theorems about RuntimeControl, for any number of process ids, commands, *)
(* kills and unrelated processes: the types, and, where the runtimes are   *)
(* recognised by their command lines, that the pid file names the one      *)
(* runtime there is, that stop says the truth, and that only processes of  *)
(* the trader are signalled.                                               *)
(***************************************************************************)
EXTENDS RuntimeControl, TLAPS

-----------------------------------------------------------------------------
(* What a step does to the processes *)

\* Another process goes on as it was, but for the mark of a signal, or ends.
Same(q) ==
  \/ /\ process'[q].program = process[q].program
     /\ process'[q].at = process[q].at /\ process'[q].target = process[q].target
  \/ process'[q] = Dead

\* The steps of a process that has found that no runtime is there.
NoneAt == {"unlink", "mark_pid", "clean", "clean_status", "report"}
NoRuntime == \A q \in Pids : ~IsRuntime(q)
Asks(p) == At(p, Requesters, "request") \/ At(p, Requesters, "check")
\* A process with a target that it signals next.
Signals(p) ==
  \/ At(p, Requesters, "signal")
  \/ ~left /\ (At(p, Controllers, "ask") \/ At(p, Controllers, "signal"))

\* A step of the process p, or one that starts it.
Becoming(p) == IsRuntime(p)' => IsRuntime(p) \/ MarkPid(p)
Writing(p) ==
  \/ pid_file' = pid_file
  \/ MarkPid(p)
  \/ pid_file' = NoPid /\ process[p].at \in NoneAt
  \/ pid_file' = NoPid /\ IsRuntime(p) /\ ~IsRuntime(p)'
Finding(p) ==
  process'[p].at \in NoneAt => raced \/ process[p].at \in NoneAt \/ NoRuntime
Asking(p) == Asks(p)' => raced \/ pid_file' \in {process'[p].target, NoPid}
Signalling(p) ==
  Signals(p)' =>
    \/ Signals(p) /\ process'[p].target = process[p].target
    \/ /\ process'[p].target \in Pids
       /\ process[process'[p].target].program \in Programs
Naming(p) ==
  process'[p].program = "other" =>
    process[p].program = "other" \/ \A q \in Pids : process[q].target # p
\* A race stays one, and a runtime that is gone has left the file, or is known
\* to have left its pid there.
Racing == raced => raced'
Leaving ==
  ~(left') => ~left /\ \A q \in Pids : IsRuntime(q) /\ ~IsRuntime(q)' => pid_file' # q

StepOf(p) ==
  /\ \A q \in Pids \ {p} : Same(q)
  /\ Becoming(p) /\ Writing(p) /\ Finding(p)
  /\ Asking(p) /\ Signalling(p) /\ Naming(p) /\ Racing /\ Leaving

-----------------------------------------------------------------------------
(***************************************************************************)
(* The invariant.  Up to the first race the pid file names the runtime,    *)
(* what a command has read of it is still true or the file is gone, and a  *)
(* command that has found no runtime is right.  Whatever races, a process  *)
(* about to be signalled is of the trader, and a file that no dead runtime *)
(* left behind names a runtime.                                            *)
(***************************************************************************)
Named == \A p \in Pids : IsRuntime(p) => pid_file = p
NoneFound == \A p \in Pids : process[p].at \in NoneAt => NoRuntime
FileAsRead == \A p \in Pids : Asks(p) => pid_file \in {process[p].target, NoPid}
TargetKnown ==
  \A p \in Pids : Signals(p) =>
    /\ process[p].target \in Pids
    /\ process[process[p].target].program \in Programs \cup {"none"}
FileAlive == ~left => pid_file = NoPid \/ IsRuntime(pid_file)

ControlInvariant ==
  /\ raced \/ (Named /\ NoneFound /\ FileAsRead)
  /\ TargetKnown /\ FileAlive

LEMMA RuntimeNamed ==
  ASSUME Named, NEW p \in Pids, IsRuntime(p)
  PROVE  \A q \in Pids : IsRuntime(q) => q = p
BY DEF Named

LEMMA DeadIsNothing ==
  ASSUME NEW q \in Pids, process'[q] = Dead
  PROVE  /\ ~IsRuntime(q)' /\ process'[q].at \notin Looked /\ process'[q].at \notin NoneAt
         /\ process'[q].program = "none" /\ ~Asks(q)' /\ ~Signals(q)'
BY DEF Dead, Running, IsRuntime, Runtimes, Starters, Looked, NoneAt, Asks, At, Signals

LEMMA SameIsRuntime ==
  ASSUME NEW q \in Pids, Same(q), IsRuntime(q)'
  PROVE  IsRuntime(q)
BY DeadIsNothing DEF Same, IsRuntime

LEMMA MarkingFacts ==
  ASSUME NEW p \in Pids, MarkPid(p)
  PROVE  /\ process[p].at = "mark_pid" /\ pid_file' = p
         /\ ~(raced') => \A q \in Pids \ {p} : process[q].at \notin Looked
BY DEF MarkPid, At

\* A step of one process keeps the invariant.
LEMMA StepKeepsInvariant ==
  ASSUME TypeOK, TypeOK', RuntimeBounds, ControlInvariant,
         NEW p \in Pids, StepOf(p)
  PROVE  ControlInvariant'
<1>0. \A q \in Pids \ {p} : Same(q)
  BY DEF StepOf
<1>n. NoRuntime => \A q \in Pids : IsRuntime(q)' => q = p /\ MarkPid(p)
  BY <1>0, SameIsRuntime DEF StepOf, Becoming, NoRuntime
<1>m. NoneAt \subseteq Looked
  BY DEF NoneAt, Looked
<1>a. ASSUME ~(raced') PROVE Named' /\ NoneFound' /\ FileAsRead'
  <2>0. ~raced /\ Named /\ NoneFound /\ FileAsRead
    BY <1>a DEF StepOf, Racing, ControlInvariant
  <2>2. Named'
    <3> SUFFICES ASSUME NEW q \in Pids, IsRuntime(q)' PROVE pid_file' = q
      BY DEF Named
    <3>1. CASE MarkPid(p)
      <4>1. process[p].at \in NoneAt
        BY <3>1, MarkingFacts DEF NoneAt
      <4>2. NoRuntime
        BY <2>0, <4>1 DEF NoneFound
      <4>3. QED
        BY <1>n, <3>1, <4>2, MarkingFacts
    <3>2. CASE ~MarkPid(p)
      <4>1. IsRuntime(q)
        BY <1>0, <3>2, SameIsRuntime DEF StepOf, Becoming
      <4>2. pid_file = q
        BY <2>0, <4>1 DEF Named
      <4>3. CASE pid_file' = NoPid /\ IsRuntime(p) /\ ~IsRuntime(p)'
        BY <2>0, <4>1, <4>3, RuntimeNamed
      <4>4. CASE process[p].at \in NoneAt
        BY <2>0, <4>1, <4>4 DEF NoneFound, NoRuntime
      <4>5. QED
        BY <3>2, <4>2, <4>3, <4>4 DEF StepOf, Writing
    <3>3. QED
      BY <3>1, <3>2
  <2>3. NoneFound'
    <3> SUFFICES ASSUME NEW q \in Pids, process'[q].at \in NoneAt PROVE NoRuntime'
      BY DEF NoneFound
    <3>1. NoRuntime
      <4>1. CASE q = p
        BY <2>0, <4>1 DEF StepOf, Finding, NoneFound
      <4>2. CASE q # p
        BY <1>0, <2>0, <4>2, DeadIsNothing DEF Same, NoneFound
      <4>3. QED
        BY <4>1, <4>2
    <3>2. SUFFICES ASSUME NEW r \in Pids, IsRuntime(r)' PROVE FALSE
      BY DEF NoRuntime
    <3>3. r = p /\ MarkPid(p)
      BY <1>n, <3>1, <3>2
    <3>4. q # p
      BY <3>2, <3>3 DEF IsRuntime, NoneAt, Trade
    <3>5. process[q].at \in Looked
      BY <1>0, <1>m, <3>4, DeadIsNothing DEF Same
    <3>6. QED
      BY <1>a, <3>3, <3>4, <3>5, MarkingFacts
  <2>4. FileAsRead'
    <3> SUFFICES ASSUME NEW q \in Pids, Asks(q)'
                 PROVE  pid_file' \in {process'[q].target, NoPid}
      BY DEF FileAsRead
    <3>1. CASE q = p
      BY <2>0, <3>1 DEF StepOf, Asking
    <3>2. CASE q # p
      <4>1. Asks(q) /\ process'[q].target = process[q].target
        BY <1>0, <3>2, DeadIsNothing DEF Same, Asks, At
      <4>2. process[q].at \in Looked
        BY <4>1 DEF Asks, At, Looked
      <4>3. ~MarkPid(p)
        BY <1>a, <3>2, <4>2, MarkingFacts
      <4>4. pid_file' \in {pid_file, NoPid}
        BY <4>3 DEF StepOf, Writing
      <4>5. QED
        BY <2>0, <4>1, <4>4 DEF FileAsRead
    <3>3. QED
      BY <3>1, <3>2
  <2>5. QED
    BY <2>2, <2>3, <2>4
<1>5. TargetKnown'
  <2> SUFFICES ASSUME NEW q \in Pids, Signals(q)'
               PROVE  /\ process'[q].target \in Pids
                      /\ process'[process'[q].target].program \in Programs \cup {"none"}
    BY DEF TargetKnown
  <2>1. /\ process'[q].target \in Pids
        /\ process[process'[q].target].program \in Programs \cup {"none"}
        /\ \/ process'[q].target = process[q].target
           \/ process[process'[q].target].program \in Programs
    <3>1. CASE q = p
      BY <3>1 DEF StepOf, Signalling, ControlInvariant, TargetKnown
    <3>2. CASE q # p
      <4>1. Signals(q) /\ process'[q].target = process[q].target
        BY <1>0, <3>2, DeadIsNothing DEF Same, At, Signals, StepOf, Leaving
      <4>2. QED
        BY <4>1 DEF ControlInvariant, TargetKnown
    <3>3. QED
      BY <3>1, <3>2
  <2> DEFINE t == process'[q].target
  <2>2. CASE t # p
    BY <1>0, <2>1, <2>2, DeadIsNothing DEF Same
  <2>3. CASE t = p
    <3>1. process'[p] \in Process
      BY DEF TypeOK
    <3>2. process'[p].program \in Programs \cup {"none", "other"}
      BY <3>1 DEF Process
    <3>3. process[p].program # "other"
      BY <2>1, <2>3 DEF Programs, Runtimes, Starters, Requesters, Controllers
    <3>4. process'[p].program # "other"
      <4>1. CASE q = p
        BY <4>1 DEF Signals, At, Requesters, Controllers
      <4>2. CASE q # p
        <5>1. process'[q].target = process[q].target
          BY <1>0, <4>2, DeadIsNothing DEF Same
        <5>2. QED
          BY <2>3, <3>3, <5>1 DEF StepOf, Naming
      <4>3. QED
        BY <4>1, <4>2
    <3>5. QED
      BY <2>1, <2>3, <3>2, <3>4
  <2>4. QED
    BY <2>2, <2>3
<1>6. FileAlive'
  <2> SUFFICES ASSUME ~(left'), pid_file' # NoPid PROVE IsRuntime(pid_file)'
    BY DEF FileAlive
  <2>1. CASE MarkPid(p)
    BY <2>1 DEF MarkPid, At, Goes, IsRuntime, TypeOK
  <2>2. CASE ~MarkPid(p)
    <3>1. pid_file' = pid_file /\ pid_file \in Pids
      BY <2>2 DEF StepOf, Writing, TypeOK
    <3>2. IsRuntime(pid_file)
      BY <3>1 DEF StepOf, Leaving, ControlInvariant, FileAlive
    <3>3. PICK f \in Pids : f = pid_file
      BY <3>1
    <3>4. IsRuntime(f)'
      BY <3>1, <3>2, <3>3 DEF StepOf, Leaving
    <3>5. QED
      BY <3>1, <3>3, <3>4 DEF IsRuntime
  <2>3. QED
    BY <2>1, <2>2
<1>7. QED
  BY <1>a, <1>5, <1>6 DEF ControlInvariant

-----------------------------------------------------------------------------
(* The types *)

LEMMA RunningTyped ==
  ASSUME NEW name \in Programs \cup {"none", "other"}, NEW step \in Steps
  PROVE  /\ Running(name, step) \in Process
         /\ Running(name, step).program = name /\ Running(name, step).at = step
         /\ Running(name, step).target = NoPid
BY DEF Running, Process, Actions

LEMMA DeadTyped == Dead \in Process
BY RunningTyped DEF Dead, Steps

LEMMA ChangeTyped ==
  ASSUME TypeOK, NEW p \in Pids, NEW r \in Process,
         process' = [process EXCEPT ![p] = r]
  PROVE  /\ process' \in [Pids -> Process] /\ process'[p] = r
         /\ \A q \in Pids \ {p} : process'[q] = process[q] /\ Same(q)
BY DEF TypeOK, Same

LEMMA GoesTyped ==
  ASSUME TypeOK, NEW p \in Pids, NEW step \in Steps, Goes(p, step)
  PROVE  /\ process' \in [Pids -> Process]
         /\ process'[p].at = step /\ process'[p].program = process[p].program
         /\ process'[p].target = process[p].target
         /\ \A q \in Pids \ {p} : process'[q] = process[q] /\ Same(q)
BY DEF TypeOK, Goes, Process, Same

LEMMA EndsTyped ==
  ASSUME TypeOK, NEW p \in Pids, Ends(p)
  PROVE  /\ process' \in [Pids -> Process] /\ process'[p] = Dead
         /\ \A q \in Pids \ {p} : process'[q] = process[q] /\ Same(q)
BY ChangeTyped, DeadTyped DEF Ends

LEMMA SignalTyped ==
  ASSUME TypeOK, NEW p \in Pids
  PROVE  /\ AfterSignal(p) \in Process
         /\ \/ AfterSignal(p) = Dead
            \/ /\ AfterSignal(p).program = process[p].program
               /\ AfterSignal(p).at = process[p].at
               /\ AfterSignal(p).target = process[p].target
BY DeadTyped DEF TypeOK, AfterSignal, Process

-----------------------------------------------------------------------------
(* Every action is such a step *)

\* What StepOf asks of p itself.
Fits(p) ==
  /\ Becoming(p) /\ Writing(p) /\ Finding(p) /\ Asking(p) /\ Signalling(p)
  /\ process'[p].program # "other" \/ process[p].program = "other"

LEMMA ActorIsStep ==
  ASSUME TypeOK, NEW p \in Pids, \A q \in Pids \ {p} : Same(q), Fits(p), Racing, Leaving
  PROVE  StepOf(p)
BY DEF StepOf, Fits, Naming

\* A step that neither races nor kills: p keeps the pid file, or it is not p's.
LEMMA QuietStep ==
  ASSUME NEW p \in Pids, UNCHANGED <<raced, left>>,
         \A q \in Pids \ {p} : process'[q] = process[q],
         ~IsRuntime(p) \/ IsRuntime(p)' \/ pid_file' # p
  PROVE  Racing /\ Leaving
<1>1. raced' = raced /\ left' = left
  OBVIOUS
<1>2. \A q \in Pids : IsRuntime(q) /\ ~IsRuntime(q)' => pid_file' # q
  BY DEF IsRuntime
<1>3. QED
  BY <1>1, <1>2 DEF Racing, Leaving

\* The end of p, whose pid stays in the file only if that is known.
LEMMA DeathStep ==
  ASSUME NEW p \in Pids, UNCHANGED <<raced, pid_file>>, Leaves(p),
         \A q \in Pids \ {p} : process'[q] = process[q]
  PROVE  Racing /\ Leaving
<1>1. raced' = raced /\ pid_file' = pid_file
  OBVIOUS
<1>2. ~(left') => ~left /\ pid_file # p
  BY DEF Leaves
<1>3. \A q \in Pids \ {p} : IsRuntime(q) => IsRuntime(q)'
  BY DEF IsRuntime
<1>4. QED
  BY <1>1, <1>2, <1>3 DEF Racing, Leaving

\* An end that leaves the pid file, or clears it where no runtime is.
LEMMA EndIsStep ==
  ASSUME TypeOK, NEW p \in Pids, Ends(p),
         \/ pid_file' = pid_file
         \/ pid_file' = NoPid /\ process[p].at \in NoneAt,
         \/ ~IsRuntime(p) /\ UNCHANGED <<raced, left>>
         \/ UNCHANGED <<raced, pid_file>> /\ Leaves(p)
  PROVE  process' \in [Pids -> Process] /\ StepOf(p)
<1>1. /\ process'[p] = Dead
      /\ \A q \in Pids \ {p} : process'[q] = process[q] /\ Same(q)
  BY EndsTyped
<1>2. Fits(p)
  BY <1>1, DeadIsNothing DEF Fits, Becoming, Writing, Finding, Asking, Signalling
<1>3. Racing /\ Leaving
  BY <1>1, QuietStep, DeathStep
<1>4. QED
  BY <1>1, <1>2, <1>3, EndsTyped, ActorIsStep

\* The steps of a runtime from its pid file on.
Working == Trade \cup {"mark_status", "setup", "unmark_pid", "unmark_status", "forget"}

LEMMA WorkingSteps ==
  /\ Working \subseteq Steps
  /\ \A step \in Working :
       step \notin NoneAt \cup {"request", "check", "ask", "signal", "mark_pid"}
BY DEF Working, Trade, Steps, NoneAt

\* A step of a runtime that leaves the pid file.
LEMMA WorkIsStep ==
  ASSUME TypeOK, NEW p \in Pids, NEW step \in Working, Goes(p, step),
         pid_file' = pid_file, UNCHANGED <<raced, left>>,
         IsRuntime(p)' <=> IsRuntime(p)
  PROVE  process' \in [Pids -> Process] /\ StepOf(p)
<1>1. /\ process'[p].at = step /\ process'[p].program = process[p].program
      /\ \A q \in Pids \ {p} : process'[q] = process[q] /\ Same(q)
  BY GoesTyped, WorkingSteps
<1>2. Fits(p)
  BY <1>1, WorkingSteps DEF Fits, Becoming, Writing, Finding, Asking, Asks, Signalling,
     Signals, At
<1>3. Racing /\ Leaving
  BY <1>1, QuietStep
<1>4. QED
  BY <1>1, <1>2, <1>3, GoesTyped, WorkingSteps, ActorIsStep

\* The steps that look for a runtime.
Deciding == {"ensure", "unlink", "mark_pid", "read", "request", "check", "signal", "clean",
             "clean_status", "report", "ask", "await", "launch"}

LEMMA DecidingSteps ==
  /\ Deciding \subseteq Steps
  /\ \A step \in Deciding : step \notin Trade \cup {"mark_status", "setup", "unmark_pid"}
BY DEF Deciding, Trade, Steps, Looked

LEMMA DecidingIsNoRuntime ==
  ASSUME NEW p \in Pids
  PROVE  /\ process[p].at \in Deciding => ~IsRuntime(p)
         /\ process'[p].at \in Deciding => ~IsRuntime(p)'
BY DecidingSteps DEF IsRuntime

\* A step of one that decides, and goes on deciding.
LEMMA DecisionIsStep ==
  ASSUME TypeOK, NEW p \in Pids, NEW step \in Deciding, Goes(p, step),
         process[p].at \in Deciding, UNCHANGED <<raced, left>>,
         \/ pid_file' = pid_file
         \/ pid_file' = NoPid /\ process[p].at \in NoneAt,
         step \in NoneAt => raced \/ process[p].at \in NoneAt \/ NoRuntime,
         Asking(p), Signalling(p)
  PROVE  process' \in [Pids -> Process] /\ StepOf(p)
<1>1. /\ process'[p].at = step /\ process'[p].program = process[p].program
      /\ \A q \in Pids \ {p} : process'[q] = process[q] /\ Same(q)
  BY GoesTyped, DecidingSteps
<1>2. ~IsRuntime(p) /\ ~IsRuntime(p)'
  BY <1>1, DecidingIsNoRuntime
<1>3. Fits(p)
  BY <1>1, <1>2 DEF Fits, Becoming, Writing, Finding
<1>4. Racing /\ Leaving
  BY <1>1, <1>2, QuietStep
<1>5. QED
  BY <1>1, <1>3, <1>4, GoesTyped, DecidingSteps, ActorIsStep

\* Where the pid file names the runtime, and no trader under its pid runs, there
\* is no runtime.
LEMMA NoTraderNoRuntime ==
  ASSUME RuntimeBounds, Runtimes \subseteq Recognised, Named,
         NEW f, pid_file \in {f, NoPid}, ~_pid_is_active_trader(f)
  PROVE  NoRuntime
BY DEF NoRuntime, Named, _pid_is_active_trader, _pid_is_running,
   _pid_is_trader_process, IsRuntime, RuntimeBounds, Runtimes, Starters

\* From the start of a runtime to its pid file.
LEMMA EnsureSteps ==
  ASSUME TypeOK, ControlInvariant, RuntimeBounds, Runtimes \subseteq Recognised,
         NEW p \in Pids,
         EnsureNotActive(p) \/ RemoveStalePid(p) \/ MarkPid(p)
  PROVE  process' \in [Pids -> Process] /\ StepOf(p)
<1>1. CASE EnsureNotActive(p)
  <2>0. /\ process[p].at = "ensure" /\ process[p].at \in Deciding
        /\ pid_file' = pid_file /\ UNCHANGED <<raced, left>>
    BY <1>1 DEF EnsureNotActive, files, local, At, Deciding
  <2>1. CASE Ends(p)
    BY <2>0, <2>1, EndIsStep, DecidingIsNoRuntime
  <2>2. CASE ~Ends(p)
    <3>1. raced \/ NoRuntime
      <4>1. ~_pid_is_active_trader(pid_file)
        BY <1>1, <2>2 DEF EnsureNotActive, _pid_is_active_trader, _pid_is_running
      <4>2. QED
        BY <4>1, NoTraderNoRuntime DEF ControlInvariant
    <3>2. PICK step \in {"unlink", "mark_pid"} : Goes(p, step)
      BY <1>1, <2>2 DEF EnsureNotActive
    <3>3. step \in Deciding /\ process'[p].at = step
      BY <3>2, GoesTyped, DecidingSteps DEF Deciding
    <3>4. Asking(p) /\ Signalling(p)
      BY <3>2, <3>3 DEF Asking, Asks, Signalling, Signals, At
    <3>5. QED
      BY <2>0, <3>1, <3>2, <3>3, <3>4, DecisionIsStep
  <2>3. QED
    BY <2>1, <2>2
<1>2. CASE RemoveStalePid(p)
  <2>1. /\ Goes(p, "mark_pid") /\ process[p].at = "unlink" /\ pid_file' = NoPid
        /\ UNCHANGED <<raced, left>>
    BY <1>2 DEF RemoveStalePid, At, local
  <2>2. "mark_pid" \in Deciding /\ process[p].at \in Deciding /\ process[p].at \in NoneAt
    BY <2>1 DEF Deciding, NoneAt
  <2>3. Asking(p) /\ Signalling(p)
    BY <2>1, <2>2, GoesTyped, DecidingSteps DEF Asking, Asks, Signalling, Signals, At
  <2>4. QED
    BY <2>1, <2>2, <2>3, DecisionIsStep
<1>3. CASE MarkPid(p)
  <2>1. /\ Goes(p, "mark_status") /\ process[p].at = "mark_pid" /\ pid_file' = p
        /\ left' = left /\ Racing
    BY <1>3 DEF MarkPid, At, counts, Racing
  <2>2. /\ process' \in [Pids -> Process] /\ process'[p].at = "mark_status"
        /\ process'[p].program = process[p].program
        /\ \A q \in Pids \ {p} : process'[q] = process[q] /\ Same(q)
    BY <2>1, GoesTyped, WorkingSteps DEF Working
  <2>3. Fits(p)
    BY <1>3, <2>1, <2>2 DEF Fits, Becoming, Writing, Finding, Asking, Asks, Signalling,
       Signals, At, NoneAt
  <2>4. \A q \in Pids : IsRuntime(q) => IsRuntime(q)' \/ q = p
    BY <2>2 DEF IsRuntime
  <2>5. ~IsRuntime(p)
    BY <2>1 DEF IsRuntime, Trade
  <2>6. Leaving
    BY <2>1, <2>4, <2>5 DEF Leaving
  <2>7. QED
    BY <2>1, <2>2, <2>3, <2>6, ActorIsStep
<1>4. QED
  BY <1>1, <1>2, <1>3

\* The life of a runtime.
LEMMA RuntimeSteps ==
  ASSUME TypeOK, NEW p \in Pids,
         \/ MarkStarting(p) \/ Setup(p) \/ MarkRunning(p) \/ ClearRequest(p)
         \/ ShutdownRequested(p) \/ MarkStopping(p) \/ Halt(p) \/ Replayed(p)
  PROVE  process' \in [Pids -> Process] /\ StepOf(p)
<1>1. process[p].at \in Trade \cup {"mark_status", "setup"} /\ process[p].program \in Runtimes
  BY DEF MarkStarting, Setup, MarkRunning, ClearRequest, ShutdownRequested,
     MarkStopping, Halt, Replayed, At, Runtimes, Trade
<1>2. pid_file' = pid_file /\ UNCHANGED <<raced, left>>
  BY DEF MarkStarting, Setup, MarkRunning, ClearRequest, ShutdownRequested,
     MarkStopping, Halt, Replayed, files, local
<1>3. PICK step \in Trade \cup {"setup", "unmark_pid"} : Goes(p, step)
  BY DEF MarkStarting, Setup, MarkRunning, ClearRequest, ShutdownRequested,
     MarkStopping, Halt, Replayed, Trade
<1>4. step \in Working
  BY <1>3 DEF Working
<1>5. IsRuntime(p) /\ IsRuntime(p)'
  BY <1>1, <1>3, <1>4, GoesTyped, WorkingSteps DEF IsRuntime
<1>6. QED
  BY <1>2, <1>3, <1>4, <1>5, WorkIsStep

\* A runtime goes on to step with another action.
LEMMA ActsIsStep ==
  ASSUME TypeOK, NEW p \in Pids, NEW step \in {"unmark_pid", "stopping"},
         NEW action \in Actions \cup {"failed"},
         process' = [process EXCEPT ![p].at = step, ![p].action = action],
         pid_file' = pid_file, UNCHANGED <<raced, left>>, IsRuntime(p)
  PROVE  process' \in [Pids -> Process] /\ StepOf(p)
<1>0. step \in Working /\ step \in Steps
  BY WorkingSteps DEF Working, Trade
<1>1. /\ process' \in [Pids -> Process]
      /\ process'[p].at = step /\ process'[p].program = process[p].program
      /\ \A q \in Pids \ {p} : process'[q] = process[q] /\ Same(q)
  BY <1>0 DEF TypeOK, Process, Same
<1>2. Fits(p)
  BY <1>0, <1>1, WorkingSteps DEF Fits, Becoming, Writing, Finding, Asking, Asks,
     Signalling, Signals, At
<1>3. IsRuntime(p)'
  BY <1>1 DEF IsRuntime, Trade
<1>4. Racing /\ Leaving
  BY <1>1, <1>3, QuietStep
<1>5. QED
  BY <1>1, <1>2, <1>4, ActorIsStep

LEMMA EndingSteps ==
  ASSUME TypeOK, RuntimeBounds, NEW p \in Pids,
         \/ EngineStart(p) \/ ResolveRequest(p)
         \/ UnmarkPid(p) \/ UnmarkStatus(p) \/ Forget(p)
  PROVE  process' \in [Pids -> Process] /\ StepOf(p)
<1>0. {"running", "unmark_status", "forget"} \subseteq Working /\ Working \subseteq Steps
  BY WorkingSteps DEF Working, Trade
<1>1. CASE EngineStart(p)
  <2>1. IsRuntime(p) /\ pid_file' = pid_file /\ UNCHANGED <<raced, left>>
    BY <1>1 DEF EngineStart, At, IsRuntime, Trade, Runtimes, files, local
  <2>2. CASE Goes(p, "running")
    <3>1. IsRuntime(p)'
      BY <1>0, <2>1, <2>2, GoesTyped DEF IsRuntime, Trade
    <3>2. QED
      BY <1>0, <2>1, <2>2, <3>1, WorkIsStep
  <2>3. CASE process' = [process EXCEPT ![p].at = "unmark_pid", ![p].action = "failed"]
    BY <2>1, <2>3, ActsIsStep
  <2>4. QED
    BY <1>1, <2>2, <2>3 DEF EngineStart
<1>2. CASE ResolveRequest(p)
  <2>1. IsRuntime(p) /\ pid_file' = pid_file /\ UNCHANGED <<raced, left>>
    BY <1>2 DEF ResolveRequest, At, IsRuntime, Trade, Runtimes, files, local
  <2>2. _resolve_shutdown_request \in Actions
    BY DEF _resolve_shutdown_request, TypeOK, Actions
  <2>3. QED
    BY <1>2, <2>1, <2>2, ActsIsStep DEF ResolveRequest
<1>3. CASE UnmarkPid(p)
  <2>1. /\ IsRuntime(p) /\ Goes(p, "unmark_status") /\ pid_file' = NoPid
        /\ UNCHANGED <<raced, left>>
    BY <1>3 DEF UnmarkPid, At, IsRuntime, local
  <2>2. /\ process' \in [Pids -> Process] /\ process'[p].at = "unmark_status"
        /\ process'[p].program = process[p].program
        /\ \A q \in Pids \ {p} : process'[q] = process[q] /\ Same(q)
    BY <1>0, <2>1, GoesTyped
  <2>3. ~IsRuntime(p)'
    BY <2>2 DEF IsRuntime, Trade
  <2>4. Fits(p)
    BY <2>1, <2>2, <2>3 DEF Fits, Becoming, Writing, Finding, Asking, Asks,
       Signalling, Signals, At, NoneAt
  <2>5. Racing /\ Leaving
    BY <2>1, <2>2, QuietStep DEF RuntimeBounds
  <2>6. QED
    BY <2>2, <2>4, <2>5, ActorIsStep
<1>4. CASE UnmarkStatus(p)
  <2>1. /\ pid_file' = pid_file /\ process[p].at = "unmark_status"
        /\ UNCHANGED <<raced, left>> /\ ~IsRuntime(p)
    BY <1>4 DEF UnmarkStatus, At, local, IsRuntime, Trade
  <2>2. CASE Ends(p)
    BY <2>1, <2>2, EndIsStep
  <2>3. CASE Goes(p, "forget")
    <3>1. ~IsRuntime(p)'
      BY <1>0, <2>3, GoesTyped DEF IsRuntime, Trade
    <3>2. QED
      BY <1>0, <2>1, <2>3, <3>1, WorkIsStep
  <2>4. QED
    BY <1>4, <2>2, <2>3 DEF UnmarkStatus
<1>5. CASE Forget(p)
  <2>1. /\ Ends(p) /\ pid_file' = pid_file /\ UNCHANGED <<raced, left>> /\ ~IsRuntime(p)
    BY <1>5 DEF Forget, At, local, IsRuntime, Trade
  <2>2. QED
    BY <2>1, EndIsStep
<1>6. QED
  BY <1>1, <1>2, <1>3, <1>4, <1>5

\* What a command that found no runtime becomes: it reports, or starts one.
LEMMA ReportsIsStep ==
  ASSUME TypeOK, NEW p \in Pids, process[p].program \in Requesters, Reports(p),
         process[p].at \in Deciding, UNCHANGED <<raced, left>>,
         \/ pid_file' = pid_file
         \/ pid_file' = NoPid /\ process[p].at \in NoneAt,
         process[p].program = "stop" => raced \/ process[p].at \in NoneAt \/ NoRuntime
  PROVE  process' \in [Pids -> Process] /\ StepOf(p)
<1>0. ~IsRuntime(p)
  BY DecidingIsNoRuntime
<1>s. "report" \in Deciding /\ "ensure" \in Deciding /\ Deciding \subseteq Steps
  BY DecidingSteps DEF Deciding
<1>1. CASE process[p].program = "stop"
  <2>1. /\ process' \in [Pids -> Process] /\ process'[p].at = "report"
        /\ process'[p].program = process[p].program
        /\ \A q \in Pids \ {p} : process'[q] = process[q] /\ Same(q)
    BY <1>1, <1>s DEF Reports, TypeOK, Process, Same
  <2>2. Fits(p)
    BY <1>1, <2>1 DEF Fits, Becoming, IsRuntime, Runtimes, Starters, Writing, Finding,
       Asking, Asks, Signalling, Signals, At
  <2>3. Racing /\ Leaving
    BY <1>0, <2>1, QuietStep
  <2>4. QED
    BY <2>1, <2>2, <2>3, ActorIsStep
<1>2. CASE process[p].program # "stop"
  <2>1. /\ Running("restart", "ensure") \in Process
        /\ Running("restart", "ensure").program = "restart"
        /\ Running("restart", "ensure").at = "ensure"
    BY <1>s, RunningTyped DEF Programs, Requesters
  <2>2. process' = [process EXCEPT ![p] = Running("restart", "ensure")]
    BY <1>2 DEF Reports
  <2>3. /\ process' \in [Pids -> Process] /\ process'[p] = Running("restart", "ensure")
        /\ \A q \in Pids \ {p} : process'[q] = process[q] /\ Same(q)
    BY <2>1, <2>2, ChangeTyped
  <2>4. ~IsRuntime(p)'
    BY <1>s, <2>1, <2>3, DecidingIsNoRuntime
  <2>5. Fits(p)
    BY <2>1, <2>3, <2>4 DEF Fits, Becoming, Writing, Finding, NoneAt, Asking, Asks,
       Signalling, Signals, At
  <2>6. Racing /\ Leaving
    BY <1>0, <2>3, QuietStep
  <2>7. QED
    BY <2>3, <2>5, <2>6, ActorIsStep
<1>3. QED
  BY <1>1, <1>2

LEMMA NotFoundIsStep ==
  ASSUME TypeOK, NEW p \in Pids, process[p].program \in Requesters, NotFound(p),
         process[p].at \in {"check", "clean"}, UNCHANGED <<raced, left>>,
         \/ pid_file' = pid_file
         \/ pid_file' = NoPid /\ process[p].at \in NoneAt,
         raced \/ process[p].at \in NoneAt \/ NoRuntime
  PROVE  process' \in [Pids -> Process] /\ StepOf(p)
<1>1. process[p].at \in Deciding /\ "clean_status" \in Deciding
  BY DEF Deciding
<1>2. CASE Goes(p, "clean_status")
  <2>1. Asking(p) /\ Signalling(p)
    BY <1>1, <1>2, GoesTyped, DecidingSteps DEF Asking, Asks, Signalling, Signals, At
  <2>2. QED
    BY <1>1, <1>2, <2>1, DecisionIsStep
<1>3. CASE Reports(p)
  BY <1>1, <1>3, ReportsIsStep
<1>4. QED
  BY <1>2, <1>3 DEF NotFound

\* Reading the files, writing the request and looking at the process.
LEMMA RequestSteps ==
  ASSUME TypeOK, ControlInvariant, RuntimeBounds, Runtimes \subseteq Recognised,
         NEW p \in Pids,
         \/ ReadFiles(p) \/ WriteRequest(p) \/ CheckTarget(p) \/ CleanPid(p)
         \/ CleanStatus(p) \/ ReportNotRunning(p) \/ TargetGone(p) \/ TimedOut(p)
  PROVE  process' \in [Pids -> Process] /\ StepOf(p)
<1>0. {"read", "request", "check", "clean", "clean_status", "report", "signal", "await"}
        \subseteq Deciding
  BY DEF Deciding
<1>u. UNCHANGED <<raced, left>>
  BY DEF ReadFiles, WriteRequest, CheckTarget, CleanPid, CleanStatus, ReportNotRunning,
     TargetGone, TimedOut, local
<1>r. process[p].at \in Deciding /\ ~IsRuntime(p)
  <2>1. process[p].at \in Deciding
    BY <1>0 DEF ReadFiles, WriteRequest, CheckTarget, CleanPid, CleanStatus,
       ReportNotRunning, TargetGone, TimedOut, At
  <2>2. QED
    BY <2>1, DecidingIsNoRuntime
<1>1. CASE ReadFiles(p)
  <2>1. process' = [process EXCEPT ![p].at = "request", ![p].target = pid_file,
                                   ![p].seen = running]
    BY <1>1 DEF ReadFiles
  <2>2. /\ process' \in [Pids -> Process] /\ process'[p].at = "request"
        /\ process'[p].program = process[p].program /\ process'[p].target = pid_file
        /\ \A q \in Pids \ {p} : process'[q] = process[q] /\ Same(q)
    <3> DEFINE r == [process[p] EXCEPT !.at = "request", !.target = pid_file,
                                       !.seen = running]
    <3>1. process[p] \in Process /\ pid_file \in Pids \cup {NoPid} /\ running \in BOOLEAN
      BY DEF TypeOK
    <3>2. r \in Process
      BY <3>1 DEF Process, Steps, Looked
    <3>3. /\ r.at = "request" /\ r.program = process[p].program
          /\ r.target = pid_file
      BY <3>1 DEF Process
    <3>4. process' = [process EXCEPT ![p] = r]
      BY <2>1 DEF TypeOK
    <3> HIDE DEF r
    <3>5. QED
      BY <3>2, <3>3, <3>4, ChangeTyped
  <2>3. pid_file' = pid_file
    BY <1>1 DEF ReadFiles, files
  <2>4. ~IsRuntime(p)'
    BY <1>0, <2>2, DecidingIsNoRuntime
  <2>5. Fits(p)
    BY <2>2, <2>3, <2>4 DEF Fits, Becoming, Writing, Finding, NoneAt, Asking, Asks,
       Signalling, Signals, At
  <2>6. Racing /\ Leaving
    BY <1>r, <1>u, <2>2, QuietStep
  <2>7. QED
    BY <2>2, <2>5, <2>6, ActorIsStep
<1>2. CASE WriteRequest(p)
  <2>1. /\ Goes(p, "check") /\ At(p, Requesters, "request") /\ pid_file' = pid_file
    BY <1>2 DEF WriteRequest
  <2>2. /\ process'[p].at = "check" /\ process'[p].program = process[p].program
        /\ process'[p].target = process[p].target
    BY <1>0, <2>1, GoesTyped, DecidingSteps
  <2>3. Asking(p)
    BY <2>1, <2>2 DEF Asking, Asks, At, ControlInvariant, FileAsRead
  <2>4. Signalling(p)
    BY <2>2 DEF Signalling, Signals, At
  <2>5. QED
    BY <1>0, <1>r, <1>u, <2>1, <2>3, <2>4, DecisionIsStep DEF NoneAt
<1>3. CASE CheckTarget(p)
  <2>1. /\ process[p].at = "check" /\ process[p].program \in Requesters
        /\ pid_file' = pid_file
        /\ raced \/ (Named /\ pid_file \in {process[p].target, NoPid})
    BY <1>3 DEF CheckTarget, At, files, ControlInvariant, FileAsRead, Asks
  <2>2. CASE _pid_is_active_trader(process[p].target)
    <3>1. Goes(p, "signal")
      BY <1>3, <2>2 DEF CheckTarget
    <3>2. process[p].target \in Pids
      BY <2>2 DEF TypeOK, Process, _pid_is_active_trader, _pid_is_running
    <3>3. process[process[p].target].program \in Programs
      BY <2>2 DEF _pid_is_active_trader, _pid_is_trader_process, RuntimeBounds
    <3>4. /\ process'[p].at = "signal" /\ process'[p].target = process[p].target
      BY <1>0, <3>1, GoesTyped, DecidingSteps
    <3>5. Asking(p) /\ Signalling(p)
      BY <3>2, <3>3, <3>4 DEF Asking, Asks, Signalling, At
    <3>6. QED
      BY <1>0, <1>r, <1>u, <2>1, <3>1, <3>5, DecisionIsStep DEF NoneAt
  <2>3. CASE ~_pid_is_active_trader(process[p].target)
    <3>1. raced \/ NoRuntime
      BY <2>1, <2>3, NoTraderNoRuntime
    <3>2. CASE Goes(p, "clean")
      <4>1. Asking(p) /\ Signalling(p)
        BY <1>0, <3>2, GoesTyped, DecidingSteps DEF Asking, Asks, Signalling, Signals, At
      <4>2. QED
        BY <1>0, <1>r, <1>u, <2>1, <3>1, <3>2, <4>1, DecisionIsStep
    <3>3. CASE NotFound(p)
      BY <1>u, <2>1, <3>1, <3>3, NotFoundIsStep
    <3>4. QED
      BY <1>3, <2>3, <3>2, <3>3 DEF CheckTarget
  <2>4. QED
    BY <2>2, <2>3
<1>4. CASE CleanPid(p)
  <2>1. /\ NotFound(p) /\ pid_file' = NoPid /\ process[p].program \in Requesters
        /\ process[p].at = "clean" /\ process[p].at \in NoneAt
    BY <1>4 DEF CleanPid, At, NoneAt
  <2>2. QED
    BY <1>u, <2>1, NotFoundIsStep
<1>5. CASE CleanStatus(p)
  <2>1. /\ Reports(p) /\ pid_file' = NoPid /\ process[p].program \in Requesters
        /\ process[p].at \in NoneAt
    BY <1>5 DEF CleanStatus, At, NoneAt
  <2>2. QED
    BY <1>r, <1>u, <2>1, ReportsIsStep
<1>6. CASE ReportNotRunning(p)
  BY <1>6, <1>r, <1>u, EndIsStep DEF ReportNotRunning
<1>7. CASE TargetGone(p)
  <2>1. process[p].program \in Requesters /\ pid_file' = pid_file
    BY <1>7 DEF TargetGone, At, files
  <2>2. CASE Ends(p)
    BY <1>r, <1>u, <2>1, <2>2, EndIsStep
  <2>3. CASE process[p].program # "stop" /\ Reports(p)
    BY <1>r, <1>u, <2>1, <2>3, ReportsIsStep
  <2>4. QED
    BY <1>7, <2>2, <2>3 DEF TargetGone
<1>8. CASE TimedOut(p)
  BY <1>8, <1>r, <1>u, EndIsStep DEF TimedOut, files
<1>9. QED
  BY <1>1, <1>2, <1>3, <1>4, <1>5, <1>6, <1>7, <1>8

\* The death of a process by a signal leaves the file, or is known to.
LEMMA SignalLeaves ==
  ASSUME TypeOK, NEW t \in Pids, process'[t] = AfterSignal(t), LeavesUnhandled(t),
         UNCHANGED <<raced, pid_file>>,
         \A q \in Pids \ {t} : IsRuntime(q) => IsRuntime(q)'
  PROVE  Racing /\ Leaving
<1>1. raced' = raced /\ pid_file' = pid_file
  OBVIOUS
<1>2. ~(left') => ~left /\ (pid_file # t \/ Handles(t))
  BY DEF LeavesUnhandled
<1>3. Handles(t) /\ IsRuntime(t) => IsRuntime(t)'
  <2> SUFFICES ASSUME Handles(t) PROVE /\ process'[t].program = process[t].program
                                       /\ process'[t].at = process[t].at
    BY DEF IsRuntime
  <2>1. process'[t] = [process[t] EXCEPT !.signalled = TRUE] /\ process[t] \in Process
    BY DEF AfterSignal, TypeOK
  <2>2. QED
    BY <2>1 DEF Process
<1>4. QED
  BY <1>1, <1>2, <1>3 DEF Racing, Leaving

\* A process that a signal marks, or ends.
LEMMA SignalledIsStep ==
  ASSUME TypeOK, ControlInvariant, NEW p \in Pids,
         process' = [process EXCEPT ![p] = AfterSignal(p)],
         UNCHANGED <<raced, pid_file>>, LeavesUnhandled(p)
  PROVE  process' \in [Pids -> Process] /\ StepOf(p)
<1>0. pid_file' = pid_file
  OBVIOUS
<1>1. /\ process' \in [Pids -> Process] /\ process'[p] = AfterSignal(p)
      /\ \A q \in Pids \ {p} : process'[q] = process[q] /\ Same(q)
  BY SignalTyped, ChangeTyped
<1>2. \/ process'[p] = Dead
      \/ /\ process'[p].at = process[p].at /\ process'[p].program = process[p].program
         /\ process'[p].target = process[p].target
  BY <1>1, SignalTyped
<1>3. Racing /\ Leaving
  BY <1>1, SignalLeaves DEF IsRuntime
<1>4. Fits(p)
  <2>1. CASE process'[p] = Dead
    BY <1>0, <2>1, DeadIsNothing DEF Fits, Becoming, Writing, Finding, Asking, Signalling
  <2>2. CASE process'[p] # Dead
    <3>1. /\ process'[p].at = process[p].at /\ process'[p].program = process[p].program
          /\ process'[p].target = process[p].target
      BY <1>2, <2>2
    <3>2. Asking(p)
      BY <1>0, <3>1 DEF Asking, Asks, At, ControlInvariant, FileAsRead
    <3>3. Signalling(p)
      BY <1>3, <3>1 DEF Signalling, Signals, At, Leaving
    <3>4. QED
      BY <1>0, <3>1, <3>2, <3>3 DEF Fits, Becoming, IsRuntime, Writing, Finding
  <2>3. QED
    BY <2>1, <2>2
<1>5. QED
  BY <1>1, <1>3, <1>4, ActorIsStep

\* A signal: its target notes it or ends.
LEMMA SignalIsStep ==
  ASSUME TypeOK, ControlInvariant, NEW p \in Pids, NEW t \in Pids,
         At(p, Requesters \cup Controllers, "signal"),
         UNCHANGED <<raced, pid_file>>, LeavesUnhandled(t),
         process' = [process EXCEPT ![p].at = "await", ![t] = AfterSignal(t)]
  PROVE  process' \in [Pids -> Process] /\ StepOf(p)
<1>0. "signal" \in Deciding /\ "await" \in Deciding /\ "await" \in Steps
  BY DecidingSteps DEF Deciding
<1>1. process[p].at = "signal" /\ ~IsRuntime(p) /\ pid_file' = pid_file
  BY <1>0, DecidingIsNoRuntime DEF At
<1>2. CASE t = p
  <2>1. process' = [process EXCEPT ![p] = AfterSignal(p)]
    BY <1>2 DEF TypeOK
  <2>2. QED
    BY <1>2, <2>1, SignalledIsStep
<1>3. CASE t # p
  <2>1. /\ process' \in [Pids -> Process] /\ process'[p].at = "await"
        /\ process'[p].program = process[p].program
        /\ process'[t] = AfterSignal(t)
        /\ \A q \in Pids \ {p, t} : process'[q] = process[q] /\ Same(q)
    BY <1>0, <1>3, SignalTyped DEF TypeOK, Process, Same
  <2>2. \A q \in Pids \ {p} : Same(q)
    BY <2>1, SignalTyped DEF Same
  <2>3. Racing /\ Leaving
    BY <1>1, <2>1, SignalLeaves DEF IsRuntime
  <2>4. ~IsRuntime(p)'
    BY <1>0, <2>1, DecidingIsNoRuntime
  <2>5. Fits(p)
    BY <1>1, <2>1, <2>4 DEF Fits, Becoming, Writing, Finding, NoneAt,
       Asking, Asks, Signalling, Signals, At
  <2>6. QED
    BY <2>1, <2>2, <2>3, <2>5, ActorIsStep
<1>4. QED
  BY <1>2, <1>3

LEMMA SignalSteps ==
  ASSUME TypeOK, ControlInvariant, RuntimeBounds, NEW p \in Pids,
         \/ SignalTarget(p) \/ ControllerReads(p) \/ ControllerWrites(p)
         \/ ControllerSignals(p) \/ ControllerTargetGone(p)
  PROVE  process' \in [Pids -> Process] /\ StepOf(p)
<1>0. {"signal", "read", "ask", "launch", "await"} \subseteq Deciding
  BY DEF Deciding
<1>t. process[p].target \in Pids \cup {NoPid}
  BY DEF TypeOK, Process
<1>r. process[p].at \in Deciding /\ ~IsRuntime(p)
  <2>1. process[p].at \in Deciding
    BY <1>0 DEF SignalTarget, ControllerReads, ControllerWrites, ControllerSignals,
       ControllerTargetGone, At
  <2>2. QED
    BY <2>1, DecidingIsNoRuntime
<1>1. CASE SignalTarget(p) \/ ControllerSignals(p)
  <2>1. /\ At(p, Requesters \cup Controllers, "signal") /\ pid_file' = pid_file
        /\ raced' = raced
    BY <1>1 DEF SignalTarget, ControllerSignals, At, files
  <2>2. CASE Ends(p) /\ left' = left
    BY <1>r, <2>1, <2>2, EndIsStep
  <2>3. CASE /\ _pid_is_running(process[p].target)
             /\ process' = [process EXCEPT ![p].at = "await",
                              ![process[p].target] = AfterSignal(process[p].target)]
             /\ LeavesUnhandled(process[p].target)
    <3>1. process[p].target \in Pids
      BY <1>t, <2>3 DEF _pid_is_running
    <3>2. QED
      BY <2>1, <2>3, <3>1, SignalIsStep
  <2>4. QED
    BY <1>1, <2>2, <2>3 DEF SignalTarget, ControllerSignals
<1>2. CASE ControllerReads(p) \/ ControllerTargetGone(p)
  <2>1. /\ process[p].program \in Controllers /\ pid_file' = pid_file
        /\ UNCHANGED <<raced, left>>
    BY <1>2 DEF ControllerReads, ControllerTargetGone, At, files, local
  <2>2. CASE Ends(p)
    BY <1>r, <2>1, <2>2, EndIsStep
  <2>3. CASE \E step \in {"ask", "launch"}, target \in Pids \cup {NoPid} :
               /\ process' = [process EXCEPT ![p].at = step, ![p].target = target]
               /\ step = "ask" => target = pid_file /\ target # NoPid
    <3>1. PICK step \in {"ask", "launch"}, target \in Pids \cup {NoPid} :
               /\ process' = [process EXCEPT ![p].at = step, ![p].target = target]
               /\ step = "ask" => target = pid_file /\ target # NoPid
      BY <2>3
    <3>2. /\ process' \in [Pids -> Process] /\ process'[p].at = step
          /\ process'[p].program = process[p].program /\ process'[p].target = target
          /\ \A q \in Pids \ {p} : process'[q] = process[q] /\ Same(q)
      <4> DEFINE r == [process[p] EXCEPT !.at = step, !.target = target]
      <4>1. process[p] \in Process /\ step \in Steps
        BY <1>0, DecidingSteps DEF TypeOK
      <4>2. r \in Process
        BY <4>1 DEF Process
      <4>3. r.at = step /\ r.program = process[p].program /\ r.target = target
        BY <4>1 DEF Process
      <4>4. process' = [process EXCEPT ![p] = r]
        BY <3>1 DEF TypeOK
      <4> HIDE DEF r
      <4>5. QED
        BY <4>2, <4>3, <4>4, ChangeTyped
    <3>3. ~IsRuntime(p)'
      BY <1>0, <3>2, DecidingIsNoRuntime
    <3>4. Asking(p)
      BY <3>2 DEF Asking, Asks, At
    <3>5. Signalling(p)
      <4> SUFFICES ASSUME Signals(p)'
                   PROVE  /\ process'[p].target \in Pids
                          /\ process[process'[p].target].program \in Programs
        BY DEF Signalling
      <4>1. ~(left') /\ step = "ask"
        BY <2>1, <3>2 DEF Signals, At, Requesters, Controllers
      <4>2. target = pid_file /\ target \in Pids /\ IsRuntime(pid_file)
        BY <2>1, <3>1, <4>1 DEF ControlInvariant, FileAlive
      <4>3. QED
        BY <3>2, <4>2 DEF IsRuntime, Programs
    <3>6. Fits(p)
      BY <2>1, <3>2, <3>3, <3>4, <3>5 DEF Fits, Becoming, Writing, Finding, NoneAt,
         Controllers
    <3>7. Racing /\ Leaving
      BY <1>r, <2>1, <3>2, QuietStep
    <3>8. QED
      BY <3>2, <3>6, <3>7, ActorIsStep
  <2>4. QED
    <3>1. CASE ControllerReads(p) /\ _pid_is_running(pid_file)
      BY <2>3, <3>1 DEF ControllerReads, TypeOK, _pid_is_running
    <3>2. CASE ControllerReads(p) /\ ~_pid_is_running(pid_file)
      BY <2>2, <3>2 DEF ControllerReads
    <3>3. CASE ControllerTargetGone(p)
      BY <2>2, <2>3, <3>3 DEF ControllerTargetGone
    <3>4. QED
      BY <1>2, <3>1, <3>2, <3>3
<1>3. CASE ControllerWrites(p)
  <2>1. /\ Goes(p, "signal") /\ At(p, Controllers, "ask") /\ pid_file' = pid_file
        /\ UNCHANGED <<raced, left>>
    BY <1>3 DEF ControllerWrites, local
  <2>2. /\ process'[p].at = "signal" /\ process'[p].program = process[p].program
        /\ process'[p].target = process[p].target
    BY <1>0, <2>1, GoesTyped, DecidingSteps
  <2>3. Asking(p)
    BY <2>2 DEF Asking, Asks, At
  <2>4. Signalling(p)
    BY <2>1, <2>2 DEF Signalling, Signals, At, Requesters, Controllers
  <2>5. QED
    BY <1>0, <1>r, <2>1, <2>3, <2>4, DecisionIsStep DEF NoneAt
<1>4. QED
  BY <1>1, <1>2, <1>3

\* A process that starts, beside others that go on or end.
LEMMA StartIsStep ==
  ASSUME TypeOK, NEW p \in Pids, NEW name \in Programs \cup {"other"},
         NEW step \in {"ensure", "read", "idle"},
         process'[p] = Running(name, step), \A q \in Pids \ {p} : Same(q),
         pid_file' = pid_file, Naming(p), Racing, Leaving
  PROVE  StepOf(p)
<1>1. process'[p].at = step
  BY RunningTyped DEF Steps
<1>2. Becoming(p) /\ Writing(p) /\ Finding(p) /\ Asking(p) /\ Signalling(p)
  BY <1>1 DEF Becoming, IsRuntime, Trade, Writing, Finding, NoneAt, Asking, Asks,
     Signalling, Signals, At
<1>3. QED
  BY <1>2 DEF StepOf

LEMMA StartSteps ==
  ASSUME TypeOK, RuntimeBounds, ControlInvariant, NEW p \in Pids,
         \/ \E name \in Programs : Invoke(p, name)
         \/ \E parent \in Pids : launch_start_process(parent, p) /\ ~Ends(parent)
         \/ start_launch_agent(p) \/ OtherStarts(p)
  PROVE  process' \in [Pids -> Process] /\ StepOf(p)
<1>0. /\ \A name \in Programs \cup {"other"}, step \in {"ensure", "read", "idle"} :
           Running(name, step) \in Process /\ Running(name, step).program = name
      /\ Dead \in Process
  BY RunningTyped, DeadTyped DEF Steps
<1>p. "module_start" \in Programs /\ Dead.program = "none"
  BY DEF Programs, Runtimes, Starters, Dead, Running
<1>1. CASE \E name \in Programs : Invoke(p, name)
  <2>1. PICK name \in Programs : Invoke(p, name)
    BY <1>1
  <2>2. PICK step \in {"ensure", "read"} :
          process' = [process EXCEPT ![p] = Running(name, step)]
    BY <2>1 DEF Invoke
  <2>3. /\ process' \in [Pids -> Process] /\ process'[p] = Running(name, step)
        /\ \A q \in Pids \ {p} : process'[q] = process[q] /\ Same(q)
    BY <1>0, <2>2, ChangeTyped
  <2>4. Naming(p) /\ pid_file' = pid_file /\ UNCHANGED <<raced, left>>
    BY <2>1 DEF Invoke, Fresh, Naming, files
  <2>5. process[p].program = "none"
    BY <2>1 DEF Invoke, Fresh, _pid_is_running, RuntimeBounds
  <2>6. Racing /\ Leaving
    BY <2>3, <2>4, <2>5, QuietStep DEF IsRuntime, Runtimes, Starters
  <2>7. QED
    BY <2>3, <2>4, <2>6, StartIsStep
<1>2. CASE \E parent \in Pids : launch_start_process(parent, p) /\ ~Ends(parent)
  <2>1. PICK parent \in Pids : launch_start_process(parent, p) /\ ~Ends(parent)
    BY <1>2
  <2>2. /\ process[parent].at = "launch" /\ process[parent].program \in Controllers
        /\ Fresh(p) /\ pid_file' = pid_file /\ UNCHANGED <<raced, left>>
        /\ process' = [process EXCEPT ![parent] = Dead,
                                      ![p] = Running("module_start", "ensure")]
    BY <2>1 DEF launch_start_process, At, files
  <2>3. process[p].program = "none" /\ parent # p
    BY <2>2 DEF Fresh, _pid_is_running, Controllers, RuntimeBounds
  <2>4. /\ process' \in [Pids -> Process]
        /\ process'[p] = Running("module_start", "ensure") /\ process'[parent] = Dead
        /\ \A q \in Pids \ {p, parent} : process'[q] = process[q]
        /\ \A q \in Pids \ {p} : Same(q)
    BY <1>0, <1>p, <2>2, <2>3 DEF Same, TypeOK
  <2>5. Naming(p)
    BY <1>0, <1>p, <2>4 DEF Naming, Programs, Runtimes, Starters, Requesters, Controllers
  <2>6. \A q \in Pids : IsRuntime(q) => IsRuntime(q)'
    BY <2>2, <2>3, <2>4 DEF IsRuntime, Trade, Runtimes, Starters
  <2>7. Racing /\ Leaving
    <3>1. raced' = raced /\ left' = left
      BY <2>2
    <3>2. QED
      BY <2>6, <3>1 DEF Racing, Leaving
  <2>8. QED
    BY <1>p, <2>2, <2>4, <2>5, <2>7, StartIsStep
<1>3. CASE start_launch_agent(p)
  <2>1. /\ Fresh(p) /\ pid_file' = pid_file /\ raced' = raced /\ Leaves(job)
        /\ process' = [q \in Pids |->
             IF q = p THEN Running("module_start", "ensure")
             ELSE IF q = job THEN Dead ELSE process[q]]
    BY <1>3 DEF start_launch_agent, files
  <2>2. /\ process' \in [Pids -> Process]
        /\ process'[p] = Running("module_start", "ensure")
        /\ \A q \in Pids \ {p, job} : process'[q] = process[q]
        /\ \A q \in Pids \ {p} : Same(q)
    BY <1>0, <1>p, <2>1 DEF Same, TypeOK
  <2>3. process[p].program = "none" /\ Naming(p)
    BY <2>1 DEF Naming, Fresh, _pid_is_running, RuntimeBounds
  <2>4. \A q \in Pids \ {job} : IsRuntime(q) => IsRuntime(q)'
    BY <2>2, <2>3 DEF IsRuntime, Runtimes, Starters
  <2>5. ~(left') => ~left /\ pid_file' # job
    BY <2>1 DEF Leaves
  <2>6. Racing /\ Leaving
    BY <2>1, <2>4, <2>5 DEF Racing, Leaving
  <2>7. QED
    BY <1>p, <2>1, <2>2, <2>3, <2>6, StartIsStep
<1>4. CASE OtherStarts(p)
  <2>1. /\ process' = [process EXCEPT ![p] = Running("other", "idle")]
        /\ pid_file' = pid_file /\ \A q \in Pids : process[q].target # p
        /\ UNCHANGED <<raced, left>> /\ process[p].program = "none"
    BY <1>4 DEF OtherStarts, files, _pid_is_running, RuntimeBounds
  <2>2. /\ process' \in [Pids -> Process] /\ process'[p] = Running("other", "idle")
        /\ \A q \in Pids \ {p} : process'[q] = process[q] /\ Same(q)
    BY <1>0, <2>1, ChangeTyped
  <2>3. Naming(p)
    BY <2>1 DEF Naming
  <2>4. Racing /\ Leaving
    BY <2>1, <2>2, QuietStep DEF IsRuntime, Runtimes, Starters
  <2>5. QED
    BY <2>1, <2>2, <2>3, <2>4, StartIsStep
<1>5. QED
  BY <1>1, <1>2, <1>3, <1>4

\* Signals from outside, and ends.
LEMMA EndSteps ==
  ASSUME TypeOK, ControlInvariant, RuntimeBounds, NEW p \in Pids,
         \/ Interrupt(p) \/ Kill(p) \/ OtherEnds(p)
         \/ job = p /\ stop_launch_agent
         \/ \E child \in Pids : launch_start_process(p, child) /\ Ends(p)
  PROVE  process' \in [Pids -> Process] /\ StepOf(p)
<1>1. CASE Interrupt(p) \/ (job = p /\ stop_launch_agent)
  BY <1>1, SignalledIsStep DEF Interrupt, stop_launch_agent, files
<1>2. CASE Kill(p)
  BY <1>2, EndIsStep DEF Kill, files
<1>3. CASE OtherEnds(p)
  <2>1. ~IsRuntime(p)
    BY <1>3 DEF OtherEnds, IsRuntime, Runtimes, Starters
  <2>2. QED
    BY <1>3, <2>1, EndIsStep DEF OtherEnds, files
<1>4. CASE \E child \in Pids : launch_start_process(p, child) /\ Ends(p)
  <2>1. ~IsRuntime(p)
    BY <1>4 DEF launch_start_process, At, IsRuntime, Trade
  <2>2. QED
    BY <1>4, <2>1, EndIsStep DEF launch_start_process, files
<1>5. QED
  BY <1>1, <1>2, <1>3, <1>4

LEMMA NextIsStep ==
  ASSUME TypeOK, RuntimeBounds, Runtimes \subseteq Recognised, ControlInvariant, Next
  PROVE  \E p \in Pids : process' \in [Pids -> Process] /\ StepOf(p)
<1>1. ASSUME NEW p \in Pids, Step(p)
      PROVE  \E q \in Pids : process' \in [Pids -> Process] /\ StepOf(q)
  <2>1. ASSUME NEW child \in Pids, launch_start_process(p, child)
        PROVE  \E q \in Pids : process' \in [Pids -> Process] /\ StepOf(q)
    BY <2>1, EndSteps, StartSteps
  <2>2. QED
    BY <1>1, <2>1, EnsureSteps, RuntimeSteps, EndingSteps, RequestSteps, SignalSteps
       DEF Step
<1>2. ASSUME Environment
      PROVE  \E q \in Pids : process' \in [Pids -> Process] /\ StepOf(q)
  <2>1. CASE stop_launch_agent
    BY <2>1, EndSteps DEF stop_launch_agent, TypeOK
  <2>2. CASE \E p \in Pids :
               \/ \E name \in Programs : Invoke(p, name)
               \/ Interrupt(p) \/ Kill(p) \/ OtherStarts(p) \/ OtherEnds(p)
               \/ start_launch_agent(p)
    BY <2>2, StartSteps, EndSteps
  <2>3. QED
    BY <1>2, <2>1, <2>2 DEF Environment
<1>3. QED
  BY <1>1, <1>2 DEF Next

\* The variables beside the processes keep their types.
LEMMA FilesTyped ==
  ASSUME TypeOK, Next
  PROVE  /\ pid_file' \in Pids \cup {NoPid} /\ job' \in Pids \cup {NoPid}
         /\ request_file' \in Actions /\ running' \in BOOLEAN
         /\ commands' \in Nat /\ kills' \in Nat /\ others' \in Nat
<1> USE DEF TypeOK, files, local, counts
<1>1. ASSUME NEW p \in Pids, Step(p)
      PROVE  /\ pid_file' \in {pid_file, p, NoPid} /\ job' \in {job, NoPid}
             /\ request_file' \in Actions
             /\ running' = running \/ running' = TRUE \/ running' = FALSE
             /\ UNCHANGED <<commands, kills, others>>
  <2>1. CASE \/ EnsureNotActive(p) \/ RemoveStalePid(p) \/ MarkPid(p) \/ MarkStarting(p)
             \/ Setup(p) \/ EngineStart(p) \/ MarkRunning(p) \/ ClearRequest(p)
    BY <2>1 DEF EnsureNotActive, RemoveStalePid, MarkPid, MarkStarting, Setup,
       EngineStart, MarkRunning, ClearRequest, Actions
  <2>2. CASE \/ ShutdownRequested(p) \/ ResolveRequest(p) \/ MarkStopping(p) \/ Halt(p)
             \/ Replayed(p) \/ UnmarkPid(p) \/ UnmarkStatus(p) \/ Forget(p)
    BY <2>2 DEF ShutdownRequested, ResolveRequest, MarkStopping, Halt, Replayed,
       UnmarkPid, UnmarkStatus, Forget, Actions
  <2>3. CASE \/ ReadFiles(p) \/ WriteRequest(p) \/ CheckTarget(p) \/ CleanPid(p)
             \/ CleanStatus(p) \/ ReportNotRunning(p) \/ SignalTarget(p)
             \/ TargetGone(p) \/ TimedOut(p)
    BY <2>3 DEF ReadFiles, WriteRequest, CheckTarget, CleanPid, CleanStatus,
       ReportNotRunning, SignalTarget, TargetGone, TimedOut, Actions, Asked
  <2>4. CASE \/ ControllerReads(p) \/ ControllerWrites(p) \/ ControllerSignals(p)
             \/ ControllerTargetGone(p)
             \/ \E child \in Pids : launch_start_process(p, child)
    BY <2>4 DEF ControllerReads, ControllerWrites, ControllerSignals,
       ControllerTargetGone, launch_start_process, NotJob, Actions, Asked
  <2>5. QED
    BY <1>1, <2>1, <2>2, <2>3, <2>4 DEF Step
<1>2. ASSUME Environment
      PROVE  /\ UNCHANGED files /\ job' \in Pids \cup {NoPid}
             /\ commands' \in {commands, commands + 1}
             /\ kills' \in {kills, kills + 1} /\ others' \in {others, others + 1}
  BY <1>2 DEF Environment, Invoke, Interrupt, Kill, OtherStarts, OtherEnds,
     start_launch_agent, stop_launch_agent, Command, NotJob
<1>3. CASE \E p \in Pids : Step(p)
  <2>1. PICK p \in Pids : Step(p)
    BY <1>3
  <2>2. /\ pid_file' \in {pid_file, p, NoPid} /\ job' \in {job, NoPid}
        /\ request_file' \in Actions /\ UNCHANGED <<commands, kills, others>>
    BY <1>1, <2>1
  <2>3. running' \in BOOLEAN
    BY <1>1, <2>1, Zenon
  <2>4. QED
    BY <2>2, <2>3
<1>4. CASE Environment
  <2>1. running' \in BOOLEAN
    BY <1>2, <1>4
  <2>2. QED
    BY <1>2, <1>4, <2>1
<1>5. QED
  BY <1>3, <1>4 DEF Next

\* So do the ghosts.
LEMMA GhostsTyped ==
  ASSUME TypeOK, Next
  PROVE  raced' \in BOOLEAN /\ left' \in BOOLEAN
<1>0. raced \in BOOLEAN /\ left \in BOOLEAN
  BY DEF TypeOK
<1> USE DEF local
<1>1. ASSUME NEW p \in Pids, Step(p)
      PROVE  /\ raced' = raced \/ MarkPid(p)
             /\ left' = left \/ \E t : LeavesUnhandled(t)
  <2>1. CASE MarkPid(p)
    BY <2>1 DEF MarkPid
  <2>2. CASE SignalTarget(p) \/ ControllerSignals(p)
    BY <2>2 DEF SignalTarget, ControllerSignals
  <2>3. CASE ~(MarkPid(p) \/ SignalTarget(p) \/ ControllerSignals(p))
    <3>1. CASE \/ EnsureNotActive(p) \/ RemoveStalePid(p) \/ MarkStarting(p)
               \/ Setup(p) \/ EngineStart(p) \/ MarkRunning(p) \/ ClearRequest(p)
               \/ ShutdownRequested(p) \/ ResolveRequest(p) \/ MarkStopping(p) \/ Halt(p)
               \/ Replayed(p) \/ UnmarkPid(p) \/ UnmarkStatus(p) \/ Forget(p)
      BY <3>1 DEF EnsureNotActive, RemoveStalePid, MarkStarting, Setup, EngineStart,
         MarkRunning, ClearRequest, ShutdownRequested, ResolveRequest, MarkStopping, Halt,
         Replayed, UnmarkPid, UnmarkStatus, Forget
    <3>2. CASE \/ ReadFiles(p) \/ WriteRequest(p) \/ CheckTarget(p) \/ CleanPid(p)
               \/ CleanStatus(p) \/ ReportNotRunning(p) \/ TargetGone(p) \/ TimedOut(p)
               \/ ControllerReads(p) \/ ControllerWrites(p) \/ ControllerTargetGone(p)
               \/ \E child \in Pids : launch_start_process(p, child)
      BY <3>2 DEF ReadFiles, WriteRequest, CheckTarget, CleanPid, CleanStatus,
         ReportNotRunning, TargetGone, TimedOut, ControllerReads, ControllerWrites,
         ControllerTargetGone, launch_start_process
    <3>3. QED
      BY <1>1, <2>3, <3>1, <3>2 DEF Step
  <2>4. QED
    BY <2>1, <2>2, <2>3
<1>2. ASSUME Environment
      PROVE  /\ raced' = raced
             /\ left' = left \/ \E t : Leaves(t) \/ LeavesUnhandled(t)
  BY <1>2 DEF Environment, Invoke, Interrupt, Kill, OtherStarts, OtherEnds,
     start_launch_agent, stop_launch_agent
<1>3. \A p \in Pids : MarkPid(p) => raced' \in BOOLEAN
  BY Zenon DEF MarkPid
<1>4. \A t : Leaves(t) => left' \in BOOLEAN
  BY Zenon DEF Leaves
<1>5. \A t : LeavesUnhandled(t) => left' \in BOOLEAN
  BY Zenon DEF LeavesUnhandled
<1>6. CASE \E p \in Pids : Step(p)
  BY <1>0, <1>1, <1>3, <1>5, <1>6
<1>7. CASE Environment
  BY <1>0, <1>2, <1>4, <1>5, <1>7
<1>8. QED
  BY <1>6, <1>7 DEF Next

-----------------------------------------------------------------------------
(* The theorems *)

LEMMA ControlInvariantHolds ==
  ASSUME Runtimes \subseteq Recognised
  PROVE  Spec => [](TypeOK /\ ControlInvariant)
<1>1. Init => TypeOK /\ ControlInvariant
  <2> SUFFICES ASSUME Init PROVE TypeOK /\ ControlInvariant
    OBVIOUS
  <2>1. process \in [Pids -> Process] /\ \A p \in Pids : process[p] = Dead
    BY DeadTyped DEF Init
  <2>2. \A p \in Pids : process[p].program = "none" /\ process[p].at = "idle"
    <3>1. Dead.program = "none" /\ Dead.at = "idle"
      BY DEF Dead, Running
    <3>2. QED
      BY <2>1, <3>1
  <2>3. TypeOK
    <3>1. running \in BOOLEAN /\ raced \in BOOLEAN /\ left \in BOOLEAN
      BY Zenon DEF Init
    <3>2. /\ pid_file = NoPid /\ job = NoPid /\ request_file = "none"
          /\ commands = 0 /\ kills = 0 /\ others = 0
      BY DEF Init
    <3>3. QED
      BY <2>1, <3>1, <3>2 DEF TypeOK, Actions
  <2>4. ControlInvariant
    <3>1. \A p \in Pids : /\ ~IsRuntime(p) /\ process[p].at \notin NoneAt
                          /\ ~Asks(p) /\ ~Signals(p)
      BY <2>2 DEF IsRuntime, Runtimes, Starters, NoneAt, Asks, At, Signals
    <3>2. pid_file = NoPid
      BY DEF Init
    <3>3. QED
      BY <3>1, <3>2 DEF ControlInvariant, Named, NoneFound, FileAsRead, TargetKnown,
         FileAlive
  <2>5. QED
    BY <2>3, <2>4
<1>2. TypeOK /\ ControlInvariant /\ [Next]_vars => (TypeOK /\ ControlInvariant)'
  <2> SUFFICES ASSUME TypeOK, ControlInvariant, [Next]_vars
               PROVE  (TypeOK /\ ControlInvariant)'
    OBVIOUS
  <2>1. CASE Next
    <3>1. PICK p \in Pids : process' \in [Pids -> Process] /\ StepOf(p)
      BY <2>1, NextIsStep, RuntimeBounds
    <3>2. TypeOK'
      BY <2>1, <3>1, FilesTyped, GhostsTyped DEF TypeOK
    <3>3. QED
      BY <3>1, <3>2, StepKeepsInvariant, RuntimeBounds
  <2>2. CASE UNCHANGED vars
    <3>1. TypeOK'
      BY <2>2 DEF vars, files, TypeOK
    <3>2. ControlInvariant'
      <4>1. process' = process /\ pid_file' = pid_file /\ raced' = raced /\ left' = left
        BY <2>2 DEF vars, files
      <4>2. \A p \in Pids :
              /\ (IsRuntime(p)' <=> IsRuntime(p)) /\ (Asks(p)' <=> Asks(p))
              /\ (Signals(p)' <=> Signals(p))
        BY <4>1 DEF IsRuntime, Asks, Signals, At
      <4>3. IsRuntime(pid_file)' <=> IsRuntime(pid_file)
        BY <4>1 DEF IsRuntime
      <4>4. TargetKnown' /\ FileAlive'
        BY <4>1, <4>2, <4>3 DEF ControlInvariant, TargetKnown, FileAlive
      <4>5. ~raced => Named' /\ NoneFound' /\ FileAsRead'
        BY <4>1, <4>2 DEF ControlInvariant, Named, NoneFound, NoRuntime, FileAsRead
      <4>6. QED
        BY <4>1, <4>4, <4>5 DEF ControlInvariant
    <3>3. QED
      BY <3>1, <3>2
  <2>3. QED
    BY <2>1, <2>2
<1>3. QED
  BY <1>1, <1>2, PTL DEF Spec

\* Every variable keeps its type.
THEOREM TypeCorrect ==
  ASSUME Runtimes \subseteq Recognised
  PROVE  Spec => []TypeOK
BY ControlInvariantHolds, PTL

\* Until a runtime begins beside a command that had looked at the pid file, the
\* file names the process that starts, trades or replays, so that stop finds it
\* (_mark_runtime_active, _mark_runtime_inactive).
THEOREM PidFileIsOfRuntime ==
  ASSUME Runtimes \subseteq Recognised
  PROVE  Spec => []PidFileNamesRuntime
<1>1. TypeOK /\ ControlInvariant => PidFileNamesRuntime
  BY DEF ControlInvariant, Named, PidFileNamesRuntime
<1>2. QED
  BY <1>1, ControlInvariantHolds, PTL

\* A stop that reports that no engine is running says the truth, but for such a
\* race (_request_runtime_action).
THEOREM NotRunningIsTrue ==
  ASSUME Runtimes \subseteq Recognised
  PROVE  Spec => []StopSaysTrue
<1>1. ControlInvariant => StopSaysTrue
  <2> SUFFICES ASSUME ControlInvariant, ~raced, NEW p \in Pids, At(p, {"stop"}, "report"),
                      NEW q \in Pids
               PROVE  ~IsTrading(q)
    BY DEF StopSaysTrue
  <2>1. NoRuntime
    BY DEF ControlInvariant, NoneFound, NoneAt, At
  <2>2. QED
    BY <2>1 DEF NoRuntime, IsTrading, IsRuntime, Runtimes
<1>2. QED
  BY <1>1, ControlInvariantHolds, PTL

\* A process that stop or restart signals is of the trader, however often pids
\* were given again and whatever races (_pid_is_active_trader, os.kill); so is one
\* that the runtime controller signals, as long as no runtime died and left its
\* pid in the file (request_runtime_action).
THEOREM OnlyTradersSignalled ==
  ASSUME Runtimes \subseteq Recognised
  PROVE  Spec => SignalsOnlyTraders
<1>1. TypeOK /\ ControlInvariant /\ [Next]_vars
        => [\A p \in Pids :
              /\ SignalTarget(p) \/ (ControllerSignals(p) /\ ~left)
              /\ process'[p].at = "await"
              => process[process[p].target].program \in Programs]_vars
  <2> SUFFICES ASSUME TypeOK, ControlInvariant, NEW p \in Pids,
                      SignalTarget(p) \/ (ControllerSignals(p) /\ ~left),
                      process'[p].at = "await"
               PROVE  process[process[p].target].program \in Programs
    OBVIOUS
  <2>1. Signals(p)
    BY DEF SignalTarget, ControllerSignals, Signals
  <2>2. process[process[p].target].program \in Programs \cup {"none"}
    BY <2>1 DEF ControlInvariant, TargetKnown
  <2>3. CASE Ends(p)
    BY <2>3, EndsTyped, RunningTyped DEF Dead, Steps
  <2>4. CASE _pid_is_running(process[p].target)
    BY <2>2, <2>4 DEF _pid_is_running
  <2>5. QED
    BY <2>3, <2>4 DEF SignalTarget, ControllerSignals
<1>2. QED
  BY <1>1, ControlInvariantHolds, PTL DEF Spec, SignalsOnlyTraders

\* One runtime after the other, up to the first race: the specification
\* implements SingleRuntime.
THEOREM OneRuntimeAtATime ==
  ASSUME Runtimes \subseteq Recognised
  PROVE  Spec => OneRuntime
<1> DEFINE runtimes == IF raced THEN {} ELSE {p \in Pids : IsRuntime(p)}
<1>1. Init => runtimes = {}
  BY RunningTyped DEF Init, Dead, Steps, IsRuntime, Runtimes, Starters
<1>2. TypeOK /\ ControlInvariant /\ (TypeOK /\ ControlInvariant)' /\ [Next]_vars
        => \/ runtimes = {} /\ \E p \in Pids : runtimes' = {p}
           \/ runtimes # {} /\ runtimes' = {}
           \/ runtimes' = runtimes
  <2> SUFFICES ASSUME TypeOK, ControlInvariant, ControlInvariant', [Next]_vars
               PROVE  \/ runtimes = {} /\ \E p \in Pids : runtimes' = {p}
                      \/ runtimes # {} /\ runtimes' = {}
                      \/ runtimes' = runtimes
    OBVIOUS
  <2>1. CASE UNCHANGED vars
    BY <2>1 DEF vars, IsRuntime
  <2>2. CASE Next /\ raced'
    BY <2>2
  <2>3. CASE Next /\ ~(raced')
    <3>1. PICK p \in Pids : StepOf(p)
      BY <2>3, NextIsStep, RuntimeBounds
    <3>2. ~raced
      BY <2>3, <3>1 DEF StepOf, Racing
    <3>3. \A q \in Pids : IsRuntime(q)' => IsRuntime(q) \/ NoRuntime
      <4>1. \A q \in Pids \ {p} : IsRuntime(q)' => IsRuntime(q)
        BY <3>1, SameIsRuntime DEF StepOf
      <4>2. MarkPid(p) => NoRuntime
        BY <3>2, MarkingFacts DEF ControlInvariant, NoneFound, NoneAt
      <4>3. IsRuntime(p)' => IsRuntime(p) \/ NoRuntime
        BY <3>1, <4>2 DEF StepOf, Becoming
      <4>4. QED
        BY <4>1, <4>3
    <3>4. \A q, r \in Pids : IsRuntime(q)' /\ IsRuntime(r)' => q = r
      BY <2>3 DEF ControlInvariant, Named
    <3>5. \A q, r \in Pids : IsRuntime(q) /\ IsRuntime(r) => q = r
      BY <3>2 DEF ControlInvariant, Named
    <3>6. runtimes = {q \in Pids : IsRuntime(q)} /\ runtimes' = {q \in Pids : IsRuntime(q)'}
      BY <2>3, <3>2
    <3>7. CASE \A q \in Pids : ~(IsRuntime(q)')
      BY <3>6, <3>7
    <3>8. CASE \E q \in Pids : IsRuntime(q)'
      <4>1. PICK q \in Pids : IsRuntime(q)'
        BY <3>8
      <4>2. runtimes' = {q}
        BY <3>4, <3>6, <4>1
      <4>3. CASE IsRuntime(q)
        BY <3>5, <3>6, <4>2, <4>3
      <4>4. CASE NoRuntime
        BY <3>6, <4>2, <4>4 DEF NoRuntime
      <4>5. QED
        BY <3>3, <4>1, <4>3, <4>4
    <3>9. QED
      BY <3>7, <3>8
  <2>4. QED
    BY <2>1, <2>2, <2>3
<1>3. Init => Runtime!Init
  BY <1>1 DEF Runtime!Init
<1>4. TypeOK /\ ControlInvariant /\ (TypeOK /\ ControlInvariant)' /\ [Next]_vars
        => [Runtime!Start \/ Runtime!End]_runtimes
  BY <1>2 DEF Runtime!Start, Runtime!End
<1>5. QED
  BY <1>3, <1>4, ControlInvariantHolds, PTL DEF Spec, OneRuntime, Runtime!Spec
=============================================================================
