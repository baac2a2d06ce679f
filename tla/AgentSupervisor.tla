--------------------------- MODULE AgentSupervisor ---------------------------
(***************************************************************************)
(* The local Agent backend (agents/cmd/windows-agent-backend), which owns  *)
(* the collector process: control requests start, stop and restart it, a   *)
(* collector that exits is started again after a delay, and the backend    *)
(* stops it before it ends itself.  One mutex protects the state, but a    *)
(* stop gives it up while it waits for the process, and the goroutines     *)
(* that reap a process or start it again act later.                        *)
(***************************************************************************)
EXTENDS Integers, FiniteSets

CONSTANTS
    Controllers,    \* requests of the local API under way at a time
    MaxCollectors,  \* processes started in a run
    MaxControls     \* control requests in a run

ASSUME SupervisorAssumption == MaxCollectors \in Nat \ {0}

VARIABLES
    backend,        \* "up", or "down" once the process has exited
    recordingOn, autoRestartOn,    \* DataRecordingEnabled, AutoRestartCollector
    procs,          \* per process "none", "running", "ended" (Wait has returned) or "reaped"
    cmd,            \* the process the backend knows of, 0 for none
    stopRequested, autoRestarting,
    restartsDue,    \* restartChildAfter goroutines that sleep
    stops,          \* per request the stop it waits for, outside the mutex
    closing,        \* shutdownOnce: "no", "begun", or "stopped" while the HTTP server is shut down
    intent,         \* history: what the backend was last made to do
    raced,          \* history: one asked for a process while a stop waited, or after the last stop
    stale,          \* history: one was started before an earlier exit was dealt with
    controls

supVars == <<backend, recordingOn, autoRestartOn, procs, cmd, stopRequested, autoRestarting, restartsDue,
             stops, closing, intent, raced, stale, controls>>
configVars == <<recordingOn, autoRestartOn>>

NoStop == [op |-> "none", child |-> 0]
Collectors == 1 .. MaxCollectors
Alive == {c \in Collectors : procs[c] = "running"}
Waiting == {h \in Controllers : stops[h] # NoStop}

\* The requests an API request overlaps with, and the shutdown it comes too late for.
Overlapped(h) == (Waiting \ {h}) \union (IF closing = "stopped" THEN {h} ELSE {})
Started == Cardinality({c \in Collectors : procs[c] # "none"})

----------------------------------------------------------------------------
(* Starting and stopping, with the mutex held.                             *)

\* Mutant: the flag of an earlier stop is left on.
StopFlagKept == stopRequested

\* A start forgets an earlier stop.
StopFlagCleared == FALSE

\* startChildLocked succeeds; others are the requests that wait meanwhile.
\* Processes are given as the caller has left them.
StartChild(ps, others) ==
    /\ recordingOn' /\ Started < MaxCollectors
    /\ procs' = [ps EXCEPT ![Started + 1] = "running"]
    /\ cmd' = Started + 1
    /\ stopRequested' = StopFlagCleared /\ autoRestarting' = FALSE
    /\ intent' = "run"
    /\ raced' = (raced \/ others # {})
    /\ stale' = (stale \/ restartsDue' > 0 \/ \E c \in Collectors : ps[c] = "ended")

\* It is refused: recording is off, or the binary or the address is bad.
StartRefused(ps, known, outcome, others) ==
    /\ procs' = ps /\ cmd' = known
    /\ intent' = outcome
    /\ raced' = (raced \/ others # {}) /\ UNCHANGED stale

\* What a request does once its stop is over.
AfterStop(op, ps, known, others) ==
    /\ UNCHANGED <<configVars, restartsDue, backend>>
    /\ \/ op = "restart" /\ StartChild(ps, others)
       \/ /\ UNCHANGED <<autoRestarting, stopRequested>>
          /\ StartRefused(ps, known, "stop", IF op = "restart" THEN others ELSE {})

----------------------------------------------------------------------------
(* Requests of the local API.                                              *)

Requested(h) == backend = "up" /\ stops[h] = NoStop /\ controls < MaxControls /\ controls' = controls + 1

HandleStart(h) ==
    /\ Requested(h)
    /\ recordingOn /\ cmd = 0
    /\ UNCHANGED <<configVars, restartsDue, backend, stops, closing>>
    /\ \/ StartChild(procs, Overlapped(h))
       \/ stopRequested' = FALSE /\ UNCHANGED autoRestarting /\ StartRefused(procs, cmd, "failed", Overlapped(h))

\* stopCollectorLocked up to the point where it waits without the mutex.
BeginStop(h, op) ==
    /\ stopRequested' = TRUE /\ autoRestarting' = FALSE
    /\ stops' = [stops EXCEPT ![h] = [op |-> op, child |-> cmd]]
    /\ UNCHANGED <<procs, cmd, restartsDue, backend, intent, raced, stale>>

\* Stop, restart, or an edit that turns recording off.
HandleStop(h) == Requested(h) /\ BeginStop(h, "stop") /\ UNCHANGED <<configVars, closing>>
HandleRestart(h) == Requested(h) /\ BeginStop(h, "restart") /\ UNCHANGED <<configVars, closing>>

HandleConfig(h) ==
    /\ Requested(h)
    /\ recordingOn' \in BOOLEAN /\ autoRestartOn' \in BOOLEAN
    /\ IF recordingOn' THEN UNCHANGED <<procs, cmd, stopRequested, autoRestarting, restartsDue, backend, stops,
                                        intent, raced, stale>>
       ELSE BeginStop(h, "config")
    /\ UNCHANGED closing

\* requestShutdown: asked for, or because the frontend or the service has ended.
RequestShutdown(h) ==
    /\ backend = "up" /\ stops[h] = NoStop /\ closing = "no"
    /\ closing' = "begun"
    /\ BeginStop(h, "shutdown") /\ UNCHANGED <<configVars, controls>>

\* Mutant: a process that ignores the interrupt is left alone.
Spared(child) == procs

\* The process that did not end by the deadline is killed.
Killed(child) == IF child # 0 /\ procs[child] = "running" THEN [procs EXCEPT ![child] = "ended"] ELSE procs

\* The wait is over: the process has ended, or its time is up.  A stop that
\* found no process never gave up the mutex: it goes on before anything else.
StopEnds(h) ==
    /\ stops[h] # NoStop /\ backend = "up"
    /\ stops' = [stops EXCEPT ![h] = NoStop]
    /\ LET child == stops[h].child
           known == IF cmd = child THEN 0 ELSE cmd
       IN  AfterStop(stops[h].op, Killed(child), known, Overlapped(h))
    /\ closing' = IF stops[h].op = "shutdown" THEN "stopped" ELSE closing
    /\ UNCHANGED controls

\* The HTTP server stops listening, which ends the process and its goroutines.
BackendExits ==
    /\ backend = "up" /\ closing = "stopped"
    /\ backend' = "down" /\ restartsDue' = 0
    /\ UNCHANGED <<configVars, procs, cmd, stopRequested, autoRestarting, stops, closing, intent, raced, stale, controls>>

----------------------------------------------------------------------------
(* Processes and goroutines.                                               *)

CollectorEnds(c) ==
    /\ procs[c] = "running"
    /\ procs' = [procs EXCEPT ![c] = "ended"]
    /\ UNCHANGED <<backend, configVars, cmd, stopRequested, autoRestarting, restartsDue, stops, closing,
                   intent, raced, stale, controls>>

WaitChild(c) ==
    /\ backend = "up" /\ procs[c] = "ended"
    /\ procs' = [procs EXCEPT ![c] = "reaped"]
    /\ cmd' = IF cmd = c THEN 0 ELSE cmd
    /\ stopRequested' = FALSE
    /\ LET again == ~stopRequested /\ autoRestartOn IN
        /\ autoRestarting' = again
        /\ restartsDue' = IF again THEN restartsDue + 1 ELSE restartsDue
        /\ intent' = IF stopRequested \/ again \/ intent = "stop" THEN intent ELSE "failed"
    /\ UNCHANGED <<backend, configVars, stops, closing, raced, stale, controls>>

\* Mutant: the delayed start does not look whether a collector runs.
Idle == TRUE

\* Nothing was started in the meantime.
NothingRuns == cmd = 0

\* restartChildAfter wakes.
RestartChild ==
    /\ backend = "up" /\ restartsDue > 0
    /\ restartsDue' = restartsDue - 1
    /\ UNCHANGED <<configVars, backend, stops, closing, controls>>
    /\ \/ /\ ~stopRequested /\ autoRestartOn /\ NothingRuns
          /\ \/ StartChild(procs, Waiting)
             \/ autoRestarting' = FALSE /\ UNCHANGED stopRequested /\ StartRefused(procs, cmd, "failed", {})
       \/ /\ stopRequested \/ ~autoRestartOn \/ ~NothingRuns
          /\ autoRestarting' = FALSE
          /\ intent' = IF autoRestartOn \/ intent = "stop" THEN intent ELSE "failed"
          /\ UNCHANGED <<procs, cmd, stopRequested, raced, stale>>

\* A stop that found no process, which still holds the mutex.
MutexHeld == \E h \in Controllers : stops[h] # NoStop /\ stops[h].child = 0

SupInit ==
    /\ backend = "up" /\ recordingOn = TRUE /\ autoRestartOn = TRUE
    /\ procs = [c \in Collectors |-> IF c = 1 THEN "running" ELSE "none"]
    /\ cmd = 1
    /\ stopRequested = FALSE /\ autoRestarting = FALSE /\ restartsDue = 0
    /\ stops = [h \in Controllers |-> NoStop] /\ closing = "no"
    /\ intent = "run" /\ raced = FALSE /\ stale = FALSE /\ controls = 0

SupNext ==
    \/ \E h \in Controllers :
        \/ ~MutexHeld /\ (HandleStart(h) \/ HandleStop(h) \/ HandleRestart(h) \/ HandleConfig(h) \/ RequestShutdown(h))
        \/ (MutexHeld => stops[h].child = 0) /\ StopEnds(h)
    \/ \E c \in Collectors : CollectorEnds(c) \/ (~MutexHeld /\ WaitChild(c))
    \/ ~MutexHeld /\ (RestartChild \/ BackendExits)

SupSpec == SupInit /\ [][SupNext]_supVars

----------------------------------------------------------------------------
(* Properties.                                                             *)

\* Two collectors never run at a time, however exits, delayed restartsDue and
\* killed processes interleave, unless one is started while a stop waits
\* outside the mutex (startChildLocked, restartChildAfter, waitChild).
OneCollector == ~raced => Cardinality(Alive) <= 1

\* A collector that was stopped stays stopped until it is started again: a
\* restart that was already due is cancelled (stopCollectorLocked,
\* restartChildAfter), unless a start came before an earlier exit was dealt with.
StopSticks == intent = "stop" /\ Waiting = {} /\ ~raced /\ ~stale => Alive = {}

\* A collector that ends by itself is never forgotten: its exit is still to be
\* dealt with or a restart is due, unless a start was refused (waitChild).
CrashIsRestarted ==
    backend = "up" /\ intent = "run" /\ Waiting = {} =>
        \/ Alive # {} \/ restartsDue > 0
        \/ \E c \in Collectors : procs[c] = "ended"

\* The backend leaves no collector behind (requestShutdown), under the same conditions.
NothingLeft == backend = "down" /\ ~raced /\ ~stale => Alive = {}

\* Types of the state; a restart is only announced while one is due.
SupTypeOK ==
    /\ backend \in {"up", "down"} /\ closing \in {"no", "begun", "stopped"} /\ intent \in {"run", "stop", "failed"}
    /\ procs \in [Collectors -> {"none", "running", "ended", "reaped"}]
    /\ cmd \in 0 .. MaxCollectors /\ (cmd # 0 => procs[cmd] \in {"running", "ended"})
    /\ restartsDue \in 0 .. MaxCollectors
    /\ autoRestarting /\ backend = "up" => restartsDue > 0

\* What the backend keeps true of its collector over exits, requests and delayed
\* restarts: one at a time, and none after the backend has ended.
SupervisorSound == SupTypeOK /\ OneCollector /\ NothingLeft
=============================================================================
