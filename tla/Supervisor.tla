----------------------------- MODULE Supervisor -----------------------------
(***************************************************************************)
(* Supervisor.Run (process.go) and the verdict Application.launch (run.go) *)
(* draws from its result: Wine is initialised, Xvfb and Wine are started,  *)
(* and one select races the startup deadline, the log monitor, both        *)
(* processes and the signals of the container; whatever wins, everything   *)
(* is stopped and recorded before Run returns.                             *)
(*                                                                         *)
(* A process is "alive", "dead" (not yet waited for) or "reaped" (its done *)
(* channel is closed).  A ready case of a select may be taken in any       *)
(* order, as Go does.  A crash of the controller itself is not modelled    *)
(* here, the log monitor is its interface: it announces readiness once and *)
(* fails at any time.                                                      *)
(***************************************************************************)
EXTENDS Naturals, Sequences

CONSTANTS
  MaxSignals,   \* bound on signals sent to the controller
  MaxFaults     \* bound on failing writes of state.json

ASSUME BoundAssumption == MaxSignals \in Nat /\ MaxFaults \in Nat

SIGINT == 2
SIGKILL == 9
SIGTERM == 15

VARIABLES
  pc, caller,      \* program point; who called stopWine
  \* channels and contexts
  winecfg,         \* initDone: "running", "ok" or "failed"
  readiness,       \* readinessResults holds a message
  failure,         \* monitoringErrors holds a message
  signals,         \* signalChannel, capacity 2
  expired,         \* startupCtx has passed its deadline
  armed,           \* startupDeadline is not nil
  parentDone,      \* the context given to Run is cancelled
  cancelled,       \* runCtx is cancelled
  \* processes and goroutines
  xvfb, wine, wineExit, sent,
  monitor,         \* "none", "watching", "announced" or "ended"
  \* locals of Run and launch
  received,        \* the signal stopWine forwards first
  recorded,        \* runtimeRecorded
  result,          \* RunResult and whether an error is returned
  candidate,       \* OnReady is set
  outcome,         \* promotionOutcome
  verdict,         \* what launch concludes
  \* Runtime in state.json
  runtime,
  \* history and bounds
  reason, arrived, faults

channels == <<winecfg, readiness, failure, signals, expired, armed, parentDone, cancelled>>
processes == <<xvfb, wine, wineExit, sent, monitor>>
locals == <<received, recorded, result, candidate, outcome, verdict>>
history == <<reason, arrived, faults>>
vars == <<pc, caller, channels, processes, locals, runtime, history>>

Gone(process) == process \in {"none", "reaped"}

Goto(point) == pc' = point /\ UNCHANGED caller

(* Leave Run with an error; the deferred function takes over. *)
Fail(why) ==
  /\ result' = [result EXCEPT !.failed = TRUE] /\ reason' = why
  /\ Goto("unwind")
  /\ UNCHANGED <<received, recorded, candidate, outcome, verdict, arrived, faults>>

(* cancelRun, then stopWine with the given first signal. *)
StopFor(why, signal, fails) ==
  /\ cancelled' = TRUE
  /\ result' = [result EXCEPT !.failed = @ \/ fails] /\ reason' = why
  /\ received' = signal
  /\ pc' = "stopWine" /\ caller' = "run"
  /\ UNCHANGED <<recorded, candidate, outcome, verdict, arrived, faults>>
  /\ UNCHANGED <<winecfg, readiness, failure, expired, armed, parentDone>>

(* Store.Save of a new runtime record: written, or failing before or after
   the rename. *)
Saving(new, succeeds) ==
  \/ succeeds /\ runtime' = new /\ UNCHANGED faults
  \/ /\ ~succeeds /\ faults < MaxFaults /\ faults' = faults + 1
     /\ runtime' \in {runtime, new}

-----------------------------------------------------------------------------
(* winecfg, Xvfb and Wine are started one after the other. *)

InitDone ==
  /\ pc = "init" /\ winecfg # "running"
  /\ IF winecfg = "ok" THEN Goto("startXvfb") /\ UNCHANGED <<locals, history>> ELSE Fail("init")
  /\ UNCHANGED <<channels, processes, runtime>>

(* A signal or the deadline: cancel, then wait for InitializeWine. *)
InitSignal ==
  /\ pc = "init" /\ signals # <<>>
  /\ signals' = Tail(signals)
  /\ Goto("initAbort")
  /\ UNCHANGED <<winecfg, readiness, failure, expired, armed, parentDone, cancelled>>
  /\ UNCHANGED <<processes, locals, runtime, history>>

InitExpired ==
  /\ pc = "init" /\ (expired \/ parentDone)
  /\ Goto("initAbort")
  /\ UNCHANGED <<channels, processes, locals, runtime, history>>

InitAbort ==
  /\ pc = "initAbort" /\ winecfg # "running" /\ Fail("init")
  /\ UNCHANGED <<channels, processes, runtime>>

StartXvfb ==
  /\ pc = "startXvfb" /\ ~expired /\ ~parentDone
  /\ xvfb' = "alive" /\ Goto("display")
  /\ UNCHANGED <<channels, wine, wineExit, sent, monitor, locals, runtime, history>>

StartXvfbFails ==
  /\ pc = "startXvfb" /\ Fail("xvfb")
  /\ UNCHANGED <<channels, processes, runtime>>

(* The display number is read and the start ticks of a live Xvfb. *)
DisplayRead ==
  /\ pc = "display" /\ xvfb = "alive" /\ Goto("startWine")
  /\ UNCHANGED <<channels, processes, locals, runtime, history>>

(* No display, no start ticks, or a BepInEx log that cannot be removed. *)
DisplayFails ==
  /\ pc = "display" /\ Fail("xvfb")
  /\ UNCHANGED <<channels, processes, runtime>>

StartWine ==
  /\ pc = "startWine" /\ ~parentDone
  /\ wine' = "alive" /\ Goto("recordWine")
  /\ UNCHANGED <<channels, xvfb, wineExit, sent, monitor, locals, runtime, history>>

StartWineFails ==
  /\ pc = "startWine" /\ Fail("wine")
  /\ UNCHANGED <<channels, processes, runtime>>

StartTicksMissing ==
  /\ pc = "recordWine" /\ wine # "alive" /\ Fail("wine")
  /\ UNCHANGED <<channels, processes, runtime>>

Starting == [phase |-> "starting", ready |-> FALSE]

(* Save the identity of the server, then start the monitor. *)
RecordStarting ==
  /\ pc = "recordWine" /\ wine = "alive"
  /\ Saving(Starting, TRUE)
  /\ recorded' = TRUE /\ monitor' = "watching" /\ Goto("select")
  /\ UNCHANGED <<channels, xvfb, wine, wineExit, sent>>
  /\ UNCHANGED <<received, result, candidate, outcome, verdict, reason, arrived>>

RecordStartingFails ==
  /\ pc = "recordWine" /\ wine = "alive"
  /\ Saving(Starting, FALSE)
  /\ result' = [result EXCEPT !.failed = TRUE] /\ reason' = "save" /\ Goto("unwind")
  /\ UNCHANGED <<channels, processes, received, recorded, candidate, outcome, verdict, arrived>>

-----------------------------------------------------------------------------
(* The select of Run: any of these that is enabled may be taken. *)

Deadline ==
  /\ pc = "select" /\ armed /\ expired /\ Fail("deadline")
  /\ UNCHANGED <<channels, processes, runtime>>

MonitorFailed ==
  /\ pc = "select" /\ failure /\ Fail("monitor")
  /\ UNCHANGED <<channels, processes, runtime>>

XvfbExited ==
  /\ pc = "select" /\ xvfb = "reaped" /\ StopFor("xvfb", SIGTERM, TRUE)
  /\ UNCHANGED <<signals, processes, runtime>>

(* wineExitError looks at Xvfb too. *)
WineExited ==
  /\ pc = "select" /\ wine = "reaped"
  /\ cancelled' = TRUE
  /\ result' = [result EXCEPT !.exit = wineExit, !.failed = (xvfb = "reaped")]
  /\ reason' = "wine" /\ Goto("unwind")
  /\ UNCHANGED <<winecfg, readiness, failure, signals, expired, armed, parentDone>>
  /\ UNCHANGED <<received, recorded, candidate, outcome, verdict, arrived, faults, processes, runtime>>

SignalReceived ==
  /\ pc = "select" /\ signals # <<>> /\ StopFor("signal", Head(signals), FALSE)
  /\ signals' = Tail(signals)
  /\ UNCHANGED <<processes, runtime>>

ParentCancelled ==
  /\ pc = "select" /\ parentDone /\ StopFor("cancelled", SIGTERM, TRUE)
  /\ UNCHANGED <<signals, processes, runtime>>

ReadinessArrives ==
  /\ pc = "select" /\ readiness
  /\ readiness' = FALSE /\ Goto("checkBefore")
  /\ UNCHANGED <<winecfg, failure, signals, expired, armed, parentDone, cancelled>>
  /\ UNCHANGED <<processes, locals, runtime, history>>

BothAlive == xvfb = "alive" /\ wine = "alive"

(* verifyAlive of Xvfb and of Wine, before and after OnReady. *)
Check ==
  /\ pc \in {"checkBefore", "checkAfter"}
  /\ IF BothAlive
     THEN /\ Goto(IF pc = "checkBefore" /\ candidate THEN "commit" ELSE "saveReady")
          /\ UNCHANGED <<channels, locals, history>>
     ELSE StopFor("dead", SIGTERM, TRUE) /\ UNCHANGED signals
  /\ UNCHANGED <<processes, runtime>>

(* OnReady, that is ModManager.CommitPromotion. *)
Commit ==
  /\ pc = "commit"
  /\ outcome' = "committed" /\ Goto("checkAfter")
  /\ UNCHANGED <<channels, processes, received, recorded, result, candidate, verdict, runtime, history>>

CommitFails(o) ==
  /\ pc = "commit"
  /\ outcome' = o
  /\ cancelled' = TRUE /\ result' = [result EXCEPT !.failed = TRUE] /\ reason' = "commit"
  /\ received' = SIGTERM /\ pc' = "stopWine" /\ caller' = "run"
  /\ UNCHANGED <<winecfg, readiness, failure, signals, expired, armed, parentDone>>
  /\ UNCHANGED <<processes, recorded, candidate, verdict, runtime, arrived, faults>>

Serving == [phase |-> "ready", ready |-> TRUE]

(* Record readiness; from here on the startup deadline counts no more. *)
SaveReady ==
  /\ pc = "saveReady"
  /\ Saving(Serving, TRUE)
  /\ result' = [result EXCEPT !.ready = TRUE] /\ armed' = FALSE
  /\ Goto("select")
  /\ UNCHANGED <<winecfg, readiness, failure, signals, expired, parentDone, cancelled>>
  /\ UNCHANGED <<processes, received, recorded, candidate, outcome, verdict, reason, arrived>>

SaveReadyFails ==
  /\ pc = "saveReady"
  /\ Saving(Serving, FALSE)
  /\ cancelled' = TRUE /\ result' = [result EXCEPT !.failed = TRUE] /\ reason' = "save"
  /\ received' = SIGTERM /\ pc' = "stopWine" /\ caller' = "run"
  /\ UNCHANGED <<winecfg, readiness, failure, signals, expired, armed, parentDone>>
  /\ UNCHANGED <<processes, recorded, candidate, outcome, verdict, arrived>>

-----------------------------------------------------------------------------
(* stopWine: first signal, wineserver -k, SIGKILL *)

(* Faulty variant: forgives every status a signal causes. *)
StopReturnsForgiving ==
  /\ wine = "reaped"
  /\ IF caller = "run"
     THEN /\ result' = [result EXCEPT !.exit =
                          IF reason = "signal" /\ wineExit >= 128 THEN 0 ELSE wineExit]
          /\ pc' = "unwind"
     ELSE pc' = "stopXvfb" /\ UNCHANGED result
  /\ UNCHANGED <<caller, channels, processes, received, recorded, candidate, outcome, verdict, runtime, history>>

(* What Run does when stopWine returns: take over the exit status, forgiving
   the status the forwarded signal causes; the deferred call goes on. *)
StopReturns ==
  /\ wine = "reaped"
  /\ IF caller = "run"
     THEN /\ result' = [result EXCEPT !.exit =
                          IF reason = "signal" /\ wineExit = 128 + received THEN 0 ELSE wineExit]
          /\ pc' = "unwind"
     ELSE pc' = "stopXvfb" /\ UNCHANGED result
  /\ UNCHANGED <<caller, channels, processes, received, recorded, candidate, outcome, verdict, runtime, history>>

StopWine ==
  /\ pc = "stopWine" /\ wine # "reaped"
  /\ sent' = received /\ Goto("waitFirst")
  /\ UNCHANGED <<channels, xvfb, wine, wineExit, monitor, locals, runtime, history>>

WineStopped ==
  /\ pc \in {"stopWine", "waitFirst", "waitServer", "waitKill"} /\ StopReturns

(* The graceful wait is over: wineserver -k, which may fail. *)
KillWineServer(fails) ==
  /\ pc = "waitFirst"
  /\ result' = [result EXCEPT !.failed = @ \/ fails]
  /\ Goto("waitServer")
  /\ UNCHANGED <<channels, processes, received, recorded, candidate, outcome, verdict, runtime, history>>

(* Faulty variant: the last resort repeats the first signal. *)
KillWinePolitely ==
  /\ pc = "waitServer"
  /\ sent' = received /\ Goto("waitKill")
  /\ UNCHANGED <<channels, xvfb, wine, wineExit, monitor, locals, runtime, history>>

KillWine ==
  /\ pc = "waitServer"
  /\ sent' = SIGKILL /\ Goto("waitKill")
  /\ UNCHANGED <<channels, xvfb, wine, wineExit, monitor, locals, runtime, history>>

-----------------------------------------------------------------------------
(* The deferred function of Run, then launch *)

(* Faulty variant: waits for the monitor without cancelling runCtx. *)
UnwindWaits ==
  /\ pc = "unwind" /\ Goto("join")
  /\ UNCHANGED <<channels, processes, locals, runtime, history>>

Unwind ==
  /\ pc = "unwind"
  /\ cancelled' = TRUE /\ Goto("join")
  /\ UNCHANGED <<winecfg, readiness, failure, signals, expired, armed, parentDone>>
  /\ UNCHANGED <<processes, locals, runtime, history>>

(* The monitor goroutine has ended. *)
JoinMonitor ==
  /\ pc = "join" /\ monitor \in {"none", "ended"}
  /\ IF Gone(wine)
     THEN Goto("stopXvfb") /\ UNCHANGED received
     ELSE pc' = "stopWine" /\ caller' = "defer" /\ received' = SIGTERM
  /\ UNCHANGED <<channels, processes, recorded, result, candidate, outcome, verdict, runtime, history>>

(* stopProcess of Xvfb *)
StopXvfb ==
  /\ pc = "stopXvfb"
  /\ Goto(IF Gone(xvfb) THEN "record" ELSE "waitXvfb")
  /\ UNCHANGED <<channels, processes, locals, runtime, history>>

(* Faulty variant: the wait for Xvfb ends with the timeout. *)
XvfbAbandoned ==
  /\ pc \in {"waitXvfb", "waitXvfbKill"} /\ Goto("record")
  /\ UNCHANGED <<channels, processes, locals, runtime, history>>

XvfbStopped ==
  /\ pc \in {"waitXvfb", "waitXvfbKill"} /\ xvfb = "reaped" /\ Goto("record")
  /\ UNCHANGED <<channels, processes, locals, runtime, history>>

KillXvfb ==
  /\ pc = "waitXvfb" /\ Goto("waitXvfbKill")
  /\ UNCHANGED <<channels, processes, locals, runtime, history>>

Stopped == [phase |-> "stopped", ready |-> FALSE]

RecordStopped ==
  /\ pc = "record" /\ Goto("returned")
  /\ IF recorded
     THEN \E succeeds \in BOOLEAN :
            /\ Saving(Stopped, succeeds)
            /\ result' = [result EXCEPT !.failed = @ \/ ~succeeds]
     ELSE UNCHANGED <<runtime, faults, result>>
  /\ UNCHANGED <<channels, processes, received, recorded, candidate, outcome, verdict, reason, arrived>>

(* Faulty variant: a promotion in doubt is rolled back. *)
VerdictInDoubt ==
  IF ~result.ready
  THEN IF candidate /\ outcome # "committed" THEN "rollback" ELSE "unready"
  ELSE IF candidate /\ outcome # "committed" THEN "unready"
  ELSE IF result.failed THEN "shutdown"
  ELSE IF result.exit # 0 THEN "status" ELSE "clean"

(* launch *)
Verdict ==
  IF ~result.ready
  THEN IF candidate /\ outcome = "notCommitted" THEN "rollback" ELSE "unready"
  ELSE IF candidate /\ outcome # "committed" THEN "unready"
  ELSE IF result.failed THEN "shutdown"
  ELSE IF result.exit # 0 THEN "status" ELSE "clean"

Conclude ==
  /\ pc = "returned" /\ Goto("concluded")
  /\ verdict' = Verdict
  /\ UNCHANGED <<channels, processes, received, recorded, result, candidate, outcome, runtime, history>>

-----------------------------------------------------------------------------
(* The environment: goroutines, timers, processes and whoever stops the
   container *)

InitializeWineReturns(status) ==
  /\ winecfg = "running" /\ pc \in {"init", "initAbort"}
  /\ winecfg' = status
  /\ UNCHANGED <<readiness, failure, signals, expired, armed, parentDone, cancelled>>
  /\ UNCHANGED <<pc, caller, processes, locals, runtime, history>>

(* Run still looks at its channels and contexts: once it stops the processes,
   neither another signal nor a deadline makes a difference. *)
Listening ==
  pc \in {"init", "startXvfb", "display", "startWine", "recordWine", "select",
          "checkBefore", "commit", "checkAfter", "saveReady"}

StartupTimeout ==
  /\ armed /\ ~expired /\ Listening
  /\ expired' = TRUE
  /\ UNCHANGED <<winecfg, readiness, failure, signals, armed, parentDone, cancelled>>
  /\ UNCHANGED <<pc, caller, processes, locals, runtime, history>>

MonitorAnnounces ==
  /\ monitor = "watching" /\ Listening
  /\ monitor' = "announced" /\ readiness' = TRUE
  /\ UNCHANGED <<winecfg, failure, signals, expired, armed, parentDone, cancelled>>
  /\ UNCHANGED <<pc, caller, xvfb, wine, wineExit, sent, locals, runtime, history>>

(* A fatal line, an unreadable log, or runCtx is cancelled. *)
MonitorEnds ==
  /\ monitor \in {"watching", "announced"}
  /\ monitor' = "ended" /\ failure' = TRUE
  /\ UNCHANGED <<winecfg, readiness, signals, expired, armed, parentDone, cancelled>>
  /\ UNCHANGED <<pc, caller, xvfb, wine, wineExit, sent, locals, runtime, history>>

XvfbDies ==
  /\ xvfb = "alive" /\ xvfb' = "dead"
  /\ UNCHANGED <<pc, caller, channels, wine, wineExit, sent, monitor, locals, runtime, history>>

WineDies(status) ==
  /\ wine = "alive" /\ wine' = "dead"
  /\ \/ sent # SIGKILL /\ status \in {0, 1}
     \/ sent # 0 /\ status = 128 + sent
  /\ wineExit' = status
  /\ UNCHANGED <<pc, caller, channels, xvfb, sent, monitor, locals, runtime, history>>

(* newRunningProcess: the goroutine that waits for a process closes done. *)
ReapXvfb ==
  /\ xvfb = "dead" /\ xvfb' = "reaped"
  /\ UNCHANGED <<pc, caller, channels, wine, wineExit, sent, monitor, locals, runtime, history>>

ReapWine ==
  /\ wine = "dead" /\ wine' = "reaped"
  /\ UNCHANGED <<pc, caller, channels, xvfb, wineExit, sent, monitor, locals, runtime, history>>

(* signal.Notify drops what does not fit into the channel. *)
SignalArrives(s) ==
  /\ arrived < MaxSignals /\ Listening
  /\ arrived' = arrived + 1
  /\ signals' = IF Len(signals) < 2 THEN Append(signals, s) ELSE signals
  /\ UNCHANGED <<winecfg, readiness, failure, expired, armed, parentDone, cancelled>>
  /\ UNCHANGED <<pc, caller, processes, locals, runtime, reason, faults>>

CancelParent ==
  /\ ~parentDone /\ Listening
  /\ parentDone' = TRUE /\ cancelled' = TRUE
  /\ UNCHANGED <<winecfg, readiness, failure, signals, expired, armed>>
  /\ UNCHANGED <<pc, caller, processes, locals, runtime, history>>

-----------------------------------------------------------------------------
Init ==
  /\ pc = "init" /\ caller = "run"
  /\ winecfg = "running" /\ readiness = FALSE /\ failure = FALSE /\ signals = <<>>
  /\ expired = FALSE /\ armed = TRUE /\ parentDone = FALSE /\ cancelled = FALSE
  /\ xvfb = "none" /\ wine = "none" /\ wineExit = 0 /\ sent = 0 /\ monitor = "none"
  /\ received = SIGTERM /\ recorded = FALSE
  /\ result = [ready |-> FALSE, exit |-> 0, failed |-> FALSE]
  /\ candidate \in BOOLEAN /\ outcome = "notCommitted" /\ verdict = "none"
  /\ runtime = [phase |-> "none", ready |-> FALSE]
  /\ reason = "none" /\ arrived = 0 /\ faults = 0

StartStep ==
  \/ InitDone \/ InitSignal \/ InitExpired \/ InitAbort
  \/ StartXvfb \/ StartXvfbFails \/ DisplayRead \/ DisplayFails
  \/ StartWine \/ StartWineFails \/ StartTicksMissing
  \/ RecordStarting \/ RecordStartingFails

SelectStep ==
  \/ Deadline \/ MonitorFailed \/ XvfbExited \/ WineExited \/ SignalReceived
  \/ ParentCancelled \/ ReadinessArrives
  \/ Check \/ Commit \/ SaveReady \/ SaveReadyFails
  \/ \E o \in {"notCommitted", "recoveryRequired"} : CommitFails(o)

StopStep ==
  \/ StopWine \/ WineStopped \/ KillWine
  \/ \E fails \in BOOLEAN : KillWineServer(fails)

UnwindStep ==
  \/ Unwind \/ JoinMonitor \/ StopXvfb \/ XvfbStopped \/ KillXvfb
  \/ RecordStopped \/ Conclude

Run == StartStep \/ SelectStep \/ StopStep \/ UnwindStep

Exits == {0, 1, 128 + SIGINT, 128 + SIGKILL, 128 + SIGTERM}

Environment ==
  \/ \E status \in {"ok", "failed"} : InitializeWineReturns(status)
  \/ StartupTimeout \/ MonitorAnnounces \/ MonitorEnds
  \/ XvfbDies \/ ReapXvfb \/ ReapWine
  \/ \E status \in Exits : WineDies(status)
  \/ \E s \in {SIGINT, SIGTERM} : SignalArrives(s)
  \/ CancelParent

Next == Run \/ Environment

Spec == Init /\ [][Next]_vars

(* Run takes the steps it can take, timers expire, a process that is killed
   dies and is waited for, winecfg returns once it is cancelled (WaitDelay),
   the monitor looks at runCtx in every round.  Nothing makes the game exit, the
   monitor announce readiness or a signal arrive. *)
FairSpec ==
  /\ Spec
  /\ WF_vars(Run)
  /\ WF_vars(StartupTimeout)
  /\ WF_vars(pc = "initAbort" /\ InitializeWineReturns("failed"))
  /\ WF_vars(cancelled /\ MonitorEnds)
  /\ WF_vars(sent = SIGKILL /\ WineDies(128 + SIGKILL))
  /\ WF_vars(pc = "waitXvfbKill" /\ XvfbDies)
  /\ WF_vars(ReapXvfb) /\ WF_vars(ReapWine)

-----------------------------------------------------------------------------
(* Properties *)

Points ==
  {"init", "initAbort", "startXvfb", "display", "startWine", "recordWine", "select",
   "checkBefore", "commit", "checkAfter", "saveReady", "stopWine", "waitFirst",
   "waitServer", "waitKill", "unwind", "join", "stopXvfb", "waitXvfb", "waitXvfbKill",
   "record", "returned", "concluded"}

Reasons ==
  {"none", "init", "xvfb", "wine", "save", "deadline", "monitor", "signal", "cancelled",
   "dead", "commit"}

Results == [ready : BOOLEAN, exit : Exits, failed : BOOLEAN]
Runtimes == [phase : {"none", "starting", "ready", "stopped"}, ready : BOOLEAN]

States == {"none", "alive", "dead", "reaped"}

ChannelsOK ==
  /\ winecfg \in {"running", "ok", "failed"}
  /\ readiness \in BOOLEAN /\ failure \in BOOLEAN /\ expired \in BOOLEAN
  /\ armed \in BOOLEAN /\ parentDone \in BOOLEAN /\ cancelled \in BOOLEAN
  /\ signals \in Seq({SIGINT, SIGTERM}) /\ Len(signals) <= 2

ProcessesOK ==
  /\ xvfb \in States /\ wine \in States
  /\ wineExit \in Exits /\ sent \in {0, SIGINT, SIGKILL, SIGTERM}
  /\ monitor \in {"none", "watching", "announced", "ended"}

LocalsOK ==
  /\ pc \in Points /\ caller \in {"run", "defer"}
  /\ received \in {SIGINT, SIGTERM} /\ recorded \in BOOLEAN /\ candidate \in BOOLEAN
  /\ outcome \in {"notCommitted", "recoveryRequired", "committed"}
  /\ verdict \in {"none", "rollback", "unready", "shutdown", "status", "clean"}
  /\ reason \in Reasons /\ arrived \in Nat /\ faults \in Nat

(* Every variable keeps the type of the local, channel or record it stands for. *)
TypeOK ==
  /\ ChannelsOK
  /\ ProcessesOK
  /\ LocalsOK
  /\ result \in Results /\ runtime \in Runtimes

(* Whatever ended the run and wherever it was, Run returns only after both
   processes have been waited for: no game runs when launch rolls back. *)
NoProcessLeft == pc \in {"returned", "concluded"} => Gone(xvfb) /\ Gone(wine)

(* state.json never calls a candidate ready before its promotion is committed. *)
ReadyIsPromoted == candidate /\ (runtime.ready \/ result.ready) => outcome = "committed"

(* A game once ready is not stopped by the startup deadline or by anything else
   than a process that ended, the log monitor, or a request. *)
ReadyOutlivesStartup ==
  result.ready => reason \in {"none", "wine", "xvfb", "signal", "monitor", "cancelled"}

(* A returned run is recorded as stopped unless writing state.json failed, and a
   record that still says ready is reported as an error. *)
StoppedRecorded ==
  pc = "concluded" =>
    /\ faults = 0 => runtime.phase \in {"none", "stopped"}
    /\ runtime.ready => result.failed

(* Exit status 0 is kept for a game that was ready and then ended by itself with
   status 0 or by the very signal the container was sent, not by an escalation. *)
NoSilentFailure ==
  verdict = "clean" =>
    /\ result.ready /\ reason \in {"wine", "signal"}
    /\ wineExit \in {0} \cup (IF reason = "signal" THEN {128 + received} ELSE {})

(* A signal, or the loss of a process, always ends the run, also while Wine
   ignores the signal or the log monitor hangs on to its files. *)
EndsWhenItMust ==
  signals # <<>> \/ xvfb = "dead" \/ wine = "dead" ~> pc = "concluded"

Lifecycle == INSTANCE ServerRun WITH
  stage <- IF pc \in {"returned", "concluded"} THEN "stopped"
           ELSE IF result.ready THEN "serving" ELSE "starting",
  trial <- IF ~candidate THEN "none"
           ELSE IF verdict = "rollback" THEN "dropped"
           ELSE IF outcome = "committed" THEN "promoted"
           ELSE IF outcome = "recoveryRequired" THEN "inDoubt" ELSE "pending"

(* Seen by launch, a run starts, perhaps serves, and stops: it serves a candidate
   only once promoted, and drops it only when nothing runs or was promoted. *)
ImplementsServerRun == Lifecycle!Spec
ImplementsServerRunSafely == Lifecycle!SafeSpec

=============================================================================
