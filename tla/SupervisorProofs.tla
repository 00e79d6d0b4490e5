-------------------------- MODULE SupervisorProofs --------------------------
(***************************************************************************)
(* The safety properties of Supervisor, proved for every bound on signals  *)
(* and faults, from one inductive invariant IInv.  Each of its parts says  *)
(* what a stage of Run may rely on: which processes exist, that readiness  *)
(* is announced once and handled once, what has been recorded, and which   *)
(* reasons allow a run to end without an error.                            *)
(***************************************************************************)
EXTENDS Supervisor, TLAPS

-----------------------------------------------------------------------------
(* The inductive invariant *)

BeforeXvfb == {"init", "initAbort", "startXvfb"}
BeforeWine == BeforeXvfb \cup {"display", "startWine"}
BeforeSelect == BeforeWine \cup {"recordWine"}
Deciding == {"checkBefore", "commit", "checkAfter", "saveReady"}
Stopping == {"stopWine", "waitFirst", "waitServer", "waitKill"}
WineGone == {"stopXvfb", "waitXvfb", "waitXvfbKill", "record", "returned", "concluded"}
AllGone == {"record", "returned", "concluded"}
Unwinding == {"unwind", "join"} \cup WineGone

(* Which processes can exist where: nothing is left once Run records its end. *)
ProcessInv ==
  /\ pc \in BeforeXvfb => xvfb = "none"
  /\ pc \in BeforeWine => wine = "none"
  /\ pc \in {"recordWine", "select"} \cup Deciding \cup Stopping => wine # "none"
  /\ pc \in WineGone => Gone(wine)
  /\ pc \in AllGone => Gone(xvfb)

(* Readiness is announced at most once, so what follows it happens at most once;
   a candidate gets past OnReady only with a committed promotion. *)
ReadinessInv ==
  /\ pc \in BeforeSelect => monitor = "none"
  /\ monitor \in {"none", "watching"} =>
       /\ ~readiness /\ pc \notin Deciding
       /\ ~result.ready /\ ~runtime.ready /\ outcome = "notCommitted"
  /\ readiness \/ pc \in {"checkBefore", "commit"} =>
       ~result.ready /\ ~runtime.ready /\ outcome = "notCommitted"
  /\ readiness => pc \notin Deciding
  /\ pc = "commit" => candidate
  /\ pc = "checkAfter" => outcome = "committed"
  /\ pc \in Deciding => ~result.ready /\ ~runtime.ready
  /\ candidate /\ pc = "saveReady" => outcome = "committed"
  /\ result.ready => ~armed /\ pc \notin BeforeSelect

(* The record follows the run: there is none before it is saved, and unless a
   write failed the last one is "stopped". *)
RecordInv ==
  /\ pc \in BeforeSelect => ~recorded
  /\ pc \in {"select"} \cup Deciding => recorded
  /\ ~recorded => ~runtime.ready /\ (runtime.phase = "none" \/ faults > 0)
  /\ pc \in {"returned", "concluded"} =>
       /\ faults = 0 => runtime.phase \in {"none", "stopped"}
       /\ runtime.ready => result.failed

(* A run that ends without an error was asked to, or Wine ended by itself. *)
EndingInv ==
  /\ pc \in BeforeSelect \cup {"select"} \cup Deciding => reason = "none"
  /\ pc \in Stopping /\ caller = "run" /\ ~result.failed => reason = "signal"
  /\ pc \in Stopping /\ caller = "defer" => result.failed
  /\ pc \in Unwinding /\ ~result.failed =>
       /\ reason \in {"wine", "signal"} /\ wine = "reaped"
       /\ result.exit = 0 =>
            wineExit \in {0} \cup (IF reason = "signal" THEN {128 + received} ELSE {})
  /\ verdict # "none" => pc = "concluded"
  /\ verdict = "rollback" => candidate /\ outcome = "notCommitted"
  /\ verdict = "clean" => result.ready /\ ~result.failed /\ result.exit = 0

IInv ==
  /\ TypeOK
  /\ ProcessInv
  /\ ReadinessInv
  /\ RecordInv
  /\ EndingInv
  /\ ReadyIsPromoted
  /\ ReadyOutlivesStartup

(* The three records Run writes. *)
LEMMA RuntimeRecords ==
  /\ Starting \in Runtimes /\ Serving \in Runtimes /\ Stopped \in Runtimes
  /\ ~Starting.ready /\ Stopped.phase = "stopped" /\ ~Stopped.ready
BY DEF Starting, Serving, Stopped, Runtimes

(* Leaving Run with an error, from any point before the game is stopped. *)
LEMMA FailInv ==
  ASSUME IInv, NEW why \in Reasons, Fail(why), UNCHANGED <<channels, processes, runtime>>,
         pc \in BeforeSelect \cup {"select"}, result.ready => why = "monitor"
  PROVE  IInv'
<1> USE DEF IInv, BeforeXvfb, BeforeWine, BeforeSelect, Deciding, Stopping, WineGone,
  AllGone, Unwinding, Gone, vars, channels, processes, locals, history
<1>t. /\ result \in Results /\ runtime \in Runtimes /\ faults \in Nat
      /\ caller \in {"run", "defer"} /\ 0 \in Exits
  BY DEF TypeOK, LocalsOK, Exits
<1>1. result' \in Results /\ runtime' \in Runtimes
  BY <1>t DEF Fail, Goto, TypeOK, ProcessesOK, LocalsOK, Results, Runtimes
<1>2. TypeOK'
  <2>1. ChannelsOK'
    BY <1>t DEF Fail, Goto, TypeOK, ChannelsOK
  <2>2. ProcessesOK'
    BY <1>t DEF Fail, Goto, TypeOK, ProcessesOK
  <2>3. LocalsOK'
    BY <1>t DEF Fail, Goto, TypeOK, ChannelsOK, LocalsOK, Points, Reasons, SIGTERM
  <2> QED
    BY <1>1, <2>1, <2>2, <2>3 DEF TypeOK
<1>3. ProcessInv' /\ ReadinessInv' /\ ReadyIsPromoted' /\ ReadyOutlivesStartup'
  BY <1>t DEF Fail, Goto, ProcessInv, ReadinessInv, ReadyIsPromoted,
    ReadyOutlivesStartup, EndingInv, Results
<1>4. RecordInv' /\ EndingInv'
  BY <1>t DEF Fail, Goto, ProcessInv, ReadinessInv, RecordInv, EndingInv, Results,
    Runtimes, SIGTERM
<1> QED
  BY <1>2, <1>3, <1>4

(* Turning to stopWine, because of an error or of a signal. *)
LEMMA StopForInv ==
  ASSUME IInv, NEW why \in Reasons, NEW signal \in {SIGINT, SIGTERM}, NEW fails \in BOOLEAN,
         StopFor(why, signal, fails), UNCHANGED <<processes, runtime>>,
         signals' \in Seq({SIGINT, SIGTERM}), Len(signals') <= 2,
         pc \in {"select"} \cup Deciding, fails \/ why = "signal",
         result.ready => why \in {"xvfb", "signal", "cancelled"}
  PROVE  IInv'
<1> USE DEF IInv, BeforeXvfb, BeforeWine, BeforeSelect, Deciding, Stopping, WineGone,
  AllGone, Unwinding, Gone, vars, channels, processes, locals, history
<1>t. /\ result \in Results /\ runtime \in Runtimes /\ faults \in Nat
      /\ caller \in {"run", "defer"} /\ 0 \in Exits
  BY DEF TypeOK, LocalsOK, Exits
<1>1. result' \in Results /\ runtime' \in Runtimes
  BY <1>t DEF StopFor, TypeOK, ProcessesOK, LocalsOK, Results, Runtimes
<1>2. TypeOK'
  <2>1. ChannelsOK'
    BY <1>t DEF StopFor, TypeOK, ChannelsOK
  <2>2. ProcessesOK'
    BY <1>t DEF StopFor, TypeOK, ProcessesOK
  <2>3. LocalsOK'
    BY <1>t DEF StopFor, TypeOK, ChannelsOK, LocalsOK, Points, Reasons, SIGTERM
  <2> QED
    BY <1>1, <2>1, <2>2, <2>3 DEF TypeOK
<1>3. ProcessInv' /\ ReadinessInv' /\ ReadyIsPromoted' /\ ReadyOutlivesStartup'
  BY <1>t DEF StopFor, ProcessInv, ReadinessInv, ReadyIsPromoted, ReadyOutlivesStartup,
    EndingInv, Results
<1>4. RecordInv' /\ EndingInv'
  BY <1>t DEF StopFor, ProcessInv, ReadinessInv, RecordInv, EndingInv, Results,
    Runtimes, SIGTERM
<1> QED
  BY <1>2, <1>3, <1>4

(* Starting Wine and Xvfb, one step at a time. *)
LEMMA StartStepInv == IInv /\ StartStep => IInv'
<1> SUFFICES ASSUME IInv, StartStep PROVE IInv'
  OBVIOUS
<1> USE DEF IInv, BeforeXvfb, BeforeWine, BeforeSelect, Deciding, Stopping, WineGone,
  AllGone, Unwinding, Gone, vars, channels, processes, locals, history
<1>t. /\ result \in Results /\ runtime \in Runtimes /\ faults \in Nat
      /\ caller \in {"run", "defer"} /\ 0 \in Exits
  BY DEF TypeOK, LocalsOK, Exits
<1>1. CASE InitDone
  <2>1. CASE winecfg = "ok"
    BY <1>1, <2>1 DEF InitDone, Goto, TypeOK, ProcessInv, ReadinessInv, RecordInv,
      EndingInv, ReadyIsPromoted, ReadyOutlivesStartup, ChannelsOK, ProcessesOK,
      LocalsOK, States, Points, Reasons, Exits, SIGINT, SIGKILL, SIGTERM
  <2>2. CASE winecfg # "ok"
    BY <1>1, <2>2, FailInv DEF InitDone, ReadinessInv, Reasons
  <2> QED
    BY <2>1, <2>2
<1>2. CASE InitSignal
  BY <1>2 DEF InitSignal, Goto, TypeOK, ProcessInv, ReadinessInv, RecordInv, EndingInv,
    ReadyIsPromoted, ReadyOutlivesStartup, ChannelsOK, ProcessesOK, LocalsOK, States,
    Points, Reasons, Exits, SIGINT, SIGKILL, SIGTERM
<1>3. CASE InitExpired
  BY <1>3 DEF InitExpired, Goto, TypeOK, ProcessInv, ReadinessInv, RecordInv, EndingInv,
    ReadyIsPromoted, ReadyOutlivesStartup, ChannelsOK, ProcessesOK, LocalsOK, States,
    Points, Reasons, Exits, SIGINT, SIGKILL, SIGTERM
<1>4. CASE InitAbort
  BY <1>4, FailInv DEF InitAbort, ReadinessInv, Reasons
<1>5. CASE StartXvfb
  BY <1>5 DEF StartXvfb, Goto, TypeOK, ProcessInv, ReadinessInv, RecordInv, EndingInv,
    ReadyIsPromoted, ReadyOutlivesStartup, ChannelsOK, ProcessesOK, LocalsOK, States,
    Points, Reasons, Exits, SIGINT, SIGKILL, SIGTERM
<1>6. CASE StartXvfbFails
  BY <1>6, FailInv DEF StartXvfbFails, ReadinessInv, Reasons
<1>7. CASE DisplayRead
  BY <1>7 DEF DisplayRead, Goto, TypeOK, ProcessInv, ReadinessInv, RecordInv, EndingInv,
    ReadyIsPromoted, ReadyOutlivesStartup, ChannelsOK, ProcessesOK, LocalsOK, States,
    Points, Reasons, Exits, SIGINT, SIGKILL, SIGTERM
<1>8. CASE DisplayFails
  BY <1>8, FailInv DEF DisplayFails, ReadinessInv, Reasons
<1>9. CASE StartWine
  BY <1>9 DEF StartWine, Goto, TypeOK, ProcessInv, ReadinessInv, RecordInv, EndingInv,
    ReadyIsPromoted, ReadyOutlivesStartup, ChannelsOK, ProcessesOK, LocalsOK, States,
    Points, Reasons, Exits, SIGINT, SIGKILL, SIGTERM
<1>10. CASE StartWineFails
  BY <1>10, FailInv DEF StartWineFails, ReadinessInv, Reasons
<1>11. CASE StartTicksMissing
  BY <1>11, FailInv DEF StartTicksMissing, ReadinessInv, Reasons
<1>12. CASE RecordStarting
  <2>1. result' \in Results /\ runtime' \in Runtimes
    BY <1>t, <1>12, RuntimeRecords DEF RecordStarting, Goto, Saving, TypeOK,
      ProcessesOK, LocalsOK, Results, Runtimes
  <2>2. TypeOK'
    <3>1. ChannelsOK'
      BY <1>t, <1>12 DEF RecordStarting, Goto, Saving, TypeOK, ChannelsOK
    <3>2. ProcessesOK'
      BY <1>t, <1>12 DEF RecordStarting, Goto, Saving, TypeOK, ProcessesOK
    <3>3. LocalsOK'
      BY <1>t, <1>12 DEF RecordStarting, Goto, Saving, TypeOK, ChannelsOK, LocalsOK,
        Points, Reasons, SIGTERM
    <3> QED
      BY <2>1, <3>1, <3>2, <3>3 DEF TypeOK
  <2>3. ProcessInv' /\ ReadinessInv' /\ ReadyIsPromoted' /\ ReadyOutlivesStartup'
    BY <1>t, <1>12, RuntimeRecords DEF RecordStarting, Goto, Saving, ProcessInv,
      ReadinessInv, ReadyIsPromoted, ReadyOutlivesStartup, EndingInv, Results
  <2>4. RecordInv' /\ EndingInv'
    BY <1>t, <1>12, RuntimeRecords DEF RecordStarting, Goto, Saving, ProcessInv,
      ReadinessInv, RecordInv, EndingInv, Results, Runtimes, SIGTERM
  <2> QED
    BY <2>2, <2>3, <2>4
<1>13. CASE RecordStartingFails
  <2>1. result' \in Results /\ runtime' \in Runtimes
    BY <1>t, <1>13, RuntimeRecords DEF RecordStartingFails, Goto, Saving, TypeOK,
      ProcessesOK, LocalsOK, Results, Runtimes
  <2>2. TypeOK'
    <3>1. ChannelsOK'
      BY <1>t, <1>13 DEF RecordStartingFails, Goto, Saving, TypeOK, ChannelsOK
    <3>2. ProcessesOK'
      BY <1>t, <1>13 DEF RecordStartingFails, Goto, Saving, TypeOK, ProcessesOK
    <3>3. LocalsOK'
      BY <1>t, <1>13 DEF RecordStartingFails, Goto, Saving, TypeOK, ChannelsOK,
        LocalsOK, Points, Reasons, SIGTERM
    <3> QED
      BY <2>1, <3>1, <3>2, <3>3 DEF TypeOK
  <2>3. ProcessInv' /\ ReadinessInv' /\ ReadyIsPromoted' /\ ReadyOutlivesStartup'
    BY <1>t, <1>13, RuntimeRecords DEF RecordStartingFails, Goto, Saving, ProcessInv,
      ReadinessInv, ReadyIsPromoted, ReadyOutlivesStartup, EndingInv, Results
  <2>4. RecordInv' /\ EndingInv'
    BY <1>t, <1>13, RuntimeRecords DEF RecordStartingFails, Goto, Saving, ProcessInv,
      ReadinessInv, RecordInv, EndingInv, Results, Runtimes, SIGTERM
  <2> QED
    BY <2>2, <2>3, <2>4
<1> QED
  BY <1>1, <1>2, <1>3, <1>4, <1>5, <1>6, <1>7, <1>8, <1>9, <1>10, <1>11, <1>12, <1>13
    DEF StartStep

(* The cases of the select and the steps of the readiness case. *)
LEMMA SelectStepInv == IInv /\ SelectStep => IInv'
<1> SUFFICES ASSUME IInv, SelectStep PROVE IInv'
  OBVIOUS
<1> USE DEF IInv, BeforeXvfb, BeforeWine, BeforeSelect, Deciding, Stopping, WineGone,
  AllGone, Unwinding, Gone, vars, channels, processes, locals, history
<1>t. /\ result \in Results /\ runtime \in Runtimes /\ faults \in Nat
      /\ caller \in {"run", "defer"} /\ 0 \in Exits
  BY DEF TypeOK, LocalsOK, Exits
<1>1. CASE Deadline
  BY <1>1, FailInv DEF Deadline, ReadinessInv, Reasons
<1>2. CASE MonitorFailed
  BY <1>2, FailInv DEF MonitorFailed, ReadinessInv, Reasons
<1>3. CASE XvfbExited
  <2>1. /\ StopFor("xvfb", SIGTERM, TRUE) /\ pc = "select"
        /\ "xvfb" \in Reasons /\ UNCHANGED <<processes, runtime>>
    BY <1>3 DEF XvfbExited, Reasons
  <2>2. signals' \in Seq({SIGINT, SIGTERM}) /\ Len(signals') <= 2
    BY <1>3 DEF XvfbExited, TypeOK, ChannelsOK
  <2> HIDE DEF IInv
  <2> QED
    BY <2>1, <2>2, StopForInv
<1>4. CASE WineExited
  <2>1. result' \in Results /\ runtime' \in Runtimes
    BY <1>t, <1>4 DEF WineExited, Goto, TypeOK, ProcessesOK, LocalsOK, Results, Runtimes
  <2>2. TypeOK'
    <3>1. ChannelsOK'
      BY <1>t, <1>4 DEF WineExited, Goto, TypeOK, ChannelsOK
    <3>2. ProcessesOK'
      BY <1>t, <1>4 DEF WineExited, Goto, TypeOK, ProcessesOK
    <3>3. LocalsOK'
      BY <1>t, <1>4 DEF WineExited, Goto, TypeOK, ChannelsOK, LocalsOK, Points, Reasons, SIGTERM
    <3> QED
      BY <2>1, <3>1, <3>2, <3>3 DEF TypeOK
  <2>3. ProcessInv' /\ ReadinessInv' /\ ReadyIsPromoted' /\ ReadyOutlivesStartup'
    BY <1>t, <1>4 DEF WineExited, Goto, ProcessInv, ReadinessInv, ReadyIsPromoted,
      ReadyOutlivesStartup, EndingInv, Results
  <2>4. RecordInv' /\ EndingInv'
    BY <1>t, <1>4 DEF WineExited, Goto, ProcessInv, ReadinessInv, RecordInv,
      EndingInv, Results, Runtimes, SIGTERM
  <2> QED
    BY <2>2, <2>3, <2>4
<1>5. CASE SignalReceived
  <2>1. /\ StopFor("signal", Head(signals), FALSE) /\ pc = "select"
        /\ "signal" \in Reasons /\ UNCHANGED <<processes, runtime>>
    BY <1>5 DEF SignalReceived, Reasons
  <2>2. Head(signals) \in {SIGINT, SIGTERM}
    BY <1>5 DEF SignalReceived, TypeOK, ChannelsOK
  <2>3. signals' \in Seq({SIGINT, SIGTERM}) /\ Len(signals') <= 2
    BY <1>5 DEF SignalReceived, TypeOK, ChannelsOK
  <2> HIDE DEF IInv
  <2> QED
    BY <2>1, <2>2, <2>3, StopForInv
<1>6. CASE ParentCancelled
  <2>1. /\ StopFor("cancelled", SIGTERM, TRUE) /\ pc = "select"
        /\ "cancelled" \in Reasons /\ UNCHANGED <<processes, runtime>>
    BY <1>6 DEF ParentCancelled, Reasons
  <2>2. signals' \in Seq({SIGINT, SIGTERM}) /\ Len(signals') <= 2
    BY <1>6 DEF ParentCancelled, TypeOK, ChannelsOK
  <2> HIDE DEF IInv
  <2> QED
    BY <2>1, <2>2, StopForInv
<1>7. CASE ReadinessArrives
  <2>1. result' \in Results /\ runtime' \in Runtimes
    BY <1>t, <1>7 DEF ReadinessArrives, Goto, TypeOK, ProcessesOK, LocalsOK, Results, Runtimes
  <2>2. TypeOK'
    <3>1. ChannelsOK'
      BY <1>t, <1>7 DEF ReadinessArrives, Goto, TypeOK, ChannelsOK
    <3>2. ProcessesOK'
      BY <1>t, <1>7 DEF ReadinessArrives, Goto, TypeOK, ProcessesOK
    <3>3. LocalsOK'
      BY <1>t, <1>7 DEF ReadinessArrives, Goto, TypeOK, ChannelsOK, LocalsOK,
        Points, Reasons, SIGTERM
    <3> QED
      BY <2>1, <3>1, <3>2, <3>3 DEF TypeOK
  <2>3. ProcessInv' /\ ReadinessInv' /\ ReadyIsPromoted' /\ ReadyOutlivesStartup'
    BY <1>t, <1>7 DEF ReadinessArrives, Goto, ProcessInv, ReadinessInv,
      ReadyIsPromoted, ReadyOutlivesStartup, EndingInv, Results
  <2>4. RecordInv' /\ EndingInv'
    BY <1>t, <1>7 DEF ReadinessArrives, Goto, ProcessInv, ReadinessInv, RecordInv,
      EndingInv, Results, Runtimes, SIGTERM
  <2> QED
    BY <2>2, <2>3, <2>4
<1>8. CASE Check
  <2>1. CASE BothAlive
    BY <1>8, <2>1 DEF Check, Goto, TypeOK, ProcessInv, ReadinessInv, RecordInv,
      EndingInv, ReadyIsPromoted, ReadyOutlivesStartup, ChannelsOK, ProcessesOK,
      LocalsOK, States, Points, Reasons, Exits, SIGINT, SIGKILL, SIGTERM
  <2>2. CASE ~BothAlive
    <3>1. /\ StopFor("dead", SIGTERM, TRUE) /\ pc \in Deciding /\ ~result.ready
          /\ "dead" \in Reasons /\ UNCHANGED <<processes, runtime>>
      BY <1>8, <2>2 DEF Check, Reasons, ReadinessInv
    <3>2. signals' \in Seq({SIGINT, SIGTERM}) /\ Len(signals') <= 2
      BY <1>8, <2>2 DEF Check, TypeOK, ChannelsOK
    <3> HIDE DEF IInv
    <3> QED
      BY <3>1, <3>2, StopForInv
  <2> QED
    BY <2>1, <2>2
<1>9. CASE Commit
  BY <1>9 DEF Commit, Goto, TypeOK, ProcessInv, ReadinessInv, RecordInv, EndingInv,
    ReadyIsPromoted, ReadyOutlivesStartup, ChannelsOK, ProcessesOK, LocalsOK, States,
    Points, Reasons, Exits, SIGINT, SIGKILL, SIGTERM
<1>10. CASE SaveReady
  <2>1. result' \in Results /\ runtime' \in Runtimes
    BY <1>t, <1>10, RuntimeRecords DEF SaveReady, Goto, Saving, TypeOK, ProcessesOK,
      LocalsOK, Results, Runtimes
  <2>2. TypeOK'
    <3>1. ChannelsOK'
      BY <1>t, <1>10 DEF SaveReady, Goto, Saving, TypeOK, ChannelsOK
    <3>2. ProcessesOK'
      BY <1>t, <1>10 DEF SaveReady, Goto, Saving, TypeOK, ProcessesOK
    <3>3. LocalsOK'
      BY <1>t, <1>10 DEF SaveReady, Goto, Saving, TypeOK, ChannelsOK, LocalsOK,
        Points, Reasons, SIGTERM
    <3> QED
      BY <2>1, <3>1, <3>2, <3>3 DEF TypeOK
  <2>3. ProcessInv' /\ ReadinessInv' /\ ReadyIsPromoted' /\ ReadyOutlivesStartup'
    BY SMTT(30), <1>t, <1>10, RuntimeRecords DEF SaveReady, Goto, Saving, ProcessInv,
      ReadinessInv, ReadyIsPromoted, ReadyOutlivesStartup, EndingInv, Results
  <2>4. RecordInv' /\ EndingInv'
    BY SMTT(30), <1>t, <1>10, RuntimeRecords DEF SaveReady, Goto, Saving, ProcessInv,
      ReadinessInv, RecordInv, EndingInv, Results, Runtimes, SIGTERM
  <2> QED
    BY <2>2, <2>3, <2>4
<1>11. CASE SaveReadyFails
  <2>1. result' \in Results /\ runtime' \in Runtimes
    BY <1>t, <1>11, RuntimeRecords DEF SaveReadyFails, Saving, TypeOK, ProcessesOK,
      LocalsOK, Results, Runtimes
  <2>2. TypeOK'
    <3>1. ChannelsOK'
      BY <1>t, <1>11 DEF SaveReadyFails, Saving, TypeOK, ChannelsOK
    <3>2. ProcessesOK'
      BY <1>t, <1>11 DEF SaveReadyFails, Saving, TypeOK, ProcessesOK
    <3>3. LocalsOK'
      BY <1>t, <1>11 DEF SaveReadyFails, Saving, TypeOK, ChannelsOK, LocalsOK,
        Points, Reasons, SIGTERM
    <3> QED
      BY <2>1, <3>1, <3>2, <3>3 DEF TypeOK
  <2>3. ProcessInv' /\ ReadinessInv' /\ ReadyIsPromoted' /\ ReadyOutlivesStartup'
    BY SMTT(30), <1>t, <1>11, RuntimeRecords DEF SaveReadyFails, Saving, ProcessInv,
      ReadinessInv, ReadyIsPromoted, ReadyOutlivesStartup, EndingInv, Results
  <2>4. RecordInv' /\ EndingInv'
    BY SMTT(30), <1>t, <1>11, RuntimeRecords DEF SaveReadyFails, Saving, ProcessInv,
      ReadinessInv, RecordInv, EndingInv, Results, Runtimes, SIGTERM
  <2> QED
    BY <2>2, <2>3, <2>4
<1>12. CASE \E o \in {"notCommitted", "recoveryRequired"} : CommitFails(o)
  <2>1. result' \in Results /\ runtime' \in Runtimes
    BY <1>t, <1>12 DEF CommitFails, TypeOK, ProcessesOK, LocalsOK, Results, Runtimes
  <2>2. TypeOK'
    <3>1. ChannelsOK'
      BY <1>t, <1>12 DEF CommitFails, TypeOK, ChannelsOK
    <3>2. ProcessesOK'
      BY <1>t, <1>12 DEF CommitFails, TypeOK, ProcessesOK
    <3>3. LocalsOK'
      BY <1>t, <1>12 DEF CommitFails, TypeOK, ChannelsOK, LocalsOK, Points, Reasons, SIGTERM
    <3> QED
      BY <2>1, <3>1, <3>2, <3>3 DEF TypeOK
  <2>3. ProcessInv' /\ ReadinessInv' /\ ReadyIsPromoted' /\ ReadyOutlivesStartup'
    BY <1>t, <1>12 DEF CommitFails, ProcessInv, ReadinessInv, ReadyIsPromoted,
      ReadyOutlivesStartup, EndingInv, Results
  <2>4. RecordInv' /\ EndingInv'
    BY <1>t, <1>12 DEF CommitFails, ProcessInv, ReadinessInv, RecordInv, EndingInv,
      Results, Runtimes, SIGTERM
  <2> QED
    BY <2>2, <2>3, <2>4
<1> QED
  BY <1>1, <1>2, <1>3, <1>4, <1>5, <1>6, <1>7, <1>8, <1>9, <1>10, <1>11, <1>12 DEF SelectStep

(* The escalation of stopWine. *)
LEMMA StopStepInv == IInv /\ StopStep => IInv'
<1> SUFFICES ASSUME IInv, StopStep PROVE IInv'
  OBVIOUS
<1> USE DEF IInv, BeforeXvfb, BeforeWine, BeforeSelect, Deciding, Stopping, WineGone,
  AllGone, Unwinding, Gone, vars, channels, processes, locals, history
<1>t. /\ result \in Results /\ runtime \in Runtimes /\ faults \in Nat
      /\ caller \in {"run", "defer"} /\ 0 \in Exits
  BY DEF TypeOK, LocalsOK, Exits
<1>1. CASE StopWine
  BY <1>1 DEF StopWine, Goto, TypeOK, ProcessInv, ReadinessInv, RecordInv, EndingInv,
    ReadyIsPromoted, ReadyOutlivesStartup, ChannelsOK, ProcessesOK, LocalsOK, States,
    Points, Reasons, Exits, SIGINT, SIGKILL, SIGTERM
<1>2. CASE WineStopped
  <2>1. result' \in Results /\ runtime' \in Runtimes
    BY <1>t, <1>2 DEF WineStopped, StopReturns, TypeOK, ProcessesOK, LocalsOK, Results, Runtimes
  <2>2. TypeOK'
    <3>1. ChannelsOK'
      BY <1>t, <1>2 DEF WineStopped, StopReturns, TypeOK, ChannelsOK
    <3>2. ProcessesOK'
      BY <1>t, <1>2 DEF WineStopped, StopReturns, TypeOK, ProcessesOK
    <3>3. LocalsOK'
      BY <1>t, <1>2 DEF WineStopped, StopReturns, TypeOK, ChannelsOK, LocalsOK,
        Points, Reasons, SIGTERM
    <3> QED
      BY <2>1, <3>1, <3>2, <3>3 DEF TypeOK
  <2>3. ProcessInv' /\ ReadinessInv' /\ ReadyIsPromoted' /\ ReadyOutlivesStartup'
    BY SMTT(30), <1>t, <1>2 DEF WineStopped, StopReturns, ProcessInv, ReadinessInv,
      ReadyIsPromoted, ReadyOutlivesStartup, EndingInv, Results
  <2>4. RecordInv' /\ EndingInv'
    BY SMTT(30), <1>t, <1>2 DEF WineStopped, StopReturns, ProcessInv, ReadinessInv,
      RecordInv, EndingInv, Results, Runtimes, SIGTERM
  <2> QED
    BY <2>2, <2>3, <2>4
<1>3. CASE KillWine
  BY <1>3 DEF KillWine, Goto, TypeOK, ProcessInv, ReadinessInv, RecordInv, EndingInv,
    ReadyIsPromoted, ReadyOutlivesStartup, ChannelsOK, ProcessesOK, LocalsOK, States,
    Points, Reasons, Exits, SIGINT, SIGKILL, SIGTERM
<1>4. CASE \E fails \in BOOLEAN : KillWineServer(fails)
  <2>1. result' \in Results /\ runtime' \in Runtimes
    BY <1>t, <1>4 DEF KillWineServer, Goto, TypeOK, ProcessesOK, LocalsOK, Results, Runtimes
  <2>2. TypeOK'
    <3>1. ChannelsOK'
      BY <1>t, <1>4 DEF KillWineServer, Goto, TypeOK, ChannelsOK
    <3>2. ProcessesOK'
      BY <1>t, <1>4 DEF KillWineServer, Goto, TypeOK, ProcessesOK
    <3>3. LocalsOK'
      BY <1>t, <1>4 DEF KillWineServer, Goto, TypeOK, ChannelsOK, LocalsOK, Points,
        Reasons, SIGTERM
    <3> QED
      BY <2>1, <3>1, <3>2, <3>3 DEF TypeOK
  <2>3. ProcessInv' /\ ReadinessInv' /\ ReadyIsPromoted' /\ ReadyOutlivesStartup'
    BY <1>t, <1>4 DEF KillWineServer, Goto, ProcessInv, ReadinessInv, ReadyIsPromoted,
      ReadyOutlivesStartup, EndingInv, Results
  <2>4. RecordInv' /\ EndingInv'
    BY <1>t, <1>4 DEF KillWineServer, Goto, ProcessInv, ReadinessInv, RecordInv,
      EndingInv, Results, Runtimes, SIGTERM
  <2> QED
    BY <2>2, <2>3, <2>4
<1> QED
  BY <1>1, <1>2, <1>3, <1>4 DEF StopStep

(* The deferred function and the conclusion of launch. *)
LEMMA UnwindStepInv == IInv /\ UnwindStep => IInv'
<1> SUFFICES ASSUME IInv, UnwindStep PROVE IInv'
  OBVIOUS
<1> USE DEF IInv, BeforeXvfb, BeforeWine, BeforeSelect, Deciding, Stopping, WineGone,
  AllGone, Unwinding, Gone, vars, channels, processes, locals, history
<1>t. /\ result \in Results /\ runtime \in Runtimes /\ faults \in Nat
      /\ caller \in {"run", "defer"} /\ 0 \in Exits
  BY DEF TypeOK, LocalsOK, Exits
<1>1. CASE Unwind
  BY <1>1 DEF Unwind, Goto, TypeOK, ProcessInv, ReadinessInv, RecordInv, EndingInv,
    ReadyIsPromoted, ReadyOutlivesStartup, ChannelsOK, ProcessesOK, LocalsOK, States,
    Points, Reasons, Exits, SIGINT, SIGKILL, SIGTERM
<1>2. CASE JoinMonitor
  BY <1>2 DEF JoinMonitor, Goto, TypeOK, ProcessInv, ReadinessInv, RecordInv, EndingInv,
    ReadyIsPromoted, ReadyOutlivesStartup, ChannelsOK, ProcessesOK, LocalsOK, States,
    Points, Reasons, Exits, SIGINT, SIGKILL, SIGTERM
<1>3. CASE StopXvfb
  BY <1>3 DEF StopXvfb, Goto, TypeOK, ProcessInv, ReadinessInv, RecordInv, EndingInv,
    ReadyIsPromoted, ReadyOutlivesStartup, ChannelsOK, ProcessesOK, LocalsOK, States,
    Points, Reasons, Exits, SIGINT, SIGKILL, SIGTERM
<1>4. CASE XvfbStopped
  BY <1>4 DEF XvfbStopped, Goto, TypeOK, ProcessInv, ReadinessInv, RecordInv, EndingInv,
    ReadyIsPromoted, ReadyOutlivesStartup, ChannelsOK, ProcessesOK, LocalsOK, States,
    Points, Reasons, Exits, SIGINT, SIGKILL, SIGTERM
<1>5. CASE KillXvfb
  BY <1>5 DEF KillXvfb, Goto, TypeOK, ProcessInv, ReadinessInv, RecordInv, EndingInv,
    ReadyIsPromoted, ReadyOutlivesStartup, ChannelsOK, ProcessesOK, LocalsOK, States,
    Points, Reasons, Exits, SIGINT, SIGKILL, SIGTERM
<1>6. CASE RecordStopped
  <2>1. result' \in Results /\ runtime' \in Runtimes
    BY <1>t, <1>6, RuntimeRecords DEF RecordStopped, Goto, Saving, TypeOK,
      ProcessesOK, LocalsOK, Results, Runtimes
  <2>2. TypeOK'
    <3>1. ChannelsOK'
      BY <1>t, <1>6 DEF RecordStopped, Goto, Saving, TypeOK, ChannelsOK
    <3>2. ProcessesOK'
      BY <1>t, <1>6 DEF RecordStopped, Goto, Saving, TypeOK, ProcessesOK
    <3>3. LocalsOK'
      BY <1>t, <1>6 DEF RecordStopped, Goto, Saving, TypeOK, ChannelsOK, LocalsOK,
        Points, Reasons, SIGTERM
    <3> QED
      BY <2>1, <3>1, <3>2, <3>3 DEF TypeOK
  <2>3. ProcessInv' /\ ReadinessInv' /\ ReadyIsPromoted' /\ ReadyOutlivesStartup'
    BY <1>t, <1>6, RuntimeRecords DEF RecordStopped, Goto, Saving, ProcessInv,
      ReadinessInv, ReadyIsPromoted, ReadyOutlivesStartup, EndingInv, Results
  <2>4. RecordInv' /\ EndingInv'
    BY <1>t, <1>6, RuntimeRecords DEF RecordStopped, Goto, Saving, ProcessInv,
      ReadinessInv, RecordInv, EndingInv, Results, Runtimes, SIGTERM
  <2> QED
    BY <2>2, <2>3, <2>4
<1>7. CASE Conclude
  BY <1>7 DEF Conclude, Goto, Verdict, TypeOK, ProcessInv, ReadinessInv, RecordInv,
    EndingInv, ReadyIsPromoted, ReadyOutlivesStartup, ChannelsOK, ProcessesOK, LocalsOK,
    States, Points, Reasons, Exits, SIGINT, SIGKILL, SIGTERM
<1> QED
  BY <1>1, <1>2, <1>3, <1>4, <1>5, <1>6, <1>7 DEF UnwindStep

(* Processes, timers, the monitor and signals, at any point of the run. *)
LEMMA EnvironmentInv == IInv /\ Environment => IInv'
<1> SUFFICES ASSUME IInv, Environment PROVE IInv'
  OBVIOUS
<1> USE DEF IInv, BeforeXvfb, BeforeWine, BeforeSelect, Deciding, Stopping, WineGone,
  AllGone, Unwinding, Gone, vars, channels, processes, locals, history
<1>t. /\ result \in Results /\ runtime \in Runtimes /\ faults \in Nat
      /\ caller \in {"run", "defer"} /\ 0 \in Exits
  BY DEF TypeOK, LocalsOK, Exits
<1>1. CASE \E status \in {"ok", "failed"} : InitializeWineReturns(status)
  BY <1>1 DEF InitializeWineReturns, TypeOK, ProcessInv, ReadinessInv, RecordInv,
    EndingInv, ReadyIsPromoted, ReadyOutlivesStartup, ChannelsOK, ProcessesOK, LocalsOK,
    States, Points, Reasons, Exits, SIGINT, SIGKILL, SIGTERM
<1>2. CASE StartupTimeout
  BY <1>2 DEF StartupTimeout, Listening, TypeOK, ProcessInv, ReadinessInv, RecordInv,
    EndingInv, ReadyIsPromoted, ReadyOutlivesStartup, ChannelsOK, ProcessesOK, LocalsOK,
    States, Points, Reasons, Exits, SIGINT, SIGKILL, SIGTERM
<1>3. CASE MonitorAnnounces
  BY <1>3 DEF MonitorAnnounces, Listening, TypeOK, ProcessInv, ReadinessInv, RecordInv,
    EndingInv, ReadyIsPromoted, ReadyOutlivesStartup, ChannelsOK, ProcessesOK, LocalsOK,
    States, Points, Reasons, Exits, SIGINT, SIGKILL, SIGTERM
<1>4. CASE MonitorEnds
  BY <1>4 DEF MonitorEnds, TypeOK, ProcessInv, ReadinessInv, RecordInv, EndingInv,
    ReadyIsPromoted, ReadyOutlivesStartup, ChannelsOK, ProcessesOK, LocalsOK, States,
    Points, Reasons, Exits, SIGINT, SIGKILL, SIGTERM
<1>5. CASE XvfbDies
  BY <1>5 DEF XvfbDies, TypeOK, ProcessInv, ReadinessInv, RecordInv, EndingInv,
    ReadyIsPromoted, ReadyOutlivesStartup, ChannelsOK, ProcessesOK, LocalsOK, States,
    Points, Reasons, Exits, SIGINT, SIGKILL, SIGTERM
<1>6. CASE ReapXvfb
  BY <1>6 DEF ReapXvfb, TypeOK, ProcessInv, ReadinessInv, RecordInv, EndingInv,
    ReadyIsPromoted, ReadyOutlivesStartup, ChannelsOK, ProcessesOK, LocalsOK, States,
    Points, Reasons, Exits, SIGINT, SIGKILL, SIGTERM
<1>7. CASE ReapWine
  BY <1>7 DEF ReapWine, TypeOK, ProcessInv, ReadinessInv, RecordInv, EndingInv,
    ReadyIsPromoted, ReadyOutlivesStartup, ChannelsOK, ProcessesOK, LocalsOK, States,
    Points, Reasons, Exits, SIGINT, SIGKILL, SIGTERM
<1>8. CASE \E status \in Exits : WineDies(status)
  BY <1>8 DEF WineDies, TypeOK, ProcessInv, ReadinessInv, RecordInv, EndingInv,
    ReadyIsPromoted, ReadyOutlivesStartup, ChannelsOK, ProcessesOK, LocalsOK, States,
    Points, Reasons, Exits, SIGINT, SIGKILL, SIGTERM
<1>9. CASE \E s \in {SIGINT, SIGTERM} : SignalArrives(s)
  BY <1>9 DEF SignalArrives, Listening, TypeOK, ProcessInv, ReadinessInv, RecordInv,
    EndingInv, ReadyIsPromoted, ReadyOutlivesStartup, ChannelsOK, ProcessesOK, LocalsOK,
    States, Points, Reasons, Exits, SIGINT, SIGKILL, SIGTERM
<1>10. CASE CancelParent
  BY <1>10 DEF CancelParent, Listening, TypeOK, ProcessInv, ReadinessInv, RecordInv,
    EndingInv, ReadyIsPromoted, ReadyOutlivesStartup, ChannelsOK, ProcessesOK, LocalsOK,
    States, Points, Reasons, Exits, SIGINT, SIGKILL, SIGTERM
<1> QED
  BY <1>1, <1>2, <1>3, <1>4, <1>5, <1>6, <1>7, <1>8, <1>9, <1>10 DEF Environment

(* Every step of Run and of its environment preserves the invariant. *)
LEMMA NextIInv == IInv /\ [Next]_vars => IInv'
<1> SUFFICES ASSUME IInv, [Next]_vars PROVE IInv'
  OBVIOUS
<1>1. CASE Run
  BY <1>1, StartStepInv, SelectStepInv, StopStepInv, UnwindStepInv DEF Run
<1>2. CASE Environment
  BY <1>2, EnvironmentInv
<1>3. CASE UNCHANGED vars
  BY <1>3 DEF IInv, ChannelsOK, ProcessesOK, LocalsOK, States, Points, Reasons, Exits,
    SIGINT, SIGKILL, SIGTERM, TypeOK, ProcessInv, ReadinessInv, RecordInv, EndingInv,
    ReadyIsPromoted, ReadyOutlivesStartup, BeforeXvfb, BeforeWine, BeforeSelect,
    Deciding, Stopping, WineGone, AllGone, Unwinding, Gone, vars, channels, processes,
    locals, history
<1> QED
  BY <1>1, <1>2, <1>3 DEF Next

(* The invariant holds when Run is entered. *)
LEMMA InitIInv == Init => IInv
<1> SUFFICES ASSUME Init PROVE IInv
  OBVIOUS
<1>1. result \in Results /\ runtime \in Runtimes
  BY DEF Init, Results, Runtimes, Exits
<1>s. signals \in Seq({SIGINT, SIGTERM}) /\ Len(signals) <= 2
  BY DEF Init
<1>c. /\ winecfg = "running" /\ ~readiness /\ ~failure /\ ~expired
      /\ armed /\ ~parentDone /\ ~cancelled
  BY DEF Init
<1>b. /\ readiness \in BOOLEAN /\ failure \in BOOLEAN /\ expired \in BOOLEAN
      /\ armed \in BOOLEAN /\ parentDone \in BOOLEAN /\ cancelled \in BOOLEAN
  BY DEF Init
<1>2. ChannelsOK
  BY <1>s, <1>c, <1>b DEF ChannelsOK
<1>3. ProcessesOK /\ LocalsOK
  BY DEF Init, ProcessesOK, LocalsOK, States, Points, Reasons, Exits
<1>4. TypeOK
  BY <1>1, <1>2, <1>3 DEF TypeOK
<1> QED
  BY <1>4 DEF Init, IInv, ProcessInv, ReadinessInv, RecordInv, EndingInv, ReadyIsPromoted,
    ReadyOutlivesStartup, BeforeXvfb, BeforeWine, BeforeSelect, Deciding, Stopping,
      WineGone, AllGone, Unwinding, Gone

-----------------------------------------------------------------------------
(* The theorems *)

(* Every reachable state of a launch satisfies the inductive invariant. *)
THEOREM Invariance == Spec => []IInv
BY InitIInv, NextIInv, PTL DEF Spec

(* Every local, channel and record keeps its type. *)
THEOREM TypeCorrect == Spec => []TypeOK
<1>1. IInv => TypeOK
  BY DEF IInv
<1> QED
  BY Invariance, <1>1, PTL

(* Run never returns while Xvfb or Wine has not been waited for. *)
THEOREM NothingLeft == Spec => []NoProcessLeft
<1>1. IInv => NoProcessLeft
  BY DEF IInv, ProcessInv, NoProcessLeft, WineGone, AllGone
<1> QED
  BY Invariance, <1>1, PTL

(* A candidate is recorded as ready only after its promotion is committed. *)
THEOREM PromotedBeforeReady == Spec => []ReadyIsPromoted
<1>1. IInv => ReadyIsPromoted
  BY DEF IInv
<1> QED
  BY Invariance, <1>1, PTL

(* The startup deadline cannot stop a game that has become ready. *)
THEOREM DeadlineEnds == Spec => []ReadyOutlivesStartup
<1>1. IInv => ReadyOutlivesStartup
  BY DEF IInv
<1> QED
  BY Invariance, <1>1, PTL

(* The last record of a run says stopped, or an error is returned. *)
THEOREM EndIsRecorded == Spec => []StoppedRecorded
<1>1. IInv => StoppedRecorded
  BY DEF IInv, RecordInv, StoppedRecorded
<1> QED
  BY Invariance, <1>1, PTL

(* Exit status 0 is kept for a game that was ready and ended as asked. *)
THEOREM FailureIsReported == Spec => []NoSilentFailure
<1>1. IInv => NoSilentFailure
  BY DEF IInv, EndingInv, NoSilentFailure, Unwinding, WineGone
<1> QED
  BY Invariance, <1>1, PTL

-----------------------------------------------------------------------------
(* Refinement of ServerRun *)

(* A launch begins as an abstract one, with or without a generation on trial. *)
LEMMA RefinementInit == Init => Lifecycle!Init
BY DEF Init, Lifecycle!Init

(* A step of a launch is an abstract step, or changes nothing abstract. *)
LEMMA RefinementStep == IInv /\ [Next]_vars => [Lifecycle!Next]_(Lifecycle!vars)
<1> SUFFICES ASSUME IInv, [Next]_vars PROVE [Lifecycle!Next]_(Lifecycle!vars)
  OBVIOUS
<1> DEFINE Quiet == /\ result'.ready = result.ready /\ UNCHANGED <<outcome, candidate, verdict>>
                    /\ pc' \in {"returned", "concluded"} <=> pc \in {"returned", "concluded"}
<1>t. result \in Results /\ pc \in Points
  BY DEF IInv, TypeOK, LocalsOK
<1>q. Quiet => [Lifecycle!Next]_(Lifecycle!vars)
  BY DEF Lifecycle!vars
<1>1. CASE StartStep
  <2>1. Quiet
    BY <1>1, <1>t DEF StartStep, InitDone, Goto, Fail, InitSignal, InitExpired,
      InitAbort, StartXvfb, StartXvfbFails, DisplayRead, DisplayFails, StartWine,
      StartWineFails, StartTicksMissing, RecordStarting, Saving, RecordStartingFails,
      Results, vars, channels, processes, locals, history
  <2> QED
    BY <2>1, <1>q
<1>2. CASE Commit
  BY <1>2, <1>t DEF Commit, Goto, IInv, ReadinessInv, EndingInv, Deciding, Lifecycle!Next,
    Lifecycle!Decide
<1>3. CASE \E o \in {"notCommitted", "recoveryRequired"} : CommitFails(o)
  BY <1>3, <1>t DEF CommitFails, IInv, ReadinessInv, EndingInv, Deciding, Results,
    Lifecycle!Next, Lifecycle!Decide, Lifecycle!vars
<1>4. CASE SaveReady
  <2>1. /\ result'.ready /\ ~result.ready /\ pc = "saveReady" /\ pc' = "select"
        /\ UNCHANGED <<outcome, candidate, verdict>> /\ verdict = "none"
    BY <1>4, <1>t DEF SaveReady, Goto, IInv, ReadinessInv, EndingInv, Deciding, Results
  <2>2. candidate => outcome = "committed"
    BY <2>1 DEF IInv, ReadinessInv
  <2> QED
    BY <2>1, <2>2 DEF Lifecycle!Next, Lifecycle!Serve
<1>5. CASE RecordStopped
  <2>1. /\ result'.ready = result.ready /\ pc = "record" /\ pc' = "returned"
        /\ UNCHANGED <<outcome, candidate, verdict>>
    BY <1>5, <1>t DEF RecordStopped, Goto, Results
  <2> QED
    BY <2>1 DEF Lifecycle!Next, Lifecycle!Stop
<1>6. CASE Conclude
  <2>1. /\ pc = "returned" /\ pc' = "concluded" /\ verdict = "none" /\ verdict' = Verdict
        /\ UNCHANGED <<result, candidate, outcome>>
    BY <1>6 DEF Conclude, Goto, IInv, EndingInv
  <2>2. verdict' = "rollback" <=> ~result.ready /\ candidate /\ outcome = "notCommitted"
    BY <2>1 DEF Verdict
  <2> QED
    BY <2>1, <2>2 DEF Lifecycle!Next, Lifecycle!Drop, Lifecycle!vars
<1>7. CASE \/ Deadline \/ MonitorFailed \/ XvfbExited \/ WineExited \/ SignalReceived
           \/ ParentCancelled \/ ReadinessArrives \/ Check \/ SaveReadyFails
  <2>1. Quiet
    BY <1>7, <1>t DEF Deadline, Fail, Goto, MonitorFailed, XvfbExited, StopFor,
      WineExited, SignalReceived, ParentCancelled, ReadinessArrives, Check, BothAlive,
      SaveReadyFails, Saving, Results, vars, channels, processes, locals, history
  <2> QED
    BY <2>1, <1>q
<1>8. CASE StopStep \/ Unwind \/ JoinMonitor \/ StopXvfb \/ XvfbStopped \/ KillXvfb
  <2>1. Quiet
    BY <1>8, <1>t DEF StopStep, StopWine, Goto, WineStopped, StopReturns, KillWine,
      KillWineServer, Unwind, JoinMonitor, StopXvfb, XvfbStopped, KillXvfb, Results,
      vars, channels, processes, locals, history
  <2> QED
    BY <2>1, <1>q
<1>9. CASE Environment
  <2>1. Quiet
    BY <1>9 DEF Environment, InitializeWineReturns, StartupTimeout, Listening,
      MonitorAnnounces, MonitorEnds, XvfbDies, ReapXvfb, ReapWine, WineDies,
      SignalArrives, CancelParent, vars, channels, processes, locals, history
  <2> QED
    BY <2>1, <1>q
<1>10. CASE UNCHANGED vars
  BY <1>10, <1>q DEF vars, locals
<1> QED
  BY <1>1, <1>2, <1>3, <1>4, <1>5, <1>6, <1>7, <1>8, <1>9, <1>10
  DEF Next, Run, SelectStep, UnwindStep

(* Supervisor implements ServerRun. *)
THEOREM Refinement == Spec => ImplementsServerRunSafely
BY Invariance, RefinementInit, RefinementStep, PTL DEF Spec, ImplementsServerRunSafely,
  Lifecycle!SafeSpec

=============================================================================
