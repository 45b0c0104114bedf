---------------------------- MODULE HoldsProofs ----------------------------
(***************************************************************************)
(* Theorems about Holds, for any jobs, keys, handlers and fires.           *)
(*                                                                         *)
(* Whatever the detection of each job and the requests: every variable but *)
(* the two counters of OS assertions has its type, and the control loop's  *)
(* windows never overlap a latched cutout.                                 *)
(*                                                                         *)
(* Under NoPatternMarks and OneSetting, the conditions in which the        *)
(* daemon's two known races do not occur: no assertion outlives its hold,  *)
(* and a fire once served is not served again.                             *)
(***************************************************************************)
EXTENDS Holds, FiniteSetTheorems, TLAPS

\* The types, without the counters: CountersCorrect has those.
Types == MapTypeOK /\ CondTypeOK /\ ThreadTypeOK

IpcThread == [pc : IpcPc, id : Id \cup {"none"}, new : Hold, next : Config]
LoopThread == [pc : LoopPc, paused : BOOLEAN, jobs : SUBSET Job,
               id : Id \cup {"none"}, srv : Instant, new : Hold]

-----------------------------------------------------------------------------
(* The operators the actions are built from. *)

\* The empty hold and the threads at rest are values of their types.
LEMMA RestTypes ==
    /\ 0 \in Instant /\ NoHold \in Hold /\ NoCapture \in Capture
    /\ NoConfig \in Config /\ IdleIpc \in IpcThread /\ IdleLoop \in LoopThread
<1>1. 0 \in Instant
  BY MaxFireAssumption, SMT DEF Instant
<1>2. NoHold \in Hold
  BY <1>1 DEF NoHold, Hold
<1>3. NoCapture \in Capture
  BY <1>1 DEF NoCapture, Capture
<1>4. NoConfig \in Config
  BY DEF NoConfig, Config
<1>5. IdleIpc \in IpcThread
  BY <1>2, <1>4 DEF IdleIpc, IpcThread, IpcPc
<1>6. IdleLoop \in LoopThread
  BY <1>1, <1>2 DEF IdleLoop, LoopThread, LoopPc
<1> QED
  BY <1>1, <1>2, <1>3, <1>4, <1>5, <1>6

\* The fires a hold is opened for: the scheduled one, or now.
LEMMA FireTypes ==
    ASSUME CondTypeOK
    PROVE  2 * due \in Instant /\ 2 * due - 1 \in Instant
  BY MaxFireAssumption, SMT DEF CondTypeOK, Instant

\* finishHoldLocked only removes holds from the map.
LEMMA FinishHolds ==
    ASSUME MapTypeOK, NEW I, finishHoldLocked(I)
    PROVE  /\ holds' \in [Id -> Hold]
           /\ \A i \in Id : holds'[i] \in {holds[i], NoHold}
           /\ served' \in [Job -> Instant] /\ captured' \in [Job -> Capture]
           /\ opened' = opened => MapTypeOK'
<1>1. holds' \in [Id -> Hold] /\ \A i \in Id : holds'[i] \in {holds[i], NoHold}
  BY RestTypes DEF finishHoldLocked, MapTypeOK
<1>2. \A j \in Job : holds[j] \in Hold
  BY DEF MapTypeOK, Id
<1>3. served' \in [Job -> Instant]
  BY <1>2 DEF finishHoldLocked, MapTypeOK, Hold
<1>4. captured' \in [Job -> Capture]
  BY <1>2 DEF finishHoldLocked, MapTypeOK, Hold, Capture
<1> QED
  BY <1>1, <1>3, <1>4 DEF MapTypeOK

\* A new hold belongs to the thread that takes its assertion.
LEMMA NewHold ==
    ASSUME NEW new, NEW by \in {"loop", "ipc"}, NEW fire \in Instant,
           HoldIdleSleep(new, by, fire)
    PROVE  new \in Hold /\ new.by = by
  BY RestTypes DEF HoldIdleSleep, NoHold, Hold

\* The insert puts the new hold in the map or leaves the map as it is.
LEMMA InsertHold ==
    ASSUME MapTypeOK, NEW i, NEW new \in Hold, InsertOrRelease(i, new)
    PROVE  /\ holds' \in [Id -> Hold]
           /\ \A k \in Id : holds'[k] \in {holds[k], new}
  BY DEF InsertOrRelease, MapTypeOK

\* A handler that moves on takes along the hold it has in hand, and no other moves.
LEMMA HandlerMoves ==
    ASSUME ThreadTypeOK, NEW h \in Handler, NEW pc \in IpcPc,
           NEW i \in Id \cup {"none"}, NEW new \in Hold, Goto(h, pc, i, new)
    PROVE  /\ ipc' \in [Handler -> IpcThread]
           /\ \A g \in Handler : ipc'[g].new \in {ipc[g].new, new}
<1>1. [IdleIpc EXCEPT !.pc = pc, !.id = i, !.new = new] \in IpcThread
  BY RestTypes DEF IdleIpc, IpcThread
<1> QED
  BY <1>1 DEF Goto, ThreadTypeOK, IpcThread, IdleIpc

LEMMA HandlerReturns ==
    ASSUME ThreadTypeOK, NEW h \in Handler, Return(h)
    PROVE  /\ ipc' \in [Handler -> IpcThread]
           /\ \A g \in Handler : ipc'[g].new \in {ipc[g].new, NoHold}
  BY RestTypes DEF Return, ThreadTypeOK, IpcThread, IdleIpc

-----------------------------------------------------------------------------
(* The steps of the control loop. *)

LoopStep == Types /\ LatchInv /\ Loop

\* A step of the loop keeps the map's types.
LEMMA LoopMap == LoopStep => MapTypeOK'
<1> SUFFICES ASSUME Types, Loop PROVE MapTypeOK'
  BY DEF LoopStep
<1>0. MapTypeOK
  BY DEF Types
<1>1. CASE FireCutout \/ ReleaseRetired
  BY <1>0, <1>1, FinishHolds DEF FireCutout, ReleaseRetired
<1>2. ASSUME NEW S \in SUBSET Id,
             CheckMarkedPIDs(S) \/ PollSchedulerState(S) \/ EnforceCeilings(S)
      PROVE  MapTypeOK'
  BY <1>0, <1>2, FinishHolds DEF CheckMarkedPIDs, PollSchedulerState, EnforceCeilings
<1>3. CASE Tick \/ OpenDueWindows \/ NextFire
  BY <1>0, <1>3 DEF Tick, OpenDueWindows, NextFire, mapVars, MapTypeOK
<1>4. ASSUME NEW j \in Job, PassOver(j) \/ SchedulerFireTime(j) \/ OpenWindow(j)
      PROVE  MapTypeOK'
  BY <1>0, <1>4 DEF PassOver, SchedulerFireTime, OpenWindow, mapVars, MapTypeOK
<1>5. CASE OpenWindowInsert
  <2>1. loop.new \in Hold /\ loop.new.fire \in Instant
    BY DEF Types, ThreadTypeOK, Hold
  <2>2. holds' \in [Id -> Hold]
    BY <1>0, <1>5, <2>1, InsertHold DEF OpenWindowInsert
  <2>3. opened' \in [Job -> Instant]
    BY <1>0, <1>5, <2>1 DEF OpenWindowInsert, MapTypeOK
  <2> QED
    BY <1>0, <1>5, <2>2, <2>3 DEF OpenWindowInsert, MapTypeOK
<1>6. CASE PollDetection \/ ScanFails
  <2>1. [NoCapture EXCEPT !.st = "same"] \in Capture
    BY RestTypes DEF NoCapture, Capture
  <2>2. captured' \in [Job -> Capture]
    BY <1>6, <2>1, RestTypes DEF PollDetection, ScanFails
  <2> QED
    BY <1>0, <1>6, <2>2 DEF PollDetection, ScanFails, MapTypeOK
<1>7. ASSUME NEW j \in Job, SchedulerReportsStart(j) PROVE MapTypeOK'
  <2>1. holds' \in [Id -> Hold]
    BY <1>0, <1>7 DEF SchedulerReportsStart, MapTypeOK, Hold
  <2> QED
    BY <1>0, <1>7, <2>1 DEF SchedulerReportsStart, MapTypeOK
<1>8. ASSUME NEW j \in Job, NEW matched \in BOOLEAN, UpdatePatternHold(j, matched)
      PROVE  MapTypeOK'
  <2>1. holds[j] \in Hold /\ captured[j] \in Capture
    BY <1>0 DEF MapTypeOK, Id
  <2>2. [holds[j] EXCEPT !.detected = TRUE] \in Hold
    BY <2>1 DEF Hold
  <2>3. holds' \in [Id -> Hold]
    BY <1>0, <1>8, <2>2, RestTypes DEF UpdatePatternHold, MapTypeOK
  <2>4. served' \in [Job -> Instant]
    BY <1>0, <1>8, <2>1 DEF UpdatePatternHold, MapTypeOK, Hold, Capture
  <2>5. captured' \in [Job -> Capture]
    BY <1>0, <1>8, RestTypes DEF UpdatePatternHold, MapTypeOK
  <2> QED
    BY <1>0, <1>8, <2>3, <2>4, <2>5 DEF UpdatePatternHold, MapTypeOK
<1>9. ASSUME NEW j \in Job, NEW st \in {"disabled", "gone"},
             AdoptJob(j) \/ RetireJob(j, st)
      PROVE  MapTypeOK'
  BY <1>0, <1>9 DEF AdoptJob, RetireJob, mapVars, MapTypeOK
<1> QED
  BY <1>1, <1>2, <1>3, <1>4, <1>5, <1>6, <1>7, <1>8, <1>9 DEF Loop

\* A step of the loop keeps the types of the settings and of the latch.
LEMMA LoopCond == LoopStep => CondTypeOK'
<1> SUFFICES ASSUME CondTypeOK, Loop PROVE CondTypeOK'
  BY DEF LoopStep, Types
<1> USE DEF CondTypeOK, condVars
<1>1. CASE Tick \/ FireCutout \/ OpenDueWindows \/ OpenWindowInsert
  BY <1>1 DEF Tick, FireCutout, OpenDueWindows, OpenWindowInsert
<1>2. ASSUME NEW j \in Job,
             \/ PassOver(j) \/ SchedulerFireTime(j) \/ OpenWindow(j)
             \/ SchedulerReportsStart(j)
      PROVE  CondTypeOK'
  BY <1>2 DEF PassOver, SchedulerFireTime, OpenWindow, SchedulerReportsStart
<1>3. CASE PollDetection \/ ScanFails \/ ReleaseRetired
  BY <1>3 DEF PollDetection, ScanFails, ReleaseRetired
<1>4. ASSUME NEW j \in Job, NEW matched \in BOOLEAN, UpdatePatternHold(j, matched)
      PROVE  CondTypeOK'
  BY <1>4 DEF UpdatePatternHold
<1>5. ASSUME NEW S \in SUBSET Id,
             CheckMarkedPIDs(S) \/ PollSchedulerState(S) \/ EnforceCeilings(S)
      PROVE  CondTypeOK'
  BY <1>5 DEF CheckMarkedPIDs, PollSchedulerState, EnforceCeilings
<1>6. ASSUME NEW j \in Job, NEW st \in {"disabled", "gone"},
             AdoptJob(j) \/ RetireJob(j, st)
      PROVE  CondTypeOK'
  BY <1>6 DEF AdoptJob, RetireJob
<1>7. CASE NextFire
  BY <1>7, MaxFireAssumption DEF NextFire
<1> QED
  BY <1>1, <1>2, <1>3, <1>4, <1>5, <1>6, <1>7 DEF Loop

\* A step of the loop keeps the loop's own type and leaves the handlers alone.
LEMMA LoopThreads == LoopStep => ThreadTypeOK' /\ UNCHANGED ipc
<1> SUFFICES ASSUME MapTypeOK, CondTypeOK, loop \in LoopThread, Loop
             PROVE  loop' \in LoopThread /\ UNCHANGED ipc
  BY DEF LoopStep, Types, ThreadTypeOK, LoopThread
<1>a. \A pc \in LoopPc : [loop EXCEPT !.pc = pc] \in LoopThread
  BY DEF LoopThread
<1>b. \A pc \in LoopPc, J \in SUBSET Job : [loop EXCEPT !.pc = pc, !.jobs = J] \in LoopThread
  BY DEF LoopThread
<1>c. \A pc \in LoopPc, b \in BOOLEAN : [loop EXCEPT !.paused = b, !.pc = pc] \in LoopThread
  BY DEF LoopThread
<1>d. \A pc \in LoopPc, j \in Job, i \in Id \cup {"none"} :
        [loop EXCEPT !.pc = pc, !.jobs = loop.jobs \ {j}, !.id = i] \in LoopThread
  BY DEF LoopThread
<1>e. \A pc \in LoopPc, i \in Id \cup {"none"} : [loop EXCEPT !.pc = pc, !.id = i] \in LoopThread
  BY DEF LoopThread
<1>f. \A pc \in LoopPc, i \in Id \cup {"none"}, new \in Hold :
        [loop EXCEPT !.pc = pc, !.id = i, !.srv = 0, !.new = new] \in LoopThread
  BY RestTypes DEF LoopThread
<1>g. \A pc \in LoopPc, srv \in Instant, new \in Hold :
        [loop EXCEPT !.pc = pc, !.srv = srv, !.new = new] \in LoopThread
  BY DEF LoopThread
<1> USE <1>a, RestTypes DEF LoopPc
<1>1. CASE Tick
  BY <1>1, <1>c DEF Tick, CondTypeOK
<1>2. CASE FireCutout
  BY <1>2 DEF FireCutout
<1>3. CASE OpenDueWindows
  <2>1. {j \in Job : jobs[j] = "enabled"} \in SUBSET Job
    OBVIOUS
  <2> QED
    BY <1>3, <2>1, <1>b DEF OpenDueWindows
<1>4. CASE OpenWindowInsert
  BY <1>4, <1>f DEF OpenWindowInsert
<1>5. ASSUME NEW j \in Job, PassOver(j) \/ SchedulerFireTime(j) \/ SchedulerReportsStart(j)
      PROVE  loop' \in LoopThread /\ UNCHANGED ipc
  <2>1. j \in Id \cup {"none"}
    BY DEF Id
  <2>2. CASE PassOver(j)
    BY <2>2, <1>d DEF PassOver
  <2>3. CASE SchedulerFireTime(j)
    BY <2>1, <2>3, <1>d DEF SchedulerFireTime
  <2> QED
    BY <1>5, <2>2, <2>3 DEF SchedulerReportsStart
<1>6. ASSUME NEW j \in Job, OpenWindow(j)
      PROVE  loop' \in LoopThread /\ UNCHANGED ipc
  <2>1. PICK new \in Hold :
           loop' = [loop EXCEPT !.pc = "insert", !.srv = served[j], !.new = new]
    BY <1>6 DEF OpenWindow
  <2>2. served[j] \in Instant
    BY DEF MapTypeOK
  <2>3. loop' \in LoopThread
    BY <2>1, <2>2, <1>g
  <2> QED
    BY <1>6, <2>3 DEF OpenWindow
<1>7. CASE PollDetection \/ ScanFails \/ ReleaseRetired \/ NextFire
  BY <1>7 DEF PollDetection, ScanFails, ReleaseRetired, NextFire
<1>8. ASSUME NEW j \in Job, NEW matched \in BOOLEAN, UpdatePatternHold(j, matched)
      PROVE  loop' \in LoopThread /\ UNCHANGED ipc
  BY <1>8 DEF UpdatePatternHold
<1>9. ASSUME NEW S \in SUBSET Id,
             CheckMarkedPIDs(S) \/ PollSchedulerState(S) \/ EnforceCeilings(S)
      PROVE  loop' \in LoopThread /\ UNCHANGED ipc
  BY <1>9 DEF CheckMarkedPIDs, PollSchedulerState, EnforceCeilings
<1>10. ASSUME NEW j \in Job, NEW st \in {"disabled", "gone"},
              AdoptJob(j) \/ RetireJob(j, st)
       PROVE  loop' \in LoopThread /\ UNCHANGED ipc
  <2>1. j \in Id \cup {"none"}
    BY DEF Id
  <2> QED
    BY <1>10, <2>1, <1>e DEF AdoptJob, RetireJob
<1> QED
  BY <1>1, <1>2, <1>3, <1>4, <1>5, <1>6, <1>7, <1>8, <1>9, <1>10 DEF Loop

\* What keeps LatchInv, whoever steps: while the latch is or gets set, no window of
\* the loop's appears, in the map or in hand.
LEMMA LatchKept ==
    ASSUME \A i \in Id : latch' => holds'[i].by # "loop",
           latch' => loop'.pc \notin {"windows", "fire", "insert"},
           \A h \in Handler : ipc'[h].new.by # "loop"
    PROVE  LatchInv'
  BY DEF LatchInv, LatchKeepsWindowsShut

\* A step of the loop keeps its windows out of a latched cutout.
LEMMA LoopLatch == LoopStep => LatchInv'
<1> SUFFICES ASSUME MapTypeOK, loop \in LoopThread, LatchInv, Loop, ipc' = ipc
             PROVE  LatchInv'
  BY LoopThreads DEF LoopStep, Types, ThreadTypeOK, LoopThread
<1> USE DEF LatchInv, LatchKeepsWindowsShut
<1>0. NoHold.by # "loop" /\ \A j \in Job : j \in Id
  BY DEF NoHold, Id
<1>1. CASE Tick
  BY <1>1 DEF Tick, LoopThread, mapVars
<1>2. CASE FireCutout
  <2>1. \A i \in Id : holds'[i].by # "loop"
    BY <1>2, <1>0 DEF FireCutout, finishHoldLocked, Held, Open
  <2>2. loop'.pc = "due"
    BY <1>2 DEF FireCutout, LoopThread
  <2> QED
    BY <2>1, <2>2
<1>3. CASE OpenDueWindows
  BY <1>3 DEF OpenDueWindows, LoopThread, mapVars
<1>4. CASE OpenWindowInsert
  BY <1>4 DEF OpenWindowInsert
<1>5. ASSUME NEW j \in Job, PassOver(j) \/ SchedulerFireTime(j) PROVE LatchInv'
  BY <1>5 DEF PassOver, SchedulerFireTime, LoopThread, mapVars
<1>6. ASSUME NEW j \in Job, OpenWindow(j) PROVE LatchInv'
  BY <1>6 DEF OpenWindow
<1>7. CASE PollDetection \/ ScanFails
  BY <1>7 DEF PollDetection, ScanFails, LoopThread
<1>8. ASSUME NEW j \in Job, NEW matched \in BOOLEAN, UpdatePatternHold(j, matched)
      PROVE  LatchInv'
  <2>1. \A i \in Id : holds'[i].by \in {holds[i].by, NoHold.by}
    BY <1>8, <1>0 DEF UpdatePatternHold, MapTypeOK, Hold
  <2>2. loop'.pc \notin {"windows", "fire", "insert"} /\ latch' = latch
    BY <1>8 DEF UpdatePatternHold, LoopThread
  <2> QED
    BY <2>1, <2>2, <1>0
<1>9. ASSUME NEW j \in Job, SchedulerReportsStart(j) PROVE LatchInv'
  <2>1. \A i \in Id : holds'[i].by = holds[i].by
    BY <1>9 DEF SchedulerReportsStart, MapTypeOK, Hold
  <2> QED
    BY <1>9, <2>1 DEF SchedulerReportsStart
<1>10. ASSUME NEW I, finishHoldLocked(I), UNCHANGED << latch, opened >>,
              loop'.pc \notin {"windows", "fire", "insert"}
       PROVE  LatchInv'
  BY <1>10, <1>0, FinishHolds
<1>11. CASE ReleaseRetired
  BY <1>11, <1>10 DEF ReleaseRetired, IdleLoop
<1>12. ASSUME NEW S \in SUBSET Id,
              CheckMarkedPIDs(S) \/ PollSchedulerState(S) \/ EnforceCeilings(S)
       PROVE  LatchInv'
  <2>1. loop'.pc \notin {"windows", "fire", "insert"}
    BY <1>12 DEF CheckMarkedPIDs, PollSchedulerState, EnforceCeilings, IdleLoop, LoopThread
  <2> QED
    BY <1>12, <2>1, <1>10 DEF CheckMarkedPIDs, PollSchedulerState, EnforceCeilings
<1>13. ASSUME NEW j \in Job, NEW st \in {"disabled", "gone"},
              AdoptJob(j) \/ RetireJob(j, st)
       PROVE  LatchInv'
  <2>1. loop'.pc \notin {"windows", "fire", "insert"}
    BY <1>13 DEF AdoptJob, RetireJob, LoopThread
  <2>2. UNCHANGED << holds, latch >>
    BY <1>13 DEF AdoptJob, RetireJob, mapVars
  <2> QED
    BY <2>1, <2>2
<1>14. CASE NextFire
  BY <1>14 DEF NextFire, mapVars
<1> QED
  BY <1>1, <1>2, <1>3, <1>4, <1>5, <1>6, <1>7, <1>8, <1>9, <1>11, <1>12, <1>13,
     <1>14 DEF Loop

-----------------------------------------------------------------------------
(* The steps of the handlers. *)

\* A handler leaves the loop and the latch alone.
LEMMA HandlerFrame ==
    \A h \in Handler : Ipc(h) => UNCHANGED << loop, latch >>
<1> SUFFICES ASSUME NEW h \in Handler, Ipc(h) PROVE UNCHANGED << loop, latch >>
  OBVIOUS
<1> QED
  BY DEF Ipc, KeepAwake, KeepAwakeInsert, Release, StartKeyedRun, StartRun, LookupRun,
     OpenRunHold, OpenRunHoldInsert, MarkStart, MarkEnd, OpenAdHocWindow, MarkAdHoc,
     Pause, SleepNow, Resume, ChangeJob, ReleaseJob, SetConfig, SetConfigStore,
     ReleaseAgentHolds, SyncKeepAwakeDisplay

\* A step of a handler keeps the types of the settings.
LEMMA HandlerCond ==
    ASSUME CondTypeOK, ThreadTypeOK, NEW h \in Handler, Ipc(h)
    PROVE  CondTypeOK'
<1> USE DEF CondTypeOK, condVars
<1>0. ipc[h].next \in Config /\ latch' = latch
  BY HandlerFrame DEF ThreadTypeOK
<1>1. CASE KeepAwake(h) \/ KeepAwakeInsert(h) \/ \E i \in Id : Release(h, i)
  BY <1>1 DEF KeepAwake, KeepAwakeInsert, Release
<1>2. CASE \/ \E k \in Key : StartKeyedRun(h, k)
           \/ \E r \in Run : StartRun(h, r)
           \/ LookupRun(h) \/ OpenRunHold(h) \/ OpenRunHoldInsert(h)
  BY <1>2 DEF StartKeyedRun, StartRun, LookupRun, OpenRunHold, OpenRunHoldInsert
<1>3. CASE \/ \E j \in Job : MarkStart(h, j) \/ MarkEnd(h, j)
           \/ OpenAdHocWindow(h) \/ MarkAdHoc(h)
  BY <1>3 DEF MarkStart, MarkEnd, OpenAdHocWindow, MarkAdHoc
<1>4. CASE Pause(h) \/ SleepNow(h) \/ Resume(h)
  BY <1>4 DEF Pause, SleepNow, Resume
<1>5. CASE \/ \E j \in Job, st \in {"enabled", "disabled", "gone"} : ChangeJob(h, j, st)
           \/ ReleaseJob(h)
  BY <1>5 DEF ChangeJob, ReleaseJob
<1>6. CASE SetConfigStore(h)
  BY <1>6, <1>0 DEF SetConfigStore
<1>7. CASE \/ \E kind \in {"agents", "display"}, on \in BOOLEAN : SetConfig(h, kind, on)
           \/ ReleaseAgentHolds(h) \/ SyncKeepAwakeDisplay(h)
  BY <1>7 DEF SetConfig, ReleaseAgentHolds, SyncKeepAwakeDisplay
<1> QED
  BY <1>1, <1>2, <1>3, <1>4, <1>5, <1>6, <1>7 DEF Ipc

\* What a handler does to the map and to the hold it has in hand.
HandlerEffect(h) ==
    /\ holds' \in [Id -> Hold]
    /\ \A i \in Id : holds'[i].by \in {holds[i].by, ipc[h].new.by, "none"}
    /\ served' \in [Job -> Instant] /\ captured' \in [Job -> Capture]
    /\ opened' \in [Job -> Instant]
    /\ ipc' \in [Handler -> IpcThread]
    /\ \A g \in Handler : ipc'[g].new.by \in {ipc[g].new.by, "ipc", "none"}

\* The window history records only instants.
LEMMA HandlerHistory ==
    ASSUME MapTypeOK, ThreadTypeOK, NEW h \in Handler, Ipc(h)
    PROVE  opened' \in [Job -> Instant]
<1>1. CASE OpenAdHocWindow(h)
  <2>1. ipc[h].new.fire \in Instant
    BY DEF ThreadTypeOK, Hold
  <2> QED
    BY <1>1, <2>1 DEF OpenAdHocWindow, MapTypeOK
<1>2. CASE ~OpenAdHocWindow(h)
  <2>1. opened' = opened
    BY <1>2 DEF Ipc, KeepAwake, KeepAwakeInsert, Release, StartKeyedRun, StartRun,
       LookupRun, OpenRunHold, OpenRunHoldInsert, MarkStart, MarkEnd, MarkAdHoc, Pause,
       SleepNow, Resume, ChangeJob, ReleaseJob, SetConfig, SetConfigStore,
       ReleaseAgentHolds, SyncKeepAwakeDisplay
  <2> QED
    BY <2>1 DEF MapTypeOK
<1> QED
  BY <1>1, <1>2

LEMMA HandlerStep ==
    ASSUME Types, NEW h \in Handler, Ipc(h)
    PROVE  HandlerEffect(h)
<1>0. MapTypeOK /\ CondTypeOK /\ ThreadTypeOK /\ ipc[h] \in IpcThread
  BY DEF Types, ThreadTypeOK, IpcThread
<1>n. NoHold \in Hold /\ NoHold.by = "none" /\ ipc[h].new \in Hold
  BY <1>0, RestTypes DEF NoHold, IpcThread
<1>a. UNCHANGED holds =>
        holds' \in [Id -> Hold] /\ \A i \in Id : holds'[i].by \in {holds[i].by, ipc[h].new.by, "none"}
  BY <1>0 DEF MapTypeOK
<1>b. UNCHANGED << served, captured >> =>
        served' \in [Job -> Instant] /\ captured' \in [Job -> Capture]
  BY <1>0 DEF MapTypeOK
<1>c. UNCHANGED ipc =>
        /\ ipc' \in [Handler -> IpcThread]
        /\ \A g \in Handler : ipc'[g].new.by \in {ipc[g].new.by, "ipc", "none"}
  BY <1>0 DEF ThreadTypeOK, IpcThread
<1>d. ASSUME NEW pc \in IpcPc, NEW i \in Id \cup {"none"}, NEW new \in Hold,
             Goto(h, pc, i, new), new.by \in {"ipc", "none"}
      PROVE  /\ ipc' \in [Handler -> IpcThread]
             /\ \A g \in Handler : ipc'[g].new.by \in {ipc[g].new.by, "ipc", "none"}
  BY <1>d, <1>0, HandlerMoves
<1>e. Return(h) =>
        /\ ipc' \in [Handler -> IpcThread]
        /\ \A g \in Handler : ipc'[g].new.by \in {ipc[g].new.by, "ipc", "none"}
  BY <1>0, <1>n, HandlerReturns
<1>f. ASSUME NEW I, finishHoldLocked(I)
      PROVE  /\ holds' \in [Id -> Hold]
             /\ \A i \in Id : holds'[i].by \in {holds[i].by, ipc[h].new.by, "none"}
             /\ served' \in [Job -> Instant] /\ captured' \in [Job -> Capture]
  BY <1>f, <1>0, <1>n, FinishHolds
<1>g. ASSUME NEW i, InsertOrRelease(i, ipc[h].new)
      PROVE  /\ holds' \in [Id -> Hold]
             /\ \A k \in Id : holds'[k].by \in {holds[k].by, ipc[h].new.by, "none"}
  BY <1>g, <1>0, <1>n, InsertHold
<1>h. ASSUME NEW pc \in IpcPc, NEW i \in Id \cup {"none"}, Goto(h, pc, i, NoHold)
      PROVE  /\ ipc' \in [Handler -> IpcThread]
             /\ \A g \in Handler : ipc'[g].new.by \in {ipc[g].new.by, "ipc", "none"}
  BY <1>h, <1>d, <1>n
<1>i. ipc[h].id \in Id \cup {"none"}
  BY <1>0 DEF IpcThread
<1>j. opened' \in [Job -> Instant]
  BY <1>0, HandlerHistory
<1> USE <1>j DEF HandlerEffect, mapVars
<1>1. CASE KeepAwake(h)
  <2>1. PICK new \in Hold : HoldIdleSleep(new, "ipc", 0) /\ Goto(h, "awake", "awake", new)
    BY <1>1 DEF KeepAwake
  <2>2. new.by = "ipc"
    BY <2>1, NewHold, RestTypes
  <2> QED
    BY <1>1, <1>a, <1>b, <1>d, <2>1, <2>2 DEF KeepAwake, IpcPc, Id
<1>2. CASE KeepAwakeInsert(h)
  <2>1. \A lit \in BOOLEAN : /\ [ipc[h].new EXCEPT !.display = lit] \in Hold
                            /\ [ipc[h].new EXCEPT !.display = lit].by = ipc[h].new.by
    BY <1>n DEF Hold
  <2>2. holds' \in [Id -> Hold] /\ \A i \in Id : holds'[i].by \in {holds[i].by, ipc[h].new.by, "none"}
    BY <1>2, <2>1, <1>0 DEF KeepAwakeInsert, MapTypeOK
  <2> QED
    BY <1>2, <2>2, <1>b, <1>e DEF KeepAwakeInsert
<1>3. ASSUME NEW i \in Id, Release(h, i) PROVE HandlerEffect(h)
  BY <1>3, <1>f, <1>c DEF Release
<1>4. ASSUME NEW i \in Id, StartKeyedRun(h, i) \/ StartRun(h, i) PROVE HandlerEffect(h)
  BY <1>4, <1>a, <1>b, <1>h DEF StartKeyedRun, StartRun, IpcPc
<1>5. CASE LookupRun(h)
  BY <1>5, <1>a, <1>b, <1>h, <1>e, <1>i DEF LookupRun, IpcPc
<1>6. CASE OpenRunHold(h)
  <2>1. CASE Return(h)
    BY <1>6, <2>1, <1>a, <1>b, <1>e DEF OpenRunHold
  <2>2. ASSUME NEW new \in Hold, HoldIdleSleep(new, "ipc", 0), Goto(h, "run", ipc[h].id, new)
        PROVE  HandlerEffect(h)
    <3>1. new.by = "ipc"
      BY <2>2, NewHold, RestTypes
    <3> QED
      BY <1>6, <1>a, <1>b, <1>d, <1>0, <2>2, <3>1 DEF OpenRunHold, IpcPc, IpcThread
  <2> QED
    BY <1>6, <2>1, <2>2 DEF OpenRunHold
<1>7. CASE OpenRunHoldInsert(h)
  BY <1>7, <1>g, <1>b, <1>e DEF OpenRunHoldInsert
<1>8. ASSUME NEW j \in Job, MarkStart(h, j) PROVE HandlerEffect(h)
  <2>1. CASE holds' = [holds EXCEPT ![j].detected = TRUE] /\ ipc' = ipc
    <3>1. holds' \in [Id -> Hold] /\ \A i \in Id : holds'[i].by = holds[i].by
      BY <2>1, <1>0 DEF MapTypeOK, Hold
    <3> QED
      BY <1>8, <2>1, <3>1, <1>b, <1>c DEF MarkStart
  <2>2. ASSUME NEW new \in Hold, NEW now \in {2 * due - 1, 2 * due},
               HoldIdleSleep(new, "ipc", now), Goto(h, "adhoc", j, new), holds' = holds
        PROVE  HandlerEffect(h)
    <3>1. new.by = "ipc"
      BY <2>2, <1>0, NewHold, FireTypes
    <3> QED
      BY <1>8, <1>a, <1>b, <1>d, <2>2, <3>1 DEF MarkStart, IpcPc, Id
  <2> QED
    BY <1>8, <2>1, <2>2 DEF MarkStart
<1>9. CASE OpenAdHocWindow(h)
  BY <1>9, <1>g, <1>b, <1>h, <1>i DEF OpenAdHocWindow, IpcPc
<1>10. CASE MarkAdHoc(h)
  <2>1. holds' \in [Id -> Hold] /\ \A i \in Id : holds'[i].by = holds[i].by
    BY <1>10, <1>0 DEF MarkAdHoc, MapTypeOK, Hold
  <2> QED
    BY <1>10, <2>1, <1>b, <1>e DEF MarkAdHoc
<1>11. ASSUME NEW j \in Job, MarkEnd(h, j) PROVE HandlerEffect(h)
  BY <1>11, <1>f, <1>c DEF MarkEnd
<1>12. CASE Pause(h)
  BY <1>12, <1>a, <1>b, <1>h DEF Pause, IpcPc
<1>13. CASE SleepNow(h) \/ ReleaseJob(h) \/ ReleaseAgentHolds(h)
  BY <1>13, <1>f, <1>c, <1>e DEF SleepNow, ReleaseJob, ReleaseAgentHolds
<1>14. CASE Resume(h)
  BY <1>14, <1>a, <1>b, <1>c DEF Resume
<1>15. ASSUME NEW j \in Job, NEW st \in {"enabled", "disabled", "gone"}, ChangeJob(h, j, st)
       PROVE  HandlerEffect(h)
  BY <1>15, <1>a, <1>b, <1>c, <1>h DEF ChangeJob, IpcPc, Id
<1>16. ASSUME NEW kind \in {"agents", "display"}, NEW on \in BOOLEAN, SetConfig(h, kind, on)
       PROVE  HandlerEffect(h)
  <2>1. [cfg EXCEPT ![kind] = on] \in Config
    BY <1>0 DEF CondTypeOK, Config
  <2>2. \A pc \in IpcPc, c \in Config :
           /\ [IdleIpc EXCEPT !.pc = pc, !.next = c] \in IpcThread
           /\ [IdleIpc EXCEPT !.pc = pc, !.next = c].new.by = "none"
    BY RestTypes DEF IdleIpc, IpcThread, NoHold
  <2>3. /\ ipc' \in [Handler -> IpcThread]
        /\ \A g \in Handler : ipc'[g].new.by \in {ipc[g].new.by, "ipc", "none"}
    <3>1. PICK t \in IpcThread : ipc' = [ipc EXCEPT ![h] = t] /\ t.new.by = "none"
      BY <1>16, <2>1, <2>2 DEF SetConfig, IpcPc
    <3> QED
      BY <3>1, <1>0 DEF ThreadTypeOK, IpcThread
  <2> QED
    BY <1>16, <2>3, <1>a, <1>b DEF SetConfig
<1>17. CASE SetConfigStore(h)
  BY <1>17, <1>a, <1>b, <1>h, <1>e DEF SetConfigStore, IpcPc
<1>18. CASE SyncKeepAwakeDisplay(h)
  <2>1. holds' \in [Id -> Hold] /\ \A i \in Id : holds'[i].by = holds[i].by
    <3>1. PICK lit \in BOOLEAN : holds' = [holds EXCEPT !["awake"].display = lit]
      BY <1>18 DEF SyncKeepAwakeDisplay
    <3> QED
      BY <3>1, <1>0 DEF MapTypeOK, Hold
  <2> QED
    BY <1>18, <2>1, <1>b, <1>e DEF SyncKeepAwakeDisplay
<1>19. Key \subseteq Id /\ Run \subseteq Id
  BY DEF Id
<1> QED
  BY <1>1, <1>2, <1>3, <1>4, <1>5, <1>6, <1>7, <1>8, <1>9, <1>10, <1>11, <1>12, <1>13,
     <1>14, <1>15, <1>16, <1>17, <1>18, <1>19 DEF Ipc

-----------------------------------------------------------------------------
(* The theorems on types and on the latch. *)

HInv == Types /\ LatchInv

\* The daemon starts with nothing held and no latch.
LEMMA HoldsInit == Init => HInv
<1> SUFFICES ASSUME Init PROVE HInv
  OBVIOUS
<1>1. MapTypeOK
  BY RestTypes DEF Init, MapTypeOK
<1>2. CondTypeOK
  <2>1. due \in 1..MaxFire
    BY MaxFireAssumption DEF Init
  <2>2. cfg \in Config
    BY DEF Init, Config
  <2> QED
    BY <2>1, <2>2, Zenon DEF Init, CondTypeOK
<1>3. ThreadTypeOK
  BY RestTypes DEF Init, ThreadTypeOK, LoopThread, IpcThread
<1>4. LatchInv
  BY RestTypes DEF Init, LatchInv, LatchKeepsWindowsShut, IdleIpc, NoHold
<1> QED
  BY <1>1, <1>2, <1>3, <1>4 DEF HInv, Types

\* Every step, of the loop or of a handler, keeps the types and the latch's promise.
LEMMA HoldsStep == HInv /\ [Next]_vars => HInv'
<1> SUFFICES ASSUME HInv, [Next]_vars PROVE HInv'
  OBVIOUS
<1>1. CASE Loop
  BY <1>1, LoopMap, LoopCond, LoopThreads, LoopLatch DEF HInv, Types, LoopStep
<1>2. ASSUME NEW h \in Handler, Ipc(h) PROVE HInv'
  <2>1. HandlerEffect(h)
    BY <1>2, HandlerStep DEF HInv
  <2>2. UNCHANGED << loop, latch >>
    BY <1>2, HandlerFrame
  <2>3. MapTypeOK'
    BY <2>1 DEF HandlerEffect, MapTypeOK
  <2>4. CondTypeOK'
    BY <1>2, HandlerCond DEF HInv, Types
  <2>5. ThreadTypeOK'
    BY <2>1, <2>2 DEF HandlerEffect, HInv, Types, ThreadTypeOK, IpcThread
  <2>6. LatchInv'
    <3>1. \A i \in Id : latch' => holds'[i].by # "loop"
      BY <2>1, <2>2 DEF HandlerEffect, HInv, LatchInv, LatchKeepsWindowsShut
    <3>2. \A g \in Handler : ipc'[g].new.by # "loop"
      BY <2>1 DEF HandlerEffect, HInv, LatchInv
    <3>3. latch' => loop'.pc \notin {"windows", "fire", "insert"}
      BY <2>2 DEF HInv, LatchInv
    <3> QED
      BY <3>1, <3>2, <3>3, LatchKept
  <2> QED
    BY <2>3, <2>4, <2>5, <2>6 DEF HInv, Types
<1>3. CASE UNCHANGED vars
  BY <1>3 DEF HInv, Types, MapTypeOK, CondTypeOK, ThreadTypeOK, LatchInv,
     LatchKeepsWindowsShut, vars, mapVars, condVars
<1> QED
  BY <1>1, <1>2, <1>3 DEF Next

\* The variables of Holds keep their types, the counters of assertions aside.
THEOREM TypesCorrect == Spec => []Types
<1>1. HInv => Types
  BY DEF HInv
<1> QED
  BY HoldsInit, HoldsStep, <1>1, PTL DEF Spec

\* While a cutout is latched there is no window the control loop opened: tick
\* evaluates the cutout before it opens windows, on the same goroutine, and no
\* handler inserts a window in the loop's name.
THEOREM CutoutShutsWindows == Spec => []LatchKeepsWindowsShut
<1>1. HInv => LatchKeepsWindowsShut
  BY DEF HInv, LatchInv
<1> QED
  BY HoldsInit, HoldsStep, <1>1, PTL DEF Spec

-----------------------------------------------------------------------------
(* What the counts of assertions rest on. *)

Bit(b) == IF b THEN 1 ELSE 0

\* An empty slot of the map has no assertion, and only the keep-awake window lights
\* the display.
SlotInv ==
    \A i \in Id : /\ ~Open(i) => ~holds[i].idle /\ ~holds[i].display
                  /\ holds[i].display => i = "awake"

\* A handler has an assertion in hand only between the check and the insert, where
\* it knows the id it inserts under.
HandlerHand(h) ==
    /\ ipc[h].new.idle => ipc[h].pc \in {"awake", "run", "adhoc"}
    /\ ipc[h].pc \in {"awake", "run", "adhoc"} => ipc[h].new.by # "none"
    /\ ~ipc[h].new.display
    /\ ipc[h].pc \in {"lookup", "check", "run"} => ipc[h].id \in Key \cup Run
    /\ ipc[h].pc \in {"adhoc", "mark", "release"} => ipc[h].id \in Job

LoopHand ==
    /\ loop.new.idle => loop.pc = "insert"
    /\ loop.pc = "insert" => loop.new.by # "none" /\ loop.new.fire > loop.srv
    /\ ~loop.new.display
    /\ loop.pc \in {"fire", "insert", "retire"} => loop.id \in Job

HandInv == LoopHand /\ \A h \in Handler : HandlerHand(h)

\* Nobody but a job's own report of a start opens a hold while the loop scans.
MarksInv == "mark" \notin Requests => AtRest({"adhoc", "mark"})

CaptureInv ==
    \A j \in Job :
      /\ captured[j].st # "none" => loop.pc = "scan" /\ Detection[j] = "pattern"
      /\ captured[j].st = "same" => Open(j)
      /\ captured[j].st = "gone" /\ "mark" \notin Requests
            => ~Open(j) /\ captured[j].fire = served[j]

\* While only one of the two settings changes, no stale copy undoes the other.
ConfigInv ==
    /\ "agents" \notin Requests => AtRest({"setAgents"})
    /\ "display" \notin Requests
          => ~cfg.display /\ \A h \in Handler : ~ipc[h].next.display

IdleCount == idles = Cardinality(Idle(Id)) + InFlight
DisplayCount == displays = Cardinality(Lit(Id))
DisplayWanted == Lit(Id) # {} /\ AtRest({"syncDisplay"}) => cfg.display

OnceInv == \A j \in Job :
    IF Open(j) THEN holds[j].fire = opened[j] ELSE served[j] = opened[j]

\* What relates the map to the counts, to the captured pointers and to the history.
MapInv == SlotInv /\ IdleCount /\ DisplayCount /\ CaptureInv /\ OnceInv

-----------------------------------------------------------------------------
(* Counting. *)

\* Two subsets of a finite set that agree everywhere but at x.
LEMMA CountOne ==
    ASSUME NEW S, IsFiniteSet(S), NEW A \in SUBSET S, NEW B \in SUBSET S, NEW x \in S,
           \A y \in S \ {x} : y \in A <=> y \in B
    PROVE  /\ Cardinality(A) \in Nat /\ Cardinality(B) \in Nat
           /\ Cardinality(B) = Cardinality(A) - Bit(x \in A) + Bit(x \in B)
<1>1. /\ IsFiniteSet(A) /\ IsFiniteSet(B)
      /\ Cardinality(A) \in Nat /\ Cardinality(B) \in Nat
  BY FS_Subset, FS_CardinalityType
<1>2. A \ {x} = B \ {x}
  OBVIOUS
<1>3. /\ Cardinality(A \ {x}) = IF x \in A THEN Cardinality(A) - 1 ELSE Cardinality(A)
      /\ Cardinality(B \ {x}) = IF x \in B THEN Cardinality(B) - 1 ELSE Cardinality(B)
  BY <1>1, FS_RemoveElement
<1>4. Bit(x \in A) = IF x \in A THEN 1 ELSE 0
  BY DEF Bit
<1>5. Bit(x \in B) = IF x \in B THEN 1 ELSE 0
  BY DEF Bit
<1>6. Cardinality(A \ {x}) = Cardinality(B \ {x})
  BY <1>2
<1> DEFINE a == Cardinality(A)
           b == Cardinality(B)
           c == Cardinality(A \ {x})
<1>7. /\ a \in Nat /\ b \in Nat
      /\ c = IF x \in A THEN a - 1 ELSE a
      /\ c = IF x \in B THEN b - 1 ELSE b
  BY <1>1, <1>3, <1>6
<1> HIDE DEF a, b, c
<1>8. b = a - Bit(x \in A) + Bit(x \in B)
  <2>1. CASE x \in A /\ x \in B
    BY <1>4, <1>5, <1>7, <2>1
  <2>2. CASE x \in A /\ x \notin B
    BY <1>4, <1>5, <1>7, <2>2
  <2>3. CASE x \notin A /\ x \in B
    BY <1>4, <1>5, <1>7, <2>3
  <2>4. CASE x \notin A /\ x \notin B
    BY <1>4, <1>5, <1>7, <2>4
  <2> QED
    BY <2>1, <2>2, <2>3, <2>4
<1> QED
  BY <1>1, <1>8 DEF a, b

\* A subset taken out of a finite set.
LEMMA CountLess ==
    ASSUME NEW S, IsFiniteSet(S), NEW A \in SUBSET S, NEW B \in SUBSET A
    PROVE  /\ Cardinality(A) \in Nat /\ Cardinality(B) \in Nat
           /\ Cardinality(A \ B) = Cardinality(A) - Cardinality(B)
<1>1. IsFiniteSet(A) /\ Cardinality(A) \in Nat
  BY FS_Subset, FS_CardinalityType
<1>2. IsFiniteSet(B) /\ Cardinality(B) \in Nat
  BY <1>1, FS_Subset, FS_CardinalityType
<1>3. A \cap B = B
  OBVIOUS
<1> QED
  BY <1>1, <1>2, <1>3, FS_Difference

\* A step that changes the idle assertion of one hold only.
LEMMA IdleOne ==
    ASSUME NEW i \in Id, \A k \in Id \ {i} : holds'[k].idle = holds[k].idle
    PROVE  /\ Cardinality(Idle(Id)) \in Nat /\ Cardinality(Idle(Id))' \in Nat
           /\ Cardinality(Idle(Id))' = Cardinality(Idle(Id)) - Bit(holds[i].idle)
                                       + Bit(holds'[i].idle)
<1> DEFINE A == Idle(Id)
           B == {k \in Id : holds'[k].idle}
<1>1. B = Idle(Id)'
  BY DEF Idle
<1>2. A \in SUBSET Id /\ B \in SUBSET Id /\ \A k \in Id \ {i} : k \in A <=> k \in B
  BY DEF Idle
<1>3. Bit(i \in A) = Bit(holds[i].idle) /\ Bit(i \in B) = Bit(holds'[i].idle)
  BY DEF Idle, Bit
<1>4. IsFiniteSet(Id)
  BY IdsAssumption
<1> HIDE DEF A, B
<1>5. /\ Cardinality(A) \in Nat /\ Cardinality(B) \in Nat
      /\ Cardinality(B) = Cardinality(A) - Bit(i \in A) + Bit(i \in B)
  BY <1>2, <1>4, CountOne
<1> QED
  BY <1>1, <1>3, <1>5 DEF A

\* A step that changes the display assertion of one hold only.
LEMMA LitOne ==
    ASSUME NEW i \in Id, \A k \in Id \ {i} : holds'[k].display = holds[k].display
    PROVE  /\ Cardinality(Lit(Id)) \in Nat /\ Cardinality(Lit(Id))' \in Nat
           /\ Cardinality(Lit(Id))' = Cardinality(Lit(Id)) - Bit(holds[i].display)
                                       + Bit(holds'[i].display)
<1> DEFINE A == Lit(Id)
           B == {k \in Id : holds'[k].display}
<1>1. B = Lit(Id)'
  BY DEF Lit
<1>2. A \in SUBSET Id /\ B \in SUBSET Id /\ \A k \in Id \ {i} : k \in A <=> k \in B
  BY DEF Lit
<1>3. Bit(i \in A) = Bit(holds[i].display) /\ Bit(i \in B) = Bit(holds'[i].display)
  BY DEF Lit, Bit
<1>4. IsFiniteSet(Id)
  BY IdsAssumption
<1> HIDE DEF A, B
<1>5. /\ Cardinality(A) \in Nat /\ Cardinality(B) \in Nat
      /\ Cardinality(B) = Cardinality(A) - Bit(i \in A) + Bit(i \in B)
  BY <1>2, <1>4, CountOne
<1> QED
  BY <1>1, <1>3, <1>5 DEF A

\* finishHoldLocked takes its holds' assertions out of both counts, once each.
LEMMA FinishCounts ==
    ASSUME NEW I \in SUBSET Id, finishHoldLocked(I)
    PROVE  /\ Cardinality(Idle(Id)) \in Nat /\ Cardinality(Lit(Id)) \in Nat
           /\ Cardinality(Idle(I)) \in Nat /\ Cardinality(Lit(I)) \in Nat
           /\ Cardinality(Idle(Id))' = Cardinality(Idle(Id)) - Cardinality(Idle(I))
           /\ Cardinality(Lit(Id))' = Cardinality(Lit(Id)) - Cardinality(Lit(I))
<1>1. \A i \in Id : /\ i \in I => ~holds'[i].idle /\ ~holds'[i].display
                    /\ i \notin I => holds'[i] = holds[i]
  BY DEF finishHoldLocked, NoHold
<1>2. Idle(I) \in SUBSET Idle(Id) /\ Lit(I) \in SUBSET Lit(Id)
      /\ Idle(Id) \in SUBSET Id /\ Lit(Id) \in SUBSET Id
  BY DEF Idle, Lit
<1>3. Idle(Id)' = Idle(Id) \ Idle(I)
  BY <1>1 DEF Idle
<1>4. Lit(Id)' = Lit(Id) \ Lit(I)
  BY <1>1 DEF Lit
<1>5. IsFiniteSet(Id)
  BY IdsAssumption
<1>6. /\ Cardinality(Idle(Id)) \in Nat /\ Cardinality(Idle(I)) \in Nat
      /\ Cardinality(Idle(Id) \ Idle(I)) = Cardinality(Idle(Id)) - Cardinality(Idle(I))
  BY <1>2, <1>5, CountLess
<1>7. /\ Cardinality(Lit(Id)) \in Nat /\ Cardinality(Lit(I)) \in Nat
      /\ Cardinality(Lit(Id) \ Lit(I)) = Cardinality(Lit(Id)) - Cardinality(Lit(I))
  BY <1>2, <1>5, CountLess
<1> QED
  BY <1>3, <1>4, <1>6, <1>7

\* A handler's step moves no other thread's assertion in hand.
LEMMA HandlerInFlight ==
    ASSUME NEW h \in Handler, \A g \in Handler \ {h} : ipc'[g].new.idle = ipc[g].new.idle,
           loop' = loop
    PROVE  /\ InFlight \in Nat /\ InFlight' \in Nat
           /\ InFlight' = InFlight - Bit(ipc[h].new.idle) + Bit(ipc'[h].new.idle)
<1> DEFINE A == {g \in Handler : ipc[g].new.idle}
           B == {g \in Handler : ipc'[g].new.idle}
           n == IF loop.new.idle THEN 1 ELSE 0
<1>1. /\ A \in SUBSET Handler /\ B \in SUBSET Handler
      /\ \A g \in Handler \ {h} : g \in A <=> g \in B
  OBVIOUS
<1>2. Bit(h \in A) = Bit(ipc[h].new.idle) /\ Bit(h \in B) = Bit(ipc'[h].new.idle)
  BY DEF Bit
<1>3. InFlight = Cardinality(A) + n /\ InFlight' = Cardinality(B) + n /\ n \in {0, 1}
  BY DEF InFlight
<1>4. IsFiniteSet(Handler)
  BY IdsAssumption
<1> HIDE DEF A, B, n
<1>5. /\ Cardinality(A) \in Nat /\ Cardinality(B) \in Nat
      /\ Cardinality(B) = Cardinality(A) - Bit(h \in A) + Bit(h \in B)
  BY <1>1, <1>4, CountOne
<1>6. Bit(h \in A) \in {0, 1} /\ Bit(h \in B) \in {0, 1}
  BY DEF Bit
<1>7. InFlight' = InFlight - Bit(h \in A) + Bit(h \in B)
  BY <1>3, <1>5, <1>6
<1> QED
  BY <1>2, <1>3, <1>5, <1>7

\* A step of the loop moves no handler's.
LEMMA LoopInFlight ==
    ASSUME ipc' = ipc
    PROVE  /\ InFlight \in Nat /\ InFlight' \in Nat
           /\ InFlight' = InFlight - Bit(loop.new.idle) + Bit(loop'.new.idle)
<1> DEFINE A == {g \in Handler : ipc[g].new.idle}
<1>1. Cardinality(A) \in Nat
  BY IdsAssumption, FS_Subset, FS_CardinalityType
<1>2. InFlight = Cardinality(A) + Bit(loop.new.idle)
  BY DEF InFlight, Bit
<1>3. InFlight' = Cardinality(A) + Bit(loop'.new.idle)
  BY DEF InFlight, Bit
<1>4. Bit(loop.new.idle) \in {0, 1} /\ Bit(loop'.new.idle) \in {0, 1}
  BY DEF Bit
<1> HIDE DEF A
<1> QED
  BY <1>1, <1>2, <1>3, <1>4

-----------------------------------------------------------------------------
(* What the threads have in hand. *)

LEMMA NoHoldEmpty ==
    NoHold \in Hold /\ NoHold.by = "none" /\ ~NoHold.idle /\ ~NoHold.display
    /\ NoHold.fire = 0 /\ ~NoHold.detected
  BY RestTypes DEF NoHold

LEMMA TakenHold ==
    ASSUME NEW new, NEW by, NEW fire, HoldIdleSleep(new, by, fire)
    PROVE  new.by = by /\ ~new.display /\ new.fire = fire
           /\ idles' = IF new.idle THEN idles + 1 ELSE idles
  BY DEF HoldIdleSleep, NoHold

\* Where a handler is after it goes on, or returns.
LEMMA MovesTo ==
    ASSUME ThreadTypeOK, NEW h \in Handler, NEW pc, NEW i, NEW new, Goto(h, pc, i, new)
    PROVE  /\ \A g \in Handler \ {h} : ipc'[g] = ipc[g]
           /\ ipc'[h].pc = pc /\ ipc'[h].id = i /\ ipc'[h].new = new
           /\ ~ipc'[h].next.display
  BY DEF Goto, ThreadTypeOK, IdleIpc, NoConfig

LEMMA MovesBack ==
    ASSUME ThreadTypeOK, NEW h \in Handler, Return(h)
    PROVE  /\ \A g \in Handler \ {h} : ipc'[g] = ipc[g]
           /\ ipc'[h].pc = "idle" /\ ipc'[h].id = "none" /\ ipc'[h].new = NoHold
           /\ ~ipc'[h].next.display
  BY DEF Return, ThreadTypeOK, IdleIpc, NoConfig

\* What a handler's step does to its own thread, and to no other.
HandMoves(h) ==
    /\ \A g \in Handler \ {h} : ipc'[g] = ipc[g]
    /\ HandlerHand(h)'
    /\ "mark" \notin Requests /\ ipc[h].pc \notin {"adhoc", "mark"}
          => ipc'[h].pc \notin {"adhoc", "mark"}
    /\ "agents" \notin Requests => ipc'[h].pc # "setAgents"
    /\ "display" \notin Requests /\ ~cfg.display => ~ipc'[h].next.display

LEMMA HandlerThread ==
    ASSUME ThreadTypeOK, NEW h \in Handler, HandlerHand(h), ConfigInv, Ipc(h)
    PROVE  HandMoves(h)
<1>a. Return(h) => HandMoves(h)
  BY MovesBack, NoHoldEmpty DEF HandMoves, HandlerHand
<1>b. ASSUME NEW pc \in {"lookup", "check", "mark", "release", "sleepnow",
                         "releaseAgents", "syncDisplay"},
             NEW i, Goto(h, pc, i, NoHold),
             pc \in {"lookup", "check"} => i \in Key \cup Run,
             pc \in {"mark", "release"} => i \in Job,
             pc = "mark" => ipc[h].pc = "adhoc"
      PROVE  HandMoves(h)
  BY <1>b, MovesTo, NoHoldEmpty DEF HandMoves, HandlerHand
<1>c. ASSUME NEW pc \in {"awake", "run", "adhoc"}, NEW i, NEW new,
             HoldIdleSleep(new, "ipc", 0) \/ \E now \in {2 * due - 1, 2 * due} :
                                                HoldIdleSleep(new, "ipc", now),
             Goto(h, pc, i, new),
             pc = "run" => i \in Key \cup Run,
             pc = "adhoc" => i \in Job /\ "mark" \in Requests
      PROVE  HandMoves(h)
  <2>1. new.by = "ipc" /\ ~new.display
    BY <1>c, TakenHold
  <2> QED
    BY <1>c, <2>1, MovesTo DEF HandMoves, HandlerHand
<1>d. UNCHANGED ipc => HandMoves(h)
  BY DEF HandMoves, HandlerHand, ConfigInv, AtRest
<1>1. CASE KeepAwake(h)
  BY <1>1, <1>c DEF KeepAwake
<1>2. CASE \/ KeepAwakeInsert(h) \/ OpenRunHoldInsert(h) \/ MarkAdHoc(h) \/ ReleaseJob(h)
           \/ ReleaseAgentHolds(h) \/ SyncKeepAwakeDisplay(h)
  BY <1>2, <1>a DEF KeepAwakeInsert, OpenRunHoldInsert, MarkAdHoc, ReleaseJob,
     ReleaseAgentHolds, SyncKeepAwakeDisplay
<1>3. CASE \/ \E i \in Id : Release(h, i)
           \/ \E j \in Job : MarkEnd(h, j)
           \/ Resume(h)
  BY <1>3, <1>d DEF Release, MarkEnd, Resume
<1>4. ASSUME NEW k \in Key, StartKeyedRun(h, k) PROVE HandMoves(h)
  BY <1>4, <1>b DEF StartKeyedRun
<1>5. ASSUME NEW r \in Run, StartRun(h, r) PROVE HandMoves(h)
  BY <1>5, <1>b DEF StartRun
<1>6. CASE LookupRun(h)
  <2>1. ipc[h].id \in Key \cup Run
    BY <1>6 DEF LookupRun, HandlerHand
  <2> QED
    BY <1>6, <2>1, <1>a, <1>b DEF LookupRun
<1>7. CASE OpenRunHold(h)
  <2>1. ipc[h].id \in Key \cup Run
    BY <1>7 DEF OpenRunHold, HandlerHand
  <2> QED
    BY <1>7, <2>1, <1>a, <1>c DEF OpenRunHold
<1>8. ASSUME NEW j \in Job, MarkStart(h, j) PROVE HandMoves(h)
  BY <1>8, <1>c, <1>d DEF MarkStart, Asked
<1>9. CASE OpenAdHocWindow(h)
  <2>1. ipc[h].id \in Job /\ ipc[h].pc = "adhoc"
    BY <1>9 DEF OpenAdHocWindow, HandlerHand
  <2> QED
    BY <1>9, <2>1, <1>b DEF OpenAdHocWindow
<1>10. CASE Pause(h)
  BY <1>10, <1>b DEF Pause
<1>11. CASE SleepNow(h)
  BY <1>11, <1>a, <1>d DEF SleepNow
<1>12. ASSUME NEW j \in Job, NEW st \in {"enabled", "disabled", "gone"}, ChangeJob(h, j, st)
       PROVE  HandMoves(h)
  BY <1>12, <1>b, <1>d DEF ChangeJob
<1>13. ASSUME NEW kind \in {"agents", "display"}, NEW on \in BOOLEAN, SetConfig(h, kind, on)
       PROVE  HandMoves(h)
  <2>1. /\ \A g \in Handler \ {h} : ipc'[g] = ipc[g]
        /\ ipc'[h].pc = IF kind = "agents" THEN "setAgents" ELSE "setDisplay"
        /\ ipc'[h].new = NoHold /\ ipc'[h].next = [cfg EXCEPT ![kind] = on]
    BY <1>13 DEF SetConfig, ThreadTypeOK, IdleIpc
  <2>2. kind \in Requests
    BY <1>13 DEF SetConfig, Asked
  <2>3. kind = "agents" => ipc'[h].next.display = cfg.display
    BY <2>1
  <2>4. HandlerHand(h)'
    BY <2>1, NoHoldEmpty DEF HandlerHand
  <2> QED
    BY <2>1, <2>2, <2>3, <2>4 DEF HandMoves
<1>14. CASE SetConfigStore(h)
  BY <1>14, <1>a, <1>b DEF SetConfigStore
<1> QED
  BY <1>1, <1>2, <1>3, <1>4, <1>5, <1>6, <1>7, <1>8, <1>9, <1>10, <1>11, <1>12,
     <1>13, <1>14 DEF Ipc

\* The loop's own: it has an assertion in hand only before an insert.
LEMMA LoopHandKept ==
    ASSUME CondTypeOK, ThreadTypeOK, LoopHand, Loop
    PROVE  LoopHand'
<1> USE DEF LoopHand
<1>0. loop \in LoopThread
  BY DEF ThreadTypeOK, LoopThread
<1>a. ~IdleLoop.new.idle /\ ~IdleLoop.new.display /\ IdleLoop.pc = "idle"
  BY NoHoldEmpty DEF IdleLoop
<1>1. CASE Tick \/ FireCutout \/ OpenDueWindows
  BY <1>0, <1>1 DEF Tick, FireCutout, OpenDueWindows, LoopThread
<1>2. CASE OpenWindowInsert
  BY <1>0, <1>2, NoHoldEmpty DEF OpenWindowInsert, LoopThread
<1>3. ASSUME NEW j \in Job, PassOver(j) \/ SchedulerFireTime(j) \/ SchedulerReportsStart(j)
      PROVE  LoopHand'
  BY <1>0, <1>3 DEF PassOver, SchedulerFireTime, SchedulerReportsStart, LoopThread
<1>4. ASSUME NEW j \in Job, OpenWindow(j) PROVE LoopHand'
  <2>1. PICK new \in Hold :
           /\ HoldIdleSleep(new, "loop", 2 * due)
           /\ loop' = [loop EXCEPT !.pc = "insert", !.srv = served[j], !.new = new]
    BY <1>4 DEF OpenWindow
  <2>2. new.by = "loop" /\ ~new.display /\ new.fire = 2 * due
    BY <2>1, TakenHold
  <2>3. loop'.pc = "insert" /\ loop'.id = loop.id /\ loop'.srv = served[j] /\ loop'.new = new
    BY <2>1, <1>0 DEF LoopThread
  <2>4. loop.pc = "fire" /\ 2 * due > served[j]
    BY <1>4 DEF OpenWindow
  <2> QED
    BY <2>2, <2>3, <2>4
<1>5. CASE PollDetection \/ ScanFails
  BY <1>0, <1>5 DEF PollDetection, ScanFails, LoopThread
<1>6. CASE ReleaseRetired \/ NextFire
  BY <1>6, <1>a DEF ReleaseRetired, NextFire
<1>7. ASSUME NEW j \in Job, NEW matched \in BOOLEAN, UpdatePatternHold(j, matched)
      PROVE  LoopHand'
  BY <1>0, <1>7 DEF UpdatePatternHold, LoopThread
<1>8. ASSUME NEW S \in SUBSET Id,
             CheckMarkedPIDs(S) \/ PollSchedulerState(S) \/ EnforceCeilings(S)
      PROVE  LoopHand'
  BY <1>0, <1>8, <1>a DEF CheckMarkedPIDs, PollSchedulerState, EnforceCeilings, LoopThread
<1>9. ASSUME NEW j \in Job, NEW st \in {"disabled", "gone"},
             AdoptJob(j) \/ RetireJob(j, st)
      PROVE  LoopHand'
  BY <1>0, <1>9 DEF AdoptJob, RetireJob, LoopThread
<1> QED
  BY <1>1, <1>2, <1>3, <1>4, <1>5, <1>6, <1>7, <1>8, <1>9 DEF Loop

-----------------------------------------------------------------------------
(* The four things a step does to the map. *)

\* It leaves the holds alone, and may take an assertion in hand.
LEMMA StillKeeps ==
    ASSUME MapInv, UNCHANGED << holds, displays, served, captured, opened >>,
           loop'.pc = loop.pc \/ loop.pc # "scan",
           idles \in Int => idles' = idles + (InFlight' - InFlight),
           InFlight \in Nat, InFlight' \in Nat
    PROVE  MapInv'
<1>1. SlotInv' /\ OnceInv'
  BY DEF MapInv, SlotInv, OnceInv, Open
<1>2. CaptureInv'
  BY DEF MapInv, CaptureInv, Open
<1>3. DisplayCount'
  BY DEF MapInv, DisplayCount, Lit
<1>4. IdleCount'
  <2>1. Cardinality(Idle(Id)) \in Nat
    BY IdsAssumption, FS_Subset, FS_CardinalityType DEF Idle
  <2>2. Cardinality(Idle(Id))' = Cardinality(Idle(Id))
    BY DEF Idle
  <2>3. idles = Cardinality(Idle(Id)) + InFlight
    BY DEF MapInv, IdleCount
  <2> DEFINE n == Cardinality(Idle(Id))
             f == InFlight
             g == InFlight'
  <2>4. f \in Nat /\ g \in Nat /\ n \in Nat /\ idles = n + f
    BY <2>1, <2>3
  <2> HIDE DEF n, f, g
  <2>5. idles' = n + g
    <3>1. idles \in Int
      BY <2>4
    <3>2. idles' = idles + (g - f)
      BY <3>1 DEF f, g
    <3> QED
      BY <2>4, <3>1, <3>2
  <2> QED
    BY <2>2, <2>5 DEF n, g, IdleCount
<1> QED
  BY <1>1, <1>2, <1>3, <1>4 DEF MapInv

\* It finishes holds.
LEMMA FinishKeeps ==
    ASSUME MapTypeOK, MapInv, NEW I \in SUBSET Id, finishHoldLocked(I), opened' = opened,
           loop'.pc = loop.pc \/ loop.pc # "scan",
           InFlight' = InFlight, InFlight \in Nat
    PROVE  MapInv'
<1>0. \A j \in Job : j \in Id /\ captured[j] \in Capture
  BY DEF Id, MapTypeOK
<1>1. \A i \in Id : /\ i \in I => holds'[i] = NoHold
                    /\ i \notin I => holds'[i] = holds[i]
  BY DEF finishHoldLocked
<1>2. SlotInv'
  BY <1>1, NoHoldEmpty DEF MapInv, SlotInv, Open
<1>3. OnceInv'
  <2> SUFFICES ASSUME NEW j \in Job
               PROVE  IF Open(j)' THEN holds'[j].fire = opened[j] ELSE served'[j] = opened[j]
    BY DEF OnceInv
  <2>1. IF Open(j) THEN holds[j].fire = opened[j] ELSE served[j] = opened[j]
    BY DEF MapInv, OnceInv
  <2>2. served'[j] = IF j \in I /\ Open(j) THEN holds[j].fire ELSE served[j]
    BY DEF finishHoldLocked
  <2>3. CASE j \in I
    BY <1>0, <1>1, <2>1, <2>2, <2>3, NoHoldEmpty DEF Open
  <2>4. CASE j \notin I
    BY <1>0, <1>1, <2>1, <2>2, <2>4 DEF Open
  <2> QED
    BY <2>3, <2>4
<1>4. CaptureInv'
  <2> SUFFICES ASSUME NEW j \in Job
               PROVE  /\ captured'[j].st # "none" => loop'.pc = "scan" /\ Detection[j] = "pattern"
                      /\ captured'[j].st = "same" => Open(j)'
                      /\ captured'[j].st = "gone" /\ "mark" \notin Requests
                            => ~Open(j)' /\ captured'[j].fire = served'[j]
    BY DEF CaptureInv
  <2>1. /\ captured[j].st # "none" => loop.pc = "scan" /\ Detection[j] = "pattern"
        /\ captured[j].st = "same" => Open(j)
        /\ captured[j].st = "gone" /\ "mark" \notin Requests
              => ~Open(j) /\ captured[j].fire = served[j]
    BY DEF MapInv, CaptureInv
  <2>2. served'[j] = IF j \in I /\ Open(j) THEN holds[j].fire ELSE served[j]
    BY DEF finishHoldLocked
  <2>3. CASE j \in I /\ captured[j].st = "same"
    <3>1. captured'[j].st = "gone" /\ captured'[j].fire = holds[j].fire
      BY <2>3 DEF finishHoldLocked
    <3> QED
      BY <1>0, <1>1, <2>1, <2>2, <2>3, <3>1, NoHoldEmpty DEF Open
  <2>4. CASE ~(j \in I /\ captured[j].st = "same")
    <3>1. captured'[j] = captured[j]
      BY <2>4 DEF finishHoldLocked
    <3>2. CASE j \in I
      BY <1>0, <1>1, <2>1, <2>2, <2>4, <3>1, <3>2, NoHoldEmpty DEF Open
    <3>3. CASE j \notin I
      BY <1>0, <1>1, <2>1, <2>2, <3>1, <3>3 DEF Open
    <3> QED
      BY <3>2, <3>3
  <2> QED
    BY <2>3, <2>4
<1>5. IdleCount'
  BY FinishCounts DEF MapInv, IdleCount, finishHoldLocked
<1>6. DisplayCount'
  BY FinishCounts DEF MapInv, DisplayCount, finishHoldLocked
<1> QED
  BY <1>2, <1>3, <1>4, <1>5, <1>6 DEF MapInv

\* It inserts the hold a thread has in hand, or releases it.
LEMMA InsertKeeps ==
    ASSUME MapTypeOK, MapInv, NEW i \in Id, NEW new \in Hold, InsertOrRelease(i, new),
           new.by # "none", ~new.display,
           UNCHANGED << displays, served, captured >>,
           opened' = IF i \in Job /\ ~Open(i) THEN [opened EXCEPT ![i] = new.fire] ELSE opened,
           i \in Job /\ "mark" \notin Requests => loop.pc # "scan",
           loop'.pc = loop.pc \/ loop.pc # "scan",
           InFlight' = InFlight - Bit(new.idle), InFlight \in Nat
    PROVE  MapInv'
<1>0. \A j \in Job : j \in Id
  BY DEF Id
<1>1. CASE Open(i)
  <2>1. UNCHANGED << holds, displays, served, captured, opened >>
    BY <1>1 DEF InsertOrRelease
  <2>2. idles' = IF new.idle THEN idles - 1 ELSE idles
    BY <1>1 DEF InsertOrRelease
  <2>3. SlotInv' /\ OnceInv' /\ CaptureInv' /\ DisplayCount'
    BY <2>1 DEF MapInv, SlotInv, OnceInv, CaptureInv, DisplayCount, Open, Lit
  <2>4. IdleCount'
    <3>1. Cardinality(Idle(Id)) \in Nat
      BY IdsAssumption, FS_Subset, FS_CardinalityType DEF Idle
    <3>2. Cardinality(Idle(Id))' = Cardinality(Idle(Id))
      BY <2>1 DEF Idle
    <3>3. idles = Cardinality(Idle(Id)) + InFlight
      BY DEF MapInv, IdleCount
    <3> QED
      BY <2>2, <3>1, <3>2, <3>3 DEF IdleCount, Bit
  <2> QED
    BY <2>3, <2>4 DEF MapInv
<1>2. CASE ~Open(i)
  <2>1. holds' = [holds EXCEPT ![i] = new] /\ idles' = idles
    BY <1>2 DEF InsertOrRelease
  <2>2. holds'[i] = new /\ \A k \in Id \ {i} : holds'[k] = holds[k]
    BY <2>1 DEF MapTypeOK
  <2>3. ~holds[i].idle /\ ~holds[i].display
    BY <1>2 DEF MapInv, SlotInv
  <2>4. SlotInv'
    BY <2>2 DEF MapInv, SlotInv, Open
  <2>5. OnceInv'
    <3> SUFFICES ASSUME NEW j \in Job
                 PROVE  IF Open(j)' THEN holds'[j].fire = opened'[j]
                        ELSE served'[j] = opened'[j]
      BY DEF OnceInv
    <3>1. CASE j = i
      <4>1. opened'[j] = new.fire
        BY <1>2, <3>1 DEF MapTypeOK
      <4> QED
        BY <2>2, <3>1, <4>1 DEF Open
    <3>2. CASE j # i
      <4>1. opened'[j] = opened[j] /\ holds'[j] = holds[j]
        BY <1>0, <2>2, <3>2 DEF MapTypeOK
      <4> QED
        BY <4>1 DEF MapInv, OnceInv, Open
    <3> QED
      BY <3>1, <3>2
  <2>6. CaptureInv'
    BY <1>0, <1>2, <2>2 DEF MapInv, CaptureInv, Open
  <2>7. IdleCount'
    <3>1. /\ Cardinality(Idle(Id)) \in Nat
          /\ Cardinality(Idle(Id))' = Cardinality(Idle(Id)) - Bit(holds[i].idle)
                                       + Bit(holds'[i].idle)
      BY <2>2, IdleOne
    <3>2. Bit(holds[i].idle) = 0 /\ holds'[i].idle = new.idle
      BY <2>2, <2>3 DEF Bit
    <3>3. Bit(new.idle) \in {0, 1}
      BY DEF Bit
    <3>4. idles = Cardinality(Idle(Id)) + InFlight
      BY DEF MapInv, IdleCount
    <3> QED
      BY <2>1, <3>1, <3>2, <3>3, <3>4 DEF IdleCount
  <2>8. DisplayCount'
    <3>1. /\ Cardinality(Lit(Id)) \in Nat
          /\ Cardinality(Lit(Id))' = Cardinality(Lit(Id)) - Bit(holds[i].display)
                                      + Bit(holds'[i].display)
      BY <2>2, LitOne
    <3>2. Bit(holds[i].display) = 0 /\ Bit(holds'[i].display) = 0
      BY <2>2, <2>3 DEF Bit
    <3>3. Cardinality(Lit(Id))' = Cardinality(Lit(Id))
      BY <3>1, <3>2
    <3> QED
      BY <3>3 DEF DisplayCount, MapInv
  <2> QED
    BY <2>4, <2>5, <2>6, <2>7, <2>8 DEF MapInv
<1> QED
  BY <1>1, <1>2

\* It notes that a job with an open hold is running.
LEMMA DetectKeeps ==
    ASSUME MapTypeOK, MapInv, NEW i \in Id, holds' = [holds EXCEPT ![i].detected = TRUE],
           UNCHANGED << idles, displays, served, opened >>,
           \A j \in Job : captured'[j] = captured[j] \/ captured'[j].st = "none",
           loop'.pc = loop.pc \/ \A j \in Job : captured'[j].st = "none",
           InFlight' = InFlight
    PROVE  MapInv'
<1>0. \A j \in Job : j \in Id
  BY DEF Id
<1>1. \A k \in Id : /\ holds'[k].by = holds[k].by /\ holds'[k].fire = holds[k].fire
                    /\ holds'[k].idle = holds[k].idle /\ holds'[k].display = holds[k].display
  BY DEF MapTypeOK, Hold
<1>2. SlotInv' /\ OnceInv'
  BY <1>0, <1>1 DEF MapInv, SlotInv, OnceInv, Open
<1>3. CaptureInv'
  BY <1>0, <1>1 DEF MapInv, CaptureInv, Open
<1>4. Idle(Id)' = Idle(Id) /\ Lit(Id)' = Lit(Id)
  BY <1>1 DEF Idle, Lit
<1>5. IdleCount' /\ DisplayCount'
  BY <1>4 DEF MapInv, IdleCount, DisplayCount
<1> QED
  BY <1>2, <1>3, <1>5 DEF MapInv

-----------------------------------------------------------------------------
(* The steps of the handlers, again. *)

\* KeepAwakeInsert puts the keep-awake window in the map over one already open.
LEMMA KeepAwakeInsertKeeps ==
    ASSUME Types, MapInv, HandInv, NEW h \in Handler, KeepAwakeInsert(h)
    PROVE  MapInv'
<1>0. "awake" \in Id /\ \A j \in Job : j \in Id /\ j # "awake"
  BY IdsAssumption DEF Id
<1>1. PICK lit \in BOOLEAN :
        /\ holds' = [holds EXCEPT !["awake"] = [ipc[h].new EXCEPT !.display = lit]]
        /\ displays' = displays - (IF holds["awake"].display THEN 1 ELSE 0)
                                + (IF lit THEN 1 ELSE 0)
  BY DEF KeepAwakeInsert
<1>2. /\ idles' = IF holds["awake"].idle THEN idles - 1 ELSE idles
      /\ UNCHANGED << served, captured, opened, loop >>
      /\ Return(h) /\ ipc[h].pc = "awake"
  BY DEF KeepAwakeInsert
<1>3. ipc[h].new \in Hold /\ ipc[h].new.by # "none"
  BY <1>2 DEF Types, ThreadTypeOK, HandInv, HandlerHand
<1>4. /\ holds'["awake"].by # "none"
      /\ holds'["awake"].idle = ipc[h].new.idle /\ holds'["awake"].display = lit
      /\ \A k \in Id \ {"awake"} : holds'[k] = holds[k]
  BY <1>0, <1>1, <1>3 DEF Types, MapTypeOK, Hold
<1>5. SlotInv' /\ OnceInv' /\ CaptureInv'
  <2>1. SlotInv'
    BY <1>4 DEF MapInv, SlotInv, Open
  <2>2. OnceInv'
    BY <1>0, <1>2, <1>4 DEF MapInv, OnceInv, Open
  <2>3. CaptureInv'
    BY <1>0, <1>2, <1>4 DEF MapInv, CaptureInv, Open
  <2> QED
    BY <2>1, <2>2, <2>3
<1>6. IdleCount'
  <2>1. /\ Cardinality(Idle(Id)) \in Nat
        /\ Cardinality(Idle(Id))' = Cardinality(Idle(Id)) - Bit(holds["awake"].idle)
                                     + Bit(ipc[h].new.idle)
    BY <1>0, <1>4, IdleOne
  <2>2. ~ipc'[h].new.idle /\ \A g \in Handler \ {h} : ipc'[g] = ipc[g]
    BY <1>2, MovesBack, NoHoldEmpty DEF Types
  <2>3. InFlight \in Nat /\ InFlight' = InFlight - Bit(ipc[h].new.idle) + Bit(ipc'[h].new.idle)
    BY <1>2, <2>2, HandlerInFlight
  <2>4. Bit(ipc'[h].new.idle) = 0 /\ Bit(ipc[h].new.idle) \in {0, 1}
    BY <2>2 DEF Bit
  <2>5. idles = Cardinality(Idle(Id)) + InFlight
    BY DEF MapInv, IdleCount
  <2>6. idles' = idles - Bit(holds["awake"].idle) /\ Bit(holds["awake"].idle) \in {0, 1}
    BY <1>2, <2>1, <2>3, <2>5 DEF Bit
  <2> QED
    BY <2>1, <2>3, <2>4, <2>5, <2>6 DEF IdleCount
<1>7. DisplayCount'
  <2>1. /\ Cardinality(Lit(Id)) \in Nat
        /\ Cardinality(Lit(Id))' = Cardinality(Lit(Id)) - Bit(holds["awake"].display)
                                    + Bit(lit)
    BY <1>0, <1>4, LitOne
  <2>2. displays' = displays - Bit(holds["awake"].display) + Bit(lit)
    BY <1>1 DEF Bit
  <2> QED
    BY <2>1, <2>2 DEF DisplayCount, MapInv
<1> QED
  BY <1>5, <1>6, <1>7 DEF MapInv

\* syncKeepAwakeDisplay takes or releases the display assertion of that window.
LEMMA SyncDisplayKeeps ==
    ASSUME Types, MapInv, HandInv, NEW h \in Handler, SyncKeepAwakeDisplay(h)
    PROVE  MapInv'
<1>0. "awake" \in Id /\ \A j \in Job : j \in Id /\ j # "awake"
  BY IdsAssumption DEF Id
<1>1. PICK lit \in BOOLEAN :
        /\ lit => Open("awake")
        /\ holds' = [holds EXCEPT !["awake"].display = lit]
        /\ displays' = IF lit = holds["awake"].display THEN displays
                       ELSE IF lit THEN displays + 1 ELSE displays - 1
  BY DEF SyncKeepAwakeDisplay
<1>2. UNCHANGED << idles, served, captured, opened, loop >> /\ Return(h)
      /\ ipc[h].pc = "syncDisplay"
  BY DEF SyncKeepAwakeDisplay
<1>3. /\ holds'["awake"].by = holds["awake"].by
      /\ holds'["awake"].idle = holds["awake"].idle /\ holds'["awake"].display = lit
      /\ holds["awake"].display \in BOOLEAN
      /\ \A k \in Id \ {"awake"} : holds'[k] = holds[k]
  BY <1>0, <1>1 DEF Types, MapTypeOK, Hold
<1>4. SlotInv'
  BY <1>1, <1>3 DEF MapInv, SlotInv, Open
<1>5. OnceInv'
  BY <1>0, <1>2, <1>3 DEF MapInv, OnceInv, Open
<1>6. CaptureInv'
  BY <1>0, <1>2, <1>3 DEF MapInv, CaptureInv, Open
<1>7. IdleCount'
  <2>1. Idle(Id)' = Idle(Id)
    BY <1>3 DEF Idle
  <2>2. ~ipc'[h].new.idle /\ \A g \in Handler \ {h} : ipc'[g] = ipc[g]
    BY <1>2, MovesBack, NoHoldEmpty DEF Types
  <2>3. ~ipc[h].new.idle
    BY <1>2 DEF HandInv, HandlerHand
  <2>4. InFlight \in Nat /\ InFlight' = InFlight - Bit(ipc[h].new.idle) + Bit(ipc'[h].new.idle)
    BY <1>2, <2>2, HandlerInFlight
  <2>5. Bit(ipc'[h].new.idle) = 0 /\ Bit(ipc[h].new.idle) = 0
    BY <2>2, <2>3 DEF Bit
  <2>6. InFlight' = InFlight
    BY <2>4, <2>5
  <2> QED
    BY <1>2, <2>1, <2>6 DEF MapInv, IdleCount
<1>8. DisplayCount'
  <2>1. /\ Cardinality(Lit(Id)) \in Nat
        /\ Cardinality(Lit(Id))' = Cardinality(Lit(Id)) - Bit(holds["awake"].display)
                                    + Bit(lit)
    BY <1>0, <1>3, LitOne
  <2>2. displays = Cardinality(Lit(Id))
    BY DEF MapInv, DisplayCount
  <2>3. displays' = displays - Bit(holds["awake"].display) + Bit(lit)
    <3> DEFINE was == holds["awake"].display
    <3>1. /\ was \in BOOLEAN /\ displays \in Nat
          /\ displays' = IF lit = was THEN displays
                         ELSE IF lit THEN displays + 1 ELSE displays - 1
      BY <1>1, <1>3, <2>1, <2>2
    <3> HIDE DEF was
    <3>2. ASSUME lit = was PROVE displays' = displays - Bit(was) + Bit(lit)
      <4>1. displays' = displays /\ Bit(lit) = Bit(was)
        BY <3>1, <3>2, Zenon
      <4>2. Bit(was) \in {0, 1}
        BY DEF Bit
      <4> QED
        BY <3>1, <4>1, <4>2
    <3>3. ASSUME lit /\ ~was PROVE displays' = displays - Bit(was) + Bit(lit)
      <4>1. lit # was
        BY <3>3, Zenon
      <4>2. displays' = displays + 1
        BY <3>1, <3>3, <4>1, Zenon
      <4>3. Bit(lit) = 1 /\ Bit(was) = 0
        BY <3>3, Zenon DEF Bit
      <4> QED
        BY <3>1, <4>2, <4>3
    <3>4. ASSUME ~lit /\ was PROVE displays' = displays - Bit(was) + Bit(lit)
      <4>1. lit # was
        BY <3>4, Zenon
      <4>2. displays' = displays - 1
        BY <3>1, <3>4, <4>1, Zenon
      <4>3. Bit(lit) = 0 /\ Bit(was) = 1
        BY <3>4, Zenon DEF Bit
      <4> QED
        BY <3>1, <4>2, <4>3
    <3>5. displays' = displays - Bit(was) + Bit(lit)
      <4>1. lit = was \/ (lit /\ ~was) \/ (~lit /\ was)
        BY <3>1, Zenon
      <4> QED
        BY <4>1, <3>2, <3>3, <3>4, Zenon
    <3> QED
      BY <3>5 DEF was
  <2> QED
    BY <2>1, <2>2, <2>3 DEF DisplayCount
<1> QED
  BY <1>4, <1>5, <1>6, <1>7, <1>8 DEF MapInv

\* Every other step of a handler is one of the four.
LEMMA HandlerMap ==
    ASSUME Types, MapInv, HandInv, MarksInv, NEW h \in Handler, Ipc(h)
    PROVE  MapInv'
<1>0. MapTypeOK /\ ThreadTypeOK /\ HandlerHand(h) /\ loop' = loop
  BY HandlerFrame DEF Types, HandInv
<1>n. ipc[h].new \in Hold /\ \A i \in Job \cup Key \cup Run : i \in Id
  BY DEF Types, ThreadTypeOK, Id
<1>k. Key \cap Job = {} /\ Run \cap Job = {}
  BY IdsAssumption
<1>a. ASSUME \A g \in Handler \ {h} : ipc'[g] = ipc[g], ipc[h].pc \notin {"awake", "run", "adhoc"},
             ~ipc'[h].new.idle
      PROVE  InFlight' = InFlight /\ InFlight \in Nat
  <2>1. ~ipc[h].new.idle
    BY <1>0, <1>a DEF HandlerHand
  <2>2. Bit(ipc'[h].new.idle) = 0 /\ Bit(ipc[h].new.idle) = 0
    BY <1>a, <2>1 DEF Bit
  <2>3. InFlight \in Nat /\ InFlight' = InFlight - Bit(ipc[h].new.idle) + Bit(ipc'[h].new.idle)
    BY <1>0, <1>a, HandlerInFlight
  <2> QED
    BY <2>2, <2>3
<1>b. ASSUME \/ Return(h)
             \/ \E pc, i : Goto(h, pc, i, NoHold)
             \/ \E kind \in {"agents", "display"}, on \in BOOLEAN : SetConfig(h, kind, on)
      PROVE  /\ \A g \in Handler \ {h} : ipc'[g] = ipc[g]
             /\ ~ipc'[h].new.idle
  <2>1. CASE Return(h)
    BY <1>0, <2>1, MovesBack, NoHoldEmpty
  <2>2. CASE \E pc, i : Goto(h, pc, i, NoHold)
    BY <1>0, <2>2, MovesTo, NoHoldEmpty
  <2>3. CASE \E kind \in {"agents", "display"}, on \in BOOLEAN : SetConfig(h, kind, on)
    BY <1>0, <2>3, NoHoldEmpty DEF SetConfig, ThreadTypeOK, IdleIpc
  <2> QED
    BY <1>b, <2>1, <2>2, <2>3
<1>c. ASSUME UNCHANGED ipc PROVE InFlight' = InFlight /\ InFlight \in Nat
  <2>1. InFlight' = InFlight
    BY <1>0, <1>c DEF InFlight
  <2>2. InFlight \in Nat
    BY <1>0, <1>c, HandlerInFlight
  <2> QED
    BY <2>1, <2>2
<1>d. ASSUME NEW pc, NEW i, NEW new, NEW fire, HoldIdleSleep(new, "ipc", fire), Goto(h, pc, i, new),
             ipc[h].pc \notin {"awake", "run", "adhoc"},
             UNCHANGED << holds, displays, served, captured, opened >>
      PROVE  MapInv'
  <2>1. idles' = IF new.idle THEN idles + 1 ELSE idles
    BY <1>d, TakenHold
  <2>2. ipc'[h].new = new /\ \A g \in Handler \ {h} : ipc'[g] = ipc[g]
    BY <1>0, <1>d, MovesTo
  <2>3. /\ InFlight \in Nat /\ InFlight' \in Nat
        /\ InFlight' = InFlight - Bit(ipc[h].new.idle) + Bit(new.idle)
    BY <1>0, <2>2, HandlerInFlight
  <2>4. Bit(ipc[h].new.idle) = 0 /\ Bit(new.idle) = (IF new.idle THEN 1 ELSE 0)
    BY <1>0, <1>d DEF HandlerHand, Bit
  <2>5. idles \in Int => idles' = idles + (InFlight' - InFlight)
    BY <2>1, <2>3, <2>4
  <2> QED
    BY <1>0, <1>d, <2>3, <2>5, StillKeeps
<1>e. ASSUME UNCHANGED << holds, idles, displays, served, captured, opened >>,
             InFlight' = InFlight, InFlight \in Nat
      PROVE  MapInv'
  BY <1>0, <1>e, StillKeeps
<1>f. ASSUME NEW I \in SUBSET Id, finishHoldLocked(I), opened' = opened,
             InFlight' = InFlight, InFlight \in Nat
      PROVE  MapInv'
  BY <1>0, <1>f, FinishKeeps
<1>g. ASSUME InsertOrRelease(ipc[h].id, ipc[h].new), ipc[h].id \in Id,
             ipc[h].pc \in {"run", "adhoc"}, UNCHANGED << displays, served, captured >>,
             opened' = IF ipc[h].id \in Job /\ ~Open(ipc[h].id)
                       THEN [opened EXCEPT ![ipc[h].id] = ipc[h].new.fire] ELSE opened,
             ipc[h].id \in Job => "mark" \in Requests,
             \A g \in Handler \ {h} : ipc'[g] = ipc[g], ~ipc'[h].new.idle
      PROVE  MapInv'
  <2>1. ipc[h].new.by # "none" /\ ~ipc[h].new.display
    BY <1>0, <1>g DEF HandlerHand
  <2>2. InFlight \in Nat /\ InFlight' = InFlight - Bit(ipc[h].new.idle) + Bit(ipc'[h].new.idle)
    BY <1>0, <1>g, HandlerInFlight
  <2>3. Bit(ipc'[h].new.idle) = 0 /\ Bit(ipc[h].new.idle) \in {0, 1}
    BY <1>g DEF Bit
  <2>4. InFlight' = InFlight - Bit(ipc[h].new.idle)
    BY <2>2, <2>3
  <2> QED
    BY <1>0, <1>g, <1>n, <2>1, <2>2, <2>4, InsertKeeps
<1>1. CASE KeepAwake(h)
  BY <1>1, <1>d DEF KeepAwake, Asked
<1>2. CASE KeepAwakeInsert(h)
  BY <1>2, KeepAwakeInsertKeeps
<1>3. CASE \/ \E i \in Id : Release(h, i)
           \/ \E j \in Job : MarkEnd(h, j)
  BY <1>3, <1>c, <1>f, <1>n DEF Release, MarkEnd
<1>4. CASE \/ \E k \in Key : StartKeyedRun(h, k)
           \/ \E r \in Run : StartRun(h, r)
           \/ Pause(h)
           \/ \E kind \in {"agents", "display"}, on \in BOOLEAN : SetConfig(h, kind, on)
           \/ SetConfigStore(h) \/ LookupRun(h)
  <2>1. /\ UNCHANGED << holds, idles, displays, served, captured, opened >>
        /\ ipc[h].pc \notin {"awake", "run", "adhoc"}
    BY <1>4 DEF StartKeyedRun, StartRun, Pause, SetConfig, SetConfigStore, LookupRun, Asked,
       mapVars
  <2>2. /\ \A g \in Handler \ {h} : ipc'[g] = ipc[g]
        /\ ~ipc'[h].new.idle
    BY <1>4, <1>b DEF StartKeyedRun, StartRun, Pause, SetConfigStore, LookupRun
  <2> QED
    BY <2>1, <2>2, <1>a, <1>e
<1>5. CASE OpenRunHold(h)
  <2>1. ipc[h].pc = "check" /\ UNCHANGED << holds, displays, served, captured, opened >>
    BY <1>5 DEF OpenRunHold
  <2>2. CASE Return(h) /\ UNCHANGED idles
    BY <2>1, <2>2, <1>a, <1>b, <1>e
  <2>3. ASSUME NEW new \in Hold, HoldIdleSleep(new, "ipc", 0), Goto(h, "run", ipc[h].id, new)
        PROVE  MapInv'
    BY <2>1, <2>3, <1>d
  <2> QED
    BY <1>5, <2>2, <2>3 DEF OpenRunHold
<1>6. CASE OpenRunHoldInsert(h)
  <2>1. ipc[h].id \in Key \cup Run /\ ipc[h].pc = "run"
    BY <1>0, <1>6 DEF OpenRunHoldInsert, HandlerHand
  <2>2. /\ InsertOrRelease(ipc[h].id, ipc[h].new) /\ Return(h)
        /\ UNCHANGED << displays, served, captured, opened >>
    BY <1>6 DEF OpenRunHoldInsert
  <2>3. ipc[h].id \notin Job /\ ipc[h].id \in Id
    BY <2>1, <1>k, <1>n
  <2> QED
    BY <2>1, <2>2, <2>3, <1>b, <1>g
<1>7. ASSUME NEW j \in Job, MarkStart(h, j) PROVE MapInv'
  <2>1. /\ UNCHANGED << displays, served, captured, opened >> /\ ipc[h].pc = "idle"
        /\ "mark" \in Requests
    BY <1>7 DEF MarkStart, Asked
  <2>2. CASE holds' = [holds EXCEPT ![j].detected = TRUE] /\ UNCHANGED << idles, ipc >>
    BY <1>0, <1>c, <1>n, <2>1, <2>2, DetectKeeps
  <2>3. ASSUME NEW new, NEW now, HoldIdleSleep(new, "ipc", now), Goto(h, "adhoc", j, new),
               UNCHANGED holds
        PROVE  MapInv'
    BY <2>1, <2>3, <1>d
  <2> QED
    BY <1>7, <2>2, <2>3 DEF MarkStart
<1>8. CASE OpenAdHocWindow(h)
  <2>1. ipc[h].id \in Job /\ ipc[h].pc = "adhoc" /\ "mark" \in Requests
    BY <1>0, <1>8 DEF OpenAdHocWindow, HandlerHand, MarksInv, AtRest
  <2>2. /\ InsertOrRelease(ipc[h].id, ipc[h].new)
        /\ Goto(h, "mark", ipc[h].id, NoHold)
        /\ UNCHANGED << displays, served, captured >>
        /\ opened' = IF Open(ipc[h].id) THEN opened
                     ELSE [opened EXCEPT ![ipc[h].id] = ipc[h].new.fire]
    BY <1>8 DEF OpenAdHocWindow
  <2>3. /\ \A g \in Handler \ {h} : ipc'[g] = ipc[g]
        /\ ~ipc'[h].new.idle
    BY <2>2, <1>b
  <2> QED
    BY <2>1, <2>2, <2>3, <1>g, <1>n
<1>9. CASE MarkAdHoc(h)
  <2>1. ipc[h].pc = "mark" /\ ipc[h].id \in Id /\ Return(h)
        /\ UNCHANGED << idles, displays, served, captured, opened >>
    BY <1>0, <1>n, <1>9 DEF MarkAdHoc, HandlerHand
  <2>2. InFlight' = InFlight /\ InFlight \in Nat
    BY <2>1, <1>a, <1>b
  <2>3. CASE holds' = holds
    BY <2>1, <2>2, <2>3, <1>e
  <2>4. CASE holds' = [holds EXCEPT ![ipc[h].id].detected = TRUE]
    BY <1>0, <2>1, <2>2, <2>4, DetectKeeps
  <2> QED
    BY <1>9, <2>3, <2>4 DEF MarkAdHoc
<1>10. CASE SleepNow(h)
  <2>1. finishHoldLocked(Held) /\ Held \in SUBSET Id /\ opened' = opened
    BY <1>10 DEF SleepNow, Held
  <2>2. InFlight' = InFlight /\ InFlight \in Nat
    BY <1>10, <1>a, <1>b, <1>c DEF SleepNow
  <2> QED
    BY <2>1, <2>2, <1>f
<1>11. CASE Resume(h)
  BY <1>11, <1>c, <1>e DEF Resume, mapVars
<1>12. ASSUME NEW j \in Job, NEW st \in {"enabled", "disabled", "gone"}, ChangeJob(h, j, st)
       PROVE  MapInv'
  <2>1. /\ UNCHANGED << holds, idles, displays, served, captured, opened >>
        /\ ipc[h].pc = "idle"
    BY <1>12 DEF ChangeJob, Asked, mapVars
  <2>2. UNCHANGED ipc \/ Goto(h, "release", j, NoHold)
    BY <1>12 DEF ChangeJob
  <2> QED
    BY <2>1, <2>2, <1>a, <1>b, <1>c, <1>e
<1>13. CASE ReleaseJob(h) \/ ReleaseAgentHolds(h)
  <2>1. /\ Return(h) /\ opened' = opened /\ ipc[h].pc \in {"release", "releaseAgents"}
        /\ \/ ipc[h].id \in Job /\ finishHoldLocked({ipc[h].id})
           \/ finishHoldLocked(Key)
    BY <1>0, <1>13 DEF ReleaseJob, ReleaseAgentHolds, HandlerHand
  <2>2. InFlight' = InFlight /\ InFlight \in Nat
    BY <2>1, <1>a, <1>b
  <2> QED
    BY <2>1, <2>2, <1>f, <1>n
<1>14. CASE SyncKeepAwakeDisplay(h)
  BY <1>14, SyncDisplayKeeps
<1> QED
  BY <1>1, <1>2, <1>3, <1>4, <1>5, <1>6, <1>7, <1>8, <1>9, <1>10, <1>11, <1>12,
     <1>13, <1>14 DEF Ipc

-----------------------------------------------------------------------------
(* The steps of the control loop, again. *)

\* The hypothesis of the theorems below: a job that reports its own starts is not
\* also watched by a process pattern. Without it updatePatternHold may finish a hold
\* it does not point to.
NoPatternMarks == "mark" \in Requests => \A j \in Job : Detection[j] # "pattern"

\* updatePatternHold, on a pointer captured in this scan.
LEMMA PatternKeeps ==
    ASSUME NoPatternMarks, Types, MapInv, NEW j \in Job, NEW matched \in BOOLEAN,
           UpdatePatternHold(j, matched), InFlight' = InFlight, InFlight \in Nat
    PROVE  MapInv'
<1>0. MapTypeOK /\ captured[j] \in Capture /\ \A i \in Job : i \in Id
  BY DEF Types, MapTypeOK, Id
<1>1. /\ loop.pc = "scan" /\ captured[j].st # "none"
      /\ captured' = [captured EXCEPT ![j] = NoCapture]
      /\ loop' = [loop EXCEPT !.pc =
            IF \A i \in Job \ {j} : captured[i].st = "none" THEN "marks" ELSE "scan"]
      /\ UNCHANGED << displays, opened >>
  BY DEF UpdatePatternHold
<1>2. /\ captured'[j].st = "none" /\ \A i \in Job \ {j} : captured'[i] = captured[i]
      /\ loop'.pc = "scan" \/ \A i \in Job : captured'[i].st = "none"
  BY <1>0, <1>1 DEF MapTypeOK, NoCapture, Types, ThreadTypeOK
<1>3. holds[j].display = FALSE /\ "awake" # j
  <2>1. "awake" # j /\ holds[j] \in Hold
    BY <1>0, IdsAssumption DEF MapTypeOK
  <2> QED
    BY <2>1, <1>0 DEF MapInv, SlotInv, Hold
<1>4. IF Open(j) THEN holds[j].fire = opened[j] ELSE served[j] = opened[j]
  BY DEF MapInv, OnceInv
<1>5. /\ captured[j].st = "same" => Open(j)
      /\ captured[j].st = "gone" => ~Open(j) /\ captured[j].fire = served[j]
  BY <1>1 DEF MapInv, CaptureInv, NoPatternMarks
<1>6. ASSUME holds' = [holds EXCEPT ![j] = NoHold],
             idles' = IF holds[j].idle THEN idles - 1 ELSE idles,
             \E fire \in Instant : served' = [served EXCEPT ![j] = fire] /\ fire = opened[j]
      PROVE  MapInv'
  <2>1. holds'[j] = NoHold /\ \A k \in Id \ {j} : holds'[k] = holds[k]
    BY <1>0, <1>6 DEF MapTypeOK
  <2>2. served'[j] = opened[j] /\ \A k \in Job \ {j} : served'[k] = served[k]
    BY <1>0, <1>6 DEF MapTypeOK
  <2>3. SlotInv'
    BY <2>1, NoHoldEmpty DEF MapInv, SlotInv, Open
  <2>4. OnceInv'
    BY <1>0, <1>1, <2>1, <2>2, NoHoldEmpty DEF MapInv, OnceInv, Open
  <2>5. CaptureInv'
    BY <1>0, <1>1, <1>2, <2>1, <2>2 DEF MapInv, CaptureInv, Open
  <2>6. IdleCount'
    <3>1. /\ Cardinality(Idle(Id)) \in Nat
          /\ Cardinality(Idle(Id))' = Cardinality(Idle(Id)) - Bit(holds[j].idle)
                                       + Bit(holds'[j].idle)
      BY <1>0, <2>1, IdleOne
    <3>2. Bit(holds'[j].idle) = 0 /\ Bit(holds[j].idle) \in {0, 1}
      BY <2>1, NoHoldEmpty DEF Bit
    <3>3. idles = Cardinality(Idle(Id)) + InFlight
      BY DEF MapInv, IdleCount
    <3>4. idles' = idles - Bit(holds[j].idle)
      BY <1>6, <3>1, <3>3 DEF Bit
    <3> QED
      BY <3>1, <3>2, <3>3, <3>4 DEF IdleCount
  <2>7. DisplayCount'
    <3>1. /\ Cardinality(Lit(Id)) \in Nat
          /\ Cardinality(Lit(Id))' = Cardinality(Lit(Id)) - Bit(holds[j].display)
                                      + Bit(holds'[j].display)
      BY <1>0, <2>1, LitOne
    <3>2. Bit(holds'[j].display) = 0 /\ Bit(holds[j].display) = 0
      BY <1>3, <2>1, NoHoldEmpty DEF Bit
    <3>3. Cardinality(Lit(Id))' = Cardinality(Lit(Id))
      BY <3>1, <3>2
    <3> QED
      BY <1>1, <3>3 DEF DisplayCount, MapInv
  <2> QED
    BY <2>3, <2>4, <2>5, <2>6, <2>7 DEF MapInv
<1>7. CASE /\ captured[j].st = "same"
           /\ holds' = [holds EXCEPT ![j] = NoHold]
           /\ idles' = IF holds[j].idle THEN idles - 1 ELSE idles
           /\ served' = [served EXCEPT ![j] = holds[j].fire]
  <2>1. holds[j].fire \in Instant /\ holds[j].fire = opened[j]
    BY <1>0, <1>4, <1>5, <1>7 DEF MapTypeOK, Hold
  <2> QED
    BY <1>6, <1>7, <2>1
<1>8. CASE /\ captured[j].st = "gone"
           /\ holds' = [holds EXCEPT ![j] = NoHold]
           /\ served' = [served EXCEPT ![j] = captured[j].fire]
           /\ idles' = idles
  <2>1. captured[j].fire \in Instant /\ captured[j].fire = opened[j]
    BY <1>0, <1>4, <1>5, <1>8 DEF Capture
  <2>2. ~holds[j].idle
    BY <1>0, <1>5, <1>8 DEF MapInv, SlotInv
  <2> QED
    BY <1>6, <1>8, <2>1, <2>2
<1>9. CASE holds' = [holds EXCEPT ![j].detected = TRUE] /\ UNCHANGED << idles, served >>
  <2>1. \A i \in Job : captured'[i] = captured[i] \/ captured'[i].st = "none"
    BY <1>2
  <2>2. loop'.pc = loop.pc \/ \A i \in Job : captured'[i].st = "none"
    BY <1>1, <1>2
  <2> QED
    BY <1>0, <1>1, <1>9, <2>1, <2>2, DetectKeeps
<1>10. CASE UNCHANGED << holds, idles, served >>
  <2>1. SlotInv' /\ OnceInv'
    BY <1>1, <1>10 DEF MapInv, SlotInv, OnceInv, Open
  <2>2. CaptureInv'
    BY <1>1, <1>2, <1>10 DEF MapInv, CaptureInv, Open
  <2>3. IdleCount' /\ DisplayCount'
    BY <1>1, <1>10 DEF MapInv, IdleCount, DisplayCount, Idle, Lit
  <2> QED
    BY <2>1, <2>2, <2>3 DEF MapInv
<1> QED
  BY <1>7, <1>8, <1>9, <1>10 DEF UpdatePatternHold

\* pollDetection captures open holds, and drops its pointers when it is done.
LEMMA CaptureKeeps ==
    ASSUME Types, MapInv, PollDetection \/ ScanFails, InFlight' = InFlight
    PROVE  MapInv'
<1>0. loop \in LoopThread /\ loop'.pc \in LoopPc
  BY RestTypes DEF Types, ThreadTypeOK, LoopThread, PollDetection, ScanFails, LoopPc
<1>1. UNCHANGED << holds, idles, displays, served, opened >>
  BY DEF PollDetection, ScanFails
<1>2. SlotInv' /\ OnceInv'
  BY <1>1 DEF MapInv, SlotInv, OnceInv, Open
<1>3. IdleCount' /\ DisplayCount'
  BY <1>1 DEF MapInv, IdleCount, DisplayCount, Idle, Lit
<1>4. CaptureInv'
  <2>1. CASE ScanFails
    <3>1. \A j \in Job : captured'[j].st = "none"
      BY <2>1 DEF ScanFails, NoCapture
    <3> QED
      BY <3>1 DEF CaptureInv
  <2>2. CASE PollDetection
    <3> DEFINE found == {j \in Job : Open(j) /\ Detection[j] = "pattern"}
    <3>1. \A j \in Job : captured'[j].st = IF j \in found THEN "same" ELSE "none"
      BY <2>2 DEF PollDetection, NoCapture
    <3>2. loop'.pc = IF found = {} THEN "marks" ELSE "scan"
      BY <1>0, <2>2 DEF PollDetection, LoopThread
    <3>3. \A j \in found : Open(j)' /\ Detection[j] = "pattern"
      BY <1>1 DEF Open
    <3> HIDE DEF found
    <3> SUFFICES ASSUME NEW j \in Job
                 PROVE  /\ captured'[j].st # "none" => loop'.pc = "scan" /\ Detection[j] = "pattern"
                        /\ captured'[j].st = "same" => Open(j)'
                        /\ captured'[j].st # "gone"
      BY DEF CaptureInv
    <3>4. CASE j \in found
      BY <3>1, <3>2, <3>3, <3>4
    <3>5. CASE j \notin found
      BY <3>1, <3>5
    <3> QED
      BY <3>4, <3>5
  <2> QED
    BY <2>1, <2>2
<1> QED
  BY <1>2, <1>3, <1>4 DEF MapInv

\* So every step of the loop keeps the counts.
LEMMA LoopMapInv ==
    ASSUME NoPatternMarks, Types, MapInv, HandInv, Loop, ipc' = ipc
    PROVE  MapInv'
<1>0. MapTypeOK /\ ThreadTypeOK /\ LoopHand /\ loop \in LoopThread
  BY DEF Types, HandInv, ThreadTypeOK, LoopThread
<1>n. InFlight \in Nat /\ \A j \in Job : j \in Id
  BY LoopInFlight DEF Id
<1>a. loop'.new.idle = loop.new.idle => InFlight' = InFlight
  BY DEF InFlight
<1>b. ASSUME UNCHANGED << holds, idles, displays, served, captured, opened >>,
             loop'.new = loop.new, loop'.pc = loop.pc \/ loop.pc # "scan"
      PROVE  MapInv'
  <2>1. InFlight' = InFlight
    BY <1>a, <1>b
  <2> QED
    BY <1>b, <1>n, <2>1, StillKeeps
<1>c. ASSUME NEW I \in SUBSET Id, finishHoldLocked(I), opened' = opened,
             loop'.new.idle = loop.new.idle, loop'.pc = loop.pc \/ loop.pc # "scan"
      PROVE  MapInv'
  <2>1. InFlight' = InFlight
    BY <1>a, <1>c
  <2> QED
    BY <1>0, <1>c, <1>n, <2>1, FinishKeeps
<1>1. CASE Tick \/ OpenDueWindows \/ NextFire
  <2>1. UNCHANGED << holds, idles, displays, served, captured, opened >>
    BY <1>1 DEF Tick, OpenDueWindows, NextFire, mapVars
  <2>2. loop'.new = loop.new /\ (loop'.pc = loop.pc \/ loop.pc # "scan")
    BY <1>0, <1>1 DEF Tick, OpenDueWindows, NextFire, LoopThread
  <2> QED
    BY <2>1, <2>2, <1>b
<1>2. ASSUME NEW j \in Job, NEW st \in {"disabled", "gone"},
             PassOver(j) \/ SchedulerFireTime(j) \/ AdoptJob(j) \/ RetireJob(j, st)
      PROVE  MapInv'
  <2>1. UNCHANGED << holds, idles, displays, served, captured, opened >>
    BY <1>2 DEF PassOver, SchedulerFireTime, AdoptJob, RetireJob, mapVars
  <2>2. loop'.new = loop.new /\ (loop'.pc = loop.pc \/ loop.pc # "scan")
    BY <1>0, <1>2 DEF PassOver, SchedulerFireTime, AdoptJob, RetireJob, LoopThread
  <2> QED
    BY <2>1, <2>2, <1>b
<1>3. CASE FireCutout
  <2>1. finishHoldLocked(Held) /\ Held \in SUBSET Id /\ opened' = opened
    BY <1>3 DEF FireCutout, Held
  <2>2. loop'.new = loop.new /\ loop.pc # "scan"
    BY <1>0, <1>3 DEF FireCutout, LoopThread
  <2> QED
    BY <2>1, <2>2, <1>c
<1>4. ASSUME NEW S \in SUBSET Id,
             CheckMarkedPIDs(S) \/ PollSchedulerState(S) \/ EnforceCeilings(S)
      PROVE  MapInv'
  <2>1. finishHoldLocked(S) /\ opened' = opened
    BY <1>4 DEF CheckMarkedPIDs, PollSchedulerState, EnforceCeilings
  <2>2. loop'.new.idle = loop.new.idle /\ loop.pc # "scan"
    <3>1. CASE CheckMarkedPIDs(S) \/ PollSchedulerState(S)
      BY <1>0, <3>1 DEF CheckMarkedPIDs, PollSchedulerState, LoopThread
    <3>2. CASE EnforceCeilings(S)
      <4>1. loop.pc = "ceilings" /\ ~loop'.new.idle
        BY <3>2, NoHoldEmpty DEF EnforceCeilings, IdleLoop
      <4>2. ~loop.new.idle /\ loop.new.idle \in BOOLEAN /\ loop'.new.idle \in BOOLEAN
        BY <1>0, <3>2, <4>1, NoHoldEmpty DEF LoopHand, LoopThread, Hold, EnforceCeilings, IdleLoop
      <4> QED
        BY <4>1, <4>2
    <3> QED
      BY <1>4, <3>1, <3>2
  <2> QED
    BY <2>1, <2>2, <1>c
<1>5. CASE ReleaseRetired
  <2>1. finishHoldLocked({loop.id}) /\ opened' = opened /\ loop.pc = "retire" /\ loop.id \in Job
    BY <1>0, <1>5 DEF ReleaseRetired, LoopHand
  <2>2. loop'.new.idle = loop.new.idle
    <3>1. ~loop'.new.idle /\ ~loop.new.idle
      BY <1>0, <1>5, <2>1, NoHoldEmpty DEF ReleaseRetired, IdleLoop, LoopHand
    <3>2. loop.new.idle \in BOOLEAN /\ loop'.new.idle \in BOOLEAN
      BY <1>0, <1>5, NoHoldEmpty DEF LoopThread, Hold, ReleaseRetired, IdleLoop
    <3> QED
      BY <3>1, <3>2
  <2> QED
    BY <1>n, <2>1, <2>2, <1>c
<1>6. ASSUME NEW j \in Job, OpenWindow(j) PROVE MapInv'
  <2>1. PICK new \in Hold :
           /\ HoldIdleSleep(new, "loop", 2 * due)
           /\ loop' = [loop EXCEPT !.pc = "insert", !.srv = served[j], !.new = new]
    BY <1>6 DEF OpenWindow
  <2>2. UNCHANGED << holds, displays, served, captured, opened >> /\ loop.pc = "fire"
    BY <1>6 DEF OpenWindow
  <2>3. idles' = IF new.idle THEN idles + 1 ELSE idles
    BY <2>1, TakenHold
  <2>4. loop'.new = new
    BY <1>0, <2>1 DEF LoopThread
  <2>5. InFlight' \in Nat /\ InFlight' = InFlight - Bit(loop.new.idle) + Bit(new.idle)
    BY <2>4, LoopInFlight
  <2>6. Bit(loop.new.idle) = 0 /\ Bit(new.idle) = IF new.idle THEN 1 ELSE 0
    BY <1>0, <2>2 DEF LoopHand, Bit
  <2>7. idles \in Int => idles' = idles + (InFlight' - InFlight)
    BY <1>n, <2>3, <2>5, <2>6
  <2> QED
    BY <1>n, <2>2, <2>5, <2>7, StillKeeps
<1>7. CASE OpenWindowInsert
  <2>1. /\ InsertOrRelease(loop.id, loop.new) /\ loop.pc = "insert"
        /\ opened' = IF Open(loop.id) THEN opened
                     ELSE [opened EXCEPT ![loop.id] = loop.new.fire]
        /\ UNCHANGED << displays, served, captured >>
    BY <1>7 DEF OpenWindowInsert
  <2>2. loop.id \in Job /\ loop.new.by # "none" /\ ~loop.new.display /\ loop.new \in Hold
    BY <1>0, <2>1 DEF LoopHand, LoopThread
  <2>3. ~loop'.new.idle
    BY <1>0, <1>7, NoHoldEmpty DEF OpenWindowInsert, LoopThread
  <2>4. InFlight' = InFlight - Bit(loop.new.idle)
    <3>1. InFlight' = InFlight - Bit(loop.new.idle) + Bit(loop'.new.idle)
      BY LoopInFlight
    <3>2. Bit(loop'.new.idle) = 0 /\ Bit(loop.new.idle) \in {0, 1}
      BY <2>3 DEF Bit
    <3> QED
      BY <1>n, <3>1, <3>2
  <2>5. opened' = IF loop.id \in Job /\ ~Open(loop.id)
                  THEN [opened EXCEPT ![loop.id] = loop.new.fire] ELSE opened
    BY <2>1, <2>2
  <2>6. loop.pc # "scan"
    BY <2>1
  <2> QED
    BY <1>0, <1>n, <2>1, <2>2, <2>4, <2>5, <2>6, InsertKeeps
<1>8. CASE PollDetection \/ ScanFails
  <2>1. loop'.new = loop.new
    BY <1>0, <1>8 DEF PollDetection, ScanFails, LoopThread
  <2> QED
    BY <1>8, <1>a, <2>1, CaptureKeeps
<1>9. ASSUME NEW j \in Job, SchedulerReportsStart(j) PROVE MapInv'
  <2>1. /\ holds' = [holds EXCEPT ![j].detected = TRUE]
        /\ UNCHANGED << idles, displays, served, captured, opened, loop >>
    BY <1>9 DEF SchedulerReportsStart
  <2>2. InFlight' = InFlight
    BY <1>a, <2>1
  <2> QED
    BY <1>0, <1>n, <2>1, <2>2, DetectKeeps
<1>10. ASSUME NEW j \in Job, NEW matched \in BOOLEAN, UpdatePatternHold(j, matched)
       PROVE  MapInv'
  <2>1. loop'.new = loop.new
    BY <1>0, <1>10 DEF UpdatePatternHold, LoopThread
  <2> QED
    BY <1>10, <1>a, <1>n, <2>1, PatternKeeps
<1> QED
  BY <1>1, <1>2, <1>3, <1>4, <1>5, <1>6, <1>7, <1>8, <1>9, <1>10 DEF Loop

-----------------------------------------------------------------------------
(* The display and the settings. *)

\* The other hypothesis: clients change at most one of the two settings. Without it
\* setConfig's stale copy may undo the other one.
OneSetting == ~({"agents", "display"} \subseteq Requests)

\* No hold is lit that was not.
Dimmer == \A i \in Id : holds'[i].display => holds[i].display

LEMMA FinishDims ==
    ASSUME NEW I, finishHoldLocked(I)
    PROVE  Dimmer
  BY NoHoldEmpty DEF finishHoldLocked, Dimmer

LEMMA InsertDims ==
    ASSUME MapTypeOK, NEW i, NEW new, InsertOrRelease(i, new), ~new.display
    PROVE  Dimmer
  BY DEF InsertOrRelease, Dimmer, MapTypeOK

LEMMA DetectDims ==
    ASSUME MapTypeOK, NEW i, holds' = [holds EXCEPT ![i].detected = TRUE]
    PROVE  Dimmer
  BY DEF Dimmer, MapTypeOK, Hold

\* Only KeepAwakeInsert and SyncKeepAwakeDisplay light a hold, only SetConfigStore
\* changes a setting, and only SyncKeepAwakeDisplay is waited for.
LEMMA HandlerDims ==
    ASSUME MapTypeOK, NEW h \in Handler, HandlerHand(h), Ipc(h), ~KeepAwakeInsert(h),
           ~SyncKeepAwakeDisplay(h), ~SetConfigStore(h)
    PROVE  Dimmer /\ cfg' = cfg /\ ipc[h].pc # "syncDisplay"
<1>a. UNCHANGED holds => Dimmer
  BY DEF Dimmer
<1> USE DEF condVars, mapVars, Asked
<1>1. CASE KeepAwake(h)
  BY <1>1, <1>a DEF KeepAwake
<1>2. CASE \/ \E i \in Id : Release(h, i)
           \/ \E j \in Job : MarkEnd(h, j)
           \/ SleepNow(h) \/ ReleaseJob(h) \/ ReleaseAgentHolds(h)
  BY <1>2, FinishDims DEF Release, MarkEnd, SleepNow, ReleaseJob, ReleaseAgentHolds
<1>3. CASE \/ \E k \in Key : StartKeyedRun(h, k)
           \/ \E r \in Run : StartRun(h, r)
           \/ LookupRun(h) \/ OpenRunHold(h) \/ Pause(h) \/ Resume(h)
  BY <1>3, <1>a DEF StartKeyedRun, StartRun, LookupRun, OpenRunHold, Pause, Resume
<1>4. CASE OpenRunHoldInsert(h) \/ OpenAdHocWindow(h)
  <2>1. ~ipc[h].new.display
    BY DEF HandlerHand
  <2> QED
    BY <1>4, <2>1, InsertDims DEF OpenRunHoldInsert, OpenAdHocWindow
<1>5. CASE (\E j \in Job : MarkStart(h, j)) \/ MarkAdHoc(h)
  BY <1>5, <1>a, DetectDims DEF MarkStart, MarkAdHoc
<1>6. CASE \/ \E j \in Job, st \in {"enabled", "disabled", "gone"} : ChangeJob(h, j, st)
           \/ \E kind \in {"agents", "display"}, on \in BOOLEAN : SetConfig(h, kind, on)
  BY <1>6, <1>a DEF ChangeJob, SetConfig
<1> QED
  BY <1>1, <1>2, <1>3, <1>4, <1>5, <1>6 DEF Ipc

LEMMA LoopDims ==
    ASSUME MapTypeOK, LoopHand, Loop
    PROVE  Dimmer /\ cfg' = cfg
<1>a. UNCHANGED holds => Dimmer
  BY DEF Dimmer
<1> USE DEF condVars, mapVars
<1>1. CASE FireCutout \/ ReleaseRetired
  BY <1>1, FinishDims DEF FireCutout, ReleaseRetired
<1>2. ASSUME NEW S \in SUBSET Id,
             CheckMarkedPIDs(S) \/ PollSchedulerState(S) \/ EnforceCeilings(S)
      PROVE  Dimmer /\ cfg' = cfg
  BY <1>2, FinishDims DEF CheckMarkedPIDs, PollSchedulerState, EnforceCeilings
<1>3. CASE Tick \/ OpenDueWindows \/ PollDetection \/ ScanFails \/ NextFire
  BY <1>3, <1>a DEF Tick, OpenDueWindows, PollDetection, ScanFails, NextFire
<1>4. CASE OpenWindowInsert
  BY <1>4, InsertDims DEF OpenWindowInsert, LoopHand
<1>5. ASSUME NEW j \in Job, PassOver(j) \/ SchedulerFireTime(j) \/ OpenWindow(j)
      PROVE  Dimmer /\ cfg' = cfg
  BY <1>5, <1>a DEF PassOver, SchedulerFireTime, OpenWindow
<1>6. ASSUME NEW j \in Job, SchedulerReportsStart(j) PROVE Dimmer /\ cfg' = cfg
  BY <1>6, DetectDims DEF SchedulerReportsStart
<1>7. ASSUME NEW j \in Job, NEW st \in {"disabled", "gone"}, AdoptJob(j) \/ RetireJob(j, st)
      PROVE  Dimmer /\ cfg' = cfg
  BY <1>7, <1>a DEF AdoptJob, RetireJob
<1>8. ASSUME NEW j \in Job, NEW matched \in BOOLEAN, UpdatePatternHold(j, matched)
      PROVE  Dimmer /\ cfg' = cfg
  <2>1. holds' = [holds EXCEPT ![j] = NoHold] => Dimmer
    BY NoHoldEmpty DEF Dimmer, MapTypeOK
  <2> QED
    BY <1>8, <1>a, <2>1, DetectDims DEF UpdatePatternHold
<1> QED
  BY <1>1, <1>2, <1>3, <1>4, <1>5, <1>6, <1>7, <1>8 DEF Loop

\* So the display stays wanted.
LEMMA DisplayStaysWanted ==
    ASSUME OneSetting, Types, MapInv, HandInv, ConfigInv, DisplayWanted,
           NEW h \in Handler, Ipc(h)
    PROVE  DisplayWanted'
<1>0. MapTypeOK /\ ThreadTypeOK /\ HandlerHand(h)
  BY DEF Types, HandInv
<1>1. ASSUME Dimmer, cfg' = cfg, ipc[h].pc # "syncDisplay",
             \A g \in Handler \ {h} : ipc'[g] = ipc[g]
      PROVE  DisplayWanted'
  BY <1>1 DEF DisplayWanted, Dimmer, Lit, AtRest
<1>2. CASE KeepAwakeInsert(h)
  <2>1. PICK lit \in BOOLEAN :
           /\ lit => cfg.display
           /\ holds' = [holds EXCEPT !["awake"] = [ipc[h].new EXCEPT !.display = lit]]
    BY <1>2 DEF KeepAwakeInsert
  <2>2. cfg' = cfg /\ ipc[h].new \in Hold
    BY <1>2 DEF KeepAwakeInsert, condVars, Types, ThreadTypeOK
  <2>3. \A i \in Id : holds'[i].display => lit
    BY <2>1, <2>2, <1>0 DEF MapInv, SlotInv, MapTypeOK, Hold
  <2> QED
    BY <2>1, <2>2, <2>3 DEF DisplayWanted, Lit
<1>3. CASE SyncKeepAwakeDisplay(h)
  <2>1. PICK lit \in BOOLEAN :
           /\ lit => cfg.display /\ Open("awake")
           /\ holds' = [holds EXCEPT !["awake"].display = lit]
    BY <1>3 DEF SyncKeepAwakeDisplay
  <2>2. cfg' = cfg
    BY <1>3 DEF SyncKeepAwakeDisplay, condVars
  <2>3. \A i \in Id : holds'[i].display => lit
    BY <2>1, <1>0 DEF MapInv, SlotInv, MapTypeOK, Hold
  <2> QED
    BY <2>1, <2>2, <2>3 DEF DisplayWanted, Lit
<1>4. CASE SetConfigStore(h)
  <2>1. cfg' = ipc[h].next /\ Lit(Id)' = Lit(Id)
    BY <1>4 DEF SetConfigStore, mapVars, Lit
  <2>2. CASE ipc[h].pc = "setDisplay"
    <3>1. Goto(h, "syncDisplay", "none", NoHold)
      BY <1>4, <2>2 DEF SetConfigStore
    <3>2. ipc'[h].pc = "syncDisplay"
      BY <3>1, <1>0, MovesTo
    <3> QED
      BY <3>2 DEF DisplayWanted, AtRest
  <2>3. CASE ipc[h].pc # "setDisplay"
    <3>1. ipc[h].pc = "setAgents"
      BY <1>4, <2>3 DEF SetConfigStore
    <3>2. "agents" \in Requests
      BY <3>1 DEF ConfigInv, AtRest
    <3>3. ~cfg.display /\ ~cfg'.display
      BY <3>2, <2>1 DEF ConfigInv, OneSetting
    <3>4. \A g \in Handler \ {h} : ipc'[g] = ipc[g]
      BY <1>4, <1>0, MovesTo, MovesBack DEF SetConfigStore
    <3> QED
      BY <2>1, <3>1, <3>3, <3>4 DEF DisplayWanted, AtRest
  <2> QED
    BY <2>2, <2>3
<1>5. CASE ~KeepAwakeInsert(h) /\ ~SyncKeepAwakeDisplay(h) /\ ~SetConfigStore(h)
  <2>1. Dimmer /\ cfg' = cfg /\ ipc[h].pc # "syncDisplay"
    BY <1>0, <1>5, HandlerDims
  <2>2. \A g \in Handler \ {h} : ipc'[g] = ipc[g]
    BY <1>0, HandlerThread DEF HandMoves
  <2> QED
    BY <1>1, <2>1, <2>2
<1> QED
  BY <1>2, <1>3, <1>4, <1>5

\* The settings' own invariant.
LEMMA ConfigKept ==
    ASSUME MapTypeOK, ThreadTypeOK, NEW h \in Handler, HandlerHand(h), ConfigInv, Ipc(h)
    PROVE  ConfigInv'
<1>1. HandMoves(h)
  BY HandlerThread
<1>2. "display" \notin Requests => ~cfg'.display
  <2>1. CASE SetConfigStore(h)
    BY <2>1 DEF SetConfigStore, ConfigInv
  <2>2. CASE ~SetConfigStore(h)
    <3>1. cfg' = cfg
      <4>1. CASE KeepAwakeInsert(h) \/ SyncKeepAwakeDisplay(h)
        BY <4>1 DEF KeepAwakeInsert, SyncKeepAwakeDisplay, condVars
      <4> QED
        BY <2>2, <4>1, HandlerDims
    <3> QED
      BY <3>1 DEF ConfigInv
  <2> QED
    BY <2>1, <2>2
<1> QED
  BY <1>1, <1>2 DEF HandMoves, ConfigInv, AtRest

-----------------------------------------------------------------------------
(* The theorems on assertions and on served fires. *)

CInv == HInv /\ HandInv /\ MapInv /\ MarksInv

LEMMA CountsInit == Init => CInv /\ ConfigInv /\ DisplayWanted
<1> SUFFICES ASSUME Init PROVE CInv /\ ConfigInv /\ DisplayWanted
  OBVIOUS
<1>0. /\ \A i \in Id : ~holds[i].idle /\ ~holds[i].display /\ ~Open(i) /\ holds[i].fire = 0
      /\ \A j \in Job : j \in Id /\ served[j] = 0 /\ opened[j] = 0 /\ captured[j].st = "none"
      /\ \A h \in Handler : /\ ipc[h].pc = "idle" /\ ~ipc[h].new.idle /\ ~ipc[h].new.display
                            /\ ~ipc[h].next.display
      /\ loop.pc = "idle" /\ ~loop.new.idle /\ ~loop.new.display
  BY NoHoldEmpty DEF Init, Open, Id, NoCapture, IdleIpc, IdleLoop, NoConfig
<1>1. HandInv
  BY <1>0 DEF HandInv, HandlerHand, LoopHand
<1>2. SlotInv /\ CaptureInv /\ OnceInv
  BY <1>0 DEF SlotInv, CaptureInv, OnceInv
<1>3. IdleCount /\ DisplayCount
  <2>1. Idle(Id) = {} /\ Lit(Id) = {} /\ {h \in Handler : ipc[h].new.idle} = {}
    BY <1>0 DEF Idle, Lit
  <2>2. InFlight = 0
    BY <1>0, <2>1, FS_EmptySet DEF InFlight
  <2> QED
    BY <2>1, <2>2, FS_EmptySet DEF IdleCount, DisplayCount, Init
<1>4. MarksInv /\ ConfigInv /\ DisplayWanted
  <2>1. ~cfg.display
    BY DEF Init
  <2> QED
    BY <1>0, <2>1 DEF MarksInv, ConfigInv, DisplayWanted, AtRest, Lit
<1> QED
  BY <1>1, <1>2, <1>3, <1>4, HoldsInit DEF CInv, MapInv

LEMMA CountsStep ==
    ASSUME NoPatternMarks
    PROVE  CInv /\ ConfigInv /\ [Next]_vars => CInv' /\ ConfigInv'
<1> SUFFICES ASSUME CInv, ConfigInv, [Next]_vars PROVE CInv' /\ ConfigInv'
  OBVIOUS
<1>0. Types /\ MapTypeOK /\ CondTypeOK /\ ThreadTypeOK /\ HInv'
  BY HoldsStep DEF CInv, HInv, Types
<1>1. CASE Loop
  <2>1. ipc' = ipc
    BY <1>0, <1>1, LoopThreads DEF LoopStep, CInv, HInv
  <2>2. LoopHand'
    BY <1>0, <1>1, LoopHandKept DEF CInv, HandInv
  <2>3. HandInv' /\ MarksInv'
    BY <2>1, <2>2 DEF CInv, HandInv, HandlerHand, MarksInv, AtRest
  <2>4. MapInv'
    BY <1>0, <1>1, <2>1, LoopMapInv DEF CInv
  <2>5. ConfigInv'
    BY <1>0, <1>1, <2>1, LoopDims DEF ConfigInv, AtRest, CInv, HandInv
  <2> QED
    BY <1>0, <2>3, <2>4, <2>5 DEF CInv
<1>2. ASSUME NEW h \in Handler, Ipc(h) PROVE CInv' /\ ConfigInv'
  <2>1. HandMoves(h) /\ loop' = loop
    BY <1>0, <1>2, HandlerThread, HandlerFrame DEF CInv, HandInv
  <2>2. HandInv'
    BY <2>1 DEF CInv, HandInv, HandlerHand, LoopHand, HandMoves
  <2>3. MarksInv'
    BY <2>1 DEF CInv, MarksInv, AtRest, HandMoves
  <2>4. MapInv'
    BY <1>0, <1>2, HandlerMap DEF CInv
  <2>5. ConfigInv'
    BY <1>0, <1>2, ConfigKept DEF CInv, HandInv
  <2> QED
    BY <1>0, <2>2, <2>3, <2>4, <2>5 DEF CInv
<1>3. CASE UNCHANGED vars
  <2> USE <1>3 DEF vars, mapVars, condVars
  <2>1. HandInv' /\ MarksInv' /\ ConfigInv'
    BY DEF CInv, HandInv, HandlerHand, LoopHand, MarksInv, ConfigInv, AtRest
  <2>2. MapInv'
    BY DEF CInv, MapInv, SlotInv, CaptureInv, OnceInv, IdleCount, DisplayCount, Open, Idle,
       Lit, InFlight
  <2> QED
    BY <1>0, <2>1, <2>2 DEF CInv
<1> QED
  BY <1>1, <1>2, <1>3 DEF Next

LEMMA WantedStep ==
    ASSUME OneSetting
    PROVE  CInv /\ ConfigInv /\ DisplayWanted /\ [Next]_vars => DisplayWanted'
<1> SUFFICES ASSUME CInv, ConfigInv, DisplayWanted, [Next]_vars PROVE DisplayWanted'
  OBVIOUS
<1>1. CASE Loop
  <2>1. Dimmer /\ cfg' = cfg
    BY <1>1, LoopDims DEF CInv, HInv, Types, HandInv
  <2>2. ipc' = ipc
    BY <1>1, LoopThreads DEF LoopStep, CInv, HInv
  <2> QED
    BY <2>1, <2>2 DEF DisplayWanted, Dimmer, Lit, AtRest
<1>2. ASSUME NEW h \in Handler, Ipc(h) PROVE DisplayWanted'
  BY <1>2, DisplayStaysWanted DEF CInv, HInv
<1>3. CASE UNCHANGED vars
  BY <1>3 DEF DisplayWanted, Lit, AtRest, vars, mapVars, condVars
<1> QED
  BY <1>1, <1>2, <1>3 DEF Next

\* No assertion outlives its hold, whatever the handlers and the loop race each other
\* to: by the counts, each idle assertion is that of a hold in the map or of a thread
\* on its way to insert it or to release it.
THEOREM AssertionsAccountedFor ==
    ASSUME NoPatternMarks, OneSetting
    PROVE  Spec => []NoOrphanedAssertion
<1>1. CInv /\ DisplayWanted => NoOrphanedAssertion
  BY DEF CInv, MapInv, IdleCount, DisplayCount, DisplayWanted, NoOrphanedAssertion, SlotInv,
     Lit
<1>2. CInv /\ ConfigInv /\ DisplayWanted /\ [Next]_vars
         => CInv' /\ ConfigInv' /\ DisplayWanted'
  BY CountsStep, WantedStep
<1> QED
  BY CountsInit, <1>1, <1>2, PTL DEF Spec

\* Only the loop's insert makes a slot the loop's.
LEMMA LoopOpens ==
    ASSUME MapTypeOK, ThreadTypeOK, Loop, NEW j \in Job, ~Open(j), holds'[j].by = "loop"
    PROVE  OpenWindowInsert /\ j = loop.id
<1> USE DEF Open
<1>0. NoHold.by # "loop" /\ \A i \in Job : i \in Id
  BY DEF NoHold, Id
<1>1. UNCHANGED holds => FALSE
  OBVIOUS
<1>2. ~(Tick \/ OpenDueWindows \/ PollDetection \/ ScanFails \/ NextFire)
  BY <1>1 DEF Tick, OpenDueWindows, PollDetection, ScanFails, NextFire, mapVars
<1>3. \A i \in Job, st \in {"disabled", "gone"} :
        ~(PassOver(i) \/ SchedulerFireTime(i) \/ OpenWindow(i) \/ AdoptJob(i) \/ RetireJob(i, st))
  BY <1>1 DEF PassOver, SchedulerFireTime, OpenWindow, AdoptJob, RetireJob, mapVars
<1>4. \A I : ~finishHoldLocked(I)
  BY <1>0 DEF finishHoldLocked
<1>5. ~(FireCutout \/ ReleaseRetired)
  BY <1>4 DEF FireCutout, ReleaseRetired
<1>6. \A S \in SUBSET Id : ~(CheckMarkedPIDs(S) \/ PollSchedulerState(S) \/ EnforceCeilings(S))
  BY <1>4 DEF CheckMarkedPIDs, PollSchedulerState, EnforceCeilings
<1>7. ASSUME NEW i \in Job, SchedulerReportsStart(i) PROVE FALSE
  <2>1. holds'[j].by = holds[j].by
    BY <1>0, <1>7 DEF SchedulerReportsStart, MapTypeOK, Hold
  <2> QED
    BY <2>1
<1>8. ASSUME NEW i \in Job, NEW matched \in BOOLEAN, UpdatePatternHold(i, matched)
      PROVE  FALSE
  <2>1. holds'[j].by \in {holds[j].by, NoHold.by}
    BY <1>8, <1>0 DEF UpdatePatternHold, MapTypeOK, Hold
  <2> QED
    BY <2>1, <1>0
<1>9. OpenWindowInsert
  BY <1>2, <1>3, <1>5, <1>6, <1>7, <1>8 DEF Loop
<1>10. j = loop.id
  BY <1>0, <1>9 DEF OpenWindowInsert, InsertOrRelease, MapTypeOK
<1> QED
  BY <1>9, <1>10

\* A window the loop puts in the map is for an instant after the job's last one, if no
\* window of the job ended since the loop looked: finishHoldLocked remembers the fire of
\* every hold it takes out of the map, so what is served while none is open is what the
\* last one was for, and the loop looked at it.
THEOREM FiresServedOnce ==
    ASSUME NoPatternMarks
    PROVE  Spec => WindowForNewFire
<1> DEFINE NewFire(j) == ~Open(j) /\ holds'[j].by = "loop"
                            => holds'[j].fire > opened[j] \/ served[j] # loop.srv
<1>1. CInv /\ [Next]_vars => [\A j \in Job : NewFire(j)]_vars
  <2> SUFFICES ASSUME CInv, Next, NEW j \in Job, ~Open(j), holds'[j].by = "loop",
                      served[j] = loop.srv
               PROVE  holds'[j].fire > opened[j]
    OBVIOUS
  <2>0. MapTypeOK /\ ThreadTypeOK /\ j \in Id
    BY DEF CInv, HInv, Types, Id
  <2>1. Loop
    <3>1. ASSUME NEW h \in Handler, Ipc(h) PROVE FALSE
      BY <2>0, <3>1, HandlerStep DEF HandlerEffect, CInv, HInv, LatchInv, Open
    <3> QED
      BY <3>1 DEF Next
  <2>2. OpenWindowInsert /\ j = loop.id
    BY <2>0, <2>1, LoopOpens
  <2>3. loop.pc = "insert" /\ holds'[j] = loop.new
    BY <2>0, <2>2 DEF OpenWindowInsert, InsertOrRelease, MapTypeOK
  <2>4. loop.new.fire > loop.srv
    BY <2>3 DEF CInv, HandInv, LoopHand
  <2>5. served[j] = opened[j]
    BY DEF CInv, MapInv, OnceInv
  <2> QED
    BY <2>3, <2>4, <2>5
<1> QED
  BY CountsInit, CountsStep, <1>1, PTL DEF Spec, WindowForNewFire

\* So in these conditions every variable of Holds has its type, the counters of
\* assertions included.
THEOREM CountersCorrect ==
    ASSUME NoPatternMarks
    PROVE  Spec => []TypeOK
<1>1. CInv => TypeOK
  <2> SUFFICES ASSUME CInv PROVE TypeOK
    OBVIOUS
  <2>1. Cardinality(Idle(Id)) \in Nat /\ Cardinality(Lit(Id)) \in Nat
    BY IdsAssumption, FS_Subset, FS_CardinalityType DEF Idle, Lit
  <2>2. InFlight \in Nat
    <3>1. Cardinality({h \in Handler : ipc[h].new.idle}) \in Nat
      BY IdsAssumption, FS_Subset, FS_CardinalityType
    <3> QED
      BY <3>1 DEF InFlight
  <2>3. idles \in Nat /\ displays \in Nat
    BY <2>1, <2>2 DEF CInv, MapInv, IdleCount, DisplayCount
  <2> QED
    BY <2>3 DEF CInv, HInv, Types, TypeOK
<1> QED
  BY CountsInit, CountsStep, <1>1, PTL DEF Spec

=============================================================================
