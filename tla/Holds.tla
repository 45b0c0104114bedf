------------------------------- MODULE Holds -------------------------------
(***************************************************************************)
(* The daemon's hold map (internal/daemon): who keeps the machine awake,   *)
(* which OS assertion backs each hold, and the threads that open and close *)
(* holds: the control loop (tick and poll) and the IPC handlers.           *)
(*                                                                         *)
(* d.mu makes one locked section one action.  Opening a hold is never one  *)
(* section: the conditions are checked, then HoldIdleSleep is called with  *)
(* no lock (it is slow), then the hold is put in the map.  The assertion   *)
(* is taken in the action of the check that precedes it: until the insert  *)
(* only its own thread knows of it.  A hold is the record it points to; the *)
(* one place where two pointers to it matter, the pattern holds the loop   *)
(* captures before it reads the process table, is variable `captured`.     *)
(*                                                                         *)
(* Every section that changes the map is followed by syncSleepBlock, which *)
(* module SleepBlock describes.  Clocks are abstract: a hold may expire at *)
(* any enforceCeilings, a watched process may be gone at any poll.         *)
(***************************************************************************)
EXTENDS Naturals, FiniteSets

CONSTANTS
    Job,        \* ids of registered jobs
    Key,        \* ids of keyed run holds: agent sessions
    Run,        \* ids of unkeyed run holds: `goguma run`
    Detection,  \* how each job is watched: "pattern", "mark" or "none"
    Observed,   \* the jobs whose scheduler reports its own runs
    Handler,    \* concurrent IPC handlers
    Requests,   \* the kinds of request clients make
    MaxFire     \* how many fire times are looked at

RequestKinds ==
    {"awake", "run", "agent", "mark", "sleep", "pause", "job", "agents", "display",
     "sync"}    \* not a client's: the timer of syncProviders

Id == Job \cup Key \cup Run \cup {"awake"}

ASSUME DetectionAssumption == Detection \in [Job -> {"pattern", "mark", "none"}]
ASSUME ObservedAssumption == Observed \subseteq Job
ASSUME RequestsAssumption == Requests \subseteq RequestKinds
ASSUME MaxFireAssumption == MaxFire \in Nat \ {0}
ASSUME IdsAssumption ==
    /\ IsFiniteSet(Id) /\ IsFiniteSet(Handler)
    /\ Job \cap Key = {} /\ Job \cap Run = {} /\ Key \cap Run = {}
    /\ {"awake", "none"} \cap (Job \cup Key \cup Run) = {}

VARIABLES
    holds,      \* d.holds: the hold of each id
    idles,      \* how many idle assertions the OS holds for the daemon
    displays,   \* how many display assertions
    served,     \* d.served: the last fire each job was held for
    captured,   \* the pattern holds pollDetection keeps pointers to
    latch,      \* CutoutLatch.active # nil
    paused,     \* d.paused
    cfg,        \* d.cfg: agent_hooks and keep_display_awake
    jobs,       \* the store: is each job enabled, disabled or gone
    due,        \* the fire the schedules are at
    opened,     \* history: the instant of the last window put in the map, per job
    loop,       \* the control loop
    ipc         \* the handlers

mapVars == << holds, idles, displays, served, captured >>
condVars == << paused, cfg, jobs, due >>
vars == << mapVars, condVars, latch, opened, loop, ipc >>

\* Fire k is at instant 2k; instant 2k - 1 is in its wake buffer, before it.
Instant == 0..(2 * MaxFire)
Config == [agents : BOOLEAN, display : BOOLEAN]

Hold == [by : {"loop", "ipc", "none"}, fire : Instant, detected : BOOLEAN,
         idle : BOOLEAN, display : BOOLEAN]
NoHold == [by |-> "none", fire |-> 0, detected |-> FALSE, idle |-> FALSE,
           display |-> FALSE]

\* A captured pointer is to the hold still in the map, or to one finished since.
Capture == [st : {"none", "same", "gone"}, detected : BOOLEAN, fire : Instant]
NoCapture == [st |-> "none", detected |-> FALSE, fire |-> 0]

IdleLoop == [pc |-> "idle", paused |-> FALSE, jobs |-> {}, id |-> "none", srv |-> 0,
             new |-> NoHold]
NoConfig == [agents |-> FALSE, display |-> FALSE]
IdleIpc == [pc |-> "idle", id |-> "none", new |-> NoHold, next |-> NoConfig]

LoopPc == {"idle", "cut", "due", "windows", "fire", "insert", "detect", "scan", "marks",
           "sched", "ceilings", "retire"}
IpcPc == {"idle", "awake", "lookup", "check", "run", "adhoc", "mark", "sleepnow",
          "release", "setAgents", "setDisplay", "releaseAgents", "syncDisplay"}

MapTypeOK ==
    /\ holds \in [Id -> Hold]
    /\ served \in [Job -> Instant] /\ opened \in [Job -> Instant]
    /\ captured \in [Job -> Capture]

CondTypeOK ==
    /\ latch \in BOOLEAN /\ paused \in BOOLEAN /\ cfg \in Config
    /\ jobs \in [Job -> {"enabled", "disabled", "gone"}]
    /\ due \in 1..MaxFire

ThreadTypeOK ==
    /\ loop \in [pc : LoopPc, paused : BOOLEAN, jobs : SUBSET Job,
                 id : Id \cup {"none"}, srv : Instant, new : Hold]
    /\ ipc \in [Handler -> [pc : IpcPc, id : Id \cup {"none"}, new : Hold,
                            next : Config]]

\* Every variable has its type; in particular no assertion is released twice over.
TypeOK == MapTypeOK /\ CondTypeOK /\ ThreadTypeOK
          /\ idles \in Nat /\ displays \in Nat

Init ==
    /\ holds = [i \in Id |-> NoHold]
    /\ idles = 0 /\ displays = 0
    /\ served = [j \in Job |-> 0] /\ opened = [j \in Job |-> 0]
    /\ captured = [j \in Job |-> NoCapture]
    /\ latch = FALSE /\ paused = FALSE
    /\ cfg = [agents |-> TRUE, display |-> FALSE]
    /\ jobs = [j \in Job |-> "enabled"]
    /\ due = 1
    /\ loop = IdleLoop
    /\ ipc = [h \in Handler |-> IdleIpc]

-----------------------------------------------------------------------------
(* The hold map. *)

Open(i) == holds[i].by # "none"
Held == {i \in Id : Open(i)}
Idle(I) == {i \in I : holds[i].idle}
Lit(I) == {i \in I : holds[i].display}

\* Mutant: the fire is not remembered as served.
finishHoldLocked_ForgetsServed(I) ==
    /\ holds' = [i \in Id |-> IF i \in I THEN NoHold ELSE holds[i]]
    /\ idles' = idles - Cardinality(Idle(I))
    /\ displays' = displays - Cardinality(Lit(I))
    /\ UNCHANGED << served, captured >>

\* finishHoldLocked on the holds of I: release their assertions, delete their
\* entries and, for a job's, remember its fire as served. A pointer the loop has
\* captured now points to a finished hold.
finishHoldLocked(I) ==
    /\ holds' = [i \in Id |-> IF i \in I THEN NoHold ELSE holds[i]]
    /\ idles' = idles - Cardinality(Idle(I))
    /\ displays' = displays - Cardinality(Lit(I))
    /\ served' = [j \in Job |-> IF j \in I /\ Open(j) THEN holds[j].fire ELSE served[j]]
    /\ captured' = [j \in Job |->
          IF j \in I /\ captured[j].st = "same"
          THEN [st |-> "gone", detected |-> holds[j].detected, fire |-> holds[j].fire]
          ELSE captured[j]]

\* A new hold and its idle assertion. Taking it may fail; the hold is opened all
\* the same.
HoldIdleSleep(new, by, fire) ==
    /\ \E ok \in BOOLEAN :
         /\ new = [NoHold EXCEPT !.by = by, !.fire = fire, !.idle = ok]
         /\ idles' = IF ok THEN idles + 1 ELSE idles

\* Mutant: the insert does not look whether another path got there first.
InsertOrRelease_Overwrites(i, new) ==
    holds' = [holds EXCEPT ![i] = new] /\ UNCHANGED idles

\* The second half of every open but KeepAwake's: the hold goes in the map unless
\* another path got there first, whose hold stands.
InsertOrRelease(i, new) ==
    \/ /\ ~Open(i)
       /\ holds' = [holds EXCEPT ![i] = new]
       /\ UNCHANGED idles
    \/ /\ Open(i)
       /\ idles' = IF new.idle THEN idles - 1 ELSE idles
       /\ UNCHANGED holds

-----------------------------------------------------------------------------
(* The control loop. *)

\* tick: read the power state, take `paused`, then evaluateCutouts up to its
\* decision. "hazard" would fire the cutout, "safe" clears the latch, and "margin"
\* is the hysteresis between them. Nothing fires with nothing held.
Tick ==
    /\ loop.pc = "idle"
    /\ \E st \in {"hazard", "margin", "safe"} :
         /\ latch' = (latch /\ st # "safe")
         /\ loop' = [loop EXCEPT !.paused = paused, !.pc =
               IF st = "hazard" /\ Held # {} /\ ~latch' THEN "cut" ELSE "due"]
    /\ UNCHANGED << mapVars, condVars, opened, ipc >>

\* The cutout: every hold is released and the latch engaged in one section.
FireCutout ==
    /\ loop.pc = "cut"
    /\ finishHoldLocked(Held)
    /\ latch' = TRUE
    /\ loop' = [loop EXCEPT !.pc = "due"]
    /\ UNCHANGED << condVars, opened, ipc >>

\* Mutant: windows are opened during a latched cutout.
OpenDueWindows_IgnoresLatch ==
    /\ loop.pc = "due"
    /\ loop' = IF loop.paused THEN [loop EXCEPT !.pc = "detect"]
               ELSE [loop EXCEPT !.pc = "windows",
                                 !.jobs = {j \in Job : jobs[j] = "enabled"}]
    /\ UNCHANGED << mapVars, condVars, latch, opened, ipc >>

\* openDueWindows, unless the tick was paused or a cutout is latched.
OpenDueWindows ==
    /\ loop.pc = "due"
    /\ loop' = IF latch \/ loop.paused THEN [loop EXCEPT !.pc = "detect"]
               ELSE [loop EXCEPT !.pc = "windows",
                                 !.jobs = {j \in Job : jobs[j] = "enabled"}]
    /\ UNCHANGED << mapVars, condVars, latch, opened, ipc >>

\* A job whose window is open, or whose fire is served, not yet due, too far gone
\* or skipped.
PassOver(j) ==
    /\ \/ loop.pc = "windows" /\ j \in loop.jobs /\ Open(j)
       \/ loop.pc = "fire" /\ loop.id = j
    /\ loop' = [loop EXCEPT !.pc = "windows", !.jobs = @ \ {j}, !.id = "none"]
    /\ UNCHANGED << mapVars, condVars, latch, opened, ipc >>

\* openDueWindows: with no window open, the job's scheduler is asked for the fire,
\* which is I/O with no lock ...
SchedulerFireTime(j) ==
    /\ loop.pc = "windows" /\ j \in loop.jobs /\ ~Open(j)
    /\ loop' = [loop EXCEPT !.pc = "fire", !.jobs = @ \ {j}, !.id = j]
    /\ UNCHANGED << mapVars, condVars, latch, opened, ipc >>

\* ... then the fire is compared with what is served, and openWindow goes on up to
\* its lock. Neither map is looked at again but for the insert's.
OpenWindow(j) ==
    /\ loop.pc = "fire" /\ loop.id = j
    /\ 2 * due > served[j]
    /\ \E new \in Hold :
         /\ HoldIdleSleep(new, "loop", 2 * due)
         /\ loop' = [loop EXCEPT !.pc = "insert", !.srv = served[j], !.new = new]
    /\ UNCHANGED << holds, displays, served, captured, condVars, latch, opened, ipc >>

OpenWindowInsert ==
    /\ loop.pc = "insert"
    /\ InsertOrRelease(loop.id, loop.new)
    /\ opened' = IF Open(loop.id) THEN opened
                 ELSE [opened EXCEPT ![loop.id] = loop.new.fire]
    /\ loop' = [loop EXCEPT !.pc = "windows", !.id = "none", !.srv = 0, !.new = NoHold]
    /\ UNCHANGED << displays, served, captured, condVars, latch, ipc >>

\* pollDetection, after the last window or on the poll timer: the pattern holds are
\* captured, and the lock is released while the process table is read.
PollDetection ==
    LET found == {j \in Job : Open(j) /\ Detection[j] = "pattern"} IN
    /\ \/ loop.pc \in {"idle", "detect"}
       \/ loop.pc = "windows" /\ loop.jobs = {}
    /\ captured' = [j \in Job |-> IF j \in found THEN [NoCapture EXCEPT !.st = "same"]
                                  ELSE NoCapture]
    /\ loop' = [loop EXCEPT !.pc = IF found = {} THEN "marks" ELSE "scan"]
    /\ UNCHANGED << holds, idles, displays, served, condVars, latch, opened, ipc >>

\* The process table could not be read: pollDetection returns.
ScanFails ==
    /\ loop.pc = "scan"
    /\ captured' = [j \in Job |-> NoCapture]
    /\ loop' = [loop EXCEPT !.pc = "sched"]
    /\ UNCHANGED << holds, idles, displays, served, condVars, latch, opened, ipc >>

\* updatePatternHold on a captured pointer, with or without a matching process. It
\* does not look whether the hold is still the one in the map, so finishing one
\* that is gone deletes whatever hold the job has now.
UpdatePatternHold(j, matched) ==
    LET was == IF captured[j].st = "same" THEN holds[j].detected
               ELSE captured[j].detected IN
    /\ loop.pc = "scan" /\ captured[j].st # "none"
    /\ captured' = [captured EXCEPT ![j] = NoCapture]
    /\ \/ /\ was /\ ~matched /\ captured[j].st = "same"
          /\ holds' = [holds EXCEPT ![j] = NoHold]
          /\ idles' = IF holds[j].idle THEN idles - 1 ELSE idles
          /\ served' = [served EXCEPT ![j] = holds[j].fire]
       \/ /\ was /\ ~matched /\ captured[j].st = "gone"
          /\ holds' = [holds EXCEPT ![j] = NoHold]
          /\ served' = [served EXCEPT ![j] = captured[j].fire]
          /\ UNCHANGED idles
       \/ /\ ~was /\ matched /\ captured[j].st = "same"
          /\ holds' = [holds EXCEPT ![j].detected = TRUE]
          /\ UNCHANGED << idles, served >>
       \/ /\ was = matched \/ (~was /\ captured[j].st = "gone")
          /\ UNCHANGED << holds, idles, served >>
    /\ loop' = [loop EXCEPT !.pc =
          IF \A i \in Job \ {j} : captured[i].st = "none" THEN "marks" ELSE "scan"]
    /\ UNCHANGED << displays, condVars, latch, opened, ipc >>

\* checkMarkedPIDs: marked jobs whose process is gone.
CheckMarkedPIDs(gone) ==
    /\ loop.pc = "marks"
    /\ gone \subseteq {j \in Job : Detection[j] = "mark" /\ holds[j].detected}
    /\ finishHoldLocked(gone)
    /\ loop' = [loop EXCEPT !.pc = "sched"]
    /\ UNCHANGED << condVars, latch, opened, ipc >>

\* pollSchedulerState finishes the observed jobs whose scheduler says they are
\* done ...
PollSchedulerState(finished) ==
    /\ loop.pc = "sched"
    /\ finished \subseteq Held \cap Observed
    /\ finishHoldLocked(finished)
    /\ loop' = [loop EXCEPT !.pc = "ceilings"]
    /\ UNCHANGED << condVars, latch, opened, ipc >>

\* ... after it has noted those it says are running.
SchedulerReportsStart(j) ==
    /\ loop.pc = "sched" /\ j \in Observed /\ Open(j) /\ ~holds[j].detected
    /\ holds' = [holds EXCEPT ![j].detected = TRUE]
    /\ UNCHANGED << idles, displays, served, captured, condVars, latch, opened, loop, ipc >>

\* enforceCeilings: any hold's time may be up, and then it is finished, unless its
\* job is seen running and the backstop is still ahead.
EnforceCeilings(expired) ==
    /\ loop.pc = "ceilings"
    /\ expired \subseteq Held
    /\ finishHoldLocked(expired)
    /\ loop' = IdleLoop
    /\ UNCHANGED << condVars, latch, opened, ipc >>

\* syncProviders, on the loop: a job that appeared in its source is adopted ...
AdoptJob(j) ==
    /\ loop.pc = "idle" /\ "sync" \in Requests /\ jobs[j] = "gone"
    /\ jobs' = [jobs EXCEPT ![j] = "enabled"]
    /\ UNCHANGED << mapVars, paused, cfg, due, latch, opened, loop, ipc >>

\* ... and one that is disabled there or gone from it leaves the store ...
RetireJob(j, st) ==
    /\ loop.pc = "idle" /\ "sync" \in Requests
    /\ jobs[j] = "enabled" /\ st # "enabled"
    /\ jobs' = [jobs EXCEPT ![j] = st]
    /\ loop' = [loop EXCEPT !.pc = "retire", !.id = j]
    /\ UNCHANGED << mapVars, paused, cfg, due, latch, opened, ipc >>

\* ... before its hold is released.
ReleaseRetired ==
    /\ loop.pc = "retire"
    /\ finishHoldLocked({loop.id})
    /\ loop' = IdleLoop
    /\ UNCHANGED << condVars, latch, opened, ipc >>

\* Time passes and the schedules come to their next fire.
NextFire ==
    /\ due < MaxFire
    /\ due' = due + 1
    /\ UNCHANGED << mapVars, latch, paused, cfg, jobs, opened, loop, ipc >>

-----------------------------------------------------------------------------
(* The IPC handlers. *)

Asked(h, kind) == kind \in Requests /\ ipc[h].pc = "idle"
Goto(h, pc, i, new) ==
    ipc' = [ipc EXCEPT ![h] = [IdleIpc EXCEPT !.pc = pc, !.id = i, !.new = new]]
Return(h) == ipc' = [ipc EXCEPT ![h] = IdleIpc]

\* KeepAwake: refused while a cutout is latched; otherwise the assertion ...
KeepAwake(h) ==
    /\ Asked(h, "awake") /\ ~latch
    /\ \E new \in Hold : /\ HoldIdleSleep(new, "ipc", 0)
                         /\ Goto(h, "awake", "awake", new)
    /\ UNCHANGED << holds, displays, served, captured, condVars, latch, opened, loop >>

\* ... then the insert, which finishes a window already open, and
\* syncKeepAwakeDisplayLocked, whose HoldDisplaySleep may fail.
KeepAwakeInsert(h) ==
    LET prev == holds["awake"] IN
    /\ ipc[h].pc = "awake"
    /\ \E lit \in BOOLEAN :
         /\ lit => cfg.display
         /\ holds' = [holds EXCEPT !["awake"] = [ipc[h].new EXCEPT !.display = lit]]
         /\ displays' = displays - (IF prev.display THEN 1 ELSE 0)
                                 + (IF lit THEN 1 ELSE 0)
    /\ idles' = IF prev.idle THEN idles - 1 ELSE idles
    /\ Return(h)
    /\ UNCHANGED << served, captured, condVars, latch, opened, loop >>

\* releaseKeepAwake, and EndRun on a run hold.
Release(h, i) ==
    /\ \/ i = "awake" /\ Asked(h, "awake")
       \/ i \in Key /\ Asked(h, "agent")
       \/ i \in Run /\ Asked(h, "run")
    /\ Open(i)
    /\ finishHoldLocked({i})
    /\ UNCHANGED << condVars, latch, opened, loop, ipc >>

\* StartRun with a key: with agent_hooks off it is only a sighting.
StartKeyedRun(h, k) ==
    /\ Asked(h, "agent") /\ cfg.agents
    /\ Goto(h, "lookup", k, NoHold)
    /\ UNCHANGED << mapVars, condVars, latch, opened, loop >>

\* The key's hold is renewed where it is (its lease is not modelled here).
LookupRun(h) ==
    /\ ipc[h].pc = "lookup"
    /\ IF Open(ipc[h].id) THEN Return(h) ELSE Goto(h, "check", ipc[h].id, NoHold)
    /\ UNCHANGED << mapVars, condVars, latch, opened, loop >>

\* StartRun without a key, under an id not used before.
StartRun(h, r) ==
    /\ Asked(h, "run")
    /\ ~Open(r) /\ \A g \in Handler : ipc[g].id # r
    /\ Goto(h, "check", r, NoHold)
    /\ UNCHANGED << mapVars, condVars, latch, opened, loop >>

\* openRunHold: refused while a cutout is latched; otherwise the assertion ...
OpenRunHold(h) ==
    /\ ipc[h].pc = "check"
    /\ \/ latch /\ Return(h) /\ UNCHANGED idles
       \/ /\ ~latch
          /\ \E new \in Hold : /\ HoldIdleSleep(new, "ipc", 0)
                               /\ Goto(h, "run", ipc[h].id, new)
    /\ UNCHANGED << holds, displays, served, captured, condVars, latch, opened, loop >>

\* Mutant: the loser of a race for a key keeps its assertion.
OpenRunHoldInsert_Leaks(h) ==
    LET i == ipc[h].id IN
    /\ ipc[h].pc = "run"
    /\ holds' = IF Open(i) THEN holds ELSE [holds EXCEPT ![i] = ipc[h].new]
    /\ Return(h)
    /\ UNCHANGED << idles, displays, served, captured, condVars, latch, opened, loop >>

\* ... then the insert.
OpenRunHoldInsert(h) ==
    /\ ipc[h].pc = "run"
    /\ InsertOrRelease(ipc[h].id, ipc[h].new)
    /\ Return(h)
    /\ UNCHANGED << displays, served, captured, condVars, latch, opened, loop >>

\* markStart: the open hold is marked; without one, openAdHocWindow takes an
\* assertion for a fire that is now, before or after the scheduled one ...
MarkStart(h, j) ==
    /\ Asked(h, "mark") /\ jobs[j] # "gone"
    /\ \/ /\ Open(j)
          /\ holds' = [holds EXCEPT ![j].detected = TRUE]
          /\ UNCHANGED << idles, ipc >>
       \/ /\ ~Open(j)
          /\ \E new \in Hold, now \in {2 * due - 1, 2 * due} :
               HoldIdleSleep(new, "ipc", now) /\ Goto(h, "adhoc", j, new)
          /\ UNCHANGED holds
    /\ UNCHANGED << displays, served, captured, condVars, latch, opened, loop >>

\* ... inserts ...
OpenAdHocWindow(h) ==
    /\ ipc[h].pc = "adhoc"
    /\ InsertOrRelease(ipc[h].id, ipc[h].new)
    /\ opened' = IF Open(ipc[h].id) THEN opened
                 ELSE [opened EXCEPT ![ipc[h].id] = ipc[h].new.fire]
    /\ Goto(h, "mark", ipc[h].id, NoHold)
    /\ UNCHANGED << displays, served, captured, condVars, latch, loop >>

\* ... and markStart looks the hold up again.
MarkAdHoc(h) ==
    LET i == ipc[h].id IN
    /\ ipc[h].pc = "mark"
    /\ holds' = IF Open(i) THEN [holds EXCEPT ![i].detected = TRUE] ELSE holds
    /\ Return(h)
    /\ UNCHANGED << idles, displays, served, captured, condVars, latch, opened, loop >>

MarkEnd(h, j) ==
    /\ Asked(h, "mark") /\ jobs[j] # "gone" /\ Open(j)
    /\ finishHoldLocked({j})
    /\ UNCHANGED << condVars, latch, opened, loop, ipc >>

\* setPaused(true) sets the flag and then goes through SleepNow.
Pause(h) ==
    /\ Asked(h, "pause")
    /\ paused' = TRUE
    /\ Goto(h, "sleepnow", "none", NoHold)
    /\ UNCHANGED << mapVars, cfg, jobs, due, latch, opened, loop >>

SleepNow(h) ==
    /\ \/ Asked(h, "sleep") /\ UNCHANGED ipc
       \/ ipc[h].pc = "sleepnow" /\ Return(h)
    /\ finishHoldLocked(Held)
    /\ UNCHANGED << condVars, latch, opened, loop >>

Resume(h) ==
    /\ Asked(h, "pause") /\ paused
    /\ paused' = FALSE
    /\ UNCHANGED << mapVars, cfg, jobs, due, latch, opened, loop, ipc >>

\* A job is added or enabled; or disabled or removed, and then released.
ChangeJob(h, j, st) ==
    /\ Asked(h, "job") /\ jobs[j] # st
    /\ jobs' = [jobs EXCEPT ![j] = st]
    /\ IF st = "enabled" THEN UNCHANGED ipc ELSE Goto(h, "release", j, NoHold)
    /\ UNCHANGED << mapVars, paused, cfg, due, latch, opened, loop >>

ReleaseJob(h) ==
    /\ ipc[h].pc = "release"
    /\ finishHoldLocked({ipc[h].id})
    /\ Return(h)
    /\ UNCHANGED << condVars, latch, opened, loop >>

\* setConfig copies the whole configuration, changes one key of the copy ...
SetConfig(h, kind, on) ==
    /\ Asked(h, kind)
    /\ ipc' = [ipc EXCEPT ![h] = [IdleIpc EXCEPT
          !.pc = IF kind = "agents" THEN "setAgents" ELSE "setDisplay",
          !.next = [cfg EXCEPT ![kind] = on]]]
    /\ UNCHANGED << mapVars, condVars, latch, opened, loop >>

\* ... saves the copy and puts it in place, in a second section.
SetConfigStore(h) ==
    /\ cfg' = ipc[h].next
    /\ \/ ipc[h].pc = "setDisplay" /\ Goto(h, "syncDisplay", "none", NoHold)
       \/ ipc[h].pc = "setAgents" /\ cfg'.agents /\ Return(h)
       \/ /\ ipc[h].pc = "setAgents" /\ ~cfg'.agents
          /\ Goto(h, "releaseAgents", "none", NoHold)
    /\ UNCHANGED << mapVars, paused, jobs, due, latch, opened, loop >>

ReleaseAgentHolds(h) ==
    /\ ipc[h].pc = "releaseAgents"
    /\ finishHoldLocked(Key)
    /\ Return(h)
    /\ UNCHANGED << condVars, latch, opened, loop >>

\* Mutant: switching the setting off leaves the display on.
SyncKeepAwakeDisplay_OnlyOn(h) ==
    LET want == cfg.display /\ Open("awake") /\ ~holds["awake"].display IN
    /\ ipc[h].pc = "syncDisplay"
    /\ holds' = IF want THEN [holds EXCEPT !["awake"].display = TRUE] ELSE holds
    /\ displays' = IF want THEN displays + 1 ELSE displays
    /\ Return(h)
    /\ UNCHANGED << idles, served, captured, condVars, latch, opened, loop >>

\* syncKeepAwakeDisplay makes the open window's display assertion match the
\* setting; HoldDisplaySleep may fail, a release does not.
SyncKeepAwakeDisplay(h) ==
    LET was == holds["awake"].display IN
    /\ ipc[h].pc = "syncDisplay"
    /\ \E lit \in BOOLEAN :
         /\ lit => cfg.display /\ Open("awake")
         /\ was /\ cfg.display => lit
         /\ holds' = [holds EXCEPT !["awake"].display = lit]
         /\ displays' = IF lit = was THEN displays
                        ELSE IF lit THEN displays + 1 ELSE displays - 1
    /\ Return(h)
    /\ UNCHANGED << idles, served, captured, condVars, latch, opened, loop >>

-----------------------------------------------------------------------------
Loop ==
    \/ Tick \/ FireCutout \/ OpenDueWindows \/ OpenWindowInsert
    \/ \E j \in Job : PassOver(j) \/ SchedulerFireTime(j) \/ OpenWindow(j)
                     \/ SchedulerReportsStart(j)
    \/ PollDetection \/ ScanFails
    \/ \E j \in Job, matched \in BOOLEAN : UpdatePatternHold(j, matched)
    \/ \E S \in SUBSET Id :
          CheckMarkedPIDs(S) \/ PollSchedulerState(S) \/ EnforceCeilings(S)
    \/ \E j \in Job, st \in {"disabled", "gone"} : AdoptJob(j) \/ RetireJob(j, st)
    \/ ReleaseRetired \/ NextFire

Ipc(h) ==
    \/ KeepAwake(h) \/ KeepAwakeInsert(h) \/ \E i \in Id : Release(h, i)
    \/ \E k \in Key : StartKeyedRun(h, k)
    \/ \E r \in Run : StartRun(h, r)
    \/ LookupRun(h) \/ OpenRunHold(h) \/ OpenRunHoldInsert(h)
    \/ \E j \in Job : MarkStart(h, j) \/ MarkEnd(h, j)
    \/ OpenAdHocWindow(h) \/ MarkAdHoc(h)
    \/ Pause(h) \/ SleepNow(h) \/ Resume(h)
    \/ \E j \in Job, st \in {"enabled", "disabled", "gone"} : ChangeJob(h, j, st)
    \/ ReleaseJob(h)
    \/ \E kind \in {"agents", "display"}, on \in BOOLEAN : SetConfig(h, kind, on)
    \/ SetConfigStore(h) \/ ReleaseAgentHolds(h) \/ SyncKeepAwakeDisplay(h)

Next == Loop \/ \E h \in Handler : Ipc(h)

Spec == Init /\ [][Next]_vars

-----------------------------------------------------------------------------
AtRest(pcs) == \A h \in Handler : ipc[h].pc \notin pcs
InFlight == Cardinality({h \in Handler : ipc[h].new.idle})
            + (IF loop.new.idle THEN 1 ELSE 0)

\* No assertion outlives its hold: whatever the loop and the handlers race each
\* other to, each assertion the OS holds is that of one hold in the map, or of a
\* thread about to insert or release it. A lost one keeps the machine from sleeping
\* until the daemon restarts. The display is kept on only for an open keep-awake
\* window, and while keep_display_awake is on, or about to be brought in line.
NoOrphanedAssertion ==
    /\ idles = Cardinality(Idle(Id)) + InFlight
    /\ displays = Cardinality(Lit(Id)) /\ Lit(Id) \subseteq {"awake"}
    /\ Lit(Id) # {} /\ AtRest({"syncDisplay"}) => cfg.display

\* The loop's own windows and the cutout never overlap: once it has fired, no
\* window the loop opened is left or appears until the latch clears.
LatchKeepsWindowsShut == latch => \A i \in Id : holds[i].by # "loop"

\* The inductive invariant behind it: only the loop has such a window in hand, and
\* the loop, which alone sets and clears the latch, has none while it is set.
LatchInv ==
    /\ LatchKeepsWindowsShut
    /\ latch => loop.pc \notin {"windows", "fire", "insert"}
    /\ \A h \in Handler : ipc[h].new.by # "loop"

\* "A fire already served is done" (openDueWindows), at the insert, where it counts:
\* a window the loop puts in the map is for an instant after that of the job's last
\* window, the loop's or one the job opened by reporting a start. Only a window that
\* ended since the loop looked at d.served is not taken into account: the job's
\* reported run falls between the look and the insert, and the loop opens a second
\* window for the fire that run was of. What the last window was for is all that
\* d.served remembers: one the job opens early, before a fire whose window has come
\* and gone, makes the loop open that fire's again.
WindowForNewFire ==
    [][\A j \in Job : ~Open(j) /\ holds'[j].by = "loop"
          => holds'[j].fire > opened[j] \/ served[j] # loop.srv]_vars

=============================================================================
