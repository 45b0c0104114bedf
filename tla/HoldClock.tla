----------------------------- MODULE HoldClock -----------------------------
(***************************************************************************)
(* One hold in time (internal/daemon: hold.go, runhold.go, sleepback.go    *)
(* and the loop of daemon.go): when it opens, what it learns of the run it *)
(* waits for, when the clock closes it, which run is recorded, and whether *)
(* the machine is then put back to sleep.                                  *)
(*                                                                         *)
(* A behaviour has one kind of hold: a wrapped command's ("run"), an agent *)
(* session's ("keyed"), or a job's window, whose job cannot be seen        *)
(* ("blind"), keeps records that its scheduler writes ("observed"), or is  *)
(* seen in the process table ("pattern").  Holds models the interleavings  *)
(* of many holds, without the clock.                                       *)
(*                                                                         *)
(* The unit of time is the loop's period: in each unit the loop runs once, *)
(* unless it is stalled, before or after whatever else happens in it.      *)
(***************************************************************************)
EXTENDS Integers

CONSTANTS
    Kinds,              \* the kinds to check
    Lease,              \* runLease, agentLease
    LongLease,          \* a lease that a caller asked for, at most maxLease
    MaxRun,
    MaxStart,           \* how long after its request a command's renewals begin to count:
                        \* HoldIdleSleep, the reply and cmd.Start
    MaxDelay,           \* how late a renewal reaches the daemon, at most
    WakeBuffer, Ceiling, DetectionGrace, MaxCeiling,
    MaxRuntime,         \* an explicit one, or 0
    LateHour,           \* how long a closed window is watched for a late completion
    SleepBackGrace,
    Gap,                \* the time between two fires of the job
    Horizon,
    MaxStall,           \* how many units in a row the loop can be stalled
    MaxDeaths           \* how often a scheduler dies and leaves its claim behind

Windowed == {"blind", "observed", "pattern"}
Wrapped == {"run", "keyed"}

ASSUME KindsAssumption == Kinds \subseteq Windowed \cup Wrapped
ASSUME NatAssumption ==
    /\ {Lease, LongLease, MaxRun, MaxStart, MaxDelay, WakeBuffer, Ceiling, DetectionGrace, MaxCeiling, MaxRuntime,
        LateHour, SleepBackGrace, Horizon, MaxStall, MaxDeaths} \subseteq Nat
    /\ Gap \in Nat \ {0} /\ Lease > 0 /\ LongLease >= Lease

(* Mutant: a lease has room for no lost renewal.                           *)
RenewEvery_Half == Lease \div 2

(* renewLoop's ticker.                                                     *)
RenewEvery == Lease \div 3

(* A call takes DefaultTimeout at most, 5 seconds, and a period is 30.     *)
ASSUME DelayAssumption == MaxStart + MaxDelay <= RenewEvery

(* A job fires at every multiple of Gap.  Without this a late window could *)
(* still be watched when the next fire's opens.                            *)
ASSUME GapAssumption ==
    Gap > LateHour + WakeBuffer + Ceiling + DetectionGrace + MaxStall

VARIABLES
    kind, now,
    loop,               \* where the loop is in its tick
    stall,              \* how many units it has missed in a row
    hold,               \* the hold, or NoHold
    served,             \* the last fire whose window has closed, or 0
    cmd,                \* the wrapped command or the agent: is its hold being opened, when
                        \* it last reported, when its next renewal is due, and the renewals
                        \* lost in a row, which stay once there are two
    exec,               \* the job's run
    rec,                \* its scheduler's record
    late,               \* lateWatch's entry, or NoHold
    records,            \* the runs recorded with an end
    ran, closed,        \* history: the runs that ended, the windows that closed
    other,              \* is some other hold open
    sleepBack,          \* sleepBackAt, and whether the loop has decided to sleep
    deaths

clockVars == << kind, now, stall >>
jobVars == << exec, rec, ran, deaths >>
windowVars == << hold, served, records, closed, sleepBack >>
vars == << clockVars, loop, windowVars, cmd, jobVars, late, other >>

NoHold == [open |-> FALSE]

Later(a, b) == IF a >= b THEN a ELSE b
Sooner(a, b) == IF a <= b THEN a ELSE b

Init ==
    /\ kind \in Kinds
    /\ now = 1 /\ loop = "open" /\ stall = 0
    /\ hold = NoHold /\ served = 0
    /\ cmd = [alive |-> FALSE, asked |-> FALSE, began |-> 0, reported |-> 0, tick |-> 0,
              missed |-> 0]
    /\ exec = [running |-> FALSE, fire |-> 0, began |-> 0]
    /\ rec = [running |-> FALSE, startedAt |-> 0, completedAt |-> 0]
    /\ late = NoHold /\ records = {} /\ ran = {} /\ closed = {}
    /\ other \in BOOLEAN
    /\ sleepBack = [at |-> 0, decided |-> FALSE, crossed |-> FALSE]
    /\ deaths = 0

-----------------------------------------------------------------------------
(* The hold.                                                               *)

detectDeadlineFor(fire, ceiling) == fire + Later(ceiling, DetectionGrace)

deadline(h) ==
    CASE kind # "pattern" -> h.fireAt + h.ceiling
      [] kind = "pattern" /\ h.detected -> h.startedAt + h.ceiling
      [] kind = "pattern" /\ ~h.detected -> h.detectDeadline

expired(h) == now > deadline(h)

hardDeadline(h) == (IF h.detected THEN h.startedAt ELSE h.openedAt) + MaxCeiling

(* Opening any hold crosses a sleep the loop has already decided on.       *)
Open(h) ==
    /\ hold' = h
    /\ sleepBack' = [sleepBack EXCEPT !.crossed = @ \/ sleepBack.decided]

(* Mutant: any window that followed a wake arms the sleep.                 *)
Arms_AfterAnyWake(h, outcome) == h.woke

(* armSleepBack: only after a job that was seen to end, in a window that   *)
(* followed a wake.                                                        *)
Arms(h, outcome) == h.detected /\ outcome = "ok" /\ h.woke

Record(h, outcome, endedAt) ==
    [fire |-> h.fireAt, started |-> h.startedAt, outcome |-> outcome,
     ended |-> IF endedAt > h.startedAt THEN endedAt ELSE now]

(* finishHoldLocked.                                                       *)
Finish(h, outcome, endedAt) ==
    /\ hold' = NoHold
    /\ IF kind \in Wrapped
       THEN UNCHANGED << served, records, closed, sleepBack >>
       ELSE /\ served' = h.fireAt
            /\ records' = records \cup
                   (IF h.detected THEN {Record(h, outcome, endedAt)} ELSE {})
            /\ closed' = closed \cup
                   {[fire |-> h.fireAt, opened |-> h.openedAt, at |-> now,
                     outcome |-> outcome, seen |-> h.detected, woke |-> h.woke]}
            /\ sleepBack' = IF ~other /\ Arms(h, outcome)
                            THEN [sleepBack EXCEPT !.at = now + SleepBackGrace]
                            ELSE sleepBack

-----------------------------------------------------------------------------
(* Wrapped commands and agent sessions.                                    *)

(* StartRun for a command not held yet: the hold's clock starts with the   *)
(* request, before openRunHold takes the assertion ...                     *)
StartRun ==
    /\ kind \in Wrapped
    /\ ~cmd.alive /\ cmd.began = 0 /\ ~hold.open
    /\ cmd' = [alive |-> TRUE, asked |-> TRUE, began |-> now, reported |-> now, tick |-> 0,
               missed |-> 0]
    /\ UNCHANGED << clockVars, loop, windowVars, jobVars, late, other >>

(* ... and later it is in the map; the wrapper gets the reply, starts the  *)
(* command and only then renewLoop's ticker.  The wrapper may be dead, or  *)
(* have given up waiting.                                                  *)
OpenRunHold ==
    /\ cmd.asked
    /\ \E l \in IF kind = "keyed" THEN {Lease, LongLease} ELSE {Lease} :
       Open([open |-> TRUE, fireAt |-> cmd.reported, openedAt |-> cmd.reported, ceiling |-> l,
             detected |-> FALSE])
    /\ cmd' = [cmd EXCEPT !.asked = FALSE, !.tick = now + RenewEvery]
    /\ UNCHANGED << clockVars, loop, served, jobVars, late, records, closed, other >>

(* Mutant: each renewal adds a lease to what is left of the last.          *)
Renewed_Stacks(h, lease) ==
    [h EXCEPT !.fireAt = Sooner(h.fireAt + lease, h.openedAt + MaxRun), !.ceiling = lease]

Renewed(h, lease) ==
    [h EXCEPT !.fireAt = Sooner(now, h.openedAt + MaxRun), !.ceiling = lease]

(* RenewRun, on a tick of the wrapper's ticker.                            *)
Ticked == kind = "run" /\ cmd.alive /\ ~cmd.asked /\ now >= cmd.tick

Renew ==
    /\ Ticked
    /\ cmd' = [cmd EXCEPT !.tick = @ + RenewEvery, !.missed = IF @ > 1 THEN @ ELSE 0,
                          !.reported = now]
    /\ hold' = IF hold.open THEN Renewed(hold, hold.ceiling) ELSE hold
    /\ UNCHANGED << clockVars, loop, served, jobVars, late, records, closed, other, sleepBack >>

(* A renewal that does not reach the daemon.                               *)
RenewLost ==
    /\ Ticked
    /\ cmd' = [cmd EXCEPT !.tick = @ + RenewEvery, !.missed = Sooner(@ + 1, 2)]
    /\ UNCHANGED << clockVars, loop, windowVars, jobVars, late, other >>

(* Another StartRun of a session's key, at any time: its hold is renewed,  *)
(* or, if it has lapsed, another one opened.                               *)
ReportAgain ==
    /\ kind = "keyed" /\ cmd.alive /\ ~cmd.asked
    /\ cmd' = [cmd EXCEPT !.asked = ~hold.open, !.reported = now]
    /\ \E l \in {Lease, LongLease} : hold' = IF hold.open THEN Renewed(hold, l) ELSE hold
    /\ UNCHANGED << clockVars, loop, served, jobVars, late, records, closed, other, sleepBack >>

(* EndRun; a session may say that it is done before its hold is open. Or   *)
(* the wrapper is killed and sends nothing.                                *)
EndRun ==
    /\ cmd.alive /\ (cmd.asked => kind = "keyed")
    /\ cmd' = [cmd EXCEPT !.alive = FALSE]
    /\ IF hold.open THEN Finish(hold, "ok", 0)
       ELSE UNCHANGED windowVars
    /\ UNCHANGED << clockVars, loop, jobVars, late, other >>

WrapperKilled ==
    /\ cmd.alive
    /\ cmd' = [cmd EXCEPT !.alive = FALSE]
    /\ UNCHANGED << clockVars, loop, windowVars, jobVars, late, other >>

-----------------------------------------------------------------------------
(* The job and its scheduler.                                              *)

(* The scheduler runs the job for the fire that has come, at once or late, *)
(* and claims the run in its record or does not.  It does not run into its *)
(* next window: which run a completion belongs to would be anyone's guess. *)
LastFire == (now \div Gap) * Gap
LastUnit(fire) == fire + Gap - WakeBuffer - 1

JobBegins ==
    /\ kind \in Windowed /\ ~exec.running
    /\ LastFire > exec.fire /\ now <= LastUnit(LastFire)
    /\ exec' = [running |-> TRUE, fire |-> LastFire, began |-> now]
    /\ \/ kind = "observed" /\ rec' = [rec EXCEPT !.running = TRUE, !.startedAt = now]
       \/ UNCHANGED rec
    /\ UNCHANGED << clockVars, loop, windowVars, cmd, ran, deaths, late, other >>

JobEnds ==
    /\ exec.running /\ now > exec.began
    /\ exec' = [exec EXCEPT !.running = FALSE]
    /\ rec' = [running |-> FALSE, startedAt |-> 0, completedAt |-> now]
    /\ ran' = ran \cup {[fire |-> exec.fire, began |-> exec.began, ended |-> now]}
    /\ UNCHANGED << clockVars, loop, windowVars, cmd, deaths, late, other >>

(* The scheduler dies in the middle of a run; its claim stays.             *)
SchedulerDies ==
    /\ exec.running /\ deaths < MaxDeaths
    /\ deaths' = deaths + 1
    /\ exec' = [exec EXCEPT !.running = FALSE]
    /\ UNCHANGED << clockVars, loop, windowVars, cmd, rec, ran, late, other >>

-----------------------------------------------------------------------------
(* The loop's tick.                                                        *)

(* The fire of sched.Next(now - WakeBuffer).                               *)
NextFire == ((now - WakeBuffer) \div Gap + 1) * Gap

Due == /\ kind \in Windowed /\ ~hold.open
       /\ NextFire > served
       /\ now >= NextFire - WakeBuffer
       /\ now <= detectDeadlineFor(NextFire, 0)

OpenDueWindows ==
    /\ loop = "open" /\ loop' = "detect"
    /\ IF Due
       THEN \E woke \in BOOLEAN :
            LET c == IF MaxRuntime > 0 THEN MaxRuntime ELSE Ceiling
            IN Open([open |-> TRUE, fireAt |-> NextFire, openedAt |-> now, ceiling |-> c,
                     detectDeadline |-> detectDeadlineFor(NextFire, c),
                     detected |-> FALSE, startedAt |-> 0, woke |-> woke])
       ELSE UNCHANGED << hold, sleepBack >>
    /\ UNCHANGED << clockVars, served, cmd, jobVars, late, records, closed, other >>

(* pollDetection: the job is matched while it runs, and done once it is    *)
(* gone.                                                                   *)
PollDetection ==
    /\ loop = "detect" /\ loop' = "observe"
    /\ IF kind = "pattern" /\ hold.open
       THEN CASE ~hold.detected /\ exec.running ->
                   /\ hold' = [hold EXCEPT !.detected = TRUE, !.startedAt = now]
                   /\ UNCHANGED << served, records, closed, sleepBack >>
              [] hold.detected /\ ~exec.running -> Finish(hold, "ok", 0)
              [] OTHER -> UNCHANGED windowVars
       ELSE UNCHANGED windowVars
    /\ UNCHANGED << clockVars, cmd, jobVars, late, other >>

(* pollSchedulerState, first pass: the record of a run claimed, or of one  *)
(* that ended after the window opened.                                     *)
Seen == kind = "observed" /\ hold.open

(* Mutant: the run is taken to have begun with its window.                 *)
InferredStart_WindowOpening == hold.openedAt

InferredStart ==
    IF hold.fireAt < hold.openedAt \/ hold.fireAt > rec.completedAt
    THEN hold.openedAt ELSE hold.fireAt

Observe ==
    /\ loop = "observe" /\ loop' = "watch"
    /\ CASE Seen /\ rec.running /\ ~hold.detected ->
              /\ hold' = [hold EXCEPT !.detected = TRUE, !.startedAt =
                            IF rec.startedAt = 0 THEN now ELSE rec.startedAt]
              /\ UNCHANGED << served, records, closed, sleepBack >>
         [] Seen /\ ~rec.running /\ rec.completedAt > hold.openedAt ->
              Finish([hold EXCEPT !.detected = TRUE,
                                  !.startedAt = IF hold.detected THEN @ ELSE InferredStart],
                     "ok", rec.completedAt)
         [] OTHER -> UNCHANGED windowVars
    /\ UNCHANGED << clockVars, cmd, jobVars, late, other >>

(* pollSchedulerState, second pass: a window that closed unseen.           *)
(* Mutant: the run must have ended after the window closed.                *)
LateDone_AfterClosing == ~rec.running /\ rec.completedAt > late.closed

LateDone == ~rec.running /\ rec.completedAt > late.opened

WatchLate ==
    /\ loop = "watch" /\ loop' = "ceilings"
    /\ IF late.open
       THEN CASE now - late.closed > LateHour ->
                   late' = NoHold /\ UNCHANGED records
              [] now - late.closed <= LateHour /\ LateDone ->
                   /\ late' = NoHold
                   /\ records' = records \cup
                        {[fire |-> late.fired, started |-> late.fired, outcome |-> "ok",
                          ended |-> rec.completedAt]}
              [] OTHER -> UNCHANGED << late, records >>
       ELSE UNCHANGED << late, records >>
    /\ UNCHANGED << clockVars, hold, served, cmd, jobVars, closed, other, sleepBack >>

(* enforceCeilings.  Mutants: a job that is seen is held for ever; only a  *)
(* job whose process is watched counts as still running.                   *)
Outlasting_Forever(h) == h.detected /\ MaxRuntime = 0
Outlasting_OnlyPatterns(h) ==
    kind = "pattern" /\ h.detected /\ MaxRuntime = 0 /\ now < hardDeadline(h)

Outlasting(h) == h.detected /\ MaxRuntime = 0 /\ now < hardDeadline(h)

EnforceCeilings ==
    /\ loop = "ceilings" /\ loop' = "sleepback"
    /\ IF hold.open /\ expired(hold) /\ ~Outlasting(hold)
       THEN /\ Finish(hold, CASE hold.detected -> "ceiling"
                              [] ~hold.detected /\ kind = "pattern" -> "never_detected"
                              [] OTHER -> "ok", 0)
            /\ late' = IF kind = "observed" /\ ~hold.detected
                       THEN [open |-> TRUE, opened |-> hold.openedAt, fired |-> hold.fireAt,
                             closed |-> now]
                       ELSE late
       ELSE UNCHANGED << windowVars, late >>
    /\ UNCHANGED << clockVars, cmd, jobVars, other >>

(* maybeSleepBack: due, and every reason not to sleep looked at.  The user *)
(* may be there; the machine is put to sleep some time after the decision. *)
MaybeSleepBack ==
    /\ loop = "sleepback"
    /\ IF sleepBack.at = 0 \/ now < sleepBack.at
       THEN loop' = "idle" /\ UNCHANGED sleepBack
       ELSE \/ /\ loop' = "idle"                    \* a hold is open, or somebody is there
               /\ sleepBack' = [sleepBack EXCEPT !.at = 0]
            \/ /\ ~hold.open /\ ~other
               /\ loop' = "sleep"
               /\ sleepBack' = [sleepBack EXCEPT !.at = 0, !.decided = TRUE, !.crossed = FALSE]
    /\ UNCHANGED << clockVars, hold, served, cmd, jobVars, late, records, closed, other >>

SleepNow ==
    /\ loop = "sleep" /\ loop' = "idle"
    /\ sleepBack' = [sleepBack EXCEPT !.decided = FALSE]
    /\ UNCHANGED << clockVars, hold, served, cmd, jobVars, late, records, closed, other >>

(* Some other hold comes or goes, in a handler.                            *)
OtherHold ==
    /\ kind \in Windowed
    /\ other' = ~other
    /\ sleepBack' = [sleepBack EXCEPT !.crossed = @ \/ (sleepBack.decided /\ ~other)]
    /\ UNCHANGED << clockVars, loop, hold, served, cmd, jobVars, late, records, closed >>

-----------------------------------------------------------------------------
(* Time passes when the loop has run, or is stalled, and when neither a    *)
(* hold's opening nor a renewal is later than it can be.                   *)
Advance ==
    /\ now < Horizon /\ now' = now + 1
    /\ cmd.asked => now < cmd.reported + MaxStart
    /\ Ticked => now < cmd.tick + MaxDelay
    /\ exec.running => now < LastUnit(exec.fire)
    /\ \/ loop = "idle" /\ stall' = 0
       \/ loop = "open" /\ stall < MaxStall /\ stall' = stall + 1
    /\ loop' = "open"
    /\ UNCHANGED << kind, windowVars, cmd, jobVars, late, other >>

LoopStep == OpenDueWindows \/ PollDetection \/ Observe \/ WatchLate \/ EnforceCeilings
            \/ MaybeSleepBack \/ SleepNow
JobStep == JobBegins \/ JobEnds \/ SchedulerDies
CommandStep == StartRun \/ OpenRunHold \/ Renew \/ RenewLost \/ ReportAgain \/ EndRun
               \/ WrapperKilled

Next == LoopStep \/ JobStep \/ CommandStep \/ OtherHold \/ Advance

Spec == Init /\ [][Next]_vars

-----------------------------------------------------------------------------
(* A hold past its time may be there until the next pass of the loop.      *)
Slack == 1 + MaxStall

(* "The lease has room for a missed renewal" (renewLoop), however late the *)
(* renewals on either side of it are and whenever the loop looks: a        *)
(* running command keeps its hold until MaxRun and a lease after it began, *)
(* if no two renewals in a row were lost.  After two it may lose it: the   *)
(* third is due a lease after the last one and comes later.  And however a *)
(* command ends, whatever leases it asked for, its hold is gone a lease    *)
(* after it last reported and MaxRun and a lease after the hold was opened *)
(* (RenewRun).                                                             *)
HoldFollowsCommand ==
    /\ /\ kind = "run" /\ cmd.alive /\ ~cmd.asked /\ cmd.missed <= 1
       /\ now <= cmd.began + MaxRun + Lease
       => hold.open
    /\ kind \in Wrapped /\ hold.open =>
          /\ now <= cmd.reported + hold.ceiling + Slack
          /\ now <= hold.openedAt + MaxRun + LongLease + Slack

(* Whatever its job and its scheduler do, a window ends: unseen, after its *)
(* fixed length or the grace; seen, after an explicit maximum or           *)
(* MaxCeiling, counted from the later of the start it was told and the     *)
(* fire; and one that opened later than that, with the pass that opened it *)
(* (deadline, enforceCeilings).                                            *)
WindowEnds ==
    kind \in Windowed /\ hold.open =>
        IF ~hold.detected
        THEN now <= hold.fireAt + Later(hold.ceiling, DetectionGrace) + Slack
        ELSE now <= Later(hold.openedAt,
                          Later(hold.startedAt, hold.fireAt)
                          + (IF MaxRuntime > 0 THEN MaxRuntime ELSE Later(Ceiling, MaxCeiling)))
                    + Slack

(* No pass of the loop closes the window of a job it has seen start, that  *)
(* is still running and that has no explicit maximum, before MaxCeiling,   *)
(* however far it has outlasted its estimate (enforceCeilings).            *)
RunningJobKept ==
    [][ hold.open /\ hold.detected /\ exec.running /\ exec.fire = hold.fireAt
        /\ MaxRuntime = 0 /\ now < hold.startedAt + MaxCeiling
        => hold'.open ]_vars

(* A run that its scheduler recorded is recorded once, whole, and as that  *)
(* run: neither the completion of an earlier run nor a window's opening is *)
(* taken for it, and no other run's time is charged to it                  *)
(* (pollSchedulerState).  A claim left by a scheduler that died misleads   *)
(* it: see the README.                                                     *)
RecordsTellTheTruth ==
    deaths = 0 /\ kind = "observed" =>
        \A r \in records : r.outcome = "ok" =>
            /\ \E x \in ran : /\ x.fire = r.fire /\ x.ended = r.ended
                              /\ x.fire <= r.started /\ r.started <= x.ended
            /\ \A q \in records : q.ended = r.ended => q = r

(* A run that outlives the window that waited for it unseen, and ends soon *)
(* enough, is not lost to the estimator: it is recorded, or still watched  *)
(* for (lateWatch).                                                        *)
LateRunLearned ==
    deaths = 0 /\ kind = "observed" =>
        \A x \in ran, w \in closed :
            x.fire = w.fire /\ x.ended > w.opened /\ x.ended + Slack <= w.at + LateHour
            => late.open \/ \E r \in records : r.fire = x.fire

(* The machine is put to sleep only after a window that followed a wake,   *)
(* and whose job was seen to end, has been closed for the whole grace;     *)
(* and, unless one was opened after the loop decided, over no hold         *)
(* (armSleepBack, maybeSleepBack).                                         *)
SleepIsEarned ==
    [][ loop = "sleep" /\ loop' # loop =>
        /\ sleepBack.crossed \/ (~hold.open /\ ~other)
        /\ \E w \in closed : w.seen /\ w.woke /\ w.outcome = "ok" /\ now >= w.at + SleepBackGrace
      ]_vars

=============================================================================
