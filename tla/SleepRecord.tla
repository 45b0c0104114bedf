---------------------------- MODULE SleepRecord ----------------------------
(***************************************************************************)
(* Fires that the machine slept through (internal/daemon/wake.go,          *)
(* internal/store/history.go): the control loop notices a sleep by the     *)
(* time that its ticks missed, less the time it was busy, and records a    *)
(* run for every fire of a job that fell into it.                          *)
(*                                                                         *)
(* The wall clock runs on in sleep and can be set back; the ticker and the *)
(* count of busy time run on the monotonic clock, which stops in sleep.    *)
(* The ticker keeps one undelivered tick, which is stamped when it is      *)
(* taken, less the time since it was due on the monotonic clock.           *)
(***************************************************************************)
EXTENDS Integers, FiniteSets, FiniteSetsExt

CONSTANTS
    TickEvery,      \* tick_interval
    GapThreshold,   \* max(4 * tick_interval, a minute)
    FireTimes,      \* the job's fires
    SkippedFires,   \* those of them that the user asked to skip
    CreatedAt,      \* when the job was registered
    NapLengths,     \* how long the machine may sleep
    StallLengths,   \* how long a call of the loop may block it
    KeptLines,      \* maxHistoryLines
    MaxTroubles,    \* bounds sleeps, stalls, crashes and settings of the clock, together
    LastWall        \* bounds the wall clock

VARIABLES
    wall,           \* the wall clock
    due,            \* awake time until the ticker is due
    overdue,        \* the awake time since its undelivered tick was due, or -1 for none
    lastTick,       \* Daemon.lastTick
    busy,           \* Daemon.busy
    stalled,        \* how long the call that blocks the loop still takes
    servedUpTo,     \* Daemon.served
    lines,          \* the history file: its runs [fire, outcome, entry], by the order of entry
    torn,           \* does the file end in half a line?
    naps,           \* history: the sleeps << from, to >>
    \* history: was a tick overrun, the clock set, the daemon killed, the file trimmed
    troubles, overran, stepped, lost, trimmed

sleepRecordVars == << wall, due, overdue, lastTick, busy, stalled, servedUpTo, lines, torn,
                      naps, troubles, overran, stepped, lost, trimmed >>

fileVars == << lines, torn, trimmed >>

ASSUME SleepRecordAssumption ==
    /\ TickEvery \in Nat \ {0} /\ GapThreshold \in Nat /\ GapThreshold >= 4 * TickEvery
    /\ FireTimes \subseteq Nat /\ SkippedFires \subseteq Nat /\ CreatedAt \in Nat
    /\ NapLengths \subseteq Nat \ {0} /\ StallLengths \subseteq Nat \ {0}

-----------------------------------------------------------------------------
(* The history file. Every reader sorts it by the fire, and passes over a line *)
(* that does not parse: of such a line it only matters whether the next one is *)
(* added to it.                                                                *)

HasRunAt(fire) == \E r \in lines : r.fire = fire

\* trimHistoryLocked: the latest runs are kept, if there are too many.
FiresLater(r, s) == s.fire > r.fire \/ (s.fire = r.fire /\ s.entry > r.entry)
trimHistory(file) ==
    IF Cardinality(file) > KeptLines
    THEN {r \in file : Cardinality({s \in file : FiresLater(r, s)}) < KeptLines} ELSE file

\* AppendRun for each of the runs that a tick records. The first of them is lost if it is added
\* to a torn line.
nextEntry == Max({0} \cup {r.entry : r \in lines}) + 1
Before(r, s) == r.entry < s.entry \/ (r.entry = s.entry /\ r.fire < s.fire)
AppendRuns(runs) ==
    LET whole == {r \in runs : ~torn \/ \E s \in runs : Before(s, r)}
    IN  /\ lines' = trimHistory(lines \cup whole)
        /\ torn' = (torn /\ runs = {})
        /\ trimmed' = (trimmed \/ Cardinality(lines \cup whole) > KeptLines)

-----------------------------------------------------------------------------
(* Noticing a sleep. *)

\* sleepGap: 0 for none.
sleepGap(stamp) ==
    LET gap == stamp - lastTick - busy
    IN  IF gap < GapThreshold THEN 0 ELSE gap

\* Mutant: the fire is recorded without asking whether it already is.
Missed_Again(from, to) ==
    {t \in FireTimes : /\ t > from /\ t > CreatedAt /\ t < to
                       /\ t > servedUpTo /\ t \notin SkippedFires}

\* recordSleptThrough: the fires that are to be recorded for a sleep.
Missed(from, to) ==
    {t \in FireTimes : /\ t > from /\ t > CreatedAt /\ t < to
                       /\ t > servedUpTo /\ t \notin SkippedFires
                       /\ ~HasRunAt(t)}

recordSleptThrough(from, to) ==
    {[fire |-> t, outcome |-> "slept", entry |-> nextEntry] : t \in Missed(from, to)}

-----------------------------------------------------------------------------
\* The daemon starts with a tick, which has none before it to measure from.
SleepRecordInit ==
    /\ wall = 1 /\ due = TickEvery /\ overdue = -1
    /\ lastTick = 1 /\ busy = 0 /\ stalled = 0 /\ servedUpTo = 0
    /\ lines = {} /\ torn = FALSE /\ naps = {}
    /\ troubles = 0 /\ overran = FALSE /\ stepped = FALSE /\ lost = FALSE /\ trimmed = FALSE

\* A moment awake. The ticker keeps the first tick that nobody takes, and drops the others.
AwakeMoment ==
    /\ wall < LastWall
    /\ overdue = -1 \/ stalled > 0
    /\ wall' = wall + 1
    /\ due' = IF due = 1 THEN TickEvery ELSE due - 1
    /\ overdue' = IF overdue >= 0 THEN overdue + 1 ELSE IF due = 1 THEN 0 ELSE -1
    /\ overran' = (overran \/ (due = 1 /\ overdue >= 0))
    /\ stalled' = IF stalled = 0 THEN 0 ELSE stalled - 1
    /\ busy' = IF stalled = 0 THEN busy ELSE busy + 1
    /\ UNCHANGED << lastTick, servedUpTo, fileVars, naps, troubles, stepped, lost >>

Trouble == troubles < MaxTroubles /\ troubles' = troubles + 1

\* The machine sleeps, in or out of a call.
Nap ==
    /\ Trouble
    /\ \E n \in NapLengths :
         /\ wall + n <= LastWall
         /\ wall' = wall + n
         /\ naps' = naps \cup {<< wall, wall + n >>}
    /\ UNCHANGED << due, overdue, lastTick, busy, stalled, servedUpTo, fileVars, overran, stepped,
                    lost >>

\* A call of the loop blocks it: a helper that accepts a request and does not answer.
Stalls ==
    /\ stalled = 0 /\ overdue = -1 /\ Trouble
    /\ stalled' \in StallLengths
    /\ UNCHANGED << wall, due, overdue, lastTick, busy, servedUpTo, fileVars, naps, overran,
                    stepped, lost >>

\* The fire whose window a tick may open: one that the machine is up for.
Held(stamp) ==
    {t \in FireTimes : /\ t > servedUpTo /\ t > lastTick /\ t <= stamp
                       /\ t > CreatedAt /\ t \notin SkippedFires
                       /\ ~\E n \in naps : n[1] < t /\ t < n[2]}

\* tick: detectSleepGap, and then the window of a fire that the machine is up for, which is
\* recorded when it closes.
DeliverTick ==
    /\ overdue >= 0 /\ stalled = 0
    /\ LET stamp == wall - overdue
           gap == sleepGap(stamp)
           slept == IF gap = 0 THEN {} ELSE recordSleptThrough(stamp - gap, stamp)
       IN  IF Held(stamp) = {}
           THEN AppendRuns(slept) /\ UNCHANGED servedUpTo
           ELSE /\ servedUpTo' = Max(Held(stamp))
                /\ AppendRuns(slept \cup {[fire |-> Max(Held(stamp)), outcome |-> "ok",
                                           entry |-> nextEntry + 1]})
    /\ lastTick' = wall - overdue /\ overdue' = -1 /\ busy' = 0
    /\ UNCHANGED << wall, due, stalled, naps, troubles, overran, stepped, lost >>

\* The wall clock is set back.
ClockStepsBack ==
    /\ Trouble /\ overdue = -1 /\ stalled = 0
    /\ \E n \in NapLengths : wall > n /\ wall' = wall - n
    /\ stepped' = TRUE
    /\ UNCHANGED << due, overdue, lastTick, busy, stalled, servedUpTo, fileVars, naps, overran,
                    lost >>

\* The daemon is killed, perhaps while it writes a line, and starts again.
Killed ==
    /\ Trouble
    /\ torn' \in {torn, TRUE}
    /\ due' = TickEvery /\ overdue' = -1
    /\ lastTick' = wall /\ busy' = 0 /\ stalled' = 0 /\ servedUpTo' = 0
    /\ lost' = TRUE
    /\ UNCHANGED << wall, lines, naps, overran, stepped, trimmed >>

SleepRecordNext ==
    AwakeMoment \/ Nap \/ Stalls \/ DeliverTick \/ ClockStepsBack \/ Killed

SleepRecordSpec == SleepRecordInit /\ [][SleepRecordNext]_sleepRecordVars

-----------------------------------------------------------------------------
SleptFires == {r.fire : r \in {s \in lines : s.outcome = "slept"}}

\* Was the machine asleep within a tick of t?
AsleepNear(t) == \E n \in naps : n[1] - TickEvery < t /\ t <= n[2] + TickEvery

\* Was t, a fire that the user waits for, well inside a sleep that was long enough to be noticed,
\* and is over? Up to two ticks after it began, and in the last tick before it ended, the time
\* that the loop was busy for can hide a fire.
SleptThrough(t) ==
    /\ t > CreatedAt /\ t \notin SkippedFires
    /\ \E n \in naps : /\ n[2] - n[1] >= GapThreshold + TickEvery /\ n[2] < lastTick
                        /\ n[1] + 2 * TickEvery <= t /\ t + TickEvery <= n[2]

\* A fire is recorded as slept through at most once, whatever the clock, the ticker and the
\* file go through; and if the loop never missed a tick, and the clock was not set, only if
\* the machine did sleep through it, and always if it slept long enough to be noticed.
MissRecordedOnce ==
    /\ \A r, s \in lines : r.outcome = "slept" /\ s.outcome = "slept" /\ s.fire = r.fire => r = s
    /\ ~overran /\ ~stepped => \A t \in SleptFires : AsleepNear(t)
    /\ ~overran /\ ~stepped /\ ~lost /\ ~trimmed =>
          \A t \in FireTimes : SleptThrough(t) => t \in SleptFires

\* What wake.go says of a stalled loop: time that the machine was awake is not sleep.
StallIsNotSleep == ~stepped => \A t \in SleptFires : AsleepNear(t)
=============================================================================
