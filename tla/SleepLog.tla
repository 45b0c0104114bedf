------------------------------ MODULE SleepLog ------------------------------
(***************************************************************************)
(* How often a schedule was slept through (internal/power/sleeplog_linux.go*)
(* and sleeplog_darwin.go, internal/schedule/missrisk.go): the system's    *)
(* log of sleeps, with its duplicates, its short wakes and its lost ends,  *)
(* the intervals read back from it, and the fires that fell into them.     *)
(***************************************************************************)
EXTENDS Integers, FiniteSets, FiniteSetsExt

CONSTANTS
    DarkWakeGap,    \* how long a wake between two sleeps still counts as sleep
    Lookback,       \* how far back the log is read
    FirePeriod,     \* the schedule: a fire at each multiple of it
    FireCap,        \* how many fires pastFires keeps
    minFiresForConfidence,
    LastSecond      \* bounds the clock

ASSUME SleepLogAssumption ==
    /\ DarkWakeGap \in Nat /\ Lookback \in Nat /\ FirePeriod \in Nat \ {0}
    /\ FireCap \in Nat /\ minFiresForConfidence \in Nat \ {0} /\ LastSecond \in Nat

VARIABLES
    second,         \* the clock
    machine,        \* "awake", "asleep", or "off", after a battery that died in sleep
    journal,        \* Linux: the events [at, resume, source], of the kernel and of systemd
    pmsetLog,       \* macOS: the lines [at, sleep, wake], wake 0 for a duration not written
    down,           \* history: the seconds the machine was not awake
    dangling        \* history: when the sleeps began that ended in a power failure

sleepLogVars == << second, machine, journal, pmsetLog, down, dangling >>

OpenEnded == 0   \* a SleepInterval's zero Wake

-----------------------------------------------------------------------------
(* Reading the log. Intervals are sets: the code sorts them, by when they  *)
(* begin, before it goes through them.                                     *)

\* buildSleepIntervals: a suspend while one is open, and a resume while none is, are
\* duplicates. The next resume closes what is open; what none closes is dropped. (No suspend
\* has the second of a resume.)
buildSleepIntervals(events) ==
    LET resumes == {ev.at : ev \in {e \in events : e.resume}}
        suspends == {ev.at : ev \in {e \in events : ~e.resume}}
        opening == {s \in suspends : \A u \in suspends :
                                        u < s => \E r \in resumes : u < r /\ r < s}
    IN  {[sleep |-> s, wake |-> Min({r \in resumes : r > s})] :
            s \in {o \in opening : \E r \in resumes : r > o}}

\* The pmset log: a sleep with no duration ends, at the latest, at the next line, and one
\* that straddles the cutoff is cut there.
readPmsetLog(entries, from, until) ==
    LET later(l) == {m.at : m \in {e \in entries : e.at > l.at}}
        ended(l) == IF l.wake # OpenEnded THEN l.wake
                    ELSE IF later(l) # {} THEN Min(later(l)) ELSE until
        kept == {l \in entries : l.sleep /\ (l.at >= from \/ l.wake > from)}
    IN  {[sleep |-> Max({l.at, from}), wake |-> ended(l)] : l \in kept}

\* MergeIntervals (gap 0) and CoalesceShortGaps: intervals that overlap, or whose gap is
\* short, become one. An interval begins one if all that begin before it are over by more
\* than the gap; an open one swallows what follows.
Joined(intervals, gap) ==
    LET over(iv, t) == iv.wake # OpenEnded /\ t - iv.wake > gap
        begins == {t \in {iv.sleep : iv \in intervals} :
                      \A iv \in intervals : iv.sleep < t => over(iv, t)}
        wakes(b) == {iv.wake : iv \in {i \in intervals :
                       i.sleep >= b /\ \A c \in begins : c > b => i.sleep < c}}
    IN  {[sleep |-> b, wake |-> IF OpenEnded \in wakes(b) THEN OpenEnded ELSE Max(wakes(b))] :
            b \in begins}

\* Mutant: the dark wakes of a long sleep are taken for time awake.
History_NoCoalescing(intervals) == Joined(intervals, 0)

History(intervals) == Joined(Joined(intervals, 0), DarkWakeGap)

Covers(iv, t) == t >= iv.sleep /\ (iv.wake = OpenEnded \/ t < iv.wake)
AsleepAt(h, t) == \E iv \in h : Covers(iv, t)

-----------------------------------------------------------------------------
(* The risk. *)

\* pastFires: the most recent of the fires after start and before now.
pastFires(start, until) ==
    LET fires == {t \in start + 1 .. until - 1 : t % FirePeriod = 0}
    IN  {t \in fires : Cardinality({u \in fires : u > t}) < FireCap}

EstimateMissRisk(h, since, until) ==
    LET start == Max({until - Lookback, since})
        fires == IF h = {} \/ start >= until THEN {} ELSE pastFires(start, until)
    IN  [fires |-> Cardinality(fires),
         missed |-> Cardinality({t \in fires : AsleepAt(h, t)}),
         confident |-> Cardinality(fires) >= minFiresForConfidence]

Level(risk) ==
    IF ~risk.confident THEN "unknown"
    ELSE IF risk.missed = 0 THEN "none"
    ELSE IF 2 * risk.missed < risk.fires THEN "some" ELSE "high"

cutoff == Max({1, second - Lookback})

\* The journal is asked for what is not older than the cutoff, and the first of its lines,
\* some of which is written whenever the machine is awake, says how far back it reaches.
LinuxHistory ==
    LET read == {ev \in journal : ev.at >= cutoff}
    IN  History({iv \in buildSleepIntervals(read) : iv.sleep >= cutoff})
LinuxSince == Min({t \in cutoff .. second : t \notin down \/ \E ev \in journal : ev.at = t})

DarwinHistory == History(readPmsetLog(pmsetLog, cutoff, second))

-----------------------------------------------------------------------------
SleepLogInit ==
    /\ second = 1 /\ machine = "awake"
    /\ journal = {} /\ pmsetLog = {} /\ down = {} /\ dangling = {}

Pass(state) ==
    /\ second < LastSecond
    /\ second' = second + 1
    /\ machine' = state
    /\ down' = IF state = "awake" THEN down ELSE down \cup {second + 1}

\* Both sources note an edge, or the kernel alone does.
Notes(resume) ==
    \E sources \in {{"kernel"}, {"kernel", "unit"}} :
       journal' = journal \cup {[at |-> second + 1, resume |-> resume, source |-> s] :
                                   s \in sources}

\* Or systemd's line has the second after the kernel's.
NotesLate(resume) ==
    \/ UNCHANGED journal
    \/ /\ [at |-> second, resume |-> resume, source |-> "kernel"] \in journal
       /\ journal' = journal \cup {[at |-> second + 1, resume |-> resume, source |-> "unit"]}

Latest(l) == l \in pmsetLog /\ \A m \in pmsetLog : m.at <= l.at

Awake ==
    /\ machine = "awake" /\ Pass("awake") /\ NotesLate(TRUE)
    /\ UNCHANGED << pmsetLog, dangling >>

Suspend ==
    /\ machine = "awake" /\ Pass("asleep") /\ Notes(FALSE)
    /\ pmsetLog' = pmsetLog \cup {[at |-> second + 1, sleep |-> TRUE, wake |-> OpenEnded]}
    /\ UNCHANGED dangling

Asleep ==
    /\ machine = "asleep" /\ Pass("asleep") /\ NotesLate(FALSE)
    /\ UNCHANGED << pmsetLog, dangling >>

\* A wake, the user's or one of the system's own that lasts a moment.
Waking ==
    /\ machine = "asleep" /\ Pass("awake") /\ Notes(TRUE)
    /\ \E l \in pmsetLog : /\ Latest(l)
                           /\ pmsetLog' = (pmsetLog \ {l}) \cup {[l EXCEPT !.wake = second + 1]}
    /\ UNCHANGED dangling

\* The battery dies, and neither log says when the sleep ended.
PowerFails ==
    /\ machine \in {"asleep", "off"} /\ Pass("off")
    /\ \E l \in pmsetLog : Latest(l) /\ dangling' = dangling \cup {l.at}
    /\ UNCHANGED << journal, pmsetLog >>

Boot ==
    /\ machine = "off" /\ Pass("awake")
    /\ pmsetLog' = pmsetLog \cup {[at |-> second + 1, sleep |-> FALSE, wake |-> OpenEnded]}
    /\ UNCHANGED << journal, dangling >>

SleepLogNext == Awake \/ Suspend \/ Asleep \/ Waking \/ PowerFails \/ Boot

SleepLogSpec == SleepLogInit /\ [][SleepLogNext]_sleepLogVars

-----------------------------------------------------------------------------
\* Was a fire at t lost: was the machine down, or up only for a moment between two sleeps,
\* the first of which the record, which begins at since, knows of?
Lost(t, since) ==
    \/ t \in down
    \/ \E a, b \in down : /\ since <= a /\ a < t /\ t < b /\ b - a <= DarkWakeGap + 1
                            /\ ((a + 1) .. (b - 1)) \cap down = {}

Honest(h, since) ==
    LET start == Max({second - Lookback, since})
        risk == EstimateMissRisk(h, since, second)
    IN  /\ h # {} /\ start < second =>
              risk.missed = Cardinality({t \in pastFires(start, second) : Lost(t, since)})
        /\ Level(risk) \in {"none", "some"} => 2 * risk.missed < risk.fires

\* What is reported as slept through is what was: no fire the machine was up for is counted,
\* none that it was not up for is left out, whatever the log duplicates. With power failures
\* it holds on macOS for sleeps that began inside the window; on Linux the lost suspend is
\* closed by the resume of the next sleep, and the days between count as sleep.
RiskCountsMisses ==
    machine = "awake" =>
        /\ dangling = {} => Honest(LinuxHistory, LinuxSince)
        /\ (\A d \in dangling : d >= cutoff) => Honest(DarwinHistory, cutoff)
=============================================================================
