------------------------------- MODULE Valve -------------------------------
(***************************************************************************)
(* The two safety valves (internal/daemon/cutout.go, drain.go): whether a  *)
(* reading of the machine cuts every hold off, when the latch that follows *)
(* gives way, and whether there is charge enough to wake for a job, judged *)
(* from what the job's runs have been measured to cost.                    *)
(*                                                                         *)
(* A tick's reading may have failed, and holds are opened by requests that *)
(* do not look at the latch.  The job's nights are modelled whole: a wake  *)
(* is booked or refused, the machine wakes, the job runs on battery and    *)
(* its cost is recorded.                                                   *)
(***************************************************************************)
EXTENDS Integers, FiniteSets, Sequences, SequencesExt

CONSTANTS
    Thresholds,     \* the settings that matter here, under Settings' names
    Temps,          \* what the sensor may read, besides nothing
    Levels,         \* what the battery may read
    Costs,          \* what a run may cost, in percent
    DrainWindow,    \* drainSamplesConsidered
    MaxNights       \* bounds how many runs are recorded

\* What Normalize makes of these settings, a whole percentage, and what a run may use of it.
ASSUME ThresholdsAssumption ==
    /\ Thresholds.thermal_cutout_c \in Int /\ Thresholds.low_battery_cutout_pct \in Int
    /\ Thresholds.cutout_rearm_margin_c \in Nat \ {0}
    /\ Thresholds.cutout_rearm_margin_pct \in Nat \ {0}
ASSUME ReadingsAssumption ==
    Temps \subseteq Int /\ Levels \subseteq 0..100 /\ Costs \subseteq Nat /\ DrainWindow \in Nat

VARIABLES
    reading,        \* power.State, as the tick has read it
    latch,          \* CutoutLatch.active: the k of the cutout, or "none"
    holding,        \* is any hold open
    cut,            \* did the last tick fire the valve
    night,          \* the job's run in progress, or the wake that is booked for it
    costs,          \* the job's runs: [start, end], -1 for a level that was not read
    fired,          \* history: what the valve last fired for, and what it read of it
    eased           \* history: has a reading since then shown that to be over

valveVars == << reading, latch, holding, cut, night, costs, fired, eased >>

NoReading == 0      \* TempC = nil
Unknown == -1       \* BatteryPct, for no battery or one that could not be read
minDrainSamples == 2
minWakeMarginPct == 1

Readings ==
    [lidClosed : BOOLEAN, temp : Temps \cup {NoReading}, warn : BOOLEAN,
     onAC : BOOLEAN, pct : Levels \cup {Unknown}]

\* A failed ReadState leaves the zero value, but for the level.
FailedReading ==
    [lidClosed |-> FALSE, temp |-> NoReading, warn |-> FALSE, onAC |-> FALSE, pct |-> Unknown]

\* The hazard that a reading shows, or "none".
Hazard(st) ==
    CASE ~st.lidClosed -> "none"
      [] st.lidClosed /\ (st.warn \/ (st.temp # NoReading
                                      /\ st.temp >= Thresholds.thermal_cutout_c)) -> "thermal"
      [] OTHER -> IF ~st.onAC /\ st.pct >= 0 /\ st.pct <= Thresholds.low_battery_cutout_pct
                  THEN "low_battery" ELSE "none"

\* Mutant: the latch gives way at the limit itself.
Recovered_AtLimit(k, st) ==
    \/ ~st.lidClosed
    \/ k = "thermal" /\ ~st.warn /\ (st.temp = NoReading \/
                                           st.temp <= Thresholds.thermal_cutout_c)
    \/ k = "low_battery" /\ (st.onAC \/ st.pct >= Thresholds.low_battery_cutout_pct)

\* CutoutLatch.Update: has the hazard receded, by its margin?
Recovered(k, st) ==
    \/ ~st.lidClosed
    \/ /\ k = "thermal" /\ ~st.warn
       /\ st.temp = NoReading
          \/ st.temp <= Thresholds.thermal_cutout_c - Thresholds.cutout_rearm_margin_c
    \/ /\ k = "low_battery"
       /\ st.onAC
          \/ st.pct >= Thresholds.low_battery_cutout_pct + Thresholds.cutout_rearm_margin_pct

\* What the job has been seen to cost: the worst of the recent runs that were measured on
\* battery and did not charge, if there were enough of them.
expectedDrainPct ==
    LET recent == IF Len(costs) > DrainWindow
                  THEN SubSeq(costs, Len(costs) - DrainWindow + 1, Len(costs)) ELSE costs
        measured == {i \in DOMAIN recent : /\ recent[i].start >= 0 /\ recent[i].end >= 0
                                           /\ recent[i].start >= recent[i].end}
        used(i) == recent[i].start - recent[i].end
    IN  IF Cardinality(measured) < minDrainSamples THEN -1
        ELSE used(CHOOSE i \in measured : \A j \in measured : used(j) <= used(i))

\* Mutant: the floor is the limit itself, whatever the job costs.
wakeFloor_Flat(drain) == Thresholds.low_battery_cutout_pct + minWakeMarginPct

wakeFloor(drain) ==
    Thresholds.low_battery_cutout_pct
        + IF drain > minWakeMarginPct THEN drain ELSE minWakeMarginPct

ShouldScheduleWake(st, drain) == st.onAC \/ st.pct < 0 \/ st.pct > wakeFloor(drain)

-----------------------------------------------------------------------------
NoNight == [pc |-> "none", start |-> Unknown, cost |-> 0, expected |-> -1]

ValveInit ==
    /\ reading \in Readings
    /\ latch = "none" /\ holding = FALSE /\ cut = FALSE
    /\ night = NoNight
    /\ costs = << >>
    /\ fired = [k |-> "none", at |-> NoReading] /\ eased = TRUE

\* Is what the valve fired for over, as far as a reading shows? Not when it is a little better
\* than it was: a temperature or a level that differs by the margin, a warning that is gone,
\* power, or an open lid. A reading that failed looks like an open lid, and a temperature that
\* could not be read is as good as a low one.
Eases(f, st) ==
    \/ ~st.lidClosed
    \/ /\ f.k = "thermal" /\ ~st.warn
       /\ \/ st.temp = NoReading \/ f.at < Thresholds.thermal_cutout_c
          \/ st.temp <= f.at - Thresholds.cutout_rearm_margin_c
    \/ /\ f.k = "low_battery"
       /\ st.onAC \/ st.pct >= f.at + Thresholds.cutout_rearm_margin_pct

Measure(st) == IF Hazard(st) = "thermal" THEN st.temp ELSE st.pct

\* Mutant: an engaged latch does not keep the valve from firing.
CutFires_Unlatched(st, still) == holding /\ Hazard(st) # "none"

CutFires(st, still) == holding /\ ~still /\ Hazard(st) # "none"

\* evaluateCutouts on a reading: a latch gives way first, and one that is still engaged
\* keeps the valve from firing again. Then openDueWindows may open a window, unless a
\* cutout is latched; a job's own window stays open while it runs.
EvaluateCutouts(st) ==
    LET still == latch # "none" /\ ~Recovered(latch, st)
        fires == CutFires(st, still)
    IN  /\ reading' = st
        /\ latch' = IF fires THEN Hazard(st) ELSE IF still THEN latch ELSE "none"
        /\ cut' = fires
        /\ fired' = IF fires THEN [k |-> Hazard(st), at |-> Measure(st)] ELSE fired
        /\ eased' = (~fires /\ (eased \/ Eases(fired, st)))
        /\ \/ holding' = (holding /\ ~fires)
           \/ holding' = TRUE /\ latch' = "none"

\* A tick on any reading, or on none. One that failed looks like an open lid. The behaviour
\* ends with the last run that MaxNights allows.
Tick ==
    /\ night = NoNight /\ Len(costs) < MaxNights
    /\ \E st \in Readings \cup {FailedReading} : EvaluateCutouts(st)
    /\ UNCHANGED << night, costs >>

\* A request opens a hold, or ends the last one. A keep-awake or an agent session has looked
\* at the latch before it took its assertion, and a job's start does not look at all, so the
\* latch may be engaged.
HandlerHold ==
    /\ night = NoNight /\ Len(costs) < MaxNights
    /\ holding' = ~holding
    /\ UNCHANGED << reading, latch, cut, night, costs, fired, eased >>

\* scheduleNextWake books the wake, on battery and with the lid about to be closed, and the
\* machine goes to sleep. The cost of the run to come is anyone's guess.
BookWake ==
    /\ night = NoNight /\ latch = "none" /\ ~holding /\ Len(costs) < MaxNights
    /\ ~reading.onAC /\ reading.pct >= 0
    /\ ShouldScheduleWake(reading, expectedDrainPct)
    /\ \E c \in Costs :
         /\ reading.pct - c >= 0
         /\ night' = [pc |-> "booked", start |-> reading.pct, cost |-> c,
                      expected |-> expectedDrainPct]
    /\ UNCHANGED << reading, latch, holding, cut, costs, fired, eased >>

\* It wakes, having lost next to nothing, and the job's window opens.
WakeUp ==
    /\ night.pc = "booked"
    /\ night' = [night EXCEPT !.pc = "running"]
    /\ holding' = TRUE
    /\ UNCHANGED << reading, latch, cut, costs, fired, eased >>

\* The ticks of the run, each a point lower than the one before, down to what it costs.
RunTick ==
    /\ night.pc = "running" /\ holding
    /\ reading.pct > night.start - night.cost
    /\ EvaluateCutouts([reading EXCEPT !.lidClosed = TRUE, !.temp = NoReading, !.warn = FALSE,
                                       !.pct = reading.pct - 1])
    /\ UNCHANGED << night, costs >>

\* The run ends, by itself or by the valve, and AppendRun records both levels.
NightEnds ==
    /\ night.pc = "running"
    /\ cut \/ reading.pct = night.start - night.cost
    /\ \/ costs' = Append(costs, [start |-> night.start, end |-> reading.pct])
       \/ costs' = Append(costs, [start |-> Unknown, end |-> reading.pct])
    /\ night' = NoNight
    /\ holding' = FALSE
    /\ UNCHANGED << reading, latch, cut, fired, eased >>

ValveNext == Tick \/ HandlerHold \/ BookWake \/ WakeUp \/ RunTick \/ NightEnds

ValveSpec == ValveInit /\ [][ValveNext]_valveVars

-----------------------------------------------------------------------------
\* The valve does not fire, and fire again, over one and the same hazard, whatever holds are
\* opened in between and however the readings waver: since it last fired, for this hazard or
\* the other, some reading has shown what it fired for to be over (CutoutLatch; what counts as
\* over, and that a failed or a missing reading does, is Eases).
NoFlapping ==
    [][latch' \notin {"none", latch} => eased \/ Eases(fired, reading')]_valveVars

\* A wake is never booked for a run that the valve then cuts short, if the run costs no more
\* than such runs have been seen to cost (or a point, when nothing is known).
WakeIsWorthIt ==
    night.pc = "running" /\ (night.cost <= night.expected \/ night.cost <= minWakeMarginPct)
        => ~cut
=============================================================================
