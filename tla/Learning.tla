----------------------------- MODULE Learning ------------------------------
(***************************************************************************)
(* What a job's ceiling is learned from (internal/estimate/estimate.go):   *)
(* the windows of one job, each closed by the job, by the ceiling or by a  *)
(* cutout, each leaving a run that the next ceiling is computed from.      *)
(*                                                                         *)
(* A job is watched (its process, or its scheduler's records, show when it *)
(* ends) or not, and can be removed and registered again with the other    *)
(* detection; the history stays.                                           *)
(***************************************************************************)
EXTENDS Integers, FiniteSets, Sequences, SequencesExt

CONSTANTS
    Limits,         \* the settings that matter here, under Settings' names
    Runtimes,       \* how long the job can really take
    MaxRuntimes,    \* the values of --max-runtime, 0 for none
    MaxRuns         \* bounds how many windows there are

\* The settings are in the ranges that Config.Normalize leaves them in.
ASSUME LimitsAssumption ==
    /\ \A k \in {"default_ceiling", "wake_only_hold", "min_ceiling", "max_ceiling"} :
          Limits[k] \in Nat
    /\ Limits.min_runs_for_estimate \in Nat \ {0}
    /\ Limits.ceiling_multiplier \in Nat /\ Limits.ceiling_multiplier >= 100

ASSUME RuntimesAssumption == Runtimes \subseteq Nat \ {0} /\ MaxRuntimes \subseteq Nat

VARIABLES job, runs

learningVars == << job, runs >>

Modes == {"pattern", "none"}

\* Job.Detection, Job.MaxRuntime, and whether its scheduler keeps records that show the
\* runs of a job whose detection is "none".
Job == [detection : Modes, maxRuntime : MaxRuntimes, recorded : BOOLEAN]

Observable(j) == j.detection # "none"

TrainsEstimator(r) == r.outcome \in {"ok", "failed"}

\* A history is a function on the places of its runs, the oldest first: what is left out of
\* it leaves the others at their places.
Size(h) == Cardinality(DOMAIN h)

completedDurations(h) ==
    [i \in {k \in DOMAIN h : TrainsEstimator(h[k]) /\ h[k].duration > 0} |-> h[i].duration]

AtMost(d, v) == {i \in DOMAIN d : d[i] <= v}

Below(d, v) == {i \in DOMAIN d : d[i] < v}

\* The n-th of the durations, when they are sorted.
Sorted(d, n) ==
    CHOOSE v \in Range(d) : Cardinality(Below(d, v)) < n /\ n <= Cardinality(AtMost(d, v))

\* Mutant: the rank is rounded down.
percentile_Floored(d, p) ==
    IF DOMAIN d = {} THEN 0
    ELSE LET rank == (p * Size(d)) \div 100
         IN  Sorted(d, IF rank < 1 THEN 1 ELSE rank)

\* Nearest rank: the smallest duration that at least p percent of them do not exceed.
percentile(d, p) ==
    IF DOMAIN d = {} THEN 0
    ELSE LET rank == (p * Size(d) + 99) \div 100
         IN  Sorted(d, IF rank < 1 THEN 1 ELSE IF rank > Size(d) THEN Size(d) ELSE rank)

medianOf(d) ==
    IF DOMAIN d = {} THEN 0
    ELSE LET mid == (Size(d) \div 2) + 1
         IN  IF Size(d) % 2 = 1 THEN Sorted(d, mid)
             ELSE (Sorted(d, mid - 1) + Sorted(d, mid)) \div 2

clamp(v, lo, hi) == IF v < lo THEN lo ELSE IF v > hi THEN hi ELSE v

\* The last n of them.
Recent(d, n) == Restrict(d, {i \in DOMAIN d : Cardinality({k \in DOMAIN d : k > i}) < n})

hasUsableHistory(h) == Size(completedDurations(h)) >= Limits.min_runs_for_estimate

\* The history a job learns from: one that cannot be observed learns only from runs
\* recorded under its own detection.
OwnHistory(j, h) ==
    IF Observable(j) THEN h
    ELSE Restrict(h, {i \in DOMAIN h : h[i].detection = j.detection})

Compute(j, h) ==
    LET own == OwnHistory(j, h)
        all == completedDurations(own)
        durs == Recent(all, Limits.history_window)
        learned == (percentile(durs, 95) * Limits.ceiling_multiplier) \div 100
    IN  CASE ~Observable(j) /\ ~hasUsableHistory(own) ->
                [ceiling |-> IF j.maxRuntime > 0 THEN j.maxRuntime ELSE Limits.wake_only_hold,
                 typical |-> 0, p95 |-> 0, samples |-> 0, coldStart |-> FALSE]
          [] (Observable(j) \/ hasUsableHistory(own)) /\ j.maxRuntime > 0 ->
                [ceiling |-> j.maxRuntime, typical |-> medianOf(all),
                 p95 |-> percentile(all, 95), samples |-> Size(own), coldStart |-> FALSE]
          [] OTHER ->
                [typical |-> medianOf(durs), p95 |-> percentile(durs, 95),
                 samples |-> Size(durs),
                 coldStart |-> Size(durs) < Limits.min_runs_for_estimate,
                 ceiling |-> IF Size(durs) < Limits.min_runs_for_estimate
                             THEN Limits.default_ceiling
                             ELSE clamp(learned, Limits.min_ceiling, Limits.max_ceiling)]

\* Summarize, whose counts `list` and the menu bar show.
Summarize(j, h) ==
    LET Count(o) == Cardinality({i \in DOMAIN h : h[i].outcome = o})
        est == Compute(j, h)
    IN  [runs |-> Size(h), typical |-> est.typical, p95 |-> est.p95, ceiling |-> est.ceiling,
         coldStart |-> est.coldStart, failures |-> Count("failed"),
         ceilingHits |-> Count("ceiling"), neverSeen |-> Count("never_detected"),
         slept |-> Count("slept")]

-----------------------------------------------------------------------------
LearningInit ==
    /\ job \in Job
    /\ runs = << >>

Max2(a, b) == IF a > b THEN a ELSE b

Remember(outcome, duration) ==
    /\ Len(runs) < MaxRuns
    /\ runs' = Append(runs, [detection |-> job.detection, outcome |-> outcome,
                             duration |-> duration])
    /\ UNCHANGED job

\* A window whose job was seen: enforceCeilings holds on past the ceiling, unless it is an
\* explicit one, up to MaxCeiling.
SeenRun ==
    \E d \in Runtimes :
       LET ceiling == Compute(job, runs).ceiling
           limit == IF job.maxRuntime > 0 THEN ceiling ELSE Max2(ceiling, Limits.max_ceiling)
       IN  /\ Observable(job) \/ job.recorded
           /\ IF d > limit THEN Remember("ceiling", limit)
              ELSE \E o \in {"ok", "failed"} : Remember(o, d)

\* The valve opens while the job, which has run for less than it needs, is still running.
CutShort == \E d \in Runtimes : (Observable(job) \/ job.recorded) /\ Remember("cutout", d - 1)

\* A window without a run to learn from: one that served its time, one whose pattern never
\* matched, one that the machine slept through.
UnseenRun ==
    \/ Remember(IF Observable(job) THEN "never_detected" ELSE "ok", 0)
    \/ Remember("slept", 0)

\* The user changes the job, or removes it and registers another under its name.
Reregister ==
    /\ \E j \in Job : j.recorded = job.recorded /\ job' = j
    /\ UNCHANGED runs

LearningNext == SeenRun \/ CutShort \/ UnseenRun \/ Reregister

LearningSpec == LearningInit /\ [][LearningNext]_learningVars

-----------------------------------------------------------------------------
\* A run that was cut short, or that nobody saw, changes no ceiling: a hung job cannot
\* ratchet its own ceiling up to the cap, and a cutout cannot pull it down.
HungRunTeachesNothing ==
    [][runs' # runs /\ Last(runs').outcome \notin {"ok", "failed"}
          => Compute(job, runs').ceiling = Compute(job, runs).ceiling]_learningVars

\* A ceiling that was learned does not cut off a run like those it was learned from: of the
\* last completed runs at most one in twenty took longer, unless the cap forbids it; and
\* a job that cannot be observed never inherits one from runs that were.
CeilingCoversRuns ==
    runs # << >> =>
    LET durs == Recent(completedDurations(runs), Limits.history_window)
        longer == {i \in DOMAIN durs : durs[i] > Compute(job, runs).ceiling}
        foreign == \A i \in DOMAIN runs : runs[i].detection # job.detection
    IN  /\ Observable(job) /\ job.maxRuntime = 0 /\ ~Compute(job, runs).coldStart
              => \/ 20 * Cardinality(longer) <= Size(durs)
                 \/ Compute(job, runs).ceiling = Limits.max_ceiling
        /\ ~Observable(job) /\ foreign /\ job.maxRuntime = 0
              => Compute(job, runs).ceiling = Limits.wake_only_hold
        /\ Summarize(job, runs).typical <= Summarize(job, runs).p95
=============================================================================
