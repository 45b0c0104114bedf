------------------------------ MODULE Calendar ------------------------------
(***************************************************************************)
(* When a schedule fires next (internal/schedule/schedule.go): a calendar  *)
(* schedule on the wall clock, with the hour that a spring skips and the   *)
(* one that an autumn repeats, and an interval counted from an anchor.     *)
(*                                                                         *)
(* Instants are integers; the wall clock of one adds the offset that the   *)
(* zone has by then.  A day has DayLength units.                           *)
(***************************************************************************)
EXTENDS Integers, FiniteSets, Sequences, FiniteSetsExt

CONSTANTS
    DayLength,
    Expressions,    \* the expressions to check, see Expression
    Zones,          \* the zones: sequences of [at, offset], by `at`, the first at 0
    ProcessStart,   \* the anchor of an interval that has none
    LastInstant     \* bounds the clock

(* What a user or another scheduler can write:                             *)
(*   [kind |-> "every", gap, anchor]    an interval; anchor 0 for none     *)
(*   [kind |-> "cron", times, days]     times of day, and day-of-week terms*)
(*                                      [lo, hi, step], with 0 .. 7 in them*)
(*   [kind |-> "reboot"], [kind |-> "other"]                               *)
ASSUME CalendarAssumption ==
    /\ DayLength \in Nat \ {0} /\ LastInstant \in Nat /\ ProcessStart \in Nat
    /\ \A e \in Expressions : e.kind = "every" => e.gap \in Nat /\ e.anchor \in Nat

(* Zones as governments make them: the clock is changed by less than a day,*)
(* and not twice within four weeks.  A fire beyond two changes is left to  *)
(* the library's plain answer, as the comment in Next says.                *)
ASSUME ZonesAssumption ==
    \A z \in Zones :
       /\ z \in Seq([at : Nat, offset : Int]) /\ z # << >> /\ z[1].at = 0
       /\ \A i \in 2 .. Len(z) : z[i].at >= DayLength
       /\ \A i, k \in 2 .. Len(z) : i < k => z[k].at - z[i].at >= 28 * DayLength
       /\ \A i, k \in DOMAIN z : z[k].offset - z[i].offset < DayLength

NoTime == -1

\* expandSundaySeven: vixie folds 7 onto Sunday.
DaysOf(term) == {d % 7 : d \in {v \in term.lo .. term.hi : (v - term.lo) % term.step = 0}}
Days(e) == UNION {DaysOf(term) : term \in e.days}

Offset(z, t) == z[Max({i \in DOMAIN z : z[i].at <= t})].offset
Wall(z, t) == t + Offset(z, t)
TimeOfDay(w) == w % DayLength

\* How far ahead a fire is looked for: a weekly one comes within two weeks, even if a change
\* of the clock skips one.
Ahead == 16 * DayLength
LastMoment == LastInstant + Ahead

Fires(e, w) == TimeOfDay(w) \in e.times /\ (w \div DayLength) % 7 \in Days(e)

Earliest(S) == IF S = {} THEN NoTime ELSE Min(S)

\* The cron library's own Next: the first instant whose wall clock the fields match, ...
InnerNext(e, z, t) == Earliest({u \in t + 1 .. t + Ahead : Fires(e, Wall(z, u))})
\* ... and the same in a zone of one offset.
FixedNext(e, off, t) == Earliest({u \in t + 1 .. t + Ahead : Fires(e, u + off)})

findTransition(z, a, b) == Earliest({u \in a + 1 .. b : Offset(z, u) # Offset(z, a)})

\* nextFromAnchor: the lattice anchor + n * gap, and never a fire before the anchor.
usableAnchor(e) == IF e.anchor = 0 THEN ProcessStart ELSE e.anchor

nextFromAnchor(e, t) ==
    LET a == usableAnchor(e)
    IN  IF a > t THEN a ELSE a + ((t - a) \div e.gap + 1) * e.gap

\* A fire that the jump forward skips: the fixed offset from before it still shows it.
InSkippedHour(e, z, t, n) ==
    LET o1 == Offset(z, t)
        o2 == Offset(z, n)
        skipped == FixedNext(e, o1, t)
        tr == findTransition(z, t, n)
    IN  o2 > o1 /\ skipped # NoTime /\ skipped >= tr /\ skipped < tr + (o2 - o1)

\* Mutant: a fire at the very instant asked from is not taken for the first pass of its repeat.
IsRepeat_After(z, t, n) ==
    LET o1 == Offset(z, t)
        o2 == Offset(z, n)
        twin == n - (o1 - o2)
    IN  o2 < o1 /\ twin < t /\ TimeOfDay(Wall(z, twin)) = TimeOfDay(Wall(z, n))

\* A fire that the fall back repeats: its twin was before whoever asks.
IsRepeat(z, t, n) ==
    LET o1 == Offset(z, t)
        o2 == Offset(z, n)
        twin == n - (o1 - o2)
    IN  o2 < o1 /\ twin <= t /\ TimeOfDay(Wall(z, twin)) = TimeOfDay(Wall(z, n))

\* Next, of a calendar: a skipped fire runs right after the jump, a repeated one is passed over.
CalendarNext(e, z) ==
    LET next[t \in Nat] ==
        LET n == InnerNext(e, z, t)
        IN  IF n = NoTime THEN NoTime
            ELSE IF InSkippedHour(e, z, t, n) THEN findTransition(z, t, n)
            ELSE IF IsRepeat(z, t, n) THEN next[n]
            ELSE n
    IN  next

Next_(e, z, t) == IF e.kind = "every" THEN nextFromAnchor(e, t) ELSE CalendarNext(e, z)[t]

\* ParseAt: is the expression one that can be scheduled? One that never occurs is refused.
Parses(e, z) ==
    \/ e.kind = "every" /\ e.gap >= 1
    \/ e.kind = "cron" /\ Next_(e, z, 0) # NoTime

-----------------------------------------------------------------------------
VARIABLES
    expr, zone,
    clock,          \* the instant the daemon's tick asks at
    answer          \* what Next answers it

calendarVars == << expr, zone, clock, answer >>

CalendarInit ==
    /\ expr \in Expressions /\ zone \in Zones
    /\ Parses(expr, zone)
    /\ clock = 0
    /\ answer = Next_(expr, zone, 0)

\* The schedule is parsed and asked afresh at every tick.
ClockTick ==
    /\ clock < LastInstant
    /\ clock' = clock + 1
    /\ answer' = Next_(expr, zone, clock + 1)
    /\ UNCHANGED << expr, zone >>

CalendarSpec == CalendarInit /\ [][ClockTick]_calendarVars

-----------------------------------------------------------------------------
\* The wall clock shows w at u, or jumps over it.
Shows(u, w) == Wall(zone, u) = w \/ (Wall(zone, u - 1) < w /\ w < Wall(zone, u))

\* The fires vixie cron promises: each time of each day once, at the first instant the wall
\* clock shows it, or right at the jump if it never does; an interval's from its anchor on.
Promised ==
    IF expr.kind = "every"
    THEN {usableAnchor(expr) + n * expr.gap : n \in 0 .. clock + 1}
    ELSE LET around == Wall(zone, clock) - DayLength .. Wall(zone, clock) + Ahead + DayLength
         IN  {Min({u \in 1 .. clock + Ahead + DayLength : Shows(u, w)} \cup {LastMoment}) :
                 w \in {x \in around : Fires(expr, x)}}

\* Are the times further apart than the zone ever jumps? Others fire by the hour, and what
\* cron makes of those in a changing hour is not what is promised above.
Sparse ==
    expr.kind = "cron" =>
        \A i \in 2 .. Len(zone) :
           LET jump == zone[i].offset - zone[i - 1].offset
           IN  \A a, b \in expr.times :
                  a # b => (b - a) % DayLength > jump /\ (b - a) % DayLength > -jump

\* The stretch of time whose wall clock has been shown before.
Repeating(t) == \E u \in Max({0, t - DayLength}) .. t - 1 : Wall(zone, u) >= Wall(zone, t)

\* The next fire is the least promised one after the tick's instant, in every zone, on both
\* sides of a change of the clock (but not in the hour that is repeated).
FireAsPromised ==
    Sparse /\ ~Repeating(clock) => answer = Min({u \in Promised : u > clock})
=============================================================================
