-------------------------- MODULE HoldClockProofs --------------------------
(***************************************************************************)
(* Theorems about HoldClock, for any lengths of leases, windows, graces    *)
(* and stalls, any distance between two fires and any horizon.             *)
(*                                                                         *)
(* Each limit of a hold is proved from the instant at which the loop would *)
(* close it and from how far the loop is behind (Lag): a unit and the      *)
(* units it has been stalled, until the pass that looks is through.        *)
(*                                                                         *)
(* What the records tell is proved for fires that are FarApart: nearer     *)
(* ones let a run begin while the window of the fire before is open, and   *)
(* the code then takes its completion for that fire's.                     *)
(***************************************************************************)
EXTENDS HoldClock, TLAPS

\* The steps of a pass up to the one that closes what has expired.

Pass == {"open", "detect", "observe", "watch", "ceilings"}
Pcs == Pass \cup {"sleepback", "sleep", "idle"}

\* How many units may have gone by since the loop last looked at every hold.
Lag == IF loop \in Pass THEN 1 + stall ELSE 0

RunHold == [open : {TRUE}, fireAt : Nat, openedAt : Nat, ceiling : Nat, detected : {FALSE}]
Window == [open : {TRUE}, fireAt : Nat, openedAt : Nat, ceiling : Nat, detectDeadline : Nat,
           detected : BOOLEAN, startedAt : Nat, woke : BOOLEAN]
Command == [alive : BOOLEAN, asked : BOOLEAN, began : Nat, reported : Nat, tick : Nat,
            missed : 0..2]
Watch == [open : {TRUE}, opened : Nat, fired : Nat, closed : Nat]

\* The types.  A hold is empty, a command's, or a window.
HoldType == \/ hold = NoHold
            \/ kind \in Wrapped /\ hold \in RunHold
            \/ kind \in Windowed /\ hold \in Window
JobType == /\ exec \in [running : BOOLEAN, fire : Nat, began : Nat]
           /\ rec \in [running : BOOLEAN, startedAt : Nat, completedAt : Nat]
           /\ late = NoHold \/ late \in Watch
TypeOK ==
    /\ kind \in Windowed \cup Wrapped
    /\ now \in Nat \ {0} /\ loop \in Pcs /\ stall \in 0..MaxStall
    /\ HoldType /\ served \in Nat /\ cmd \in Command /\ JobType
    /\ other \in BOOLEAN
    /\ sleepBack \in [at : Nat, decided : BOOLEAN, crossed : BOOLEAN]

\* Commands and jobs belong to their kinds of hold, and a hold is soon opened.
ActorsInv ==
    /\ cmd.alive => kind \in Wrapped
    /\ cmd.asked => kind \in Wrapped /\ ~hold.open /\ now <= cmd.reported + MaxStart
    /\ exec.running => kind \in Windowed
    /\ \A w \in closed : w.at \in Nat

\* A command that reports keeps the hold it opened, and its lease runs from its last report:
\* after it the next renewal is due within a period and the delay of the ticker's start, and
\* the one after that a period later.
CommandInv ==
    kind = "run" /\ cmd.alive =>
        /\ cmd.asked => cmd.reported = cmd.began /\ cmd.missed = 0
        /\ ~cmd.asked /\ cmd.missed <= 1 =>
              /\ cmd.tick <= cmd.reported + MaxStart + RenewEvery
                                + (IF cmd.missed = 0 THEN 0 ELSE RenewEvery)
              /\ now <= cmd.tick + MaxDelay
        /\ hold.open => /\ hold.openedAt = cmd.began /\ hold.ceiling = Lease
                        /\ hold.fireAt = Sooner(cmd.reported, cmd.began + MaxRun)
        /\ ~cmd.asked /\ cmd.missed <= 1 /\ now <= cmd.began + MaxRun + Lease => hold.open

\* A lease is not outlived by more than the loop's lag.
LeaseInv ==
    kind \in Wrapped /\ hold.open =>
        /\ hold.fireAt <= cmd.reported /\ hold.fireAt <= hold.openedAt + MaxRun
        /\ hold.ceiling <= LongLease
        /\ now <= cmd.reported + hold.ceiling + Lag
        /\ now <= hold.openedAt + MaxRun + LongLease + Lag

\* A window's estimate or explicit maximum; the longest that a job that was seen is held;
\* and the last instant at which a window is still to be open.
WindowLength == IF MaxRuntime > 0 THEN MaxRuntime ELSE Ceiling
Longest == IF MaxRuntime > 0 THEN MaxRuntime ELSE Later(Ceiling, MaxCeiling)
Limit(h) ==
    IF h.detected THEN Later(h.openedAt, Later(h.startedAt, h.fireAt) + Longest)
    ELSE IF kind = "pattern" THEN h.detectDeadline
    ELSE Later(h.openedAt, h.fireAt + h.ceiling)

\* Nor is a window's.
WindowInv ==
    kind \in Windowed /\ hold.open =>
        /\ hold.ceiling = WindowLength
        /\ hold.detectDeadline = detectDeadlineFor(hold.fireAt, hold.ceiling)
        /\ hold.fireAt - WakeBuffer <= hold.openedAt /\ hold.openedAt <= now
        /\ hold.openedAt <= hold.fireAt + DetectionGrace
        /\ now <= Limit(hold) + Lag

\* A run is of one of the fires, and does not reach the next one's window.
RunInv ==
    /\ \E k \in Nat : exec.fire = k * Gap
    /\ exec.running => /\ rec.completedAt < exec.fire - WakeBuffer
                       /\ now <= LastUnit(exec.fire)
    /\ ~exec.running => rec.completedAt <= LastUnit(exec.fire)

\* A window that followed a wake, and whose job was seen to end, has been closed for the grace.
Earned(at) == \E w \in closed : /\ w.seen /\ w.woke /\ w.outcome = "ok"
                                /\ at >= w.at + SleepBackGrace
SleepInv ==
    /\ sleepBack.at # 0 => Earned(sleepBack.at)
    /\ sleepBack.decided <=> loop = "sleep"
    /\ loop = "sleep" => Earned(now)
    /\ sleepBack.decided => sleepBack.crossed \/ (~hold.open /\ ~other)

\* The inductive invariant of everything but the records.
ClockInv == TypeOK /\ ActorsInv /\ LeaseInv /\ WindowInv /\ RunInv /\ SleepInv

-----------------------------------------------------------------------------
(* Numbers. *)

LEMMA Constants ==
    /\ Lease \in Nat /\ LongLease \in Nat /\ MaxRun \in Nat /\ WakeBuffer \in Nat
    /\ MaxStart \in Nat /\ MaxDelay \in Nat
    /\ Ceiling \in Nat /\ DetectionGrace \in Nat /\ MaxCeiling \in Nat /\ MaxRuntime \in Nat
    /\ LateHour \in Nat /\ SleepBackGrace \in Nat /\ MaxStall \in Nat /\ Gap \in Nat
    /\ Lease > 0 /\ LongLease >= Lease
    /\ Gap > LateHour + WakeBuffer + Ceiling + DetectionGrace + MaxStall
  BY NatAssumption, GapAssumption

\* A lease has three periods, and the delays fit into one.
LEMMA Periods ==
    /\ RenewEvery \in Nat /\ MaxStart + MaxDelay <= RenewEvery
    /\ RenewEvery + RenewEvery + RenewEvery <= Lease
  BY Constants, DelayAssumption DEF RenewEvery

LEMMA Choices ==
    \A a, b \in Nat : /\ Later(a, b) \in Nat /\ Later(a, b) >= a /\ Later(a, b) >= b
                      /\ Sooner(a, b) \in Nat /\ Sooner(a, b) <= a /\ Sooner(a, b) <= b
  BY DEF Later, Sooner

\* The fires are the multiples of Gap.
LEMMA Division ==
    ASSUME NEW n \in Int
    PROVE  /\ n \div Gap \in Int
           /\ (n \div Gap) * Gap \in Int
           /\ (n \div Gap) * Gap <= n /\ n < (n \div Gap) * Gap + Gap
<1>1. Gap \in Nat /\ Gap > 0
  BY Constants
<1> QED
  BY <1>1, SMT

LEMMA Multiples ==
    ASSUME NEW k \in Int, NEW m \in Int, k * Gap < m * Gap
    PROVE  k * Gap + Gap <= m * Gap
<1>1. Gap \in Nat /\ Gap > 0
  BY Constants
<1>2. k < m
  BY <1>1, SMT
<1>3. (m - k) * Gap >= Gap
  BY <1>1, <1>2, SMT
<1> QED
  BY <1>1, <1>3, SMT

LEMMA NextFireType == now \in Nat => NextFire \in Int /\ \E k \in Int : NextFire = k * Gap
<1> SUFFICES ASSUME now \in Nat PROVE NextFire \in Int /\ \E k \in Int : NextFire = k * Gap
  OBVIOUS
<1> DEFINE n == now - WakeBuffer
<1>1. n \in Int /\ Gap \in Nat
  BY Constants
<1>2. n \div Gap \in Int
  BY <1>1, Division
<1>3. (n \div Gap) + 1 \in Int /\ NextFire = ((n \div Gap) + 1) * Gap
  BY <1>2 DEF NextFire
<1>4. NextFire \in Int
  BY <1>1, <1>3
<1> QED
  BY <1>3, <1>4

-----------------------------------------------------------------------------
(* What the steps do to the hold. *)

LEMMA Opens ==
    ASSUME OpenDueWindows
    PROVE  /\ loop = "open" /\ loop' = "detect"
           /\ UNCHANGED << clockVars, served, cmd, jobVars, late, records, closed, other >>
           /\ \/ UNCHANGED << hold, sleepBack >>
              \/ /\ Due
                 /\ \E woke \in BOOLEAN :
                      Open([open |-> TRUE, fireAt |-> NextFire, openedAt |-> now,
                            ceiling |-> WindowLength,
                            detectDeadline |-> detectDeadlineFor(NextFire, WindowLength),
                            detected |-> FALSE, startedAt |-> 0, woke |-> woke])
  BY DEF OpenDueWindows, WindowLength

LEMMA Polls ==
    ASSUME PollDetection
    PROVE  /\ loop = "detect" /\ loop' = "observe"
           /\ UNCHANGED << clockVars, cmd, jobVars, late, other >>
           /\ \/ UNCHANGED windowVars
              \/ /\ kind = "pattern" /\ hold.open /\ ~hold.detected /\ exec.running
                 /\ hold' = [hold EXCEPT !.detected = TRUE, !.startedAt = now]
                 /\ UNCHANGED << served, records, closed, sleepBack >>
              \/ /\ kind = "pattern" /\ hold.open /\ hold.detected /\ ~exec.running
                 /\ Finish(hold, "ok", 0)
  BY DEF PollDetection

LEMMA Observes ==
    ASSUME Observe
    PROVE  /\ loop = "observe" /\ loop' = "watch"
           /\ UNCHANGED << clockVars, cmd, jobVars, late, other >>
           /\ \/ /\ ~(Seen /\ ~rec.running /\ rec.completedAt > hold.openedAt)
                 /\ UNCHANGED windowVars
              \/ /\ Seen /\ rec.running /\ ~hold.detected
                 /\ hold' = [hold EXCEPT !.detected = TRUE, !.startedAt =
                               IF rec.startedAt = 0 THEN now ELSE rec.startedAt]
                 /\ UNCHANGED << served, records, closed, sleepBack >>
              \/ /\ Seen /\ ~rec.running /\ rec.completedAt > hold.openedAt
                 /\ Finish([hold EXCEPT !.detected = TRUE, !.startedAt =
                              IF hold.detected THEN hold.startedAt ELSE InferredStart],
                           "ok", rec.completedAt)
  BY DEF Observe

LEMMA Watches ==
    ASSUME WatchLate
    PROVE  /\ loop = "watch" /\ loop' = "ceilings"
           /\ UNCHANGED << clockVars, hold, served, cmd, jobVars, closed, other, sleepBack >>
           /\ late' = late \/ late' = NoHold
  BY DEF WatchLate

LEMMA Enforces ==
    ASSUME EnforceCeilings
    PROVE  /\ loop = "ceilings" /\ loop' = "sleepback"
           /\ UNCHANGED << clockVars, cmd, jobVars, other >>
           /\ \/ /\ ~(hold.open /\ expired(hold) /\ ~Outlasting(hold))
                 /\ UNCHANGED << windowVars, late >>
              \/ /\ hold.open /\ expired(hold) /\ ~Outlasting(hold)
                 /\ \E outcome \in {"ceiling", "never_detected", "ok"} :
                      /\ Finish(hold, outcome, 0)
                      /\ outcome = "ok" => ~hold.detected
                 /\ \/ late' = late
                    \/ /\ kind = "observed" /\ ~hold.detected
                       /\ late' = [open |-> TRUE, opened |-> hold.openedAt,
                                   fired |-> hold.fireAt, closed |-> now]
  BY DEF EnforceCeilings

LEMMA Sleeps ==
    ASSUME MaybeSleepBack
    PROVE  /\ loop = "sleepback"
           /\ UNCHANGED << clockVars, hold, served, cmd, jobVars, late, records, closed, other >>
           /\ \/ loop' = "idle" /\ UNCHANGED sleepBack
              \/ loop' = "idle" /\ sleepBack' = [sleepBack EXCEPT !.at = 0]
              \/ /\ sleepBack.at # 0 /\ ~(now < sleepBack.at) /\ ~hold.open /\ ~other
                 /\ loop' = "sleep"
                 /\ sleepBack' = [sleepBack EXCEPT !.at = 0, !.decided = TRUE, !.crossed = FALSE]
  BY DEF MaybeSleepBack

LEMMA Finishes ==
    ASSUME NEW h, NEW outcome, NEW endedAt, Finish(h, outcome, endedAt)
    PROVE  /\ hold' = NoHold
           /\ \/ kind \in Wrapped /\ UNCHANGED << served, records, closed, sleepBack >>
              \/ /\ kind \notin Wrapped /\ served' = h.fireAt
                 /\ closed' = closed \cup
                      {[fire |-> h.fireAt, opened |-> h.openedAt, at |-> now,
                        outcome |-> outcome, seen |-> h.detected, woke |-> h.woke]}
                 /\ \/ sleepBack' = sleepBack
                    \/ /\ h.detected /\ outcome = "ok" /\ h.woke
                       /\ sleepBack' = [sleepBack EXCEPT !.at = now + SleepBackGrace]
  BY DEF Finish, Arms

\* A hold is empty, a command's, or a window.
LEMMA HoldKinds ==
    ASSUME TypeOK
    PROVE  /\ ~hold.open => hold = NoHold
           /\ hold.open /\ kind \in Wrapped => hold \in RunHold
           /\ hold.open /\ kind \in Windowed => hold \in Window
           /\ hold.open \in BOOLEAN
           /\ ~(kind \in Windowed /\ kind \in Wrapped) /\ kind \in Windowed \cup Wrapped
<1>1. ~(kind \in Windowed /\ kind \in Wrapped) /\ kind \in Windowed \cup Wrapped
  BY DEF TypeOK, Windowed, Wrapped
<1>2. NoHold.open = FALSE
  BY DEF NoHold
<1>3. \A h \in RunHold : h.open = TRUE
  BY DEF RunHold
<1>4. \A h \in Window : h.open = TRUE
  BY DEF Window
<1>5. HoldType
  BY DEF TypeOK
<1> QED
  BY <1>1, <1>2, <1>3, <1>4, <1>5 DEF HoldType

-----------------------------------------------------------------------------
(* Types. *)

LEMMA WindowTypes ==
    /\ WindowLength \in Nat /\ Longest \in Nat /\ WindowLength <= Longest
    /\ \A f, c \in Nat : detectDeadlineFor(f, c) \in Nat
<1>1. WindowLength \in Nat
  BY Constants DEF WindowLength
<1>2. Later(Ceiling, MaxCeiling) \in Nat /\ Ceiling <= Later(Ceiling, MaxCeiling)
  BY Constants DEF Later
<1>3. Longest \in Nat /\ WindowLength <= Longest
  BY <1>2, Constants DEF WindowLength, Longest
<1>4. ASSUME NEW f \in Nat, NEW c \in Nat PROVE detectDeadlineFor(f, c) \in Nat
  BY Constants DEF detectDeadlineFor, Later
<1> QED
  BY <1>1, <1>3, <1>4

LEMMA FinishTypes ==
    ASSUME TypeOK, NEW h, h.fireAt \in Nat, NEW outcome, NEW endedAt,
           Finish(h, outcome, endedAt)
    PROVE  HoldType' /\ served' \in Nat
           /\ sleepBack' \in [at : Nat, decided : BOOLEAN, crossed : BOOLEAN]
<1>1. HoldType'
  BY Finishes DEF HoldType
<1>2. now + SleepBackGrace \in Nat
  BY Constants DEF TypeOK
<1> QED
  BY <1>1, <1>2, Finishes DEF TypeOK

LEMMA OpenTypes ==
    ASSUME TypeOK, NEW h, Open(h),
           (h \in RunHold /\ kind \in Wrapped) \/ (h \in Window /\ kind \in Windowed),
           kind' = kind
    PROVE  HoldType' /\ sleepBack' \in [at : Nat, decided : BOOLEAN, crossed : BOOLEAN]
  BY DEF Open, HoldType, TypeOK

LEMMA TypesInit == Init => TypeOK
<1> SUFFICES ASSUME Init PROVE TypeOK
  OBVIOUS
<1>1. HoldType
  BY DEF Init, HoldType
<1>2. kind \in Windowed \cup Wrapped
  BY KindsAssumption DEF Init
<1>3. cmd \in Command
  BY DEF Init, Command
<1>4. stall \in 0..MaxStall
  BY Constants DEF Init
<1> QED
  BY <1>1, <1>2, <1>3, <1>4 DEF Init, TypeOK, JobType, Pcs, Pass

LEMMA LoopTypes == TypeOK /\ LoopStep => TypeOK'
<1> SUFFICES ASSUME TypeOK, LoopStep PROVE TypeOK'
  OBVIOUS
<1> USE DEF clockVars, jobVars, windowVars
<1>a. ASSUME UNCHANGED << kind, now, stall, cmd, exec, rec, other >>, loop' \in Pcs,
             late' = NoHold \/ late' \in Watch, HoldType', served' \in Nat,
             sleepBack' \in [at : Nat, decided : BOOLEAN, crossed : BOOLEAN]
      PROVE  TypeOK'
  BY <1>a DEF TypeOK, JobType
<1>b. UNCHANGED << hold, kind >> => HoldType'
  BY DEF TypeOK, HoldType
<1>c. hold.open /\ kind \in Windowed => hold \in Window /\ hold.fireAt \in Nat
  BY HoldKinds DEF Window
<1>d. hold.open => hold.fireAt \in Nat /\ hold.openedAt \in Nat
  BY HoldKinds DEF Window, RunHold
<1>1. CASE OpenDueWindows
  <2>1. CASE UNCHANGED << hold, sleepBack >>
    BY <1>1, <2>1, <1>a, <1>b, Opens DEF TypeOK, JobType, Pcs, Pass
  <2>2. ASSUME NEW woke \in BOOLEAN, Due,
               Open([open |-> TRUE, fireAt |-> NextFire, openedAt |-> now,
                     ceiling |-> WindowLength,
                     detectDeadline |-> detectDeadlineFor(NextFire, WindowLength),
                     detected |-> FALSE, startedAt |-> 0, woke |-> woke])
        PROVE  TypeOK'
    <3>1. kind \in Windowed /\ NextFire > served /\ served \in Nat /\ now \in Nat
      BY <2>2 DEF Due, TypeOK
    <3>2. NextFire \in Nat
      BY <3>1, NextFireType
    <3>3. [open |-> TRUE, fireAt |-> NextFire, openedAt |-> now,
                     ceiling |-> WindowLength,
                     detectDeadline |-> detectDeadlineFor(NextFire, WindowLength),
                     detected |-> FALSE, startedAt |-> 0, woke |-> woke] \in Window
      BY <3>1, <3>2, WindowTypes DEF Window
    <3>4. HoldType' /\ sleepBack' \in [at : Nat, decided : BOOLEAN, crossed : BOOLEAN]
      BY <1>1, <2>2, <3>1, <3>3, OpenTypes, Opens
    <3> QED
      BY <1>1, <3>1, <3>4, <1>a, Opens DEF TypeOK, JobType, Pcs, Pass
  <2> QED
    BY <1>1, <2>1, <2>2, Opens
<1>2. CASE PollDetection
  <2>0. /\ UNCHANGED << kind, now, stall, cmd, exec, rec, other, late >> /\ loop' \in Pcs
        /\ late' = NoHold \/ late' \in Watch
    BY <1>2, Polls DEF Pcs, Pass, TypeOK, JobType
  <2>1. CASE UNCHANGED windowVars
    BY <2>0, <2>1, <1>a, <1>b DEF TypeOK
  <2>2. CASE /\ kind = "pattern" /\ hold.open
             /\ hold' = [hold EXCEPT !.detected = TRUE, !.startedAt = now]
             /\ UNCHANGED << served, records, closed, sleepBack >>
    <3>1. kind \in Windowed /\ hold \in Window /\ now \in Nat
      BY <1>c, <2>2 DEF Windowed, TypeOK
    <3>2. hold' \in Window
      BY <2>2, <3>1 DEF Window
    <3>3. HoldType'
      BY <2>0, <3>1, <3>2 DEF HoldType
    <3> QED
      BY <2>0, <2>2, <3>3, <1>a DEF TypeOK
  <2>3. CASE hold.open /\ Finish(hold, "ok", 0)
    BY <2>0, <2>3, <1>a, <1>d, FinishTypes
  <2> QED
    BY <1>2, <2>1, <2>2, <2>3, Polls
<1>3. CASE Observe
  <2>0. /\ UNCHANGED << kind, now, stall, cmd, exec, rec, other, late >> /\ loop' \in Pcs
        /\ late' = NoHold \/ late' \in Watch
    BY <1>3, Observes DEF Pcs, Pass, TypeOK, JobType
  <2>1. CASE UNCHANGED windowVars
    BY <2>0, <2>1, <1>a, <1>b DEF TypeOK
  <2>2. CASE /\ Seen
             /\ hold' = [hold EXCEPT !.detected = TRUE, !.startedAt =
                               IF rec.startedAt = 0 THEN now ELSE rec.startedAt]
             /\ UNCHANGED << served, records, closed, sleepBack >>
    <3>1. kind \in Windowed /\ hold \in Window
      BY <1>c, <2>2 DEF Windowed, Seen
    <3>2. (IF rec.startedAt = 0 THEN now ELSE rec.startedAt) \in Nat
      BY DEF TypeOK, JobType
    <3>3. hold' \in Window
      BY <2>2, <3>1, <3>2 DEF Window
    <3>4. HoldType'
      BY <2>0, <3>1, <3>3 DEF HoldType
    <3> QED
      BY <2>0, <2>2, <3>4, <1>a DEF TypeOK
  <2>3. CASE /\ Seen
             /\ Finish([hold EXCEPT !.detected = TRUE, !.startedAt =
                              IF hold.detected THEN hold.startedAt ELSE InferredStart],
                           "ok", rec.completedAt)
    <3> DEFINE h == [hold EXCEPT !.detected = TRUE, !.startedAt =
                              IF hold.detected THEN hold.startedAt ELSE InferredStart]
    <3>1. kind \in Windowed /\ hold \in Window
      BY <1>c, <2>3 DEF Windowed, Seen
    <3>2. h.fireAt \in Nat
      BY <3>1 DEF Window
    <3>3. Finish(h, "ok", rec.completedAt)
      BY <2>3
    <3> HIDE DEF h
    <3> QED
      BY <2>0, <3>2, <3>3, <1>a, FinishTypes
  <2> QED
    BY <1>3, <2>1, <2>2, <2>3, Observes
<1>4. CASE WatchLate
  BY <1>4, <1>a, <1>b, Watches DEF TypeOK, JobType, Pcs, Pass
<1>5. CASE EnforceCeilings
  <2>0. /\ UNCHANGED << kind, now, stall, cmd, exec, rec, other >> /\ loop' \in Pcs
    BY <1>5, Enforces DEF Pcs, Pass
  <2>1. CASE UNCHANGED << windowVars, late >>
    BY <2>0, <2>1, <1>a, <1>b DEF TypeOK, JobType
  <2>2. ASSUME hold.open, NEW outcome, Finish(hold, outcome, 0),
               \/ late' = late
               \/ /\ kind = "observed"
                  /\ late' = [open |-> TRUE, opened |-> hold.openedAt,
                              fired |-> hold.fireAt, closed |-> now]
        PROVE  TypeOK'
    <3>1. late' = NoHold \/ late' \in Watch
      <4>1. hold.fireAt \in Nat /\ hold.openedAt \in Nat /\ now \in Nat
        BY <1>d, <2>2 DEF TypeOK
      <4>2. [open |-> TRUE, opened |-> hold.openedAt, fired |-> hold.fireAt, closed |-> now]
               \in Watch
        BY <4>1 DEF Watch
      <4> QED
        BY <2>2, <4>2 DEF TypeOK, JobType
    <3> QED
      BY <2>0, <2>2, <3>1, <1>a, <1>d, FinishTypes
  <2> QED
    BY <1>5, <2>1, <2>2, Enforces
<1>6. CASE MaybeSleepBack
  <2>1. /\ UNCHANGED << kind, now, stall, cmd, exec, rec, other, hold, served, late >>
        /\ loop' \in Pcs
        /\ sleepBack' \in [at : Nat, decided : BOOLEAN, crossed : BOOLEAN]
    <3>1. sleepBack \in [at : Nat, decided : BOOLEAN, crossed : BOOLEAN]
      BY DEF TypeOK
    <3>2. sleepBack' \in [at : Nat, decided : BOOLEAN, crossed : BOOLEAN]
      <4>1. \/ sleepBack' = sleepBack
            \/ sleepBack' = [sleepBack EXCEPT !.at = 0]
            \/ sleepBack' = [sleepBack EXCEPT !.at = 0, !.decided = TRUE, !.crossed = FALSE]
        BY <1>6, Sleeps
      <4>2. CASE sleepBack' = [sleepBack EXCEPT !.at = 0]
        BY <3>1, <4>2
      <4>3. CASE sleepBack' = [sleepBack EXCEPT !.at = 0, !.decided = TRUE, !.crossed = FALSE]
        BY <3>1, <4>3
      <4> QED
        BY <3>1, <4>1, <4>2, <4>3
    <3> QED
      BY <1>6, <3>2, Sleeps DEF Pcs, Pass
  <2> QED
    BY <2>1, <1>a, <1>b DEF TypeOK, JobType
<1>7. CASE SleepNow
  BY <1>7, <1>a, <1>b DEF SleepNow, TypeOK, JobType, Pcs, Pass
<1> QED
  BY <1>1, <1>2, <1>3, <1>4, <1>5, <1>6, <1>7 DEF LoopStep

LEMMA OtherTypes ==
    TypeOK /\ ActorsInv /\ (JobStep \/ CommandStep \/ OtherHold \/ Advance) => TypeOK'
<1> SUFFICES ASSUME TypeOK, ActorsInv, JobStep \/ CommandStep \/ OtherHold \/ Advance PROVE TypeOK'
  OBVIOUS
<1> USE DEF clockVars, jobVars, windowVars
<1>b. UNCHANGED << hold, kind >> => HoldType'
  BY DEF TypeOK, HoldType
<1>d. hold.open => hold.fireAt \in Nat /\ hold.openedAt \in Nat
  BY HoldKinds DEF Window, RunHold
<1>n. now \in Nat
  BY DEF TypeOK
<1>1. CASE JobBegins
  <2>1. LastFire \in Nat
    <3>1. LastFire \in Int /\ LastFire > exec.fire /\ exec.fire \in Nat
      BY <1>1, <1>n, Division DEF JobBegins, LastFire, TypeOK, JobType
    <3> QED
      BY <3>1
  <2>2. exec' \in [running : BOOLEAN, fire : Nat, began : Nat]
    BY <1>1, <1>n, <2>1 DEF JobBegins
  <2>3. rec' \in [running : BOOLEAN, startedAt : Nat, completedAt : Nat]
    BY <1>1, <1>n DEF JobBegins, TypeOK, JobType
  <2> QED
    BY <1>1, <1>b, <2>2, <2>3 DEF JobBegins, TypeOK, JobType
<1>2. CASE JobEnds
  <2>1. exec' \in [running : BOOLEAN, fire : Nat, began : Nat]
    BY <1>2 DEF JobEnds, TypeOK, JobType
  <2>2. rec' \in [running : BOOLEAN, startedAt : Nat, completedAt : Nat]
    BY <1>2, <1>n DEF JobEnds
  <2> QED
    BY <1>2, <1>b, <2>1, <2>2 DEF JobEnds, TypeOK, JobType
<1>3. CASE SchedulerDies
  <2>1. exec' \in [running : BOOLEAN, fire : Nat, began : Nat]
    BY <1>3 DEF SchedulerDies, TypeOK, JobType
  <2> QED
    BY <1>3, <1>b, <2>1 DEF SchedulerDies, TypeOK, JobType
<1>c. ASSUME UNCHANGED << kind, now, loop, stall, exec, rec, late, other >>, cmd' \in Command,
             HoldType', served' \in Nat,
             sleepBack' \in [at : Nat, decided : BOOLEAN, crossed : BOOLEAN]
      PROVE  TypeOK'
  BY <1>c DEF TypeOK, JobType
<1>e. sleepBack \in [at : Nat, decided : BOOLEAN, crossed : BOOLEAN] /\ served \in Nat
  BY DEF TypeOK
<1>4. CASE StartRun
  <2>1. cmd' \in Command
    BY <1>4, <1>n DEF StartRun, Command
  <2> QED
    BY <1>4, <1>b, <1>e, <2>1, <1>c DEF StartRun
<1>p. CASE OpenRunHold
  <2>0. cmd.reported \in Nat /\ now + RenewEvery \in Nat
    BY <1>n, Periods DEF TypeOK, Command
  <2>1. PICK l \in {Lease, LongLease} :
          Open([open |-> TRUE, fireAt |-> cmd.reported, openedAt |-> cmd.reported,
                ceiling |-> l, detected |-> FALSE])
    BY <1>p DEF OpenRunHold
  <2>2. kind \in Wrapped /\ kind' = kind
    BY <1>p DEF OpenRunHold, ActorsInv
  <2>3. PICK h \in RunHold : Open(h)
    BY <2>0, <2>1, Constants DEF RunHold
  <2>4. HoldType' /\ sleepBack' \in [at : Nat, decided : BOOLEAN, crossed : BOOLEAN]
    BY <2>2, <2>3, OpenTypes
  <2>5. cmd' \in Command
    BY <1>p, <2>0 DEF OpenRunHold, TypeOK, Command
  <2> QED
    BY <1>p, <1>e, <2>4, <2>5, <1>c DEF OpenRunHold
<1>r. ASSUME NEW l \in Nat, kind \in Wrapped, hold.open, hold' = Renewed(hold, l), kind' = kind
      PROVE  HoldType'
  <2>1. hold \in RunHold
    BY <1>r, HoldKinds
  <2>2. Sooner(now, hold.openedAt + MaxRun) \in Nat
    BY <1>n, <2>1, Constants DEF RunHold, Sooner
  <2>3. hold' \in RunHold
    BY <1>r, <2>1, <2>2 DEF Renewed, RunHold
  <2> QED
    BY <1>r, <2>3 DEF HoldType
<1>5. CASE Renew
  <2>1. cmd' \in Command
    <3>1. (IF cmd.missed > 1 THEN cmd.missed ELSE 0) \in 0..2
      BY DEF TypeOK, Command
    <3>2. cmd.tick + RenewEvery \in Nat
      BY Periods DEF TypeOK, Command
    <3> QED
      BY <1>5, <1>n, <3>1, <3>2 DEF Renew, TypeOK, Command
  <2>2. kind \in Wrapped /\ kind' = kind
    BY <1>5 DEF Renew, Ticked, Wrapped
  <2>3. HoldType'
    <3>1. CASE hold.open
      <4>1. hold.ceiling \in Nat
        BY <2>2, <3>1, HoldKinds DEF RunHold
      <4> QED
        BY <1>5, <1>r, <2>2, <3>1, <4>1 DEF Renew
    <3>2. CASE ~hold.open
      BY <1>5, <1>b, <2>2, <3>2 DEF Renew
    <3> QED
      BY <3>1, <3>2
  <2> QED
    BY <1>5, <1>e, <2>1, <2>3, <1>c DEF Renew
<1>6. CASE RenewLost
  <2>1. Sooner(cmd.missed + 1, 2) \in 0..2
    BY DEF TypeOK, Command, Sooner
  <2>2. cmd.tick + RenewEvery \in Nat
    BY Periods DEF TypeOK, Command
  <2>3. cmd' \in Command
    BY <1>6, <2>1, <2>2 DEF RenewLost, TypeOK, Command
  <2> QED
    BY <1>6, <1>b, <1>e, <2>3, <1>c DEF RenewLost
<1>q. CASE ReportAgain
  <2>1. cmd' \in Command
    <3>1. (~hold.open) \in BOOLEAN
      OBVIOUS
    <3> QED
      BY <1>q, <1>n, <3>1 DEF ReportAgain, TypeOK, Command
  <2>2. kind \in Wrapped /\ kind' = kind
    BY <1>q DEF ReportAgain, Wrapped
  <2>3. PICK l \in {Lease, LongLease} : hold' = IF hold.open THEN Renewed(hold, l) ELSE hold
    BY <1>q DEF ReportAgain
  <2>4. HoldType'
    BY <1>b, <1>r, <2>2, <2>3, Constants
  <2> QED
    BY <1>q, <1>e, <2>1, <2>4, <1>c DEF ReportAgain
<1>7. CASE EndRun
  <2>1. cmd' \in Command
    BY <1>7 DEF EndRun, TypeOK, Command
  <2>2. HoldType' /\ served' \in Nat
        /\ sleepBack' \in [at : Nat, decided : BOOLEAN, crossed : BOOLEAN]
    <3>1. CASE hold.open /\ Finish(hold, "ok", 0)
      BY <1>d, <3>1, FinishTypes
    <3>2. CASE UNCHANGED windowVars
      BY <1>7, <1>b, <1>e, <3>2 DEF EndRun
    <3> QED
      BY <1>7, <3>1, <3>2 DEF EndRun
  <2> QED
    BY <1>7, <2>1, <2>2, <1>c DEF EndRun
<1>8. CASE WrapperKilled
  <2>1. cmd' \in Command
    BY <1>8 DEF WrapperKilled, TypeOK, Command
  <2> QED
    BY <1>8, <1>b, <1>e, <2>1, <1>c DEF WrapperKilled
<1>9. CASE OtherHold
  <2>1. sleepBack' \in [at : Nat, decided : BOOLEAN, crossed : BOOLEAN]
    <3>1. (sleepBack.crossed \/ (sleepBack.decided /\ ~other)) \in BOOLEAN
      OBVIOUS
    <3> QED
      BY <1>9, <1>e, <3>1 DEF OtherHold
  <2> QED
    BY <1>9, <1>b, <2>1 DEF OtherHold, TypeOK, JobType
<1>10. CASE Advance
  <2>1. cmd' \in Command
    BY <1>10 DEF Advance, TypeOK
  <2>2. now' \in Nat \ {0} /\ stall' \in 0..MaxStall /\ loop' \in Pcs
    BY <1>10, <1>n, Constants DEF Advance, TypeOK, Pcs, Pass
  <2> QED
    BY <1>10, <1>b, <2>1, <2>2 DEF Advance, TypeOK, JobType
<1> QED
  BY <1>1, <1>2, <1>3, <1>4, <1>5, <1>6, <1>7, <1>8, <1>9, <1>10, <1>p, <1>q
     DEF JobStep, CommandStep

-----------------------------------------------------------------------------
(* Who can close or open a hold, and how far behind the loop can be. *)

LEMMA LagSteps ==
    ASSUME TypeOK
    PROVE  /\ Lag \in Nat /\ Lag <= Slack
           /\ LoopStep => \/ Lag' = Lag
                          \/ EnforceCeilings /\ Lag' = 0
           /\ Advance => now' = now + 1 /\ Lag' = Lag + 1
           /\ UNCHANGED << loop, stall >> => Lag' = Lag
<1> USE DEF Lag, Pass
<1>1. Lag \in Nat /\ Lag <= Slack
  BY Constants DEF TypeOK, Slack
<1>2. ASSUME LoopStep PROVE Lag' = Lag \/ (EnforceCeilings /\ Lag' = 0)
  <2>1. OpenDueWindows => Lag' = Lag
    BY Opens DEF clockVars
  <2>2. PollDetection => Lag' = Lag
    BY Polls DEF clockVars
  <2>3. Observe => Lag' = Lag
    BY Observes DEF clockVars
  <2>4. WatchLate => Lag' = Lag
    BY Watches DEF clockVars
  <2>5. EnforceCeilings => Lag' = 0
    BY Enforces DEF clockVars
  <2>6. MaybeSleepBack => Lag' = Lag
    BY Sleeps DEF clockVars
  <2>7. SleepNow => Lag' = Lag
    BY DEF SleepNow, clockVars
  <2> QED
    BY <1>2, <2>1, <2>2, <2>3, <2>4, <2>5, <2>6, <2>7 DEF LoopStep
<1>3. Advance => now' = now + 1 /\ Lag' = Lag + 1
  BY DEF Advance, TypeOK
<1>4. UNCHANGED << loop, stall >> => Lag' = Lag
  OBVIOUS
<1> QED
  BY <1>1, <1>2, <1>3, <1>4

LEMMA LoopKind == LoopStep => UNCHANGED << kind, now, stall, cmd, exec, rec, other >>
<1> USE DEF clockVars, jobVars
<1>1. OpenDueWindows => UNCHANGED << kind, now, stall, cmd, exec, rec, other >>
  BY Opens
<1>2. PollDetection => UNCHANGED << kind, now, stall, cmd, exec, rec, other >>
  BY Polls
<1>3. Observe => UNCHANGED << kind, now, stall, cmd, exec, rec, other >>
  BY Observes
<1>4. WatchLate => UNCHANGED << kind, now, stall, cmd, exec, rec, other >>
  BY Watches
<1>5. EnforceCeilings => UNCHANGED << kind, now, stall, cmd, exec, rec, other >>
  BY Enforces
<1>6. MaybeSleepBack => UNCHANGED << kind, now, stall, cmd, exec, rec, other >>
  BY Sleeps
<1>7. SleepNow => UNCHANGED << kind, now, stall, cmd, exec, rec, other >>
  BY DEF SleepNow
<1> QED
  BY <1>1, <1>2, <1>3, <1>4, <1>5, <1>6, <1>7 DEF LoopStep

\* A command's hold is closed by the loop only once its lease has run out, and the
\* loop has then looked at it.
LEMMA WrappedPass ==
    ASSUME TypeOK, LoopStep, kind \in Wrapped
    PROVE  /\ UNCHANGED << kind, now, stall, cmd >>
           /\ \/ hold' = hold /\ Lag' = Lag
              \/ hold' = NoHold /\ hold.open /\ now > hold.fireAt + hold.ceiling
              \/ hold' = hold /\ Lag' = 0 /\ (hold.open => ~(now > hold.fireAt + hold.ceiling))
<1> USE DEF clockVars, windowVars
<1>0. kind \notin {"blind", "observed", "pattern"}
  BY HoldKinds DEF Windowed
<1>1. CASE OpenDueWindows
  BY <1>0, <1>1, Opens, LagSteps DEF Due, Windowed, EnforceCeilings
<1>2. CASE PollDetection
  BY <1>0, <1>2, Polls, LagSteps DEF EnforceCeilings
<1>3. CASE Observe
  BY <1>0, <1>3, Observes, LagSteps DEF Seen, EnforceCeilings
<1>4. CASE WatchLate
  BY <1>4, Watches, LagSteps DEF EnforceCeilings
<1>5. CASE EnforceCeilings
  <2>1. UNCHANGED << kind, now, stall, cmd >> /\ Lag' = 0
    BY <1>5, Enforces DEF Lag, Pass
  <2>2. hold.open => (expired(hold) <=> now > hold.fireAt + hold.ceiling)
    <3>0. kind # "pattern"
      BY <1>0
    <3>1. deadline(hold) = hold.fireAt + hold.ceiling
      BY <3>0 DEF deadline
    <3>2. expired(hold) <=> now > deadline(hold)
      BY DEF expired
    <3> QED
      BY <3>1, <3>2, Zenon
  <2>3. hold.open => ~Outlasting(hold)
    BY HoldKinds DEF Outlasting, RunHold
  <2>4. CASE ~(hold.open /\ expired(hold) /\ ~Outlasting(hold)) /\ hold' = hold
    BY <2>1, <2>2, <2>3, <2>4
  <2>5. CASE hold.open /\ expired(hold) /\ hold' = NoHold
    BY <2>1, <2>2, <2>5
  <2> QED
    BY <1>5, <2>4, <2>5, Enforces, Finishes
<1>6. CASE MaybeSleepBack
  BY <1>6, Sleeps, LagSteps DEF EnforceCeilings
<1>7. CASE SleepNow
  BY <1>7, LagSteps DEF SleepNow, EnforceCeilings
<1> QED
  BY <1>1, <1>2, <1>3, <1>4, <1>5, <1>6, <1>7 DEF LoopStep

-----------------------------------------------------------------------------
(* The leases. *)

LEMMA StartsCommand ==
    ASSUME TypeOK, StartRun
    PROVE  /\ kind \in Wrapped /\ ~cmd.alive /\ ~hold.open
           /\ UNCHANGED << kind, now, loop, stall, closed, hold, exec, sleepBack, other >>
           /\ cmd' = [alive |-> TRUE, asked |-> TRUE, began |-> now, reported |-> now,
                      tick |-> 0, missed |-> 0]
  BY DEF StartRun, clockVars, windowVars, jobVars

LEMMA OpensRunHold ==
    ASSUME TypeOK, ActorsInv, OpenRunHold
    PROVE  /\ cmd.asked /\ kind \in Wrapped
           /\ UNCHANGED << kind, now, loop, stall, closed, exec, other >>
           /\ cmd' = [cmd EXCEPT !.asked = FALSE, !.tick = now + RenewEvery]
           /\ \E l \in {Lease, LongLease} :
                 /\ Open([open |-> TRUE, fireAt |-> cmd.reported, openedAt |-> cmd.reported,
                          ceiling |-> l, detected |-> FALSE])
                 /\ kind = "run" => l = Lease
  BY DEF OpenRunHold, ActorsInv, clockVars, jobVars

\* A renewal, by the ticker or by a session's next report.
LEMMA Renews ==
    ASSUME TypeOK, Renew \/ ReportAgain
    PROVE  /\ cmd.alive /\ ~cmd.asked
           /\ UNCHANGED << kind, now, loop, stall, closed, exec, other, sleepBack >>
           /\ kind \in Wrapped /\ cmd'.reported = now /\ cmd'.alive
           /\ cmd'.asked => kind = "keyed" /\ ~hold.open
           /\ \/ ~hold.open /\ hold' = hold
              \/ /\ hold.open
                 /\ \E l \in {hold.ceiling, Lease, LongLease} :
                       /\ hold' = Renewed(hold, l)
                       /\ kind = "run" => l = hold.ceiling
<1>1. CASE Renew
  <2>1. /\ cmd.alive /\ ~cmd.asked /\ kind = "run"
        /\ UNCHANGED << kind, now, loop, stall, closed, exec, other, sleepBack >>
        /\ hold' = IF hold.open THEN Renewed(hold, hold.ceiling) ELSE hold
    BY <1>1 DEF Renew, Ticked, clockVars, jobVars
  <2>2. cmd'.reported = now /\ cmd'.alive /\ ~cmd'.asked
    BY <1>1, <2>1 DEF Renew, TypeOK, Command
  <2>3. kind \in Wrapped
    BY <2>1 DEF Wrapped
  <2> QED
    BY <2>1, <2>2, <2>3
<1>2. CASE ReportAgain
  <2>1. /\ cmd.alive /\ ~cmd.asked /\ kind = "keyed"
        /\ UNCHANGED << kind, now, loop, stall, closed, exec, other, sleepBack >>
        /\ \E l \in {Lease, LongLease} :
              hold' = IF hold.open THEN Renewed(hold, l) ELSE hold
    BY <1>2 DEF ReportAgain, clockVars, jobVars
  <2>2. cmd'.reported = now /\ cmd'.alive /\ (cmd'.asked => ~hold.open)
    BY <1>2, <2>1 DEF ReportAgain, TypeOK, Command
  <2>3. kind \in Wrapped
    BY <2>1 DEF Wrapped
  <2> QED
    BY <2>1, <2>2, <2>3
<1> QED
  BY <1>1, <1>2

LEMMA LeaseSteps == TypeOK /\ ActorsInv /\ LeaseInv /\ [Next]_vars => LeaseInv'
<1> SUFFICES ASSUME TypeOK, ActorsInv, LeaseInv, [Next]_vars PROVE LeaseInv'
  OBVIOUS
<1> USE DEF LeaseInv
<1>n. now \in Nat /\ Lag \in Nat
  BY LagSteps DEF TypeOK
<1>c. cmd.reported \in Nat
  BY DEF TypeOK, Command
<1>h. kind \in Wrapped /\ hold.open =>
        hold.fireAt \in Nat /\ hold.openedAt \in Nat /\ hold.ceiling \in Nat
  BY HoldKinds DEF RunHold
<1>o. NoHold.open = FALSE
  BY DEF NoHold
<1>1. CASE LoopStep
  <2> SUFFICES ASSUME kind \in Wrapped, hold'.open PROVE LeaseInv'
    BY <1>1, LoopKind
  <2>1. CASE hold' = hold /\ Lag' = Lag
    BY <1>1, <2>1, WrappedPass
  <2>2. CASE hold' = hold /\ Lag' = 0 /\ ~(now > hold.fireAt + hold.ceiling)
    BY <1>1, <2>2, <1>n, <1>c, <1>h, WrappedPass, Constants
  <2> QED
    BY <1>1, <1>o, <2>1, <2>2, WrappedPass
<1>2. CASE OpenRunHold
  <2>1. PICK l \in {Lease, LongLease} :
           hold' = [open |-> TRUE, fireAt |-> cmd.reported, openedAt |-> cmd.reported,
                    ceiling |-> l, detected |-> FALSE]
    BY <1>2, OpensRunHold DEF Open
  <2>2. UNCHANGED << now, loop, stall >> /\ cmd'.reported = cmd.reported
    BY <1>2, OpensRunHold DEF TypeOK, Command
  <2>3. now <= cmd.reported + MaxStart
    BY <1>2, OpensRunHold DEF ActorsInv
  <2>4. MaxStart <= Lease /\ Lease <= LongLease
    BY Constants, Periods
  <2>5. Lag' = Lag
    BY <2>2, LagSteps
  <2> QED
    BY <1>n, <1>c, <2>1, <2>2, <2>3, <2>4, <2>5, Constants
<1>3. CASE StartRun
  BY <1>3, StartsCommand
<1>4. CASE Renew \/ ReportAgain
  <2>0. kind \in Wrapped /\ kind' = kind /\ UNCHANGED << now, loop, stall >> /\ cmd'.reported = now
    BY <1>4, Renews
  <2>1. ASSUME hold.open, NEW l \in {hold.ceiling, Lease, LongLease}, hold' = Renewed(hold, l)
        PROVE  LeaseInv'
    <3>1. /\ hold'.open /\ hold'.openedAt = hold.openedAt /\ hold'.ceiling = l
          /\ hold'.fireAt = Sooner(now, hold.openedAt + MaxRun)
      BY <2>0, <2>1, HoldKinds DEF Renewed, RunHold
    <3>2. Lag' = Lag
      BY <2>0, LagSteps
    <3>3. l \in Nat /\ l <= LongLease
      BY <1>h, <2>0, <2>1, Constants
    <3> QED
      BY <1>n, <1>h, <2>0, <2>1, <3>1, <3>2, <3>3, Constants DEF Sooner
  <2>2. CASE ~hold.open /\ hold' = hold
    BY <2>2
  <2> QED
    BY <1>4, <2>1, <2>2, Renews
<1>5. CASE RenewLost \/ WrapperKilled
  <2>1. UNCHANGED << kind, now, loop, stall, hold >> /\ cmd'.reported = cmd.reported
    BY <1>5 DEF RenewLost, WrapperKilled, clockVars, windowVars, TypeOK, Command
  <2> QED
    BY <2>1, LagSteps
<1>6. CASE EndRun
  BY <1>6, <1>o, Finishes DEF EndRun, windowVars
<1>7. CASE OtherHold
  BY <1>7, HoldKinds DEF OtherHold, clockVars
<1>8. CASE JobStep
  BY <1>8, LagSteps DEF JobStep, JobBegins, JobEnds, SchedulerDies, clockVars, windowVars
<1>9. CASE Advance
  <2>1. UNCHANGED << kind, hold >> /\ cmd'.reported = cmd.reported
    BY <1>9 DEF Advance, windowVars, TypeOK, Command
  <2> QED
    BY <1>9, <1>n, <1>c, <1>h, <2>1, LagSteps, Constants
<1>10. CASE UNCHANGED vars
  BY <1>10, LagSteps DEF vars, clockVars, windowVars
<1> QED
  BY <1>1, <1>2, <1>3, <1>4, <1>5, <1>6, <1>7, <1>8, <1>9, <1>10 DEF Next, CommandStep

LEMMA ActorsSteps == TypeOK /\ ActorsInv /\ [Next]_vars => ActorsInv'
<1> SUFFICES ASSUME TypeOK, ActorsInv, [Next]_vars PROVE ActorsInv'
  OBVIOUS
<1> USE DEF ActorsInv
<1>n. now \in Nat /\ cmd \in Command
  BY DEF TypeOK
<1>a. ASSUME UNCHANGED << kind, now, closed >>, cmd'.alive => cmd.alive,
             exec'.running => exec.running,
             cmd'.asked => cmd.asked /\ cmd'.reported = cmd.reported,
             kind \in Wrapped => (hold'.open => hold.open)
      PROVE  ActorsInv'
  BY <1>a
<1>o. NoHold.open = FALSE
  BY DEF NoHold
<1>f. ASSUME NEW h, NEW outcome, NEW endedAt, Finish(h, outcome, endedAt)
      PROVE  \A w \in closed' : w.at \in Nat
  <2>1. CASE closed' = closed
    BY <2>1
  <2>2. CASE closed' = closed \cup
               {[fire |-> h.fireAt, opened |-> h.openedAt, at |-> now,
                 outcome |-> outcome, seen |-> h.detected, woke |-> h.woke]}
    BY <1>n, <2>2
  <2> QED
    BY <1>f, <2>1, <2>2, Finishes
<1>1. CASE LoopStep
  <2>1. UNCHANGED << kind, now, cmd, exec >>
    BY <1>1, LoopKind
  <2>3. kind \in Wrapped /\ ~hold.open => ~hold'.open
    BY <1>1, <1>o, WrappedPass
  <2>2. \A w \in closed' : w.at \in Nat
    <3>1. CASE closed' = closed
      BY <3>1
    <3>2. ASSUME PollDetection, closed' # closed PROVE \A w \in closed' : w.at \in Nat
      BY <1>f, <3>2, Polls DEF windowVars
    <3>3. ASSUME Observe, closed' # closed PROVE \A w \in closed' : w.at \in Nat
      <4>1. Finish([hold EXCEPT !.detected = TRUE, !.startedAt =
                              IF hold.detected THEN hold.startedAt ELSE InferredStart],
                   "ok", rec.completedAt)
        BY <3>3, Observes DEF windowVars
      <4> QED
        BY <1>f, <4>1
    <3>4. ASSUME EnforceCeilings, closed' # closed PROVE \A w \in closed' : w.at \in Nat
      <4>1. \E outcome \in {"ceiling", "never_detected", "ok"} : Finish(hold, outcome, 0)
        BY <3>4, Enforces DEF windowVars
      <4> QED
        BY <1>f, <4>1
    <3>5. OpenDueWindows \/ WatchLate \/ MaybeSleepBack \/ SleepNow => closed' = closed
      BY Opens, Watches, Sleeps DEF SleepNow
    <3> QED
      BY <1>1, <3>1, <3>2, <3>3, <3>4, <3>5 DEF LoopStep
  <2> QED
    BY <2>1, <2>2, <2>3
<1>2. CASE StartRun
  <2>1. /\ kind \in Wrapped /\ UNCHANGED << kind, now, closed, exec, hold >>
        /\ cmd'.reported = now
    BY <1>2, StartsCommand
  <2>2. ~hold.open
    BY <1>2, StartsCommand
  <2> QED
    BY <1>n, <2>1, <2>2, HoldKinds, Constants
<1>3. CASE OpenRunHold
  <2>1. UNCHANGED << kind, now, closed, exec >> /\ kind \in Wrapped
    BY <1>3, OpensRunHold
  <2>2. cmd'.alive = cmd.alive /\ ~cmd'.asked
    BY <1>3, <1>n, OpensRunHold DEF Command
  <2> QED
    BY <2>1, <2>2
<1>4. CASE Renew \/ ReportAgain
  <2>1. /\ UNCHANGED << kind, now, closed, exec >> /\ cmd.alive /\ kind \in Wrapped
        /\ cmd'.reported = now
    BY <1>4, Renews
  <2>2. cmd'.asked => ~hold'.open
    BY <1>4, Renews
  <2> QED
    BY <1>n, <2>1, <2>2, Constants
<1>5. CASE RenewLost \/ WrapperKilled
  <2>1. UNCHANGED << kind, now, closed, exec, hold >> /\ cmd.alive
    BY <1>5 DEF RenewLost, Ticked, WrapperKilled, jobVars, clockVars, windowVars
  <2>2. cmd'.asked = cmd.asked /\ cmd'.reported = cmd.reported
    BY <1>5, <1>n DEF RenewLost, WrapperKilled, Command
  <2> QED
    BY <1>a, <2>1, <2>2
<1>6. CASE EndRun
  <2>1. UNCHANGED << kind, now, exec >> /\ cmd.alive /\ kind \in Wrapped
    BY <1>6 DEF EndRun, jobVars, clockVars
  <2>2. closed' = closed /\ (hold'.open => hold.open)
    BY <1>6, <1>o, <2>1, Finishes DEF EndRun, windowVars
  <2>3. cmd'.asked = cmd.asked /\ cmd'.reported = cmd.reported
    BY <1>6, <1>n DEF EndRun, Command
  <2> QED
    BY <1>a, <2>1, <2>2, <2>3
<1>7. CASE OtherHold
  BY <1>7, <1>a DEF OtherHold, clockVars, jobVars
<1>8. CASE JobStep
  <2>1. UNCHANGED << kind, now, closed, cmd, hold >>
    BY <1>8 DEF JobStep, JobBegins, JobEnds, SchedulerDies, clockVars, windowVars
  <2>2. JobBegins => kind \in Windowed
    BY DEF JobBegins
  <2>3. JobEnds \/ SchedulerDies => exec.running
    BY DEF JobEnds, SchedulerDies
  <2> QED
    BY <1>8, <2>1, <2>2, <2>3 DEF JobStep
<1>9. CASE Advance
  <2>1. UNCHANGED << kind, closed, exec, hold, cmd >> /\ now' = now + 1
    BY <1>9 DEF Advance, jobVars, windowVars
  <2>2. cmd.asked => now < cmd.reported + MaxStart
    BY <1>9 DEF Advance
  <2>3. cmd.reported \in Nat
    BY <1>n DEF Command
  <2> QED
    BY <1>n, <2>1, <2>2, <2>3, Constants
<1>10. CASE UNCHANGED vars
  BY <1>10 DEF vars, clockVars, jobVars, windowVars
<1> QED
  BY <1>1, <1>2, <1>3, <1>4, <1>5, <1>6, <1>7, <1>8, <1>9, <1>10 DEF Next, CommandStep

LEMMA TypeSteps == TypeOK /\ ActorsInv /\ [Next]_vars => TypeOK'
<1>1. TypeOK /\ UNCHANGED vars => TypeOK'
  BY DEF vars, clockVars, jobVars, windowVars, TypeOK, HoldType, JobType
<1> QED
  BY <1>1, LoopTypes, OtherTypes DEF Next

LEMMA ActorsInit == Init => ActorsInv
  BY DEF Init, ActorsInv

\* Every variable has its type (hold.go, runhold.go, sleepback.go).
THEOREM TypesCorrect == Spec => []TypeOK
<1>1. Init => TypeOK /\ ActorsInv
  BY TypesInit, ActorsInit
<1>2. TypeOK /\ ActorsInv /\ [Next]_vars => (TypeOK /\ ActorsInv)'
  BY TypeSteps, ActorsSteps
<1> QED
  BY <1>1, <1>2, PTL DEF Spec

LEMMA CommandSteps ==
    ASSUME TypeOK, ActorsInv, LeaseInv, CommandInv, [Next]_vars
    PROVE  CommandInv'
<1> USE DEF CommandInv
<1>n. /\ now \in Nat /\ cmd \in Command /\ cmd.missed \in 0..2 /\ cmd.reported \in Nat
      /\ cmd.began \in Nat /\ cmd.tick \in Nat
  BY DEF TypeOK, Command
<1>p. /\ RenewEvery \in Nat /\ MaxStart \in Nat /\ MaxDelay \in Nat /\ Lease \in Nat
      /\ MaxRun \in Nat /\ MaxStart + MaxDelay <= RenewEvery
      /\ RenewEvery + RenewEvery + RenewEvery <= Lease
  BY Constants, Periods
<1>h. kind = "run" /\ hold.open => hold \in RunHold
  BY HoldKinds DEF Wrapped
<1>o. NoHold.open = FALSE
  BY DEF NoHold
<1>a. ASSUME UNCHANGED << kind, now, cmd, hold >> PROVE CommandInv'
  BY <1>a
<1>e. ASSUME ~cmd'.alive PROVE CommandInv'
  BY <1>e
<1>k. kind # "run" /\ kind' = kind => CommandInv'
  OBVIOUS
<1>1. CASE LoopStep
  <2>0. UNCHANGED << kind, now, cmd >>
    BY <1>1, LoopKind
  <2>1. CASE hold' = hold
    BY <1>a, <2>0, <2>1
  <2>2. ASSUME kind = "run", cmd.alive, hold.open, now > hold.fireAt + hold.ceiling,
               hold' = NoHold
        PROVE  CommandInv'
    <3>0. ~cmd.asked
      BY <2>2 DEF ActorsInv
    <3>1. ~(cmd.missed <= 1 /\ now <= cmd.began + MaxRun + Lease)
      <4>1. now > Sooner(cmd.reported, cmd.began + MaxRun) + Lease
        BY <2>2
      <4>2. CASE cmd.missed <= 1
        <5>1. now <= cmd.tick + MaxDelay
              /\ cmd.tick <= cmd.reported + MaxStart + RenewEvery + RenewEvery
          BY <1>n, <1>p, <2>2, <3>0, <4>2
        <5>2. now <= cmd.reported + Lease
          BY <1>n, <1>p, <5>1
        <5> QED
          BY <1>n, <1>p, <4>1, <5>2 DEF Sooner
      <4> QED
        BY <4>2
    <3> QED
      BY <1>o, <2>0, <2>2, <3>0, <3>1
  <2>3. kind = "run" => kind \in Wrapped
    BY DEF Wrapped
  <2> QED
    BY <1>1, <1>k, <1>e, <2>0, <2>1, <2>2, <2>3, WrappedPass
<1>2. CASE StartRun
  <2>1. /\ cmd' = [alive |-> TRUE, asked |-> TRUE, began |-> now, reported |-> now,
                   tick |-> 0, missed |-> 0]
        /\ ~hold.open /\ hold' = hold
    BY <1>2, StartsCommand
  <2> QED
    BY <2>1
<1>3. CASE OpenRunHold
  <2>1. PICK l \in {Lease, LongLease} :
           /\ hold' = [open |-> TRUE, fireAt |-> cmd.reported, openedAt |-> cmd.reported,
                       ceiling |-> l, detected |-> FALSE]
           /\ kind = "run" => l = Lease
    BY <1>3, OpensRunHold DEF Open
  <2>2. /\ UNCHANGED << kind, now >> /\ cmd.asked /\ ~cmd'.asked
        /\ cmd'.alive = cmd.alive /\ cmd'.began = cmd.began /\ cmd'.reported = cmd.reported
        /\ cmd'.missed = cmd.missed /\ cmd'.tick = now + RenewEvery
    BY <1>3, <1>n, OpensRunHold DEF Command
  <2>3. now <= cmd.reported + MaxStart
    BY <2>2 DEF ActorsInv
  <2>4. CASE kind = "run" /\ cmd.alive
    <3>1. cmd.reported = cmd.began /\ cmd.missed = 0
      BY <2>2, <2>4
    <3>2. Sooner(cmd.reported, cmd.began + MaxRun) = cmd.reported
      BY <1>n, <1>p, <3>1 DEF Sooner
    <3>3. /\ cmd'.tick <= cmd'.reported + MaxStart + RenewEvery
          /\ now' <= cmd'.tick + MaxDelay
      BY <1>n, <1>p, <2>2, <2>3
    <3> QED
      BY <1>n, <1>p, <2>1, <2>2, <2>4, <3>1, <3>2, <3>3
  <2>5. CASE ~(kind = "run" /\ cmd.alive)
    BY <2>2, <2>5
  <2> QED
    BY <2>4, <2>5
<1>10. CASE ReportAgain
  BY <1>10, <1>k DEF ReportAgain, clockVars
<1>11. CASE Renew
  <2>0. /\ cmd.alive /\ ~cmd.asked /\ UNCHANGED << kind, now >> /\ now >= cmd.tick /\ kind = "run"
        /\ hold' = IF hold.open THEN Renewed(hold, hold.ceiling) ELSE hold
    BY <1>11 DEF Renew, Ticked, clockVars
  <2>1. /\ cmd'.missed = (IF cmd.missed > 1 THEN cmd.missed ELSE 0) /\ cmd'.reported = now
        /\ cmd'.began = cmd.began /\ cmd'.alive /\ ~cmd'.asked
        /\ cmd'.tick = cmd.tick + RenewEvery
    BY <1>11, <1>n, <2>0 DEF Renew, Command
  <2>2. cmd'.missed <= 1 => cmd'.missed = 0 /\ cmd.missed <= 1
    BY <1>n, <2>1
  <2>3. cmd'.missed <= 1 =>
          /\ cmd'.tick <= cmd'.reported + MaxStart + RenewEvery
          /\ now' <= cmd'.tick + MaxDelay
    <3>1. cmd'.missed <= 1 => now <= cmd.tick + MaxDelay
      BY <2>0, <2>2
    <3> QED
      BY <1>n, <1>p, <2>0, <2>1, <3>1
  <2>4. CASE ~hold.open
    BY <1>n, <1>p, <2>0, <2>1, <2>2, <2>3, <2>4
  <2>5. CASE hold.open
    <3>1. /\ hold'.open /\ hold'.openedAt = hold.openedAt /\ hold'.ceiling = hold.ceiling
          /\ hold'.fireAt = Sooner(now, hold.openedAt + MaxRun)
      BY <1>h, <2>0, <2>5 DEF Renewed, RunHold
    <3>2. hold.openedAt = cmd.began /\ hold.ceiling = Lease
      BY <2>0, <2>5
    <3> QED
      BY <1>n, <1>p, <2>0, <2>1, <2>2, <2>3, <3>1, <3>2
  <2> QED
    BY <2>4, <2>5
<1>4. CASE RenewLost
  <2>1. /\ UNCHANGED << kind, now, hold >> /\ cmd'.missed = Sooner(cmd.missed + 1, 2)
        /\ cmd'.reported = cmd.reported /\ cmd'.began = cmd.began /\ cmd.alive
        /\ cmd'.asked = cmd.asked /\ ~cmd.asked /\ cmd'.tick = cmd.tick + RenewEvery
    BY <1>4, <1>n DEF RenewLost, Ticked, clockVars, windowVars, Command
  <2>2. cmd'.missed <= 1 => cmd'.missed = 1 /\ cmd.missed = 0
    BY <1>n, <2>1 DEF Sooner
  <2>3. CASE kind = "run" /\ cmd.missed = 0
    <3>1. cmd.tick <= cmd.reported + MaxStart + RenewEvery /\ now <= cmd.tick + MaxDelay
      BY <1>n, <1>p, <2>1, <2>3
    <3>2. cmd'.tick <= cmd'.reported + MaxStart + RenewEvery + RenewEvery
          /\ now' <= cmd'.tick + MaxDelay
      BY <1>n, <1>p, <2>1, <3>1
    <3> QED
      BY <2>1, <2>2, <2>3, <3>2
  <2>4. CASE ~(kind = "run" /\ cmd.missed = 0)
    BY <2>1, <2>2, <2>4
  <2> QED
    BY <2>3, <2>4
<1>5. CASE EndRun \/ WrapperKilled
  BY <1>5, <1>e, <1>n DEF EndRun, WrapperKilled, Command
<1>6. CASE OtherHold
  BY <1>6, <1>k, HoldKinds DEF OtherHold, clockVars, Wrapped
<1>7. CASE JobStep
  BY <1>7, <1>a DEF JobStep, JobBegins, JobEnds, SchedulerDies, clockVars, windowVars
<1>8. CASE Advance
  <2>1. UNCHANGED << kind, hold, cmd >> /\ now' = now + 1
    BY <1>8 DEF Advance, windowVars
  <2>2. Ticked => now < cmd.tick + MaxDelay
    BY <1>8 DEF Advance
  <2>3. kind = "run" /\ cmd.alive /\ ~cmd.asked => now' <= cmd.tick + MaxDelay
    BY <1>n, <1>p, <2>1, <2>2 DEF Ticked
  <2>4. now' <= cmd.began + MaxRun + Lease => now <= cmd.began + MaxRun + Lease
    BY <1>n, <1>p, <2>1
  <2> QED
    BY <2>1, <2>3, <2>4
<1>9. CASE UNCHANGED vars
  BY <1>9, <1>a DEF vars, clockVars, windowVars
<1> QED
  BY <1>1, <1>2, <1>3, <1>4, <1>5, <1>6, <1>7, <1>8, <1>9, <1>10, <1>11 DEF Next, CommandStep

LEMMA LeaseImplies ==
    ASSUME TypeOK, LeaseInv, CommandInv
    PROVE  HoldFollowsCommand
<1>1. now \in Nat /\ cmd.reported \in Nat /\ Lag \in Nat /\ Lag <= Slack /\ Slack \in Nat
  BY LagSteps, Constants DEF TypeOK, Command, Slack
<1>2. kind \in Wrapped /\ hold.open => hold.openedAt \in Nat /\ hold.ceiling \in Nat
  BY HoldKinds DEF RunHold
<1>3. kind \in Wrapped /\ hold.open =>
          /\ now <= cmd.reported + hold.ceiling + Slack
          /\ now <= hold.openedAt + MaxRun + LongLease + Slack
  BY <1>1, <1>2, Constants DEF LeaseInv
<1> QED
  BY <1>3 DEF HoldFollowsCommand, CommandInv

-----------------------------------------------------------------------------
(* Windows. *)

\* What the loop does to a window.
LEMMA WindowPass ==
    ASSUME TypeOK, LoopStep, kind \in Windowed
    PROVE  \/ hold' = hold /\ Lag' = Lag
           \/ hold' = NoHold /\ hold.open
           \/ /\ Due /\ Lag' = Lag
              /\ \E woke \in BOOLEAN :
                   hold' = [open |-> TRUE, fireAt |-> NextFire, openedAt |-> now,
                            ceiling |-> WindowLength,
                            detectDeadline |-> detectDeadlineFor(NextFire, WindowLength),
                            detected |-> FALSE, startedAt |-> 0, woke |-> woke]
           \/ /\ hold.open /\ ~hold.detected /\ Lag' = Lag
              /\ \E start \in Nat :
                   /\ hold' = [hold EXCEPT !.detected = TRUE, !.startedAt = start]
                   /\ kind = "pattern" => start = now
           \/ /\ hold' = hold /\ Lag' = 0
              /\ ~hold.open \/ ~expired(hold) \/ Outlasting(hold)
<1> USE DEF clockVars, windowVars
<1>n. now \in Nat /\ rec.startedAt \in Nat
  BY DEF TypeOK, JobType
<1>1. CASE OpenDueWindows
  <2>1. Lag' = Lag
    BY <1>1, Opens DEF Lag, Pass
  <2> QED
    BY <1>1, <2>1, Opens DEF Open
<1>2. CASE PollDetection
  <2>1. Lag' = Lag
    BY <1>2, Polls DEF Lag, Pass
  <2> QED
    BY <1>2, <1>n, <2>1, Polls, Finishes
<1>3. CASE Observe
  <2>1. Lag' = Lag
    BY <1>3, Observes DEF Lag, Pass
  <2>2. CASE /\ Seen /\ rec.running /\ ~hold.detected
             /\ hold' = [hold EXCEPT !.detected = TRUE, !.startedAt =
                               IF rec.startedAt = 0 THEN now ELSE rec.startedAt]
    <3>1. PICK start \in Nat : start = IF rec.startedAt = 0 THEN now ELSE rec.startedAt
      BY <1>n
    <3>2. hold' = [hold EXCEPT !.detected = TRUE, !.startedAt = start]
      BY <2>2, <3>1
    <3> QED
      BY <2>1, <2>2, <3>2 DEF Seen
  <2>3. CASE hold' = NoHold /\ hold.open
    BY <2>3
  <2>4. CASE hold' = hold
    BY <2>1, <2>4
  <2>5. Seen => hold.open
    BY DEF Seen
  <2> QED
    BY <1>3, <2>2, <2>3, <2>4, <2>5, Observes, Finishes
<1>4. CASE WatchLate
  BY <1>4, Watches DEF Lag, Pass
<1>5. CASE EnforceCeilings
  <2>1. Lag' = 0
    BY <1>5, Enforces DEF Lag, Pass
  <2> QED
    BY <1>5, <2>1, Enforces, Finishes
<1>6. CASE MaybeSleepBack
  BY <1>6, Sleeps DEF Lag, Pass
<1>7. CASE SleepNow
  BY <1>7 DEF SleepNow, Lag, Pass
<1> QED
  BY <1>1, <1>2, <1>3, <1>4, <1>5, <1>6, <1>7 DEF LoopStep

\* A command leaves a window, and the job's steps leave a hold, alone.
LEMMA WindowOthers ==
    ASSUME TypeOK, ActorsInv, kind \in Windowed, CommandStep \/ JobStep \/ OtherHold
    PROVE  UNCHANGED << kind, now, loop, stall, hold >>
<1>1. ~cmd.alive /\ ~cmd.asked /\ kind \notin Wrapped
  BY HoldKinds DEF ActorsInv
<1>2. ~CommandStep
  BY <1>1 DEF CommandStep, StartRun, OpenRunHold, Renew, RenewLost, Ticked, ReportAgain, EndRun,
              WrapperKilled
<1> QED
  BY <1>2 DEF JobStep, JobBegins, JobEnds, SchedulerDies, OtherHold, clockVars, windowVars

LEMMA KindStays == TypeOK /\ [Next]_vars => kind' = kind
<1>1. LoopStep => kind' = kind
  BY LoopKind
<1>2. CommandStep => kind' = kind
  BY DEF CommandStep, StartRun, OpenRunHold, Renew, RenewLost, ReportAgain, EndRun, WrapperKilled,
         clockVars
<1>3. JobStep => kind' = kind
  BY DEF JobStep, JobBegins, JobEnds, SchedulerDies, clockVars
<1> QED
  BY <1>1, <1>2, <1>3 DEF Next, OtherHold, Advance, vars, clockVars

LEMMA WindowSteps == TypeOK /\ ActorsInv /\ WindowInv /\ [Next]_vars => WindowInv'
<1> SUFFICES ASSUME TypeOK, ActorsInv, WindowInv, [Next]_vars, kind' \in Windowed, hold'.open
             PROVE  WindowInv'
  BY DEF WindowInv
<1>0. kind \in Windowed /\ kind' = kind
  BY KindStays
<1>n. now \in Nat /\ Lag \in Nat
  BY LagSteps DEF TypeOK
<1>h. hold.open => /\ hold \in Window /\ hold.fireAt \in Nat /\ hold.openedAt \in Nat
                   /\ hold.ceiling \in Nat /\ hold.startedAt \in Nat /\ hold.detectDeadline \in Nat
  BY <1>0, HoldKinds DEF Window
<1>o. NoHold.open = FALSE
  BY DEF NoHold
<1>w. WindowLength \in Nat /\ Longest \in Nat /\ WindowLength <= Longest
  BY WindowTypes
<1>t. hold.open => Limit(hold) \in Nat
  BY <1>h, <1>w DEF Limit, Later
<1>1. CASE LoopStep
  <2>0. now' = now
    BY <1>1, LoopKind
  <2>1. CASE hold' = hold /\ Lag' = Lag
    <3>1. Limit(hold)' = Limit(hold)
      BY <1>0, <2>1 DEF Limit
    <3> QED
      BY <1>0, <2>0, <2>1, <3>1 DEF WindowInv
  <2>2. CASE hold' = NoHold
    BY <1>o, <2>2
  <2>3. ASSUME Due, NEW woke \in BOOLEAN, Lag' = Lag,
               hold' = [open |-> TRUE, fireAt |-> NextFire, openedAt |-> now,
                        ceiling |-> WindowLength,
                        detectDeadline |-> detectDeadlineFor(NextFire, WindowLength),
                        detected |-> FALSE, startedAt |-> 0, woke |-> woke]
        PROVE  WindowInv'
    <3>1. /\ hold'.fireAt = NextFire /\ hold'.openedAt = now /\ hold'.ceiling = WindowLength
          /\ hold'.detectDeadline = detectDeadlineFor(NextFire, WindowLength)
          /\ hold'.detected = FALSE
      BY <2>3
    <3>2. NextFire \in Int /\ now >= NextFire - WakeBuffer /\ now <= NextFire + Later(0, DetectionGrace)
      BY <1>n, <2>3, NextFireType DEF Due, detectDeadlineFor
    <3>3. now <= NextFire + DetectionGrace
      BY <1>n, <3>2, Constants DEF Later
    <3>4. detectDeadlineFor(NextFire, WindowLength) \in Int
          /\ now <= detectDeadlineFor(NextFire, WindowLength)
      BY <1>n, <1>w, <3>2, <3>3, Constants DEF Later, detectDeadlineFor
    <3>5. now <= Later(now, NextFire + WindowLength) /\ Later(now, NextFire + WindowLength) \in Int
      BY <1>n, <1>w, <3>2 DEF Later
    <3>6. Limit(hold)' \in Int /\ now <= Limit(hold)'
      <4>1. Limit(hold)' = IF kind = "pattern" THEN detectDeadlineFor(NextFire, WindowLength)
                           ELSE Later(now, NextFire + WindowLength)
        BY <1>0, <3>1 DEF Limit
      <4> QED
        BY <3>4, <3>5, <4>1
    <3>7. now' <= Limit(hold)' + Lag'
      BY <1>n, <2>0, <2>3, <3>6
    <3> QED
      BY <1>n, <2>0, <3>1, <3>2, <3>3, <3>7, Constants DEF WindowInv
  <2>4. ASSUME hold.open, ~hold.detected, Lag' = Lag, NEW start \in Nat,
               hold' = [hold EXCEPT !.detected = TRUE, !.startedAt = start],
               kind = "pattern" => start = now
        PROVE  WindowInv'
    <3>1. /\ hold'.fireAt = hold.fireAt /\ hold'.openedAt = hold.openedAt
          /\ hold'.ceiling = hold.ceiling /\ hold'.detectDeadline = hold.detectDeadline
          /\ hold'.detected = TRUE /\ hold'.startedAt = start
      BY <1>h, <2>4 DEF Window
    <3>2. Limit(hold)' = Later(hold.openedAt, Later(start, hold.fireAt) + Longest)
      BY <3>1 DEF Limit, Longest
    <3>3. now <= Limit(hold)' + Lag
      <4>1. CASE kind = "pattern"
        BY <1>n, <1>h, <1>w, <2>4, <3>2, <4>1 DEF Later
      <4>2. CASE kind # "pattern"
        <5>1. now <= Later(hold.openedAt, hold.fireAt + hold.ceiling) + Lag
              /\ hold.ceiling = WindowLength
          BY <1>0, <2>4, <4>2 DEF WindowInv, Limit
        <5>2. Later(hold.openedAt, hold.fireAt + hold.ceiling)
                <= Later(hold.openedAt, Later(start, hold.fireAt) + Longest)
          BY <1>h, <1>w, <2>4, <5>1 DEF Later
        <5> QED
          BY <1>n, <1>h, <1>w, <2>4, <3>2, <5>1, <5>2 DEF Later
      <4> QED
        BY <4>1, <4>2
    <3>4. hold'.detectDeadline = detectDeadlineFor(hold'.fireAt, hold'.ceiling)
      BY <1>0, <2>4, <3>1 DEF WindowInv
    <3> QED
      BY <1>0, <2>0, <2>4, <3>1, <3>3, <3>4 DEF WindowInv
  <2>5. ASSUME hold.open, hold' = hold, Lag' = 0, ~expired(hold) \/ Outlasting(hold)
        PROVE  WindowInv'
    <3>1. Limit(hold)' = Limit(hold)
      BY <1>0, <2>5 DEF Limit
    <3>2. CASE ~expired(hold)
      <4>1. now <= Limit(hold)
        <5>1. hold.ceiling = WindowLength
          BY <1>0, <2>5 DEF WindowInv
        <5>2. CASE kind # "pattern"
          <6>1. now <= hold.fireAt + hold.ceiling
            BY <1>n, <1>h, <2>5, <3>2, <5>2 DEF expired, deadline
          <6> QED
            BY <1>n, <1>h, <1>w, <2>5, <5>1, <5>2, <6>1 DEF Limit, Later
        <5>3. CASE kind = "pattern" /\ hold.detected
          <6>1. now <= hold.startedAt + hold.ceiling
            BY <1>n, <1>h, <2>5, <3>2, <5>3 DEF expired, deadline
          <6> QED
            BY <1>n, <1>h, <1>w, <2>5, <5>1, <5>3, <6>1 DEF Limit, Later
        <5>4. CASE kind = "pattern" /\ ~hold.detected
          BY <1>n, <1>h, <2>5, <3>2, <5>4 DEF Limit, expired, deadline
        <5> QED
          BY <5>2, <5>3, <5>4
      <4> QED
        BY <1>0, <1>n, <1>t, <2>0, <2>5, <3>1, <4>1 DEF WindowInv
    <3>3. CASE Outlasting(hold)
      <4>1. hold.detected /\ MaxRuntime = 0 /\ now < hold.startedAt + MaxCeiling
        BY <3>3 DEF Outlasting, hardDeadline
      <4>2. Longest >= MaxCeiling
        BY <4>1, Constants DEF Longest, Later
      <4>3. now <= Limit(hold)
        BY <1>n, <1>h, <1>w, <2>5, <4>1, <4>2, Constants DEF Limit, Later
      <4> QED
        BY <1>0, <1>n, <1>t, <2>0, <2>5, <3>1, <4>3 DEF WindowInv
    <3> QED
      BY <2>5, <3>2, <3>3
  <2> QED
    BY <1>0, <1>1, <2>1, <2>2, <2>3, <2>4, <2>5, WindowPass
<1>2. CASE (CommandStep \/ JobStep \/ OtherHold) \/ UNCHANGED vars
  <2>1. UNCHANGED << kind, now, loop, stall, hold >>
    BY <1>0, <1>2, WindowOthers DEF vars, clockVars, windowVars
  <2> QED
    BY <2>1, LagSteps DEF WindowInv, Limit
<1>3. CASE Advance
  <2>1. hold' = hold /\ now' = now + 1 /\ Lag' = Lag + 1
    BY <1>3, LagSteps DEF Advance, windowVars
  <2>2. Limit(hold)' = Limit(hold)
    BY <1>0, <2>1 DEF Limit
  <2> QED
    BY <1>0, <1>n, <1>h, <1>t, <2>1, <2>2 DEF WindowInv
<1> QED
  BY <1>1, <1>2, <1>3 DEF Next

LEMMA WindowImplies == TypeOK /\ WindowInv => WindowEnds
<1> SUFFICES ASSUME TypeOK, WindowInv, kind \in Windowed, hold.open PROVE WindowEnds
  BY DEF WindowEnds
<1>1. /\ hold.fireAt \in Nat /\ hold.openedAt \in Nat /\ hold.ceiling \in Nat
      /\ hold.startedAt \in Nat
  BY HoldKinds DEF Window
<1>2. now \in Nat /\ Lag \in Nat /\ Lag <= Slack /\ Slack \in Nat
  BY LagSteps, Constants DEF TypeOK, Slack
<1>3. CASE hold.detected
  <2>1. now <= Later(hold.openedAt, Later(hold.startedAt, hold.fireAt) + Longest) + Lag
    BY <1>3 DEF WindowInv, Limit
  <2>2. Longest \in Nat
    BY WindowTypes
  <2>3. now <= Later(hold.openedAt, Later(hold.startedAt, hold.fireAt) + Longest) + Slack
    BY <1>1, <1>2, <2>1, <2>2 DEF Later
  <2> QED
    BY <1>3, <2>3 DEF WindowEnds, Longest
<1>4. CASE ~hold.detected
  <2>1. hold.openedAt <= hold.fireAt + DetectionGrace
        /\ hold.detectDeadline = hold.fireAt + Later(hold.ceiling, DetectionGrace)
    BY DEF WindowInv, detectDeadlineFor
  <2>2. now <= Limit(hold) + Lag
    BY DEF WindowInv
  <2>3. Limit(hold) <= hold.fireAt + Later(hold.ceiling, DetectionGrace) /\ Limit(hold) \in Nat
    BY <1>1, <1>4, <2>1, Constants DEF Limit, Later
  <2>4. hold.fireAt + Later(hold.ceiling, DetectionGrace) \in Nat
    BY <1>1, Constants DEF Later
  <2>5. now <= hold.fireAt + Later(hold.ceiling, DetectionGrace) + Slack
    BY <1>2, <2>2, <2>3, <2>4
  <2> QED
    BY <1>4, <2>5 DEF WindowEnds
<1> QED
  BY <1>3, <1>4

-----------------------------------------------------------------------------
(* Runs. *)

LEMMA RunSteps == TypeOK /\ RunInv /\ [Next]_vars => RunInv'
<1> SUFFICES ASSUME TypeOK, RunInv, [Next]_vars PROVE RunInv'
  OBVIOUS
<1>n. /\ now \in Nat /\ exec.fire \in Nat /\ exec.running \in BOOLEAN
      /\ rec.completedAt \in Nat /\ rec \in [running : BOOLEAN, startedAt : Nat, completedAt : Nat]
      /\ exec \in [running : BOOLEAN, fire : Nat, began : Nat]
  BY DEF TypeOK, JobType
<1>a. ASSUME UNCHANGED << now, exec, rec >> PROVE RunInv'
  BY <1>a DEF RunInv, LastUnit
<1>1. CASE LoopStep
  BY <1>1, <1>a, LoopKind
<1>2. CASE CommandStep \/ OtherHold \/ UNCHANGED vars
  BY <1>2, <1>a DEF CommandStep, StartRun, OpenRunHold, Renew, RenewLost, ReportAgain, EndRun,
                    WrapperKilled, OtherHold, vars, clockVars, jobVars
<1>3. CASE JobBegins
  <2>1. /\ ~exec.running /\ LastFire > exec.fire /\ now <= LastUnit(LastFire) /\ now' = now
        /\ exec' = [running |-> TRUE, fire |-> LastFire, began |-> now]
        /\ rec'.completedAt = rec.completedAt
    BY <1>3, <1>n DEF JobBegins, clockVars
  <2>2. now \div Gap \in Int /\ LastFire = (now \div Gap) * Gap /\ LastFire \in Int
    BY <1>n, Division DEF LastFire
  <2>3. PICK k \in Nat : exec.fire = k * Gap
    BY DEF RunInv
  <2>4. exec.fire + Gap <= LastFire
    BY <2>1, <2>2, <2>3, Multiples
  <2>5. \E j \in Nat : LastFire = j * Gap
    <3>1. ASSUME NEW j \in Int, j < 0 PROVE ~(j * Gap > 0)
      BY <3>1, Constants, SMT
    <3>2. LastFire > 0
      BY <1>n, <2>1, <2>2
    <3>3. now \div Gap >= 0
      BY <2>2, <3>1, <3>2
    <3> QED
      BY <2>2, <3>3
  <2>6. rec.completedAt < LastFire - WakeBuffer
    BY <1>n, <2>1, <2>2, <2>4, Constants DEF RunInv, LastUnit
  <2> QED
    BY <1>n, <2>1, <2>5, <2>6 DEF RunInv, LastUnit
<1>4. CASE JobEnds
  <2>1. /\ exec.running /\ exec'.running = FALSE /\ exec'.fire = exec.fire
        /\ rec'.completedAt = now
    BY <1>4, <1>n DEF JobEnds
  <2> QED
    BY <2>1 DEF RunInv, LastUnit
<1>5. CASE SchedulerDies
  <2>1. /\ exec.running /\ exec'.running = FALSE /\ exec'.fire = exec.fire
        /\ rec' = rec
    BY <1>5, <1>n DEF SchedulerDies
  <2> QED
    BY <1>n, <2>1, Constants DEF RunInv, LastUnit
<1>6. CASE Advance
  <2>1. /\ exec' = exec /\ rec' = rec /\ now' = now + 1
        /\ exec.running => now < LastUnit(exec.fire)
    BY <1>6 DEF Advance, jobVars
  <2>2. LastUnit(exec.fire) \in Int
    BY <1>n, Constants DEF LastUnit
  <2> QED
    BY <1>n, <2>1, <2>2 DEF RunInv, LastUnit
<1> QED
  BY <1>1, <1>2, <1>3, <1>4, <1>5, <1>6 DEF Next, JobStep

LEMMA RunningKept ==
    ASSUME TypeOK, ActorsInv, WindowInv, RunInv, [Next]_vars,
           hold.open, hold.detected, exec.running, exec.fire = hold.fireAt,
           MaxRuntime = 0, now < hold.startedAt + MaxCeiling
    PROVE  hold'.open
<1>0. kind \in Windowed /\ hold \in Window
  BY HoldKinds DEF ActorsInv
<1> USE DEF clockVars, windowVars
<1>w. hold.open = TRUE
  BY <1>0 DEF Window
<1>1. CASE LoopStep
  <2>1. CASE OpenDueWindows
    BY <2>1, Opens DEF Due
  <2>2. CASE PollDetection
    BY <2>2, Polls
  <2>3. CASE Observe
    <3>1. ~(rec.completedAt > hold.openedAt)
      <4>1. rec.completedAt \in Nat /\ hold.openedAt \in Nat /\ hold.fireAt \in Nat
        BY <1>0 DEF TypeOK, JobType, Window
      <4>2. rec.completedAt < hold.fireAt - WakeBuffer
        BY DEF RunInv
      <4>3. hold.fireAt - WakeBuffer <= hold.openedAt
        BY <1>0 DEF WindowInv
      <4> QED
        BY <4>1, <4>2, <4>3, Constants
    <3> QED
      BY <2>3, <3>1, Observes
  <2>4. CASE WatchLate
    BY <2>4, Watches
  <2>5. CASE EnforceCeilings
    <3>1. Outlasting(hold)
      BY DEF Outlasting, hardDeadline
    <3> QED
      BY <2>5, <3>1, Enforces
  <2>6. CASE MaybeSleepBack
    BY <2>6, Sleeps
  <2>7. CASE SleepNow
    BY <2>7 DEF SleepNow
  <2> QED
    BY <1>1, <2>1, <2>2, <2>3, <2>4, <2>5, <2>6, <2>7 DEF LoopStep
<1>2. CASE (CommandStep \/ JobStep \/ OtherHold) \/ UNCHANGED vars
  BY <1>0, <1>2, WindowOthers DEF vars
<1>3. CASE Advance
  BY <1>3 DEF Advance
<1> QED
  BY <1>1, <1>2, <1>3 DEF Next

-----------------------------------------------------------------------------
(* Sleep. *)

LEMMA EarnedGrows ==
    ASSUME NEW a \in Nat, NEW b \in Nat, a <= b, ActorsInv, Earned(a)
    PROVE  Earned(b)
<1>1. PICK w \in closed : w.seen /\ w.woke /\ w.outcome = "ok" /\ a >= w.at + SleepBackGrace
  BY DEF Earned
<1>2. w.at \in Nat
  BY DEF ActorsInv
<1>3. b >= w.at + SleepBackGrace
  BY <1>1, <1>2, Constants
<1> QED
  BY <1>1, <1>3 DEF Earned

\* What is earned stays so while no window is forgotten.
LEMMA EarnedStays ==
    ASSUME NEW at, closed \subseteq closed', Earned(at)
    PROVE  \E w \in closed' : w.seen /\ w.woke /\ w.outcome = "ok" /\ at >= w.at + SleepBackGrace
  BY DEF Earned

LEMMA SleepFinish ==
    ASSUME TypeOK, ActorsInv, SleepInv, NEW h, NEW outcome, NEW endedAt,
           Finish(h, outcome, endedAt), UNCHANGED << now, other >>,
           loop # "sleep", loop' # "sleep"
    PROVE  SleepInv'
<1>1. hold' = NoHold /\ ~hold'.open
  BY Finishes DEF NoHold
<1>2. sleepBack \in [at : Nat, decided : BOOLEAN, crossed : BOOLEAN] /\ now \in Nat
  BY DEF TypeOK
<1>3. ~sleepBack.decided
  BY DEF SleepInv
<1>4. sleepBack'.decided = sleepBack.decided
  BY <1>2, Finishes
<1>5. sleepBack'.at # 0 => Earned(sleepBack.at)'
  <2>1. CASE sleepBack' = sleepBack
    BY <2>1, EarnedStays, Finishes DEF SleepInv, Earned
  <2>2. CASE /\ h.detected /\ outcome = "ok" /\ h.woke
             /\ closed' = closed \cup
                   {[fire |-> h.fireAt, opened |-> h.openedAt, at |-> now,
                     outcome |-> outcome, seen |-> h.detected, woke |-> h.woke]}
             /\ sleepBack' = [sleepBack EXCEPT !.at = now + SleepBackGrace]
    <3>1. sleepBack'.at = now + SleepBackGrace
      BY <1>2, <2>2
    <3> DEFINE w == [fire |-> h.fireAt, opened |-> h.openedAt, at |-> now,
                     outcome |-> outcome, seen |-> h.detected, woke |-> h.woke]
    <3>2. w \in closed' /\ w.seen /\ w.woke /\ w.outcome = "ok" /\ w.at = now
      BY <2>2
    <3>3. sleepBack'.at >= w.at + SleepBackGrace
      BY <1>2, <3>1, <3>2, Constants
    <3> HIDE DEF w
    <3> QED
      BY <3>2, <3>3 DEF Earned
  <2> QED
    BY <2>1, <2>2, Finishes
<1> QED
  BY <1>3, <1>4, <1>5 DEF SleepInv

LEMMA SleepSteps == TypeOK /\ ActorsInv /\ SleepInv /\ [Next]_vars => SleepInv'
<1> SUFFICES ASSUME TypeOK, ActorsInv, SleepInv, [Next]_vars PROVE SleepInv'
  OBVIOUS
<1> USE DEF clockVars, jobVars, windowVars
<1>n. /\ now \in Nat /\ sleepBack \in [at : Nat, decided : BOOLEAN, crossed : BOOLEAN]
      /\ other \in BOOLEAN
  BY DEF TypeOK
<1>a. ASSUME UNCHANGED << now, hold, closed, other, sleepBack >>,
             loop' = loop \/ (loop # "sleep" /\ loop' # "sleep")
      PROVE  SleepInv'
  BY <1>a DEF SleepInv, Earned
<1>o. ASSUME NEW h, Open(h), UNCHANGED << now, closed, other >>,
             loop' = loop \/ (loop # "sleep" /\ loop' # "sleep")
      PROVE  SleepInv'
  <2>1. sleepBack' = [sleepBack EXCEPT !.crossed = sleepBack.crossed \/ sleepBack.decided]
    BY <1>o DEF Open
  <2>2. sleepBack'.at = sleepBack.at /\ sleepBack'.decided = sleepBack.decided
    BY <1>n, <2>1
  <2>3. sleepBack.decided => sleepBack'.crossed
    BY <1>n, <2>1
  <2> QED
    BY <1>o, <2>2, <2>3 DEF SleepInv, Earned
<1>1. CASE OpenDueWindows
  <2>1. loop # "sleep" /\ loop' # "sleep" /\ UNCHANGED << now, closed, other >>
    BY <1>1, Opens
  <2> QED
    BY <1>1, <1>a, <1>o, <2>1, Opens
<1>2. CASE PollDetection
  <2>1. loop # "sleep" /\ loop' # "sleep" /\ UNCHANGED << now, other >>
    BY <1>2, Polls
  <2>2. CASE UNCHANGED windowVars
    BY <1>a, <2>1, <2>2
  <2>3. CASE /\ ~hold.detected /\ hold' = [hold EXCEPT !.detected = TRUE, !.startedAt = now]
             /\ UNCHANGED << closed, sleepBack >>
    BY <2>1, <2>3 DEF SleepInv, Earned
  <2> QED
    BY <1>2, <2>1, <2>2, <2>3, Polls, SleepFinish
<1>3. CASE Observe
  <2>1. loop # "sleep" /\ loop' # "sleep" /\ UNCHANGED << now, other >>
    BY <1>3, Observes
  <2>2. CASE UNCHANGED windowVars
    BY <1>a, <2>1, <2>2
  <2>3. CASE UNCHANGED << closed, sleepBack >>
    BY <2>1, <2>3 DEF SleepInv, Earned
  <2>4. ASSUME Finish([hold EXCEPT !.detected = TRUE, !.startedAt =
                              IF hold.detected THEN hold.startedAt ELSE InferredStart],
                      "ok", rec.completedAt)
        PROVE SleepInv'
    BY <2>1, <2>4, SleepFinish
  <2> QED
    BY <1>3, <2>1, <2>2, <2>3, <2>4, Observes
<1>4. CASE WatchLate
  BY <1>4, <1>a, Watches
<1>5. CASE EnforceCeilings
  <2>1. loop # "sleep" /\ loop' # "sleep" /\ UNCHANGED << now, other >>
    BY <1>5, Enforces
  <2>2. ASSUME NEW outcome, Finish(hold, outcome, 0) PROVE SleepInv'
    BY <2>1, <2>2, SleepFinish
  <2> QED
    BY <1>5, <1>a, <2>1, <2>2, Enforces
<1>6. CASE MaybeSleepBack
  <2>1. loop = "sleepback" /\ UNCHANGED << now, hold, closed, other >> /\ ~sleepBack.decided
    BY <1>6, Sleeps DEF SleepInv
  <2>2. CASE loop' = "idle" /\ UNCHANGED sleepBack
    BY <1>a, <2>1, <2>2
  <2>3. CASE loop' = "idle" /\ sleepBack' = [sleepBack EXCEPT !.at = 0]
    <3>1. sleepBack'.at = 0 /\ sleepBack'.decided = sleepBack.decided
      BY <1>n, <2>3
    <3> QED
      BY <2>1, <2>3, <3>1 DEF SleepInv
  <2>4. CASE /\ sleepBack.at # 0 /\ ~(now < sleepBack.at) /\ ~hold.open /\ ~other
             /\ loop' = "sleep"
             /\ sleepBack' = [sleepBack EXCEPT !.at = 0, !.decided = TRUE, !.crossed = FALSE]
    <3>1. sleepBack'.at = 0 /\ sleepBack'.decided = TRUE
      BY <1>n, <2>4
    <3>2. sleepBack.at \in Nat /\ sleepBack.at <= now
      BY <1>n, <2>4
    <3>3. Earned(now)
      BY <1>n, <2>4, <3>2, EarnedGrows DEF SleepInv
    <3>4. Earned(now)'
      BY <2>1, <3>3 DEF Earned
    <3> QED
      BY <2>1, <2>4, <3>1, <3>4 DEF SleepInv
  <2> QED
    BY <1>6, <2>2, <2>3, <2>4, Sleeps
<1>7. CASE SleepNow
  <2>1. loop' = "idle" /\ UNCHANGED << now, hold, closed, other >>
        /\ sleepBack' = [sleepBack EXCEPT !.decided = FALSE]
    BY <1>7 DEF SleepNow
  <2>2. sleepBack'.at = sleepBack.at /\ sleepBack'.decided = FALSE
    BY <1>n, <2>1
  <2> QED
    BY <2>1, <2>2 DEF SleepInv, Earned
<1>8. CASE OpenRunHold
  <2>1. PICK h : Open(h)
    BY <1>8, OpensRunHold
  <2> QED
    BY <1>8, <1>o, <2>1, OpensRunHold
<1>9. CASE Renew \/ ReportAgain
  <2>0. UNCHANGED << now, loop, closed, other, sleepBack >>
    BY <1>9, Renews
  <2>1. ASSUME NEW l, hold.open, hold' = Renewed(hold, l) PROVE hold'.open = hold.open
    BY <2>1, HoldKinds DEF Renewed, RunHold, Window
  <2>2. hold'.open = hold.open
    BY <1>9, <2>1, Renews
  <2> QED
    BY <2>0, <2>2 DEF SleepInv, Earned
<1>10. CASE EndRun
  <2>1. kind \in Wrapped /\ UNCHANGED << now, loop, other >>
    BY <1>10 DEF EndRun, ActorsInv
  <2>2. CASE UNCHANGED windowVars
    BY <1>a, <2>1, <2>2
  <2>3. CASE Finish(hold, "ok", 0)
    <3>1. hold' = NoHold /\ ~hold'.open /\ UNCHANGED << closed, sleepBack >>
      BY <2>1, <2>3, Finishes DEF NoHold
    <3> QED
      BY <2>1, <3>1 DEF SleepInv, Earned
  <2> QED
    BY <1>10, <2>2, <2>3 DEF EndRun
<1>11. CASE StartRun \/ RenewLost \/ WrapperKilled \/ JobStep \/ UNCHANGED vars
  BY <1>11, <1>a DEF StartRun, RenewLost, WrapperKilled, JobStep, JobBegins, JobEnds, SchedulerDies, vars
<1>12. CASE OtherHold
  <2>1. UNCHANGED << now, loop, hold, closed >> /\ other' = ~other
        /\ sleepBack' = [sleepBack EXCEPT !.crossed =
                            sleepBack.crossed \/ (sleepBack.decided /\ ~other)]
    BY <1>12 DEF OtherHold
  <2>2. sleepBack'.at = sleepBack.at /\ sleepBack'.decided = sleepBack.decided
        /\ (sleepBack'.crossed <=> sleepBack.crossed \/ (sleepBack.decided /\ ~other))
    BY <1>n, <2>1
  <2> QED
    BY <2>1, <2>2 DEF SleepInv, Earned
<1>13. CASE Advance
  <2>1. loop # "sleep" /\ loop' # "sleep" /\ UNCHANGED << hold, closed, other, sleepBack >>
    BY <1>13 DEF Advance
  <2> QED
    BY <2>1 DEF SleepInv, Earned
<1> QED
  BY <1>1, <1>2, <1>3, <1>4, <1>5, <1>6, <1>7, <1>8, <1>9, <1>10, <1>11, <1>12, <1>13
     DEF Next, LoopStep, CommandStep

-----------------------------------------------------------------------------
(* What the scheduler's records say, and what is learned from them. *)

\* A window, and the watch that may follow it, are over before the next fire: the window's
\* longest wait for its job, and then the longest the job is held or watched for.
FarApart ==
    Gap > Later(WindowLength, DetectionGrace) + Slack + Later(Longest + Slack, LateHour)

\* How far behind the looks at an open window's record and at a closed one's are.
SeenLag == IF loop \in {"open", "detect", "observe"} THEN 1 + stall ELSE 0
WatchLag == IF loop \in {"open", "detect", "observe", "watch"} THEN 1 + stall ELSE 0

Run == [fire : Nat, began : Nat, ended : Nat]
IsFire(f) == \E k \in Nat : f = k * Gap

\* The scheduler's record is of the last run, and each fire has one run.
RecordInv ==
    /\ exec.fire <= exec.began /\ exec.began <= now /\ rec.startedAt <= now /\ deaths \in Nat
    /\ rec.completedAt <= now
    /\ ran \subseteq Run
    /\ \A x \in ran : /\ IsFire(x.fire) /\ x.fire <= x.began /\ x.began < x.ended /\ x.ended <= now
                      /\ x.ended <= LastUnit(x.fire) /\ x.fire <= exec.fire
                      /\ x.fire = exec.fire => /\ ~exec.running /\ ~rec.running
                                               /\ rec.completedAt = x.ended
    /\ rec.completedAt # 0 => \E x \in ran : x.ended = rec.completedAt
    /\ exec.running => exec.fire # 0
    /\ deaths = 0 /\ rec.running => exec.running /\ rec.startedAt = exec.began
    /\ deaths = 0 /\ exec.fire # 0 /\ ~exec.running =>
          \E x \in ran : x.fire = exec.fire /\ x.ended = rec.completedAt /\ x.began = exec.began

\* No run of its own has ended in an open window without the loop's being about to look, and
\* a run that was seen to begin is the scheduler's last.
WaitInv ==
    kind = "observed" /\ hold.open =>
        /\ IsFire(hold.fireAt) /\ hold.fireAt > served
        /\ \A x \in ran : x.fire = hold.fireAt /\ x.ended > hold.openedAt => now <= x.ended + SeenLag
        /\ hold.detected => hold.startedAt <= hold.fireAt + Later(WindowLength, DetectionGrace) + Slack
        /\ deaths = 0 /\ hold.detected => exec.fire = hold.fireAt /\ hold.startedAt = exec.began

\* Only fires whose windows have closed have records.
ServedInv == kind = "observed" => \A r \in records : r.fire \in Nat /\ r.fire <= served

\* The same as WaitInv, for the watch that follows a window that closed unseen.
LateInv ==
    kind = "observed" /\ late.open =>
        /\ IsFire(late.fired) /\ late.fired <= served
        /\ late.fired - WakeBuffer <= late.opened /\ late.opened <= late.closed /\ late.closed <= now
        /\ late.closed <= late.fired + Later(WindowLength, DetectionGrace) + Slack
        /\ now <= late.closed + LateHour + WatchLag
        /\ \A r \in records : r.fire # late.fired
        /\ \A x \in ran : x.fire = late.fired /\ x.ended > late.opened => now <= x.ended + WatchLag

\* A closed window has its record, is still watched, or had no run that ended in time.
LearnedInv ==
    kind = "observed" /\ deaths = 0 =>
        \A w \in closed :
           \/ \E r \in records : r.fire = w.fire
           \/ late.open /\ late.fired = w.fire /\ late.opened = w.opened /\ late.closed = w.at
           \/ /\ now > w.at + LateHour
              /\ \A x \in ran : ~(/\ x.fire = w.fire /\ x.ended > w.opened
                                  /\ x.ended + Slack <= w.at + LateHour)

\* A fire has one record, of its own run and within its own stretch.
TruthInv ==
    kind = "observed" /\ deaths = 0 =>
        /\ \A r, q \in records : r.fire = q.fire => r = q
        /\ \A r \in records : /\ IsFire(r.fire) /\ r.ended \in Nat
                              /\ r.fire - WakeBuffer <= r.ended /\ r.ended < r.fire + Gap
        /\ \A r \in records : r.outcome = "ok" =>
               \E x \in ran : /\ x.fire = r.fire /\ x.ended = r.ended
                              /\ x.fire <= r.started /\ r.started <= x.ended

\* How far the loop is behind the parts of it that look at the records.
LEMMA SeenLags ==
    ASSUME TypeOK
    PROVE  /\ SeenLag \in Nat /\ WatchLag \in Nat /\ SeenLag <= WatchLag /\ WatchLag <= Slack
           /\ Slack \in Nat
           /\ Advance => SeenLag' = SeenLag + 1 /\ WatchLag' = WatchLag + 1
           /\ UNCHANGED << loop, stall >> => SeenLag' = SeenLag /\ WatchLag' = WatchLag
<1> USE DEF SeenLag, WatchLag
<1>1. SeenLag \in Nat /\ WatchLag \in Nat /\ SeenLag <= WatchLag /\ WatchLag <= Slack /\ Slack \in Nat
  BY Constants DEF TypeOK, Slack
<1>2. Advance => SeenLag' = SeenLag + 1 /\ WatchLag' = WatchLag + 1
  BY DEF Advance, TypeOK
<1> QED
  BY <1>1, <1>2

LEMMA FarNumbers ==
    ASSUME FarApart
    PROVE  \E wait \in Nat : /\ wait = Later(WindowLength, DetectionGrace) + Slack
                            /\ Slack <= wait /\ DetectionGrace + Slack <= wait
                            /\ Gap > wait + Longest + Slack /\ Gap > wait + LateHour
<1>1. WindowLength \in Nat /\ Longest \in Nat /\ Slack \in Nat
  BY WindowTypes, Constants DEF Slack
<1> QED
  BY <1>1, Constants DEF FarApart, Later

\* What is watched for has closed well before the next fire.
LEMMA WatchNear ==
    ASSUME LateInv, kind = "observed", late.open, late.fired \in Nat, late.closed \in Nat,
           NEW wait, wait = Later(WindowLength, DetectionGrace) + Slack
    PROVE  late.closed <= late.fired + wait
<1>1. Later(WindowLength, DetectionGrace) \in Nat /\ Slack \in Nat
  BY WindowTypes, Constants DEF Slack, Later
<1>2. late.closed <= late.fired + Later(WindowLength, DetectionGrace) + Slack
  BY DEF LateInv
<1> QED
  BY <1>1, <1>2

LEMMA FireSteps ==
    ASSUME NEW f, NEW g, IsFire(f), IsFire(g)
    PROVE  f \in Nat /\ g \in Nat /\ (f < g => f + Gap <= g)
<1>1. PICK j \in Nat : f = j * Gap
  BY DEF IsFire
<1>2. PICK k \in Nat : g = k * Gap
  BY DEF IsFire
<1>3. j * Gap \in Nat /\ k * Gap \in Nat
  BY Constants, SMT
<1> QED
  BY <1>1, <1>2, <1>3, Multiples

\* A run is of the fire in whose stretch it ended.
LEMMA RunOf ==
    ASSUME RecordInv, NEW x \in ran, NEW f, IsFire(f),
           f - WakeBuffer <= x.ended, x.ended < f + Gap
    PROVE  x.fire = f
<1>1. /\ x \in Run /\ IsFire(x.fire) /\ x.fire <= x.began /\ x.began < x.ended
      /\ x.ended <= LastUnit(x.fire)
  BY DEF RecordInv
<1>2. x.fire \in Nat /\ x.began \in Nat /\ x.ended \in Nat
  BY <1>1 DEF Run
<1>3. f \in Nat /\ (f < x.fire => f + Gap <= x.fire) /\ (x.fire < f => x.fire + Gap <= f)
  BY <1>1, FireSteps
<1> QED
  BY <1>1, <1>2, <1>3, Constants DEF LastUnit

LEMMA RecordSteps == TypeOK /\ RunInv /\ RecordInv /\ [Next]_vars => RecordInv'
<1> SUFFICES ASSUME TypeOK, RunInv, RecordInv, [Next]_vars PROVE RecordInv'
  OBVIOUS
<1>n. /\ now \in Nat /\ exec.fire \in Nat /\ exec.began \in Nat /\ rec.completedAt \in Nat
      /\ rec.startedAt \in Nat /\ deaths \in Nat
      /\ rec \in [running : BOOLEAN, startedAt : Nat, completedAt : Nat]
      /\ exec \in [running : BOOLEAN, fire : Nat, began : Nat]
  BY DEF TypeOK, JobType, RecordInv
<1>r. \A x \in ran : x.fire \in Nat /\ x.began \in Nat /\ x.ended \in Nat
  BY DEF RecordInv, Run
<1>a. ASSUME UNCHANGED << now, exec, rec, ran, deaths >> PROVE RecordInv'
  BY <1>a DEF RecordInv, LastUnit, IsFire, Run
<1>1. CASE LoopStep
  <2>1. UNCHANGED << now, exec, rec >>
    BY <1>1, LoopKind
  <2>2. UNCHANGED << ran, deaths >>
    <3>1. OpenDueWindows \/ PollDetection \/ Observe \/ WatchLate => UNCHANGED << ran, deaths >>
      BY Opens, Polls, Observes, Watches DEF jobVars
    <3>2. EnforceCeilings \/ MaybeSleepBack \/ SleepNow => UNCHANGED << ran, deaths >>
      BY Enforces, Sleeps DEF jobVars, SleepNow
    <3> QED
      BY <1>1, <3>1, <3>2 DEF LoopStep
  <2> QED
    BY <1>a, <2>1, <2>2
<1>2. CASE CommandStep \/ OtherHold \/ UNCHANGED vars
  BY <1>2, <1>a DEF CommandStep, StartRun, OpenRunHold, Renew, RenewLost, ReportAgain, EndRun,
                    WrapperKilled, OtherHold, vars, clockVars, jobVars
<1>3. CASE JobBegins
  <2>1. /\ ~exec.running /\ LastFire > exec.fire /\ UNCHANGED << now, ran, deaths >>
        /\ exec' = [running |-> TRUE, fire |-> LastFire, began |-> now]
    BY <1>3 DEF JobBegins, clockVars
  <2>2. LastFire \in Int /\ LastFire <= now
    BY <1>n, Division DEF LastFire
  <2>3. /\ rec'.completedAt = rec.completedAt /\ rec'.startedAt <= now
        /\ deaths = 0 /\ rec'.running => rec'.startedAt = now
    <3>1. CASE rec' = [rec EXCEPT !.running = TRUE, !.startedAt = now]
      BY <1>n, <3>1
    <3>2. CASE rec' = rec
      BY <2>1, <3>2 DEF RecordInv
    <3> QED
      BY <1>3, <3>1, <3>2 DEF JobBegins
  <2>4. /\ exec'.running = TRUE /\ exec'.fire = LastFire /\ exec'.began = now
    BY <2>1
  <2>5. \A x \in ran : x.fire < LastFire
    BY <1>n, <1>r, <2>1, <2>2 DEF RecordInv
  <2>6. ran' \subseteq Run
    BY <2>1 DEF RecordInv, Run
  <2>7. \A x \in ran' : /\ IsFire(x.fire) /\ x.fire <= x.began /\ x.began < x.ended /\ x.ended <= now'
                       /\ x.ended <= LastUnit(x.fire) /\ x.fire <= exec'.fire
                       /\ x.fire # exec'.fire
    BY <1>r, <2>1, <2>2, <2>4, <2>5 DEF RecordInv
  <2>8. rec'.completedAt # 0 => \E x \in ran' : x.ended = rec'.completedAt
    BY <2>1, <2>3 DEF RecordInv
  <2>9. exec'.fire <= exec'.began /\ exec'.began <= now' /\ rec'.completedAt <= now' /\ exec'.fire # 0
    BY <1>n, <2>1, <2>2, <2>3, <2>4 DEF RecordInv
  <2> QED
    BY <1>n, <2>1, <2>3, <2>4, <2>6, <2>7, <2>8, <2>9 DEF RecordInv, IsFire, LastUnit
<1>4. CASE JobEnds
  <2> DEFINE y == [fire |-> exec.fire, began |-> exec.began, ended |-> now]
  <2>1. /\ exec.running /\ now > exec.began /\ UNCHANGED << now, deaths >>
        /\ exec'.running = FALSE /\ exec'.fire = exec.fire /\ exec'.began = exec.began
        /\ rec' = [running |-> FALSE, startedAt |-> 0, completedAt |-> now]
        /\ ran' = ran \cup {y}
    BY <1>4, <1>n DEF JobEnds, clockVars
  <2>2. /\ y \in Run /\ y.fire = exec.fire /\ y.began = exec.began /\ y.ended = now
    BY <1>n DEF Run
  <2>3. IsFire(exec.fire) /\ now <= LastUnit(exec.fire)
    BY <2>1 DEF RunInv, IsFire
  <2> HIDE DEF y
  <2>4. ASSUME NEW x \in ran'
        PROVE  /\ IsFire(x.fire) /\ x.fire <= x.began /\ x.began < x.ended /\ x.ended <= now'
               /\ x.ended <= LastUnit(x.fire) /\ x.fire <= exec'.fire
               /\ x.fire = exec'.fire => /\ ~exec'.running /\ ~rec'.running
                                        /\ rec'.completedAt = x.ended
    <3>1. CASE x = y
      BY <1>n, <2>1, <2>2, <2>3, <3>1 DEF RecordInv
    <3>2. CASE x \in ran
      BY <2>1, <3>2 DEF RecordInv
    <3> QED
      BY <2>1, <2>4, <3>1, <3>2
  <2>5. ran' \subseteq Run
    BY <2>1, <2>2 DEF RecordInv
  <2>6. y \in ran' /\ y.ended = rec'.completedAt /\ y.fire = exec'.fire /\ y.began = exec'.began
    BY <2>1, <2>2
  <2>7. exec'.fire <= exec'.began /\ exec'.began <= now' /\ rec'.startedAt <= now' /\ deaths' \in Nat
        /\ rec'.completedAt <= now' /\ ~exec'.running /\ ~rec'.running
    BY <1>n, <2>1 DEF RecordInv
  <2> QED
    BY <2>4, <2>5, <2>6, <2>7 DEF RecordInv, IsFire, LastUnit, Run
<1>5. CASE SchedulerDies
  <2>1. /\ exec.running /\ exec'.running = FALSE /\ exec'.fire = exec.fire /\ exec'.began = exec.began
        /\ UNCHANGED << rec, ran, now >> /\ deaths' = deaths + 1
    BY <1>5, <1>n DEF SchedulerDies, clockVars
  <2>2. \A x \in ran : x.fire # exec.fire
    BY <2>1 DEF RecordInv
  <2>3. deaths' \in Nat /\ deaths' # 0
    BY <1>n, <2>1
  <2> QED
    BY <1>n, <2>1, <2>2, <2>3 DEF RecordInv, IsFire, LastUnit, Run
<1>6. CASE Advance
  <2>1. UNCHANGED << exec, rec, ran, deaths >> /\ now' = now + 1
    BY <1>6 DEF Advance, jobVars
  <2>2. /\ exec.began <= now' /\ rec.startedAt <= now' /\ rec.completedAt <= now'
        /\ \A x \in ran : x.ended <= now'
    BY <1>n, <1>r, <2>1 DEF RecordInv
  <2> QED
    BY <2>1, <2>2 DEF RecordInv, IsFire, LastUnit, Run
<1> QED
  BY <1>1, <1>2, <1>3, <1>4, <1>5, <1>6 DEF Next, JobStep

\* An observed job's behaviours, and the invariant of what is learned from them.
Observed == TypeOK /\ ActorsInv /\ WindowInv /\ RunInv /\ RecordInv /\ kind = "observed"
LearnInv == WaitInv /\ ServedInv /\ LateInv /\ LearnedInv /\ TruthInv

LEMMA ObservedTypes ==
    ASSUME Observed
    PROVE  /\ kind \in Windowed /\ kind \notin Wrapped /\ kind # "pattern"
           /\ now \in Nat /\ served \in Nat /\ deaths \in Nat
           /\ rec.completedAt \in Nat /\ rec.startedAt \in Nat
           /\ exec.fire \in Nat /\ exec.began \in Nat
           /\ hold.open => /\ hold \in Window /\ hold.fireAt \in Nat /\ hold.openedAt \in Nat
                           /\ hold.startedAt \in Nat /\ hold.detected \in BOOLEAN
           /\ late.open => /\ late.opened \in Nat /\ late.closed \in Nat /\ late.fired \in Nat
           /\ \A x \in ran : x.fire \in Nat /\ x.began \in Nat /\ x.ended \in Nat
           /\ \A w \in closed : w.at \in Nat
<1>1. kind \in Windowed /\ kind \notin Wrapped /\ kind # "pattern"
  BY DEF Observed, Windowed, Wrapped
<1>2. /\ now \in Nat /\ served \in Nat /\ deaths \in Nat
      /\ rec.completedAt \in Nat /\ rec.startedAt \in Nat
      /\ exec.fire \in Nat /\ exec.began \in Nat
  BY DEF Observed, TypeOK, JobType, RecordInv
<1>3. hold.open => /\ hold \in Window /\ hold.fireAt \in Nat /\ hold.openedAt \in Nat
                   /\ hold.startedAt \in Nat /\ hold.detected \in BOOLEAN
  BY <1>1, HoldKinds DEF Observed, Window
<1>4. late.open => late.opened \in Nat /\ late.closed \in Nat /\ late.fired \in Nat
  <2>1. NoHold.open = FALSE
    BY DEF NoHold
  <2> QED
    BY <2>1 DEF Observed, TypeOK, JobType, Watch
<1>5. \A x \in ran : x.fire \in Nat /\ x.began \in Nat /\ x.ended \in Nat
  BY DEF Observed, RecordInv, Run
<1>6. \A w \in closed : w.at \in Nat
  BY DEF Observed, ActorsInv
<1> QED
  BY <1>1, <1>2, <1>3, <1>4, <1>5, <1>6

\* A window is over well before the next fire.
LEMMA WindowNear ==
    ASSUME FarApart, Observed, WaitInv, hold.open
    PROVE  /\ now < hold.fireAt + Gap
           /\ ~hold.detected =>
                 now <= hold.fireAt + Later(WindowLength, DetectionGrace) + Slack
<1>t. /\ now \in Nat /\ hold.fireAt \in Nat /\ hold.openedAt \in Nat /\ hold.startedAt \in Nat
      /\ kind \in Windowed /\ hold.detected \in BOOLEAN
  BY ObservedTypes
<1>1. PICK wait \in Nat : /\ wait = Later(WindowLength, DetectionGrace) + Slack
                           /\ Slack <= wait /\ DetectionGrace + Slack <= wait
                           /\ Gap > wait + Longest + Slack /\ Gap > wait + LateHour
  BY FarNumbers
<1>c. Longest \in Nat /\ Slack \in Nat /\ Later(WindowLength, DetectionGrace) \in Nat
  BY WindowTypes, Constants DEF Slack, Later
<1>2. hold.ceiling = WindowLength /\ hold.openedAt <= hold.fireAt + DetectionGrace
  BY <1>t DEF Observed, WindowInv
<1>3. WindowEnds
  BY WindowImplies DEF Observed
<1>4. CASE ~hold.detected
  <2>1. now <= hold.fireAt + Later(WindowLength, DetectionGrace) + Slack
    BY <1>t, <1>2, <1>3, <1>4 DEF WindowEnds
  <2>2. now <= hold.fireAt + wait
    BY <1>t, <1>1, <1>c, <2>1
  <2> QED
    BY <1>t, <1>1, <1>c, <2>1, <2>2, Constants
<1>5. CASE hold.detected
  <2>1. now <= Later(hold.openedAt, Later(hold.startedAt, hold.fireAt) + Longest) + Slack
    BY <1>t, <1>3, <1>5 DEF WindowEnds, Longest
  <2>2. hold.startedAt <= hold.fireAt + wait
    <3>1. hold.startedAt <= hold.fireAt + Later(WindowLength, DetectionGrace) + Slack
      BY <1>5 DEF WaitInv, Observed
    <3> QED
      BY <1>t, <1>c, <1>1, <3>1
  <2>3. Later(hold.openedAt, Later(hold.startedAt, hold.fireAt) + Longest) \in Nat
        /\ Later(hold.openedAt, Later(hold.startedAt, hold.fireAt) + Longest)
              <= hold.fireAt + wait + Longest
    BY <1>t, <1>1, <1>c, <1>2, <2>2, Constants DEF Later
  <2> QED
    BY <1>t, <1>1, <1>c, <1>5, <2>1, <2>3, Constants
<1> QED
  BY <1>t, <1>4, <1>5

\* The run of the fire that a window waits for, if there is one, is the last.
LEMMA LastRun ==
    ASSUME Observed, NEW x \in ran, NEW f, IsFire(f), x.fire = f, now < f + Gap
    PROVE  exec.fire = f /\ ~exec.running /\ ~rec.running /\ rec.completedAt = x.ended
<1>1. IsFire(exec.fire)
  BY DEF Observed, RunInv, IsFire
<1>2. f <= exec.fire /\ exec.fire <= exec.began /\ exec.began <= now
  BY DEF Observed, RecordInv
<1>t. now \in Nat /\ exec.fire \in Nat /\ exec.began \in Nat /\ Gap \in Nat
  BY ObservedTypes, Constants
<1>f. f \in Nat /\ (f < exec.fire => f + Gap <= exec.fire)
  BY <1>1, FireSteps
<1>3. exec.fire = f
  BY <1>2, <1>t, <1>f
<1> QED
  BY <1>3 DEF Observed, RecordInv

\* The running job is the one that its window waits for.
LEMMA RunningRun ==
    ASSUME Observed, exec.running, NEW f, IsFire(f), f - WakeBuffer <= now, now < f + Gap
    PROVE  exec.fire = f
<1>1. IsFire(exec.fire)
  BY DEF Observed, RunInv, IsFire
<1>2. exec.fire <= exec.began /\ exec.began <= now
  BY DEF Observed, RecordInv
<1>3. now <= exec.fire + Gap - WakeBuffer - 1
  BY DEF Observed, RunInv, LastUnit
<1>t. now \in Nat /\ exec.fire \in Nat /\ exec.began \in Nat /\ Gap \in Nat /\ WakeBuffer \in Nat
  BY ObservedTypes, Constants
<1>f. f \in Nat /\ (f < exec.fire => f + Gap <= exec.fire) /\ (exec.fire < f => exec.fire + Gap <= f)
  BY <1>1, FireSteps
<1> QED
  BY <1>2, <1>3, <1>t, <1>f

LEMMA WaitKept ==
    ASSUME WaitInv, UNCHANGED << kind, now, hold, served, ran, exec, deaths >>, SeenLag' = SeenLag
    PROVE  WaitInv'
  BY DEF WaitInv, IsFire

LEMMA LateKept ==
    ASSUME LateInv, UNCHANGED << kind, now, late, served, records, ran >>, WatchLag' = WatchLag
    PROVE  LateInv'
  BY DEF LateInv, IsFire

LEMMA LearnedKept ==
    ASSUME LearnedInv, UNCHANGED << kind, now, late, closed, records, ran, deaths >>
    PROVE  LearnedInv'
  BY DEF LearnedInv

LEMMA TruthKept ==
    ASSUME TruthInv, UNCHANGED << kind, records, ran, deaths >>
    PROVE  TruthInv'
  BY DEF TruthInv, IsFire

LEMMA LearnKept ==
    ASSUME Observed, LearnInv,
           UNCHANGED << kind, now, hold, served, records, closed, late, ran, exec, deaths >>,
           SeenLag' = SeenLag, WatchLag' = WatchLag
    PROVE  LearnInv'
<1>1. ServedInv'
  BY DEF LearnInv, ServedInv
<1> QED
  BY <1>1, WaitKept, LateKept, LearnedKept, TruthKept DEF LearnInv

\* A window that opens has no run to wait for yet.
LEMMA OpenLearns ==
    ASSUME Observed, LearnInv, OpenDueWindows PROVE LearnInv'
<1>1. /\ UNCHANGED << kind, now, stall, served, exec, rec, ran, deaths, late, records, closed >>
      /\ loop = "open" /\ loop' = "detect"
  BY Opens DEF clockVars, jobVars
<1>2. SeenLag' = SeenLag /\ WatchLag' = WatchLag
  BY <1>1 DEF SeenLag, WatchLag
<1>3. CASE UNCHANGED hold
  BY <1>1, <1>2, <1>3, LearnKept
<1>4. CASE Due /\ \E h : Open(h) /\ h.fireAt = NextFire /\ h.openedAt = now /\ h.detected = FALSE
  <2>1. PICK h : Open(h) /\ h.fireAt = NextFire /\ h.openedAt = now /\ h.detected = FALSE
    BY <1>4
  <2>2. hold' = h
    BY <2>1 DEF Open
  <2>3. NextFire > served /\ served \in Nat /\ now \in Nat /\ SeenLag \in Nat
    BY <1>4, ObservedTypes, SeenLags DEF Due, Observed
  <2>4. IsFire(NextFire)
    <3>1. PICK k \in Int : NextFire = k * Gap
      BY <2>3, NextFireType
    <3>2. k * Gap > 0 /\ Gap \in Nat /\ Gap > 0
      BY <2>3, <3>1, Constants
    <3>3. k \in Nat
      BY <3>2, SMT
    <3> QED
      BY <3>1, <3>3 DEF IsFire
  <2>5. \A x \in ran : ~(x.ended > now)
    <3>1. \A x \in ran : x.ended <= now /\ x.ended \in Nat
      BY ObservedTypes DEF Observed, RecordInv
    <3> QED
      BY <2>3, <3>1
  <2>6. WaitInv'
    BY <1>1, <2>1, <2>2, <2>3, <2>4, <2>5 DEF WaitInv, IsFire
  <2>7. ServedInv'
    BY <1>1 DEF LearnInv, ServedInv
  <2> QED
    BY <1>1, <1>2, <2>6, <2>7, LateKept, LearnedKept, TruthKept DEF LearnInv
<1>5. \/ UNCHANGED hold
      \/ Due /\ \E h : Open(h) /\ h.fireAt = NextFire /\ h.openedAt = now /\ h.detected = FALSE
  <2> DEFINE New(woke) == [open |-> TRUE, fireAt |-> NextFire, openedAt |-> now,
                  ceiling |-> WindowLength,
                  detectDeadline |-> detectDeadlineFor(NextFire, WindowLength),
                  detected |-> FALSE, startedAt |-> 0, woke |-> woke]
  <2>1. ASSUME NEW woke \in BOOLEAN, Open(New(woke))
        PROVE  \E h : Open(h) /\ h.fireAt = NextFire /\ h.openedAt = now /\ h.detected = FALSE
    <3>1. New(woke).fireAt = NextFire /\ New(woke).openedAt = now /\ New(woke).detected = FALSE
      OBVIOUS
    <3> QED
      BY <2>1, <3>1
  <2> QED
    BY <2>1, Opens
<1> QED
  BY <1>3, <1>4, <1>5

\* A run that begins, ends or is cut short leaves what is waited for in place.
LEMMA JobSteps ==
    ASSUME FarApart, Observed, LearnInv, JobStep, Observed' PROVE LearnInv'
<1>1. UNCHANGED << kind, now, loop, stall, hold, served, late, records, closed >>
  BY DEF JobStep, JobBegins, JobEnds, SchedulerDies, clockVars, windowVars
<1>2. SeenLag' = SeenLag /\ WatchLag' = WatchLag /\ SeenLag \in Nat /\ WatchLag \in Nat /\ Slack \in Nat
  BY <1>1, SeenLags DEF SeenLag, WatchLag, Observed
<1>t. now \in Nat /\ kind = "observed"
  BY ObservedTypes DEF Observed
<1>s. ServedInv'
  BY <1>1 DEF LearnInv, ServedInv
<1>3. CASE JobBegins
  <2>1. UNCHANGED << ran, deaths >> /\ exec'.fire = LastFire /\ LastFire > exec.fire
    BY <1>3 DEF JobBegins
  <2>2. WaitInv'
    <3>1. ASSUME hold.open, hold.detected, deaths = 0 PROVE FALSE
      <4>1. exec.fire = hold.fireAt /\ IsFire(hold.fireAt)
        BY <1>t, <3>1 DEF LearnInv, WaitInv
      <4>2. now < hold.fireAt + Gap /\ hold.fireAt \in Nat
        BY <3>1, WindowNear, ObservedTypes DEF LearnInv
      <4>3. IsFire(exec'.fire) /\ exec'.fire <= now
        <5>1. IsFire(exec.fire)'
          BY DEF Observed, RunInv, IsFire
        <5>2. LastFire <= now
          BY <1>t, Division DEF LastFire
        <5> QED
          BY <2>1, <5>1, <5>2 DEF IsFire
      <4>4. exec'.fire \in Nat /\ (hold.fireAt < exec'.fire => hold.fireAt + Gap <= exec'.fire)
        BY <4>1, <4>3, FireSteps
      <4> QED
        BY <1>t, <2>1, <4>1, <4>2, <4>3, <4>4, Constants
    <3> QED
      BY <1>1, <1>2, <2>1, <3>1 DEF LearnInv, WaitInv, IsFire
  <2> QED
    BY <1>1, <1>2, <1>s, <2>1, <2>2, LateKept, LearnedKept, TruthKept DEF LearnInv
<1>4. CASE JobEnds
  <2> DEFINE y == [fire |-> exec.fire, began |-> exec.began, ended |-> now]
  <2>1. /\ ran' = ran \cup {y} /\ UNCHANGED deaths
        /\ exec'.fire = exec.fire /\ exec'.began = exec.began
    BY <1>4 DEF JobEnds, Observed, TypeOK, JobType
  <2>2. y.ended = now
    OBVIOUS
  <2> HIDE DEF y
  <2>3. WaitInv'
    BY <1>1, <1>2, <1>t, <2>1, <2>2 DEF LearnInv, WaitInv, IsFire
  <2>4. LateInv'
    BY <1>1, <1>2, <1>t, <2>1, <2>2 DEF LearnInv, LateInv, IsFire
  <2>5. LearnedInv'
    <3>1. ASSUME NEW w \in closed, now > w.at + LateHour
          PROVE  ~(y.ended + Slack <= w.at + LateHour)
      BY <1>t, <1>2, <2>2, <3>1, ObservedTypes, Constants
    <3>2. ASSUME deaths = 0, NEW w \in closed
          PROVE  \/ \E r \in records : r.fire = w.fire
                 \/ late.open /\ late.fired = w.fire /\ late.opened = w.opened /\ late.closed = w.at
                 \/ /\ now > w.at + LateHour
                    /\ \A x \in ran \cup {y} : ~(/\ x.fire = w.fire /\ x.ended > w.opened
                                                /\ x.ended + Slack <= w.at + LateHour)
      BY <1>t, <3>1, <3>2 DEF LearnInv, LearnedInv
    <3> QED
      BY <1>1, <2>1, <3>2 DEF LearnedInv
  <2>6. TruthInv'
    BY <1>1, <2>1 DEF LearnInv, TruthInv, IsFire
  <2> QED
    BY <1>s, <2>3, <2>4, <2>5, <2>6 DEF LearnInv
<1>5. CASE SchedulerDies
  <2>1. UNCHANGED ran /\ deaths' = deaths + 1 /\ deaths \in Nat
    BY <1>5, ObservedTypes DEF SchedulerDies
  <2>2. deaths' # 0
    BY <2>1
  <2>3. WaitInv'
    BY <1>1, <1>2, <2>1, <2>2 DEF LearnInv, WaitInv, IsFire
  <2>4. LearnedInv' /\ TruthInv'
    BY <2>2 DEF LearnedInv, TruthInv
  <2> QED
    BY <1>1, <1>2, <1>s, <2>1, <2>3, <2>4, LateKept DEF LearnInv
<1> QED
  BY <1>3, <1>4, <1>5 DEF JobStep

\* Time passes for the window, the watch and the closed windows alike.
LEMMA TimeLearns ==
    ASSUME Observed, LearnInv, Advance PROVE LearnInv'
<1>1. /\ UNCHANGED << kind, hold, served, late, records, closed, exec, rec, ran, deaths >>
      /\ now' = now + 1
  BY DEF Advance, windowVars, jobVars
<1>2. SeenLag' = SeenLag + 1 /\ WatchLag' = WatchLag + 1 /\ SeenLag \in Nat /\ WatchLag \in Nat
  BY SeenLags DEF Observed
<1>t. now \in Nat /\ kind = "observed" /\ \A x \in ran : x.ended \in Nat
  BY ObservedTypes DEF Observed
<1>3. WaitInv'
  BY <1>1, <1>2, <1>t DEF LearnInv, WaitInv, IsFire
<1>4. LateInv'
  <2>1. late.open => late.opened \in Nat /\ late.closed \in Nat /\ late.fired \in Nat
    BY ObservedTypes
  <2> QED
    BY <1>1, <1>2, <1>t, <2>1, Constants DEF LearnInv, LateInv, IsFire
<1>5. LearnedInv'
  <2>1. \A w \in closed : now > w.at + LateHour => now + 1 > w.at + LateHour
    BY <1>t, ObservedTypes, Constants
  <2> QED
    BY <1>1, <1>t, <2>1 DEF LearnInv, LearnedInv
<1>6. ServedInv'
  BY <1>1 DEF LearnInv, ServedInv
<1> QED
  BY <1>1, <1>3, <1>4, <1>5, <1>6, TruthKept DEF LearnInv

\* A window that closes with a record of its run.
LEMMA RecordedLearns ==
    ASSUME Observed, LearnInv, hold.open, NEW r, NEW c,
           UNCHANGED << kind, now, late, ran, deaths >>, WatchLag' = WatchLag,
           hold' = NoHold, served' = hold.fireAt,
           records' = records \cup {r}, closed' = closed \cup {c},
           r.fire = hold.fireAt, c.fire = hold.fireAt,
           r.ended \in Nat, hold.fireAt - WakeBuffer <= r.ended, r.ended < hold.fireAt + Gap,
           deaths = 0 /\ r.outcome = "ok" =>
               \E x \in ran : /\ x.fire = r.fire /\ x.ended = r.ended
                              /\ x.fire <= r.started /\ r.started <= x.ended
    PROVE  LearnInv'
<1>t. /\ kind = "observed" /\ served \in Nat /\ hold.fireAt \in Nat
      /\ late.open => late.fired \in Nat
  BY ObservedTypes DEF Observed
<1>1. IsFire(hold.fireAt) /\ hold.fireAt > served
  BY <1>t DEF LearnInv, WaitInv
<1>2. \A q \in records : q.fire \in Nat /\ q.fire <= served
  BY <1>t DEF LearnInv, ServedInv
<1>3. WaitInv'
  BY DEF WaitInv, NoHold
<1>4. \A q \in records : q.fire # hold.fireAt /\ q.fire \in Nat /\ q.fire <= hold.fireAt
  BY <1>t, <1>1, <1>2
<1>5. ServedInv'
  BY <1>t, <1>4 DEF ServedInv
<1>6. LateInv'
  <2>1. late.open => late.fired <= served /\ late.fired <= hold.fireAt /\ late.fired # hold.fireAt
    BY <1>t, <1>1 DEF LearnInv, LateInv
  <2>2. late.open => \A q \in records' : q.fire # late.fired
    BY <1>t, <2>1 DEF LearnInv, LateInv
  <2> QED
    BY <1>t, <2>1, <2>2 DEF LearnInv, LateInv, IsFire
<1>7. LearnedInv'
  <2>1. ASSUME deaths = 0, NEW w \in closed'
        PROVE  \/ \E q \in records' : q.fire = w.fire
               \/ late.open /\ late.fired = w.fire /\ late.opened = w.opened /\ late.closed = w.at
               \/ /\ now > w.at + LateHour
                  /\ \A x \in ran : ~(/\ x.fire = w.fire /\ x.ended > w.opened
                                      /\ x.ended + Slack <= w.at + LateHour)
    <3>1. CASE w = c
      BY <3>1
    <3>2. CASE w \in closed
      BY <1>t, <2>1, <3>2 DEF LearnInv, LearnedInv
    <3> QED
      BY <2>1, <3>1, <3>2
  <2> QED
    BY <2>1 DEF LearnedInv
<1>8. TruthInv'
  <2> SUFFICES ASSUME deaths = 0 PROVE TruthInv'
    BY DEF TruthInv
  <2>1. \A q, p \in records : q.fire = p.fire => q = p
    BY <1>t DEF LearnInv, TruthInv
  <2>2. \A q, p \in records' : q.fire = p.fire => q = p
    BY <2>1, <1>4
  <2>3. \A q \in records' : /\ IsFire(q.fire) /\ q.ended \in Nat
                            /\ q.fire - WakeBuffer <= q.ended /\ q.ended < q.fire + Gap
    BY <1>t, <1>1 DEF LearnInv, TruthInv
  <2>4. \A q \in records' : q.outcome = "ok" =>
           \E x \in ran : /\ x.fire = q.fire /\ x.ended = q.ended
                          /\ x.fire <= q.started /\ q.started <= x.ended
    BY <1>t DEF LearnInv, TruthInv
  <2> QED
    BY <2>2, <2>3, <2>4 DEF TruthInv, IsFire
<1> QED
  BY <1>3, <1>5, <1>6, <1>7, <1>8 DEF LearnInv

\* What Finish does to an observed window whose job was seen.
LEMMA FinishSeen ==
    ASSUME kind \notin Wrapped, NEW h, NEW outcome, NEW endedAt, h.detected,
           Finish(h, outcome, endedAt)
    PROVE  /\ hold' = NoHold /\ served' = h.fireAt
           /\ records' = records \cup {Record(h, outcome, endedAt)}
           /\ \E c : c.fire = h.fireAt /\ closed' = closed \cup {c}
<1> DEFINE c == [fire |-> h.fireAt, opened |-> h.openedAt, at |-> now,
                 outcome |-> outcome, seen |-> h.detected, woke |-> h.woke]
<1>1. c.fire = h.fireAt
  OBVIOUS
<1>2. closed' = closed \cup {c}
  BY DEF Finish
<1>3. hold' = NoHold /\ served' = h.fireAt /\ records' = records \cup {Record(h, outcome, endedAt)}
  BY DEF Finish
<1> QED
  BY <1>1, <1>2, <1>3

\* The completion that an observed window finds is that of its own run.
LEMMA CompletionOwn ==
    ASSUME FarApart, Observed, WaitInv, hold.open, ~rec.running, rec.completedAt > hold.openedAt,
           deaths = 0
    PROVE  LET start == IF hold.detected THEN hold.startedAt ELSE InferredStart
           IN  /\ start \in Nat /\ start < rec.completedAt
               /\ \E x \in ran : /\ x.fire = hold.fireAt /\ x.ended = rec.completedAt
                                 /\ x.fire <= start
<1>t. /\ now \in Nat /\ rec.completedAt \in Nat /\ hold.fireAt \in Nat /\ hold.openedAt \in Nat
      /\ hold.startedAt \in Nat /\ kind = "observed" /\ served \in Nat /\ kind \in Windowed
      /\ exec.fire \in Nat /\ exec.began \in Nat /\ hold.detected \in BOOLEAN
  BY ObservedTypes DEF Observed
<1>w. hold.fireAt - WakeBuffer <= hold.openedAt
  BY <1>t DEF Observed, WindowInv
<1>f. IsFire(hold.fireAt) /\ hold.fireAt > served
  BY <1>t DEF WaitInv
<1>n. now < hold.fireAt + Gap
  BY WindowNear
<1>1. PICK x \in ran : x.ended = rec.completedAt
  BY <1>t DEF Observed, RecordInv
<1>2. x.ended <= now /\ x.fire <= x.began /\ x.began < x.ended /\ x.fire \in Nat /\ x.began \in Nat
  BY ObservedTypes DEF Observed, RecordInv
<1>3. hold.fireAt - WakeBuffer <= x.ended /\ x.ended < hold.fireAt + Gap
  BY <1>t, <1>w, <1>n, <1>1, <1>2, Constants
<1>4. x.fire = hold.fireAt
  BY <1>3, <1>f, RunOf DEF Observed
<1>5. CASE hold.detected
  <2>1. exec.fire = hold.fireAt /\ hold.startedAt = exec.began
    BY <1>t, <1>5 DEF WaitInv
  <2>2. ~exec.running
    BY <1>f, <1>n, <1>4, LastRun
  <2>3. PICK y \in ran : y.fire = exec.fire /\ y.ended = rec.completedAt /\ y.began = exec.began
    BY <1>t, <1>f, <2>1, <2>2 DEF Observed, RecordInv
  <2>4. y.fire <= y.began /\ y.began < y.ended
    BY DEF Observed, RecordInv
  <2> QED
    BY <1>t, <1>5, <2>1, <2>3, <2>4
<1>6. CASE ~hold.detected
  <2>1. hold.fireAt < rec.completedAt
    BY <1>t, <1>1, <1>2, <1>4
  <2>2. /\ InferredStart \in Nat /\ InferredStart < rec.completedAt
        /\ hold.fireAt <= InferredStart
    BY <1>t, <2>1 DEF InferredStart
  <2> QED
    BY <1>1, <1>4, <1>6, <2>2
<1> QED
  BY <1>t, <1>5, <1>6

LEMMA ObserveLearns ==
    ASSUME FarApart, Observed, LearnInv, Observe PROVE LearnInv'
<1>t. /\ now \in Nat /\ rec.completedAt \in Nat /\ kind = "observed" /\ kind \in Windowed
      /\ rec.startedAt \in Nat /\ exec.began \in Nat /\ exec.fire \in Nat
      /\ hold.open => /\ hold \in Window /\ hold.fireAt \in Nat /\ hold.openedAt \in Nat
                      /\ hold.startedAt \in Nat /\ hold.detected \in BOOLEAN
  BY ObservedTypes DEF Observed
<1>1. /\ UNCHANGED << kind, now, stall, exec, rec, ran, deaths, late >>
      /\ loop = "observe" /\ loop' = "watch"
  BY Observes DEF clockVars, jobVars
<1>2. WatchLag' = WatchLag /\ SeenLag' = 0
  BY <1>1 DEF SeenLag, WatchLag
<1>h. hold.open => /\ IsFire(hold.fireAt) /\ now < hold.fireAt + Gap
                   /\ hold.fireAt - WakeBuffer <= hold.openedAt /\ hold.openedAt <= now
  BY <1>t, WindowNear DEF LearnInv, WaitInv, Observed, WindowInv
<1>q. ASSUME hold.open, NEW x \in ran, x.fire = hold.fireAt
      PROVE  exec.fire = hold.fireAt /\ ~exec.running /\ ~rec.running /\ rec.completedAt = x.ended
  BY <1>q, <1>h, LastRun
<1>3. CASE ~(Seen /\ ~rec.running /\ rec.completedAt > hold.openedAt) /\ UNCHANGED windowVars
  <2>1. UNCHANGED << hold, served, records, closed >>
    BY <1>3 DEF windowVars
  <2>2. hold.open => ~(~rec.running /\ rec.completedAt > hold.openedAt)
    BY <1>3, <1>t DEF Seen
  <2>3. WaitInv'
    <3>1. ASSUME hold.open, NEW x \in ran, x.fire = hold.fireAt, x.ended > hold.openedAt PROVE FALSE
      BY <3>1, <2>2, <1>q
    <3> QED
      BY <1>1, <2>1, <3>1 DEF LearnInv, WaitInv, IsFire
  <2>4. ServedInv'
    BY <1>1, <2>1 DEF LearnInv, ServedInv
  <2> QED
    BY <1>1, <1>2, <2>1, <2>3, <2>4, LateKept, LearnedKept, TruthKept DEF LearnInv
<1>4. CASE /\ Seen /\ rec.running /\ ~hold.detected
           /\ hold' = [hold EXCEPT !.detected = TRUE, !.startedAt =
                         IF rec.startedAt = 0 THEN now ELSE rec.startedAt]
           /\ UNCHANGED << served, records, closed, sleepBack >>
  <2>1. hold.open
    BY <1>4 DEF Seen
  <2>2. /\ hold'.open = hold.open /\ hold'.fireAt = hold.fireAt /\ hold'.openedAt = hold.openedAt
        /\ hold'.startedAt = (IF rec.startedAt = 0 THEN now ELSE rec.startedAt)
    BY <1>4, <1>t, <2>1 DEF Window
  <2>3. \A x \in ran : x.fire # hold.fireAt
    BY <1>4, <1>q, <2>1
  <2>4. hold'.startedAt <= now /\ hold'.startedAt \in Nat
    BY <1>t, <2>2 DEF Observed, RecordInv
  <2>5. hold'.startedAt <= hold.fireAt + Later(WindowLength, DetectionGrace) + Slack
    <3>1. now <= hold.fireAt + Later(WindowLength, DetectionGrace) + Slack
      BY <1>4, <2>1, WindowNear DEF LearnInv
    <3>2. Later(WindowLength, DetectionGrace) \in Nat /\ Slack \in Nat
      BY Constants, WindowTypes DEF Slack, Later
    <3> QED
      BY <1>t, <2>1, <2>4, <3>1, <3>2
  <2>6. deaths = 0 => exec.fire = hold.fireAt /\ hold'.startedAt = exec.began
    <3> SUFFICES ASSUME deaths = 0 PROVE exec.fire = hold.fireAt /\ hold'.startedAt = exec.began
      OBVIOUS
    <3>1. exec.running /\ rec.startedAt = exec.began /\ exec.fire # 0 /\ exec.fire <= exec.began
      BY <1>4 DEF Observed, RecordInv
    <3>2. rec.startedAt # 0
      BY <3>1, <1>t
    <3>3. hold.fireAt - WakeBuffer <= now
      BY <1>t, <1>h, <2>1, Constants
    <3>4. exec.fire = hold.fireAt
      BY <1>h, <2>1, <3>1, <3>3, RunningRun
    <3> QED
      BY <2>2, <3>1, <3>2, <3>4
  <2>7. WaitInv'
    BY <1>1, <1>4, <1>t, <2>1, <2>2, <2>3, <2>5, <2>6 DEF LearnInv, WaitInv, IsFire, WindowLength, Slack, Later
  <2>8. ServedInv'
    BY <1>1, <1>4 DEF LearnInv, ServedInv
  <2> QED
    BY <1>1, <1>2, <1>4, <2>7, <2>8, LateKept, LearnedKept, TruthKept DEF LearnInv
<1>5. CASE /\ Seen /\ ~rec.running /\ rec.completedAt > hold.openedAt
           /\ Finish([hold EXCEPT !.detected = TRUE, !.startedAt =
                        IF hold.detected THEN hold.startedAt ELSE InferredStart],
                     "ok", rec.completedAt)
  <2>1. PICK h : /\ h = [hold EXCEPT !.detected = TRUE, !.startedAt =
                           IF hold.detected THEN hold.startedAt ELSE InferredStart]
                 /\ Finish(h, "ok", rec.completedAt)
    BY <1>5
  <2>2. hold.open
    BY <1>5 DEF Seen
  <2>3. /\ h.detected /\ h.fireAt = hold.fireAt
        /\ h.startedAt = (IF hold.detected THEN hold.startedAt ELSE InferredStart)
    BY <2>1, <2>2, <1>t DEF Window
  <2>4. kind \notin Wrapped
    BY ObservedTypes
  <2>5. PICK c : /\ hold' = NoHold /\ served' = h.fireAt
                 /\ records' = records \cup {Record(h, "ok", rec.completedAt)}
                 /\ c.fire = h.fireAt /\ closed' = closed \cup {c}
    BY <2>1, <2>3, <2>4, FinishSeen
  <2>6. PICK r : r = Record(h, "ok", rec.completedAt)
    OBVIOUS
  <2>7. /\ r.fire = hold.fireAt /\ r.started = h.startedAt /\ r.outcome = "ok"
        /\ r.ended = (IF rec.completedAt > h.startedAt THEN rec.completedAt ELSE now)
    BY <2>3, <2>6 DEF Record
  <2>8. r.ended \in Nat /\ hold.fireAt - WakeBuffer <= r.ended /\ r.ended < hold.fireAt + Gap
    <3>1. rec.completedAt <= now
      BY DEF Observed, RecordInv
    <3>2. hold.openedAt <= r.ended /\ r.ended <= now /\ r.ended \in Nat
      BY <1>5, <1>t, <1>h, <2>2, <2>7, <3>1
    <3> QED
      BY <1>t, <1>h, <2>2, <3>2, Constants
  <2>9. deaths = 0 => \E x \in ran : /\ x.fire = r.fire /\ x.ended = r.ended
                                     /\ x.fire <= r.started /\ r.started <= x.ended
    <3> SUFFICES ASSUME deaths = 0
                 PROVE  \E x \in ran : /\ x.fire = r.fire /\ x.ended = r.ended
                                       /\ x.fire <= r.started /\ r.started <= x.ended
      OBVIOUS
    <3>1. /\ h.startedAt \in Nat /\ h.startedAt < rec.completedAt
          /\ \E x \in ran : /\ x.fire = hold.fireAt /\ x.ended = rec.completedAt
                            /\ x.fire <= h.startedAt
      BY <1>5, <2>2, <2>3, CompletionOwn DEF LearnInv
    <3>2. r.ended = rec.completedAt /\ r.started <= r.ended
      BY <1>t, <2>7, <3>1
    <3> QED
      BY <2>7, <3>1, <3>2
  <2> QED
    BY <1>1, <1>2, <2>2, <2>3, <2>5, <2>6, <2>7, <2>8, <2>9, RecordedLearns
<1> QED
  BY <1>3, <1>4, <1>5, Observes

\* The watch for a late completion ends without losing one, and takes no other run's.
LEMMA WatchLearns ==
    ASSUME FarApart, Observed, LearnInv, WatchLate PROVE LearnInv'
<1>t. /\ now \in Nat /\ rec.completedAt \in Nat /\ kind = "observed" /\ served \in Nat
      /\ late.open => late.opened \in Nat /\ late.closed \in Nat /\ late.fired \in Nat
      /\ \A x \in ran : x.fire \in Nat /\ x.began \in Nat /\ x.ended \in Nat
      /\ \A w \in closed : w.at \in Nat
  BY ObservedTypes DEF Observed
<1>1. /\ UNCHANGED << kind, now, stall, hold, served, closed, exec, rec, ran, deaths >>
      /\ loop = "watch" /\ loop' = "ceilings"
  BY Watches DEF clockVars, jobVars
<1>2. SeenLag' = SeenLag /\ WatchLag' = 0 /\ WatchLag \in Nat /\ WatchLag <= Slack /\ Slack \in Nat
  BY <1>1, SeenLags DEF SeenLag, WatchLag, Observed
<1>w. WaitInv'
  BY <1>1, <1>2, WaitKept DEF LearnInv
<1>g. PICK wait \in Nat : /\ wait = Later(WindowLength, DetectionGrace) + Slack
                           /\ Gap > wait + Longest + Slack /\ Gap > wait + LateHour
  BY FarNumbers
<1>l. late.open => /\ IsFire(late.fired) /\ late.fired <= served
                   /\ late.fired - WakeBuffer <= late.opened /\ late.opened <= late.closed
                   /\ late.closed <= late.fired + wait
                   /\ \A r \in records : r.fire # late.fired
                   /\ \A x \in ran : x.fire = late.fired /\ x.ended > late.opened
                                        => now <= x.ended + WatchLag
  <2>1. late.open => late.closed <= late.fired + wait
    BY <1>t, <1>g, WatchNear DEF LearnInv
  <2> QED
    BY <1>t, <2>1 DEF LearnInv, LateInv
<1>n. late.open /\ now - late.closed <= LateHour => now < late.fired + Gap
  BY <1>t, <1>g, <1>l, Constants
<1>3. CASE late.open /\ now - late.closed > LateHour /\ late' = NoHold /\ UNCHANGED records
  <2>1. ServedInv' /\ TruthInv'
    BY <1>1, <1>3, TruthKept DEF LearnInv, ServedInv
  <2>2. LateInv'
    BY <1>3 DEF LateInv, NoHold
  <2>3. LearnedInv'
    <3>1. ASSUME NEW w \in closed, late.fired = w.fire, late.opened = w.opened, late.closed = w.at
          PROVE  /\ now > w.at + LateHour
                 /\ \A x \in ran : ~(/\ x.fire = w.fire /\ x.ended > w.opened
                                     /\ x.ended + Slack <= w.at + LateHour)
      <4>1. now > w.at + LateHour
        BY <1>t, <1>3, <3>1, Constants
      <4>2. ASSUME NEW x \in ran, x.fire = w.fire, x.ended > w.opened
            PROVE  ~(x.ended + Slack <= w.at + LateHour)
        <5>1. now <= x.ended + WatchLag
          BY <1>3, <1>l, <3>1, <4>2
        <5> QED
          BY <1>t, <1>2, <4>1, <5>1, Constants
      <4> QED
        BY <4>1, <4>2
    <3>2. ASSUME deaths = 0, NEW w \in closed
          PROVE  \/ \E r \in records : r.fire = w.fire
                 \/ /\ now > w.at + LateHour
                    /\ \A x \in ran : ~(/\ x.fire = w.fire /\ x.ended > w.opened
                                        /\ x.ended + Slack <= w.at + LateHour)
      BY <1>t, <3>1, <3>2 DEF LearnInv, LearnedInv
    <3> QED
      BY <1>1, <1>3, <3>2 DEF LearnedInv
  <2> QED
    BY <1>w, <2>1, <2>2, <2>3 DEF LearnInv
<1>4. CASE /\ late.open /\ now - late.closed <= LateHour /\ LateDone /\ late' = NoHold
           /\ records' = records \cup {[fire |-> late.fired, started |-> late.fired,
                                        outcome |-> "ok", ended |-> rec.completedAt]}
  <2> DEFINE r == [fire |-> late.fired, started |-> late.fired,
                   outcome |-> "ok", ended |-> rec.completedAt]
  <2>1. r.fire = late.fired /\ r.started = late.fired /\ r.ended = rec.completedAt
    OBVIOUS
  <2>2. records' = records \cup {r}
    BY <1>4
  <2> HIDE DEF r
  <2>3. rec.completedAt <= now /\ rec.completedAt > late.opened
    BY <1>4 DEF LateDone, Observed, RecordInv
  <2>4. rec.completedAt # 0 /\ late.fired - WakeBuffer <= rec.completedAt
        /\ rec.completedAt < late.fired + Gap
    BY <1>t, <1>4, <1>l, <1>n, <2>3, Constants
  <2>5. PICK x \in ran : x.ended = rec.completedAt
    BY <2>4 DEF Observed, RecordInv
  <2>6. x.fire = late.fired
    BY <1>4, <1>l, <2>4, <2>5, RunOf DEF Observed
  <2>7. x.fire <= x.ended
    <3>1. x.fire <= x.began /\ x.began < x.ended
      BY DEF Observed, RecordInv
    <3> QED
      BY <1>t, <3>1
  <2>8. ServedInv'
    BY <1>1, <1>4, <1>l, <1>t, <2>1, <2>2 DEF LearnInv, ServedInv
  <2>9. LateInv'
    BY <1>4 DEF LateInv, NoHold
  <2>10. LearnedInv'
    <3>1. ASSUME deaths = 0, NEW w \in closed
          PROVE  \/ \E q \in records' : q.fire = w.fire
                 \/ /\ now > w.at + LateHour
                    /\ \A z \in ran : ~(/\ z.fire = w.fire /\ z.ended > w.opened
                                        /\ z.ended + Slack <= w.at + LateHour)
      BY <1>t, <2>1, <2>2, <3>1 DEF LearnInv, LearnedInv
    <3> QED
      BY <1>1, <3>1 DEF LearnedInv
  <2>11. TruthInv'
    <3> SUFFICES ASSUME deaths = 0 PROVE TruthInv'
      BY <1>1 DEF TruthInv
    <3>1. \A q, p \in records : q.fire = p.fire => q = p
      BY <1>t DEF LearnInv, TruthInv
    <3>2. \A q, p \in records' : q.fire = p.fire => q = p
      BY <1>4, <1>l, <2>1, <2>2, <3>1
    <3>3. \A q \in records' : /\ IsFire(q.fire) /\ q.ended \in Nat
                              /\ q.fire - WakeBuffer <= q.ended /\ q.ended < q.fire + Gap
      BY <1>t, <1>4, <1>l, <2>1, <2>2, <2>4 DEF LearnInv, TruthInv
    <3>4. \A q \in records' : q.outcome = "ok" =>
             \E z \in ran : /\ z.fire = q.fire /\ z.ended = q.ended
                            /\ z.fire <= q.started /\ q.started <= z.ended
      <4>1. /\ x.fire = r.fire /\ x.ended = r.ended /\ x.fire <= r.started /\ r.started <= x.ended
        BY <1>t, <2>1, <2>5, <2>6, <2>7
      <4> QED
        BY <1>t, <2>2, <4>1 DEF LearnInv, TruthInv
    <3> QED
      BY <1>1, <3>2, <3>3, <3>4 DEF TruthInv, IsFire
  <2> QED
    BY <1>w, <2>8, <2>9, <2>10, <2>11 DEF LearnInv
<1>5. CASE /\ UNCHANGED << late, records >>
           /\ late.open => ~(now - late.closed > LateHour)
                           /\ ~(now - late.closed <= LateHour /\ LateDone)
  <2>1. late.open => now <= late.closed + LateHour
    BY <1>t, <1>5, Constants
  <2>2. ASSUME late.open, NEW x \in ran, x.fire = late.fired, x.ended > late.opened PROVE FALSE
    <3>1. now < late.fired + Gap
      BY <1>t, <1>n, <2>1, <2>2, Constants
    <3>2. ~rec.running /\ rec.completedAt = x.ended
      BY <1>l, <2>2, <3>1, LastRun
    <3>3. LateDone
      BY <2>2, <3>2 DEF LateDone
    <3> QED
      BY <1>t, <1>5, <2>1, <2>2, <3>3, Constants
  <2>3. LateInv'
    BY <1>1, <1>2, <1>5, <1>t, <2>1, <2>2, Constants DEF LearnInv, LateInv, IsFire
  <2>4. ServedInv'
    BY <1>1, <1>5 DEF LearnInv, ServedInv
  <2> QED
    BY <1>1, <1>5, <1>w, <2>3, <2>4, LearnedKept, TruthKept DEF LearnInv
<1> QED
  BY <1>3, <1>4, <1>5 DEF WatchLate

\* What Finish does to an observed window whose job was not seen.
LEMMA FinishUnseen ==
    ASSUME kind \notin Wrapped, NEW h, NEW outcome, NEW endedAt, ~h.detected,
           Finish(h, outcome, endedAt)
    PROVE  /\ hold' = NoHold /\ served' = h.fireAt /\ records' = records
           /\ \E c : /\ c.fire = h.fireAt /\ c.opened = h.openedAt /\ c.at = now
                     /\ closed' = closed \cup {c}
<1> DEFINE c == [fire |-> h.fireAt, opened |-> h.openedAt, at |-> now,
                 outcome |-> outcome, seen |-> h.detected, woke |-> h.woke]
<1>1. c.fire = h.fireAt /\ c.opened = h.openedAt /\ c.at = now
  OBVIOUS
<1>2. closed' = closed \cup {c}
  BY DEF Finish
<1>3. hold' = NoHold /\ served' = h.fireAt /\ records' = records
  BY DEF Finish
<1> QED
  BY <1>1, <1>2, <1>3

\* What enforceCeilings does to an observed window.
LEMMA EnforcesObserved ==
    ASSUME EnforceCeilings, kind = "observed"
    PROVE  \/ UNCHANGED << windowVars, late >>
           \/ hold.open /\ hold.detected /\ Finish(hold, "ceiling", 0) /\ late' = late
           \/ /\ hold.open /\ ~hold.detected /\ expired(hold) /\ Finish(hold, "ok", 0)
              /\ late' = [open |-> TRUE, opened |-> hold.openedAt, fired |-> hold.fireAt,
                          closed |-> now]
  BY DEF EnforceCeilings

LEMMA EnforceLearns ==
    ASSUME FarApart, Observed, LearnInv, EnforceCeilings PROVE LearnInv'
<1>t. /\ now \in Nat /\ kind = "observed" /\ kind \in Windowed /\ kind \notin Wrapped
      /\ served \in Nat /\ kind # "pattern"
      /\ hold.open => /\ hold \in Window /\ hold.fireAt \in Nat /\ hold.openedAt \in Nat
                      /\ hold.startedAt \in Nat /\ hold.detected \in BOOLEAN
      /\ late.open => late.opened \in Nat /\ late.closed \in Nat /\ late.fired \in Nat
      /\ \A x \in ran : x.fire \in Nat /\ x.began \in Nat /\ x.ended \in Nat
  BY ObservedTypes DEF Observed
<1>1. /\ UNCHANGED << kind, now, stall, exec, rec, ran, deaths >>
      /\ loop = "ceilings" /\ loop' = "sleepback"
  BY Enforces DEF clockVars, jobVars
<1>2. SeenLag' = SeenLag /\ WatchLag' = WatchLag /\ SeenLag = 0 /\ WatchLag = 0
  BY <1>1 DEF SeenLag, WatchLag
<1>h. hold.open => /\ IsFire(hold.fireAt) /\ now < hold.fireAt + Gap /\ hold.fireAt > served
                   /\ hold.fireAt - WakeBuffer <= hold.openedAt /\ hold.openedAt <= now
  BY <1>t, WindowNear DEF LearnInv, WaitInv, Observed, WindowInv
<1>3. CASE UNCHANGED << windowVars, late >>
  BY <1>1, <1>2, <1>3, LearnKept DEF windowVars
<1>4. CASE hold.open /\ hold.detected /\ Finish(hold, "ceiling", 0) /\ late' = late
  <2>1. PICK c : /\ hold' = NoHold /\ served' = hold.fireAt
                 /\ records' = records \cup {Record(hold, "ceiling", 0)}
                 /\ c.fire = hold.fireAt /\ closed' = closed \cup {c}
    BY <1>4, <1>t, FinishSeen
  <2> DEFINE r == Record(hold, "ceiling", 0)
  <2>2. /\ r.fire = hold.fireAt /\ r.outcome = "ceiling"
        /\ r.ended = (IF 0 > hold.startedAt THEN 0 ELSE now)
    BY DEF Record
  <2> HIDE DEF r
  <2>3. r.ended = now
    BY <1>t, <1>4, <2>2
  <2>4. r.ended \in Nat /\ hold.fireAt - WakeBuffer <= r.ended /\ r.ended < hold.fireAt + Gap
    BY <1>t, <1>h, <1>4, <2>3, Constants
  <2>5. r.outcome # "ok"
    BY <2>2
  <2> QED
    BY <1>1, <1>2, <1>4, <2>1, <2>2, <2>4, <2>5, RecordedLearns DEF r
<1>5. CASE /\ hold.open /\ ~hold.detected /\ expired(hold) /\ Finish(hold, "ok", 0)
           /\ late' = [open |-> TRUE, opened |-> hold.openedAt, fired |-> hold.fireAt,
                       closed |-> now]
  <2>1. PICK c : /\ c.fire = hold.fireAt /\ c.opened = hold.openedAt /\ c.at = now
                 /\ closed' = closed \cup {c} /\ hold' = NoHold /\ served' = hold.fireAt
                 /\ records' = records
    BY <1>5, <1>t, FinishUnseen
  <2>2. /\ late'.open /\ late'.opened = hold.openedAt /\ late'.fired = hold.fireAt
        /\ late'.closed = now
    BY <1>5
  <2>3. ~late.open
    <3> SUFFICES ASSUME late.open PROVE FALSE
      OBVIOUS
    <3>1. PICK wait \in Nat : /\ wait = Later(WindowLength, DetectionGrace) + Slack
                               /\ Gap > wait + Longest + Slack /\ Gap > wait + LateHour
      BY FarNumbers
    <3>2. /\ IsFire(late.fired) /\ late.fired <= served /\ late.closed <= late.fired + wait
          /\ now <= late.closed + LateHour + WatchLag
      BY <1>t, <3>1, WatchNear DEF LearnInv, LateInv
    <3>3. late.fired < hold.fireAt => late.fired + Gap <= hold.fireAt
      BY <1>5, <1>h, <3>2, FireSteps
    <3>4. now > hold.fireAt + hold.ceiling /\ hold.ceiling \in Nat
      BY <1>5, <1>t DEF expired, deadline, Window
    <3> QED
      BY <1>t, <1>2, <1>5, <1>h, <3>1, <3>2, <3>3, <3>4, Constants
  <2>4. WaitInv'
    BY <2>1 DEF WaitInv, NoHold
  <2>5. \A q \in records : q.fire \in Nat /\ q.fire <= served
    BY <1>t DEF LearnInv, ServedInv
  <2>6. \A q \in records : q.fire # hold.fireAt /\ q.fire \in Nat /\ q.fire <= hold.fireAt
    BY <1>t, <1>h, <1>5, <2>5
  <2>7. ServedInv'
    BY <2>1, <2>6 DEF ServedInv
  <2>8. LateInv'
    <3>1. now <= hold.fireAt + Later(WindowLength, DetectionGrace) + Slack
      BY <1>5, WindowNear DEF LearnInv
    <3>2. \A x \in ran : x.fire = hold.fireAt /\ x.ended > hold.openedAt => now <= x.ended
      BY <1>t, <1>2, <1>5 DEF LearnInv, WaitInv
    <3>3. now <= now + LateHour + 0 /\ hold.openedAt <= now /\ hold.fireAt <= hold.fireAt
          /\ hold.fireAt - WakeBuffer <= hold.openedAt
      BY <1>t, <1>h, <1>5, Constants
    <3>4. \A x \in ran : x.ended + 0 = x.ended
      BY <1>t
    <3>5. IsFire(hold.fireAt)
      BY <1>h, <1>5
    <3>6. now' = now /\ WatchLag' = 0 /\ served' = hold.fireAt /\ ran' = ran /\ records' = records
      BY <1>1, <1>2, <2>1
    <3>7. IsFire(late'.fired) /\ late'.fired <= served' /\ late'.fired - WakeBuffer <= late'.opened
          /\ late'.opened <= late'.closed /\ late'.closed <= now'
      BY <1>t, <1>5, <2>2, <3>3, <3>5, <3>6
    <3>8. late'.closed <= late'.fired + Later(WindowLength, DetectionGrace) + Slack
      BY <2>2, <3>1
    <3>9. now' <= late'.closed + LateHour + WatchLag' /\ \A q \in records' : q.fire # late'.fired
      BY <2>2, <2>6, <3>3, <3>6
    <3>10. \A x \in ran' : x.fire = late'.fired /\ x.ended > late'.opened => now' <= x.ended + WatchLag'
      BY <2>2, <3>2, <3>4, <3>6
    <3> QED
      BY <3>7, <3>8, <3>9, <3>10 DEF LateInv, IsFire, Later, WindowLength, Slack
  <2>9. LearnedInv'
    <3>1. ASSUME deaths = 0, NEW w \in closed'
          PROVE  \/ \E q \in records' : q.fire = w.fire
                 \/ /\ late'.open /\ late'.fired = w.fire /\ late'.opened = w.opened
                    /\ late'.closed = w.at
                 \/ /\ now > w.at + LateHour
                    /\ \A x \in ran : ~(/\ x.fire = w.fire /\ x.ended > w.opened
                                        /\ x.ended + Slack <= w.at + LateHour)
      <4>1. CASE w = c
        BY <2>1, <2>2, <4>1
      <4>2. CASE w \in closed
        BY <1>t, <2>1, <2>3, <3>1, <4>2 DEF LearnInv, LearnedInv
      <4> QED
        BY <2>1, <3>1, <4>1, <4>2
    <3> QED
      BY <1>1, <3>1 DEF LearnedInv
  <2>10. TruthInv'
    BY <1>1, <2>1, TruthKept DEF LearnInv
  <2> QED
    BY <2>4, <2>7, <2>8, <2>9, <2>10 DEF LearnInv
<1> QED
  BY <1>3, <1>4, <1>5, <1>t, EnforcesObserved

LEMMA LearnSteps ==
    ASSUME FarApart, Observed, LearnInv, [Next]_vars, Observed' PROVE LearnInv'
<1>t. kind = "observed" /\ kind \notin Wrapped
  BY ObservedTypes DEF Observed
<1>1. CASE PollDetection
  <2>1. UNCHANGED << kind, now, stall, hold, served, records, closed, late, ran, exec, deaths >>
        /\ loop = "detect" /\ loop' = "observe"
    BY <1>1, <1>t, Polls DEF clockVars, jobVars, windowVars
  <2> QED
    BY <2>1, LearnKept DEF SeenLag, WatchLag
<1>2. CASE MaybeSleepBack \/ SleepNow
  <2>1. UNCHANGED << kind, now, stall, hold, served, records, closed, late, ran, exec, deaths >>
        /\ loop \in {"sleepback", "sleep"} /\ loop' \in {"sleep", "idle"}
    BY <1>2, Sleeps DEF SleepNow, clockVars, jobVars
  <2> QED
    BY <2>1, LearnKept DEF SeenLag, WatchLag
<1>3. CASE OtherHold \/ UNCHANGED vars
  <2>1. UNCHANGED << kind, now, stall, loop, hold, served, records, closed, late, ran, exec, deaths >>
    BY <1>3 DEF OtherHold, vars, clockVars, jobVars, windowVars
  <2> QED
    BY <2>1, LearnKept DEF SeenLag, WatchLag
<1>4. ~CommandStep
  <2>1. ~cmd.alive /\ ~cmd.asked
    BY <1>t DEF Observed, ActorsInv
  <2> QED
    BY <1>t, <2>1 DEF CommandStep, StartRun, OpenRunHold, Renew, RenewLost, Ticked, ReportAgain,
                      EndRun, WrapperKilled
<1> QED
  BY <1>1, <1>2, <1>3, <1>4, OpenLearns, ObserveLearns, WatchLearns, EnforceLearns, JobSteps,
     TimeLearns DEF Next, LoopStep

\* What the invariant says of the records.
LEMMA LearnImplies ==
    ASSUME FarApart, Observed, LearnInv PROVE RecordsTellTheTruth /\ LateRunLearned
<1>t. kind = "observed"
  BY DEF Observed
<1>1. RecordsTellTheTruth
  <2> SUFFICES ASSUME deaths = 0, NEW r \in records, r.outcome = "ok"
               PROVE  /\ \E x \in ran : /\ x.fire = r.fire /\ x.ended = r.ended
                                        /\ x.fire <= r.started /\ r.started <= x.ended
                      /\ \A q \in records : q.ended = r.ended => q = r
    BY DEF RecordsTellTheTruth
  <2>1. TruthInv /\ RecordInv
    BY DEF LearnInv, Observed
  <2>2. PICK x \in ran : /\ x.fire = r.fire /\ x.ended = r.ended
                         /\ x.fire <= r.started /\ r.started <= x.ended
    BY <1>t, <2>1 DEF TruthInv
  <2>3. ASSUME NEW q \in records, q.ended = r.ended PROVE q = r
    <3>1. /\ IsFire(q.fire) /\ q.fire - WakeBuffer <= q.ended /\ q.ended < q.fire + Gap
      BY <1>t, <2>1 DEF TruthInv
    <3>2. x.fire = q.fire
      BY <2>1, <2>2, <2>3, <3>1, RunOf
    <3> QED
      BY <1>t, <2>1, <2>2, <3>2 DEF TruthInv
  <2> QED
    BY <2>2, <2>3
<1>2. LateRunLearned
  <2> SUFFICES ASSUME deaths = 0, NEW x \in ran, NEW w \in closed, x.fire = w.fire,
                      x.ended > w.opened, x.ended + Slack <= w.at + LateHour
               PROVE  late.open \/ \E r \in records : r.fire = x.fire
    BY DEF LateRunLearned
  <2> QED
    BY <1>t DEF LearnInv, LearnedInv
<1> QED
  BY <1>1, <1>2

-----------------------------------------------------------------------------
(* The theorems. *)

LEMMA ClockInit == Init => ClockInv /\ CommandInv
<1> SUFFICES ASSUME Init PROVE ClockInv /\ CommandInv
  OBVIOUS
<1>1. TypeOK
  BY TypesInit
<1>2. hold.open = FALSE /\ cmd.alive = FALSE /\ cmd.asked = FALSE /\ exec.running = FALSE /\ closed = {}
  BY DEF Init, NoHold
<1>3. ActorsInv /\ LeaseInv /\ WindowInv /\ CommandInv
  BY <1>2 DEF ActorsInv, LeaseInv, WindowInv, CommandInv
<1>4. RunInv
  <2>1. exec.fire = 0 /\ rec.completedAt = 0 /\ 0 = 0 * Gap
    BY Constants DEF Init
  <2>2. 0 <= LastUnit(0)
    BY Constants DEF LastUnit
  <2> QED
    BY <1>2, <2>1, <2>2 DEF RunInv
<1>5. SleepInv
  BY DEF Init, SleepInv
<1> QED
  BY <1>1, <1>3, <1>4, <1>5 DEF ClockInv

\* The holds, the job and the sleep keep their invariant (hold.go, runhold.go, sleepback.go).
THEOREM ClockInvariant == Spec => []ClockInv
<1>1. ClockInv /\ [Next]_vars => ClockInv'
  BY TypeSteps, ActorsSteps, LeaseSteps, WindowSteps, RunSteps, SleepSteps DEF ClockInv
<1> QED
  BY <1>1, ClockInit, PTL DEF Spec

\* A running command keeps its hold through one lost renewal, however late the ones around it
\* are and whenever the loop looks, and no command's hold outlives its lease or its maximum
\* (RenewRun, renewLoop, deadline).
THEOREM LeasesFollowCommands == Spec => []HoldFollowsCommand
<1>1. ClockInv /\ CommandInv /\ [Next]_vars => CommandInv'
  BY CommandSteps DEF ClockInv
<1>2. ClockInv /\ CommandInv => HoldFollowsCommand
  BY LeaseImplies DEF ClockInv
<1> QED
  BY <1>1, <1>2, ClockInit, ClockInvariant, PTL DEF Spec

\* Whatever the job and its scheduler do and whenever the window was opened, it is closed at its
\* limit, but for the loop's stall (deadline, hardDeadline, enforceCeilings).
THEOREM WindowsClose == Spec => []WindowEnds
<1>1. ClockInv => WindowEnds
  BY WindowImplies DEF ClockInv
<1> QED
  BY <1>1, ClockInvariant, PTL

\* A job that was seen, still runs and has no explicit maximum keeps its window until MaxCeiling
\* (enforceCeilings).
THEOREM SeenJobsAreKept == Spec => RunningJobKept
<1>1. ClockInv /\ [Next]_vars =>
        [ hold.open /\ hold.detected /\ exec.running /\ exec.fire = hold.fireAt
          /\ MaxRuntime = 0 /\ now < hold.startedAt + MaxCeiling
          => hold'.open ]_vars
  BY RunningKept DEF ClockInv
<1> QED
  BY <1>1, ClockInvariant, PTL DEF Spec, RunningJobKept

\* The machine is put to sleep only a grace after a window that followed a wake and whose job
\* was seen to end, and over no hold the loop could have seen (armSleepBack, maybeSleepBack).
THEOREM SleepsAreEarned == Spec => SleepIsEarned
<1>1. ClockInv /\ [Next]_vars =>
        [ loop = "sleep" /\ loop' # loop =>
            /\ sleepBack.crossed \/ (~hold.open /\ ~other)
            /\ \E w \in closed : w.seen /\ w.woke /\ w.outcome = "ok" /\ now >= w.at + SleepBackGrace
        ]_vars
  BY DEF ClockInv, SleepInv, Earned
<1> QED
  BY <1>1, ClockInvariant, PTL DEF Spec, SleepIsEarned

LEMMA RecordInit == Init => RecordInv /\ LearnInv
<1> SUFFICES ASSUME Init PROVE RecordInv /\ LearnInv
  OBVIOUS
<1>1. /\ exec.fire = 0 /\ exec.began = 0 /\ exec.running = FALSE /\ now = 1
      /\ rec.running = FALSE /\ rec.startedAt = 0 /\ rec.completedAt = 0 /\ deaths = 0
      /\ ran = {} /\ records = {} /\ closed = {} /\ hold.open = FALSE /\ late.open = FALSE
  BY DEF Init, NoHold
<1>2. RecordInv
  BY <1>1 DEF RecordInv
<1>3. LearnInv
  BY <1>1 DEF LearnInv, WaitInv, ServedInv, LateInv, LearnedInv, TruthInv
<1> QED
  BY <1>2, <1>3

LEMMA LearnInvariant ==
    ASSUME FarApart PROVE Spec => [](ClockInv /\ RecordInv /\ (kind = "observed" => LearnInv))
<1> DEFINE Inv == RecordInv /\ (kind = "observed" => LearnInv)
<1>1. Init => Inv
  BY RecordInit
<1>2. ClockInv /\ Inv /\ [Next]_vars /\ ClockInv' => Inv'
  <2> SUFFICES ASSUME ClockInv, Inv, [Next]_vars, ClockInv' PROVE Inv'
    OBVIOUS
  <2>1. RecordInv'
    BY RecordSteps DEF ClockInv
  <2>2. kind' = kind
    BY KindStays DEF ClockInv
  <2>3. CASE kind = "observed"
    <3>1. Observed /\ Observed'
      BY <2>1, <2>2, <2>3 DEF ClockInv, Observed
    <3> QED
      BY <2>1, <2>3, <3>1, LearnSteps
  <2>4. CASE kind # "observed"
    BY <2>1, <2>2, <2>4
  <2> QED
    BY <2>3, <2>4
<1> QED
  BY <1>1, <1>2, ClockInvariant, PTL DEF Spec

\* With fires far enough apart, each completion that is recorded is recorded once and for the
\* fire whose run it ended (pollSchedulerState, lateWatch).
THEOREM RecordsAreTrue == ASSUME FarApart PROVE Spec => []RecordsTellTheTruth
<1>1. ClockInv /\ RecordInv /\ (kind = "observed" => LearnInv) => RecordsTellTheTruth
  <2>1. CASE kind = "observed"
    BY <2>1, LearnImplies DEF ClockInv, Observed
  <2>2. CASE kind # "observed"
    BY <2>2 DEF RecordsTellTheTruth
  <2> QED
    BY <2>1, <2>2
<1> QED
  BY <1>1, LearnInvariant, PTL

\* With fires far enough apart, a run that outlives its unseen window and ends soon enough is
\* recorded, or still watched for (lateWatch).
THEOREM LateRunsLearned == ASSUME FarApart PROVE Spec => []LateRunLearned
<1>1. ClockInv /\ RecordInv /\ (kind = "observed" => LearnInv) => LateRunLearned
  <2>1. CASE kind = "observed"
    BY <2>1, LearnImplies DEF ClockInv, Observed
  <2>2. CASE kind # "observed"
    BY <2>2 DEF LateRunLearned
  <2> QED
    BY <2>1, <2>2
<1> QED
  BY <1>1, LearnInvariant, PTL

=============================================================================
