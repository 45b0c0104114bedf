------------------------- MODULE WakeScheduleProofs -------------------------
(***************************************************************************)
(* Theorems about WakeSchedule, for any jobs, schedules, requests, faults  *)
(* and budgets: every variable has its type, what the daemon reports as    *)
(* registered is what the link re-asserts, equal entries do not pile up    *)
(* beyond one per caller and fault, and a skip is honoured. And about      *)
(* SleepRecord, for any fires, ticks, sleeps, stalls and kills: what is    *)
(* recorded as slept through was, once. And about SleepLog, for any sleeps *)
(* and duplicates in the system's log: what is counted as missed was.      *)
(***************************************************************************)
EXTENDS WakeSchedule, SleepRecord, SleepLog, FiniteSetTheorems, WellFoundedInduction, TLAPS

Some(S) == {None} \cup S

SchedulePc == {"schedule", "scheduling", "verify", "verifying"}
CancelPc == {"cancel", "cancelCall", "cancelling"}
ThreadPc == {"idle", "target", "decide"} \cup SchedulePc \cup CancelPc
ThreadRecord == [pc : ThreadPc, at : Moment, pausing : BOOLEAN]
PumpRecord ==
    [pc : {"idle", "wake", "cancelling", "scheduling"}, at : Moment, cancel : BOOLEAN]
CallRecord ==
    [st : {"free", "cancel", "add", "done"}, op : {"verify", "schedule", "cancel"},
     at : Moment, stale : SUBSET Instant, matching : {0, 1}, ok : BOOLEAN]

\* A request that is about to schedule has an instant, one about to add its entry is a
\* schedule that has no entry left to cancel, and a read-back cancels nothing.
Sound(r) ==
    /\ r.st \in {"cancel", "add"} /\ r.op = "schedule" => r.at \in Instant
    /\ r.st = "add" => r.op = "schedule" /\ r.stale = {}
    /\ r.st = "cancel" => r.op # "verify"

WorldType ==
    /\ now \in 0..Horizon /\ jobs \subseteq Job /\ flat \in BOOLEAN
    /\ observed \in [Job -> Some(FireTime)]

DaemonType ==
    /\ paused \in BOOLEAN /\ wakeOK \in BOOLEAN /\ nextWake \in Moment
    /\ skipUntil \in [Job -> Some(FireTime)] /\ skipNextGlobal \in Some(FireTime)
    /\ thr \in [Thread -> ThreadRecord]
    /\ \A t \in Thread : thr[t].pc \in SchedulePc => thr[t].at \in Instant

LinkType == scheduledAt \in Moment /\ cancelPending \in BOOLEAN /\ pump \in PumpRecord

HelperType ==
    /\ call \in [Caller -> CallRecord] /\ \A c \in Caller : Sound(call[c])
    /\ hScheduledAt \in Moment /\ os \in [Instant -> Nat]

BudgetType ==
    /\ up \in BOOLEAN /\ crossed \in BOOLEAN
    /\ requests \in 0..MaxRequests /\ faults \in 0..MaxFaults

TypeOK == WorldType /\ DaemonType /\ LinkType /\ HelperType /\ BudgetType

-----------------------------------------------------------------------------
(* The invariants. *)

\* Before two threads have met in scheduleNextWake, at most one is in it.
OneAtATime == ~crossed => \A t, o \in Thread : thr[t].pc # "idle" /\ thr[o].pc # "idle" => t = o

Claimed == wakeOK => scheduledAt = nextWake

\* Where a thread may have parted the daemon's record and the link's.
ClaimInv ==
    ~crossed =>
        /\ AtRest => Claimed
        /\ \A t \in Thread :
            /\ thr[t].pc \in {"target", "decide", "schedule", "scheduling"} => Claimed
            /\ thr[t].pc \in {"verify", "verifying"} => scheduledAt = thr[t].at
            /\ thr[t].pc \in CancelPc => thr[t].pausing \/ (~wakeOK /\ nextWake = None)

\* A wake for a fire that is not skipped.
Unskipped(w) ==
    \E j \in Job : w + Buffer > skipNextGlobal /\ w + Buffer > skipUntil[j]

SkipInv ==
    ~crossed =>
        /\ AtRest /\ nextWake # None => Unskipped(nextWake)
        /\ \A t \in Thread :
            thr[t].pc \in {"decide"} \cup SchedulePc /\ thr[t].at # None => Unskipped(thr[t].at)

\* A request that will add one more entry for i, whatever it still cancels.
Adds(r, i) ==
    /\ r.st \in {"cancel", "add"} /\ r.op = "schedule"
    /\ r.at = i /\ r.matching = 0 /\ i \notin r.stale

Due(r, i) == IF Adds(r, i) THEN 1 ELSE 0
Coming(i) == Due(call["loop"], i) + Due(call["ipc"], i) + Due(call["pump"], i)

\* The entries for an instant, there or coming: one per caller, one per fault.
PileInv == \A i \in Instant : os[i] + Coming(i) <= 3 + faults

IInv == TypeOK /\ OneAtATime /\ ClaimInv /\ SkipInv /\ PileInv

-----------------------------------------------------------------------------
(* The operators the actions are built from. *)

\* What the constants' assumptions make of the instants.
LEMMA Instants ==
    /\ None \notin Instant /\ None \notin FireTime
    /\ Instant \subseteq 1..(Horizon + 1) /\ Instant \subseteq FireTime
    /\ Instant \subseteq Nat /\ FireTime \subseteq Nat /\ Moment \subseteq Nat
    /\ None \in Moment /\ Moment \subseteq Some(FireTime) /\ Some(FireTime) \subseteq Nat
  BY InstantsAssumption DEF Instant, FireTime, Moment, None, Some

\* Min of a nonempty set of naturals is its least member.
LEMMA MinNat ==
    ASSUME NEW S, S \subseteq Nat, S # {}
    PROVE  Min(S) \in S /\ \A y \in S : Min(S) <= y
<1>1. \E x \in S : \A y \in S : ~(<<y, x>> \in OpToRel(<, Nat))
  BY NatLessThanWellFounded, WFMin
<1>2. PICK x \in S : \A y \in S : ~(<<y, x>> \in OpToRel(<, Nat))
  BY <1>1
<1>3. ASSUME NEW y \in S PROVE x <= y
  <2>1. ~(<<y, x>> \in OpToRel(<, Nat))
    BY <1>2
  <2>2. ~(y < x)
    BY <2>1 DEF OpToRel
  <2> QED
    BY <2>2, x \in Nat, y \in Nat
<1>4. \E z \in S : \A y \in S : z <= y
  BY <1>3
<1> QED
  BY <1>4 DEF Min

\* Max of a nonempty bounded set of naturals is its greatest member.
LEMMA MaxNat ==
    ASSUME NEW S, NEW b \in Int, S \subseteq Nat, S # {}, \A x \in S : x <= b
    PROVE  Max(S) \in S /\ \A y \in S : y <= Max(S)
<1> DEFINE T == {b - x : x \in S}
<1>1. T \subseteq Nat /\ T # {}
  <2>1. ASSUME NEW x \in S PROVE b - x \in Nat
    <3>1. x \in Int /\ x <= b
      OBVIOUS
    <3> QED
      BY <3>1
  <2> QED
    BY <2>1
<1>2. Min(T) \in T /\ \A y \in T : Min(T) <= y
  BY <1>1, MinNat
<1>3. PICK x \in S : Min(T) = b - x
  BY <1>2
<1>4. ASSUME NEW y \in S PROVE x >= y
  <2>1. b - x <= b - y
    BY <1>2, <1>3
  <2> QED
    BY <2>1, x \in Nat, y \in Nat
<1>5. \E z \in S : \A y \in S : z >= y
  BY <1>4
<1> QED
  BY <1>5 DEF Max

\* Max of two naturals bounds both.
LEMMA MaxOfTwo ==
    ASSUME NEW a \in Nat, NEW b \in Nat, NEW w \in Nat, w > a, w > b
    PROVE  w > Max({a, b})
<1>1. \E x \in {a, b} : \A y \in {a, b} : x >= y
  <2>1. CASE a >= b
    BY <2>1
  <2>2. CASE b >= a
    BY <2>2
  <2> QED
    BY <2>1, <2>2
<1>2. Max({a, b}) \in {a, b}
  BY <1>1 DEF Max
<1> QED
  BY <1>2

\* The fire to wake for is one of the job's, or its scheduler's, and not a skipped one.
LEMMA FireTypes ==
    ASSUME WorldType, DaemonType, NEW j \in Job
    PROVE  /\ FirstFire(j) \in Some(FireTime) /\ FireToWakeFor(j) \in Some(FireTime)
           /\ FireToWakeFor(j) # None => ~isSkipped(j, FireToWakeFor(j))
<1>1. ASSUME NEW after, NEW L, L \subseteq {f \in Fires[j] : f > after}, L # {}
      PROVE  Min(L) \in L /\ Min(L) \in FireTime
  <2>1. L \subseteq FireTime
    BY <1>1, FiresAssumption
  <2> QED
    BY <1>1, <2>1, Instants, MinNat
<1>2. NextFire(j, now) \in Some(FireTime)
  BY <1>1 DEF NextFire, Some
<1>3. schedulerFireTime(j) \in Some(FireTime)
  BY DEF schedulerFireTime, WorldType, Some
<1>4. FirstFire(j) \in Some(FireTime)
  BY <1>2, <1>3 DEF FirstFire
<1> DEFINE first == FirstFire(j)
           later == {f \in Fires[j] : f > first /\ ~isSkipped(j, f)}
<1>5. CASE first = None \/ ~isSkipped(j, first)
  BY <1>4, <1>5 DEF FireToWakeFor
<1>6. CASE ~(first = None \/ ~isSkipped(j, first)) /\ later = {}
  BY <1>4, <1>6 DEF FireToWakeFor, Some
<1>7. CASE ~(first = None \/ ~isSkipped(j, first)) /\ later # {}
  <2>1. FireToWakeFor(j) = Min(later)
    BY <1>7 DEF FireToWakeFor
  <2>2. later \subseteq {f \in Fires[j] : f > first}
    OBVIOUS
  <2>3. Min(later) \in later /\ Min(later) \in FireTime
    BY <1>1, <1>7, <2>2
  <2> QED
    BY <1>4, <2>1, <2>3 DEF Some
<1> QED
  BY <1>5, <1>6, <1>7

\* The wake that is chosen lies one buffer before a fire nobody skipped.
LEMMA TargetTypes ==
    ASSUME WorldType, DaemonType
    PROVE  /\ nextWakeTarget \in Moment
           /\ nextWakeTarget # None =>
                /\ nextWakeTarget + Buffer \in FireTime
                /\ Unskipped(nextWakeTarget)
<1>1. ASSUME NEW w \in WakesAhead
      PROVE  w \in Instant /\ w + Buffer \in FireTime /\ Unskipped(w)
  <2>1. PICK j \in jobs : FireToWakeFor(j) > now + Buffer /\ w = FireToWakeFor(j) - Buffer
    BY DEF WakesAhead
  <2>2. j \in Job
    BY <2>1 DEF WorldType
  <2>3. FireToWakeFor(j) \in FireTime
    BY <2>1, <2>2, FireTypes, InstantsAssumption DEF Some, None, WorldType
  <2>4. w \in Instant /\ w + Buffer = FireToWakeFor(j)
    BY <2>1, <2>3, InstantsAssumption DEF FireTime, Instant, WorldType
  <2>5. ~isSkipped(j, FireToWakeFor(j))
    BY <2>2, <2>3, FireTypes, Instants
  <2>6. FireToWakeFor(j) > skipNextGlobal /\ FireToWakeFor(j) > skipUntil[j]
    <3>1. skipNextGlobal \in Nat /\ skipUntil[j] \in Nat /\ FireToWakeFor(j) \in Nat
      BY <2>2, <2>3, Instants DEF DaemonType, Some, None
    <3> QED
      BY <2>5, <3>1 DEF isSkipped
  <2> QED
    BY <2>2, <2>3, <2>4, <2>6 DEF Unskipped
<1>2. CASE WakesAhead = {}
  BY <1>2, Instants DEF nextWakeTarget
<1>3. CASE WakesAhead # {}
  <2>1. WakesAhead \subseteq Nat
    BY <1>1, Instants
  <2>2. nextWakeTarget \in WakesAhead
    BY <1>3, <2>1, MinNat DEF nextWakeTarget
  <2> QED
    BY <1>1, <2>2 DEF Moment
<1> QED
  BY <1>2, <1>3
-----------------------------------------------------------------------------
(* The helper's requests. *)

\* The records at rest, and an answer, are values of their types.
LEMMA RestTypes ==
    /\ Idle \in ThreadRecord /\ NoPump \in PumpRecord
    /\ NoCall \in CallRecord /\ Sound(NoCall)
    /\ \A ok \in BOOLEAN : Answer(ok) \in CallRecord /\ Sound(Answer(ok))
    /\ \A i : Due(NoCall, i) = 0 /\ \A ok : Due(Answer(ok), i) = 0
<1>1. None \in Moment
  BY DEF Moment
<1>2. Idle \in ThreadRecord /\ NoPump \in PumpRecord /\ NoCall \in CallRecord
  BY <1>1 DEF Idle, ThreadRecord, ThreadPc, NoPump, PumpRecord, NoCall, CallRecord
<1>3. NoCall.st = "free" /\ Sound(NoCall)
  BY DEF NoCall, Sound
<1>4. ASSUME NEW ok
      PROVE  /\ Answer(ok).st = "done" /\ Sound(Answer(ok))
             /\ ok \in BOOLEAN => Answer(ok) \in CallRecord
  <2>1. Answer(ok).st = "done"
    BY DEF Answer, NoCall
  <2> QED
    BY <1>2, <2>1 DEF Answer, NoCall, CallRecord, Sound
<1> QED
  BY <1>2, <1>3, <1>4 DEF Due, Adds

\* A step of one request keeps PileInv if, for every instant, it empties the OS's
\* entries or adds no more than what was due and what faults it spends.
LEMMA PileStep ==
    ASSUME TypeOK, PileInv, NEW c \in Caller, NEW r,
           call' = [call EXCEPT ![c] = r], os' \in [Instant -> Nat],
           faults' \in Nat, faults <= faults',
           \A i \in Instant :
               \/ os'[i] = 0
               \/ os'[i] + Due(r, i) <= os[i] + Due(call[c], i) + (faults' - faults)
    PROVE  PileInv'
<1> SUFFICES ASSUME NEW i \in Instant PROVE os'[i] + Coming(i)' <= 3 + faults'
  BY DEF PileInv
<1>1. \A x, y : Due(x, y) \in {0, 1}
  BY DEF Due
<1>2. /\ call'[c] = r
      /\ \A k \in Caller \ {c} : call'[k] = call[k]
  BY DEF TypeOK, HelperType
<1>3. os[i] \in Nat /\ os'[i] \in Nat /\ faults \in Nat /\ faults' \in Nat
  BY FaultsAssumption DEF TypeOK, HelperType, BudgetType
<1>4. /\ Coming(i)' = Due(call'["loop"], i) + Due(call'["ipc"], i) + Due(call'["pump"], i)
      /\ os[i] + (Due(call["loop"], i) + Due(call["ipc"], i) + Due(call["pump"], i))
            <= 3 + faults
  BY DEF Coming, PileInv
<1>5. CASE os'[i] = 0
  BY <1>1, <1>3, <1>4, <1>5
<1>6. CASE os'[i] + Due(r, i) <= os[i] + Due(call[c], i) + (faults' - faults)
  <2>1. CASE c = "loop"
    BY <1>1, <1>2, <1>3, <1>4, <1>6, <2>1 DEF Caller, Thread
  <2>2. CASE c = "ipc"
    BY <1>1, <1>2, <1>3, <1>4, <1>6, <2>2 DEF Caller, Thread
  <2>3. CASE c = "pump"
    BY <1>1, <1>2, <1>3, <1>4, <1>6, <2>3 DEF Caller, Thread
  <2> QED
    BY <2>1, <2>2, <2>3 DEF Caller, Thread
<1> QED
  BY <1>5, <1>6

\* A request never adds to the pile by being sent: it finds no entry, or has to cancel
\* the ones it finds, or could not look, which is a fault.
LEMMA AskSteps ==
    ASSUME TypeOK, PileInv, NEW c \in Caller, NEW at \in Instant,
           AskSchedule(c, at) \/ AskCancel(c) \/ AskVerify(c, at)
    PROVE  HelperType' /\ PileInv' /\ requests' = requests /\ faults' \in 0..MaxFaults
<1>1. ASSUME NEW r \in CallRecord, Sound(r), Asked(c, r), os' = os,
             hScheduledAt' \in Moment, faults' = faults \/ (\E k : Fault(k)),
             \A i \in Instant : Due(r, i) <= faults' - faults \/ os[i] = 0
      PROVE  HelperType' /\ PileInv' /\ faults' \in 0..MaxFaults
  <2>1. faults' \in 0..MaxFaults /\ faults <= faults' /\ faults \in Nat
    BY <1>1, FaultsAssumption DEF Fault, TypeOK, BudgetType
  <2>2. HelperType'
    BY <1>1 DEF Asked, TypeOK, HelperType
  <2>3. \A i \in Instant :
            os'[i] = 0 \/ os'[i] + Due(r, i) <= os[i] + Due(call[c], i) + (faults' - faults)
    <3>1. \A x, y : Due(x, y) \in {0, 1}
      BY DEF Due
    <3> QED
      BY <1>1, <2>1, <3>1 DEF TypeOK, HelperType
  <2>4. PileInv'
    <3>1. call' = [call EXCEPT ![c] = r] /\ os' \in [Instant -> Nat] /\ faults' \in Nat
      BY <1>1, <2>1, FaultsAssumption DEF Asked, TypeOK, HelperType
    <3> QED
      BY <2>1, <2>3, <3>1, PileStep
  <2> QED
    BY <2>1, <2>2, <2>4
<1>2. CASE AskSchedule(c, at)
  <2> DEFINE new == [NoCall EXCEPT !.op = "schedule", !.at = at]
             listed == [new EXCEPT !.st = "cancel", !.stale = ReadSchedule(at).stale,
                                   !.matching = ReadSchedule(at).matching]
             blind == [new EXCEPT !.st = "add"]
  <2>1. ReadSchedule(at).stale \in SUBSET Instant /\ ReadSchedule(at).matching \in {0, 1}
    BY DEF ReadSchedule, OurEntries, TypeOK, HelperType
  <2>2. at \in Moment
    BY DEF Moment
  <2>3. listed \in CallRecord /\ Sound(listed) /\ blind \in CallRecord /\ Sound(blind)
    BY <2>1, <2>2 DEF NoCall, CallRecord, Sound
  <2>4. ASSUME NEW i \in Instant PROVE Due(listed, i) = 0 \/ os[i] = 0
    <3>1. CASE Adds(listed, i)
      <4>1. i = at /\ ReadSchedule(at).matching = 0 /\ at \notin ReadSchedule(at).stale
        BY <3>1 DEF Adds, NoCall
      <4>2. os[at] \in Nat /\ ~(os[at] > 1)
        BY <4>1 DEF ReadSchedule, OurEntries, TypeOK, HelperType
      <4> QED
        BY <4>1, <4>2 DEF ReadSchedule
    <3> QED
      BY <3>1 DEF Due
  <2>5. \A i : Due(blind, i) \in {0, 1}
    BY DEF Due
  <2>6. CASE Asked(c, listed) /\ UNCHANGED faults
    <3>1. faults' - faults = 0 /\ hScheduledAt' \in Moment /\ os' = os /\ requests' = requests
      BY <1>2, <2>6, FaultsAssumption DEF AskSchedule, TypeOK, BudgetType, HelperType
    <3> HIDE DEF listed
    <3>2. \A i \in Instant : Due(listed, i) <= faults' - faults \/ os[i] = 0
      BY <2>4, <3>1
    <3> QED
      BY <1>1, <2>3, <2>6, <3>1, <3>2
  <2>7. CASE Fault("list_fail") /\ Asked(c, blind)
    <3>1. faults' - faults = 1 /\ hScheduledAt' \in Moment /\ os' = os /\ requests' = requests
      BY <1>2, <2>7, FaultsAssumption DEF AskSchedule, Fault, TypeOK, BudgetType, HelperType
    <3> HIDE DEF blind
    <3>2. \A i \in Instant : Due(blind, i) <= faults' - faults \/ os[i] = 0
      BY <2>5, <3>1
    <3> QED
      BY <1>1, <2>3, <2>7, <3>1, <3>2
  <2> QED
    BY <1>2, <2>6, <2>7 DEF AskSchedule
<1>3. CASE AskCancel(c)
  <2> DEFINE new == [NoCall EXCEPT !.op = "cancel"]
  <2>1. PICK r \in CallRecord : /\ Asked(c, r) /\ Sound(r) /\ \A i : Due(r, i) = 0
                                /\ faults' = faults \/ Fault("list_fail")
    <3>1. CASE Asked(c, [new EXCEPT !.st = "cancel", !.stale = OurEntries]) /\ UNCHANGED faults
      <4> DEFINE r == [new EXCEPT !.st = "cancel", !.stale = OurEntries]
      <4>1. r \in CallRecord /\ Sound(r) /\ r.op = "cancel"
        BY RestTypes DEF NoCall, CallRecord, Sound, OurEntries
      <4> QED
        BY <3>1, <4>1 DEF Due, Adds
    <3>2. CASE /\ Fault("list_fail") /\ hScheduledAt # None
               /\ Asked(c, [new EXCEPT !.st = "cancel", !.stale = {hScheduledAt}])
      <4> DEFINE r == [new EXCEPT !.st = "cancel", !.stale = {hScheduledAt}]
      <4>1. hScheduledAt \in Instant
        BY <3>2 DEF TypeOK, HelperType, Moment
      <4>2. r \in CallRecord /\ Sound(r) /\ r.op = "cancel"
        BY <4>1, RestTypes DEF NoCall, CallRecord, Sound
      <4> QED
        BY <3>2, <4>2 DEF Due, Adds
    <3>3. CASE Fault("list_fail") /\ Asked(c, Answer(FALSE))
      BY <3>3, RestTypes
    <3> QED
      BY <1>3, <3>1, <3>2, <3>3 DEF AskCancel
  <2>2. hScheduledAt' \in Moment /\ os' = os /\ requests' = requests
    BY <1>3, Instants DEF AskCancel
  <2>3. faults' - faults \in Nat
    BY <2>1, FaultsAssumption DEF Fault, TypeOK, BudgetType
  <2>4. \A i \in Instant : Due(r, i) <= faults' - faults
    BY <2>1, <2>3
  <2> QED
    BY <1>1, <2>1, <2>2, <2>4
<1>4. CASE AskVerify(c, at)
  <2>1. \E ok \in BOOLEAN : Asked(c, Answer(ok)) /\ (faults' = faults \/ Fault("list_fail"))
    <3>1. (os[at] > 0) \in BOOLEAN
      BY DEF TypeOK, HelperType
    <3> QED
      BY <1>4, <3>1 DEF AskVerify
  <2> PICK ok \in BOOLEAN : Asked(c, Answer(ok)) /\ (faults' = faults \/ Fault("list_fail"))
    BY <2>1
  <2>2. hScheduledAt' \in Moment /\ os' = os /\ requests' = requests
    BY <1>4 DEF AskVerify, TypeOK, HelperType
  <2>3. faults' - faults \in Nat
    BY FaultsAssumption DEF Fault, TypeOK, BudgetType
  <2>4. \A i \in Instant : Due(Answer(ok), i) <= faults' - faults
    BY <2>3, RestTypes
  <2> QED
    BY <1>1, <2>2, <2>4, RestTypes
<1> QED
  BY <1>2, <1>3, <1>4

\* Neither does an answer taken.
LEMMA HangupSteps ==
    ASSUME TypeOK, PileInv, NEW c \in Caller, Hangup(c), UNCHANGED << helperVars, faults >>
    PROVE  HelperType' /\ PileInv'
<1>1. HelperType'
  BY RestTypes DEF Hangup, helperVars, TypeOK, HelperType
<1>2. /\ faults' \in Nat /\ faults <= faults' /\ os' = os
      /\ \A i \in Instant :
            os'[i] + Due(NoCall, i) <= os[i] + Due(call[c], i) + (faults' - faults)
  BY RestTypes, FaultsAssumption DEF helperVars, Due, TypeOK, BudgetType, HelperType
<1> QED
  BY <1>1, <1>2, PileStep DEF Hangup, HelperType
-----------------------------------------------------------------------------
(* Every step keeps the types and the bound on equal entries. *)

\* PileInv speaks of the helper's state and the faults only.
LEMMA PileStutter ==
    ASSUME PileInv, UNCHANGED << call, os, faults >>
    PROVE  PileInv'
  BY DEF PileInv, Coming

LEMMA EnterTypes ==
    ASSUME TypeOK, PileInv, Tick \/ Handlers
    PROVE  TypeOK' /\ PileInv'
<1>1. ASSUME NEW t \in Thread, NEW e \in ThreadRecord, Enter(t, e), e.pc \notin SchedulePc
      PROVE  /\ thr' \in [Thread -> ThreadRecord]
             /\ \A o \in Thread : thr'[o].pc \in SchedulePc => thr'[o].at \in Instant
             /\ crossed' \in BOOLEAN
  BY <1>1 DEF Enter, TypeOK, DaemonType, BudgetType
<1>2. /\ [Idle EXCEPT !.pc = "target"] \in ThreadRecord
      /\ [pc |-> "cancel", at |-> None, pausing |-> TRUE] \in ThreadRecord
  BY DEF Idle, ThreadRecord, ThreadPc, CancelPc, Moment
<1>3. \A t \in Thread : Enter(t, [Idle EXCEPT !.pc = "target"]) =>
          /\ thr' \in [Thread -> ThreadRecord]
          /\ \A o \in Thread : thr'[o].pc \in SchedulePc => thr'[o].at \in Instant
          /\ crossed' \in BOOLEAN
  BY <1>1, <1>2 DEF Idle, SchedulePc
<1>4. CASE Tick
  <2>1. PileInv'
    BY <1>4, PileStutter DEF Tick, helperVars, budgetVars
  <2> QED
    BY <1>3, <1>4, <2>1 DEF Tick, Thread, TypeOK, WorldType, DaemonType, LinkType, HelperType,
         BudgetType, worldVars, linkVars, helperVars, budgetVars
<1>5. ASSUME Handlers PROVE PileInv' /\ requests' \in 0..MaxRequests
  <2>1. UNCHANGED << call, os, faults >> /\ \E k : Request(k)
    BY <1>5 DEF Handlers, JobChange, SkipNextOf, SkipNextGlobal, SetPaused, Resume, helperVars
  <2> QED
    BY <2>1, PileStutter, RequestsAssumption DEF Request, TypeOK, BudgetType
<1>6. CASE JobChange
  BY <1>3, <1>5, <1>6 DEF Handlers, JobChange, Thread, TypeOK, WorldType, DaemonType, LinkType,
       HelperType, BudgetType, linkVars, helperVars
<1>7. ASSUME NEW j \in Job, SkipNextOf(j) PROVE TypeOK'
  <2>1. FirstFire(j) \in Some(FireTime)
    BY FireTypes DEF TypeOK
  <2>2. skipUntil' \in [Job -> Some(FireTime)]
    BY <1>7, <2>1 DEF SkipNextOf, TypeOK, DaemonType
  <2> QED
    BY <1>3, <1>5, <1>7, <2>2 DEF Handlers, SkipNextOf, Thread, TypeOK, WorldType, DaemonType,
         LinkType, HelperType, BudgetType, worldVars, linkVars, helperVars
<1>8. CASE SkipNextGlobal
  <2>1. skipNextGlobal' \in Some(FireTime)
    BY <1>8, TargetTypes DEF SkipNextGlobal, TypeOK, Some
  <2> QED
    BY <1>3, <1>5, <1>8, <2>1 DEF Handlers, SkipNextGlobal, Thread, TypeOK, WorldType,
         DaemonType, LinkType, HelperType, BudgetType, worldVars, linkVars, helperVars
<1>9. CASE SetPaused
  <2>1. /\ thr' \in [Thread -> ThreadRecord]
        /\ \A o \in Thread : thr'[o].pc \in SchedulePc => thr'[o].at \in Instant
        /\ crossed' \in BOOLEAN
    BY <1>1, <1>2, <1>9 DEF SetPaused, Thread, SchedulePc
  <2> QED
    BY <1>5, <1>9, <2>1 DEF Handlers, SetPaused, TypeOK, WorldType, DaemonType, LinkType,
         HelperType, BudgetType, worldVars, linkVars, helperVars
<1>10. CASE Resume
  BY <1>3, <1>5, <1>10 DEF Handlers, Resume, Thread, TypeOK, WorldType, DaemonType, LinkType,
       HelperType, BudgetType, worldVars, linkVars, helperVars
<1> QED
  BY <1>4, <1>5, <1>6, <1>7, <1>8, <1>9, <1>10 DEF Handlers

\* A thread inside scheduleNextWake: three of its steps send a request, three take an
\* answer.
LEMMA SchedulingTypes ==
    ASSUME TypeOK, PileInv, NEW t \in Thread, Scheduling(t)
    PROVE  TypeOK' /\ PileInv'
<1>1. t \in Caller
  BY DEF Caller
<1>2. \A pc \in ThreadPc : Goto(t, pc) /\ (pc \in SchedulePc => thr[t].at \in Instant) =>
          /\ thr' \in [Thread -> ThreadRecord]
          /\ \A o \in Thread : thr'[o].pc \in SchedulePc => thr'[o].at \in Instant
  BY DEF Goto, TypeOK, DaemonType, ThreadRecord
<1>3. ASSUME NEW r \in ThreadRecord, thr' = [thr EXCEPT ![t] = r],
             r.pc \in SchedulePc => r.at \in Instant
      PROVE  /\ thr' \in [Thread -> ThreadRecord]
             /\ \A o \in Thread : thr'[o].pc \in SchedulePc => thr'[o].at \in Instant
  BY <1>3 DEF TypeOK, DaemonType
<1>4. thr' = [thr EXCEPT ![t] = Idle] =>
          /\ thr' \in [Thread -> ThreadRecord]
          /\ \A o \in Thread : thr'[o].pc \in SchedulePc => thr'[o].at \in Instant
  BY <1>3, RestTypes DEF Idle, SchedulePc
<1>5. CASE Target(t)
  <2>1. nextWakeTarget \in Moment
    BY TargetTypes DEF TypeOK
  <2>2. /\ thr' \in [Thread -> ThreadRecord]
        /\ \A o \in Thread : thr'[o].pc \in SchedulePc => thr'[o].at \in Instant
    BY <1>5, <2>1 DEF Target, TypeOK, DaemonType, ThreadRecord, ThreadPc, SchedulePc
  <2>3. PileInv'
    BY <1>5, PileStutter DEF Target, helperVars, budgetVars
  <2> QED
    BY <1>5, <2>2, <2>3 DEF Target, TypeOK, WorldType, DaemonType, LinkType, HelperType,
         BudgetType, worldVars, linkVars, helperVars, budgetVars
<1>6. CASE DecideNone(t)
  <2>1. [Idle EXCEPT !.pc = "cancel"] \in ThreadRecord /\ Idle \in ThreadRecord
    BY RestTypes DEF Idle, ThreadRecord, ThreadPc, CancelPc
  <2>2. /\ thr' \in [Thread -> ThreadRecord]
        /\ \A o \in Thread : thr'[o].pc \in SchedulePc => thr'[o].at \in Instant
    BY <1>3, <1>6, <2>1 DEF DecideNone, Idle, SchedulePc
  <2>3. PileInv' /\ nextWake' \in Moment
    BY <1>6, PileStutter, Instants DEF DecideNone, helperVars, budgetVars
  <2> QED
    BY <1>6, <2>2, <2>3 DEF DecideNone, TypeOK, WorldType, DaemonType, LinkType, HelperType,
         BudgetType, worldVars, linkVars, helperVars, budgetVars
<1>7. CASE Decide(t)
  <2>1. thr[t].at \in Instant
    BY <1>7 DEF Decide, TypeOK, DaemonType, ThreadRecord, Moment
  <2>2. [thr[t] EXCEPT !.pc = "schedule"] \in ThreadRecord /\ Idle \in ThreadRecord
    BY RestTypes DEF TypeOK, DaemonType, ThreadRecord, ThreadPc, SchedulePc
  <2>3. /\ thr' \in [Thread -> ThreadRecord]
        /\ \A o \in Thread : thr'[o].pc \in SchedulePc => thr'[o].at \in Instant
    <3>1. CASE StillRegistered(t)
      BY <1>4, <1>7, <3>1 DEF Decide
    <3>2. CASE ~StillRegistered(t)
      <4>1. [thr[t] EXCEPT !.pc = "schedule"].at \in Instant
        BY <2>1 DEF TypeOK, DaemonType, ThreadRecord
      <4> QED
        BY <1>3, <1>7, <2>2, <3>2, <4>1 DEF Decide
    <3> QED
      BY <3>1, <3>2
  <2>4. PileInv'
    BY <1>7, PileStutter DEF Decide, helperVars, budgetVars
  <2> QED
    BY <1>7, <2>3, <2>4 DEF Decide, TypeOK, WorldType, DaemonType, LinkType, HelperType,
         BudgetType, worldVars, linkVars, helperVars, budgetVars
<1>8. CASE CancelWake(t)
  <2>1. PileInv' /\ scheduledAt' \in Moment
    BY <1>8, PileStutter, Instants DEF CancelWake, helperVars, budgetVars
  <2>2. "cancelCall" \in ThreadPc /\ "cancelCall" \notin SchedulePc
    BY DEF ThreadPc, CancelPc, SchedulePc
  <2> QED
    BY <1>2, <1>8, <2>1, <2>2 DEF CancelWake, TypeOK, WorldType, DaemonType, LinkType,
         HelperType, BudgetType, worldVars, linkVars, helperVars, budgetVars
<1>9. CASE CancelWakeCall(t) \/ ScheduleWake(t) \/ VerifyWake(t)
  <2>1. PICK at \in Instant : AskSchedule(t, at) \/ AskCancel(t) \/ AskVerify(t, at)
    <3>1. 1 \in Instant
      BY InstantsAssumption DEF Instant
    <3> QED
      BY <1>9, <3>1 DEF CancelWakeCall, ScheduleWake, VerifyWake, TypeOK, DaemonType, SchedulePc
  <2>2. HelperType' /\ PileInv' /\ requests' = requests /\ faults' \in 0..MaxFaults
    BY <1>1, <2>1, AskSteps
  <2>3. PICK pc \in {"cancelling", "scheduling", "verifying"} :
            Goto(t, pc) /\ (pc \in SchedulePc => thr[t].at \in Instant)
    BY <1>9 DEF CancelWakeCall, ScheduleWake, VerifyWake, TypeOK, DaemonType, SchedulePc
  <2>4. pc \in ThreadPc
    BY <2>3 DEF ThreadPc, SchedulePc, CancelPc
  <2>5. UNCHANGED << worldVars, paused, skipUntil, skipNextGlobal, nextWake, wakeOK,
                     linkVars, up, crossed >>
    BY <1>9 DEF CancelWakeCall, ScheduleWake, VerifyWake
  <2> QED
    BY <1>2, <2>2, <2>3, <2>4, <2>5 DEF TypeOK, WorldType, DaemonType, LinkType, BudgetType,
         worldVars, linkVars
<1>10. ASSUME CancelWakeReturn(t) \/ ScheduleWakeReturn(t) \/ VerifyWakeReturn(t)
       PROVE  HelperType' /\ PileInv' /\ call[t].ok \in BOOLEAN
  <2>1. Hangup(t) /\ UNCHANGED << helperVars, faults >>
    BY <1>10 DEF CancelWakeReturn, ScheduleWakeReturn, VerifyWakeReturn, budgetVars
  <2> QED
    BY <1>1, <2>1, HangupSteps DEF TypeOK, HelperType, CallRecord
<1>11. CASE CancelWakeReturn(t)
  <2>1. nextWake' \in Moment /\ wakeOK' \in BOOLEAN /\ cancelPending' \in BOOLEAN
    BY <1>10, <1>11, Instants DEF CancelWakeReturn, TypeOK, DaemonType, LinkType
  <2> QED
    BY <1>4, <1>10, <1>11, <2>1 DEF CancelWakeReturn, TypeOK, WorldType, DaemonType, LinkType,
         BudgetType, worldVars, budgetVars
<1>12. CASE ScheduleWakeReturn(t)
  <2>1. thr[t].at \in Moment /\ thr[t].at \in Instant
    BY <1>12 DEF ScheduleWakeReturn, TypeOK, DaemonType, ThreadRecord, SchedulePc
  <2>2. "verify" \in ThreadPc
    BY DEF ThreadPc, SchedulePc
  <2> QED
    BY <1>2, <1>4, <1>10, <1>12, <2>1, <2>2 DEF ScheduleWakeReturn, TypeOK, WorldType,
         DaemonType, LinkType, BudgetType, worldVars, budgetVars
<1>13. CASE VerifyWakeReturn(t)
  <2>1. nextWake' \in Moment /\ wakeOK' \in BOOLEAN
    BY <1>10, <1>13 DEF VerifyWakeReturn, TypeOK, DaemonType, ThreadRecord
  <2> QED
    BY <1>4, <1>10, <1>13, <2>1 DEF VerifyWakeReturn, TypeOK, WorldType, DaemonType, LinkType,
         BudgetType, worldVars, linkVars, budgetVars
<1> QED
  BY <1>5, <1>6, <1>7, <1>8, <1>9, <1>11, <1>12, <1>13 DEF Scheduling
\* The pump, between its snapshot and its one request.
LEMMA PumpTypes ==
    ASSUME TypeOK, PileInv, Pump
    PROVE  TypeOK' /\ PileInv'
<1>1. CASE ReconcileSnapshot
  <2>1. pump' \in PumpRecord
    BY <1>1 DEF ReconcileSnapshot, PumpRecord, TypeOK, LinkType
  <2>2. PileInv'
    BY <1>1, PileStutter DEF ReconcileSnapshot, helperVars, budgetVars
  <2> QED
    BY <1>1, <2>1, <2>2 DEF ReconcileSnapshot, TypeOK, WorldType, DaemonType, LinkType,
         HelperType, BudgetType, worldVars, daemonVars, helperVars, budgetVars
<1>2. ASSUME NEW at \in Instant, AskSchedule("pump", at) \/ AskCancel("pump"),
             pump' \in PumpRecord,
             UNCHANGED << worldVars, daemonVars, scheduledAt, cancelPending, up, crossed >>
      PROVE  TypeOK' /\ PileInv'
  <2>1. HelperType' /\ PileInv' /\ requests' = requests /\ faults' \in 0..MaxFaults
    BY <1>2, AskSteps DEF Caller
  <2> QED
    BY <1>2, <2>1 DEF TypeOK, WorldType, DaemonType, LinkType, BudgetType, worldVars, daemonVars
<1>3. CASE ReconcileCancel
  <2>1. 1 \in Instant
    BY InstantsAssumption DEF Instant
  <2>2. pump' \in PumpRecord
    BY <1>3 DEF ReconcileCancel, PumpRecord, TypeOK, LinkType
  <2> QED
    BY <1>2, <1>3, <2>1, <2>2 DEF ReconcileCancel
<1>4. CASE ReconcileSchedule
  <2>1. CASE pump.at > now /\ AskSchedule("pump", pump.at)
             /\ pump' = [pump EXCEPT !.pc = "scheduling"]
    <3>1. pump.at \in Instant
      BY <2>1, InstantsAssumption DEF TypeOK, LinkType, PumpRecord, Moment, None, WorldType
    <3>2. pump' \in PumpRecord
      BY <2>1 DEF PumpRecord, TypeOK, LinkType
    <3> QED
      BY <1>2, <1>4, <2>1, <3>1, <3>2 DEF ReconcileSchedule
  <2>2. CASE pump' = NoPump /\ UNCHANGED << call, helperVars, budgetVars >>
    <3>1. PileInv'
      BY <2>2, PileStutter DEF helperVars, budgetVars
    <3> QED
      BY <1>4, <2>2, <3>1, RestTypes DEF ReconcileSchedule, TypeOK, WorldType, DaemonType,
           LinkType, HelperType, BudgetType, worldVars, daemonVars, helperVars, budgetVars
  <2> QED
    BY <1>4, <2>1, <2>2 DEF ReconcileSchedule
<1>5. CASE ReconcileReturn
  <2>1. HelperType' /\ PileInv'
    BY <1>5, HangupSteps DEF ReconcileReturn, Caller, budgetVars
  <2>2. cancelPending' \in BOOLEAN
    BY <1>5 DEF ReconcileReturn, TypeOK, LinkType
  <2> QED
    BY <1>5, <2>1, <2>2, RestTypes DEF ReconcileReturn, TypeOK, WorldType, DaemonType,
         LinkType, BudgetType, worldVars, daemonVars, budgetVars
<1> QED
  BY <1>1, <1>3, <1>4, <1>5 DEF Pump

\* A request inside the helper. Cancelling makes an addition due only where it has
\* emptied the instant or has failed; adding an entry discharges it.
LEMMA HelperTypes ==
    ASSUME TypeOK, PileInv, NEW c \in Caller, Helper(c)
    PROVE  TypeOK' /\ PileInv'
<1>1. \A x, y : Due(x, y) \in 0..1
  BY DEF Due
<1>2. /\ call[c] \in CallRecord /\ Sound(call[c]) /\ os \in [Instant -> Nat]
      /\ faults \in Nat /\ MaxFaults \in Nat /\ faults <= MaxFaults
  BY FaultsAssumption DEF TypeOK, HelperType, BudgetType
<1>3. ASSUME NEW r \in CallRecord, Sound(r), Step(c, r)
      PROVE  call' \in [Caller -> CallRecord] /\ \A k \in Caller : Sound(call'[k])
  BY <1>3 DEF Step, TypeOK, HelperType
<1>4. \A k : Fault(k) => faults' = faults + 1 /\ faults' \in 0..MaxFaults
  BY <1>2 DEF Fault
<1>5. CASE CancelListed(c)
  <2> DEFINE next(ok) == IF call[c].op = "cancel" THEN Answer(ok)
                         ELSE [call[c] EXCEPT !.st = "add", !.stale = {}]
  <2>1. \A ok \in BOOLEAN : next(ok) \in CallRecord /\ Sound(next(ok))
    <3>1. call[c].op = "schedule" =>
              LET r == [call[c] EXCEPT !.st = "add", !.stale = {}]
              IN  r \in CallRecord /\ Sound(r)
      BY <1>2, <1>5 DEF CancelListed, CallRecord, Sound
    <3>2. call[c].op # "verify"
      BY <1>2, <1>5 DEF CancelListed, CallRecord, Sound
    <3> QED
      BY <1>2, <3>1, <3>2, RestTypes DEF CallRecord
  <2>2. \A i, ok : i \notin call[c].stale => Due(next(ok), i) <= Due(call[c], i)
    <3>1. ASSUME NEW i, NEW ok, i \notin call[c].stale, Adds(next(ok), i)
          PROVE  Adds(call[c], i)
      <4>1. next(ok).op = "schedule" /\ next(ok).st # "done"
        BY <3>1, RestTypes DEF Adds, Answer
      <4>2. call[c].op # "cancel"
        BY <4>1 DEF Answer, NoCall
      <4> QED
        BY <1>2, <1>5, <3>1, <4>2 DEF Adds, CancelListed, CallRecord
    <3>2. ASSUME NEW i, NEW ok, i \notin call[c].stale
          PROVE  Due(next(ok), i) <= Due(call[c], i)
      <4>1. Adds(next(ok), i) => Adds(call[c], i)
        BY <3>1, <3>2
      <4> HIDE DEF next
      <4> QED
        BY <4>1 DEF Due
    <3> QED
      BY <3>2
  <2> HIDE DEF next
  <2>3. CASE /\ os' = [i \in Instant |-> IF i \in call[c].stale THEN 0 ELSE os[i]]
             /\ Step(c, next(TRUE)) /\ UNCHANGED faults
    <3> DEFINE r == next(TRUE)
    <3>0. /\ r \in CallRecord /\ Sound(r) /\ Step(c, r)
          /\ \A i : i \notin call[c].stale => Due(r, i) <= Due(call[c], i)
      BY <2>1, <2>2, <2>3
    <3> HIDE DEF r
    <3>1. os' \in [Instant -> Nat]
      BY <1>2, <2>3
    <3>2. \A i \in Instant : \/ os'[i] = 0
                            \/ os'[i] + Due(r, i)
                                  <= os[i] + Due(call[c], i) + (faults' - faults)
      <4> SUFFICES ASSUME NEW i \in Instant, i \notin call[c].stale
                   PROVE  os'[i] + Due(r, i)
                            <= os[i] + Due(call[c], i) + (faults' - faults)
        BY <2>3
      <4>1. os'[i] = os[i] /\ os[i] \in Nat /\ faults' = faults /\ faults \in Nat
        BY <1>2, <2>3
      <4>2. Due(r, i) <= Due(call[c], i)
        BY <3>0
      <4>3. Due(r, i) \in 0..1 /\ Due(call[c], i) \in 0..1
        BY <1>1
      <4> QED
        BY <4>1, <4>2, <4>3
    <3>3. PileInv'
      <4>1. call' = [call EXCEPT ![c] = r]
        BY <3>0 DEF Step
      <4>2. faults' \in Nat /\ faults <= faults'
        BY <1>2, <2>3
      <4> QED
        BY <3>1, <3>2, <4>1, <4>2, PileStep
    <3> QED
      BY <1>3, <1>5, <3>0, <2>3, <3>1, <3>3 DEF CancelListed, TypeOK, WorldType, DaemonType,
           LinkType, HelperType, BudgetType, worldVars, daemonVars, linkVars
  <2>4. CASE Fault("cancel_fail") /\ Step(c, next(FALSE)) /\ UNCHANGED os
    <3> DEFINE r == next(FALSE)
    <3>0. r \in CallRecord /\ Sound(r) /\ Step(c, r)
      BY <2>1, <2>4
    <3> HIDE DEF r
    <3>1. faults' = faults + 1 /\ faults' \in 0..MaxFaults
      BY <1>4, <2>4
    <3>2. \A i \in Instant : os'[i] + Due(r, i)
                              <= os[i] + Due(call[c], i) + (faults' - faults)
      <4> TAKE i \in Instant
      <4>1. Due(r, i) \in 0..1 /\ Due(call[c], i) \in 0..1
        BY <1>1
      <4>2. os'[i] = os[i] /\ os[i] \in Nat /\ faults \in Nat
        BY <1>2, <2>4
      <4> QED
        BY <3>1, <4>1, <4>2
    <3>3. PileInv'
      <4>1. call' = [call EXCEPT ![c] = r]
        BY <3>0 DEF Step
      <4>2. faults' \in Nat /\ faults <= faults' /\ os' \in [Instant -> Nat]
        BY <1>2, <2>4, <3>1
      <4> QED
        BY <3>2, <4>1, <4>2, PileStep
    <3> QED
      BY <1>3, <1>5, <3>0, <2>4, <3>1, <3>3 DEF CancelListed, TypeOK, WorldType, DaemonType,
           LinkType, HelperType, BudgetType, worldVars, daemonVars, linkVars
  <2> QED
    BY <1>5, <2>3, <2>4 DEF CancelListed, next
<1>6. CASE AddEntry(c)
  <2>1. /\ call[c].st = "add" /\ call[c].op = "schedule" /\ call[c].stale = {}
        /\ call[c].at \in Instant
    BY <1>2, <1>6 DEF AddEntry, Sound
  <2>2. CASE /\ os' = IF call[c].matching = 0 THEN WithEntry(call[c].at) ELSE os
             /\ hScheduledAt' = call[c].at /\ Step(c, Answer(TRUE)) /\ UNCHANGED faults
    <3> DEFINE r == Answer(TRUE)
    <3>0. r \in CallRecord /\ Sound(r) /\ Step(c, r) /\ \A i : Due(r, i) = 0
      BY <2>2, RestTypes
    <3> HIDE DEF r
    <3>1. os' \in [Instant -> Nat]
      BY <1>2, <2>1, <2>2 DEF WithEntry
    <3>2. ASSUME NEW i \in Instant
          PROVE  os'[i] + Due(r, i) <= os[i] + Due(call[c], i) + (faults' - faults)
      <4>1. /\ Due(r, i) = 0 /\ Due(call[c], i) \in 0..1
            /\ faults' = faults /\ faults \in Nat /\ os[i] \in Nat
        <5>1. Due(r, i) = 0
          BY <3>0
        <5>2. Due(call[c], i) \in 0..1
          BY <1>1
        <5> QED
          BY <1>2, <2>2, <5>1, <5>2
      <4>2. CASE call[c].matching = 0 /\ i = call[c].at
        <5>1. Due(call[c], i) = 1
          BY <2>1, <4>2 DEF Due, Adds
        <5>2. os'[i] <= os[i] + 1
          BY <1>2, <2>1, <2>2, <4>1, <4>2 DEF WithEntry
        <5>3. os'[i] \in Nat
          BY <3>1
        <5> QED
          BY <4>1, <5>1, <5>2, <5>3
      <4>3. CASE ~(call[c].matching = 0 /\ i = call[c].at)
        <5>1. os'[i] = os[i]
          BY <1>2, <2>2, <4>3 DEF WithEntry
        <5> QED
          BY <4>1, <5>1
      <4> QED
        BY <4>2, <4>3
    <3>3. PileInv'
      <4>1. call' = [call EXCEPT ![c] = r]
        BY <3>0 DEF Step
      <4>2. faults' \in Nat /\ faults <= faults'
        BY <1>2, <2>2
      <4> QED
        BY <3>1, <3>2, <4>1, <4>2, PileStep
    <3>4. hScheduledAt' \in Moment
      BY <2>1, <2>2 DEF Moment
    <3> QED
      BY <1>3, <1>6, <3>0, <2>2, <3>1, <3>3, <3>4, RestTypes DEF AddEntry, TypeOK, WorldType,
           DaemonType, LinkType, HelperType, BudgetType, worldVars, daemonVars, linkVars
  <2>3. CASE Fault("add_fail") /\ Step(c, Answer(FALSE)) /\ UNCHANGED helperVars
    <3> DEFINE r == Answer(FALSE)
    <3>0. r \in CallRecord /\ Sound(r) /\ Step(c, r)
      BY <2>3, RestTypes
    <3> HIDE DEF r
    <3>1. faults' = faults + 1 /\ faults' \in 0..MaxFaults
      BY <1>4, <2>3
    <3>2. \A i \in Instant : os'[i] + Due(r, i)
                              <= os[i] + Due(call[c], i) + (faults' - faults)
      <4> TAKE i \in Instant
      <4>1. Due(r, i) \in 0..1 /\ Due(call[c], i) \in 0..1
        BY <1>1
      <4>2. os'[i] = os[i] /\ os[i] \in Nat /\ faults \in Nat
        BY <1>2, <2>3 DEF helperVars
      <4> QED
        BY <3>1, <4>1, <4>2
    <3>3. PileInv'
      <4>1. call' = [call EXCEPT ![c] = r]
        BY <3>0 DEF Step
      <4>2. faults' \in Nat /\ faults <= faults' /\ os' \in [Instant -> Nat]
        BY <1>2, <2>3, <3>1 DEF helperVars
      <4> QED
        BY <3>2, <4>1, <4>2, PileStep
    <3> QED
      BY <1>3, <1>6, <2>3, <3>0, <3>1, <3>3 DEF AddEntry, TypeOK, WorldType, DaemonType,
           LinkType, HelperType, BudgetType, worldVars, daemonVars, linkVars, helperVars
  <2> QED
    BY <1>6, <2>2, <2>3 DEF AddEntry
<1> QED
  BY <1>5, <1>6 DEF Helper
\* The world only takes entries away, and a crash answers every request.
LEMMA WorldTypes ==
    ASSUME TypeOK, PileInv, World
    PROVE  TypeOK' /\ PileInv'
<1>1. faults \in Nat /\ MaxFaults \in Nat /\ MaxRequests \in Nat /\ os \in [Instant -> Nat]
  BY FaultsAssumption, RequestsAssumption DEF TypeOK, BudgetType, HelperType
<1>2. /\ \A k : Fault(k) => faults' \in 0..MaxFaults /\ faults <= faults' /\ faults' \in Nat
      /\ \A k : Request(k) => requests' \in 0..MaxRequests
  BY <1>1 DEF Fault, Request, TypeOK, BudgetType
<1>3. ASSUME call' = call, os' \in [Instant -> Nat], faults' \in Nat, faults <= faults',
             \A i \in Instant : os'[i] <= os[i]
      PROVE  PileInv'
  <2>1. \A x, y : Due(x, y) \in 0..1
    BY DEF Due
  <2> SUFFICES ASSUME NEW i \in Instant PROVE os'[i] + Coming(i)' <= 3 + faults'
    BY DEF PileInv
  <2>2. Coming(i)' = Coming(i) /\ Coming(i) \in Nat
    BY <1>3, <2>1 DEF Coming
  <2>3. os[i] + Coming(i) <= 3 + faults /\ os'[i] <= os[i] /\ os[i] \in Nat /\ os'[i] \in Nat
    BY <1>1, <1>3 DEF PileInv
  <2> QED
    BY <1>1, <1>3, <2>2, <2>3
<1>4. ASSUME \A c \in Caller, i \in Instant : Due(call'[c], i) <= Due(call[c], i),
             os' = os, faults' \in Nat, faults <= faults'
      PROVE  PileInv'
  <2>1. \A x, y : Due(x, y) \in 0..1
    BY DEF Due
  <2> SUFFICES ASSUME NEW i \in Instant PROVE os'[i] + Coming(i)' <= 3 + faults'
    BY DEF PileInv
  <2>2. Coming(i)' <= Coming(i) /\ Coming(i)' \in Nat /\ Coming(i) \in Nat
    BY <1>4, <2>1 DEF Coming, Caller, Thread
  <2>3. os[i] + Coming(i) <= 3 + faults /\ os'[i] = os[i] /\ os[i] \in Nat
    BY <1>1, <1>4 DEF PileInv
  <2> QED
    BY <1>1, <1>4, <2>2, <2>3
<1>5. CASE Advance
  <2>1. now + 1 \in 0..Horizon /\ now + 1 \in Instant
    BY <1>5, InstantsAssumption DEF Advance, TypeOK, WorldType, Instant
  <2>2. os' \in [Instant -> Nat] /\ \A i \in Instant : os'[i] <= os[i]
    BY <1>1, <1>5, <2>1 DEF Advance
  <2>3. PileInv'
    BY <1>1, <1>3, <1>5, <2>2 DEF Advance, budgetVars
  <2> QED
    BY <1>5, <2>1, <2>2, <2>3 DEF Advance, TypeOK, WorldType, DaemonType, LinkType, HelperType,
         BudgetType, daemonVars, linkVars, budgetVars
<1>6. CASE BatteryChanges
  <2>1. PileInv'
    BY <1>6, PileStutter DEF BatteryChanges, helperVars
  <2> QED
    BY <1>2, <1>6, <2>1 DEF BatteryChanges, TypeOK, WorldType, DaemonType, LinkType,
         HelperType, BudgetType, daemonVars, linkVars, helperVars
<1>7. ASSUME NEW j \in Job, SchedulerReports(j) PROVE TypeOK' /\ PileInv'
  <2>1. now + Buffer + 1 \in FireTime
    BY InstantsAssumption DEF FireTime, TypeOK, WorldType
  <2>2. observed' \in [Job -> Some(FireTime)]
    BY <1>7, <2>1 DEF SchedulerReports, TypeOK, WorldType, Some
  <2>3. PileInv'
    BY <1>7, PileStutter DEF SchedulerReports, helperVars
  <2> QED
    BY <1>2, <1>7, <2>2, <2>3 DEF SchedulerReports, TypeOK, WorldType, DaemonType, LinkType,
         HelperType, BudgetType, daemonVars, linkVars, helperVars
<1>8. CASE DropEntry
  <2>1. os' \in [Instant -> Nat] /\ \A i \in Instant : os'[i] <= os[i]
    <3>1. PICK i \in Instant : os' = [os EXCEPT ![i] = 0]
      BY <1>8 DEF DropEntry, OurEntries
    <3> QED
      BY <1>1, <3>1
  <2>2. faults' \in 0..MaxFaults /\ PileInv'
    BY <1>2, <1>3, <1>8, <2>1 DEF DropEntry
  <2> QED
    BY <1>8, <2>1, <2>2 DEF DropEntry, TypeOK, WorldType, DaemonType, LinkType, HelperType,
         BudgetType, worldVars, daemonVars, linkVars
<1>9. CASE HelperCrash
  <2>1. \A c \in Caller : (call[c].st = "done" /\ call[c].ok) \in BOOLEAN
    BY DEF TypeOK, HelperType, CallRecord
  <2>2. \A c \in Caller : call'[c] = NoCall \/ \E ok \in BOOLEAN : call'[c] = Answer(ok)
    BY <1>9, <2>1 DEF HelperCrash
  <2>3. \A c \in Caller : call'[c] \in CallRecord /\ Sound(call'[c])
    BY <2>2, RestTypes
  <2>4. ASSUME NEW c \in Caller, NEW i PROVE Due(call'[c], i) <= Due(call[c], i)
    <3>1. Due(call'[c], i) = 0
      BY <2>2, RestTypes
    <3>2. Due(call[c], i) \in 0..1
      BY DEF Due
    <3> QED
      BY <3>1, <3>2
  <2>5. faults' \in 0..MaxFaults /\ PileInv'
    BY <1>2, <1>4, <1>9, <2>4 DEF HelperCrash
  <2>6. HelperType'
    <3>1. call' \in [Caller -> CallRecord]
      BY <1>9, <2>3 DEF HelperCrash
    <3> QED
      BY <1>9, <2>3, <3>1, Instants DEF HelperCrash, TypeOK, HelperType
  <2> QED
    BY <1>9, <2>5, <2>6 DEF HelperCrash, TypeOK, WorldType, DaemonType, LinkType, BudgetType,
         worldVars, daemonVars, linkVars
<1>10. CASE DaemonCrash
  <2>1. DaemonType'
    <3>1. /\ thr' \in [Thread -> ThreadRecord]
          /\ \A t \in Thread : thr'[t].pc \in SchedulePc => thr'[t].at \in Instant
      BY <1>10, RestTypes DEF DaemonCrash, Idle, SchedulePc
    <3> QED
      BY <1>10, <3>1, Instants DEF DaemonCrash, DaemonType, Some
  <2>2. LinkType'
    BY <1>10, RestTypes, Instants DEF DaemonCrash, LinkType
  <2>3. faults' \in 0..MaxFaults /\ PileInv'
    BY <1>1, <1>2, <1>3, <1>10 DEF DaemonCrash, helperVars
  <2> QED
    BY <1>10, <2>1, <2>2, <2>3 DEF DaemonCrash, TypeOK, WorldType, HelperType, BudgetType,
         worldVars, helperVars
<1>11. CASE DaemonStart
  <2>1. \A c \in Caller, i \in Instant : Due(call'[c], i) <= Due(call[c], i)
    <3> SUFFICES ASSUME NEW c \in Caller, NEW i \in Instant
                 PROVE  Due(call'[c], i) <= Due(call[c], i)
      OBVIOUS
    <3>1. Due(call'[c], i) = 0
      BY <1>11, RestTypes DEF DaemonStart
    <3>2. Due(call[c], i) \in 0..1
      BY DEF Due
    <3> QED
      BY <3>1, <3>2
  <2>2. PileInv'
    BY <1>1, <1>4, <1>11, <2>1 DEF DaemonStart, helperVars, budgetVars
  <2>3. HelperType'
    BY <1>11, RestTypes DEF DaemonStart, TypeOK, HelperType, helperVars
  <2> QED
    BY <1>11, <2>2, <2>3 DEF DaemonStart, TypeOK, WorldType, DaemonType, LinkType, BudgetType,
         worldVars, daemonVars, linkVars, budgetVars
<1> QED
  BY <1>5, <1>6, <1>7, <1>8, <1>9, <1>10, <1>11 DEF World

-----------------------------------------------------------------------------
(* What a thread in scheduleNextWake may rely on. *)

ThreadInv == OneAtATime /\ ClaimInv /\ SkipInv

\* Only the threads themselves, and the daemon's end, touch what ThreadInv speaks of.
LEMMA ThreadStutter ==
    ASSUME ThreadInv,
           UNCHANGED << thr, nextWake, wakeOK, scheduledAt, skipUntil, skipNextGlobal, crossed >>
    PROVE  ThreadInv'
  BY DEF ThreadInv, OneAtATime, ClaimInv, SkipInv, AtRest, Claimed, Unskipped

\* A thread that enters alone finds the daemon at rest; one that meets another has crossed.
LEMMA EnterThreads ==
    ASSUME TypeOK, ThreadInv, Tick \/ Handlers
    PROVE  ThreadInv'
<1>1. ASSUME NEW t \in Thread, NEW e \in ThreadRecord, Enter(t, e),
             nextWake' = nextWake, wakeOK' = wakeOK, scheduledAt' = scheduledAt,
             e.pc = "target" \/ (e.pc = "cancel" /\ e.pausing)
      PROVE  ThreadInv'
  <2>1. /\ thr' = [thr EXCEPT ![t] = e] /\ thr'[t] = e
        /\ \A o \in Thread \ {t} : thr'[o] = thr[o]
    BY <1>1 DEF Enter, TypeOK, DaemonType
  <2>2. ~AtRest'
    BY <1>1, <2>1 DEF AtRest
  <2>3. ~crossed' => ~crossed /\ AtRest /\ \A o \in Thread \ {t} : thr'[o].pc = "idle"
    BY <1>1, <2>1 DEF Enter, AtRest
  <2>4. ~crossed' => Claimed'
    BY <1>1, <2>3 DEF ThreadInv, ClaimInv, Claimed
  <2>5. ~crossed' => \A o \in Thread : thr'[o].pc \in {"idle"} \/ (o = t /\ thr'[o] = e)
    BY <2>1, <2>3
  <2>6. OneAtATime'
    BY <2>5 DEF OneAtATime
  <2>7. ClaimInv'
    BY <1>1, <2>2, <2>4, <2>5 DEF ClaimInv, CancelPc
  <2>8. SkipInv'
    BY <1>1, <2>2, <2>5 DEF SkipInv, SchedulePc
  <2> QED
    BY <2>6, <2>7, <2>8 DEF ThreadInv
<1>2. /\ [Idle EXCEPT !.pc = "target"] \in ThreadRecord
      /\ [pc |-> "cancel", at |-> None, pausing |-> TRUE] \in ThreadRecord
      /\ [Idle EXCEPT !.pc = "target"].pc = "target"
  BY DEF Idle, ThreadRecord, ThreadPc, CancelPc, Moment
<1>3. \E t \in Thread : \E e \in ThreadRecord :
          Enter(t, e) /\ (e.pc = "target" \/ (e.pc = "cancel" /\ e.pausing))
  <2>1. CASE SetPaused
    BY <1>2, <2>1 DEF SetPaused, Thread
  <2>2. CASE Tick \/ JobChange \/ (\E j \in Job : SkipNextOf(j)) \/ SkipNextGlobal \/ Resume
    <3>1. \E t \in Thread : Enter(t, [Idle EXCEPT !.pc = "target"])
      BY <2>2 DEF Tick, JobChange, SkipNextOf, SkipNextGlobal, Resume, Thread
    <3> QED
      BY <1>2, <3>1
  <2> QED
    BY <2>1, <2>2 DEF Handlers
<1>4. nextWake' = nextWake /\ wakeOK' = wakeOK /\ scheduledAt' = scheduledAt
  BY DEF Tick, Handlers, JobChange, SkipNextOf, SkipNextGlobal, SetPaused, Resume, linkVars
<1> QED
  BY <1>1, <1>3, <1>4
\* One thread moves on: what it needs to keep ThreadInv, the other being idle unless the
\* two have crossed.
LEMMA MoveThreads ==
    ASSUME TypeOK, ThreadInv, NEW t \in Thread, NEW e \in ThreadRecord,
           thr[t].pc # "idle", thr' = [thr EXCEPT ![t] = e],
           UNCHANGED << crossed, skipUntil, skipNextGlobal >>,
           ~crossed =>
             /\ e.pc \in {"idle", "target", "decide", "schedule", "scheduling"} =>
                  (wakeOK' => scheduledAt' = nextWake')
             /\ e.pc \in {"verify", "verifying"} => scheduledAt' = e.at
             /\ e.pc \in CancelPc => e.pausing \/ (~wakeOK' /\ nextWake' = None)
             /\ e.pc = "idle" /\ nextWake' # None => Unskipped(nextWake')
             /\ e.pc \in {"decide"} \cup SchedulePc /\ e.at # None => Unskipped(e.at)
    PROVE  ThreadInv'
<1>1. /\ thr'[t] = e
      /\ \A o \in Thread \ {t} : thr'[o] = thr[o]
  BY DEF TypeOK, DaemonType
<1>2. ~crossed => \A o \in Thread \ {t} : thr'[o].pc = "idle"
  BY <1>1 DEF ThreadInv, OneAtATime
<1>3. OneAtATime'
  BY <1>1, <1>2 DEF OneAtATime
<1>4. AtRest' /\ ~crossed => e.pc = "idle"
  BY <1>1 DEF AtRest
<1>5. ClaimInv'
  BY <1>1, <1>2, <1>4 DEF ClaimInv, Claimed, CancelPc
<1>6. \A w : Unskipped(w) =>
          \E j \in Job : w + Buffer > skipNextGlobal' /\ w + Buffer > skipUntil'[j]
  BY DEF Unskipped
<1>7. SkipInv'
  BY <1>1, <1>2, <1>4, <1>6 DEF SkipInv, SchedulePc, Unskipped
<1> QED
  BY <1>3, <1>5, <1>7 DEF ThreadInv

LEMMA SchedulingThreads ==
    ASSUME TypeOK, ThreadInv, NEW t \in Thread, Scheduling(t)
    PROVE  ThreadInv'
<1>1. thr[t] \in ThreadRecord /\ thr \in [Thread -> ThreadRecord]
  BY DEF TypeOK, DaemonType
<1>2. UNCHANGED << crossed, skipUntil, skipNextGlobal >>
  BY DEF Scheduling, Target, DecideNone, Decide, CancelWake, CancelWakeCall, CancelWakeReturn,
         ScheduleWake, ScheduleWakeReturn, VerifyWake, VerifyWakeReturn
<1>3. ASSUME NEW pc \in ThreadPc, Goto(t, pc)
      PROVE  /\ thr' = [thr EXCEPT ![t] = [thr[t] EXCEPT !.pc = pc]]
             /\ [thr[t] EXCEPT !.pc = pc] \in ThreadRecord
             /\ [thr[t] EXCEPT !.pc = pc].pc = pc
             /\ [thr[t] EXCEPT !.pc = pc].at = thr[t].at
             /\ [thr[t] EXCEPT !.pc = pc].pausing = thr[t].pausing
  BY <1>1, <1>3 DEF Goto, ThreadRecord
<1>4. Idle.pc = "idle" /\ Idle \in ThreadRecord
  BY RestTypes DEF Idle
<1>5. CASE Target(t)
  <2> DEFINE e == [thr[t] EXCEPT !.pc = "decide", !.at = nextWakeTarget]
  <2>1. e \in ThreadRecord /\ e.pc = "decide" /\ e.at = nextWakeTarget
    BY <1>1, TargetTypes DEF TypeOK, ThreadRecord, ThreadPc
  <2>2. thr' = [thr EXCEPT ![t] = e] /\ thr[t].pc = "target"
    BY <1>1, <1>5 DEF Target
  <2>3. nextWake' = nextWake /\ wakeOK' = wakeOK /\ scheduledAt' = scheduledAt
    BY <1>5 DEF Target, linkVars
  <2>4. nextWakeTarget # None => Unskipped(nextWakeTarget)
    BY TargetTypes DEF TypeOK
  <2> HIDE DEF e
  <2> QED
    BY <1>2, <2>1, <2>2, <2>3, <2>4, MoveThreads DEF ThreadInv, ClaimInv, Claimed, CancelPc
<1>6. CASE DecideNone(t)
  <2> DEFINE c == [Idle EXCEPT !.pc = "cancel"]
  <2>1. c \in ThreadRecord /\ c.pc = "cancel"
    BY DEF Idle, ThreadRecord, ThreadPc, CancelPc, Moment
  <2>2. PICK e \in {Idle, c} : thr' = [thr EXCEPT ![t] = e]
    BY <1>6 DEF DecideNone
  <2>3. e \in ThreadRecord /\ e.pc \in {"idle", "cancel"}
    BY <1>4, <2>1, <2>2
  <2>4. thr[t].pc = "decide" /\ nextWake' = None /\ ~wakeOK'
    BY <1>6 DEF DecideNone
  <2> QED
    BY <1>2, <2>2, <2>3, <2>4, MoveThreads DEF CancelPc, SchedulePc
<1>7. CASE Decide(t)
  <2> DEFINE s == [thr[t] EXCEPT !.pc = "schedule"]
  <2>1. s \in ThreadRecord /\ s.pc = "schedule" /\ s.at = thr[t].at
    BY <1>1 DEF ThreadRecord, ThreadPc, SchedulePc
  <2>2. PICK e \in {Idle, s} : /\ thr' = [thr EXCEPT ![t] = e]
                              /\ e = IF StillRegistered(t) THEN Idle ELSE s
    BY <1>7 DEF Decide
  <2>3. /\ e \in ThreadRecord /\ e.pc \in {"idle", "schedule"}
        /\ e.pc = "schedule" => e.at = thr[t].at
    BY <1>4, <2>1, <2>2
  <2>4. thr[t].pc = "decide" /\ thr[t].at # None
    BY <1>7 DEF Decide
  <2>5. nextWake' = nextWake /\ wakeOK' = wakeOK /\ scheduledAt' = scheduledAt
    BY <1>7 DEF Decide, linkVars
  <2>6. e.pc = "idle" => nextWake = thr[t].at
    BY <2>1, <2>2 DEF StillRegistered
  <2> HIDE DEF s
  <2> QED
    BY <1>2, <2>2, <2>3, <2>4, <2>5, <2>6, MoveThreads
       DEF ThreadInv, ClaimInv, SkipInv, Claimed, CancelPc, SchedulePc
<1>8. CASE CancelWake(t) \/ CancelWakeCall(t)
  <2>1. PICK pc \in {"cancelCall", "cancelling"} : Goto(t, pc)
    BY <1>8 DEF CancelWake, CancelWakeCall
  <2> DEFINE e == [thr[t] EXCEPT !.pc = pc]
  <2>2. /\ thr' = [thr EXCEPT ![t] = e] /\ e \in ThreadRecord
        /\ e.pc = pc /\ e.pausing = thr[t].pausing
    BY <1>3, <2>1 DEF ThreadPc, CancelPc
  <2>3. thr[t].pc \in CancelPc /\ thr[t].pc # "idle" /\ nextWake' = nextWake /\ wakeOK' = wakeOK
    BY <1>8 DEF CancelWake, CancelWakeCall, CancelPc
  <2> HIDE DEF e
  <2> QED
    BY <1>2, <2>2, <2>3, MoveThreads DEF ThreadInv, ClaimInv, CancelPc, SchedulePc
<1>9. CASE CancelWakeReturn(t)
  <2>1. thr[t].pc = "cancelling" /\ thr' = [thr EXCEPT ![t] = Idle]
    BY <1>9 DEF CancelWakeReturn
  <2>2. ~crossed => ~wakeOK' /\ nextWake' = None
    BY <1>9, <2>1 DEF CancelWakeReturn, ThreadInv, ClaimInv, CancelPc
  <2> QED
    BY <1>2, <1>4, <2>1, <2>2, MoveThreads DEF CancelPc, SchedulePc
<1>10. CASE ScheduleWake(t)
  <2> DEFINE e == [thr[t] EXCEPT !.pc = "scheduling"]
  <2>1. /\ thr' = [thr EXCEPT ![t] = e] /\ e \in ThreadRecord
        /\ e.pc = "scheduling" /\ e.at = thr[t].at
    BY <1>3, <1>10 DEF ScheduleWake, ThreadPc, SchedulePc
  <2>2. /\ thr[t].pc = "schedule"
        /\ nextWake' = nextWake /\ wakeOK' = wakeOK /\ scheduledAt' = scheduledAt
    BY <1>10 DEF ScheduleWake, linkVars
  <2> HIDE DEF e
  <2> QED
    BY <1>2, <2>1, <2>2, MoveThreads
       DEF ThreadInv, ClaimInv, SkipInv, Claimed, CancelPc, SchedulePc
<1>11. CASE ScheduleWakeReturn(t)
  <2>1. thr[t].pc = "scheduling"
    BY <1>11 DEF ScheduleWakeReturn
  <2>2. ~crossed /\ thr[t].at # None => Unskipped(thr[t].at)
    BY <2>1 DEF ThreadInv, SkipInv, SchedulePc
  <2>3. CASE scheduledAt' = thr[t].at /\ Goto(t, "verify")
    <3> DEFINE e == [thr[t] EXCEPT !.pc = "verify"]
    <3>1. /\ thr' = [thr EXCEPT ![t] = e] /\ e \in ThreadRecord
          /\ e.pc = "verify" /\ e.at = thr[t].at
      BY <1>3, <2>3 DEF ThreadPc, SchedulePc
    <3> HIDE DEF e
    <3> QED
      BY <1>2, <2>1, <2>2, <2>3, <3>1, MoveThreads DEF CancelPc, SchedulePc
  <2>4. CASE nextWake' = thr[t].at /\ wakeOK' = FALSE /\ thr' = [thr EXCEPT ![t] = Idle]
    BY <1>2, <1>4, <2>1, <2>2, <2>4, MoveThreads DEF CancelPc, SchedulePc
  <2> QED
    BY <1>11, <2>3, <2>4 DEF ScheduleWakeReturn
<1>12. CASE VerifyWake(t)
  <2> DEFINE e == [thr[t] EXCEPT !.pc = "verifying"]
  <2>1. /\ thr' = [thr EXCEPT ![t] = e] /\ e \in ThreadRecord
        /\ e.pc = "verifying" /\ e.at = thr[t].at
    BY <1>3, <1>12 DEF VerifyWake, ThreadPc, SchedulePc
  <2>2. thr[t].pc = "verify" /\ scheduledAt' = scheduledAt
    BY <1>12 DEF VerifyWake, linkVars
  <2> HIDE DEF e
  <2> QED
    BY <1>2, <2>1, <2>2, MoveThreads DEF ThreadInv, ClaimInv, SkipInv, CancelPc, SchedulePc
<1>13. CASE VerifyWakeReturn(t)
  <2>1. /\ thr[t].pc = "verifying" /\ thr' = [thr EXCEPT ![t] = Idle]
        /\ nextWake' = thr[t].at /\ scheduledAt' = scheduledAt
    BY <1>13 DEF VerifyWakeReturn, linkVars
  <2> QED
    BY <1>2, <1>4, <2>1, MoveThreads DEF ThreadInv, ClaimInv, SkipInv, CancelPc, SchedulePc
<1> QED
  BY <1>5, <1>6, <1>7, <1>8, <1>9, <1>10, <1>11, <1>12, <1>13 DEF Scheduling

-----------------------------------------------------------------------------
(* The theorems. *)

LEMMA InitInv == Init => IInv
<1> SUFFICES ASSUME Init PROVE IInv
  OBVIOUS
<1>1. WorldType /\ LinkType /\ BudgetType
  <2>1. WorldType
    <3>1. now = 0 /\ jobs = Job /\ flat = FALSE /\ observed = [j \in Job |-> None]
      BY DEF Init
    <3>2. 0 \in 0..Horizon /\ None \in Some(FireTime)
      BY InstantsAssumption DEF Some
    <3> QED
      BY <3>1, <3>2 DEF WorldType
  <2>2. LinkType
    BY RestTypes, Instants DEF Init, LinkType
  <2>3. BudgetType
    <3>1. up = TRUE /\ crossed = FALSE /\ requests = 0 /\ faults = 0
      BY DEF Init
    <3>2. 0 \in 0..MaxRequests /\ 0 \in 0..MaxFaults
      BY RequestsAssumption, FaultsAssumption
    <3> QED
      BY <3>1, <3>2 DEF BudgetType
  <2> QED
    BY <2>1, <2>2, <2>3
<1>2. DaemonType
  BY RestTypes, Instants DEF Init, DaemonType, Some, Idle, SchedulePc
<1>3. HelperType
  BY RestTypes, Instants DEF Init, HelperType
<1>4. OneAtATime /\ ClaimInv /\ SkipInv
  BY DEF Init, OneAtATime, ClaimInv, SkipInv, Claimed, Idle, CancelPc, SchedulePc
<1>5. PileInv
  <2> SUFFICES ASSUME NEW i \in Instant PROVE os[i] + Coming(i) <= 3 + faults
    BY DEF PileInv
  <2>1. os[i] = 0 /\ faults = 0 /\ \A c \in Caller : call[c] = NoCall
    BY DEF Init
  <2>2. Coming(i) = 0
    BY <2>1, RestTypes DEF Coming, Caller, Thread
  <2> QED
    BY <2>1, <2>2
<1> QED
  BY <1>1, <1>2, <1>3, <1>4, <1>5 DEF IInv, TypeOK

LEMMA StepInv == IInv /\ [Next]_vars => IInv'
<1> SUFFICES ASSUME IInv, [Next]_vars PROVE IInv'
  OBVIOUS
<1>1. TypeOK /\ ThreadInv /\ PileInv
  BY DEF IInv, ThreadInv
<1>2. CASE Tick \/ Handlers
  BY <1>1, <1>2, EnterTypes, EnterThreads DEF IInv, ThreadInv
<1>3. ASSUME NEW t \in Thread, Scheduling(t) PROVE IInv'
  BY <1>1, <1>3, SchedulingTypes, SchedulingThreads DEF IInv, ThreadInv
<1>4. CASE Pump
  <2>1. UNCHANGED << thr, nextWake, wakeOK, scheduledAt, skipUntil, skipNextGlobal, crossed >>
    BY <1>4 DEF Pump, ReconcileSnapshot, ReconcileCancel, ReconcileSchedule, ReconcileReturn,
                daemonVars
  <2> QED
    BY <1>1, <1>4, <2>1, PumpTypes, ThreadStutter DEF IInv, ThreadInv
<1>5. ASSUME NEW c \in Caller, Helper(c) PROVE IInv'
  <2>1. UNCHANGED << thr, nextWake, wakeOK, scheduledAt, skipUntil, skipNextGlobal, crossed >>
    BY <1>5 DEF Helper, CancelListed, AddEntry, daemonVars, linkVars
  <2> QED
    BY <1>1, <1>5, <2>1, HelperTypes, ThreadStutter DEF IInv, ThreadInv
<1>6. CASE World
  <2>1. CASE DaemonCrash
    <3>1. ThreadInv'
      BY <2>1 DEF DaemonCrash, Idle, ThreadInv, OneAtATime, ClaimInv, SkipInv, Claimed,
                  CancelPc, SchedulePc
    <3> QED
      BY <1>1, <1>6, <3>1, WorldTypes DEF IInv, ThreadInv
  <2>2. CASE ~DaemonCrash
    <3>1. UNCHANGED << thr, nextWake, wakeOK, scheduledAt, skipUntil, skipNextGlobal, crossed >>
      BY <1>6, <2>2 DEF World, Advance, BatteryChanges, SchedulerReports, DropEntry, HelperCrash,
                        DaemonStart, daemonVars, linkVars
    <3> QED
      BY <1>1, <1>6, <3>1, WorldTypes, ThreadStutter DEF IInv, ThreadInv
  <2> QED
    BY <2>1, <2>2
<1>7. CASE UNCHANGED vars
  <2>1. TypeOK' /\ PileInv'
    BY <1>1, <1>7, PileStutter DEF vars, TypeOK, WorldType, DaemonType, LinkType, HelperType,
       BudgetType, worldVars, daemonVars, linkVars, helperVars, budgetVars
  <2>2. ThreadInv'
    BY <1>1, <1>7, ThreadStutter DEF vars, daemonVars, linkVars
  <2> QED
    BY <2>1, <2>2 DEF IInv, ThreadInv
<1> QED
  BY <1>2, <1>3, <1>4, <1>5, <1>6, <1>7 DEF Next

LEMMA Invariance == Spec => []IInv
<1> QED
  BY InitInv, StepInv, PTL DEF Spec

\* Every variable keeps its type: every wake the daemon, the link, the pump or a request
\* names is an instant the OS can be asked for (wake.go, helperlink.go, service.go).
THEOREM TypesCorrect == Spec => []TypeOK
<1> QED
  BY Invariance, PTL DEF IInv

\* What status reports as registered is what the link re-asserts, until two threads cross
\* in scheduleNextWake; and equal entries never exceed one per caller and fault, so
\* MaxEntries bounds them whenever it allows for that many (scheduleNextWake, ScheduleWake).
THEOREM ClaimsAreReasserted ==
    ASSUME MaxEntries >= 3 + MaxFaults
    PROVE  Spec => []ClaimIsReasserted
<1>1. IInv => ClaimIsReasserted
  <2> SUFFICES ASSUME IInv PROVE ClaimIsReasserted
    OBVIOUS
  <2>1. AtRest /\ wakeOK /\ ~crossed => scheduledAt = nextWake
    BY DEF IInv, ClaimInv, Claimed
  <2>2. ASSUME NEW i \in Instant PROVE os[i] <= MaxEntries
    <3>1. Coming(i) \in Nat
      BY DEF Coming, Due
    <3>2. os[i] + Coming(i) <= 3 + faults
      BY DEF IInv, PileInv
    <3>3. os[i] \in Nat /\ faults \in Nat /\ faults <= MaxFaults
      BY FaultsAssumption DEF IInv, TypeOK, HelperType, BudgetType
    <3> QED
      BY <3>1, <3>2, <3>3, FaultsAssumption, EntriesAssumption
  <2> QED
    BY <2>1, <2>2 DEF ClaimIsReasserted
<1> QED
  BY <1>1, Invariance, PTL

\* A skip is honoured: at rest, the wake on record is for a fire that neither the global
\* skip nor its job's own covers (handleSkip, FireToWakeFor).
THEOREM SkipsHonoured == Spec => []SkipHonoured
<1>1. IInv => SkipHonoured
  <2> SUFFICES ASSUME IInv, AtRest, ~crossed, nextWake # None
               PROVE  \E j \in Job : nextWake + Buffer > Max({skipNextGlobal, skipUntil[j]})
    BY DEF SkipHonoured
  <2>1. PICK j \in Job : nextWake + Buffer > skipNextGlobal /\ nextWake + Buffer > skipUntil[j]
    BY DEF IInv, SkipInv, Unskipped
  <2>2. nextWake + Buffer \in Nat /\ skipNextGlobal \in Nat /\ skipUntil[j] \in Nat
    <3>1. /\ nextWake \in Moment /\ skipNextGlobal \in Some(FireTime)
          /\ skipUntil[j] \in Some(FireTime)
      BY DEF IInv, TypeOK, DaemonType
    <3>2. nextWake \in Nat /\ skipNextGlobal \in Nat /\ skipUntil[j] \in Nat
      BY <3>1, Instants
    <3> QED
      BY <3>2, InstantsAssumption
  <2> QED
    BY <2>1, <2>2, MaxOfTwo
<1> QED
  BY <1>1, Invariance, PTL

-----------------------------------------------------------------------------
(* SleepRecord: the invariants. *)

\* The awake time since the last tick, by the ticker.
Elapsed == IF overdue = -1 THEN TickEvery - due ELSE TickEvery + overdue

RecordTypeOK ==
    /\ wall \in Nat /\ due \in 1 .. TickEvery /\ overdue \in Nat \cup {-1} /\ lastTick \in Int
    /\ busy \in Nat /\ stalled \in Nat /\ servedUpTo \in Nat
    /\ naps \subseteq Nat \X Nat /\ \A n \in naps : n[1] < n[2]
    /\ torn \in BOOLEAN /\ overran \in BOOLEAN /\ stepped \in BOOLEAN
    /\ \A r \in lines : r.fire \in Nat /\ r.outcome \in {"slept", "ok"}

\* A fire is recorded as slept through once.
OnceInv == \A r, s \in lines : r.outcome = "slept" /\ s.outcome = "slept" /\ s.fire = r.fire => r = s

\* Where an instant since the last tick lies among the sleeps: in one, before the first, after the
\* last, or between two, with no more between them than the awake time there was.
Among(t) ==
    \/ \E n \in naps : n[1] < t /\ t <= n[2]
    \/ \E n \in naps : t <= n[1] /\ n[1] <= lastTick + Elapsed
    \/ \E n \in naps : n[2] < t /\ wall - n[2] <= Elapsed
    \/ \E m, n \in naps : m[2] < t /\ t <= n[1] /\ n[1] - m[2] <= Elapsed

\* The ticker and the count of busy time, as long as no tick is dropped.
TickerInv ==
    /\ overdue # -1 => overdue + due = TickEvery /\ overdue <= busy
    /\ busy <= Elapsed /\ wall >= lastTick + Elapsed
    /\ servedUpTo <= lastTick

\* What the wall clock and the ticker make of the sleeps since the last tick.
SleepInv ==
    /\ wall = lastTick + Elapsed
          \/ (wall > lastTick /\ \A t \in lastTick + 1 .. wall : Among(t))
    /\ \A n \in naps :
          /\ n[2] <= wall
          /\ n[1] >= lastTick /\ n[2] - n[1] >= TickEvery => wall - lastTick >= Elapsed + n[2] - n[1]

\* A run that took place did so outside the sleeps.
HeldInv ==
    \A r \in lines : r.outcome = "ok" =>
        r.fire <= lastTick /\ \A n \in naps : ~(n[1] < r.fire /\ r.fire < n[2])

NearInv == \A t \in SleptFires : AsleepNear(t)

\* A fire in the middle of n.
WellInside(t, n) ==
    /\ t > CreatedAt /\ t \notin SkippedFires
    /\ n[2] - n[1] >= GapThreshold + TickEvery
    /\ n[1] + 2 * TickEvery <= t /\ t + TickEvery <= n[2]

\* A sleep is still to be looked at, or its fires are recorded.
NotedInv ==
    /\ ~torn
    /\ \A n \in naps :
          \/ n[1] >= lastTick
          \/ /\ n[2] < lastTick + TickEvery
             /\ \A t \in FireTimes : WellInside(t, n) => t \in SleptFires

ClockOK == ~overran /\ ~stepped

RecordInv ==
    /\ RecordTypeOK /\ OnceInv
    /\ ClockOK => TickerInv /\ SleepInv /\ HeldInv /\ NearInv
    /\ ClockOK /\ ~lost /\ ~trimmed => NotedInv

-----------------------------------------------------------------------------
\* What the file holds after some runs are added.
LEMMA Recorded ==
    ASSUME NEW runs, AppendRuns(runs)
    PROVE  /\ lines' \subseteq lines \cup runs
           /\ ~trimmed' /\ ~torn => ~trimmed /\ ~torn' /\ lines' = lines \cup runs
<1> DEFINE whole == {r \in runs : ~torn \/ \E s \in runs : Before(s, r)}
<1>1. /\ lines' = trimHistory(lines \cup whole) /\ torn' = (torn /\ runs = {})
      /\ trimmed' = (trimmed \/ Cardinality(lines \cup whole) > KeptLines)
  BY DEF AppendRuns
<1>2. whole \subseteq runs /\ (~torn => whole = runs)
  OBVIOUS
<1> HIDE DEF whole
<1>3. lines' \subseteq lines \cup whole
  BY <1>1 DEF trimHistory
<1>4. ~trimmed' => ~trimmed /\ lines' = lines \cup whole
  BY <1>1 DEF trimHistory
<1> QED
  BY <1>1, <1>2, <1>3, <1>4

LEMMA RecordStart == SleepRecordInit => RecordInv
<1> SUFFICES ASSUME SleepRecordInit PROVE RecordInv
  OBVIOUS
<1>1. lines = {} /\ naps = {} /\ OnceInv
  BY DEF SleepRecordInit, OnceInv
<1>3. RecordTypeOK
  <2>1. TickEvery \in 1 .. TickEvery /\ -1 \in Nat \cup {-1}
    BY SleepRecordAssumption
  <2>2. \A n \in naps : n[1] < n[2]
    BY <1>1
  <2>3. /\ naps \subseteq Nat \X Nat
        /\ \A r \in lines : r.fire \in Nat /\ r.outcome \in {"slept", "ok"}
    BY <1>1
  <2>4. wall \in Nat /\ due \in 1 .. TickEvery /\ overdue \in Nat \cup {-1}
    BY <2>1 DEF SleepRecordInit
  <2>5. lastTick \in Int /\ busy \in Nat /\ stalled \in Nat /\ servedUpTo \in Nat
    BY DEF SleepRecordInit
  <2>6. torn \in BOOLEAN /\ overran \in BOOLEAN /\ stepped \in BOOLEAN
    BY DEF SleepRecordInit
  <2> QED
    BY <2>2, <2>3, <2>4, <2>5, <2>6 DEF RecordTypeOK
<1>2. TickerInv /\ SleepInv /\ HeldInv /\ NearInv /\ NotedInv
  BY SleepRecordAssumption
     DEF SleepRecordInit, TickerInv, SleepInv, HeldInv, NearInv, NotedInv, SleptFires, Elapsed
<1> QED
  BY <1>1, <1>2, <1>3 DEF RecordInv

-----------------------------------------------------------------------------
LEMMA AwakeKeeps == RecordInv /\ AwakeMoment => RecordInv'
<1> SUFFICES ASSUME RecordInv, AwakeMoment PROVE RecordInv'
  OBVIOUS
<1> USE SleepRecordAssumption
<1>1. UNCHANGED << lastTick, servedUpTo, lines, torn, trimmed, naps, stepped, lost >>
  BY DEF AwakeMoment, fileVars
<1>2. RecordTypeOK
  BY DEF RecordInv
<1>3. RecordTypeOK'
  BY <1>1, <1>2 DEF RecordTypeOK, AwakeMoment
<1>4. OnceInv'
  BY <1>1 DEF RecordInv, OnceInv
<1>5. ASSUME ClockOK' PROVE (TickerInv /\ SleepInv /\ HeldInv /\ NearInv)'
  <2>1. ClockOK /\ ~(due = 1 /\ overdue # -1)
    <3>1. overran' = (overran \/ (due = 1 /\ overdue >= 0))
      BY DEF AwakeMoment
    <3>2. overdue # -1 => overdue >= 0
      BY <1>2 DEF RecordTypeOK
    <3> QED
      BY <1>1, <1>2, <1>5, <3>1, <3>2 DEF ClockOK, RecordTypeOK
  <2>2. TickerInv /\ SleepInv /\ HeldInv /\ NearInv
    BY <2>1 DEF RecordInv
  <2>3. Elapsed \in Int /\ Elapsed' = Elapsed + 1 /\ wall' = wall + 1 /\ Elapsed >= 0
    BY <1>2, <2>1 DEF Elapsed, AwakeMoment, RecordTypeOK
  <2>4. TickerInv'
    <3>1. overdue' # -1 => overdue' + due' = TickEvery /\ overdue' <= busy'
      BY <1>2, <2>1, <2>2 DEF TickerInv, AwakeMoment, RecordTypeOK
    <3>2. busy' <= busy + 1
      BY <1>2 DEF AwakeMoment, RecordTypeOK
    <3>3. busy' <= Elapsed' /\ wall' >= lastTick' + Elapsed' /\ servedUpTo' <= lastTick'
      BY <1>1, <1>2, <1>3, <2>2, <2>3, <3>2 DEF TickerInv, RecordTypeOK
    <3> QED
      BY <3>1, <3>3 DEF TickerInv
  <2>5. SleepInv'
    <3>1. ASSUME NEW n \in naps
          PROVE  /\ n[2] <= wall'
                 /\ n[1] >= lastTick' /\ n[2] - n[1] >= TickEvery =>
                       wall' - lastTick' >= Elapsed' + n[2] - n[1]
      <4>1. n[1] \in Nat /\ n[2] \in Nat
        BY <1>2 DEF RecordTypeOK
      <4> QED
        BY <1>1, <1>2, <2>2, <2>3, <4>1 DEF SleepInv, RecordTypeOK
    <3>2. CASE wall = lastTick + Elapsed
      <4>1. wall' = lastTick' + Elapsed'
        BY <1>1, <1>2, <2>3, <3>2 DEF RecordTypeOK
      <4> QED
        BY <1>1, <3>1, <4>1 DEF SleepInv
    <3>3. CASE wall > lastTick /\ \A t \in lastTick + 1 .. wall : Among(t)
      <4>1. ASSUME NEW t \in lastTick + 1 .. wall PROVE Among(t)'
        <5>1. Among(t)
          BY <3>3
        <5>2. \A n \in naps : n[1] \in Nat /\ n[2] \in Nat
          BY <1>2 DEF RecordTypeOK
        <5> QED
          BY <1>1, <1>2, <2>3, <5>1, <5>2 DEF Among, RecordTypeOK
      <4>2. ASSUME NEW t \in Int, t = wall + 1 PROVE Among(t)'
        <5>1. Among(wall)
          BY <1>2, <3>3 DEF RecordTypeOK
        <5>2. \A n \in naps : n[1] \in Nat /\ n[2] \in Nat /\ n[1] < n[2] /\ n[2] <= wall
          BY <1>2, <2>2 DEF RecordTypeOK, SleepInv
        <5>3. \E n \in naps : n[2] < wall + 1 /\ (wall + 1) - n[2] <= Elapsed + 1
          BY <1>2, <2>3, <5>1, <5>2 DEF Among, RecordTypeOK
        <5>4. PICK n \in naps : n[2] < wall + 1 /\ (wall + 1) - n[2] <= Elapsed + 1
          BY <5>3
        <5>5. n \in naps' /\ n[2] < t /\ wall' - n[2] <= Elapsed'
          BY <1>1, <2>3, <4>2, <5>4
        <5> QED
          BY <5>5 DEF Among
      <4>3. wall' > lastTick'
        BY <1>1, <1>2, <2>3, <3>3 DEF RecordTypeOK
      <4>4. ASSUME NEW t \in lastTick' + 1 .. wall' PROVE Among(t)'
        <5>1. t \in lastTick + 1 .. wall \/ t = wall + 1
          BY <1>1, <1>2, <2>3 DEF RecordTypeOK
        <5> QED
          BY <4>1, <4>2, <5>1
      <4> QED
        BY <1>1, <3>1, <4>3, <4>4 DEF SleepInv
    <3> QED
      BY <2>2, <3>2, <3>3 DEF SleepInv
  <2>6. HeldInv' /\ NearInv'
    BY <1>1, <2>2 DEF HeldInv, NearInv, SleptFires, AsleepNear
  <2> QED
    BY <2>4, <2>5, <2>6
<1>6. ASSUME ClockOK' /\ ~lost' /\ ~trimmed' PROVE NotedInv'
  <2>1. overran' = (overran \/ (due = 1 /\ overdue >= 0))
    BY DEF AwakeMoment
  <2>2. ClockOK /\ NotedInv
    BY <1>1, <1>2, <1>6, <2>1 DEF RecordInv, ClockOK, RecordTypeOK
  <2> QED
    BY <1>1, <2>2 DEF NotedInv, SleptFires, WellInside
<1> QED
  BY <1>3, <1>4, <1>5, <1>6 DEF RecordInv

LEMMA NapKeeps == RecordInv /\ Nap => RecordInv'
<1> SUFFICES ASSUME RecordInv, Nap PROVE RecordInv'
  OBVIOUS
<1> USE SleepRecordAssumption
<1>1. UNCHANGED << due, overdue, lastTick, busy, stalled, servedUpTo, lines, torn, trimmed,
                   overran, stepped, lost >>
  BY DEF Nap, fileVars
<1>2. PICK k \in NapLengths : wall' = wall + k /\ naps' = naps \cup {<< wall, wall + k >>}
  BY DEF Nap
<1>3. k \in Nat /\ k > 0
  OBVIOUS
<1>4. RecordTypeOK /\ wall \in Nat /\ lastTick \in Int
  BY DEF RecordInv, RecordTypeOK
<1>5. RecordTypeOK'
  BY <1>1, <1>2, <1>3, <1>4 DEF RecordTypeOK
<1>6. OnceInv'
  BY <1>1 DEF RecordInv, OnceInv
<1> DEFINE new == << wall, wall + k >>
<1>7. new \in naps' /\ new[1] = wall /\ new[2] = wall + k /\ naps \subseteq naps'
  BY <1>2
<1>8. \A n \in naps' : n \in naps \/ n = new
  BY <1>2
<1> HIDE DEF new
<1>9. ASSUME ClockOK' PROVE (TickerInv /\ SleepInv /\ HeldInv /\ NearInv)'
  <2>1. TickerInv /\ SleepInv /\ HeldInv /\ NearInv
    BY <1>1, <1>9 DEF RecordInv, ClockOK
  <2>2. Elapsed' = Elapsed /\ Elapsed \in Int /\ Elapsed >= 0
    BY <1>1, <1>4 DEF Elapsed, RecordTypeOK
  <2>3. TickerInv'
    BY <1>1, <1>2, <1>3, <1>4, <2>1, <2>2 DEF TickerInv
  <2>4. \A n \in naps : n[1] \in Nat /\ n[2] \in Nat /\ n[1] < n[2] /\ n[2] <= wall
    BY <1>4, <2>1 DEF RecordTypeOK, SleepInv
  <2>5. ASSUME NEW n \in naps'
        PROVE  /\ n[2] <= wall'
               /\ n[1] >= lastTick' /\ n[2] - n[1] >= TickEvery =>
                     wall' - lastTick' >= Elapsed' + n[2] - n[1]
    <3>1. CASE n \in naps
      BY <1>1, <1>2, <1>3, <1>4, <2>1, <2>2, <2>4, <3>1 DEF SleepInv
    <3>2. CASE n = new
      BY <1>1, <1>2, <1>3, <1>4, <1>7, <2>1, <2>2, <3>2 DEF TickerInv
    <3> QED
      BY <1>8, <3>1, <3>2
  <2>6. wall' > lastTick'
    BY <1>1, <1>2, <1>3, <1>4, <2>1, <2>2 DEF TickerInv
  <2>7. ASSUME NEW t \in lastTick' + 1 .. wall' PROVE Among(t)'
    <3>1. CASE t > wall
      <4>1. new[1] < t /\ t <= new[2]
        BY <1>2, <1>7, <3>1
      <4> QED
        BY <1>7, <4>1 DEF Among
    <3>2. CASE t <= wall /\ wall = lastTick + Elapsed
      <4>1. t <= new[1] /\ new[1] <= lastTick' + Elapsed'
        BY <1>1, <1>4, <1>7, <2>2, <3>2
      <4> QED
        BY <1>7, <4>1 DEF Among
    <3>3. CASE t <= wall /\ \A u \in lastTick + 1 .. wall : Among(u)
      <4>1. Among(t)
        BY <1>1, <1>4, <3>3
      <4>2. CASE \E n \in naps : n[2] < t /\ wall - n[2] <= Elapsed
        <5>1. PICK m \in naps : m[2] < t /\ wall - m[2] <= Elapsed
          BY <4>2
        <5>2. m \in naps' /\ m[2] < t /\ t <= new[1] /\ new[1] - m[2] <= Elapsed'
          BY <1>7, <2>2, <3>3, <5>1
        <5> QED
          BY <1>7, <5>2 DEF Among
      <4>3. CASE ~\E n \in naps : n[2] < t /\ wall - n[2] <= Elapsed
        BY <1>1, <1>7, <2>2, <4>1, <4>3 DEF Among
      <4> QED
        BY <4>2, <4>3
    <3> QED
      BY <1>1, <1>4, <2>1, <3>1, <3>2, <3>3 DEF SleepInv
  <2>8. SleepInv'
    BY <2>5, <2>6, <2>7 DEF SleepInv
  <2>9. HeldInv'
    <3>1. ASSUME NEW r \in lines, r.outcome = "ok"
          PROVE  r.fire <= lastTick /\ \A n \in naps' : ~(n[1] < r.fire /\ r.fire < n[2])
      <4>1. r.fire <= lastTick /\ r.fire \in Nat /\ \A n \in naps : ~(n[1] < r.fire /\ r.fire < n[2])
        BY <1>4, <2>1, <3>1 DEF HeldInv, RecordTypeOK
      <4>2. ~(new[1] < r.fire)
        BY <1>4, <1>7, <2>1, <2>2, <4>1 DEF TickerInv
      <4> QED
        BY <1>8, <4>1, <4>2
    <3> QED
      BY <1>1, <3>1 DEF HeldInv
  <2>10. NearInv'
    BY <1>1, <1>7, <2>1 DEF NearInv, SleptFires, AsleepNear
  <2> QED
    BY <2>3, <2>8, <2>9, <2>10
<1>10. ASSUME ClockOK' /\ ~lost' /\ ~trimmed' PROVE NotedInv'
  <2>1. NotedInv /\ TickerInv
    BY <1>1, <1>10 DEF RecordInv, ClockOK
  <2>2. new[1] >= lastTick'
    BY <1>1, <1>4, <1>7, <2>1 DEF TickerInv, Elapsed, RecordTypeOK
  <2> QED
    BY <1>1, <1>8, <2>1, <2>2 DEF NotedInv, SleptFires, WellInside
<1> QED
  BY <1>5, <1>6, <1>9, <1>10 DEF RecordInv

\* A step that leaves the clock, the tick, the sleeps and the file alone keeps all of it.
LEMMA StallKeeps == RecordInv /\ Stalls => RecordInv'
<1> SUFFICES ASSUME RecordInv, Stalls PROVE RecordInv'
  OBVIOUS
<1>1. UNCHANGED << wall, due, overdue, lastTick, busy, servedUpTo, lines, torn, trimmed, naps,
                   overran, stepped, lost >> /\ stalled' \in Nat
  BY SleepRecordAssumption DEF Stalls, fileVars
<1> QED
  BY <1>1 DEF RecordInv, RecordTypeOK, OnceInv, ClockOK, TickerInv, SleepInv, HeldInv, NearInv,
              NotedInv, Among, Elapsed, SleptFires, AsleepNear, WellInside

LEMMA StepBackKeeps == RecordInv /\ ClockStepsBack => RecordInv'
<1> SUFFICES ASSUME RecordInv, ClockStepsBack PROVE RecordInv'
  OBVIOUS
<1>1. UNCHANGED << due, overdue, lastTick, busy, stalled, servedUpTo, lines, torn, naps, overran >>
      /\ wall' \in Nat /\ stepped' = TRUE
  <2>1. PICK k \in NapLengths : wall > k /\ wall' = wall - k
    BY DEF ClockStepsBack
  <2>2. wall \in Nat /\ k \in Nat
    BY SleepRecordAssumption DEF RecordInv, RecordTypeOK
  <2>3. wall' \in Nat
    BY <2>1, <2>2
  <2> QED
    BY <2>3 DEF ClockStepsBack, fileVars
<1>2. RecordTypeOK' /\ OnceInv'
  BY <1>1 DEF RecordInv, RecordTypeOK, OnceInv
<1> QED
  BY <1>1, <1>2 DEF RecordInv, ClockOK

LEMMA KillKeeps == RecordInv /\ Killed => RecordInv'
<1> SUFFICES ASSUME RecordInv, Killed PROVE RecordInv'
  OBVIOUS
<1>1. /\ UNCHANGED << wall, lines, naps, overran, stepped >> /\ torn' \in {torn, TRUE}
      /\ due' = TickEvery /\ overdue' = -1 /\ lastTick' = wall /\ busy' = 0 /\ stalled' = 0
      /\ servedUpTo' = 0 /\ lost' = TRUE
  BY DEF Killed
<1>2. RecordTypeOK /\ OnceInv
  BY DEF RecordInv
<1>3. RecordTypeOK'
  <2>1. TickEvery \in 1 .. TickEvery /\ wall \in Int
    BY <1>2, SleepRecordAssumption DEF RecordTypeOK
  <2>2. due' \in 1 .. TickEvery /\ overdue' \in Nat \cup {-1}
    BY <1>1, <2>1
  <2> QED
    BY <1>1, <1>2, <2>1, <2>2 DEF RecordTypeOK
<1>4. OnceInv'
  BY <1>1, <1>2 DEF OnceInv
<1>5. ASSUME ClockOK' PROVE (TickerInv /\ SleepInv /\ HeldInv /\ NearInv)'
  <2>1. TickerInv /\ SleepInv /\ HeldInv /\ NearInv
    BY <1>1, <1>5 DEF RecordInv, ClockOK
  <2>2. Elapsed' = 0 /\ wall \in Nat /\ lastTick \in Int /\ wall >= lastTick
    BY <1>1, <1>2, <2>1, SleepRecordAssumption DEF Elapsed, RecordTypeOK, TickerInv
  <2>3. TickerInv'
    BY <1>1, <2>2 DEF TickerInv
  <2>4. SleepInv'
    <3>1. wall' = lastTick' + Elapsed'
      BY <1>1, <2>2
    <3>2. \A n \in naps : n[2] <= wall /\ ~(n[1] >= wall)
      <4>1. ASSUME NEW n \in naps PROVE n[2] <= wall /\ n[1] \in Nat /\ n[2] \in Nat /\ n[1] < n[2]
        BY <1>2, <2>1 DEF SleepInv, RecordTypeOK
      <4> QED
        BY <2>2, <4>1
    <3> QED
      BY <1>1, <3>1, <3>2 DEF SleepInv
  <2>5. HeldInv'
    <3>1. ASSUME NEW r \in lines, r.outcome = "ok" PROVE r.fire <= wall
      BY <1>2, <2>1, <2>2, <3>1 DEF HeldInv, RecordTypeOK
    <3> QED
      BY <1>1, <2>1, <3>1 DEF HeldInv
  <2>6. NearInv'
    BY <1>1, <2>1 DEF NearInv, SleptFires, AsleepNear
  <2> QED
    BY <2>3, <2>4, <2>5, <2>6
<1> QED
  BY <1>1, <1>3, <1>4, <1>5 DEF RecordInv

-----------------------------------------------------------------------------
(* A tick. *)

\* The runs that a tick on stamp records for a sleep.
SleptRuns(stamp) ==
    IF sleepGap(stamp) = 0 THEN {} ELSE recordSleptThrough(stamp - sleepGap(stamp), stamp)

\* What is recorded as slept through has no run yet, fired after the busy time since the last tick
\* and before this one, and only if the gap is a sleep's.
LEMMA SleptRun ==
    ASSUME RecordTypeOK, NEW stamp \in Int, NEW r \in SleptRuns(stamp)
    PROVE  /\ r = [fire |-> r.fire, outcome |-> "slept", entry |-> nextEntry]
           /\ r.fire \in FireTimes /\ r.fire \in Nat /\ ~HasRunAt(r.fire)
           /\ lastTick + busy < r.fire /\ r.fire < stamp
           /\ stamp - lastTick - busy >= GapThreshold
<1> USE SleepRecordAssumption
<1> DEFINE gap == stamp - lastTick - busy
<1>1. gap \in Int /\ lastTick \in Int /\ busy \in Nat
  BY DEF RecordTypeOK
<1>2. sleepGap(stamp) # 0
  BY DEF SleptRuns
<1>3. sleepGap(stamp) = gap /\ gap >= GapThreshold
  BY <1>1, <1>2 DEF sleepGap
<1>4. r \in recordSleptThrough(stamp - gap, stamp)
  BY <1>2, <1>3 DEF SleptRuns
<1>5. PICK t \in Missed(stamp - gap, stamp) : r = [fire |-> t, outcome |-> "slept", entry |-> nextEntry]
  BY <1>4 DEF recordSleptThrough
<1>6. r.fire = t /\ t \in FireTimes /\ t > stamp - gap /\ t < stamp /\ ~HasRunAt(t)
  BY <1>5 DEF Missed
<1>7. stamp - gap = lastTick + busy
  BY <1>1
<1> HIDE DEF gap
<1>8. t > lastTick + busy
  BY <1>6, <1>7
<1> QED
  BY <1>1, <1>3, <1>5, <1>6, <1>8 DEF gap

LEMMA TickIs ==
    ASSUME RecordTypeOK, DeliverTick
    PROVE  LET stamp == wall - overdue
           IN  \E runs :
                  /\ AppendRuns(runs) /\ SleptRuns(stamp) \subseteq runs
                  /\ \A r \in runs : r \in SleptRuns(stamp)
                                       \/ (r.outcome = "ok" /\ r.fire \in Held(stamp))
                  /\ servedUpTo' = servedUpTo \/ servedUpTo' \in Held(stamp)
<1> DEFINE stamp == wall - overdue
           ok == [fire |-> Max(Held(stamp)), outcome |-> "ok", entry |-> nextEntry + 1]
<1>1. stamp \in Int
  BY DEF RecordTypeOK
<1>2. CASE Held(stamp) = {}
  BY <1>2 DEF DeliverTick, SleptRuns
<1>3. CASE Held(stamp) # {}
  <2>1. Max(Held(stamp)) \in Held(stamp)
    <3>1. Held(stamp) \subseteq Nat /\ \A t \in Held(stamp) : t <= stamp
      BY SleepRecordAssumption DEF Held
    <3> QED
      BY <1>1, <1>3, <3>1, MaxNat
  <2>2. AppendRuns(SleptRuns(stamp) \cup {ok}) /\ servedUpTo' = Max(Held(stamp))
    BY <1>3 DEF DeliverTick, SleptRuns
  <2> QED
    BY <2>1, <2>2
<1> QED
  BY <1>2, <1>3

\* A fire that the tick found to be slept through lies within a tick of a sleep.
LEMMA RecordedNear ==
    ASSUME RecordTypeOK, TickerInv, SleepInv, overdue # -1, NEW t \in Nat,
           lastTick + busy < t, t < wall - overdue,
           wall - overdue - lastTick - busy >= GapThreshold
    PROVE  AsleepNear(t)
<1> USE SleepRecordAssumption
<1>1. /\ wall \in Nat /\ overdue \in Nat /\ lastTick \in Int /\ busy \in Nat /\ TickEvery \in Nat
      /\ overdue < TickEvery /\ overdue <= busy /\ Elapsed = TickEvery + overdue /\ TickEvery > 0
  BY DEF RecordTypeOK, TickerInv, Elapsed
<1>2. wall # lastTick + Elapsed
  BY <1>1
<1>3. Among(t)
  <2>1. t \in lastTick + 1 .. wall
    BY <1>1
  <2> QED
    BY <1>2, <2>1 DEF SleepInv
<1>4. \A n \in naps : n[1] \in Nat /\ n[2] \in Nat /\ n[1] < n[2]
  BY DEF RecordTypeOK
<1>5. CASE \E n \in naps : n[1] < t /\ t <= n[2]
  BY <1>1, <1>4, <1>5 DEF AsleepNear
<1>6. CASE \E n \in naps : t <= n[1] /\ n[1] <= lastTick + Elapsed
  <2>1. PICK n \in naps : t <= n[1] /\ n[1] <= lastTick + Elapsed
    BY <1>6
  <2>2. n[1] - TickEvery < t /\ t <= n[2] + TickEvery
    BY <1>1, <1>4, <2>1
  <2> QED
    BY <2>2 DEF AsleepNear
<1>7. CASE \E n \in naps : n[2] < t /\ wall - n[2] <= Elapsed
  <2>1. PICK n \in naps : n[2] < t /\ wall - n[2] <= Elapsed
    BY <1>7
  <2>2. n[1] - TickEvery < t /\ t <= n[2] + TickEvery
    BY <1>1, <1>4, <2>1
  <2> QED
    BY <2>2 DEF AsleepNear
<1>8. CASE \E m, n \in naps : m[2] < t /\ t <= n[1] /\ n[1] - m[2] <= Elapsed
  <2>1. PICK m \in naps, n \in naps : m[2] < t /\ t <= n[1] /\ n[1] - m[2] <= Elapsed
    BY <1>8
  <2>2. CASE t <= m[2] + TickEvery
    <3>1. m[1] - TickEvery < t
      BY <1>1, <1>4, <2>1
    <3> QED
      BY <2>2, <3>1 DEF AsleepNear
  <2>3. CASE t > m[2] + TickEvery
    <3>1. n[1] - TickEvery < t /\ t <= n[2] + TickEvery
      BY <1>1, <1>4, <2>1, <2>3
    <3> QED
      BY <3>1 DEF AsleepNear
  <2> QED
    BY <1>1, <1>4, <2>2, <2>3
<1> QED
  BY <1>3, <1>5, <1>6, <1>7, <1>8 DEF Among

\* What a tick makes of a sleep that is still to be looked at.
LEMMA SleepNoted ==
    ASSUME RecordTypeOK, TickerInv, SleepInv, HeldInv, overdue # -1,
           NEW n \in naps, n[1] >= lastTick, NEW t \in FireTimes, WellInside(t, n),
           t \notin SleptFires
    PROVE  \E r \in SleptRuns(wall - overdue) : r.fire = t /\ r.outcome = "slept"
<1> USE SleepRecordAssumption
<1> DEFINE stamp == wall - overdue
           gap == stamp - lastTick - busy
<1>1. /\ wall \in Nat /\ overdue \in Nat /\ lastTick \in Int /\ busy \in Nat /\ TickEvery \in Nat
      /\ overdue < TickEvery /\ busy <= TickEvery + overdue /\ Elapsed = TickEvery + overdue
      /\ GapThreshold \in Nat /\ t \in Nat /\ servedUpTo \in Nat /\ servedUpTo <= lastTick
  BY DEF RecordTypeOK, TickerInv, Elapsed
<1>2. n[1] \in Nat /\ n[2] \in Nat /\ n[2] <= wall /\ wall - lastTick >= Elapsed + n[2] - n[1]
  BY DEF RecordTypeOK, SleepInv, WellInside
<1>3. /\ n[2] - n[1] >= GapThreshold + TickEvery
      /\ n[1] + 2 * TickEvery <= t /\ t + TickEvery <= n[2]
      /\ t > CreatedAt /\ t \notin SkippedFires
  BY DEF WellInside
<1>4. stamp \in Int /\ gap \in Int /\ gap >= GapThreshold /\ stamp - gap = lastTick + busy
  <2>1. busy < 2 * TickEvery /\ stamp - lastTick >= TickEvery + GapThreshold + TickEvery
    BY <1>1, <1>2, <1>3
  <2> QED
    BY <1>1, <2>1
<1>5. t > lastTick + busy /\ t < stamp /\ t > servedUpTo
  BY <1>1, <1>2, <1>3
<1>6. ~HasRunAt(t)
  <2>1. ASSUME NEW r \in lines, r.fire = t PROVE r.outcome = "ok"
    BY <2>1 DEF SleptFires, RecordTypeOK
  <2>2. n[1] < t /\ t < n[2]
    BY <1>1, <1>2, <1>3
  <2> QED
    BY <2>1, <2>2 DEF HasRunAt, HeldInv
<1>7. GapThreshold > 0
  OBVIOUS
<1>8. sleepGap(stamp) = gap /\ sleepGap(stamp) # 0
  BY <1>1, <1>4, <1>7 DEF sleepGap
<1> HIDE DEF stamp, gap
<1>9. t \in Missed(stamp - gap, stamp)
  BY <1>3, <1>4, <1>5, <1>6 DEF Missed
<1>10. [fire |-> t, outcome |-> "slept", entry |-> nextEntry] \in SleptRuns(stamp)
  BY <1>8, <1>9 DEF SleptRuns, recordSleptThrough
<1> QED
  BY <1>10 DEF stamp

LEMMA TickKeeps == RecordInv /\ DeliverTick => RecordInv'
<1> SUFFICES ASSUME RecordInv, DeliverTick PROVE RecordInv'
  OBVIOUS
<1> USE SleepRecordAssumption
<1> DEFINE stamp == wall - overdue
<1>1. /\ UNCHANGED << wall, due, stalled, naps, troubles, overran, stepped, lost >>
      /\ lastTick' = stamp /\ overdue' = -1 /\ busy' = 0 /\ overdue >= 0
  BY DEF DeliverTick
<1>2. RecordTypeOK /\ OnceInv /\ overdue # -1
  BY <1>1 DEF RecordInv
<1>3. /\ stamp \in Int /\ wall \in Nat /\ overdue \in Nat /\ lastTick \in Int /\ busy \in Nat
      /\ due \in 1 .. TickEvery /\ -1 \in Nat \cup {-1} /\ stamp = wall - overdue
  BY <1>2 DEF RecordTypeOK
<1>4. PICK runs : /\ AppendRuns(runs) /\ SleptRuns(stamp) \subseteq runs
                  /\ \A r \in runs : r \in SleptRuns(stamp)
                                       \/ (r.outcome = "ok" /\ r.fire \in Held(stamp))
                  /\ servedUpTo' = servedUpTo \/ servedUpTo' \in Held(stamp)
  BY <1>2, TickIs
<1> HIDE DEF stamp
<1>5. /\ lines' \subseteq lines \cup runs
      /\ ~trimmed' /\ ~torn => ~trimmed /\ ~torn' /\ lines' = lines \cup runs
      /\ torn' \in BOOLEAN
  <2>1. torn' = (torn /\ runs = {})
    BY <1>4 DEF AppendRuns
  <2> QED
    BY <1>4, <2>1, Recorded
<1>6. ASSUME NEW r \in SleptRuns(stamp)
      PROVE  /\ r = [fire |-> r.fire, outcome |-> "slept", entry |-> nextEntry]
             /\ r.fire \in Nat /\ ~HasRunAt(r.fire)
             /\ lastTick + busy < r.fire /\ r.fire < stamp
             /\ stamp - lastTick - busy >= GapThreshold
  BY <1>2, <1>3, SleptRun
<1>7. \A t \in Held(stamp) : t \in Nat /\ t <= stamp /\ \A n \in naps : ~(n[1] < t /\ t < n[2])
  BY DEF Held
<1>8. RecordTypeOK'
  <2>1. \A r \in lines' : r.fire \in Nat /\ r.outcome \in {"slept", "ok"}
    BY <1>2, <1>4, <1>5, <1>6, <1>7 DEF RecordTypeOK
  <2>2. servedUpTo' \in Nat
    BY <1>2, <1>4, <1>7 DEF RecordTypeOK
  <2>3. overdue' \in Nat \cup {-1} /\ lastTick' \in Int /\ busy' \in Nat
    BY <1>1, <1>3
  <2> QED
    BY <1>1, <1>2, <1>5, <2>1, <2>2, <2>3 DEF RecordTypeOK
<1>9. OnceInv'
  <2>1. ASSUME NEW r \in lines', NEW s \in lines', r.outcome = "slept", s.outcome = "slept",
               s.fire = r.fire
        PROVE  r = s
    <3>1. r \in lines \/ r \in SleptRuns(stamp)
      BY <1>4, <1>5, <2>1
    <3>2. s \in lines \/ s \in SleptRuns(stamp)
      BY <1>4, <1>5, <2>1
    <3>3. CASE r \in lines /\ s \in lines
      BY <1>2, <2>1, <3>3 DEF OnceInv
    <3>4. CASE r \in SleptRuns(stamp) /\ s \in SleptRuns(stamp)
      BY <1>6, <2>1, <3>4
    <3>5. CASE r \in lines /\ s \in SleptRuns(stamp)
      BY <1>6, <2>1, <3>5 DEF HasRunAt
    <3>6. CASE r \in SleptRuns(stamp) /\ s \in lines
      BY <1>6, <2>1, <3>6 DEF HasRunAt
    <3> QED
      BY <3>1, <3>2, <3>3, <3>4, <3>5, <3>6
  <2> QED
    BY <2>1 DEF OnceInv
<1>10. ASSUME ClockOK' PROVE (TickerInv /\ SleepInv /\ HeldInv /\ NearInv)'
  <2>1. TickerInv /\ SleepInv /\ HeldInv /\ NearInv
    BY <1>1, <1>10 DEF RecordInv, ClockOK
  <2>2. /\ Elapsed' = overdue /\ Elapsed = TickEvery + overdue /\ overdue + due = TickEvery
        /\ wall >= lastTick + Elapsed
    BY <1>1, <1>2, <1>3, <2>1 DEF Elapsed, TickerInv
  <2>3. stamp >= lastTick
    BY <1>3, <2>2
  <2>4. TickerInv'
    <3>1. servedUpTo' <= lastTick'
      BY <1>1, <1>2, <1>3, <1>4, <1>7, <2>1, <2>3 DEF TickerInv, RecordTypeOK
    <3>2. busy' <= Elapsed' /\ wall' >= lastTick' + Elapsed' /\ overdue' = -1
      BY <1>1, <1>3, <2>2
    <3> QED
      BY <3>1, <3>2 DEF TickerInv
  <2>5. SleepInv'
    <3>1. wall' = lastTick' + Elapsed'
      BY <1>1, <1>3, <2>2
    <3>2. ASSUME NEW n \in naps
          PROVE  /\ n[2] <= wall
                 /\ n[1] >= stamp /\ n[2] - n[1] >= TickEvery =>
                       wall - stamp >= overdue + n[2] - n[1]
      <4>1. n[1] \in Nat /\ n[2] \in Nat /\ n[2] <= wall /\ n[1] < n[2]
        BY <1>2, <2>1 DEF RecordTypeOK, SleepInv
      <4>2. overdue < TickEvery
        BY <1>3, <2>2
      <4>3. n[1] >= stamp => n[2] - n[1] < TickEvery
        BY <1>3, <4>1, <4>2
      <4> QED
        BY <1>3, <4>1, <4>3
    <3> QED
      BY <1>1, <2>2, <3>1, <3>2 DEF SleepInv
  <2>6. HeldInv'
    <3>1. ASSUME NEW r \in lines', r.outcome = "ok"
          PROVE  r.fire <= stamp /\ \A n \in naps : ~(n[1] < r.fire /\ r.fire < n[2])
      <4>1. CASE r \in lines
        BY <1>2, <1>3, <2>1, <2>3, <3>1, <4>1 DEF HeldInv, RecordTypeOK
      <4>2. CASE r \notin lines
        BY <1>4, <1>5, <1>6, <1>7, <3>1, <4>2
      <4> QED
        BY <4>1, <4>2
    <3> QED
      BY <1>1, <3>1 DEF HeldInv
  <2>7. NearInv'
    <3>1. ASSUME NEW r \in lines', r.outcome = "slept" PROVE AsleepNear(r.fire)
      <4>1. CASE r \in lines
        BY <2>1, <3>1, <4>1 DEF NearInv, SleptFires
      <4>2. CASE r \notin lines
        <5>1. r \in SleptRuns(stamp)
          BY <1>4, <1>5, <3>1, <4>2
        <5> QED
          BY <1>2, <1>3, <1>6, <2>1, <5>1, RecordedNear
      <4> QED
        BY <4>1, <4>2
    <3> QED
      BY <1>1, <3>1 DEF NearInv, SleptFires, AsleepNear
  <2> QED
    BY <2>4, <2>5, <2>6, <2>7
<1>11. ASSUME ClockOK' /\ ~lost' /\ ~trimmed' PROVE NotedInv'
  <2>1. TickerInv /\ SleepInv /\ HeldInv /\ NearInv /\ NotedInv /\ ~torn /\ lines' = lines \cup runs
    <3>1. ClockOK /\ ~lost
      BY <1>1, <1>11 DEF ClockOK
    <3>2. ~trimmed
      BY <1>4, <1>11 DEF AppendRuns
    <3>3. NotedInv /\ ~torn
      BY <3>1, <3>2 DEF RecordInv, NotedInv
    <3> QED
      BY <1>5, <1>11, <3>1, <3>3 DEF RecordInv
  <2>2. SleptFires \subseteq SleptFires'
    BY <2>1 DEF SleptFires
  <2>3. /\ overdue + due = TickEvery /\ wall >= lastTick + TickEvery + overdue /\ TickEvery \in Nat
    BY <1>2, <1>3, <2>1 DEF TickerInv, Elapsed
  <2>4. stamp >= lastTick
    BY <1>3, <2>3
  <2>5. ASSUME NEW n \in naps
        PROVE  \/ n[1] >= stamp
               \/ n[2] < stamp + TickEvery /\ \A t \in FireTimes : WellInside(t, n) => t \in SleptFires'
    <3>1. n[1] \in Nat /\ n[2] \in Nat /\ n[2] <= wall
      BY <1>2, <2>1 DEF RecordTypeOK, SleepInv
    <3>2. n[2] < stamp + TickEvery
      BY <1>3, <2>3, <3>1
    <3>3. CASE n[1] >= lastTick
      <4>1. ASSUME NEW t \in FireTimes, WellInside(t, n), t \notin SleptFires PROVE t \in SleptFires'
        <5>1. PICK r \in SleptRuns(stamp) : r.fire = t /\ r.outcome = "slept"
          BY <1>2, <1>3, <2>1, <3>3, <4>1, SleepNoted
        <5>2. r \in lines'
          BY <1>4, <2>1
        <5> QED
          BY <5>1, <5>2 DEF SleptFires
      <4> QED
        BY <2>2, <3>2, <4>1
    <3>4. CASE ~(n[1] >= lastTick)
      <4>1. \A t \in FireTimes : WellInside(t, n) => t \in SleptFires
        BY <2>1, <3>4 DEF NotedInv
      <4> QED
        BY <2>2, <3>2, <4>1
    <3> QED
      BY <3>3, <3>4
  <2> QED
    BY <1>1, <2>1, <1>5, <1>11, <2>5 DEF NotedInv, WellInside
<1> QED
  BY <1>8, <1>9, <1>10, <1>11 DEF RecordInv

LEMMA RecordStep == RecordInv /\ [SleepRecordNext]_sleepRecordVars => RecordInv'
<1> SUFFICES ASSUME RecordInv, [SleepRecordNext]_sleepRecordVars PROVE RecordInv'
  OBVIOUS
<1>1. CASE AwakeMoment
  BY <1>1, AwakeKeeps
<1>2. CASE Nap
  BY <1>2, NapKeeps
<1>3. CASE Stalls
  BY <1>3, StallKeeps
<1>4. CASE DeliverTick
  BY <1>4, TickKeeps
<1>5. CASE ClockStepsBack
  BY <1>5, StepBackKeeps
<1>6. CASE Killed
  BY <1>6, KillKeeps
<1>7. CASE UNCHANGED sleepRecordVars
  BY <1>7 DEF RecordInv, RecordTypeOK, OnceInv, ClockOK, TickerInv, SleepInv, HeldInv, NearInv,
              NotedInv, Among, Elapsed, SleptFires, AsleepNear, WellInside, sleepRecordVars
<1> QED
  BY <1>1, <1>2, <1>3, <1>4, <1>5, <1>6, <1>7 DEF SleepRecordNext

\* Since the last tick, the wall clock has run ahead of the ticker by what the machine slept, the
\* busy time covers what a tick is late by, and a sleep is either still to be looked at or has its
\* fires on record: for any fires, tick, threshold, sleeps and stalls.
THEOREM RecordInvariant == SleepRecordSpec => []RecordInv
<1> QED
  BY RecordStart, RecordStep, PTL DEF SleepRecordSpec

\* A fire is recorded as slept through at most once, only if the machine did sleep through it, and
\* always if it slept long enough: for any fires, tick, threshold of four ticks or more, sleeps,
\* stalls, kills and settings of the clock.
THEOREM MissesAreRecordedOnce == SleepRecordSpec => []MissRecordedOnce
<1>1. RecordInv => MissRecordedOnce
  <2> SUFFICES ASSUME RecordInv PROVE MissRecordedOnce
    OBVIOUS
  <2>1. OnceInv /\ (ClockOK => NearInv) /\ (ClockOK /\ ~lost /\ ~trimmed => NotedInv)
    BY DEF RecordInv
  <2>2. ASSUME NotedInv, NEW t \in FireTimes, SleptThrough(t) PROVE t \in SleptFires
    <3>1. PICK n \in naps : WellInside(t, n) /\ n[2] < lastTick
      BY <2>2 DEF SleptThrough, WellInside
    <3>2. ~(n[1] >= lastTick)
      BY <3>1 DEF RecordInv, RecordTypeOK
    <3> QED
      BY <2>2, <3>1, <3>2 DEF NotedInv
  <2> QED
    BY <2>1, <2>2 DEF MissRecordedOnce, OnceInv, NearInv, ClockOK
<1> QED
  BY RecordInvariant, <1>1, PTL

-----------------------------------------------------------------------------
(* The sleep log: what the logs hold, of each second the machine was down. *)

SleepLogTypeOK ==
    /\ second \in Nat \ {0} /\ machine \in {"awake", "asleep", "off"}
    /\ journal \subseteq [at : 1..second, resume : BOOLEAN, source : {"kernel", "unit"}]
    /\ pmsetLog \subseteq [at : 1..second, sleep : BOOLEAN, wake : 0..second]
    /\ down \subseteq 1..second /\ dangling \subseteq 1..second

EdgeAt(t, resume) == \E ev \in journal : ev.at = t /\ ev.resume = resume

\* Until a power fails, the machine is down from a suspend until the next resume, and no
\* second has both.
JournalInv ==
    dangling = {} =>
        /\ machine # "off"
        /\ machine = "awake" <=> second \notin down
        /\ \A t \in 1..second : ~EdgeAt(t, TRUE) \/ ~EdgeAt(t, FALSE)
        /\ \A t \in 1..second :
              t \in down <=> \E s \in 1..t : /\ EdgeAt(s, FALSE)
                                             /\ \A r \in (s + 1)..t : ~EdgeAt(r, TRUE)

\* A line of the pmset log stands for t: its sleep lasted until the wake it has or, when
\* that was never written, until the next line.
Spans(l, t) ==
    /\ l.at <= t
    /\ l.wake # OpenEnded => t < l.wake
    /\ l.wake = OpenEnded => \A m \in pmsetLog : m.at > l.at => t < m.at

\* The machine is down in the seconds that a line of a sleep stands for. The sleep it is in
\* has the latest line; each other one without a wake ended in a power failure.
PmsetInv ==
    /\ \A l, m \in pmsetLog : l.at = m.at => l = m
    /\ \A l \in pmsetLog : l.wake # OpenEnded => l.at < l.wake
    /\ \A t \in 1..second : t \in down <=> \E l \in pmsetLog : l.sleep /\ Spans(l, t)
    /\ \A l \in pmsetLog : l.sleep /\ l.wake = OpenEnded =>
          /\ Latest(l) => machine # "awake"
          /\ l.at \in dangling \/ (Latest(l) /\ machine = "asleep")
    /\ machine # "awake" => \E l \in pmsetLog : Latest(l) /\ l.sleep /\ l.wake = OpenEnded

SleepLogInv == SleepLogTypeOK /\ JournalInv /\ PmsetInv

\* A log read: intervals that have ended, each with some length.
Closed(S, n) == S \subseteq [sleep : 1..n, wake : 1..n] /\ \A iv \in S : iv.sleep < iv.wake

Over(iv, t, gap) == iv.wake # OpenEnded /\ t - iv.wake > gap
Begins(S, gap) ==
    {t \in {iv.sleep : iv \in S} : \A iv \in S : iv.sleep < t => Over(iv, t, gap)}
Block(S, gap, b) == {i \in S : i.sleep >= b /\ \A c \in Begins(S, gap) : c > b => i.sleep < c}

\* B is what the block of b becomes: it ends with the last of them.
IsBlock(B, S, gap, b) ==
    \E i \in Block(S, gap, b) : /\ B = [sleep |-> b, wake |-> i.wake]
                                /\ \A j \in Block(S, gap, b) : j.wake <= i.wake

\* Is t between two of the intervals, at most gap apart?
Bridged(S, gap, t) == \E i, j \in S : i.wake <= t /\ t < j.sleep /\ j.sleep - i.wake <= gap

\* Each beginning of a joined interval has one, which ends with the last of its block.
LEMMA JoinedIs ==
    ASSUME NEW S, NEW n \in Nat, NEW gap \in Nat, Closed(S, n)
    PROVE  /\ \A B \in Joined(S, gap) : \E b \in Begins(S, gap) : IsBlock(B, S, gap, b)
           /\ \A b \in Begins(S, gap) : \E B \in Joined(S, gap) : IsBlock(B, S, gap, b)
<1> DEFINE W(b) == {iv.wake : iv \in Block(S, gap, b)}
           J(b) == [sleep |-> b, wake |-> IF OpenEnded \in W(b) THEN OpenEnded ELSE Max(W(b))]
<1>1. Joined(S, gap) = {J(b) : b \in Begins(S, gap)}
  BY DEF Joined, Begins, Block, Over
<1>2. ASSUME NEW b \in Begins(S, gap)
      PROVE  IsBlock(J(b), S, gap, b)
  <2>1. PICK i \in S : i.sleep = b
    BY DEF Begins
  <2>2. i \in Block(S, gap, b)
    BY <2>1 DEF Block, Closed, Begins
  <2>3. W(b) \subseteq 1..n /\ W(b) # {}
    BY <2>2 DEF Block, Closed
  <2> HIDE DEF W
  <2>4. OpenEnded \notin W(b)
    BY <2>3 DEF OpenEnded
  <2>5. W(b) \subseteq Nat /\ n \in Int /\ \A x \in W(b) : x <= n
    BY <2>3
  <2>6. Max(W(b)) \in W(b) /\ \A y \in W(b) : y <= Max(W(b))
    BY <2>3, <2>5, MaxNat
  <2>7. PICK k \in Block(S, gap, b) : Max(W(b)) = k.wake
    BY <2>6 DEF W
  <2>8. \A j \in Block(S, gap, b) : j.wake <= k.wake
    BY <2>6, <2>7 DEF W
  <2> QED
    BY <2>4, <2>7, <2>8 DEF IsBlock
<1> HIDE DEF J, W
<1> QED
  BY <1>1, <1>2

\* Each interval is in the block of some beginning.
LEMMA InBlock ==
    ASSUME NEW S, NEW n \in Nat, NEW gap \in Nat, Closed(S, n), NEW i \in S
    PROVE  \E b \in Begins(S, gap) : i \in Block(S, gap, b)
<1> DEFINE sleeps == {iv.sleep : iv \in S}
           T == {c \in Begins(S, gap) : c <= i.sleep}
<1>1. sleeps \subseteq 1..n /\ i.sleep \in sleeps /\ Begins(S, gap) \subseteq sleeps
  BY DEF Closed, Begins
<1>2. sleeps \subseteq Nat /\ sleeps # {}
  BY <1>1
<1>3. PICK m \in sleeps : \A y \in sleeps : m <= y
  BY <1>2, MinNat
<1>4. m \in T
  <2>1. ASSUME NEW iv \in S PROVE ~(iv.sleep < m)
    <3>1. iv.sleep \in sleeps
      OBVIOUS
    <3> HIDE DEF sleeps
    <3>2. m <= iv.sleep /\ m \in Nat /\ iv.sleep \in Nat
      BY <1>2, <1>3, <3>1
    <3> QED
      BY <3>2
  <2>2. m \in Begins(S, gap)
    BY <2>1 DEF Begins
  <2>3. m <= i.sleep
    BY <1>1, <1>3
  <2> QED
    BY <2>2, <2>3
<1>5. T \subseteq Nat /\ T # {} /\ i.sleep \in Int /\ \A x \in T : x <= i.sleep
  BY <1>1, <1>2, <1>4
<1>6. Max(T) \in T /\ \A y \in T : y <= Max(T)
  BY <1>5, MaxNat
<1> DEFINE b == Max(T)
<1>7. b \in T /\ \A y \in T : y <= b
  BY <1>6
<1> HIDE DEF b
<1>8. i.sleep >= b
  BY <1>5, <1>7
<1>9. ASSUME NEW c \in Begins(S, gap), c > b PROVE i.sleep < c
  BY <1>1, <1>2, <1>5, <1>7, <1>9
<1> QED
  BY <1>7, <1>8, <1>9 DEF Block

\* What is joined is closed, holds each of the intervals, and has the bounds of some.
LEMMA JoinedHolds ==
    ASSUME NEW S, NEW n \in Nat, NEW gap \in Nat, Closed(S, n)
    PROVE  /\ Closed(Joined(S, gap), n)
           /\ \A i \in S : \E B \in Joined(S, gap) : B.sleep <= i.sleep /\ i.wake <= B.wake
           /\ \A B \in Joined(S, gap) : \E i, j \in S : B.sleep = i.sleep /\ B.wake = j.wake
<1>1. ASSUME NEW B \in Joined(S, gap)
      PROVE  /\ B \in [sleep : 1..n, wake : 1..n] /\ B.sleep < B.wake
             /\ \E i, j \in S : B.sleep = i.sleep /\ B.wake = j.wake
  <2>0. PICK b \in Begins(S, gap) : IsBlock(B, S, gap, b)
    BY JoinedIs
  <2>1. PICK j \in Block(S, gap, b) :
           B = [sleep |-> b, wake |-> j.wake] /\ \A k \in Block(S, gap, b) : k.wake <= j.wake
    BY <2>0 DEF IsBlock
  <2>2. PICK i \in S : i.sleep = b
    BY DEF Begins
  <2>3. i \in Block(S, gap, b)
    BY <2>2 DEF Block, Closed, Begins
  <2>4. i.wake <= j.wake /\ j \in S
    BY <2>1, <2>3 DEF Block
  <2>5. i.sleep < i.wake /\ i.sleep \in 1..n /\ i.wake \in 1..n /\ j.wake \in 1..n
    BY <2>4 DEF Closed
  <2> QED
    BY <2>1, <2>2, <2>4, <2>5
<1>2. ASSUME NEW i \in S
      PROVE  \E B \in Joined(S, gap) : B.sleep <= i.sleep /\ i.wake <= B.wake
  <2>1. PICK b \in Begins(S, gap) : i \in Block(S, gap, b)
    BY InBlock
  <2>0. PICK B \in Joined(S, gap) : IsBlock(B, S, gap, b)
    BY JoinedIs
  <2>2. PICK j \in Block(S, gap, b) :
           B = [sleep |-> b, wake |-> j.wake] /\ \A k \in Block(S, gap, b) : k.wake <= j.wake
    BY <2>0 DEF IsBlock
  <2>3. i.wake <= B.wake
    BY <2>1, <2>2
  <2>4. B.sleep <= i.sleep
    BY <2>1, <2>2 DEF Block, Begins, Closed
  <2> QED
    BY <2>3, <2>4
<1> QED
  BY <1>1, <1>2 DEF Closed

\* What joining covers: what the intervals do, and the short gaps between two of them.
LEMMA JoinedCovers ==
    ASSUME NEW S, NEW n \in Nat, NEW gap \in Nat, Closed(S, n), NEW t \in Nat
    PROVE  AsleepAt(Joined(S, gap), t) <=> AsleepAt(S, t) \/ Bridged(S, gap, t)
<1> DEFINE later == {iv.sleep : iv \in {i \in S : i.sleep > t}}
<1>1. \A iv \in S : /\ iv.sleep \in 1..n /\ iv.wake \in 1..n /\ iv.sleep < iv.wake
                    /\ iv.wake # OpenEnded
  BY DEF Closed, OpenEnded
<1>2. \A iv \in Joined(S, gap) : /\ iv.sleep \in 1..n /\ iv.wake \in 1..n
                                 /\ iv.wake # OpenEnded
  BY JoinedHolds DEF Closed, OpenEnded
<1>3. \A iv \in S : Covers(iv, t) <=> iv.sleep <= t /\ t < iv.wake
  BY <1>1 DEF Covers
<1>4. \A iv \in Joined(S, gap) : Covers(iv, t) <=> iv.sleep <= t /\ t < iv.wake
  BY <1>2 DEF Covers
\* The first beginning after t, if any.
<1>5. ASSUME NEW k \in S, k.sleep > t
      PROVE  \E f \in S : f.sleep > t /\ \A i \in S : i.sleep > t => f.sleep <= i.sleep
  <2>1. later \subseteq Nat /\ later # {}
    BY <1>1, <1>5
  <2>2. Min(later) \in later /\ \A y \in later : Min(later) <= y
    BY <2>1, MinNat
  <2> QED
    BY <2>2
<1>6. ASSUME AsleepAt(Joined(S, gap), t)
      PROVE  AsleepAt(S, t) \/ Bridged(S, gap, t)
  <2>1. PICK B \in Joined(S, gap) : B.sleep <= t /\ t < B.wake
    BY <1>4, <1>6 DEF AsleepAt
  <2>0. PICK b \in Begins(S, gap) : IsBlock(B, S, gap, b)
    BY JoinedIs
  <2>2. PICK k \in Block(S, gap, b) :
           B = [sleep |-> b, wake |-> k.wake] /\ \A j \in Block(S, gap, b) : j.wake <= k.wake
    BY <2>0 DEF IsBlock
  <2>3. k \in S /\ b <= t /\ t < k.wake /\ b \in 1..n
    BY <1>1, <2>1, <2>2 DEF Block, Begins
  <2>4. CASE k.sleep <= t
    BY <1>3, <2>3, <2>4 DEF AsleepAt
  <2>5. CASE k.sleep > t
    <3>1. PICK f \in S : f.sleep > t /\ \A i \in S : i.sleep > t => f.sleep <= i.sleep
      BY <1>5, <2>3, <2>5
    <3>2. f.sleep \notin Begins(S, gap)
      <4>1. SUFFICES ASSUME f.sleep \in Begins(S, gap) PROVE FALSE
        OBVIOUS
      <4>2. f.sleep > b
        BY <1>1, <2>3, <3>1
      <4>3. k.sleep < f.sleep
        BY <4>1, <4>2 DEF Block
      <4> QED
        BY <1>1, <2>3, <2>5, <3>1, <4>3
    <3>3. PICK i \in S : i.sleep < f.sleep /\ ~Over(i, f.sleep, gap)
      BY <3>2 DEF Begins
    <3>4. f.sleep - i.wake <= gap
      BY <1>1, <3>3 DEF Over
    <3>5. i.sleep <= t
      BY <1>1, <3>1, <3>3
    <3>6. CASE i.wake > t
      BY <1>3, <3>5, <3>6 DEF AsleepAt
    <3>7. CASE i.wake <= t
      BY <3>1, <3>4, <3>7 DEF Bridged
    <3> QED
      BY <1>1, <3>6, <3>7
  <2> QED
    BY <1>1, <2>3, <2>4, <2>5
<1>7. ASSUME AsleepAt(S, t)
      PROVE  AsleepAt(Joined(S, gap), t)
  <2>1. PICK i \in S : i.sleep <= t /\ t < i.wake
    BY <1>3, <1>7 DEF AsleepAt
  <2>2. PICK B \in Joined(S, gap) : B.sleep <= i.sleep /\ i.wake <= B.wake
    BY JoinedHolds
  <2>3. B.sleep <= t /\ t < B.wake
    BY <1>1, <1>2, <2>1, <2>2
  <2> QED
    BY <1>4, <2>3 DEF AsleepAt
<1>8. ASSUME Bridged(S, gap, t), ~AsleepAt(S, t)
      PROVE  AsleepAt(Joined(S, gap), t)
  <2>1. PICK i \in S, j \in S : i.wake <= t /\ t < j.sleep /\ j.sleep - i.wake <= gap
    BY <1>8 DEF Bridged
  <2>2. PICK f \in S : f.sleep > t /\ \A x \in S : x.sleep > t => f.sleep <= x.sleep
    BY <1>1, <1>5, <2>1
  <2>3. PICK b \in Begins(S, gap) : f \in Block(S, gap, b)
    BY InBlock
  <2>0. PICK B \in Joined(S, gap) : IsBlock(B, S, gap, b)
    BY JoinedIs
  <2>4. PICK k \in Block(S, gap, b) :
           B = [sleep |-> b, wake |-> k.wake] /\ \A x \in Block(S, gap, b) : x.wake <= k.wake
    BY <2>0 DEF IsBlock
  <2>5. f.wake <= B.wake
    BY <2>3, <2>4
  <2>6. b # f.sleep
    <3>1. SUFFICES ASSUME b = f.sleep PROVE FALSE
      OBVIOUS
    <3>2. i.sleep < f.sleep
      BY <1>1, <2>1, <2>2
    <3>3. Over(i, f.sleep, gap)
      BY <3>1, <3>2 DEF Begins
    <3>4. f.sleep <= j.sleep
      BY <1>1, <2>1, <2>2
    <3> QED
      BY <1>1, <2>1, <3>3, <3>4 DEF Over
  <2>7. PICK o \in S : o.sleep = b
    BY DEF Begins
  <2>8. b <= f.sleep
    BY <1>1, <2>3, <2>7 DEF Block
  <2>9. b <= t
    BY <1>1, <2>2, <2>6, <2>7, <2>8
  <2>10. B.sleep <= t /\ t < B.wake
    BY <1>1, <1>2, <2>2, <2>4, <2>5, <2>9
  <2> QED
    BY <1>4, <2>10 DEF AsleepAt
<1> QED
  BY <1>6, <1>7, <1>8

\* What the history covers: both passes together, the merging and the coalescing.
LEMMA HistoryCovers ==
    ASSUME NEW S, NEW n \in Nat, Closed(S, n), NEW t \in Nat
    PROVE  AsleepAt(History(S), t) <=> AsleepAt(S, t) \/ Bridged(S, DarkWakeGap, t)
<1> DEFINE M == Joined(S, 0)
<1>1. 0 \in Nat /\ DarkWakeGap \in Nat
  BY SleepLogAssumption
<1>2. Closed(M, n)
  BY <1>1, JoinedHolds
<1>3. \A i \in S : \E B \in M : B.sleep <= i.sleep /\ i.wake <= B.wake
  BY <1>1, JoinedHolds
<1>4. \A B \in M : \E i, j \in S : B.sleep = i.sleep /\ B.wake = j.wake
  BY <1>1, JoinedHolds
<1>5. AsleepAt(M, t) <=> AsleepAt(S, t) \/ Bridged(S, 0, t)
  BY <1>1, JoinedCovers
<1>6. \A iv \in S : iv.sleep \in 1..n /\ iv.wake \in 1..n
  BY DEF Closed
<1>7. ~Bridged(S, 0, t)
  BY <1>6 DEF Bridged
<1> HIDE DEF M
<1>8. AsleepAt(Joined(M, DarkWakeGap), t) <=> AsleepAt(M, t) \/ Bridged(M, DarkWakeGap, t)
  BY <1>1, <1>2, JoinedCovers
<1>9. ASSUME Bridged(M, DarkWakeGap, t) PROVE Bridged(S, DarkWakeGap, t)
  <2>1. PICK i \in M, j \in M : i.wake <= t /\ t < j.sleep /\ j.sleep - i.wake <= DarkWakeGap
    BY <1>9 DEF Bridged
  <2>2. PICK x \in S : i.wake = x.wake
    BY <1>4
  <2>3. PICK y \in S : j.sleep = y.sleep
    BY <1>4
  <2> QED
    BY <2>1, <2>2, <2>3 DEF Bridged
<1>10. ASSUME Bridged(S, DarkWakeGap, t) PROVE AsleepAt(M, t) \/ Bridged(M, DarkWakeGap, t)
  <2>1. PICK i \in S, j \in S : i.wake <= t /\ t < j.sleep /\ j.sleep - i.wake <= DarkWakeGap
    BY <1>10 DEF Bridged
  <2>2. PICK x \in M : x.sleep <= i.sleep /\ i.wake <= x.wake
    BY <1>3
  <2>3. PICK y \in M : y.sleep <= j.sleep /\ j.wake <= y.wake
    BY <1>3
  <2>4. /\ x.sleep \in 1..n /\ x.wake \in 1..n /\ y.sleep \in 1..n /\ y.wake \in 1..n
        /\ x.wake # OpenEnded /\ y.wake # OpenEnded
    BY <1>2 DEF Closed, OpenEnded
  <2>5. /\ i.sleep \in 1..n /\ i.wake \in 1..n /\ j.sleep \in 1..n /\ j.wake \in 1..n
        /\ i.sleep < i.wake /\ j.sleep < j.wake
    BY DEF Closed
  <2>6. CASE t < x.wake
    <3>1. Covers(x, t)
      BY <2>1, <2>2, <2>4, <2>5, <2>6 DEF Covers
    <3> QED
      BY <3>1 DEF AsleepAt
  <2>7. CASE y.sleep <= t
    <3>1. Covers(y, t)
      BY <2>1, <2>3, <2>4, <2>5, <2>7 DEF Covers
    <3> QED
      BY <3>1 DEF AsleepAt
  <2>8. CASE x.wake <= t /\ t < y.sleep
    <3>1. y.sleep - x.wake <= DarkWakeGap
      BY <1>1, <2>1, <2>2, <2>3, <2>4, <2>5
    <3> QED
      BY <2>8, <3>1 DEF Bridged
  <2> QED
    BY <2>4, <2>6, <2>7, <2>8
<1>11. History(S) = Joined(M, DarkWakeGap)
  BY DEF History, M
<1> QED
  BY <1>5, <1>7, <1>8, <1>9, <1>10, <1>11

\* What the history of a record that is right from since on says of the fires after since.
LEMMA HistoryIsTrue ==
    ASSUME NEW S, NEW since \in Nat, second \in Nat, down \subseteq 1..second, Closed(S, second),
           \A u \in since..second : AsleepAt(S, u) <=> u \in down,
           \A i \in S : since <= i.sleep,
           NEW t \in (since + 1)..(second - 1)
    PROVE  AsleepAt(History(S), t) <=> Lost(t, since)
<1>1. AsleepAt(History(S), t) <=> AsleepAt(S, t) \/ Bridged(S, DarkWakeGap, t)
  BY HistoryCovers
<1>2. AsleepAt(S, t) <=> t \in down
  OBVIOUS
<1>3. \A iv \in S : /\ iv.sleep \in 1..second /\ iv.wake \in 1..second /\ iv.sleep < iv.wake
                    /\ since <= iv.sleep /\ iv.wake # OpenEnded
  BY DEF Closed, OpenEnded
<1>4. \A iv \in S, u \in Nat : Covers(iv, u) <=> iv.sleep <= u /\ u < iv.wake
  BY <1>3 DEF Covers
<1>5. ASSUME Bridged(S, DarkWakeGap, t), t \notin down
      PROVE  Lost(t, since)
  <2>1. PICK i \in S, j \in S : i.wake <= t /\ t < j.sleep /\ j.sleep - i.wake <= DarkWakeGap
    BY <1>5 DEF Bridged
  <2> DEFINE before == {u \in down : u < t}
             after == {u \in down : u > t}
  <2>2. i.wake - 1 \in before
    <3>1. i.wake - 1 \in since..second /\ i.wake - 1 < t /\ i.wake - 1 \in Nat
      BY <1>3, <2>1
    <3>2. Covers(i, i.wake - 1)
      BY <1>3, <1>4, <3>1
    <3> QED
      BY <3>1, <3>2 DEF AsleepAt
  <2>3. j.sleep \in after
    <3>1. j.sleep \in since..second /\ j.sleep > t /\ j.sleep \in Nat
      BY <1>3, <2>1
    <3>2. Covers(j, j.sleep)
      BY <1>3, <1>4, <3>1
    <3> QED
      BY <3>1, <3>2 DEF AsleepAt
  <2>4. before \subseteq Nat /\ after \subseteq Nat /\ t \in Int /\ \A x \in before : x <= t
    <3>1. t \in Int /\ \A x \in down : x \in Nat
      OBVIOUS
    <3>2. \A x \in before : x < t /\ x \in Nat
      BY <3>1
    <3>3. \A x \in after : x \in Nat
      BY <3>1
    <3>4. \A x \in Nat : x < t => x <= t
      BY <3>1
    <3> HIDE DEF before, after
    <3> QED
      BY <3>1, <3>2, <3>3, <3>4
  <2>5. Max(before) \in before /\ \A y \in before : y <= Max(before)
    BY <2>2, <2>4, MaxNat
  <2>6. Min(after) \in after /\ \A y \in after : Min(after) <= y
    BY <2>3, <2>4, MinNat
  <2>7. PICK a \in down : a < t /\ \A y \in down : y < t => y <= a
    BY <2>5
  <2>8. PICK b \in down : b > t /\ \A y \in down : y > t => b <= y
    BY <2>6
  <2>9. i.wake - 1 <= a /\ b <= j.sleep
    BY <2>2, <2>3, <2>7, <2>8
  <2> HIDE DEF before, after
  <2>10. since <= a /\ b - a <= DarkWakeGap + 1
    <3>1. a \in Nat /\ b \in Nat /\ DarkWakeGap \in Nat
      BY SleepLogAssumption
    <3> QED
      BY <1>3, <2>1, <2>9, <3>1
  <2>11. ((a + 1)..(b - 1)) \cap down = {}
    <3>1. SUFFICES ASSUME NEW u \in (a + 1)..(b - 1), u \in down PROVE FALSE
      OBVIOUS
    <3>2. u = t \/ u < t \/ u > t
      OBVIOUS
    <3> QED
      BY <1>5, <2>7, <2>8, <3>1, <3>2
  <2> QED
    BY <2>7, <2>8, <2>10, <2>11 DEF Lost
<1>6. ASSUME Lost(t, since), t \notin down
      PROVE  Bridged(S, DarkWakeGap, t)
  <2>1. PICK a \in down, b \in down :
           /\ since <= a /\ a < t /\ t < b /\ b - a <= DarkWakeGap + 1
           /\ ((a + 1)..(b - 1)) \cap down = {}
    BY <1>6 DEF Lost
  <2>2. a \in since..second /\ b \in since..second /\ a \in Nat /\ b \in Nat
    BY <2>1
  <2>3. PICK i \in S : i.sleep <= a /\ a < i.wake
    BY <1>4, <2>2 DEF AsleepAt
  <2>4. PICK j \in S : j.sleep <= b /\ b < j.wake
    BY <1>4, <2>2 DEF AsleepAt
  <2>5. i.wake = a + 1
    <3>1. SUFFICES ASSUME i.wake # a + 1 PROVE FALSE
      OBVIOUS
    <3>2. a + 1 \in since..second /\ a + 1 \in Nat /\ a + 1 \in (a + 1)..(b - 1)
      BY <2>1, <2>2
    <3>3. i.sleep <= a + 1 /\ a + 1 < i.wake
      BY <1>3, <2>2, <2>3, <3>1
    <3>4. AsleepAt(S, a + 1)
      BY <1>4, <3>2, <3>3 DEF AsleepAt
    <3> QED
      BY <2>1, <3>2, <3>4
  <2>6. j.sleep = b
    <3>1. SUFFICES ASSUME j.sleep # b PROVE FALSE
      OBVIOUS
    <3>2. b - 1 \in since..second /\ b - 1 \in Nat /\ b - 1 \in (a + 1)..(b - 1)
      BY <2>1, <2>2
    <3>3. j.sleep <= b - 1 /\ b - 1 < j.wake
      BY <1>3, <2>2, <2>4, <3>1
    <3>4. AsleepAt(S, b - 1)
      BY <1>4, <3>2, <3>3 DEF AsleepAt
    <3> QED
      BY <2>1, <3>2, <3>4
  <2>7. i.wake <= t /\ t < j.sleep /\ j.sleep - i.wake <= DarkWakeGap
    <3>1. DarkWakeGap \in Nat
      BY SleepLogAssumption
    <3> QED
      BY <2>1, <2>2, <2>5, <2>6, <3>1
  <2> QED
    BY <2>7 DEF Bridged
<1>7. t \in down => Lost(t, since)
  BY DEF Lost
<1> QED
  BY <1>1, <1>2, <1>5, <1>6, <1>7

\* A report from such a history is honest.
LEMMA HonestIs ==
    ASSUME NEW h, NEW since \in Nat, second \in Nat,
           \A t \in (since + 1)..(second - 1) : AsleepAt(h, t) <=> Lost(t, since)
    PROVE  Honest(h, since)
<1> DEFINE start == Max({second - Lookback, since})
           risk == EstimateMissRisk(h, since, second)
           fires == IF h = {} \/ start >= second THEN {} ELSE pastFires(start, second)
           missed == {t \in fires : AsleepAt(h, t)}
<1>1. start \in Int /\ since <= start
  <2>1. \E x \in {second - Lookback, since} :
           \A y \in {second - Lookback, since} : x >= y
    <3>1. second - Lookback \in Int /\ since \in Int
      BY SleepLogAssumption
    <3> QED
      BY <3>1
  <2>2. start \in {second - Lookback, since} /\ \A y \in {second - Lookback, since} : start >= y
    BY <2>1 DEF Max
  <2> QED
    BY <2>2, SleepLogAssumption
<1>2. \A x, y : pastFires(x, y) \subseteq (x + 1)..(y - 1)
  BY DEF pastFires
<1> HIDE DEF start
<1>3. \A t \in pastFires(start, second) : t \in (since + 1)..(second - 1)
  <2>1. SUFFICES ASSUME NEW t \in (start + 1)..(second - 1)
                 PROVE  t \in (since + 1)..(second - 1)
    BY <1>2
  <2> QED
    BY <1>1
<1>4. {t \in pastFires(start, second) : AsleepAt(h, t)}
        = {t \in pastFires(start, second) : Lost(t, since)}
  BY <1>3
<1>5. risk = [fires |-> Cardinality(fires), missed |-> Cardinality(missed),
              confident |-> Cardinality(fires) >= minFiresForConfidence]
  BY DEF EstimateMissRisk, start
<1>6. IsFiniteSet(fires)
  <2>1. IsFiniteSet((start + 1)..(second - 1))
    BY <1>1, FS_Interval
  <2>2. fires \subseteq (start + 1)..(second - 1)
    BY <1>2
  <2> QED
    BY <2>1, <2>2, FS_Subset
<1>7. Cardinality(fires) \in Nat
  BY <1>6, FS_CardinalityType
<1>8. ASSUME h # {}, start < second
      PROVE  risk.missed = Cardinality({t \in pastFires(start, second) : Lost(t, since)})
  <2>1. fires = pastFires(start, second)
    BY <1>1, <1>8
  <2>2. missed = {t \in pastFires(start, second) : Lost(t, since)}
    BY <1>4, <2>1
  <2>3. risk.missed = Cardinality(missed)
    BY <1>5
  <2> HIDE DEF missed, risk
  <2> QED
    BY <2>2, <2>3
<1> HIDE DEF fires, missed, risk
<1>9. ASSUME Level(risk) \in {"none", "some"} PROVE 2 * risk.missed < risk.fires
  <2>1. risk.confident
    BY <1>9 DEF Level
  <2>2. risk.fires > 0
    <3>1. Cardinality(fires) >= minFiresForConfidence /\ risk.fires = Cardinality(fires)
      BY <1>5, <2>1
    <3> QED
      BY <1>7, <3>1, SleepLogAssumption
  <2>3. CASE risk.missed = 0
    BY <2>2, <2>3
  <2>4. CASE risk.missed # 0
    BY <1>9, <2>1, <2>4 DEF Level
  <2> QED
    BY <2>3, <2>4
<1> QED
  BY <1>8, <1>9 DEF Honest, start, risk

\* The greater of two numbers.
LEMMA GreaterOfTwo ==
    ASSUME NEW a \in Int, NEW b \in Int
    PROVE  Max({a, b}) = IF a >= b THEN a ELSE b
<1>1. \E x \in {a, b} : \A y \in {a, b} : x >= y
  OBVIOUS
<1>2. Max({a, b}) \in {a, b} /\ \A y \in {a, b} : Max({a, b}) >= y
  BY <1>1 DEF Max
<1> QED
  BY <1>2

LEMMA CutoffIs ==
    ASSUME second \in Nat \ {0}
    PROVE  cutoff \in 1..second /\ cutoff \in Nat
<1>1. cutoff = IF 1 >= second - Lookback THEN 1 ELSE second - Lookback
  BY GreaterOfTwo, SleepLogAssumption DEF cutoff
<1> QED
  BY <1>1, SleepLogAssumption

\* What is read from the pmset log is right from the cutoff on, if each sleep that a power
\* failure ended began after it.
LEMMA DarwinRead ==
    ASSUME SleepLogTypeOK, PmsetInv, machine = "awake", \A d \in dangling : d >= cutoff,
           NEW S, S = readPmsetLog(pmsetLog, cutoff, second)
    PROVE  /\ Closed(S, second) /\ \A i \in S : cutoff <= i.sleep
           /\ \A u \in cutoff..second : AsleepAt(S, u) <=> u \in down
<1> DEFINE later(l) == {m.at : m \in {e \in pmsetLog : e.at > l.at}}
           ended(l) == IF l.wake # OpenEnded THEN l.wake
                       ELSE IF later(l) # {} THEN Min(later(l)) ELSE second
           kept == {l \in pmsetLog : l.sleep /\ (l.at >= cutoff \/ l.wake > cutoff)}
           iv(l) == [sleep |-> Max({l.at, cutoff}), wake |-> ended(l)]
<1>1. S = {iv(l) : l \in kept}
  BY DEF readPmsetLog
<1>2. cutoff \in 1..second /\ cutoff \in Nat /\ second \in Nat /\ second >= 1
  BY CutoffIs DEF SleepLogTypeOK
<1>3. \A l \in pmsetLog : l.at \in 1..second /\ l.sleep \in BOOLEAN /\ l.wake \in 0..second
  BY DEF SleepLogTypeOK
\* An open sleep has a later line, and began in the window.
<1>4. ASSUME NEW l \in pmsetLog, l.sleep, l.wake = OpenEnded
      PROVE  /\ l.at >= cutoff /\ later(l) # {}
             /\ Min(later(l)) \in later(l) /\ \A y \in later(l) : Min(later(l)) <= y
  <2>1. ~Latest(l) /\ l.at \in dangling
    BY <1>4 DEF PmsetInv
  <2>2. PICK m \in pmsetLog : ~(m.at <= l.at)
    BY <2>1 DEF Latest
  <2>3. m.at > l.at
    BY <1>3, <2>2
  <2>4. later(l) # {}
    BY <2>3
  <2>5. later(l) \subseteq Nat
    BY <1>3
  <2> HIDE DEF later
  <2>6. Min(later(l)) \in later(l) /\ \A y \in later(l) : Min(later(l)) <= y
    BY <2>4, <2>5, MinNat
  <2> QED
    BY <2>1, <2>4, <2>6
<1>5. ASSUME NEW l \in pmsetLog, l.sleep
      PROVE  ended(l) \in 1..second /\ l.at < ended(l)
  <2>1. CASE l.wake # OpenEnded
    BY <1>3, <2>1 DEF PmsetInv, OpenEnded
  <2>2. CASE l.wake = OpenEnded
    <3>1. Min(later(l)) \in later(l) /\ ended(l) = Min(later(l))
      BY <1>4, <1>5, <2>2
    <3>2. PICK m \in pmsetLog : m.at > l.at /\ ended(l) = m.at
      BY <3>1
    <3> QED
      BY <1>3, <3>2
  <2> QED
    BY <2>1, <2>2
\* The line stands for what is before its end.
<1>6. ASSUME NEW l \in pmsetLog, l.sleep, NEW u \in 1..second
      PROVE  Spans(l, u) <=> l.at <= u /\ u < ended(l)
  <2>1. CASE l.wake # OpenEnded
    BY <2>1 DEF Spans
  <2>2. CASE l.wake = OpenEnded
    <3>1. /\ Min(later(l)) \in later(l) /\ \A y \in later(l) : Min(later(l)) <= y
          /\ ended(l) = Min(later(l))
      BY <1>4, <1>6, <2>2
    <3>2. PICK m \in pmsetLog : m.at > l.at /\ ended(l) = m.at
      BY <3>1
    <3>3. \A y \in pmsetLog : y.at > l.at => m.at <= y.at
      BY <3>1, <3>2
    <3>4. Spans(l, u) <=> l.at <= u /\ \A y \in pmsetLog : y.at > l.at => u < y.at
      BY <2>2 DEF Spans
    <3>5. (\A y \in pmsetLog : y.at > l.at => u < y.at) <=> u < m.at
      BY <1>3, <3>2, <3>3
    <3> QED
      BY <3>2, <3>4, <3>5
  <2> QED
    BY <2>1, <2>2
<1>7. ASSUME NEW l \in kept
      PROVE  /\ iv(l) \in [sleep : 1..second, wake : 1..second]
             /\ iv(l).sleep < iv(l).wake /\ cutoff <= iv(l).sleep /\ iv(l).wake # OpenEnded
             /\ \A u \in cutoff..second : Covers(iv(l), u) <=> Spans(l, u)
  <2>1. l \in pmsetLog /\ l.sleep /\ (l.at >= cutoff \/ l.wake > cutoff)
    OBVIOUS
  <2>2. ended(l) \in 1..second /\ l.at < ended(l) /\ l.at \in 1..second
    BY <1>3, <1>5, <2>1
  <2>3. cutoff < ended(l)
    <3>1. CASE l.at >= cutoff
      BY <1>2, <2>2, <3>1
    <3>2. CASE l.wake > cutoff
      BY <1>2, <3>2 DEF OpenEnded
    <3> QED
      BY <2>1, <3>1, <3>2
  <2>4. Max({l.at, cutoff}) = IF l.at >= cutoff THEN l.at ELSE cutoff
    BY <1>2, <2>2, GreaterOfTwo
  <2>5. ASSUME NEW u \in cutoff..second
        PROVE  Spans(l, u) <=> l.at <= u /\ u < ended(l)
    <3>1. u \in 1..second
      BY <1>2
    <3> HIDE DEF ended, kept
    <3> QED
      BY <1>6, <2>1, <3>1
  <2> HIDE DEF ended, kept
  <2>6. iv(l).wake # OpenEnded
    BY <2>2 DEF OpenEnded
  <2>7. ASSUME NEW u \in cutoff..second PROVE Covers(iv(l), u) <=> l.at <= u /\ u < ended(l)
    BY <1>2, <2>2, <2>4, <2>6 DEF Covers
  <2>8. /\ iv(l) \in [sleep : 1..second, wake : 1..second]
        /\ iv(l).sleep < iv(l).wake /\ cutoff <= iv(l).sleep
    BY <1>2, <2>2, <2>3, <2>4
  <2> QED
    BY <2>5, <2>6, <2>7, <2>8
<1>8. ASSUME NEW u \in cutoff..second, NEW l \in pmsetLog, l.sleep, Spans(l, u)
      PROVE  l \in kept
  <2>1. CASE l.wake # OpenEnded
    <3>1. u < l.wake
      BY <1>8, <2>1 DEF Spans
    <3>2. l.wake > cutoff
      BY <1>2, <1>3, <3>1
    <3> QED
      BY <1>8, <3>2
  <2>2. CASE l.wake = OpenEnded
    BY <1>4, <1>8, <2>2
  <2> QED
    BY <2>1, <2>2
<1>9. \A l \in kept : l \in pmsetLog /\ l.sleep
  OBVIOUS
<1> HIDE DEF iv, kept
<1>10. ASSUME NEW u \in cutoff..second PROVE AsleepAt(S, u) <=> u \in down
  <2>1. AsleepAt(S, u) <=> \E l \in kept : Covers(iv(l), u)
    BY <1>1 DEF AsleepAt
  <2>2. u \in 1..second
    BY <1>2
  <2>3. u \in down <=> \E l \in pmsetLog : l.sleep /\ Spans(l, u)
    BY <2>2 DEF PmsetInv
  <2> QED
    BY <1>7, <1>8, <1>9, <2>1, <2>3
<1> QED
  BY <1>1, <1>7, <1>10 DEF Closed

\* What is read from the journal is right from its first line on, if no power has failed.
LEMMA LinuxRead ==
    ASSUME SleepLogTypeOK, JournalInv, machine = "awake", dangling = {},
           NEW S, S = {iv \in buildSleepIntervals({ev \in journal : ev.at >= cutoff}) :
                         iv.sleep >= cutoff}
    PROVE  /\ Closed(S, second) /\ LinuxSince \in cutoff..second
           /\ \A i \in S : LinuxSince <= i.sleep
           /\ \A u \in LinuxSince..second : AsleepAt(S, u) <=> u \in down
<1> DEFINE read == {ev \in journal : ev.at >= cutoff}
           resumes == {ev.at : ev \in {e \in read : e.resume}}
           suspends == {ev.at : ev \in {e \in read : ~e.resume}}
           opening == {s \in suspends : \A u \in suspends :
                                           u < s => \E r \in resumes : u < r /\ r < s}
           iv(s) == [sleep |-> s, wake |-> Min({r \in resumes : r > s})]
           paired == {o \in opening : \E r \in resumes : r > o}
           stamps == {t \in cutoff..second : t \notin down \/ \E ev \in journal : ev.at = t}
<1>1. buildSleepIntervals(read) = {iv(s) : s \in paired}
  BY DEF buildSleepIntervals
<1>2. cutoff \in 1..second /\ cutoff \in Nat /\ second \in Nat /\ second >= 1
  BY CutoffIs DEF SleepLogTypeOK
<1>3. \A ev \in journal : ev.at \in 1..second /\ ev.resume \in BOOLEAN
  BY DEF SleepLogTypeOK
<1>4. \A t : t \in resumes <=> EdgeAt(t, TRUE) /\ t \in cutoff..second
  BY <1>2, <1>3 DEF EdgeAt
<1>5. \A t : t \in suspends <=> EdgeAt(t, FALSE) /\ t \in cutoff..second
  BY <1>2, <1>3 DEF EdgeAt
<1> HIDE DEF resumes, suspends, read
<1>6. resumes \subseteq Nat /\ suspends \subseteq Nat /\ suspends \subseteq cutoff..second
  <2>1. \A t \in cutoff..second : t \in Nat
    BY <1>2
  <2> QED
    BY <1>4, <1>5, <2>1
<1>7. /\ second \notin down
      /\ \A t \in 1..second : ~EdgeAt(t, TRUE) \/ ~EdgeAt(t, FALSE)
      /\ \A t \in 1..second :
            t \in down <=> \E s \in 1..t : EdgeAt(s, FALSE) /\ \A r \in (s + 1)..t : ~EdgeAt(r, TRUE)
  BY DEF JournalInv
<1>8. /\ LinuxSince \in stamps /\ \A y \in stamps : LinuxSince <= y
      /\ LinuxSince \in cutoff..second
  <2>1. stamps \subseteq Nat /\ second \in stamps
    BY <1>2, <1>7
  <2>2. Min(stamps) \in stamps /\ \A y \in stamps : Min(stamps) <= y
    BY <2>1, MinNat
  <2>3. LinuxSince = Min(stamps)
    BY DEF LinuxSince
  <2> HIDE DEF stamps
  <2>4. LinuxSince \in stamps /\ \A y \in stamps : LinuxSince <= y
    BY <2>2, <2>3
  <2> QED
    BY <2>4 DEF stamps
\* The resume that closes what s opened.
<1>9. ASSUME NEW s \in paired
      PROVE  /\ s \in suspends /\ s \in cutoff..second /\ iv(s).wake \in resumes
             /\ s < iv(s).wake /\ \A r \in resumes : r > s => iv(s).wake <= r
  <2> DEFINE R == {r \in resumes : r > s}
  <2>1. R \subseteq Nat /\ R # {}
    BY <1>6
  <2>2. Min(R) \in R /\ \A y \in R : Min(R) <= y
    BY <2>1, MinNat
  <2>3. iv(s).wake = Min(R)
    OBVIOUS
  <2>4. s \in suspends
    OBVIOUS
  <2> HIDE DEF iv
  <2> QED
    BY <1>5, <2>2, <2>3, <2>4
<1>10. ASSUME NEW s \in paired
      PROVE  /\ iv(s) \in [sleep : 1..second, wake : 1..second]
             /\ iv(s).sleep = s /\ s < iv(s).wake /\ cutoff <= s /\ iv(s).wake # OpenEnded
  <2>1. iv(s).wake \in cutoff..second /\ s \in cutoff..second /\ s < iv(s).wake
    BY <1>4, <1>9
  <2> QED
    BY <1>2, <2>1 DEF OpenEnded
<1>11. S = {iv(s) : s \in paired}
  <2>1. S = {i \in buildSleepIntervals(read) : i.sleep >= cutoff}
    BY DEF read
  <2>2. \A s \in paired : iv(s).sleep >= cutoff
    <3>1. ASSUME NEW s \in paired PROVE s >= cutoff
      <4>1. s \in cutoff..second
        BY <1>9
      <4> HIDE DEF paired, iv
      <4> QED
        BY <1>2, <4>1
    <3> QED
      BY <1>10, <3>1
  <2> HIDE DEF iv, paired
  <2> QED
    BY <1>1, <2>1, <2>2
<1>12. ASSUME NEW s \in paired PROVE LinuxSince <= s
  <2>1. s \in suspends /\ s \in cutoff..second
    BY <1>9
  <2>2. EdgeAt(s, FALSE)
    BY <1>5, <2>1
  <2>3. s \in stamps
    BY <2>1, <2>2 DEF EdgeAt
  <2> QED
    BY <1>8, <2>3
<1> HIDE DEF stamps
<1>13. ASSUME NEW s \in paired, NEW u \in cutoff..second, Covers(iv(s), u)
       PROVE  u \in down
  <2>1. s <= u /\ u < iv(s).wake
    BY <1>10, <1>13 DEF Covers
  <2>2. s \in 1..u /\ EdgeAt(s, FALSE)
    <3>1. s \in suspends /\ s \in cutoff..second
      BY <1>9
    <3>2. EdgeAt(s, FALSE)
      BY <1>5, <3>1
    <3>3. s <= u
      BY <2>1
    <3>4. s \in Nat /\ s >= 1 /\ u \in Nat
      <4>1. cutoff \in Nat /\ cutoff >= 1
        BY <1>2
      <4>2. u \in cutoff..second
        OBVIOUS
      <4> QED
        BY <1>2, <3>1, <4>1, <4>2
    <3>5. s \in 1..u
      BY <3>3, <3>4
    <3> QED
      BY <3>2, <3>5
  <2>3. ASSUME NEW r \in (s + 1)..u, EdgeAt(r, TRUE) PROVE FALSE
    <3>1. s \in cutoff..second /\ r \in cutoff..second /\ r > s
      <4>1. s \in cutoff..second
        BY <1>9
      <4>2. r \in Int /\ s + 1 <= r /\ r <= u /\ u <= second
        BY <1>2, <2>3, <4>1
      <4> QED
        BY <1>2, <4>1, <4>2
    <3>2. r \in resumes
      BY <1>4, <2>3, <3>1
    <3>3. iv(s).wake <= r /\ iv(s).wake \in cutoff..second
      BY <1>4, <1>9, <3>1, <3>2
    <3> HIDE DEF iv
    <3> QED
      BY <1>2, <2>1, <2>3, <3>1, <3>3
  <2>4. u \in 1..second
    BY <1>2
  <2> QED
    BY <1>7, <2>2, <2>3, <2>4
<1>14. ASSUME NEW u \in LinuxSince..second, u \in down
       PROVE  \E s \in paired : Covers(iv(s), u)
  <2>1. u \in 1..second /\ u \in cutoff..second /\ u # second
    BY <1>2, <1>7, <1>8, <1>14
  \* A suspend inside the window after which no resume came until u.
  <2> DEFINE T == {s \in suspends : s <= u /\ \A r \in (s + 1)..u : ~EdgeAt(r, TRUE)}
  <2>2. PICK s \in 1..u : EdgeAt(s, FALSE) /\ \A r \in (s + 1)..u : ~EdgeAt(r, TRUE)
    BY <1>7, <1>14, <2>1
  <2>3. T # {}
    <3>1. CASE s >= cutoff
      <4>1. s \in cutoff..second /\ s <= u
        BY <1>2, <2>1, <3>1
      <4>2. s \in suspends
        BY <1>5, <2>2, <4>1
      <4> QED
        BY <2>2, <4>1, <4>2
    <3>2. CASE s < cutoff
      <4> DEFINE z == LinuxSince
      <4>1. z \in 1..second /\ s \in 1..z /\ z <= u /\ z \in cutoff..second
        BY <1>2, <1>8, <2>1, <3>2
      <4> HIDE DEF z
      <4>2. \A r \in (s + 1)..z : r \in (s + 1)..u
        BY <4>1, <2>1
      <4>3. z \in down
        BY <1>7, <2>2, <4>1, <4>2
      <4>4. PICK ev \in journal : ev.at = z
        BY <1>8, <4>3 DEF z, stamps
      <4>5. ~EdgeAt(z, TRUE)
        <5>1. z \in (s + 1)..u
          BY <1>2, <3>2, <4>1, <2>1
        <5> QED
          BY <2>2, <5>1
      <4>6. EdgeAt(z, FALSE)
        BY <1>3, <4>4, <4>5 DEF EdgeAt
      <4>7. z \in suspends
        BY <1>5, <4>1, <4>6
      <4>8. \A r \in (z + 1)..u : r \in (s + 1)..u
        BY <4>1, <2>1
      <4> QED
        BY <2>2, <4>1, <4>7, <4>8
    <3>3. s >= cutoff \/ s < cutoff
      BY <1>2
    <3> QED
      BY <3>1, <3>2, <3>3
  <2>4. T \subseteq Nat
    BY <1>6
  <2>5. Min(T) \in T /\ \A y \in T : Min(T) <= y
    BY <2>3, <2>4, MinNat
  <2>6. PICK o \in T : \A y \in T : o <= y
    BY <2>5
  <2>7. /\ o \in suspends /\ o <= u /\ \A r \in (o + 1)..u : ~EdgeAt(r, TRUE)
        /\ o \in cutoff..second /\ EdgeAt(o, FALSE)
    BY <1>5, <2>6
  <2>8. ASSUME NEW x \in suspends, x < o PROVE \E r \in resumes : x < r /\ r < o
    <3>1. x \in cutoff..second
      BY <1>5
    <3>2. x \notin T
      <4>1. x \in T => o <= x
        BY <2>6
      <4> QED
        <5>1. x \in Int /\ o \in Int
          BY <1>2, <2>7, <3>1
        <5> HIDE DEF T
        <5> QED
          BY <2>8, <4>1, <5>1
    <3>3. x <= u
      BY <1>2, <2>1, <2>7, <2>8, <3>1
    <3>4. PICK r \in (x + 1)..u : EdgeAt(r, TRUE)
      BY <3>2, <3>3
    <3>5. r \in cutoff..second /\ r \in 1..second /\ x < r
      BY <1>2, <2>1, <3>1
    <3>6. r \notin (o + 1)..u
      BY <2>7, <3>4
    <3>7. r # o
      BY <1>7, <2>7, <3>4, <3>5
    <3>8. r < o
      BY <1>2, <2>1, <2>7, <3>4, <3>5, <3>6, <3>7
    <3>9. r \in resumes
      BY <1>4, <3>4, <3>5
    <3> QED
      BY <3>5, <3>8, <3>9
  <2>9. o \in opening
    BY <2>7, <2>8
  <2>10. \E r \in resumes : r > o
    <3>1. PICK r \in (o + 1)..second : EdgeAt(r, TRUE)
      <4>1. o \in 1..second /\ second \in 1..second
        BY <1>2, <2>7
      <4> QED
        BY <1>7, <2>7, <4>1
    <3>2. r \in cutoff..second /\ r > o
      BY <1>2, <2>7
    <3> QED
      BY <1>4, <3>1, <3>2
  <2>11. o \in paired
    BY <2>9, <2>10
  <2>12. u < iv(o).wake
    <3>1. iv(o).wake \in resumes /\ o < iv(o).wake
      BY <1>9, <2>11
    <3>2. EdgeAt(iv(o).wake, TRUE) /\ iv(o).wake \in cutoff..second
      BY <1>4, <3>1
    <3> HIDE DEF iv
    <3>3. iv(o).wake \notin (o + 1)..u
      BY <2>7, <3>2
    <3> QED
      BY <1>2, <2>1, <2>7, <3>1, <3>2, <3>3
  <2>13. Covers(iv(o), u)
    BY <1>10, <2>7, <2>11, <2>12 DEF Covers
  <2> QED
    BY <2>11, <2>13
<1>15. ASSUME NEW u \in LinuxSince..second PROVE AsleepAt(S, u) <=> u \in down
  <2>1. AsleepAt(S, u) <=> \E s \in paired : Covers(iv(s), u)
    BY <1>11 DEF AsleepAt
  <2>2. u \in cutoff..second
    BY <1>2, <1>8
  <2> HIDE DEF iv, paired
  <2> QED
    BY <1>13, <1>14, <2>1, <2>2
<1>16. Closed(S, second)
  BY <1>10, <1>11 DEF Closed
<1>17. \A i \in S : LinuxSince <= i.sleep
  <2> HIDE DEF iv, paired
  <2> QED
    BY <1>10, <1>11, <1>12
<1> QED
  BY <1>8, <1>15, <1>16, <1>17

\* The invariant makes both platforms' reports honest.
LEMMA SleepLogImplies ==
    ASSUME SleepLogInv
    PROVE  RiskCountsMisses
<1>1. /\ second \in Nat \ {0} /\ second \in Nat /\ down \subseteq 1..second
      /\ SleepLogTypeOK /\ JournalInv /\ PmsetInv
  BY DEF SleepLogInv, SleepLogTypeOK
<1>2. cutoff \in 1..second /\ cutoff \in Nat
  BY <1>1, CutoffIs
<1>3. ASSUME machine = "awake", dangling = {} PROVE Honest(LinuxHistory, LinuxSince)
  <2> DEFINE S == {iv \in buildSleepIntervals({ev \in journal : ev.at >= cutoff}) :
                     iv.sleep >= cutoff}
  <2>1. /\ Closed(S, second) /\ LinuxSince \in cutoff..second
        /\ \A i \in S : LinuxSince <= i.sleep
        /\ \A u \in LinuxSince..second : AsleepAt(S, u) <=> u \in down
    BY <1>1, <1>3, LinuxRead
  <2>2. LinuxHistory = History(S)
    BY DEF LinuxHistory
  <2> HIDE DEF S
  <2>3. LinuxSince \in Nat
    BY <1>2, <2>1
  <2>4. \A t \in (LinuxSince + 1)..(second - 1) :
           AsleepAt(History(S), t) <=> Lost(t, LinuxSince)
    BY <1>1, <2>1, <2>3, HistoryIsTrue
  <2> QED
    BY <1>1, <2>2, <2>3, <2>4, HonestIs
<1>4. ASSUME machine = "awake", \A d \in dangling : d >= cutoff
      PROVE  Honest(DarwinHistory, cutoff)
  <2> DEFINE S == readPmsetLog(pmsetLog, cutoff, second)
  <2>1. /\ Closed(S, second) /\ \A i \in S : cutoff <= i.sleep
        /\ \A u \in cutoff..second : AsleepAt(S, u) <=> u \in down
    BY <1>1, <1>4, DarwinRead
  <2>2. DarwinHistory = History(S)
    BY DEF DarwinHistory
  <2> HIDE DEF S
  <2>3. \A t \in (cutoff + 1)..(second - 1) : AsleepAt(History(S), t) <=> Lost(t, cutoff)
    BY <1>1, <1>2, <2>1, HistoryIsTrue
  <2> QED
    BY <1>1, <1>2, <2>2, <2>3, HonestIs
<1> QED
  BY <1>3, <1>4 DEF RiskCountsMisses

-----------------------------------------------------------------------------
(* The invariant of the sleep log holds, step by step. *)

LEMMA SleepLogStart == SleepLogInit => SleepLogInv
<1> SUFFICES ASSUME SleepLogInit PROVE SleepLogInv
  OBVIOUS
<1> USE DEF SleepLogInit
<1>1. SleepLogTypeOK
  BY DEF SleepLogTypeOK
<1>2. JournalInv
  <2>1. 1..second = {1}
    OBVIOUS
  <2>2. \A t, resume : ~EdgeAt(t, resume)
    BY DEF EdgeAt
  <2> QED
    BY <2>1, <2>2 DEF JournalInv
<1>3. PmsetInv
  BY DEF PmsetInv
<1> QED
  BY <1>1, <1>2, <1>3 DEF SleepLogInv

\* A second passes, in which the machine is up or, with what says so, down; what the journal
\* notes is of that second and of that side.
LEMMA JournalStep ==
    ASSUME SleepLogTypeOK, JournalInv, dangling = {}, second' = second + 1,
           NEW new, NEW awoke \in BOOLEAN, journal' = journal \cup new,
           \A ev \in new : ev.at = second + 1 /\ ev.resume = awoke,
           machine' = IF awoke THEN "awake" ELSE "asleep",
           down' = IF awoke THEN down ELSE down \cup {second + 1},
           new # {} \/ machine = machine'
    PROVE  JournalInv'
<1>1. second \in Nat /\ second >= 1 /\ down \subseteq 1..second
  BY DEF SleepLogTypeOK
<1>2. \A ev \in journal : ev.at \in 1..second
  BY DEF SleepLogTypeOK
<1> DEFINE E(t, b) == \E ev \in journal' : ev.at = t /\ ev.resume = b
<1>3. ASSUME NEW t \in 1..second, NEW b \in BOOLEAN PROVE E(t, b) <=> EdgeAt(t, b)
  <2>1. \A ev \in new : ev.at # t
    BY <1>1
  <2> QED
    BY <2>1 DEF EdgeAt
<1>4. ASSUME NEW b \in BOOLEAN PROVE E(second + 1, b) <=> b = awoke /\ new # {}
  <2>1. \A ev \in journal : ev.at # second + 1
    BY <1>1, <1>2
  <2> QED
    BY <2>1
<1>5. /\ machine # "off"
      /\ machine = "awake" <=> second \notin down
      /\ \A t \in 1..second : ~EdgeAt(t, TRUE) \/ ~EdgeAt(t, FALSE)
      /\ \A t \in 1..second :
            t \in down <=> \E s \in 1..t : EdgeAt(s, FALSE) /\ \A r \in (s + 1)..t : ~EdgeAt(r, TRUE)
  BY DEF JournalInv
<1>6. /\ \A t \in 1..second, b \in BOOLEAN : E(t, b) <=> EdgeAt(t, b)
      /\ \A b \in BOOLEAN : E(second + 1, b) <=> b = awoke /\ new # {}
  BY <1>3, <1>4
<1>7. SUFFICES /\ machine' # "off"
               /\ machine' = "awake" <=> second + 1 \notin down'
               /\ \A t \in 1..(second + 1) : ~E(t, TRUE) \/ ~E(t, FALSE)
               /\ \A t \in 1..(second + 1) :
                    t \in down' <=> \E s \in 1..t : E(s, FALSE) /\ \A r \in (s + 1)..t : ~E(r, TRUE)
  BY DEF JournalInv, EdgeAt
<1> HIDE DEF E
<1>8. \A t \in 1..(second + 1) : t \in 1..second \/ t = second + 1
  BY <1>1
<1>9. machine' # "off" /\ (machine' = "awake" <=> second + 1 \notin down')
  <2>1. second + 1 \notin 1..second
    BY <1>1
  <2>2. CASE awoke
    BY <1>1, <2>1, <2>2
  <2>3. CASE ~awoke
    BY <2>3
  <2> QED
    BY <2>2, <2>3
<1>10. \A t \in 1..(second + 1) : ~E(t, TRUE) \/ ~E(t, FALSE)
  BY <1>5, <1>6, <1>8
<1>11. ASSUME NEW t \in 1..second
       PROVE  t \in down' <=> \E s \in 1..t : E(s, FALSE) /\ \A r \in (s + 1)..t : ~E(r, TRUE)
  <2>1. t \in down' <=> t \in down
    <3>1. t # second + 1
      BY <1>1
    <3> QED
      BY <3>1
  <2>2. \A s \in 1..t : s \in 1..second /\ \A r \in (s + 1)..t : r \in 1..second
    BY <1>1
  <2>3. \A s \in 1..t : /\ E(s, FALSE) <=> EdgeAt(s, FALSE)
                        /\ \A r \in (s + 1)..t : E(r, TRUE) <=> EdgeAt(r, TRUE)
    BY <1>6, <2>2
  <2> QED
    BY <1>5, <2>1, <2>3
<1> DEFINE n == second + 1
<1>12. second + 1 \in down' <=>
          \E s \in 1..n : E(s, FALSE) /\ \A r \in (s + 1)..n : ~E(r, TRUE)
  <2>1. second \in 1..second /\ n \in 1..n /\ second \in 1..n
    BY <1>1
  <2>2. CASE awoke
    <3>1. second + 1 \notin down'
      BY <1>1, <2>2
    <3>2. ASSUME NEW s \in 1..n, E(s, FALSE) PROVE \E r \in (s + 1)..n : E(r, TRUE)
      <4>1. s \in 1..second
        BY <1>6, <1>8, <2>2, <3>2
      <4>2. CASE new # {}
        <5>1. E(n, TRUE)
          BY <1>6, <2>2, <4>2
        <5>2. n \in (s + 1)..n
          BY <1>1, <4>1
        <5> QED
          BY <5>1, <5>2
      <4>3. CASE machine = machine'
        <5>1. second \notin down
          BY <1>5, <2>2, <4>3
        <5>2. EdgeAt(s, FALSE)
          BY <1>6, <3>2, <4>1
        <5>3. PICK r \in (s + 1)..second : EdgeAt(r, TRUE)
          BY <1>5, <2>1, <4>1, <5>1, <5>2
        <5>4. r \in 1..second /\ r \in (s + 1)..n
          BY <1>1, <4>1
        <5> QED
          BY <1>6, <5>3, <5>4
      <4> QED
        BY <4>2, <4>3
    <3> QED
      BY <3>1, <3>2
  <2>3. CASE ~awoke
    <3>1. second + 1 \in down'
      BY <2>3
    <3>2. \E s \in 1..n : E(s, FALSE) /\ \A r \in (s + 1)..n : ~E(r, TRUE)
      <4>1. CASE new # {}
        <5>1. E(n, FALSE)
          BY <1>6, <2>3, <4>1
        <5>2. (n + 1)..n = {}
          BY <1>1
        <5> HIDE DEF n
        <5> QED
          BY <2>1, <5>1, <5>2
      <4>2. CASE machine = machine'
        <5>1. second \in down
          BY <1>5, <2>3, <4>2
        <5>2. PICK s \in 1..second :
                 EdgeAt(s, FALSE) /\ \A r \in (s + 1)..second : ~EdgeAt(r, TRUE)
          BY <1>5, <2>1, <5>1
        <5>3. E(s, FALSE)
          BY <1>6, <5>2
        <5>5. s \in 1..n
          BY <1>1, <5>2
        <5>4. ASSUME NEW r \in (s + 1)..n PROVE ~E(r, TRUE)
          <6>1. r = n \/ (r \in (s + 1)..second /\ r \in 1..second)
            BY <1>1, <5>2
          <6>2. ~E(n, TRUE)
            BY <1>6, <2>3
          <6> QED
            BY <1>6, <5>2, <6>1, <6>2
        <5> QED
          BY <5>3, <5>4, <5>5
      <4> QED
        BY <4>1, <4>2
    <3> QED
      BY <3>1, <3>2
  <2> QED
    BY <2>2, <2>3
<1>13. ASSUME NEW t \in 1..(second + 1)
       PROVE  t \in down' <=> \E s \in 1..t : E(s, FALSE) /\ \A r \in (s + 1)..t : ~E(r, TRUE)
  <2>1. CASE t \in 1..second
    BY <1>11, <2>1
  <2>2. CASE t = second + 1
    BY <1>12, <2>2
  <2> QED
    BY <1>8, <2>1, <2>2
<1> QED
  BY <1>9, <1>10, <1>13

LEMMA LogTypesKept ==
    ASSUME SleepLogTypeOK, SleepLogNext
    PROVE  SleepLogTypeOK' /\ second' = second + 1
<1>0. PICK state \in {"awake", "asleep", "off"} : Pass(state)
  BY DEF SleepLogNext, Awake, Suspend, Asleep, Waking, PowerFails, Boot
<1>1. second \in Nat /\ second >= 1 /\ second' = second + 1
  BY <1>0 DEF SleepLogTypeOK, Pass
<1>2. /\ 1..second \subseteq 1..second' /\ 0..second \subseteq 0..second'
      /\ second' \in 1..second' /\ second' \in 0..second' /\ second' \in Nat \ {0}
      /\ OpenEnded \in 0..second' /\ second + 1 \in 1..second'
  BY <1>1 DEF OpenEnded
<1>3. /\ machine' \in {"awake", "asleep", "off"}
      /\ down' \subseteq 1..second'
  <2>1. down \subseteq 1..second /\ second + 1 \in 1..second'
    BY <1>1, <1>2 DEF SleepLogTypeOK
  <2> QED
    BY <1>0, <1>2, <2>1 DEF Pass
<1> DEFINE Events(n) == [at : 1..n, resume : BOOLEAN, source : {"kernel", "unit"}]
           Lines(n) == [at : 1..n, sleep : BOOLEAN, wake : 0..n]
<1>4. Events(second) \subseteq Events(second') /\ Lines(second) \subseteq Lines(second')
  BY <1>2
<1>5. journal \subseteq Events(second) /\ pmsetLog \subseteq Lines(second)
      /\ dangling \subseteq 1..second
  BY DEF SleepLogTypeOK
<1>6. \A b \in BOOLEAN, s \in {"kernel", "unit"} :
         [at |-> second + 1, resume |-> b, source |-> s] \in Events(second')
  BY <1>2
<1>7. \A b \in BOOLEAN :
         [at |-> second + 1, sleep |-> b, wake |-> OpenEnded] \in Lines(second')
  BY <1>2
<1>8. \A l \in Lines(second') : [l EXCEPT !.wake = second + 1] \in Lines(second')
  BY <1>1, <1>2
<1> HIDE DEF Events, Lines
<1>9. journal' \subseteq Events(second')
  <2>1. CASE UNCHANGED journal
    BY <1>4, <1>5, <2>1
  <2>2. ASSUME NEW b \in BOOLEAN, Notes(b) PROVE journal' \subseteq Events(second')
    BY <1>4, <1>5, <1>6, <2>2 DEF Notes
  <2>3. ASSUME NEW b \in BOOLEAN, NotesLate(b) PROVE journal' \subseteq Events(second')
    BY <1>4, <1>5, <1>6, <2>3 DEF NotesLate
  <2> QED
    BY <2>1, <2>2, <2>3 DEF SleepLogNext, Awake, Suspend, Asleep, Waking, PowerFails, Boot
<1>10. pmsetLog' \subseteq Lines(second')
  <2>1. CASE UNCHANGED pmsetLog
    BY <1>4, <1>5, <2>1
  <2>2. CASE Suspend
    BY <1>4, <1>5, <1>7, <2>2 DEF Suspend
  <2>3. CASE Boot
    BY <1>4, <1>5, <1>7, <2>3 DEF Boot
  <2>4. CASE Waking
    BY <1>4, <1>5, <1>8, <2>4 DEF Waking
  <2> QED
    BY <2>1, <2>2, <2>3, <2>4 DEF SleepLogNext, Awake, Asleep, PowerFails
<1>11. dangling' \subseteq 1..second'
  <2>1. \A l \in pmsetLog : l.at \in 1..second
    BY DEF SleepLogTypeOK
  <2>2. CASE UNCHANGED dangling
    BY <1>2, <1>5, <2>2
  <2>3. CASE PowerFails
    BY <1>2, <1>5, <2>1, <2>3 DEF PowerFails
  <2> QED
    BY <2>2, <2>3 DEF SleepLogNext, Awake, Suspend, Asleep, Waking, Boot
<1> QED
  BY <1>1, <1>2, <1>3, <1>9, <1>10, <1>11 DEF SleepLogTypeOK, Events, Lines

\* What a step adds to the journal is of the second that passes.
LEMMA NotesAre ==
    ASSUME NEW b \in BOOLEAN, Notes(b) \/ NotesLate(b)
    PROVE  \E new : /\ journal' = journal \cup new
                    /\ \A ev \in new : ev.at = second + 1 /\ ev.resume = b
                    /\ Notes(b) => new # {}
<1>1. CASE Notes(b)
  <2>1. PICK sources \in {{"kernel"}, {"kernel", "unit"}} :
           journal' = journal \cup {[at |-> second + 1, resume |-> b, source |-> s] : s \in sources}
    BY <1>1 DEF Notes
  <2> DEFINE new == {[at |-> second + 1, resume |-> b, source |-> s] : s \in sources}
  <2>2. new # {}
    <3>1. [at |-> second + 1, resume |-> b, source |-> "kernel"] \in new
      OBVIOUS
    <3> HIDE DEF new
    <3> QED
      BY <3>1
  <2>3. \A ev \in new : ev.at = second + 1 /\ ev.resume = b
    OBVIOUS
  <2>4. journal' = journal \cup new
    BY <2>1
  <2> HIDE DEF new
  <2> QED
    BY <2>2, <2>3, <2>4
<1>2. CASE ~Notes(b) /\ UNCHANGED journal
  <2> DEFINE new == {}
  <2>1. journal' = journal \cup new
    BY <1>2
  <2>2. \A ev \in new : ev.at = second + 1 /\ ev.resume = b
    OBVIOUS
  <2> HIDE DEF new
  <2> QED
    BY <1>2, <2>1, <2>2
<1>3. CASE ~Notes(b) /\ ~UNCHANGED journal
  <2> DEFINE new == {[at |-> second + 1, resume |-> b, source |-> "unit"]}
  <2>1. journal' = journal \cup new
    BY <1>3 DEF NotesLate
  <2>2. \A ev \in new : ev.at = second + 1 /\ ev.resume = b
    OBVIOUS
  <2> HIDE DEF new
  <2> QED
    BY <1>3, <2>1, <2>2
<1> QED
  BY <1>1, <1>2, <1>3

LEMMA JournalKept ==
    ASSUME SleepLogTypeOK, JournalInv, SleepLogNext
    PROVE  JournalInv'
<1>1. second' = second + 1
  BY LogTypesKept
<1>2. ASSUME NEW awoke \in BOOLEAN, Notes(awoke) \/ (NotesLate(awoke) /\ machine' = machine),
             machine' = IF awoke THEN "awake" ELSE "asleep",
             down' = IF awoke THEN down ELSE down \cup {second + 1},
             UNCHANGED dangling
      PROVE  JournalInv'
  <2>1. SUFFICES ASSUME dangling = {} PROVE JournalInv'
    BY <1>2 DEF JournalInv
  <2>2. PICK new : /\ journal' = journal \cup new
                   /\ \A ev \in new : ev.at = second + 1 /\ ev.resume = awoke
                   /\ Notes(awoke) => new # {}
    BY <1>2, NotesAre
  <2>3. new # {} \/ machine = machine'
    BY <1>2, <2>2
  <2> QED
    BY <1>1, <1>2, <2>1, <2>2, <2>3, JournalStep
<1>3. CASE Awake
  <2>1. /\ NotesLate(TRUE) /\ machine' = machine /\ machine' = "awake" /\ down' = down
        /\ UNCHANGED dangling
    BY <1>3 DEF Awake, Pass
  <2> QED
    BY <1>2, <2>1
<1>4. CASE Waking
  <2>1. Notes(TRUE) /\ machine' = "awake" /\ down' = down /\ UNCHANGED dangling
    BY <1>4 DEF Waking, Pass
  <2> QED
    BY <1>2, <2>1
<1>5. CASE Asleep
  <2>1. /\ NotesLate(FALSE) /\ machine' = machine /\ machine' = "asleep"
        /\ down' = down \cup {second + 1} /\ UNCHANGED dangling
    BY <1>5 DEF Asleep, Pass
  <2> QED
    BY <1>2, <2>1
<1>6. CASE Suspend
  <2>1. /\ Notes(FALSE) /\ machine' = "asleep" /\ down' = down \cup {second + 1}
        /\ UNCHANGED dangling
    BY <1>6 DEF Suspend, Pass
  <2> QED
    BY <1>2, <2>1
<1>7. CASE PowerFails
  BY <1>7 DEF PowerFails, JournalInv
<1>8. CASE Boot
  BY <1>8 DEF Boot, JournalInv
<1> QED
  BY <1>3, <1>4, <1>5, <1>6, <1>7, <1>8 DEF SleepLogNext

\* A second passes with the pmset log as it is: the sleep the machine is in, if it is in one,
\* stands for that second too.
LEMMA SameLines ==
    ASSUME SleepLogTypeOK, PmsetInv, second' = second + 1, UNCHANGED pmsetLog,
           \/ machine = "awake" /\ machine' = "awake" /\ down' = down
           \/ machine # "awake" /\ machine' # "awake" /\ down' = down \cup {second + 1},
           dangling \subseteq dangling',
           \A l \in pmsetLog : Latest(l) => machine' = "asleep" \/ l.at \in dangling'
                                              \/ machine = "awake"
    PROVE  PmsetInv'
<1>1. second \in Nat /\ second >= 1 /\ down \subseteq 1..second
  BY DEF SleepLogTypeOK
<1>2. \A l \in pmsetLog : l.at \in 1..second /\ l.wake \in 0..second /\ l.sleep \in BOOLEAN
  BY DEF SleepLogTypeOK
<1>3. /\ \A l : Latest(l)' <=> Latest(l)
      /\ \A l, t : Spans(l, t)' <=> Spans(l, t)
  BY DEF Latest, Spans
<1>4. \A t \in 1..(second + 1) : t \in 1..second \/ t = second + 1
  BY <1>1
<1>5. ASSUME NEW t \in 1..second
      PROVE  t \in down' <=> \E l \in pmsetLog : l.sleep /\ Spans(l, t)
  <2>1. t # second + 1
    BY <1>1
  <2>2. t \in down' <=> t \in down
    BY <2>1
  <2> QED
    BY <2>2 DEF PmsetInv
<1>6. ASSUME NEW t, t = second + 1
      PROVE  t \in down' <=> \E l \in pmsetLog : l.sleep /\ Spans(l, t)
  <2>1. CASE machine = "awake"
    <3>1. t \notin down'
      BY <1>1, <1>6, <2>1
    <3>2. ASSUME NEW l \in pmsetLog, l.sleep, Spans(l, t) PROVE FALSE
      <4>1. l.wake = OpenEnded
        BY <1>1, <1>2, <1>6, <3>2 DEF Spans
      <4>2. ~Latest(l)
        BY <2>1, <3>2, <4>1 DEF PmsetInv
      <4>3. PICK m \in pmsetLog : ~(m.at <= l.at)
        BY <4>2 DEF Latest
      <4>4. m.at > l.at
        BY <1>2, <4>3
      <4>5. t < m.at
        BY <3>2, <4>1, <4>4 DEF Spans
      <4> QED
        BY <1>1, <1>2, <1>6, <4>5
    <3> QED
      BY <3>1, <3>2
  <2>2. CASE machine # "awake"
    <3>1. PICK l \in pmsetLog : Latest(l) /\ l.sleep /\ l.wake = OpenEnded
      BY <2>2 DEF PmsetInv
    <3>2. l.at <= t
      BY <1>1, <1>2, <1>6
    <3>3. \A m \in pmsetLog : ~(m.at > l.at)
      BY <1>2, <3>1 DEF Latest
    <3>4. Spans(l, t)
      BY <3>1, <3>2, <3>3 DEF Spans
    <3>5. t \in down'
      BY <1>6, <2>2
    <3> QED
      BY <3>1, <3>4, <3>5
  <2> QED
    BY <2>1, <2>2
<1>7. ASSUME NEW l \in pmsetLog, l.sleep, l.wake = OpenEnded
      PROVE  /\ Latest(l) => machine' # "awake"
             /\ l.at \in dangling' \/ (Latest(l) /\ machine' = "asleep")
  <2>1. /\ Latest(l) => machine # "awake"
        /\ l.at \in dangling \/ (Latest(l) /\ machine = "asleep")
    BY <1>7 DEF PmsetInv
  <2> QED
    BY <2>1
<1>8. machine' # "awake" => \E l \in pmsetLog : Latest(l) /\ l.sleep /\ l.wake = OpenEnded
  BY DEF PmsetInv
<1>9. \A t \in 1..(second + 1) : t \in down' <=> \E l \in pmsetLog : l.sleep /\ Spans(l, t)
  BY <1>4, <1>5, <1>6
<1>10. /\ \A l, m \in pmsetLog : l.at = m.at => l = m
       /\ \A l \in pmsetLog : l.wake # OpenEnded => l.at < l.wake
  BY DEF PmsetInv
<1> QED
  BY <1>3, <1>7, <1>8, <1>9, <1>10 DEF PmsetInv

\* A second passes that has a line of its own, of a sleep that begins or of a boot.
LEMMA NewLine ==
    ASSUME SleepLogTypeOK, PmsetInv, second' = second + 1, NEW sleeps \in BOOLEAN, NEW x,
           x = [at |-> second + 1, sleep |-> sleeps, wake |-> OpenEnded],
           pmsetLog' = pmsetLog \cup {x}, UNCHANGED dangling, machine # "asleep",
           machine' = IF sleeps THEN "asleep" ELSE "awake",
           down' = IF sleeps THEN down \cup {second + 1} ELSE down
    PROVE  PmsetInv'
<1>1. second \in Nat /\ second >= 1 /\ down \subseteq 1..second
  BY DEF SleepLogTypeOK
<1>2. \A l \in pmsetLog : l.at \in 1..second /\ l.wake \in 0..second /\ l.sleep \in BOOLEAN
  BY DEF SleepLogTypeOK
<1>3. x.at = second + 1 /\ x.sleep = sleeps /\ x.wake = OpenEnded
  OBVIOUS
<1>4. x \notin pmsetLog
  BY <1>1, <1>2, <1>3
<1> DEFINE after(l, t) == /\ l.at <= t
                          /\ l.wake # OpenEnded => t < l.wake
                          /\ l.wake = OpenEnded => \A m \in pmsetLog' : m.at > l.at => t < m.at
           last(l) == l \in pmsetLog' /\ \A m \in pmsetLog' : m.at <= l.at
<1>5. ASSUME NEW l \in pmsetLog, NEW t \in 1..second PROVE after(l, t) <=> Spans(l, t)
  <2>1. x.at > l.at => t < x.at
    BY <1>1, <1>3
  <2> QED
    BY <2>1 DEF Spans
<1>6. ASSUME NEW t \in 1..second PROVE ~after(x, t)
  BY <1>1, <1>3
<1>7. ASSUME NEW l \in pmsetLog PROVE ~after(l, second + 1) /\ ~last(l)
  <2>1. x.at > l.at /\ ~(second + 1 < x.at) /\ ~(x.at <= l.at)
    BY <1>1, <1>2, <1>3
  <2>2. ~(second + 1 < l.wake)
    BY <1>1, <1>2
  <2> QED
    BY <2>1, <2>2
<1>8. after(x, second + 1) /\ last(x)
  <2>1. \A m \in pmsetLog' : ~(m.at > x.at) /\ m.at <= x.at
    <3>1. ASSUME NEW m \in pmsetLog' PROVE ~(m.at > x.at) /\ m.at <= x.at
      BY <1>1, <1>2, <1>3
    <3> QED
      BY <3>1
  <2>2. x.at <= second + 1
    BY <1>1, <1>3
  <2> QED
    BY <1>3, <2>1, <2>2
<1> HIDE DEF after, last
<1>9. ASSUME NEW t \in 1..second
      PROVE  t \in down' <=> \E l \in pmsetLog' : l.sleep /\ after(l, t)
  <2>1. t # second + 1
    BY <1>1
  <2>2. t \in down' <=> \E l \in pmsetLog : l.sleep /\ Spans(l, t)
    BY <2>1 DEF PmsetInv
  <2> QED
    BY <1>5, <1>6, <2>2
<1>10. second + 1 \in down' <=> \E l \in pmsetLog' : l.sleep /\ after(l, second + 1)
  <2>1. second + 1 \notin down
    BY <1>1
  <2> QED
    BY <1>3, <1>7, <1>8, <2>1
<1>11. \A t \in 1..(second + 1) : t \in down' <=> \E l \in pmsetLog' : l.sleep /\ after(l, t)
  <2>1. \A t \in 1..(second + 1) : t \in 1..second \/ t = second + 1
    BY <1>1
  <2> QED
    BY <1>9, <1>10, <2>1
<1>12. \A l, m \in pmsetLog' : l.at = m.at => l = m
  <2>1. \A l \in pmsetLog : l.at # x.at
    BY <1>1, <1>2, <1>3
  <2> QED
    BY <2>1 DEF PmsetInv
<1>13. \A l \in pmsetLog' : l.wake # OpenEnded => l.at < l.wake
  BY <1>3 DEF PmsetInv
<1>14. ASSUME NEW l \in pmsetLog', l.sleep, l.wake = OpenEnded
       PROVE  /\ last(l) => machine' # "awake"
              /\ l.at \in dangling \/ (last(l) /\ machine' = "asleep")
  <2>1. CASE l = x
    BY <1>3, <1>8, <1>14, <2>1
  <2>2. CASE l \in pmsetLog
    BY <1>7, <1>14, <2>2 DEF PmsetInv
  <2> QED
    BY <2>1, <2>2
<1>15. machine' # "awake" => \E l \in pmsetLog' : last(l) /\ l.sleep /\ l.wake = OpenEnded
  BY <1>3, <1>8
<1> USE DEF after, last
<1> QED
  BY <1>11, <1>12, <1>13, <1>14, <1>15 DEF PmsetInv, Spans, Latest

\* The machine wakes, and the line of the sleep it was in gets its end.
LEMMA LineEnds ==
    ASSUME SleepLogTypeOK, PmsetInv, Waking
    PROVE  PmsetInv'
<1>1. /\ second \in Nat /\ second >= 1 /\ down \subseteq 1..second /\ second' = second + 1
      /\ machine' = "awake" /\ down' = down /\ dangling' = dangling
  BY DEF SleepLogTypeOK, Waking, Pass
<1>2. \A l \in pmsetLog : l.at \in 1..second /\ l.wake \in 0..second /\ l.sleep \in BOOLEAN
  BY DEF SleepLogTypeOK
<1>3. PICK o \in pmsetLog :
         Latest(o) /\ pmsetLog' = (pmsetLog \ {o}) \cup {[o EXCEPT !.wake = second + 1]}
  BY DEF Waking
<1> DEFINE x == [o EXCEPT !.wake = second + 1]
<1>4. x.at = o.at /\ x.sleep = o.sleep /\ x.wake = second + 1 /\ x.wake # OpenEnded
  <2>1. o \in [at : 1..second, sleep : BOOLEAN, wake : 0..second]
    BY DEF SleepLogTypeOK
  <2>2. second + 1 # OpenEnded
    BY <1>1 DEF OpenEnded
  <2> QED
    BY <2>1, <2>2
<1>5. pmsetLog' = (pmsetLog \ {o}) \cup {x}
  BY <1>3
<1> HIDE DEF x
\* The line is the sleep's.
<1>6. o.sleep /\ o.wake = OpenEnded /\ \A m \in pmsetLog : ~(m.at > o.at)
  <2>1. PICK l \in pmsetLog : Latest(l) /\ l.sleep /\ l.wake = OpenEnded
    BY DEF PmsetInv, Waking
  <2>2. l.at <= o.at /\ o.at <= l.at
    BY <1>3, <2>1 DEF Latest
  <2>3. l.at = o.at
    BY <1>2, <2>2
  <2>4. l = o
    BY <2>3 DEF PmsetInv
  <2>5. \A m \in pmsetLog : ~(m.at > o.at)
    BY <1>2, <1>3 DEF Latest
  <2> QED
    BY <2>1, <2>4, <2>5
<1> DEFINE after(l, t) == /\ l.at <= t
                          /\ l.wake # OpenEnded => t < l.wake
                          /\ l.wake = OpenEnded => \A m \in pmsetLog' : m.at > l.at => t < m.at
           last(l) == l \in pmsetLog' /\ \A m \in pmsetLog' : m.at <= l.at
<1>7. ASSUME NEW l \in pmsetLog, l # o, NEW t \in 1..(second + 1)
      PROVE  after(l, t) <=> Spans(l, t)
  <2>1. (\A m \in pmsetLog' : m.at > l.at => t < m.at)
          <=> (\A m \in pmsetLog : m.at > l.at => t < m.at)
    BY <1>4, <1>5
  <2> QED
    BY <2>1 DEF Spans
<1>8. ASSUME NEW t \in 1..second PROVE after(x, t) <=> Spans(o, t)
  <2>1. t < x.wake
    BY <1>1, <1>4
  <2> QED
    BY <1>4, <1>6, <2>1 DEF Spans
<1>9. ~after(x, second + 1)
  BY <1>1, <1>4
<1>10. ASSUME NEW l \in pmsetLog, l # o, l.sleep PROVE ~Spans(l, second + 1) /\ ~last(l)
  <2>1. l.at # o.at /\ l.at <= o.at
    BY <1>3, <1>10 DEF PmsetInv, Latest
  <2>2. o.at > l.at
    BY <1>2, <2>1
  <2>3. ~(second + 1 < o.at) /\ ~(second + 1 < l.wake) /\ ~(o.at <= l.at)
    BY <1>1, <1>2, <2>2
  <2>4. ~Spans(l, second + 1)
    BY <2>2, <2>3 DEF Spans
  <2>5. ~last(l)
    BY <1>4, <1>5, <2>3
  <2> QED
    BY <2>4, <2>5
<1> HIDE DEF after, last
<1>11. ASSUME NEW t \in 1..second
       PROVE  t \in down' <=> \E l \in pmsetLog' : l.sleep /\ after(l, t)
  <2>1. t \in 1..(second + 1)
    BY <1>1
  <2>2. t \in down' <=> \E l \in pmsetLog : l.sleep /\ Spans(l, t)
    BY <1>1 DEF PmsetInv
  <2>3. ASSUME NEW l \in pmsetLog, l.sleep, Spans(l, t)
        PROVE  \E m \in pmsetLog' : m.sleep /\ after(m, t)
    <3>1. CASE l = o
      BY <1>4, <1>5, <1>8, <2>3, <3>1
    <3>2. CASE l # o
      BY <1>5, <1>7, <2>1, <2>3, <3>2
    <3> QED
      BY <3>1, <3>2
  <2>4. ASSUME NEW m \in pmsetLog', m.sleep, after(m, t)
        PROVE  \E l \in pmsetLog : l.sleep /\ Spans(l, t)
    <3>1. CASE m = x
      BY <1>6, <1>8, <2>4, <3>1
    <3>2. CASE m # x
      BY <1>5, <1>7, <2>1, <2>4, <3>2
    <3> QED
      BY <3>1, <3>2
  <2> QED
    BY <2>2, <2>3, <2>4
<1>12. second + 1 \notin down' /\ ~\E l \in pmsetLog' : l.sleep /\ after(l, second + 1)
  <2>1. second + 1 \notin down'
    BY <1>1
  <2>2. second + 1 \in 1..(second + 1)
    BY <1>1
  <2>3. ASSUME NEW l \in pmsetLog', l.sleep PROVE ~after(l, second + 1)
    <3>1. CASE l = x
      BY <1>9, <3>1
    <3>2. CASE l # x
      BY <1>5, <1>7, <1>10, <2>2, <2>3, <3>2
    <3> QED
      BY <3>1, <3>2
  <2> QED
    BY <2>1, <2>3
<1>13. \A t \in 1..(second + 1) : t \in down' <=> \E l \in pmsetLog' : l.sleep /\ after(l, t)
  <2>1. \A t \in 1..(second + 1) : t \in 1..second \/ t = second + 1
    BY <1>1
  <2> QED
    BY <1>11, <1>12, <2>1
<1>14. \A l, m \in pmsetLog' : l.at = m.at => l = m
  BY <1>4, <1>5 DEF PmsetInv
<1>15. \A l \in pmsetLog' : l.wake # OpenEnded => l.at < l.wake
  <2>1. x.at < x.wake
    BY <1>1, <1>2, <1>4
  <2> QED
    BY <1>5, <2>1 DEF PmsetInv
<1>16. ASSUME NEW l \in pmsetLog', l.sleep, l.wake = OpenEnded
       PROVE  ~last(l) /\ l.at \in dangling
  <2>1. l \in pmsetLog /\ l # o
    BY <1>4, <1>5, <1>16
  <2>2. ~last(l)
    BY <1>10, <1>16, <2>1
  <2>3. ~Latest(l)
    <3>1. l.at # o.at
      BY <2>1 DEF PmsetInv
    <3>2. o.at > l.at
      BY <1>2, <1>3, <2>1, <3>1 DEF Latest
    <3> QED
      BY <1>2, <2>1, <3>2 DEF Latest
  <2>4. l.at \in dangling
    BY <1>16, <2>1, <2>3 DEF PmsetInv
  <2> QED
    BY <2>2, <2>4
<1> USE DEF after, last
<1> QED
  BY <1>1, <1>13, <1>14, <1>15, <1>16 DEF PmsetInv, Spans, Latest

LEMMA PmsetKept ==
    ASSUME SleepLogTypeOK, PmsetInv, SleepLogNext
    PROVE  PmsetInv'
<1>1. second' = second + 1
  BY LogTypesKept
<1>2. CASE Awake
  <2>1. /\ machine = "awake" /\ machine' = "awake" /\ down' = down
        /\ UNCHANGED << pmsetLog, dangling >>
    BY <1>2 DEF Awake, Pass
  <2> QED
    BY <1>1, <2>1, SameLines
<1>3. CASE Asleep
  <2>1. /\ machine = "asleep" /\ machine' = "asleep" /\ down' = down \cup {second + 1}
        /\ UNCHANGED << pmsetLog, dangling >>
    BY <1>3 DEF Asleep, Pass
  <2> QED
    BY <1>1, <2>1, SameLines
<1>4. CASE PowerFails
  <2>1. /\ machine # "awake" /\ machine' = "off" /\ down' = down \cup {second + 1}
        /\ UNCHANGED pmsetLog
    BY <1>4 DEF PowerFails, Pass
  <2>2. PICK o \in pmsetLog : Latest(o) /\ dangling' = dangling \cup {o.at}
    BY <1>4 DEF PowerFails
  <2>3. ASSUME NEW l \in pmsetLog, Latest(l) PROVE l.at \in dangling'
    <3>1. l.at <= o.at /\ o.at <= l.at
      BY <2>2, <2>3 DEF Latest
    <3>2. l.at \in 1..second /\ o.at \in 1..second
      BY DEF SleepLogTypeOK
    <3>3. l.at = o.at
      BY <3>1, <3>2
    <3> QED
      BY <2>2, <3>3
  <2>4. dangling \subseteq dangling'
    BY <2>2
  <2> QED
    BY <1>1, <2>1, <2>3, <2>4, SameLines
<1>5. CASE Suspend
  <2> DEFINE x == [at |-> second + 1, sleep |-> TRUE, wake |-> OpenEnded]
  <2>1. /\ machine # "asleep" /\ machine' = "asleep" /\ down' = down \cup {second + 1}
        /\ UNCHANGED dangling /\ pmsetLog' = pmsetLog \cup {x}
    BY <1>5 DEF Suspend, Pass
  <2> QED
    BY <1>1, <2>1, NewLine
<1>6. CASE Boot
  <2> DEFINE x == [at |-> second + 1, sleep |-> FALSE, wake |-> OpenEnded]
  <2>1. /\ machine # "asleep" /\ machine' = "awake" /\ down' = down
        /\ UNCHANGED dangling /\ pmsetLog' = pmsetLog \cup {x}
    BY <1>6 DEF Boot, Pass
  <2> QED
    BY <1>1, <2>1, NewLine
<1>7. CASE Waking
  BY <1>7, LineEnds
<1> QED
  BY <1>2, <1>3, <1>4, <1>5, <1>6, <1>7 DEF SleepLogNext

LEMMA SleepLogStep == SleepLogInv /\ [SleepLogNext]_sleepLogVars => SleepLogInv'
<1> SUFFICES ASSUME SleepLogInv, [SleepLogNext]_sleepLogVars PROVE SleepLogInv'
  OBVIOUS
<1>1. SleepLogTypeOK /\ JournalInv /\ PmsetInv
  BY DEF SleepLogInv
<1>2. CASE SleepLogNext
  BY <1>1, <1>2, LogTypesKept, JournalKept, PmsetKept DEF SleepLogInv
<1>3. CASE UNCHANGED sleepLogVars
  BY <1>1, <1>3 DEF SleepLogInv, SleepLogTypeOK, JournalInv, PmsetInv, EdgeAt, Spans, Latest,
                    sleepLogVars
<1> QED
  BY <1>2, <1>3

\* From a suspend to the next resume of the journal, and for what the lines of sleeps in the pmset
\* log stand for, the machine is down, and in no other second: for any sleeps, wakes, duplicates
\* and, of the pmset log, power failures.
THEOREM SleepLogInvariant == SleepLogSpec => []SleepLogInv
<1> QED
  BY SleepLogStart, SleepLogStep, PTL DEF SleepLogSpec

\* A fire is counted as slept through if and only if the machine was down at it, or up for no
\* more than a dark wake: for any sleeps, wakes and duplicates in the logs, and any gap, window,
\* period and number of fires. macOS' log also stands power failures of sleeps in the window.
THEOREM RisksAreHonest == SleepLogSpec => []RiskCountsMisses
<1> QED
  BY SleepLogInvariant, SleepLogImplies, PTL

=============================================================================
