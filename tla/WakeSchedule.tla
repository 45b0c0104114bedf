---------------------------- MODULE WakeSchedule ----------------------------
(***************************************************************************)
(* The OS wake for the next job: who decides it (internal/daemon/wake.go), *)
(* the wake half of the helper link (helperlink.go) and the helper, which  *)
(* reconciles the OS schedule in several pmset or rtcwake calls            *)
(* (internal/helper/service.go).                                           *)
(*                                                                         *)
(* Three goroutines of the daemon call the helper: the control loop and an *)
(* IPC handler, each inside scheduleNextWake or setPaused, and the pump,   *)
(* which retries a cancel and re-asserts a schedule from a snapshot.  The  *)
(* helper serves each call on a goroutine of its own and holds no lock     *)
(* across its OS calls, so requests interleave between them.               *)
(*                                                                         *)
(* Instants are small numbers.  An entry's kind and owner are left out: an *)
(* entry of the wrong kind or of the old name is one more stale entry.     *)
(***************************************************************************)
EXTENDS Naturals, FiniteSets, FiniteSetsExt

CONSTANTS
    Job,
    Fires,          \* the instants each job's schedule names
    Sliding,        \* jobs whose scheduler reports its own next run
    Buffer,         \* WakeBuffer: how long before a fire the machine wakes
    Horizon,        \* the last instant of a behaviour
    Requests,       \* the kinds of request, or change of the battery, that may come
    MaxRequests,    \* how many of them
    Faults, MaxFaults,
    MaxEntries      \* how many equal entries may pile up in the OS schedule

Instant == 1..(Horizon + 1)         \* what the OS can be asked to wake for
FireTime == 1..(Horizon + 1 + Buffer)
None == 0

RequestKinds == {"job", "skip", "skip_global", "pause", "resume", "battery", "report"}
FaultKinds ==
    { "list_fail", "cancel_fail", "add_fail",   \* one OS call fails
      "drop",           \* another application's entry displaces ours
      "helper_crash", "daemon_crash" }

ASSUME FiresAssumption == Fires \in [Job -> SUBSET FireTime]
ASSUME SlidingAssumption == Sliding \subseteq Job
ASSUME InstantsAssumption == Buffer \in Nat /\ Horizon \in Nat
ASSUME RequestsAssumption == Requests \subseteq RequestKinds /\ MaxRequests \in Nat
ASSUME FaultsAssumption == Faults \subseteq FaultKinds /\ MaxFaults \in Nat
ASSUME EntriesAssumption == MaxEntries \in Nat \ {0}

VARIABLES
    now,
    jobs,               \* the enabled ones
    flat,               \* is the battery too low to wake for a job
    observed,           \* the next run each scheduler reports, or None
    paused, skipUntil, skipNextGlobal,
    nextWake, wakeOK,   \* what the daemon says is registered
    thr,                \* the loop and one handler, inside scheduleNextWake
    scheduledAt, cancelPending,     \* helperLink
    pump,               \* the pump, inside reconcile
    call,               \* the request each caller has in the helper
    hScheduledAt,       \* the helper's own record
    os,                 \* how many of our entries the OS holds, by instant
    up,                 \* is the daemon running
    crossed,            \* have two threads ever been in scheduleNextWake at once
    requests, faults

worldVars == << now, jobs, flat, observed >>
daemonVars == << paused, skipUntil, skipNextGlobal, nextWake, wakeOK, thr >>
linkVars == << scheduledAt, cancelPending, pump >>
helperVars == << hScheduledAt, os >>
budgetVars == << requests, faults >>
vars == << worldVars, daemonVars, linkVars, call, helperVars, up, crossed, budgetVars >>

Thread == {"loop", "ipc"}
Caller == Thread \cup {"pump"}
Moment == {None} \cup Instant

Idle == [pc |-> "idle", at |-> None, pausing |-> FALSE]
NoPump == [pc |-> "idle", at |-> None, cancel |-> FALSE]
NoCall == [st |-> "free", op |-> "verify", at |-> None, stale |-> {},
           matching |-> 0, ok |-> FALSE]

Init ==
    /\ now = 0 /\ jobs = Job /\ flat = FALSE /\ observed = [j \in Job |-> None]
    /\ paused = FALSE /\ skipUntil = [j \in Job |-> None] /\ skipNextGlobal = None
    /\ nextWake = None /\ wakeOK = FALSE /\ thr = [t \in Thread |-> Idle]
    /\ scheduledAt = None /\ cancelPending = FALSE /\ pump = NoPump
    /\ call = [c \in Caller |-> NoCall]
    /\ hScheduledAt = None /\ os = [i \in Instant |-> 0]
    /\ up = TRUE /\ crossed = FALSE /\ requests = 0 /\ faults = 0

Fault(k) == k \in Faults /\ faults < MaxFaults /\ faults' = faults + 1
Request(k) == k \in Requests /\ requests < MaxRequests /\ requests' = requests + 1

-----------------------------------------------------------------------------
(* Choosing the wake. *)

\* sched.Next: the schedule's first fire after an instant, or None.
NextFire(j, after) ==
    LET later == {f \in Fires[j] : f > after}
    IN  IF later = {} THEN None ELSE Min(later)

\* The scheduler's own answer wins, unless it is in the past.
schedulerFireTime(j) == IF observed[j] > now THEN observed[j] ELSE None

FirstFire(j) ==
    IF schedulerFireTime(j) # None THEN schedulerFireTime(j) ELSE NextFire(j, now)

isSkipped(j, fire) == fire <= skipNextGlobal \/ fire <= skipUntil[j]

\* Mutant: the fire before the skipped one is taken, whatever was skipped.
FireToWakeFor_IgnoresSkips(j) == FirstFire(j)

\* The walk past skipped fires goes on along the schedule, not the scheduler.
FireToWakeFor(j) ==
    LET first == FirstFire(j)
        later == {f \in Fires[j] : f > first /\ ~isSkipped(j, f)}
    IN  IF first = None \/ ~isSkipped(j, first) THEN first
        ELSE IF later = {} THEN None ELSE Min(later)

\* A job whose window is already opening is passed over.
WakesAhead ==
    {FireToWakeFor(j) - Buffer : j \in {i \in jobs : FireToWakeFor(i) > now + Buffer}}

nextWakeTarget == IF WakesAhead = {} THEN None ELSE Min(WakesAhead)

-----------------------------------------------------------------------------
(* The helper: one goroutine per request, several OS calls each. *)

OurEntries == {i \in Instant : os[i] > 0}

\* Mutant: the list is not searched for the entry that is asked for.
ReadSchedule_FindsNothing(at) == [stale |-> OurEntries \ {at}, matching |-> 0]

\* What ScheduleWake makes of the list: what to cancel, and how often the entry
\* asked for is there already. If more than once, all of it has to go.
ReadSchedule(at) ==
    IF os[at] > 1 THEN [stale |-> OurEntries, matching |-> 0]
    ELSE [stale |-> OurEntries \ {at}, matching |-> os[at]]

Answer(ok) == [NoCall EXCEPT !.st = "done", !.ok = ok]

Asked(c, rec) ==
    /\ call[c].st = "free"
    /\ call' = [call EXCEPT ![c] = rec]

\* A request reaches the helper, which starts by listing the OS's entries. It
\* schedules without reconciling when it cannot.
AskSchedule(c, at) ==
    LET new == [NoCall EXCEPT !.op = "schedule", !.at = at]
    IN  /\ \/ /\ Asked(c, [new EXCEPT !.st = "cancel", !.stale = ReadSchedule(at).stale,
                                    !.matching = ReadSchedule(at).matching])
              /\ UNCHANGED faults
           \/ Fault("list_fail") /\ Asked(c, [new EXCEPT !.st = "add"])
        /\ UNCHANGED << hScheduledAt, os, requests >>

\* CancelWake: with no list only the entry on record can be cancelled, and with no
\* record either it fails.
AskCancel(c) ==
    LET new == [NoCall EXCEPT !.op = "cancel"]
    IN  /\ hScheduledAt' = None
        /\ \/ /\ Asked(c, [new EXCEPT !.st = "cancel", !.stale = OurEntries])
              /\ UNCHANGED faults
           \/ /\ Fault("list_fail") /\ hScheduledAt # None
              /\ Asked(c, [new EXCEPT !.st = "cancel", !.stale = {hScheduledAt}])
           \/ /\ Fault("list_fail") /\ hScheduledAt = None
              /\ Asked(c, Answer(FALSE))
        /\ UNCHANGED << os, requests >>

\* Only a read-back that worked and missed the entry counts against it.
AskVerify(c, at) ==
    /\ \/ Asked(c, Answer(os[at] > 0)) /\ UNCHANGED faults
       \/ Fault("list_fail") /\ Asked(c, Answer(TRUE))
    /\ UNCHANGED << hScheduledAt, os, requests >>

Step(c, rec) == call' = [call EXCEPT ![c] = rec]

\* The entries listed are cancelled. pmset matches on the timestamp, so an equal
\* entry added since may go with them. A schedule goes on after a failure (of the
\* whole batch here), a cancel reports it.
CancelListed(c) ==
    /\ call[c].st = "cancel"
    /\ \/ /\ os' = [i \in Instant |-> IF i \in call[c].stale THEN 0 ELSE os[i]]
          /\ Step(c, IF call[c].op = "cancel" THEN Answer(TRUE)
                     ELSE [call[c] EXCEPT !.st = "add", !.stale = {}])
          /\ UNCHANGED faults
       \/ /\ call[c].stale # {} /\ Fault("cancel_fail")
          /\ Step(c, IF call[c].op = "cancel" THEN Answer(FALSE)
                     ELSE [call[c] EXCEPT !.st = "add", !.stale = {}])
          /\ UNCHANGED os
    /\ UNCHANGED << worldVars, daemonVars, linkVars, hScheduledAt, up, crossed, requests >>

\* One more entry; an instant that is past is consumed at once.
WithEntry(at) ==
    IF at <= now THEN os ELSE [os EXCEPT ![at] = @ + 1]

\* "Re-scheduling an entry that is already present is what created the duplicates."
AddEntry(c) ==
    /\ call[c].st = "add"
    /\ \/ /\ os' = IF call[c].matching = 0 THEN WithEntry(call[c].at) ELSE os
          /\ hScheduledAt' = call[c].at
          /\ Step(c, Answer(TRUE))
          /\ UNCHANGED faults
       \/ /\ call[c].matching = 0 /\ Fault("add_fail")
          /\ Step(c, Answer(FALSE))
          /\ UNCHANGED helperVars
    /\ UNCHANGED << worldVars, daemonVars, linkVars, up, crossed, requests >>

\* The helper dies in the middle: its requests fail where they stand, its record
\* is gone, the OS keeps what it has.
HelperCrash ==
    /\ Fault("helper_crash")
    /\ call' = [c \in Caller |-> IF call[c].st = "free" THEN NoCall
                                 ELSE Answer(call[c].st = "done" /\ call[c].ok)]
    /\ hScheduledAt' = None
    /\ UNCHANGED << worldVars, daemonVars, linkVars, os, up, crossed, requests >>

-----------------------------------------------------------------------------
(* The daemon: scheduleNextWake on two threads. *)

Goto(t, pc) == thr' = [thr EXCEPT ![t].pc = pc]

\* Starting a scheduleNextWake or a pause while the other thread is in one.
Enter(t, entry) ==
    /\ up /\ thr[t].pc = "idle"
    /\ thr' = [thr EXCEPT ![t] = entry]
    /\ crossed' = (crossed \/ \E o \in Thread \ {t} : thr[o].pc # "idle")

\* The end of a tick that found the daemon not paused when it began.
Tick ==
    /\ ~paused
    /\ Enter("loop", [Idle EXCEPT !.pc = "target"])
    /\ UNCHANGED << worldVars, paused, skipUntil, skipNextGlobal, nextWake, wakeOK,
                    linkVars, call, helperVars, up, budgetVars >>

\* afterJobChange: a job was added, removed, edited, enabled or disabled. It does
\* not look at `paused`.
JobChange ==
    /\ Request("job")
    /\ jobs' \in SUBSET Job \ {jobs}
    /\ Enter("ipc", [Idle EXCEPT !.pc = "target"])
    /\ UNCHANGED << now, flat, observed, paused, skipUntil, skipNextGlobal, nextWake, wakeOK,
                    linkVars, call, helperVars, up, faults >>

SkipNextOf(j) ==
    /\ Request("skip")
    /\ FirstFire(j) # None
    /\ skipUntil' = [skipUntil EXCEPT ![j] = FirstFire(j)]
    /\ Enter("ipc", [Idle EXCEPT !.pc = "target"])
    /\ UNCHANGED << worldVars, paused, skipNextGlobal, nextWake, wakeOK,
                    linkVars, call, helperVars, up, faults >>

\* Without a job the skip reaches up to the fire of the next wake.
SkipNextGlobal ==
    /\ Request("skip_global")
    /\ nextWakeTarget # None
    /\ skipNextGlobal' = nextWakeTarget + Buffer
    /\ Enter("ipc", [Idle EXCEPT !.pc = "target"])
    /\ UNCHANGED << worldVars, paused, skipUntil, nextWake, wakeOK,
                    linkVars, call, helperVars, up, faults >>

SetPaused ==
    /\ Request("pause")
    /\ paused' = TRUE
    /\ Enter("ipc", [pc |-> "cancel", at |-> None, pausing |-> TRUE])
    /\ UNCHANGED << worldVars, skipUntil, skipNextGlobal, nextWake, wakeOK,
                    linkVars, call, helperVars, up, faults >>

Resume ==
    /\ Request("resume")
    /\ paused' = FALSE
    /\ Enter("ipc", [Idle EXCEPT !.pc = "target"])
    /\ UNCHANGED << worldVars, skipUntil, skipNextGlobal, nextWake, wakeOK,
                    linkVars, call, helperVars, up, faults >>

Target(t) ==
    /\ thr[t].pc = "target"
    /\ thr' = [thr EXCEPT ![t].pc = "decide", ![t].at = nextWakeTarget]
    /\ UNCHANGED << worldVars, paused, skipUntil, skipNextGlobal, nextWake, wakeOK,
                    linkVars, call, helperVars, up, crossed, budgetVars >>

\* "Re-register when the target moves, OR when the last attempt failed."
StillRegistered(t) == nextWake = thr[t].at /\ wakeOK

\* No job to wake for, or a battery too low for it (ShouldScheduleWake).
DecideNone(t) ==
    /\ thr[t].pc = "decide" /\ (thr[t].at = None \/ flat)
    /\ thr' = [thr EXCEPT ![t] = IF nextWake = None THEN Idle
                                 ELSE [Idle EXCEPT !.pc = "cancel"]]
    /\ nextWake' = None /\ wakeOK' = FALSE
    /\ UNCHANGED << worldVars, paused, skipUntil, skipNextGlobal,
                    linkVars, call, helperVars, up, crossed, budgetVars >>

Decide(t) ==
    /\ thr[t].pc = "decide" /\ thr[t].at # None /\ ~flat
    /\ thr' = [thr EXCEPT ![t] = IF StillRegistered(t) THEN Idle
                                 ELSE [thr[t] EXCEPT !.pc = "schedule"]]
    /\ UNCHANGED << worldVars, paused, skipUntil, skipNextGlobal, nextWake, wakeOK,
                    linkVars, call, helperVars, up, crossed, budgetVars >>

Answered(c) == call[c].st = "done"
Hangup(c) == call' = [call EXCEPT ![c] = NoCall]

\* CancelWake remembers the intent before it calls ...
CancelWake(t) ==
    /\ thr[t].pc = "cancel"
    /\ scheduledAt' = None /\ cancelPending' = TRUE
    /\ Goto(t, "cancelCall")
    /\ UNCHANGED << worldVars, paused, skipUntil, skipNextGlobal, nextWake, wakeOK,
                    pump, call, helperVars, up, crossed, budgetVars >>

CancelWakeCall(t) ==
    /\ thr[t].pc = "cancelCall"
    /\ AskCancel(t)
    /\ Goto(t, "cancelling")
    /\ UNCHANGED << worldVars, paused, skipUntil, skipNextGlobal, nextWake, wakeOK,
                    linkVars, up, crossed >>

\* Mutant: a pause keeps the daemon's record of the wake it has just cancelled.
CancelWakeReturn_KeepsRecord(t) ==
    /\ thr[t].pc = "cancelling" /\ Answered(t)
    /\ cancelPending' = (cancelPending /\ ~call[t].ok)
    /\ Hangup(t)
    /\ thr' = [thr EXCEPT ![t] = Idle]
    /\ UNCHANGED << worldVars, paused, skipUntil, skipNextGlobal, nextWake, wakeOK,
                    scheduledAt, pump, helperVars, up, crossed, budgetVars >>

\* ... and forgets it only when the helper did it. A pause then clears the
\* daemon's record.
CancelWakeReturn(t) ==
    /\ thr[t].pc = "cancelling" /\ Answered(t)
    /\ cancelPending' = (cancelPending /\ ~call[t].ok)
    /\ nextWake' = IF thr[t].pausing THEN None ELSE nextWake
    /\ wakeOK' = (wakeOK /\ ~thr[t].pausing)
    /\ Hangup(t)
    /\ thr' = [thr EXCEPT ![t] = Idle]
    /\ UNCHANGED << worldVars, paused, skipUntil, skipNextGlobal,
                    scheduledAt, pump, helperVars, up, crossed, budgetVars >>

ScheduleWake(t) ==
    /\ thr[t].pc = "schedule"
    /\ AskSchedule(t, thr[t].at)
    /\ Goto(t, "scheduling")
    /\ UNCHANGED << worldVars, paused, skipUntil, skipNextGlobal, nextWake, wakeOK,
                    linkVars, up, crossed >>

\* A schedule that worked supersedes a cancel; one that failed is recorded as a
\* target that is not registered.
ScheduleWakeReturn(t) ==
    /\ thr[t].pc = "scheduling" /\ Answered(t)
    /\ \/ /\ call[t].ok
          /\ scheduledAt' = thr[t].at /\ cancelPending' = FALSE
          /\ Goto(t, "verify")
          /\ UNCHANGED << nextWake, wakeOK >>
       \/ /\ ~call[t].ok
          /\ nextWake' = thr[t].at /\ wakeOK' = FALSE
          /\ thr' = [thr EXCEPT ![t] = Idle]
          /\ UNCHANGED << scheduledAt, cancelPending >>
    /\ Hangup(t)
    /\ UNCHANGED << worldVars, paused, skipUntil, skipNextGlobal,
                    pump, helperVars, up, crossed, budgetVars >>

VerifyWake(t) ==
    /\ thr[t].pc = "verify"
    /\ AskVerify(t, thr[t].at)
    /\ Goto(t, "verifying")
    /\ UNCHANGED << worldVars, paused, skipUntil, skipNextGlobal, nextWake, wakeOK,
                    linkVars, up, crossed >>

VerifyWakeReturn(t) ==
    /\ thr[t].pc = "verifying" /\ Answered(t)
    /\ nextWake' = thr[t].at /\ wakeOK' = call[t].ok
    /\ Hangup(t)
    /\ thr' = [thr EXCEPT ![t] = Idle]
    /\ UNCHANGED << worldVars, paused, skipUntil, skipNextGlobal,
                    linkVars, helperVars, up, crossed, budgetVars >>

-----------------------------------------------------------------------------
(* The pump: the wake half of reconcile. *)

\* Mutant: the pump re-asserts a wake but never retries a cancel.
ReconcileSnapshot_OnlySchedules ==
    /\ up /\ pump.pc = "idle"
    /\ scheduledAt > now
    /\ pump' = [pc |-> "wake", at |-> scheduledAt, cancel |-> FALSE]
    /\ UNCHANGED << worldVars, daemonVars, scheduledAt, cancelPending, call,
                    helperVars, up, crossed, budgetVars >>

\* Mutant: the pump retries a cancel but never re-asserts a wake.
ReconcileSnapshot_OnlyCancels ==
    /\ up /\ pump.pc = "idle"
    /\ cancelPending
    /\ pump' = [pc |-> "wake", at |-> scheduledAt, cancel |-> cancelPending]
    /\ UNCHANGED << worldVars, daemonVars, scheduledAt, cancelPending, call,
                    helperVars, up, crossed, budgetVars >>

\* The snapshot, on any push if a cancel is pending, and else on the repush timer. A
\* reconcile that ends at its sleep-block call (module SleepBlock) comes to nothing
\* here and is left out.
ReconcileSnapshot ==
    /\ up /\ pump.pc = "idle"
    /\ cancelPending \/ scheduledAt > now
    /\ pump' = [pc |-> "wake", at |-> scheduledAt, cancel |-> cancelPending]
    /\ UNCHANGED << worldVars, daemonVars, scheduledAt, cancelPending, call,
                    helperVars, up, crossed, budgetVars >>

\* A pending cancel is retried ...
ReconcileCancel ==
    /\ pump.pc = "wake" /\ pump.cancel
    /\ AskCancel("pump")
    /\ pump' = [pump EXCEPT !.pc = "cancelling"]
    /\ UNCHANGED << worldVars, daemonVars, scheduledAt, cancelPending, up, crossed >>

\* ... or else a full reconcile re-asserts the wake, if it is still ahead.
ReconcileSchedule ==
    /\ pump.pc = "wake" /\ ~pump.cancel
    /\ \/ /\ pump.at > now
          /\ AskSchedule("pump", pump.at)
          /\ pump' = [pump EXCEPT !.pc = "scheduling"]
       \/ /\ pump.at <= now
          /\ pump' = NoPump /\ UNCHANGED << call, helperVars, budgetVars >>
    /\ UNCHANGED << worldVars, daemonVars, scheduledAt, cancelPending, up, crossed >>

ReconcileReturn ==
    /\ pump.pc \in {"cancelling", "scheduling"} /\ Answered("pump")
    /\ cancelPending' = (cancelPending /\ ~(pump.pc = "cancelling" /\ call["pump"].ok))
    /\ Hangup("pump")
    /\ pump' = NoPump
    /\ UNCHANGED << worldVars, daemonVars, scheduledAt, helperVars, up, crossed,
                    budgetVars >>

-----------------------------------------------------------------------------
(* The world. *)

\* Time passes; the OS consumes the entries it reaches.
Advance ==
    /\ now < Horizon
    /\ now' = now + 1
    /\ os' = [os EXCEPT ![now'] = 0]
    /\ UNCHANGED << jobs, flat, observed, daemonVars, linkVars, call, hScheduledAt, up,
                    crossed, budgetVars >>

\* A scheduler of its own reports another next run: intervals slide.
SchedulerReports(j) ==
    /\ Request("report") /\ j \in Sliding
    /\ observed' = [observed EXCEPT ![j] = now + Buffer + 1]
    /\ UNCHANGED << now, jobs, flat, daemonVars, linkVars, call, helperVars, up, crossed,
                    faults >>

BatteryChanges ==
    /\ Request("battery")
    /\ flat' = ~flat
    /\ UNCHANGED << now, jobs, observed, daemonVars, linkVars, call, helperVars, up,
                    crossed, faults >>

DropEntry ==
    /\ Fault("drop")
    /\ \E i \in OurEntries : os' = [os EXCEPT ![i] = 0]
    /\ UNCHANGED << worldVars, daemonVars, linkVars, call, hScheduledAt, up, crossed,
                    requests >>

\* The daemon dies: its requests run on in the helper, unheard.
DaemonCrash ==
    /\ up /\ Fault("daemon_crash")
    /\ up' = FALSE
    /\ paused' = FALSE /\ skipUntil' = [j \in Job |-> None] /\ skipNextGlobal' = None
    /\ nextWake' = None /\ wakeOK' = FALSE /\ thr' = [t \in Thread |-> Idle]
    /\ scheduledAt' = None /\ cancelPending' = FALSE /\ pump' = NoPump
    /\ UNCHANGED << worldVars, call, helperVars, crossed, requests >>

DaemonStart ==
    /\ ~up /\ \A c \in Caller : call[c].st \in {"free", "done"}
    /\ up' = TRUE
    /\ call' = [c \in Caller |-> NoCall]
    /\ UNCHANGED << worldVars, daemonVars, linkVars, helperVars, crossed, budgetVars >>

-----------------------------------------------------------------------------
Handlers ==
    JobChange \/ (\E j \in Job : SkipNextOf(j)) \/ SkipNextGlobal \/ SetPaused \/ Resume

Scheduling(t) ==
    \/ Target(t) \/ DecideNone(t) \/ Decide(t)
    \/ CancelWake(t) \/ CancelWakeCall(t) \/ CancelWakeReturn(t)
    \/ ScheduleWake(t) \/ ScheduleWakeReturn(t) \/ VerifyWake(t) \/ VerifyWakeReturn(t)

Pump ==
    ReconcileSnapshot \/ ReconcileCancel \/ ReconcileSchedule \/ ReconcileReturn

Helper(c) == CancelListed(c) \/ AddEntry(c)

World ==
    \/ Advance \/ BatteryChanges \/ (\E j \in Job : SchedulerReports(j)) \/ DropEntry
    \/ HelperCrash \/ DaemonCrash \/ DaemonStart

Next ==
    \/ Tick \/ Handlers \/ Pump \/ World
    \/ \E t \in Thread : Scheduling(t)
    \/ \E c \in Caller : Helper(c)

\* Goroutines that can run do, tickers tick (the repush timer too) and the helper
\* answers. Nobody has to send a request, and time may stop.
Fairness ==
    /\ WF_vars(Tick \/ Scheduling("loop")) /\ WF_vars(Scheduling("ipc"))
    /\ WF_vars(Pump)
    /\ \A c \in Caller : WF_vars(Helper(c))
    /\ WF_vars(DaemonStart)

Spec == Init /\ [][Next]_vars /\ Fairness

-----------------------------------------------------------------------------
(* Properties. *)

AtRest == \A t \in Thread : thr[t].pc = "idle"

\* What the daemon reports as registered is what the link re-asserts: otherwise a
\* dropped entry is never restored, and the machine sleeps through the job status
\* says it will wake for. Two threads that were in scheduleNextWake at once may
\* part the two; nothing else does. And however often it is re-asserted, no more than
\* MaxEntries equal entries pile up ("they accumulate without bound" was the defect
\* that service.go:234 tells of).
ClaimIsReasserted ==
    /\ AtRest /\ wakeOK /\ ~crossed => scheduledAt = nextWake
    /\ \A i \in Instant : os[i] <= MaxEntries

\* What was skipped is not woken for: once SkipNext has returned, and ever after, the
\* wake on record is for a later fire - unless the skip crossed a tick that had
\* already chosen the fire, in which case the OS may keep the skipped wake for good.
SkipHonoured ==
    AtRest /\ ~crossed /\ nextWake # None =>
        \E j \in Job : nextWake + Buffer > Max({skipNextGlobal, skipUntil[j]})

\* A wake the link keeps wanting is, from some point on, the OS's only entry of
\* ours and there once, through failed calls, displaced entries and helper restarts.
WantedWakeHeld ==
    <>[](wakeOK /\ scheduledAt > now) =>
        <>[](/\ OurEntries = {scheduledAt}
             /\ \A i \in OurEntries : os[i] = 1)

\* A cancel the helper did not carry out is retried until it does, or is superseded
\* by a new schedule.
CancelRetried == []<>(~cancelPending)

\* reconcile on a cancel that is not retried: it "leaves the wake registered with the
\* OS forever: the machine keeps waking for a job that was skipped, removed, or
\* disabled". So: when no wake is wanted for good, the OS ends up with none.
CancelTakesEffect == <>[](up /\ nextWake = None) => <>[](OurEntries = {})

=============================================================================
