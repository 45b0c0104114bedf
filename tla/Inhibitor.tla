----------------------------- MODULE Inhibitor -----------------------------
(***************************************************************************)
(* The sleep block on Linux (internal/helper/sleepblock_linux.go): a child *)
(* `systemd-inhibit cat` owns a logind lock for as long as the helper      *)
(* keeps the write end of its stdin open.                                  *)
(*                                                                         *)
(* Three kinds of goroutine meet at inhibitMu: a request (SetBlocked runs  *)
(* one at a time, under the policy lock), Shutdown, which calls            *)
(* setSleepBlocked without the policy lock, and one waiter per child,      *)
(* which takes inhibitMu between cmd.Wait and close(done).                 *)
(*                                                                         *)
(* A timeout is modelled by what has happened when it ends: a child that   *)
(* does not ignore the end of its input is reaped before it.               *)
(***************************************************************************)
EXTENDS Naturals

CONSTANTS
    Child,              \* the processes there can be at one time
    MaxChanges,         \* how often the daemon's wish changes
    Faults, MaxFaults

FaultKinds ==
    { "refuse",             \* polkit or logind refuses: the child exits
      "die",                \* the child is killed
      "logind_restart",     \* every lock is gone, its holders live on
      "list_fail",          \* systemd-inhibit --list fails or times out
      "spawn_fail",
      "slow",               \* a loaded machine: the child outlives the start's grace
      "stubborn",           \* the child ignores the end of its input
      "term", "crash" }     \* the helper is stopped, or dies

ASSUME BudgetAssumption == MaxChanges \in Nat /\ MaxFaults \in Nat
ASSUME FaultsAssumption == Faults \subseteq FaultKinds

None == "none"
Caller == {"request", "shutdown"}

ASSUME ChildAssumption == Child \cap (Caller \cup {None}) = {}

VARIABLES
    want,           \* what the daemon pushes
    up,             \* is the helper running
    blocked,        \* Service.blocked, what the dead-man switch goes by
    mu,             \* who holds inhibitMu
    call,           \* each caller, inside setSleepBlocked
    cmd,            \* inhibitCmd, with inhibitHold and inhibitDone: its child or None
    proc,           \* the child: none, starting, holding the lock, alive without it, exited
    hold,           \* is the write end of its pipe open
    stubborn,
    waiter,         \* its waiter: none, in Wait, at the lock, about to close, closed
    changes, faults

budgetVars == << changes, faults >>
childVars == << proc, hold, stubborn, waiter >>
helperVars == << blocked, mu, call, cmd >>
vars == << want, up, helperVars, childVars, budgetVars >>

Idle == [pc |-> "idle", op |-> FALSE, at |-> None]
Alive == {"starting", "holding", "lockless"}

TypeOK ==
    /\ want \in BOOLEAN /\ up \in BOOLEAN /\ blocked \in BOOLEAN
    /\ mu \in {None} \cup Caller
    /\ call \in [Caller -> [pc : {"idle", "enter", "ask", "stop", "stopWait", "kill",
                                  "killWait", "start", "grace", "exit"},
                            op : BOOLEAN, at : {None} \cup Child]]
    /\ cmd \in {None} \cup Child
    /\ proc \in [Child -> {"none", "exited"} \cup Alive]
    /\ hold \in [Child -> BOOLEAN] /\ stubborn \in [Child -> BOOLEAN]
    /\ waiter \in [Child -> {"none", "wait", "lock", "close", "closed"}]
    /\ changes \in 0..MaxChanges /\ faults \in 0..MaxFaults

Init ==
    /\ want = FALSE /\ up = TRUE /\ blocked = FALSE /\ mu = None
    /\ call = [c \in Caller |-> Idle] /\ cmd = None
    /\ proc = [g \in Child |-> "none"] /\ hold = [g \in Child |-> FALSE]
    /\ stubborn = [g \in Child |-> FALSE] /\ waiter = [g \in Child |-> "none"]
    /\ changes = 0 /\ faults = 0

Fault(k) == k \in Faults /\ faults < MaxFaults /\ faults' = faults + 1

-----------------------------------------------------------------------------
(* Callers. *)

Goto(c, pc) == call' = [call EXCEPT ![c].pc = pc]

\* setSleepBlocked returns and inhibitMu is released. SetBlocked records a success;
\* Shutdown records nothing, and the process exits.
Return(c, ok) ==
    /\ mu' = None
    /\ call' = [call EXCEPT ![c] = IF c = "request" THEN Idle ELSE [Idle EXCEPT !.pc = "exit"]]
    /\ blocked' = IF ok /\ c = "request" THEN call[c].op ELSE blocked

\* A push or a re-push reaches the helper.
SetBlocked ==
    /\ up /\ \A c \in Caller : call[c].pc = "idle"
    /\ call' = [call EXCEPT !["request"] = [Idle EXCEPT !.pc = "enter", !.op = want]]
    /\ UNCHANGED << want, up, blocked, mu, cmd, childVars, budgetVars >>

\* SIGTERM: Serve waits for its handlers but not for a dead-man release, and Shutdown
\* clears the block if the record shows one.
Shutdown ==
    /\ up /\ call["shutdown"].pc = "idle"
    /\ call["request"].pc = "idle" \/ ~call["request"].op
    /\ Fault("term")
    /\ Goto("shutdown", IF blocked THEN "enter" ELSE "exit")
    /\ UNCHANGED << want, up, blocked, mu, cmd, childVars, changes >>

\* setSleepBlocked takes inhibitMu for the whole of a state change.
Enter(c) ==
    /\ call[c].pc = "enter" /\ mu = None
    /\ mu' = c
    /\ Goto(c, IF call[c].op THEN "ask" ELSE "stop")
    /\ UNCHANGED << want, up, blocked, cmd, childVars, budgetVars >>

Done(g) == waiter[g] = "closed"
Listed == \E g \in Child : proc[g] = "holding"

\* Mutant: the child's life is taken for the lock.
InhibitorHeld_AsksNobody(c) ==
    /\ call[c].pc = "ask"
    /\ IF cmd # None /\ ~Done(cmd) THEN Return(c, TRUE)
       ELSE Goto(c, "stop") /\ UNCHANGED << blocked, mu >>
    /\ UNCHANGED << want, up, cmd, childVars, budgetVars >>

\* inhibitorHeld: a child of ours that has not been reaped, and the lock in logind's
\* list; when the list cannot be read, the child alone.
InhibitorHeld(c) ==
    /\ call[c].pc = "ask"
    /\ \/ /\ IF cmd # None /\ ~Done(cmd) /\ Listed THEN Return(c, TRUE)
             ELSE Goto(c, "stop") /\ UNCHANGED << blocked, mu >>
          /\ UNCHANGED faults
       \/ /\ cmd # None /\ ~Done(cmd) /\ Fault("list_fail")
          /\ Return(c, TRUE)
    /\ UNCHANGED << want, up, cmd, childVars, changes >>

\* What follows stopInhibitor: a new child for a block, the answer for a release.
AfterStop(c) ==
    IF call[c].op THEN Goto(c, "start") /\ UNCHANGED << blocked, mu >>
    ELSE Return(c, TRUE)

\* Mutant: a release clears the record and leaves the pipe to the garbage collector.
StopInhibitor_ForgetsPipe(c) ==
    /\ call[c].pc = "stop"
    /\ AfterStop(c) /\ cmd' = None
    /\ UNCHANGED << want, up, childVars, budgetVars >>

\* The bookkeeping goes first, then the pipe, and with it the child's input.
StopInhibitor(c) ==
    /\ call[c].pc = "stop"
    /\ IF cmd = None THEN AfterStop(c) /\ UNCHANGED << cmd, hold >>
       ELSE /\ cmd' = None
            /\ hold' = [hold EXCEPT ![cmd] = FALSE]
            /\ call' = [call EXCEPT ![c].pc = "stopWait", ![c].at = cmd]
            /\ UNCHANGED << blocked, mu >>
    /\ UNCHANGED << want, up, proc, stubborn, waiter, budgetVars >>

\* `<-done` in time: only a child reaped before this call took inhibitMu.
StopDone(c) ==
    /\ call[c].pc = "stopWait" /\ Done(call[c].at)
    /\ AfterStop(c)
    /\ UNCHANGED << want, up, cmd, childVars, budgetVars >>

StopTimeout(c) ==
    /\ call[c].pc = "stopWait" /\ ~Done(call[c].at)
    /\ stubborn[call[c].at] \/ waiter[call[c].at] = "lock"
    /\ Goto(c, "kill")
    /\ UNCHANGED << want, up, blocked, mu, cmd, childVars, budgetVars >>

\* Kill fails on a process that Wait has reaped ("os: process already finished"), and
\* setSleepBlocked with it. Otherwise it waits for `done` again, with no bound, and
\* there is no action that ends this wait: only the child's waiter closes `done`, and it
\* waits for inhibitMu, which this call keeps.
Kill(c) ==
    /\ call[c].pc = "kill"
    /\ IF waiter[call[c].at] # "wait" THEN Return(c, FALSE) /\ UNCHANGED proc
       ELSE /\ proc' = [proc EXCEPT ![call[c].at] = "exited"]
            /\ Goto(c, "killWait") /\ UNCHANGED << blocked, mu >>
    /\ UNCHANGED << want, up, cmd, hold, stubborn, waiter, budgetVars >>

\* A process that is gone and on nobody's record may be another one later: what its
\* waiter still does concerns no one.
Free ==
    {g \in Child : proc[g] \in {"none", "exited"} /\ cmd # g
                     /\ \A c \in Caller : call[c].at # g}

StartInhibitor(c) ==
    /\ call[c].pc = "start"
    /\ \/ /\ Fault("spawn_fail") /\ Return(c, FALSE)
          /\ UNCHANGED << cmd, childVars >>
       \/ /\ Free # {}
          /\ LET g == CHOOSE f \in Free : TRUE IN
                /\ cmd' = g
                /\ proc' = [proc EXCEPT ![g] = "starting"]
                /\ hold' = [hold EXCEPT ![g] = TRUE]
                /\ stubborn' = [stubborn EXCEPT ![g] = FALSE]
                /\ waiter' = [waiter EXCEPT ![g] = "wait"]
          /\ Goto(c, "grace")
          /\ UNCHANGED << blocked, mu, faults >>
    /\ UNCHANGED << want, up, changes >>

\* Mutant: a child still at its lock after the grace is an error, and is kept.
Grace_FailsSlowChild(c) ==
    /\ call[c].pc = "grace"
    /\ IF proc[cmd] = "starting" THEN Fault("slow") ELSE UNCHANGED faults
    /\ Return(c, proc[cmd] # "starting")
    /\ UNCHANGED << want, up, cmd, childVars, changes >>

\* The end of inhibitStartGrace. `done` stands for a refused lock; its waiter cannot
\* close it while this caller holds inhibitMu.
Grace(c) ==
    /\ call[c].pc = "grace"
    /\ IF proc[cmd] = "starting" THEN Fault("slow") ELSE UNCHANGED faults
    /\ IF Done(cmd) THEN /\ Return(c, FALSE)
                         /\ cmd' = None /\ hold' = [hold EXCEPT ![cmd] = FALSE]
       ELSE Return(c, TRUE) /\ UNCHANGED << cmd, hold >>
    /\ UNCHANGED << want, up, proc, stubborn, waiter, changes >>

-----------------------------------------------------------------------------
(* Waiters and children. *)

Reap(g) ==
    /\ waiter[g] = "wait" /\ proc[g] = "exited"
    /\ waiter' = [waiter EXCEPT ![g] = "lock"]
    /\ UNCHANGED << want, up, helperVars, proc, hold, stubborn, budgetVars >>

\* It takes inhibitMu to store the exit status, and lets go of it.
WaiterLock(g) ==
    /\ waiter[g] = "lock" /\ mu = None
    /\ waiter' = [waiter EXCEPT ![g] = "close"]
    /\ UNCHANGED << want, up, helperVars, proc, hold, stubborn, budgetVars >>

WaiterClose(g) ==
    /\ waiter[g] = "close"
    /\ waiter' = [waiter EXCEPT ![g] = "closed"]
    /\ UNCHANGED << want, up, helperVars, proc, hold, stubborn, budgetVars >>

Becomes(g, st) ==
    /\ proc' = [proc EXCEPT ![g] = st]
    /\ UNCHANGED << want, up, helperVars, hold, stubborn, waiter, changes >>

TakeLock(g) == proc[g] = "starting" /\ Becomes(g, "holding") /\ UNCHANGED faults

RefuseLock(g) == proc[g] = "starting" /\ Fault("refuse") /\ Becomes(g, "exited")

\* cat sees the end of its input, systemd-inhibit exits, logind drops the lock.
ExitOnEOF(g) ==
    /\ proc[g] \in Alive /\ ~hold[g] /\ ~stubborn[g]
    /\ Becomes(g, "exited") /\ UNCHANGED faults

Die(g) == proc[g] \in Alive /\ Fault("die") /\ Becomes(g, "exited")

IgnoreEOF(g) ==
    /\ proc[g] \in Alive /\ Fault("stubborn")
    /\ stubborn' = [stubborn EXCEPT ![g] = TRUE]
    /\ UNCHANGED << want, up, helperVars, proc, hold, waiter, changes >>

-----------------------------------------------------------------------------
(* The world. *)

PushChanges ==
    /\ changes < MaxChanges /\ changes' = changes + 1
    /\ want' = ~want
    /\ UNCHANGED << up, helperVars, childVars, faults >>

LogindRestart ==
    /\ Listed /\ Fault("logind_restart")
    /\ proc' = [g \in Child |-> IF proc[g] = "holding" THEN "lockless" ELSE proc[g]]
    /\ UNCHANGED << want, up, helperVars, hold, stubborn, waiter, changes >>

\* The process is gone: the kernel closes its pipes.
Gone ==
    /\ up' = FALSE /\ blocked' = FALSE /\ mu' = None
    /\ call' = [c \in Caller |-> Idle] /\ cmd' = None
    /\ hold' = [g \in Child |-> FALSE] /\ waiter' = [g \in Child |-> "none"]
    /\ UNCHANGED << want, proc, stubborn, changes >>

HelperExit == call["shutdown"].pc = "exit" /\ Gone /\ UNCHANGED faults

HelperCrash == up /\ Fault("crash") /\ Gone

\* systemd starts the helper again (Restart=always) once nothing of the old unit is
\* left: the unit keeps the default KillMode, which kills the children too. Recover
\* lists the locks; a release without a child of its own changes nothing.
HelperStart ==
    /\ ~up /\ up' = TRUE
    /\ proc' = [g \in Child |-> IF proc[g] \in Alive THEN "exited" ELSE proc[g]]
    /\ UNCHANGED << want, helperVars, hold, stubborn, waiter, budgetVars >>

-----------------------------------------------------------------------------
SetSleepBlocked(c) ==
    \/ Enter(c) \/ InhibitorHeld(c) \/ StopInhibitor(c) \/ StopDone(c) \/ StopTimeout(c)
    \/ Kill(c) \/ StartInhibitor(c) \/ Grace(c)

Waiter(g) == Reap(g) \/ WaiterLock(g) \/ WaiterClose(g)
Process(g) == TakeLock(g) \/ ExitOnEOF(g)

Next ==
    \/ SetBlocked \/ Shutdown \/ HelperExit \/ HelperCrash \/ HelperStart
    \/ PushChanges \/ LogindRestart
    \/ \E c \in Caller : SetSleepBlocked(c)
    \/ \E g \in Child : Waiter(g) \/ Process(g) \/ RefuseLock(g) \/ Die(g) \/ IgnoreEOF(g)

\* The daemon re-pushes, goroutines that can run do, a child takes its lock or sees the
\* end of its input, and systemd starts the helper again.
Fairness ==
    /\ WF_vars(SetBlocked \/ SetSleepBlocked("request"))
    /\ WF_vars(SetSleepBlocked("shutdown") \/ HelperExit) /\ WF_vars(HelperStart)
    /\ \A g \in Child : WF_vars(Waiter(g)) /\ WF_vars(Process(g))

Spec == Init /\ [][Next]_vars /\ Fairness

-----------------------------------------------------------------------------
(* Properties. *)

\* "two concurrent requests cannot leave two children running": a child whose pipe is
\* open is the one on record, so whoever releases the block ends it.
ChildTracked == \A g \in Child : proc[g] \in Alive /\ hold[g] => g = cmd

\* What the dead-man switch goes by shows every child this helper keeps, once the call
\* that made it has returned; a release that races Shutdown does not hide it.
RecordShowsChild ==
    cmd # None /\ proc[cmd] \in Alive /\ mu = None => blocked

\* The inductive invariant behind both: whoever is inside holds inhibitMu, and between
\* stopInhibitor and the next child no child is on record.
Inside == {"ask", "stop", "stopWait", "kill", "killWait", "start", "grace"}

CallsInv ==
    /\ \A c \in Caller : call[c].pc \in Inside => mu = c
    /\ \A c \in Caller : call[c].pc \in {"ask", "start", "grace"} => call[c].op
    /\ \A c \in Caller : call[c].pc \in {"stopWait", "kill", "killWait", "start"} => cmd = None
    /\ \A c \in Caller : call[c].pc = "grace" => cmd # None
    /\ ~call["shutdown"].op

RecordInv ==
    cmd # None /\ proc[cmd] \in Alive => blocked \/ call["request"].pc = "grace"

\* After the kill of a child that ignored the end of its input, inhibitMu is lost until
\* the helper is restarted: LockReturned is about this.
LockLost == \E c \in Caller : call[c].pc = "killWait"

\* A wanted block ends up in logind's list, through refused and dropped locks, killed
\* children and restarts of logind and of the helper, as long as inhibitMu is not lost.
HeldForGood == <>[]want => <>[](Listed \/ LockLost)

\* A block that is not wanted any more ends with every lock gone: those of an earlier
\* helper, and of a child that ignores the end of its input.
ReleasedForGood == <>[](~want) => <>[](~Listed)

\* sleepblock_linux.go:46: "A wedged subprocess must not be able to deadlock the
\* helper's policy lock": whoever takes inhibitMu lets go of it again.
LockReturned == []<>(mu = None)

=============================================================================
