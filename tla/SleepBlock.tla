----------------------------- MODULE SleepBlock -----------------------------
(***************************************************************************)
(* The clamshell sleep block, end to end: the daemon's holds, the link to  *)
(* the privileged helper (internal/daemon/helperlink.go), the helper's     *)
(* policy (internal/helper/service.go) and the kernel's global             *)
(* SleepDisabled setting, which outlives every process that sets it.       *)
(*                                                                         *)
(* Threads: the daemon's control loop and one IPC handler, which both end  *)
(* in syncSleepBlock; the pump, the only goroutine that pushes to the      *)
(* helper while the daemon runs; the shutdown path; one helper goroutine   *)
(* per request; the dead-man ticker.                                       *)
(*                                                                         *)
(* Time is abstract: `quiet` says that deadManTimeout (60 s) has gone by   *)
(* since the helper last heard from a daemon.                              *)
(***************************************************************************)
EXTENDS Naturals, FiniteSets

CONSTANTS
    MaxConn,    \* how many calls may be in flight at once
    Faults,     \* the kinds of fault the environment may inject
    MaxFaults   \* how many faults one behaviour may contain

FaultKinds ==
    { "pmset_fail",     \* pmset reports failure and changed nothing
      "pmset_partial",  \* pmset changed the setting, then timed out
      "recover_fail",   \* pmset fails while the helper starts
      "kernel_reset",   \* the kernel drops the setting across a sleep/wake
      "stall",          \* a living daemon stays silent for deadManTimeout
      "slow_helper",    \* a request outlives the caller's HelperTimeout
      "daemon_crash",
      "helper_crash",
      "helper_term" }   \* the helper is stopped by its service manager

ASSUME MaxConnAssumption == MaxConn \in Nat
ASSUME FaultsAssumption == Faults \subseteq FaultKinds
ASSUME MaxFaultsAssumption == MaxFaults \in Nat

VARIABLES
    \* the daemon
    dm,         \* its lifecycle: Run, then shutdown step by step
    holding,    \* len(d.holds) > 0
    sync,       \* per thread: how far it is through syncSleepBlock, and `want`
    wantBlocked, wantFull, dirty,   \* helperLink
    pump, pumpWant,     \* the pump: where it is in reconcile, and its `want`
    settled,    \* did the pump stop before Settle gave up, and the last call work
    \* the wire
    conn,
    \* the helper and the kernel
    helper, blocked, quiet, deadman, kernel,
    \* the environment
    faults

daemonVars == << dm, holding, sync, wantBlocked, wantFull, dirty,
                 pump, pumpWant, settled >>
helperVars == << helper, blocked, quiet, deadman >>
vars == << daemonVars, conn, helperVars, kernel, faults >>

Thread == {"loop", "ipc"}
Conn == 1..MaxConn

NoSync == [pc |-> "idle", want |-> FALSE]

NoCall == [st |-> "free", op |-> "set", val |-> FALSE, from |-> "pump",
           waiting |-> FALSE, ok |-> FALSE]

Call == [st : {"free", "sent", "read", "replied"}, op : {"set", "status"},
         val : BOOLEAN, from : {"pump", "final"}, waiting : BOOLEAN,
         ok : BOOLEAN]

DaemonTypeOK ==
    /\ dm \in {"down", "up", "settle", "final", "finalWait", "wait"}
    /\ holding \in BOOLEAN
    /\ sync \in [Thread -> [pc : {"idle", "op", "read", "push", "nudge"},
                            want : BOOLEAN]]
    /\ wantBlocked \in BOOLEAN /\ wantFull \in BOOLEAN /\ dirty \in BOOLEAN
    /\ pump \in {"idle", "woken", "status", "statusWait", "set", "setWait",
                 "exited"}
    /\ pumpWant \in BOOLEAN /\ settled \in BOOLEAN

WireTypeOK == conn \in [Conn -> Call]

HelperTypeOK ==
    /\ helper \in {"down", "up", "stopping"}
    /\ blocked \in BOOLEAN /\ quiet \in BOOLEAN /\ kernel \in BOOLEAN
    /\ deadman \in {"idle", "fire"}

FaultsTypeOK == faults \in 0..MaxFaults

\* Every variable of the daemon, of the wire and of the helper has its type, and
\* the environment keeps to its budget of faults.
TypeOK == DaemonTypeOK /\ WireTypeOK /\ HelperTypeOK /\ FaultsTypeOK

Init ==
    /\ dm = "down" /\ holding = FALSE
    /\ sync = [t \in Thread |-> NoSync]
    /\ wantBlocked = FALSE /\ wantFull = FALSE /\ dirty = FALSE
    /\ pump = "idle" /\ pumpWant = FALSE
    /\ settled = FALSE
    /\ conn = [c \in Conn |-> NoCall]
    /\ helper = "down" /\ blocked = FALSE /\ quiet = FALSE /\ deadman = "idle"
    /\ kernel \in BOOLEAN   \* a forced power-off may have left it set
    /\ faults = 0

\* One more fault of kind k, inside the budget.
Fault(k) == k \in Faults /\ faults < MaxFaults /\ faults' = faults + 1

-----------------------------------------------------------------------------
(* The wire. *)

Busy == {c \in Conn : conn[c].st # "free"}

\* DoTimeout dials a connection of its own for every request (numbered so that
\* the lowest free number is the one used).
Send(c, op, val, from) ==
    /\ conn[c].st = "free" /\ \A d \in 1..(c - 1) : conn[d].st # "free"
    /\ conn' = [conn EXCEPT ![c] =
          [st |-> "sent", op |-> op, val |-> val, from |-> from,
           waiting |-> TRUE, ok |-> FALSE]]

\* The helper answers; nobody reads the answer to an abandoned call.
Reply(c, ok) ==
    conn' = [conn EXCEPT ![c] =
               IF conn[c].waiting THEN [conn[c] EXCEPT !.st = "replied", !.ok = ok]
               ELSE NoCall]

\* The caller `from` gets its answer on c.
Answered(c, from) ==
    conn[c].st = "replied" /\ conn[c].from = from

\* A caller dies: its requests stay with the helper, their answers are lost.
Abandon ==
    conn' = [c \in Conn |->
               IF conn[c].st = "replied" THEN NoCall
               ELSE [conn[c] EXCEPT !.waiting = FALSE]]

\* The helper dies: every request in it fails at its caller.
Sever ==
    conn' = [c \in Conn |->
               IF conn[c].waiting
               THEN [conn[c] EXCEPT !.st = "replied",
                                    !.ok = (conn[c].st = "replied" /\ @)]
               ELSE NoCall]

-----------------------------------------------------------------------------
(* The daemon: syncSleepBlock on two threads. *)

Serving == dm = "up"

\* A request that will open or release a hold enters its handler.
IpcBegin ==
    /\ Serving /\ sync["ipc"].pc = "idle"
    /\ sync' = [sync EXCEPT !["ipc"].pc = "op"]
    /\ UNCHANGED << dm, holding, wantBlocked, wantFull, dirty, pump, pumpWant, settled, conn, helperVars, kernel, faults >>

\* Mutant: the holds are counted before they change.
ChangeHolds_CountsFirst(t) ==
    /\ \/ t = "ipc" /\ sync[t].pc = "op"
       \/ t = "loop" /\ sync[t].pc = "idle" /\ Serving
    /\ holding' \in BOOLEAN
    /\ sync' = [sync EXCEPT ![t] = [pc |-> "push", want |-> holding]]
    /\ UNCHANGED << dm, wantBlocked, wantFull, dirty, pump, pumpWant,
                    settled, conn, helperVars, kernel, faults >>

\* The handler, or a tick, changes the hold map and goes on to sync. A handler
\* already running is not waited for by srv.Close.
ChangeHolds(t) ==
    /\ \/ t = "ipc" /\ sync[t].pc = "op"
       \/ t = "loop" /\ sync[t].pc = "idle" /\ Serving
    /\ holding' \in BOOLEAN
    /\ sync' = [sync EXCEPT ![t].pc = "read"]
    /\ UNCHANGED << dm, wantBlocked, wantFull, dirty, pump, pumpWant,
                    settled, conn, helperVars, kernel, faults >>

\* syncSleepBlock reads len(d.holds) under the lock. The loop gets here on
\* every poll, whether or not a hold changed.
SyncRead(t) ==
    /\ \/ sync[t].pc = "read"
       \/ t = "loop" /\ sync[t].pc = "idle" /\ Serving
    /\ sync' = [sync EXCEPT ![t] = [pc |-> "push", want |-> holding]]
    /\ UNCHANGED << dm, holding, wantBlocked, wantFull, dirty, pump, pumpWant, settled, conn, helperVars, kernel, faults >>

\* Push records the desired state ...
Push(t) ==
    /\ sync[t].pc = "push"
    /\ wantBlocked' = sync[t].want
    /\ sync' = [sync EXCEPT ![t] = [pc |-> "nudge", want |-> FALSE]]
    /\ UNCHANGED << dm, holding, wantFull, dirty, pump, pumpWant,
                    settled, conn, helperVars, kernel, faults >>

\* Mutant: a pump that is busy is not woken again.
Nudge_OnlyIdlePump(t) ==
    /\ sync[t].pc = "nudge"
    /\ dirty' = (dirty \/ pump = "idle")
    /\ sync' = [sync EXCEPT ![t] = NoSync]
    /\ UNCHANGED << dm, holding, wantBlocked, wantFull, pump, pumpWant, settled, conn, helperVars, kernel, faults >>

\* ... and wakes the pump through the one-slot channel.
Nudge(t) ==
    /\ sync[t].pc = "nudge"
    /\ dirty' = TRUE
    /\ sync' = [sync EXCEPT ![t] = NoSync]
    /\ UNCHANGED << dm, holding, wantBlocked, wantFull, pump, pumpWant, settled, conn, helperVars, kernel, faults >>

\* The repush timer.
Repush ==
    /\ Serving /\ sync["loop"].pc = "idle"
    /\ wantFull' = TRUE /\ dirty' = TRUE
    /\ UNCHANGED << dm, holding, sync, wantBlocked, pump, pumpWant,
                    settled, conn, helperVars, kernel, faults >>

-----------------------------------------------------------------------------
(* The daemon: the pump. *)

\* pump takes the token; once ctx is done it may take that branch instead.
PumpWake ==
    /\ dm # "down" /\ pump = "idle" /\ dirty
    /\ dirty' = FALSE /\ pump' = "woken"
    /\ UNCHANGED << dm, holding, sync, wantBlocked, wantFull, pumpWant, settled, conn, helperVars, kernel, faults >>

PumpExit ==
    /\ dm \notin {"down", "up"} /\ pump = "idle"
    /\ pump' = "exited"
    /\ UNCHANGED << dm, holding, sync, wantBlocked, wantFull, dirty, pumpWant, settled, conn, helperVars, kernel, faults >>

\* reconcile's snapshot of the desired state, under h.mu.
ReconcileSnapshot ==
    /\ pump = "woken"
    /\ wantFull' = FALSE
    /\ pumpWant' = wantBlocked
    /\ pump' = IF wantFull THEN "status" ELSE "set"
    /\ UNCHANGED << dm, holding, sync, wantBlocked, dirty, settled, conn,
                    helperVars, kernel, faults >>

ReconcileCall(c) ==
    /\ \/ pump = "status" /\ pump' = "statusWait"
          /\ Send(c, "status", FALSE, "pump")
       \/ pump = "set" /\ pump' = "setWait"
          /\ Send(c, "set", pumpWant, "pump")
    /\ helper = "up"
    /\ UNCHANGED << dm, holding, sync, wantBlocked, wantFull, dirty, pumpWant, settled, helperVars, kernel, faults >>

\* Status's error is ignored; the set is tried either way. Whatever becomes of
\* the set, reconcile is over (the wake half is in module WakeSchedule).
AfterCall == IF pump \in {"status", "statusWait"} THEN "set" ELSE "idle"

\* Nothing is listening: the call fails at once.
ReconcileRefused ==
    /\ pump \in {"status", "set"} /\ helper # "up"
    /\ pump' = AfterCall
    /\ UNCHANGED << dm, holding, sync, wantBlocked, wantFull, dirty, pumpWant,
                    settled, conn, helperVars, kernel, faults >>

ReconcileReturn(c) ==
    /\ pump \in {"statusWait", "setWait"} /\ Answered(c, "pump")
    /\ conn' = [conn EXCEPT ![c] = NoCall]
    /\ pump' = AfterCall
    /\ UNCHANGED << dm, holding, sync, wantBlocked, wantFull, dirty, pumpWant,
                    settled, helperVars, kernel, faults >>

\* HelperTimeout goes by; the request stays behind in the helper.
ReconcileTimeout(c) ==
    /\ pump \in {"statusWait", "setWait"}
    /\ conn[c].st = "sent" /\ conn[c].waiting /\ conn[c].from = "pump"
    /\ Fault("slow_helper")
    /\ conn' = [conn EXCEPT ![c].waiting = FALSE]
    /\ pump' = AfterCall
    /\ UNCHANGED << dm, holding, sync, wantBlocked, wantFull, dirty, pumpWant,
                    settled, helperVars, kernel >>

-----------------------------------------------------------------------------
(* The daemon: start, graceful shutdown, crash. *)

\* launchd or systemd starts the daemon. Unless the helper is slow, whatever an
\* earlier daemon asked of it is over by then. loop ticks at once.
DaemonStart ==
    /\ dm = "down"
    /\ "slow_helper" \in Faults \/ Busy = {}
    /\ dm' = "up" /\ settled' = FALSE
    /\ sync' = [sync EXCEPT !["loop"].pc = "read"]
    /\ UNCHANGED << holding, wantBlocked, wantFull, dirty, pump, pumpWant, conn, helperVars, kernel, faults >>

\* SIGTERM: the loop returns, srv.Close stops new requests, shutdown finishes
\* every hold and waits in Settle.
Shutdown ==
    /\ Serving /\ sync["loop"].pc = "idle"
    /\ dm' = "settle" /\ holding' = FALSE
    /\ UNCHANGED << sync, wantBlocked, wantFull, dirty, pump, pumpWant, settled, conn, helperVars, kernel, faults >>

\* Mutant: Settle does not wait for the pump.
SettleReturn_TooEarly ==
    /\ dm = "settle"
    /\ settled' = TRUE
    /\ wantBlocked' = FALSE
    /\ dm' = "final"
    /\ UNCHANGED << holding, sync, wantFull, dirty, pump, pumpWant,
                    conn, helperVars, kernel, faults >>

\* Settle returns when the pump has stopped, or after two seconds.
SettleReturn ==
    /\ dm = "settle"
    /\ settled' = (pump = "exited")
    /\ wantBlocked' = FALSE     \* SetBlocked(false) remembers first
    /\ dm' = "final"
    /\ UNCHANGED << holding, sync, wantFull, dirty, pump, pumpWant,
                    conn, helperVars, kernel, faults >>

FinalCall(c) ==
    /\ dm = "final" /\ helper = "up"
    /\ Send(c, "set", FALSE, "final")
    /\ dm' = "finalWait"
    /\ UNCHANGED << holding, sync, wantBlocked, wantFull, dirty, pump, pumpWant, settled, helperVars, kernel, faults >>

FinalRefused ==
    /\ dm = "final" /\ helper # "up"
    /\ dm' = "wait" /\ settled' = FALSE
    /\ UNCHANGED << holding, sync, wantBlocked, wantFull, dirty, pump, pumpWant, conn, helperVars, kernel, faults >>

FinalReturn(c) ==
    /\ dm = "finalWait" /\ Answered(c, "final")
    /\ settled' = (settled /\ conn[c].ok)
    /\ conn' = [conn EXCEPT ![c] = NoCall]
    /\ dm' = "wait"
    /\ UNCHANGED << holding, sync, wantBlocked, wantFull, dirty, pump, pumpWant, helperVars, kernel, faults >>

FinalTimeout(c) ==
    /\ dm = "finalWait"
    /\ conn[c].st = "sent" /\ conn[c].waiting /\ conn[c].from = "final"
    /\ Fault("slow_helper")
    /\ conn' = [conn EXCEPT ![c].waiting = FALSE]
    /\ dm' = "wait" /\ settled' = FALSE
    /\ UNCHANGED << holding, sync, wantBlocked, wantFull, dirty, pump, pumpWant, helperVars, kernel >>

\* A dead daemon keeps nothing.
Forget ==
    /\ dm' = "down" /\ holding' = FALSE
    /\ sync' = [t \in Thread |-> NoSync]
    /\ wantBlocked' = FALSE /\ wantFull' = FALSE /\ dirty' = FALSE
    /\ pump' = "idle" /\ pumpWant' = FALSE

\* wg.Wait: the process exits once the pump and the handlers have.
DaemonExit ==
    /\ dm = "wait" /\ pump = "exited" /\ sync["ipc"].pc = "idle"
    /\ Forget
    /\ UNCHANGED << settled, conn, helperVars, kernel, faults >>

DaemonCrash ==
    /\ dm # "down"
    /\ Fault("daemon_crash")
    /\ Forget /\ settled' = FALSE
    /\ Abandon
    /\ UNCHANGED << helperVars, kernel >>

-----------------------------------------------------------------------------
(* The helper. *)

\* Mutant: the record follows the request, whether or not pmset did it.
SetSleepBlocked_RecordsRequest(b, ok) ==
    \/ ok /\ kernel' = b /\ blocked' = b /\ UNCHANGED faults
    \/ ~ok /\ Fault("pmset_fail") /\ UNCHANGED kernel /\ blocked' = b

\* ops.setBlocked(b): pmset does it, fails without doing it, or does it and is
\* then killed by its timeout. Only a success is recorded.
SetSleepBlocked(b, ok) ==
    \/ ok /\ kernel' = b /\ blocked' = b /\ UNCHANGED faults
    \/ ~ok /\ Fault("pmset_fail") /\ UNCHANGED << kernel, blocked >>
    \/ ~ok /\ Fault("pmset_partial") /\ kernel' = b /\ UNCHANGED blocked

\* Mutant: a request that agrees with the record does nothing.
HandleSet_ShortCircuit(c) ==
    /\ helper # "down"
    /\ conn[c].st = "sent" /\ conn[c].op = "set"
    /\ quiet' = FALSE
    /\ \/ /\ blocked = conn[c].val
          /\ Reply(c, TRUE) /\ UNCHANGED << blocked, kernel, faults >>
       \/ /\ blocked # conn[c].val
          /\ \E ok \in BOOLEAN : SetSleepBlocked(conn[c].val, ok) /\ Reply(c, ok)
    /\ UNCHANGED << daemonVars, helper, deadman >>

\* Handle(SetSleepBlocked): refreshes lastContact, then SetBlocked, which keeps
\* s.mu across pmset. Not short-circuited when nothing seems to change.
HandleSet(c) ==
    /\ helper # "down"
    /\ conn[c].st = "sent" /\ conn[c].op = "set"
    /\ quiet' = FALSE
    /\ \E ok \in BOOLEAN : SetSleepBlocked(conn[c].val, ok) /\ Reply(c, ok)
    /\ UNCHANGED << daemonVars, helper, deadman >>

\* Handle(Status): refreshes lastContact and reads the kernel without s.mu ...
HandleStatusRead(c) ==
    /\ helper # "down"
    /\ conn[c].st = "sent" /\ conn[c].op = "status"
    /\ quiet' = FALSE
    /\ conn' = [conn EXCEPT ![c].st = "read", ![c].val = kernel]
    /\ UNCHANGED << daemonVars, helper, blocked, deadman, kernel, faults >>

\* ... then takes s.mu and makes the record follow what it read.
HandleStatusReply(c) ==
    /\ conn[c].st = "read"
    /\ blocked' = conn[c].val
    /\ Reply(c, TRUE)
    /\ UNCHANGED << daemonVars, helper, quiet, deadman, kernel, faults >>

\* deadManTimeout without contact, because there is no daemon ...
SilenceAfterDaemon ==
    /\ ~quiet /\ helper # "down"
    /\ dm = "down" /\ Busy = {}
    /\ quiet' = TRUE
    /\ UNCHANGED << daemonVars, conn, helper, blocked, deadman, kernel, faults >>

\* ... or because it stalled: one that is up pushes every two seconds.
DaemonStall ==
    /\ ~quiet /\ helper # "down"
    /\ dm # "down" /\ Fault("stall")
    /\ quiet' = TRUE
    /\ UNCHANGED << daemonVars, conn, helper, blocked, deadman, kernel >>

\* Mutant: the test of deadManTimeout is the wrong way round.
CheckDeadMan_Swapped ==
    /\ helper = "up" /\ deadman = "idle"
    /\ blocked /\ ~quiet
    /\ deadman' = "fire"
    /\ UNCHANGED << daemonVars, conn, helper, blocked, quiet, kernel, faults >>

\* checkDeadMan decides under s.mu ...
CheckDeadMan ==
    /\ helper = "up" /\ deadman = "idle"
    /\ blocked /\ quiet
    /\ deadman' = "fire"
    /\ UNCHANGED << daemonVars, conn, helper, blocked, quiet, kernel, faults >>

\* ... and acts after releasing it.
DeadManRelease ==
    /\ helper # "down" /\ deadman = "fire"
    /\ \E ok \in BOOLEAN : SetSleepBlocked(FALSE, ok)
    /\ deadman' = "idle"
    /\ UNCHANGED << daemonVars, conn, helper, quiet >>

\* Recover, before the helper listens: read the setting, clear it if set.
HelperStart ==
    /\ helper = "down"
    /\ helper' = "up" /\ quiet' = FALSE /\ deadman' = "idle"
    /\ \/ kernel' = FALSE /\ blocked' = FALSE /\ UNCHANGED faults
       \/ Fault("recover_fail") /\ kernel' = kernel /\ blocked' = FALSE
    /\ UNCHANGED << daemonVars, conn >>

\* SIGTERM: Serve stops accepting ...
HelperTerm ==
    /\ helper = "up" /\ Fault("helper_term")
    /\ helper' = "stopping"
    /\ UNCHANGED << daemonVars, conn, blocked, quiet, deadman, kernel >>

\* ... which refuses a connection not yet accepted, and waits for the others.
HelperRefuse(c) ==
    /\ helper = "stopping" /\ conn[c].st = "sent"
    /\ Reply(c, FALSE)
    /\ UNCHANGED << daemonVars, helperVars, kernel, faults >>

\* Shutdown clears the block it knows of, and the process ends.
HelperShutdown ==
    /\ helper = "stopping"
    /\ \A c \in Conn : conn[c].st \in {"free", "replied"}
    /\ \/ blocked /\ kernel' = FALSE /\ UNCHANGED faults
       \/ blocked /\ Fault("pmset_fail") /\ UNCHANGED kernel
       \/ ~blocked /\ UNCHANGED << kernel, faults >>
    /\ helper' = "down" /\ blocked' = FALSE /\ quiet' = FALSE
    /\ deadman' = "idle"
    /\ UNCHANGED << daemonVars, conn >>

HelperCrash ==
    /\ helper # "down"
    /\ Fault("helper_crash")
    /\ helper' = "down" /\ blocked' = FALSE /\ quiet' = FALSE
    /\ deadman' = "idle"
    /\ Sever
    /\ UNCHANGED << daemonVars, kernel >>

KernelReset ==
    /\ kernel /\ Fault("kernel_reset")
    /\ kernel' = FALSE
    /\ UNCHANGED << daemonVars, conn, helperVars >>

-----------------------------------------------------------------------------
Daemon ==
    \/ IpcBegin \/ Repush
    \/ \E t \in Thread : ChangeHolds(t) \/ SyncRead(t) \/ Push(t) \/ Nudge(t)
    \/ PumpWake \/ PumpExit \/ ReconcileSnapshot \/ ReconcileRefused
    \/ \E c \in Conn : ReconcileCall(c) \/ ReconcileReturn(c) \/ ReconcileTimeout(c)
    \/ DaemonStart \/ Shutdown \/ SettleReturn \/ FinalRefused
    \/ \E c \in Conn : FinalCall(c) \/ FinalReturn(c) \/ FinalTimeout(c)
    \/ DaemonExit \/ DaemonCrash

Helper ==
    \/ \E c \in Conn : HandleSet(c) \/ HandleStatusRead(c) \/ HandleStatusReply(c)
                       \/ HelperRefuse(c)
    \/ SilenceAfterDaemon \/ DaemonStall \/ CheckDeadMan \/ DeadManRelease
    \/ HelperStart \/ HelperTerm \/ HelperShutdown \/ HelperCrash
    \/ KernelReset

Next == Daemon \/ Helper

\* What the schedulers guarantee: goroutines that can run do, tickers tick, a
\* call that was answered returns, and the helper's unit (KeepAlive) brings it
\* back. Nobody has to start the daemon, ask for a hold or inject a fault.
Fairness ==
    /\ \A t \in Thread : /\ WF_vars(SyncRead(t)) /\ WF_vars(Push(t))
                         /\ WF_vars(Nudge(t))
    /\ WF_vars(ChangeHolds("ipc"))
    /\ WF_vars(PumpWake) /\ WF_vars(PumpExit) /\ WF_vars(ReconcileSnapshot)
    /\ WF_vars(ReconcileRefused)
    /\ WF_vars(\E c \in Conn : ReconcileCall(c))
    /\ WF_vars(\E c \in Conn : ReconcileReturn(c))
    /\ WF_vars(SettleReturn) /\ WF_vars(FinalRefused)
    /\ WF_vars(\E c \in Conn : FinalCall(c))
    /\ WF_vars(\E c \in Conn : FinalReturn(c))
    /\ WF_vars(DaemonExit)
    /\ \A c \in Conn : /\ WF_vars(HandleSet(c)) /\ WF_vars(HandleStatusRead(c))
                       /\ WF_vars(HandleStatusReply(c))
    /\ WF_vars(SilenceAfterDaemon) /\ WF_vars(CheckDeadMan)
    /\ WF_vars(DeadManRelease) /\ WF_vars(HelperStart) /\ WF_vars(HelperShutdown)

Spec == Init /\ [][Next]_vars /\ Fairness

-----------------------------------------------------------------------------
(* Safety. *)

\* checkDeadMan acts only on the helper's own record, so a block the record does
\* not show is one the dead-man switch can never clear: while the helper runs,
\* a set SleepDisabled is always on record.
DeadManSeesBlock == helper # "down" => (kernel => blocked)

\* The pump's one-slot channel loses no update: with nothing left to wake it, the
\* last state it took to the helper is the state last pushed, whoever pushed it.
NoLostPush ==
    dm = "up" /\ pump = "idle" /\ ~dirty
    /\ (\A t \in Thread : sync[t].pc # "nudge") => pumpWant = wantBlocked

\* Settle exists so that the final SetBlocked(false) is the last thing the helper
\* hears: after a stop in which the pump stopped in time and that call worked, the
\* machine can sleep until another daemon starts.
CleanStopFreesSleep == dm = "down" /\ settled => ~kernel

\* The faults the helper's record survives: pmset either works or changes nothing,
\* and no request outlives the daemon's patience with it.
RecordSurvives == Faults \cap {"slow_helper", "pmset_partial", "recover_fail"} = {}

\* The inductive invariant behind the three. A request from the pump is the only
\* one that can set the block, so a status reply that read FALSE is still right
\* when it reaches the record.
BusyFrom(f) == {c \in Busy : conn[c].from = f}

CallsInv ==
    /\ \A c, d \in Busy : conn[c].from = conn[d].from => c = d
    /\ \A c \in BusyFrom("final") : conn[c].op = "set" /\ ~conn[c].val
    /\ \A c \in Conn : conn[c].st = "read" => conn[c].op = "status"
    /\ \A c \in Conn : conn[c].st = "free" => ~conn[c].waiting
    /\ dm # "down" /\ pump \notin {"statusWait", "setWait"} => BusyFrom("pump") = {}
    /\ dm \notin {"down", "finalWait"} => BusyFrom("final") = {}

ReadInv == \A c \in Conn : conn[c].st = "read" /\ ~conn[c].val => ~kernel

PushInv ==
    /\ dm = "up" => \/ pumpWant = wantBlocked \/ dirty \/ pump = "woken"
                    \/ \E t \in Thread : sync[t].pc = "nudge"
    /\ dm = "down" => /\ ~pumpWant /\ ~wantBlocked /\ pump = "idle"
                      /\ \A t \in Thread : sync[t].pc = "idle"
    /\ dm = "up" => pump # "exited"

StopInv ==
    /\ settled => dm \in {"final", "finalWait", "wait", "down"}
    /\ settled /\ dm # "down" => pump = "exited"
    /\ settled /\ dm = "finalWait" =>
          \A c \in BusyFrom("final") : conn[c].st = "replied" /\ conn[c].ok => ~kernel
    /\ settled /\ dm \in {"wait", "down"} => Busy = {} /\ ~kernel

IInv == TypeOK /\ CallsInv /\ ReadInv /\ PushInv /\ StopInv /\ DeadManSeesBlock

-----------------------------------------------------------------------------
(* What the block promises. *)

\* A request to raise the setting is on its way: in a thread's hands, in what the
\* link wants, in the pump's snapshot, or with the helper, whoever still waits.
Asked ==
    \/ wantBlocked
    \/ \E t \in Thread : sync[t].pc = "push" /\ sync[t].want
    \/ pump \in {"status", "statusWait", "set"} /\ pumpWant
    \/ \E c \in Conn : conn[c].st = "sent" /\ conn[c].op = "set" /\ conn[c].val

Abstract == INSTANCE Awake WITH needed <- holding, asked <- Asked, stays <- kernel

\* The setting is raised only by a request that began while something was held:
\* no stale snapshot, late call, restart or shutdown starts one of its own.
ImplementsAwake == Abstract!Spec

-----------------------------------------------------------------------------
(* Liveness. *)

\* Once nothing is held - whoever was holding has finished, exited or crashed -
\* the machine can eventually sleep, and stays able to: the five layers that keep
\* disablesleep from being stranded.
ReleasedForGood == <>[]~holding => <>[]~kernel

\* Whatever happened before, a daemon that stays up with nothing to hold gets the
\* block cleared, by faults the helper's record does not survive as well.
RepairedForGood == <>[](dm = "up" /\ ~holding) => <>[]~kernel

\* A hold kept by a running daemon ends up in the kernel in spite of failed pmset
\* calls, helper restarts, kernel resets and stale pushes, and stays there.
HeldForGood == <>[](dm = "up" /\ holding) => <>[]kernel

=============================================================================
