-------------------------- MODULE SleepBlockProofs --------------------------
(***************************************************************************)
(* TLAPS proofs about SleepBlock, for every number of connections, every   *)
(* budget of faults and, where the statement says so, every kind of fault. *)
(***************************************************************************)
EXTENDS SleepBlock, TLAPS

\* What each kind of step leaves alone: the helper's steps never touch the
\* daemon, and the daemon's never touch the helper, except that a fault counts.
LEMMA HelperFrame == Helper => UNCHANGED daemonVars
  BY DEF Helper, HandleSet, HandleStatusRead, HandleStatusReply, HelperRefuse,
     SilenceAfterDaemon, DaemonStall, CheckDeadMan, DeadManRelease,
     HelperStart, HelperTerm, HelperShutdown, HelperCrash, KernelReset

LEMMA DaemonFrame ==
  Daemon => /\ UNCHANGED << helperVars, kernel >>
            /\ \/ faults' = faults
               \/ faults < MaxFaults /\ faults' = faults + 1
  BY DEF Daemon, Fault, IpcBegin, Repush, ChangeHolds, SyncRead, Push,
     Nudge, PumpWake, PumpExit, ReconcileSnapshot, ReconcileRefused,
     ReconcileCall, ReconcileReturn, ReconcileTimeout, DaemonStart, Shutdown,
     SettleReturn, FinalRefused, FinalCall, FinalReturn, FinalTimeout,
     DaemonExit, DaemonCrash

\* A call record stays one under the updates the wire makes to it.
LEMMA CallUpdates ==
  /\ NoCall \in Call
  /\ \A x \in Call : \A b \in BOOLEAN :
        /\ [x EXCEPT !.waiting = FALSE] \in Call
        /\ [x EXCEPT !.st = "replied", !.ok = b] \in Call
        /\ [x EXCEPT !.st = "read", !.val = b] \in Call
  BY DEF Call, NoCall

\* Every step keeps the types of the daemon's variables.
LEMMA DaemonTypeStep == TypeOK /\ [Next]_vars => DaemonTypeOK'
<1> SUFFICES ASSUME DaemonTypeOK, WireTypeOK, [Next]_vars PROVE DaemonTypeOK'
  BY DEF TypeOK
<1> USE DEF DaemonTypeOK
<1>1. CASE IpcBegin
  BY <1>1 DEF IpcBegin, Thread
<1>2. CASE Repush
  BY <1>2 DEF Repush
<1>3. ASSUME NEW t \in Thread,
             ChangeHolds(t) \/ SyncRead(t) \/ Push(t) \/ Nudge(t)
      PROVE  DaemonTypeOK'
  <2>1. CASE ChangeHolds(t)
    BY <2>1 DEF ChangeHolds
  <2>2. CASE SyncRead(t)
    BY <2>2 DEF SyncRead
  <2>3. CASE Push(t)
    BY <2>3 DEF Push
  <2>4. CASE Nudge(t)
    BY <2>4 DEF Nudge, NoSync
  <2>5. QED
    BY <1>3, <2>1, <2>2, <2>3, <2>4
<1>4. CASE PumpWake \/ PumpExit \/ ReconcileSnapshot \/ ReconcileRefused
  BY <1>4 DEF PumpWake, PumpExit, ReconcileSnapshot, ReconcileRefused, AfterCall
<1>5. ASSUME NEW c \in Conn,
             ReconcileCall(c) \/ ReconcileReturn(c) \/ ReconcileTimeout(c)
      PROVE  DaemonTypeOK'
  BY <1>5 DEF ReconcileCall, ReconcileReturn, ReconcileTimeout, AfterCall
<1>6. CASE DaemonStart
  BY <1>6 DEF DaemonStart, Thread
<1>7. CASE Shutdown \/ SettleReturn \/ FinalRefused
  BY <1>7 DEF Shutdown, SettleReturn, FinalRefused
<1>8. ASSUME NEW c \in Conn, FinalCall(c) \/ FinalTimeout(c) PROVE DaemonTypeOK'
  BY <1>8 DEF FinalCall, FinalTimeout
<1>9. ASSUME NEW c \in Conn, FinalReturn(c) PROVE DaemonTypeOK'
  <2>1. conn[c].ok \in BOOLEAN
    BY DEF WireTypeOK, Call
  <2>2. QED
    BY <1>9, <2>1 DEF FinalReturn
<1>10. CASE DaemonExit \/ DaemonCrash
  <2>1. NoSync \in [pc : {"idle", "op", "read", "push", "nudge"}, want : BOOLEAN]
    BY DEF NoSync
  <2>2. Forget
    BY <1>10 DEF DaemonExit, DaemonCrash
  <2>3. settled' \in BOOLEAN
    BY <1>10 DEF DaemonExit, DaemonCrash
  <2>4. sync' \in [Thread -> [pc : {"idle", "op", "read", "push", "nudge"},
                             want : BOOLEAN]]
    BY <2>1, <2>2 DEF Forget
  <2>5. QED
    BY <2>2, <2>3, <2>4 DEF Forget
<1>11. CASE Helper
  BY <1>11, HelperFrame DEF daemonVars
<1>12. CASE UNCHANGED vars
  BY <1>12 DEF vars, daemonVars
<1>13. QED
  BY <1>1, <1>2, <1>3, <1>4, <1>5, <1>6, <1>7, <1>8, <1>9, <1>10, <1>11,
     <1>12 DEF Next, Daemon

\* Every step keeps the calls in flight well formed.
LEMMA WireTypeStep == TypeOK /\ [Next]_vars => WireTypeOK'
<1> SUFFICES ASSUME DaemonTypeOK, WireTypeOK, HelperTypeOK, [Next]_vars
             PROVE  WireTypeOK'
  BY DEF TypeOK
<1> USE CallUpdates DEF WireTypeOK
<1>1. ASSUME NEW c \in Conn, NEW b \in BOOLEAN, Reply(c, b) PROVE WireTypeOK'
  <2>1. conn[c] \in Call
    OBVIOUS
  <2>2. (IF conn[c].waiting THEN [conn[c] EXCEPT !.st = "replied", !.ok = b]
         ELSE NoCall) \in Call
    BY <2>1
  <2>3. QED
    BY <1>1, <2>2 DEF Reply
<1>2. ASSUME NEW c \in Conn, ReconcileCall(c) PROVE WireTypeOK'
  <2>1. \A b \in BOOLEAN, op \in {"set", "status"} :
           [st |-> "sent", op |-> op, val |-> b, from |-> "pump",
            waiting |-> TRUE, ok |-> FALSE] \in Call
    BY DEF Call
  <2>2. pumpWant \in BOOLEAN
    BY DEF DaemonTypeOK
  <2>3. QED
    BY <1>2, <2>1, <2>2 DEF ReconcileCall, Send
<1>3. ASSUME NEW c \in Conn, FinalCall(c) PROVE WireTypeOK'
  BY <1>3 DEF FinalCall, Send, Call
<1>4. ASSUME NEW c \in Conn,
             ReconcileReturn(c) \/ ReconcileTimeout(c) \/ FinalReturn(c)
               \/ FinalTimeout(c)
      PROVE  WireTypeOK'
  BY <1>4 DEF ReconcileReturn, ReconcileTimeout, FinalReturn, FinalTimeout
<1>5. CASE DaemonCrash
  BY <1>5 DEF DaemonCrash, Abandon
<1>6. ASSUME NEW c \in Conn, HandleSet(c) PROVE WireTypeOK'
  BY <1>1, <1>6 DEF HandleSet
<1>7. ASSUME NEW c \in Conn, HandleStatusReply(c) \/ HelperRefuse(c)
      PROVE  WireTypeOK'
  BY <1>1, <1>7 DEF HandleStatusReply, HelperRefuse
<1>8. ASSUME NEW c \in Conn, HandleStatusRead(c) PROVE WireTypeOK'
  BY <1>8 DEF HandleStatusRead, HelperTypeOK
<1>9. CASE HelperCrash
  BY <1>9 DEF HelperCrash, Sever
<1>10. CASE UNCHANGED conn
  BY <1>10
<1>11. QED
  BY <1>2, <1>3, <1>4, <1>5, <1>6, <1>7, <1>8, <1>9, <1>10
  DEF Next, Daemon, Helper, IpcBegin, Repush, ChangeHolds, SyncRead, Push,
      Nudge, PumpWake, PumpExit, ReconcileSnapshot, ReconcileRefused,
      DaemonStart, Shutdown, SettleReturn, FinalRefused, DaemonExit,
      SilenceAfterDaemon, DaemonStall, CheckDeadMan, DeadManRelease,
      HelperStart, HelperTerm, HelperShutdown, KernelReset, vars

\* Every step keeps the types of the helper's variables.
LEMMA HelperTypeStep == TypeOK /\ [Next]_vars => HelperTypeOK'
<1> SUFFICES ASSUME HelperTypeOK, WireTypeOK, [Next]_vars PROVE HelperTypeOK'
  BY DEF TypeOK
<1> USE DEF HelperTypeOK
<1>1. CASE Daemon
  BY <1>1, DaemonFrame DEF helperVars
<1>2. \A b, ok \in BOOLEAN :
        SetSleepBlocked(b, ok) => kernel' \in BOOLEAN /\ blocked' \in BOOLEAN
  BY DEF SetSleepBlocked
<1>3. ASSUME NEW c \in Conn PROVE conn[c].val \in BOOLEAN
  BY DEF WireTypeOK, Call
<1>4. ASSUME NEW c \in Conn, HandleSet(c) PROVE HelperTypeOK'
  BY <1>2, <1>3, <1>4 DEF HandleSet
<1>5. ASSUME NEW c \in Conn,
             HandleStatusRead(c) \/ HandleStatusReply(c) \/ HelperRefuse(c)
      PROVE  HelperTypeOK'
  BY <1>3, <1>5 DEF HandleStatusRead, HandleStatusReply, HelperRefuse, helperVars
<1>6. CASE SilenceAfterDaemon \/ DaemonStall \/ CheckDeadMan
  BY <1>6 DEF SilenceAfterDaemon, DaemonStall, CheckDeadMan
<1>7. CASE DeadManRelease
  BY <1>2, <1>7 DEF DeadManRelease
<1>8. CASE HelperStart \/ HelperTerm \/ HelperShutdown
  BY <1>8 DEF HelperStart, HelperTerm, HelperShutdown
<1>9. CASE HelperCrash \/ KernelReset
  BY <1>9 DEF HelperCrash, KernelReset, helperVars
<1>10. CASE UNCHANGED vars
  BY <1>10 DEF vars, helperVars
<1>11. QED
  BY <1>1, <1>4, <1>5, <1>6, <1>7, <1>8, <1>9, <1>10 DEF Next, Helper

\* No step exceeds the fault budget.
LEMMA FaultsTypeStep == TypeOK /\ [Next]_vars => FaultsTypeOK'
<1> SUFFICES ASSUME FaultsTypeOK, [Next]_vars PROVE FaultsTypeOK'
  BY DEF TypeOK
<1>1. Helper => \/ faults' = faults
                \/ faults < MaxFaults /\ faults' = faults + 1
  BY DEF Helper, Fault, HandleSet, SetSleepBlocked, HandleStatusRead,
     HandleStatusReply, HelperRefuse, SilenceAfterDaemon, DaemonStall,
     CheckDeadMan, DeadManRelease, HelperStart, HelperTerm, HelperShutdown,
     HelperCrash, KernelReset
<1>2. QED
  BY <1>1, DaemonFrame, MaxFaultsAssumption DEF Next, FaultsTypeOK, vars

\* The variables always have their types, whatever the faults.
THEOREM TypeCorrect == Spec => []TypeOK
<1>1. Init => TypeOK
  <2>1. Init => DaemonTypeOK
    <3>1. NoSync \in [pc : {"idle", "op", "read", "push", "nudge"}, want : BOOLEAN]
      BY DEF NoSync
    <3>2. Init => sync \in [Thread -> [pc : {"idle", "op", "read", "push", "nudge"},
                                      want : BOOLEAN]]
      BY <3>1 DEF Init
    <3>3. QED
      BY <3>2 DEF Init, DaemonTypeOK
  <2>2. Init => WireTypeOK
    BY CallUpdates DEF Init, WireTypeOK
  <2>3. Init => HelperTypeOK
    BY DEF Init, HelperTypeOK
  <2>4. Init => FaultsTypeOK
    BY MaxFaultsAssumption DEF Init, FaultsTypeOK
  <2>5. QED
    BY <2>1, <2>2, <2>3, <2>4 DEF TypeOK
<1>2. TypeOK /\ [Next]_vars => TypeOK'
  BY DaemonTypeStep, WireTypeStep, HelperTypeStep, FaultsTypeStep DEF TypeOK
<1>3. QED
  BY <1>1, <1>2, PTL DEF Spec

-----------------------------------------------------------------------------
(* The pump loses no push. *)

\* Every step keeps PushInv, whatever the faults.
LEMMA PushStep == TypeOK /\ PushInv /\ [Next]_vars => PushInv'
<1> SUFFICES ASSUME DaemonTypeOK, PushInv, [Next]_vars PROVE PushInv'
  BY DEF TypeOK
<1> USE DEF PushInv
<1>1. CASE Helper
  BY <1>1, HelperFrame DEF daemonVars
<1>2. CASE UNCHANGED vars
  BY <1>2 DEF vars, daemonVars
<1>3. CASE IpcBegin
  <2>1. \A u \in Thread : sync[u].pc = "nudge" => sync'[u].pc = "nudge"
    BY <1>3 DEF IpcBegin, DaemonTypeOK, Thread
  <2>2. dm = "up" /\ UNCHANGED << dm, wantBlocked, dirty, pump, pumpWant >>
    BY <1>3 DEF IpcBegin, Serving
  <2>3. QED
    BY <2>1, <2>2
<1>4. CASE Repush
  BY <1>4 DEF Repush
<1>5. ASSUME NEW t \in Thread,
             ChangeHolds(t) \/ SyncRead(t) \/ Push(t) \/ Nudge(t)
      PROVE  PushInv'
  <2>1. dm # "down" /\ UNCHANGED dm
    BY <1>5 DEF ChangeHolds, SyncRead, Push, Nudge, Serving
  <2>2. CASE ChangeHolds(t) \/ SyncRead(t)
    <3>1. \A u \in Thread : sync[u].pc = "nudge" => sync'[u].pc = "nudge"
      BY <2>2 DEF ChangeHolds, SyncRead, DaemonTypeOK, Thread
    <3>2. UNCHANGED << wantBlocked, dirty, pump, pumpWant >>
      BY <2>2 DEF ChangeHolds, SyncRead
    <3>3. QED
      BY <2>1, <3>1, <3>2
  <2>3. CASE Push(t)
    <3>1. sync'[t].pc = "nudge"
      BY <2>3 DEF Push, DaemonTypeOK
    <3>2. UNCHANGED pump
      BY <2>3 DEF Push
    <3>3. QED
      BY <2>1, <3>1, <3>2
  <2>4. CASE Nudge(t)
    BY <2>1, <2>4 DEF Nudge
  <2>5. QED
    BY <1>5, <2>2, <2>3, <2>4
<1>6. CASE PumpWake \/ PumpExit \/ ReconcileSnapshot \/ ReconcileRefused
  BY <1>6 DEF PumpWake, PumpExit, ReconcileSnapshot, ReconcileRefused, AfterCall
<1>7. ASSUME NEW c \in Conn,
             ReconcileCall(c) \/ ReconcileReturn(c) \/ ReconcileTimeout(c)
      PROVE  PushInv'
  BY <1>7 DEF ReconcileCall, ReconcileReturn, ReconcileTimeout, AfterCall
<1>8. CASE DaemonStart
  BY <1>8 DEF DaemonStart, DaemonTypeOK
<1>9. CASE Shutdown \/ SettleReturn \/ FinalRefused
  BY <1>9 DEF Shutdown, SettleReturn, FinalRefused
<1>10. ASSUME NEW c \in Conn, FinalCall(c) \/ FinalReturn(c) \/ FinalTimeout(c)
       PROVE  PushInv'
  BY <1>10 DEF FinalCall, FinalReturn, FinalTimeout
<1>11. CASE DaemonExit \/ DaemonCrash
  <2>1. Forget
    BY <1>11 DEF DaemonExit, DaemonCrash
  <2>2. \A u \in Thread : sync'[u].pc = "idle"
    BY <2>1 DEF Forget, NoSync
  <2>3. dm' = "down" /\ ~pumpWant' /\ ~wantBlocked' /\ pump' = "idle"
    BY <2>1 DEF Forget
  <2>4. QED
    BY <2>2, <2>3
<1>12. QED
  BY <1>1, <1>2, <1>3, <1>4, <1>5, <1>6, <1>7, <1>8, <1>9, <1>10, <1>11
  DEF Next, Daemon

\* With nothing left to wake the pump, what it last took to the helper is what was
\* last pushed: for every interleaving of the loop, the handler and the pump, and
\* under every fault.
THEOREM PushesReachThePump == Spec => []NoLostPush
<1>1. Init => PushInv
  <2>1. Init => \A t \in Thread : sync[t].pc = "idle"
    BY DEF Init, NoSync
  <2>2. Init => dm = "down" /\ ~pumpWant /\ ~wantBlocked /\ pump = "idle"
    BY DEF Init
  <2>3. QED
    BY <2>1, <2>2 DEF PushInv
<1>2. PushInv => NoLostPush
  BY DEF PushInv, NoLostPush
<1>3. QED
  BY <1>1, <1>2, PushStep, TypeCorrect, PTL DEF Spec

-----------------------------------------------------------------------------
(* Calls in flight: as long as no request outlives its caller's patience,  *)
(* the pump and the shutdown path have at most one call each.              *)

NoSlowHelper == "slow_helper" \notin Faults

\* A step that starts no call: each one left is as it was, but for its answer and
\* for what a status read.
CallsKept ==
    \A d \in Conn :
        \/ conn'[d].st = "free" /\ ~conn'[d].waiting
        \/ /\ conn'[d].st # "free" /\ conn[d].st # "free"
           /\ conn'[d].from = conn[d].from /\ conn'[d].op = conn[d].op
           /\ conn[d].op = "set" => conn'[d].val = conn[d].val
           /\ conn'[d].st = "read" => conn[d].op = "status"

\* What CallsInv says of the calls alone.
CallsOK ==
    /\ \A c, d \in Busy : conn[c].from = conn[d].from => c = d
    /\ \A c \in BusyFrom("final") : conn[c].op = "set" /\ ~conn[c].val
    /\ \A c \in Conn : conn[c].st = "read" => conn[c].op = "status"
    /\ \A c \in Conn : conn[c].st = "free" => ~conn[c].waiting

LEMMA KeptCalls ==
    ASSUME CallsOK, CallsKept
    PROVE  CallsOK' /\ BusyFrom("pump")' \subseteq BusyFrom("pump")
                    /\ BusyFrom("final")' \subseteq BusyFrom("final")
  BY DEF CallsOK, CallsKept, Busy, BusyFrom

\* An answer starts no call.
LEMMA ReplyKeeps ==
    ASSUME WireTypeOK, CallsOK, NEW c \in Conn, NEW ok, Reply(c, ok),
           conn[c].st # "free"
    PROVE  CallsKept
  BY DEF WireTypeOK, CallsOK, Reply, CallsKept, Call, NoCall

\* Nor does anything the helper does.
LEMMA HelperKeeps == WireTypeOK /\ CallsOK /\ Helper => CallsKept
<1> SUFFICES ASSUME WireTypeOK, CallsOK, Helper PROVE CallsKept
  OBVIOUS
<1>0. UNCHANGED conn => CallsKept
  BY DEF CallsKept, CallsOK
<1>1. ASSUME NEW c \in Conn, HandleSet(c) \/ HandleStatusReply(c) \/ HelperRefuse(c)
      PROVE  CallsKept
  BY <1>1, ReplyKeeps DEF HandleSet, HandleStatusReply, HelperRefuse
<1>2. ASSUME NEW c \in Conn, HandleStatusRead(c) PROVE CallsKept
  BY <1>2 DEF HandleStatusRead, WireTypeOK, CallsOK, CallsKept, Call
<1>3. CASE HelperCrash
  BY <1>3 DEF HelperCrash, Sever, WireTypeOK, CallsOK, CallsKept, Call, NoCall
<1>4. CASE SilenceAfterDaemon \/ DaemonStall \/ CheckDeadMan \/ DeadManRelease
           \/ HelperStart \/ HelperTerm \/ HelperShutdown \/ KernelReset
  BY <1>0, <1>4 DEF SilenceAfterDaemon, DaemonStall, CheckDeadMan, DeadManRelease,
     HelperStart, HelperTerm, HelperShutdown, KernelReset
<1> QED
  BY <1>1, <1>2, <1>3, <1>4 DEF Helper

\* Every step keeps CallsInv.
LEMMA CallsStep ==
    NoSlowHelper /\ TypeOK /\ PushInv /\ CallsInv /\ [Next]_vars => CallsInv'
<1> SUFFICES ASSUME NoSlowHelper, DaemonTypeOK, WireTypeOK, PushInv, CallsInv, [Next]_vars
             PROVE  CallsInv'
  BY DEF TypeOK
<1>0. CallsOK
  BY DEF CallsInv, CallsOK
<1>1. ASSUME CallsKept,
             dm' # "down" /\ pump' \notin {"statusWait", "setWait"}
                => dm # "down" /\ pump \notin {"statusWait", "setWait"},
             dm' \notin {"down", "finalWait"} => dm \notin {"down", "finalWait"}
      PROVE  CallsInv'
  <2>1. CallsOK' /\ BusyFrom("pump")' \subseteq BusyFrom("pump")
                 /\ BusyFrom("final")' \subseteq BusyFrom("final")
    BY <1>0, <1>1, KeptCalls
  <2>2. dm' # "down" /\ pump' \notin {"statusWait", "setWait"} => BusyFrom("pump")' = {}
    BY <1>1, <2>1 DEF CallsInv
  <2>3. dm' \notin {"down", "finalWait"} => BusyFrom("final")' = {}
    BY <1>1, <2>1 DEF CallsInv
  <2> QED
    BY <2>1, <2>2, <2>3 DEF CallsInv, CallsOK
<1>2. UNCHANGED conn => CallsKept
  BY <1>0 DEF CallsKept, CallsOK
<1>3. CASE Helper
  BY <1>1, <1>3, <1>0, HelperKeeps, HelperFrame DEF daemonVars
<1>4. CASE UNCHANGED vars
  BY <1>1, <1>2, <1>4 DEF vars, daemonVars
<1>5. CASE IpcBegin \/ Repush
  BY <1>1, <1>2, <1>5 DEF IpcBegin, Repush
<1>6. ASSUME NEW t \in Thread,
             ChangeHolds(t) \/ SyncRead(t) \/ Push(t) \/ Nudge(t)
      PROVE  CallsInv'
  BY <1>1, <1>2, <1>6 DEF ChangeHolds, SyncRead, Push, Nudge
<1>7. CASE PumpWake \/ PumpExit \/ ReconcileSnapshot \/ ReconcileRefused
  <2>1. dm' = dm /\ pump \notin {"statusWait", "setWait"} /\ UNCHANGED conn
    BY <1>7 DEF PumpWake, PumpExit, ReconcileSnapshot, ReconcileRefused
  <2> QED
    BY <2>1, <1>1, <1>2
<1>8. ASSUME NEW c \in Conn, ReconcileCall(c) PROVE CallsInv'
  <2>1. BusyFrom("pump") = {} /\ pump' \in {"statusWait", "setWait"} /\ UNCHANGED dm
    BY <1>8 DEF ReconcileCall, PushInv, CallsInv
  <2>2. \A d \in Conn \ {c} : conn'[d] = conn[d]
    BY <1>8 DEF ReconcileCall, Send, WireTypeOK
  <2>3. conn'[c].from = "pump" /\ conn'[c].st = "sent" /\ conn[c].st = "free"
    BY <1>8 DEF ReconcileCall, Send, WireTypeOK
  <2>4. BusyFrom("final")' = BusyFrom("final")
    BY <2>2, <2>3 DEF BusyFrom, Busy
  <2>5. CallsOK'
    BY <1>0, <2>1, <2>2, <2>3 DEF CallsOK, BusyFrom, Busy
  <2> QED
    BY <2>1, <2>4, <2>5 DEF CallsInv, CallsOK
<1>9. ASSUME NEW c \in Conn, FinalCall(c) PROVE CallsInv'
  <2>1. BusyFrom("final") = {} /\ dm' = "finalWait" /\ dm = "final" /\ UNCHANGED pump
    BY <1>9 DEF FinalCall, CallsInv
  <2>2. \A d \in Conn \ {c} : conn'[d] = conn[d]
    BY <1>9 DEF FinalCall, Send, WireTypeOK
  <2>3. conn'[c].from = "final" /\ conn'[c].st = "sent" /\ conn[c].st = "free"
        /\ conn'[c].op = "set" /\ ~conn'[c].val
    BY <1>9 DEF FinalCall, Send, WireTypeOK
  <2>4. BusyFrom("pump")' = BusyFrom("pump")
    BY <2>2, <2>3 DEF BusyFrom, Busy
  <2>5. CallsOK'
    BY <1>0, <2>1, <2>2, <2>3 DEF CallsOK, BusyFrom, Busy
  <2> QED
    BY <2>1, <2>4, <2>5 DEF CallsInv, CallsOK
<1>10. ASSUME NEW c \in Conn, NEW f \in {"pump", "final"}, Answered(c, f),
              conn' = [conn EXCEPT ![c] = NoCall]
       PROVE  CallsKept /\ BusyFrom(f)' = {}
  <2>1. CallsKept
    BY <1>10, <1>0 DEF CallsKept, WireTypeOK, NoCall, CallsOK
  <2>2. \A d \in Conn : conn'[d].st # "free" => d # c /\ conn'[d] = conn[d]
    BY <1>10 DEF WireTypeOK, NoCall
  <2>3. c \in Busy /\ conn[c].from = f
    BY <1>10 DEF Answered, Busy
  <2> QED
    BY <2>1, <2>2, <2>3, <1>0 DEF CallsOK, BusyFrom, Busy
<1>11. ASSUME NEW c \in Conn, ReconcileReturn(c) PROVE CallsInv'
  <2>1. CallsKept /\ BusyFrom("pump")' = {} /\ UNCHANGED dm
    BY <1>10, <1>11 DEF ReconcileReturn
  <2>2. CallsOK' /\ BusyFrom("final")' \subseteq BusyFrom("final")
    BY <2>1, <1>0, KeptCalls
  <2> QED
    BY <2>1, <2>2 DEF CallsInv, CallsOK
<1>12. ASSUME NEW c \in Conn, FinalReturn(c) PROVE CallsInv'
  <2>1. CallsKept /\ BusyFrom("final")' = {} /\ dm # "down" /\ UNCHANGED pump
    BY <1>10, <1>12 DEF FinalReturn
  <2>2. CallsOK' /\ BusyFrom("pump")' \subseteq BusyFrom("pump")
    BY <2>1, <1>0, KeptCalls
  <2> QED
    BY <2>1, <2>2 DEF CallsInv, CallsOK
<1>13. ASSUME NEW c \in Conn, ReconcileTimeout(c) \/ FinalTimeout(c) PROVE CallsInv'
  BY <1>13 DEF ReconcileTimeout, FinalTimeout, Fault, NoSlowHelper
<1>14. CASE DaemonStart
  <2>1. Busy = {} /\ UNCHANGED conn
    BY <1>14 DEF DaemonStart, NoSlowHelper
  <2>2. Busy' = {}
    BY <2>1 DEF Busy
  <2>3. CallsOK'
    BY <2>1, <1>0, <1>2, KeptCalls
  <2> QED
    BY <2>2, <2>3 DEF CallsInv, CallsOK, BusyFrom
<1>15. CASE Shutdown \/ SettleReturn \/ FinalRefused
  BY <1>1, <1>2, <1>15 DEF Shutdown, SettleReturn, FinalRefused, Serving
<1>16. CASE DaemonExit
  BY <1>1, <1>2, <1>16 DEF DaemonExit, Forget
<1>17. CASE DaemonCrash
  <2>1. CallsKept
    BY <1>17, <1>0 DEF DaemonCrash, Abandon, WireTypeOK, CallsOK, CallsKept, Call, NoCall
  <2>2. dm' = "down"
    BY <1>17 DEF DaemonCrash, Forget
  <2> QED
    BY <2>1, <2>2, <1>1
<1> QED
  BY <1>3, <1>4, <1>5, <1>6, <1>7, <1>8, <1>9, <1>11, <1>12, <1>13, <1>14, <1>15,
     <1>16, <1>17 DEF Next, Daemon

-----------------------------------------------------------------------------
(* The kernel: who can set the block, and what a status read knows of it. *)

\* Only a request that asks for it sets the block.
LEMMA KernelRises ==
    [Next]_vars /\ ~kernel /\ kernel' => \E c \in Conn : HandleSet(c) /\ conn[c].val
<1> SUFFICES ASSUME [Next]_vars, ~kernel, kernel'
             PROVE  \E c \in Conn : HandleSet(c) /\ conn[c].val
  OBVIOUS
<1>1. Helper
  BY DaemonFrame DEF Next, vars
<1>2. ASSUME NEW c \in Conn, HandleSet(c) PROVE conn[c].val
  BY <1>2 DEF HandleSet, SetSleepBlocked
<1>3. \A c \in Conn : ~HandleStatusRead(c) /\ ~HandleStatusReply(c) /\ ~HelperRefuse(c)
  BY DEF HandleStatusRead, HandleStatusReply, HelperRefuse
<1>4. ~SilenceAfterDaemon /\ ~DaemonStall /\ ~CheckDeadMan /\ ~DeadManRelease
      /\ ~HelperStart /\ ~HelperTerm /\ ~HelperShutdown /\ ~HelperCrash /\ ~KernelReset
  BY DEF SilenceAfterDaemon, DaemonStall, CheckDeadMan, DeadManRelease, SetSleepBlocked,
     HelperStart, HelperTerm, HelperShutdown, HelperCrash, KernelReset
<1> QED
  BY <1>1, <1>2, <1>3, <1>4 DEF Helper

\* Such a request is the pump's, and the only call the pump has.
LEMMA SetterIsPump ==
    ASSUME WireTypeOK, CallsInv, NEW c \in Conn, HandleSet(c), conn[c].val
    PROVE  c \in BusyFrom("pump") /\ BusyFrom("pump") \subseteq {c}
<1>1. c \in Busy /\ conn[c].from \in {"pump", "final"}
  BY DEF HandleSet, Busy, WireTypeOK, Call
<1>2. conn[c].from = "pump"
  BY <1>1 DEF CallsInv, BusyFrom
<1> QED
  BY <1>1, <1>2 DEF CallsInv, BusyFrom

\* A status that has read the kernel is the pump's call.
LEMMA ReaderIsPump ==
    ASSUME WireTypeOK, CallsInv, NEW c \in Conn, conn[c].st = "read"
    PROVE  c \in BusyFrom("pump")
<1>1. c \in Busy /\ conn[c].from \in {"pump", "final"} /\ conn[c].op = "status"
  BY DEF Busy, WireTypeOK, Call, CallsInv
<1> QED
  BY <1>1 DEF CallsInv, BusyFrom

\* Only a status read makes a call one that has read the kernel.
LEMMA ReadsStay ==
    ASSUME WireTypeOK, [Next]_vars, NEW c \in Conn, ~HandleStatusRead(c), conn'[c].st = "read"
    PROVE  conn[c].st = "read" /\ conn'[c].val = conn[c].val
<1> DEFINE Stays == conn'[c].st = "read" => conn[c].st = "read" /\ conn'[c].val = conn[c].val
<1> SUFFICES Stays
  OBVIOUS
<1> USE DEF WireTypeOK
<1>1. ASSUME NEW d \in Conn, NEW op, NEW val, NEW from, Send(d, op, val, from) PROVE Stays
  BY <1>1 DEF Send
<1>2. ASSUME NEW d \in Conn, NEW ok, Reply(d, ok) PROVE Stays
  BY <1>2 DEF Reply, NoCall, Call
<1>3. ASSUME NEW d \in Conn, ReconcileCall(d) \/ FinalCall(d) PROVE Stays
  BY <1>3, <1>1 DEF ReconcileCall, FinalCall
<1>4. ASSUME NEW d \in Conn,
             ReconcileReturn(d) \/ ReconcileTimeout(d) \/ FinalReturn(d) \/ FinalTimeout(d)
      PROVE  Stays
  BY <1>4 DEF ReconcileReturn, ReconcileTimeout, FinalReturn, FinalTimeout, NoCall, Call
<1>5. CASE DaemonCrash
  BY <1>5 DEF DaemonCrash, Abandon, NoCall, Call
<1>6. ASSUME NEW d \in Conn, HandleSet(d) \/ HandleStatusReply(d) \/ HelperRefuse(d)
      PROVE  Stays
  BY <1>6, <1>2 DEF HandleSet, HandleStatusReply, HelperRefuse
<1>7. ASSUME NEW d \in Conn, HandleStatusRead(d) PROVE Stays
  BY <1>7 DEF HandleStatusRead
<1>8. CASE HelperCrash
  BY <1>8 DEF HelperCrash, Sever, NoCall, Call
<1>9. CASE UNCHANGED conn
  BY <1>9
<1> HIDE DEF Stays
<1> QED
  BY <1>3, <1>4, <1>5, <1>6, <1>7, <1>8, <1>9
  DEF Next, Daemon, Helper, IpcBegin, Repush, ChangeHolds, SyncRead, Push,
      Nudge, PumpWake, PumpExit, ReconcileSnapshot, ReconcileRefused,
      DaemonStart, Shutdown, SettleReturn, FinalRefused, DaemonExit,
      SilenceAfterDaemon, DaemonStall, CheckDeadMan, DeadManRelease,
      HelperStart, HelperTerm, HelperShutdown, KernelReset, vars

\* What a status has read as FALSE stays FALSE until the status is done.
LEMMA ReadStep == WireTypeOK /\ CallsInv /\ ReadInv /\ [Next]_vars => ReadInv'
<1> SUFFICES ASSUME WireTypeOK, CallsInv, ReadInv, [Next]_vars,
                    NEW c \in Conn, conn'[c].st = "read", ~conn'[c].val, kernel'
             PROVE  FALSE
  BY DEF ReadInv
<1>1. CASE HandleStatusRead(c)
  BY <1>1 DEF HandleStatusRead, WireTypeOK
<1>2. CASE ~HandleStatusRead(c)
  <2>1. conn[c].st = "read" /\ ~conn[c].val
    BY <1>2, ReadsStay
  <2>2. ~kernel /\ c \in BusyFrom("pump")
    BY <2>1, ReaderIsPump DEF ReadInv
  <2>3. PICK d \in Conn : HandleSet(d) /\ conn[d].val
    BY <2>2, KernelRises
  <2>4. d = c
    BY <2>2, <2>3, SetterIsPump
  <2> QED
    BY <2>1, <2>3, <2>4 DEF HandleSet
<1> QED
  BY <1>1, <1>2

\* While the helper runs, its record shows every block the kernel has.
LEMMA RecordStep ==
    RecordSurvives /\ ReadInv /\ DeadManSeesBlock /\ [Next]_vars => DeadManSeesBlock'
<1> SUFFICES ASSUME RecordSurvives, ReadInv, DeadManSeesBlock, [Next]_vars
             PROVE  DeadManSeesBlock'
  OBVIOUS
<1> USE DEF DeadManSeesBlock
<1>0. ~Fault("pmset_partial") /\ ~Fault("recover_fail")
  BY DEF RecordSurvives, Fault
<1>1. CASE Daemon
  BY <1>1, DaemonFrame DEF helperVars
<1>2. CASE UNCHANGED vars
  BY <1>2 DEF vars, helperVars
<1>3. ASSUME NEW b, NEW ok \in BOOLEAN, SetSleepBlocked(b, ok), helper # "down" /\ helper' = helper
      PROVE  DeadManSeesBlock'
  <2>1. CASE kernel' = b /\ blocked' = b
    BY <1>3, <2>1
  <2>2. CASE UNCHANGED << kernel, blocked >>
    BY <1>3, <2>2
  <2> QED
    BY <1>3, <1>0, <2>1, <2>2, Zenon DEF SetSleepBlocked
<1>4. ASSUME NEW c \in Conn, HandleSet(c) PROVE DeadManSeesBlock'
  BY <1>4, <1>3 DEF HandleSet
<1>5. ASSUME NEW c \in Conn, HandleStatusRead(c) \/ HelperRefuse(c) PROVE DeadManSeesBlock'
  BY <1>5 DEF HandleStatusRead, HelperRefuse, helperVars
<1>6. ASSUME NEW c \in Conn, HandleStatusReply(c) PROVE DeadManSeesBlock'
  BY <1>6 DEF HandleStatusReply, ReadInv
<1>7. CASE SilenceAfterDaemon \/ DaemonStall \/ CheckDeadMan
  BY <1>7 DEF SilenceAfterDaemon, DaemonStall, CheckDeadMan
<1>8. CASE DeadManRelease
  BY <1>8, <1>3 DEF DeadManRelease
<1>9. CASE HelperStart
  BY <1>9, <1>0 DEF HelperStart
<1>10. CASE HelperTerm \/ HelperShutdown \/ HelperCrash
  BY <1>10 DEF HelperTerm, HelperShutdown, HelperCrash
<1>11. CASE KernelReset
  BY <1>11 DEF KernelReset
<1> QED
  BY <1>1, <1>2, <1>4, <1>5, <1>6, <1>7, <1>8, <1>9, <1>10, <1>11 DEF Next, Helper

\* The helper's dead-man switch can see every block there is, as long as pmset
\* either works or changes nothing and no request outlives its caller: whatever else
\* crashes, restarts, stalls or races.
THEOREM DeadManNeverBlind ==
    ASSUME RecordSurvives
    PROVE  Spec => []DeadManSeesBlock
<1>0. NoSlowHelper
  BY DEF RecordSurvives, NoSlowHelper
<1>1. Init => PushInv /\ CallsInv /\ ReadInv /\ DeadManSeesBlock
  <2>1. Init => \A c \in Conn : conn[c].st = "free" /\ ~conn[c].waiting
    BY DEF Init, NoCall
  <2>2. Init => CallsInv /\ ReadInv
    BY <2>1 DEF CallsInv, ReadInv, Busy, BusyFrom
  <2>3. Init => DeadManSeesBlock
    BY DEF Init, DeadManSeesBlock
  <2>4. Init => PushInv
    BY DEF Init, PushInv, NoSync
  <2> QED
    BY <2>2, <2>3, <2>4
<1>2. TypeOK /\ (PushInv /\ CallsInv /\ ReadInv /\ DeadManSeesBlock) /\ [Next]_vars
        => (PushInv /\ CallsInv /\ ReadInv /\ DeadManSeesBlock)'
  BY <1>0, PushStep, CallsStep, ReadStep, RecordStep DEF TypeOK
<1> QED
  BY <1>1, <1>2, TypeCorrect, PTL DEF Spec

-----------------------------------------------------------------------------
(* A clean stop. *)

\* Every step keeps StopInv.
LEMMA StopStep ==
    NoSlowHelper /\ TypeOK /\ PushInv /\ CallsInv /\ StopInv /\ [Next]_vars => StopInv'
<1> SUFFICES ASSUME NoSlowHelper, DaemonTypeOK, WireTypeOK, PushInv, CallsInv, StopInv,
                    [Next]_vars
             PROVE  StopInv'
  BY DEF TypeOK
<1>0. CallsOK
  BY DEF CallsInv, CallsOK
<1>1. ~settled' => StopInv'
  BY DEF StopInv
<1>2. settled => BusyFrom("pump") = {} /\ (~kernel => ~kernel')
  <2>1. settled => BusyFrom("pump") = {}
    BY DEF StopInv, CallsInv, BusyFrom
  <2> QED
    BY <2>1, KernelRises, SetterIsPump
<1>3. ASSUME UNCHANGED << dm, settled, pump, conn >> PROVE StopInv'
  BY <1>3, <1>2 DEF StopInv, BusyFrom, Busy
<1>4. CASE Helper
  <2> SUFFICES ASSUME settled' PROVE StopInv'
    BY <1>1
  <2>1. UNCHANGED << dm, settled, pump >>
    BY <1>4, HelperFrame DEF daemonVars
  <2>2. CallsKept
    BY <1>4, <1>0, HelperKeeps
  <2>3. ASSUME dm = "finalWait", NEW c \in BusyFrom("final")',
               conn'[c].st = "replied", conn'[c].ok
        PROVE  ~kernel'
    <3>1. c \in BusyFrom("final") /\ c \in Conn
      BY <2>2, <2>3, <1>0, KeptCalls DEF BusyFrom, Busy
    <3>2. CASE conn[c].st = "replied" /\ conn[c].ok
      BY <3>1, <3>2, <2>1, <2>3, <1>2 DEF StopInv
    <3>3. CASE HandleSet(c)
      BY <3>1, <3>3, <2>3 DEF HandleSet, SetSleepBlocked, Reply, NoCall, WireTypeOK, CallsInv
    <3>4. CASE ~HandleSet(c) /\ ~(conn[c].st = "replied" /\ conn[c].ok)
      <4>1. conn[c].op = "set"
        BY <3>1 DEF CallsInv
      <4>2. ~HandleStatusReply(c) /\ ~HandleStatusRead(c)
        BY <4>1, <3>1 DEF HandleStatusReply, HandleStatusRead, CallsInv
      <4>0. conn \in [Conn -> Call] /\ conn[c] \in Call
        BY <3>1 DEF WireTypeOK
      <4>3. ASSUME HelperRefuse(c) PROVE FALSE
        <5>1. Reply(c, FALSE)
          BY <4>3 DEF HelperRefuse
        <5>2. conn'[c].ok = FALSE
          BY <4>0, <5>1, <3>1 DEF Reply, NoCall, Call
        <5> QED
          BY <2>3, <5>2
      <4>4. \A d \in Conn : d # c => \A ok : Reply(d, ok) => conn'[c] = conn[c]
        BY <3>1 DEF Reply, WireTypeOK
      <4>5. \A d \in Conn : d # c => ~HandleSet(d) /\ ~HandleStatusReply(d) /\ ~HelperRefuse(d)
        BY <3>4, <2>3, <4>4 DEF HandleSet, HandleStatusReply, HelperRefuse
      <4>6. \A d \in Conn : d # c => ~HandleStatusRead(d)
        BY <3>1, <3>4, <2>3 DEF HandleStatusRead, WireTypeOK
      <4>7. ASSUME HelperCrash PROVE FALSE
        <5>1. Sever
          BY <4>7 DEF HelperCrash
        <5>2. CASE conn[c].waiting
          <6>1. conn'[c] = [conn[c] EXCEPT !.st = "replied",
                                          !.ok = (conn[c].st = "replied" /\ conn[c].ok)]
            BY <5>1, <5>2, <3>1 DEF Sever
          <6>2. conn'[c].ok = (conn[c].st = "replied" /\ conn[c].ok)
            BY <6>1, <4>0, Zenon DEF Call
          <6> QED
            BY <6>2, <2>3, <3>4
        <5>3. CASE ~conn[c].waiting
          BY <5>1, <5>3, <3>1, <2>3 DEF Sever, NoCall
        <5> QED
          BY <5>2, <5>3
      <4>8. conn' # conn
        BY <3>4, <2>3
      <4> QED
        BY <1>4, <4>2, <4>3, <4>5, <4>6, <4>7, <4>8, <3>4 DEF Helper, SilenceAfterDaemon,
           DaemonStall, CheckDeadMan, DeadManRelease, HelperStart, HelperTerm,
           HelperShutdown, KernelReset
    <3> QED
      BY <3>2, <3>3, <3>4
  <2>4. ASSUME dm \in {"wait", "down"} PROVE Busy' = {} /\ ~kernel'
    BY <2>1, <2>2, <2>4, <1>2 DEF StopInv, CallsKept, Busy
  <2> QED
    BY <2>1, <2>3, <2>4 DEF StopInv
<1>5. CASE UNCHANGED vars
  BY <1>3, <1>5 DEF vars, daemonVars
<1>6. CASE IpcBegin \/ Repush
  BY <1>3, <1>6 DEF IpcBegin, Repush
<1>7. ASSUME NEW t \in Thread,
             ChangeHolds(t) \/ SyncRead(t) \/ Push(t) \/ Nudge(t)
      PROVE  StopInv'
  BY <1>3, <1>7 DEF ChangeHolds, SyncRead, Push, Nudge
<1>8. CASE PumpWake \/ PumpExit \/ ReconcileSnapshot \/ ReconcileRefused
  BY <1>1, <1>8 DEF PumpWake, PumpExit, ReconcileSnapshot, ReconcileRefused, StopInv, PushInv
<1>9. ASSUME NEW c \in Conn,
             ReconcileCall(c) \/ ReconcileReturn(c) \/ ReconcileTimeout(c)
      PROVE  StopInv'
  BY <1>1, <1>9 DEF ReconcileCall, ReconcileReturn, ReconcileTimeout, StopInv, PushInv
<1>10. CASE DaemonStart \/ FinalRefused \/ DaemonCrash
  BY <1>1, <1>10 DEF DaemonStart, FinalRefused, DaemonCrash
<1>11. CASE Shutdown
  BY <1>1, <1>11 DEF Shutdown, Serving, StopInv
<1>12. CASE SettleReturn
  BY <1>12 DEF SettleReturn, StopInv
<1>13. ASSUME NEW c \in Conn, FinalCall(c) PROVE StopInv'
  <2>1. BusyFrom("final") = {} /\ dm' = "finalWait" /\ dm = "final" /\ UNCHANGED << pump, settled >>
    BY <1>13 DEF FinalCall, CallsInv
  <2>2. \A d \in Conn : d # c => conn'[d] = conn[d]
    BY <1>13 DEF FinalCall, Send, WireTypeOK
  <2>3. conn'[c].st = "sent"
    BY <1>13 DEF FinalCall, Send, WireTypeOK
  <2>4. \A d \in BusyFrom("final")' : conn'[d].st = "sent"
    BY <2>1, <2>2, <2>3 DEF BusyFrom, Busy
  <2> QED
    BY <2>1, <2>4 DEF StopInv
<1>14. ASSUME NEW c \in Conn, FinalReturn(c) PROVE StopInv'
  <2> SUFFICES ASSUME settled' PROVE StopInv'
    BY <1>1
  <2>1. settled /\ conn[c].ok /\ dm = "finalWait" /\ dm' = "wait" /\ UNCHANGED << pump, kernel >>
    BY <1>14 DEF FinalReturn
  <2>2. c \in BusyFrom("final") /\ conn[c].st = "replied"
    BY <1>14 DEF FinalReturn, Answered, BusyFrom, Busy
  <2>3. \A d \in Conn : conn'[d].st # "free" => d # c /\ conn[d].st # "free"
    BY <1>14 DEF FinalReturn, WireTypeOK, NoCall
  <2>4. \A d \in Busy : d \in BusyFrom("pump") \cup BusyFrom("final")
    BY DEF Busy, BusyFrom, WireTypeOK, Call
  <2>5. Busy' = {}
    BY <2>1, <2>2, <2>3, <2>4, <1>2, <1>0 DEF CallsOK, Busy, BusyFrom
  <2>6. ~kernel'
    BY <2>1, <2>2 DEF StopInv
  <2> QED
    BY <2>1, <2>5, <2>6 DEF StopInv
<1>15. ASSUME NEW c \in Conn, FinalTimeout(c) PROVE StopInv'
  BY <1>15 DEF FinalTimeout, Fault, NoSlowHelper
<1>16. CASE DaemonExit
  <2>1. dm = "wait" /\ dm' = "down" /\ UNCHANGED << settled, conn, kernel >>
    BY <1>16 DEF DaemonExit, Forget
  <2> QED
    BY <2>1 DEF StopInv, Busy
<1> QED
  BY <1>4, <1>5, <1>6, <1>7, <1>8, <1>9, <1>10, <1>11, <1>12, <1>13, <1>14, <1>15,
     <1>16 DEF Next, Daemon

\* After a stop in which the pump settled in time and the last SetBlocked(false)
\* worked, the kernel's block is off and stays off until another daemon starts, even
\* if the helper fails, crashes or is restarted in between.
THEOREM CleanStopHolds ==
    ASSUME NoSlowHelper
    PROVE  Spec => []CleanStopFreesSleep
<1>1. Init => PushInv /\ CallsInv /\ StopInv
  <2>1. Init => \A c \in Conn : conn[c].st = "free" /\ ~conn[c].waiting
    BY DEF Init, NoCall
  <2>2. Init => CallsInv
    BY <2>1 DEF CallsInv, Busy, BusyFrom
  <2>3. Init => PushInv
    BY DEF Init, PushInv, NoSync
  <2>4. Init => StopInv
    BY DEF Init, StopInv
  <2> QED
    BY <2>2, <2>3, <2>4
<1>2. TypeOK /\ (PushInv /\ CallsInv /\ StopInv) /\ [Next]_vars
        => (PushInv /\ CallsInv /\ StopInv)'
  BY PushStep, CallsStep, StopStep
<1>3. StopInv => CleanStopFreesSleep
  BY DEF StopInv, CleanStopFreesSleep
<1> QED
  BY <1>1, <1>2, <1>3, TypeCorrect, PTL DEF Spec


-----------------------------------------------------------------------------
(* The refinement of Awake.  It needs the types alone: whatever fails, what *)
(* is under way can only be carried on, dropped or carried out.             *)

\* A call to raise the setting is with the helper.
Raising(c) == conn[c].st = "sent" /\ conn[c].op = "set" /\ conn[c].val

\* Nothing but a thread that reads the holds adds to what is asked: what the
\* daemon's other steps leave of it was there before.
LEMMA DaemonAsksLess ==
  ASSUME TypeOK, Daemon, \A t \in Thread : ~SyncRead(t)
  PROVE  Asked' => Asked
<1> USE DEF TypeOK, DaemonTypeOK, WireTypeOK, Thread
<1>1. CASE IpcBegin \/ Repush \/ PumpWake \/ PumpExit \/ DaemonStart
  BY <1>1 DEF IpcBegin, Repush, PumpWake, PumpExit, DaemonStart, Asked
<1>2. ASSUME NEW t \in Thread, ChangeHolds(t) \/ Push(t) \/ Nudge(t)
      PROVE  Asked' => Asked
  BY <1>2 DEF ChangeHolds, Push, Nudge, NoSync, Asked
<1>3. CASE ReconcileSnapshot \/ ReconcileRefused
  BY <1>3 DEF ReconcileSnapshot, ReconcileRefused, AfterCall, Asked
<1>4. ASSUME NEW c \in Conn, ReconcileCall(c) PROVE Asked' => Asked
  BY <1>4 DEF ReconcileCall, Send, Asked
<1>5. ASSUME NEW c \in Conn, conn' = [conn EXCEPT ![c] = NoCall]
      PROVE  \A d \in Conn : Raising(d)' => Raising(d)
  BY <1>5 DEF NoCall, Raising
<1>6. ASSUME NEW c \in Conn, conn' = [conn EXCEPT ![c].waiting = FALSE]
      PROVE  \A d \in Conn : Raising(d)' => Raising(d)
  BY <1>6 DEF Call, Raising
<1>7. ASSUME Abandon PROVE \A d \in Conn : Raising(d)' => Raising(d)
  BY <1>7 DEF Abandon, Call, NoCall, Raising
<1>8. ASSUME NEW c \in Conn, ReconcileReturn(c) \/ ReconcileTimeout(c)
      PROVE  Asked' => Asked
  <2>1. \A d \in Conn : Raising(d)' => Raising(d)
    BY <1>8, <1>5, <1>6 DEF ReconcileReturn, ReconcileTimeout
  <2>2. QED
    BY <1>8, <2>1 DEF ReconcileReturn, ReconcileTimeout, AfterCall, Raising, Asked
<1>9. CASE Shutdown \/ SettleReturn \/ FinalRefused
  BY <1>9 DEF Shutdown, SettleReturn, FinalRefused, Asked
<1>10. ASSUME NEW c \in Conn, FinalCall(c) \/ FinalReturn(c) \/ FinalTimeout(c)
      PROVE  Asked' => Asked
  <2>1. CASE FinalCall(c)
    BY <2>1 DEF FinalCall, Send, Asked
  <2>2. CASE FinalReturn(c) \/ FinalTimeout(c)
    <3>1. \A d \in Conn : Raising(d)' => Raising(d)
      BY <2>2, <1>5, <1>6 DEF FinalReturn, FinalTimeout
    <3>2. QED
      BY <2>2, <3>1 DEF FinalReturn, FinalTimeout, Raising, Asked
  <2>3. QED
    BY <1>10, <2>1, <2>2
<1>11. CASE DaemonExit \/ DaemonCrash
  <2>1. \A d \in Conn : Raising(d)' => Raising(d)
    BY <1>11, <1>7 DEF DaemonExit, DaemonCrash, Raising
  <2>2. QED
    BY <1>11, <2>1 DEF DaemonExit, DaemonCrash, Forget, NoSync, Raising, Asked
<1>12. QED
  BY <1>1, <1>2, <1>3, <1>4, <1>8, <1>9, <1>10, <1>11 DEF Daemon

\* The helper never asks: a request in it is answered, severed or still there.
LEMMA HelperAsksLess ==
  ASSUME TypeOK, Helper
  PROVE  Asked' => Asked
<1> USE DEF TypeOK, WireTypeOK
<1>1. UNCHANGED daemonVars
  BY HelperFrame
<1>2. ASSUME NEW c \in Conn, Raising(c)' PROVE Raising(c)
  <2>1. ASSUME NEW d \in Conn, NEW ok, Reply(d, ok) PROVE Raising(c)
    BY <1>2, <2>1 DEF Reply, NoCall, Raising
  <2>2. ASSUME NEW d \in Conn,
               HandleSet(d) \/ HandleStatusReply(d) \/ HelperRefuse(d)
        PROVE  Raising(c)
    BY <2>1, <2>2 DEF HandleSet, HandleStatusReply, HelperRefuse
  <2>3. ASSUME NEW d \in Conn, HandleStatusRead(d) PROVE Raising(c)
    BY <1>2, <2>3 DEF HandleStatusRead, Raising
  <2>4. CASE HelperCrash
    BY <1>2, <2>4 DEF HelperCrash, Sever, Call, NoCall, Raising
  <2>5. CASE UNCHANGED conn
    BY <1>2, <2>5 DEF Raising
  <2>6. QED
    BY <2>2, <2>3, <2>4, <2>5
    DEF Helper, SilenceAfterDaemon, DaemonStall, CheckDeadMan, DeadManRelease,
        HelperStart, HelperTerm, HelperShutdown, KernelReset
<1>3. QED
  BY <1>1, <1>2 DEF Raising, daemonVars, Asked

\* The helper's steps: the setting rises only with a request to raise it.
LEMMA HelperRaises ==
  ASSUME TypeOK, Helper, kernel' # kernel
  PROVE  kernel' = FALSE \/ (Asked /\ kernel' = TRUE)
<1> USE DEF TypeOK, WireTypeOK, HelperTypeOK
<1>1. ASSUME NEW c \in Conn, HandleSet(c)
      PROVE  kernel' = FALSE \/ (Asked /\ kernel' = TRUE)
  <2>1. conn[c].val \in BOOLEAN
    BY DEF Call
  <2>2. kernel' = conn[c].val
    BY <1>1 DEF HandleSet, SetSleepBlocked
  <2>3. conn[c].val => Asked
    BY <1>1 DEF HandleSet, Asked
  <2>4. QED
    BY <2>1, <2>2, <2>3
<1>2. QED
  BY <1>1
  DEF Helper, SetSleepBlocked, HandleStatusRead, HandleStatusReply, HelperRefuse,
      SilenceAfterDaemon, DaemonStall, CheckDeadMan, DeadManRelease, HelperStart,
      HelperTerm, HelperShutdown, HelperCrash, KernelReset

\* Whatever the faults, the two threads, the pump, the wire and the helper raise
\* the setting only by a request that began while something was held
\* (syncSleepBlock, helperLink, Service.Handle).
THEOREM BlockImplementsAwake == Spec => ImplementsAwake
<1>1. ASSUME Init PROVE Abstract!Init
  <2>1. ~Asked
    BY <1>1 DEF Init, Asked, NoSync, NoCall
  <2>2. QED
    BY <1>1, <2>1 DEF Init, Abstract!Init
<1>2. ASSUME UNCHANGED << holding, kernel >>, Asked' => Asked
      PROVE  Abstract!Next \/ UNCHANGED Abstract!vars
  <2>1. CASE Asked'
    BY <1>2, <2>1 DEF Abstract!vars
  <2>2. CASE ~Asked'
    BY <1>2, <2>2 DEF Abstract!Next, Abstract!Withdraw
  <2>3. QED
    BY <2>1, <2>2
<1>3. ASSUME TypeOK, Daemon PROVE Abstract!Next \/ UNCHANGED Abstract!vars
  <2>1. ASSUME NEW t \in Thread, SyncRead(t)
        PROVE  Abstract!Next \/ UNCHANGED Abstract!vars
    <3>1. UNCHANGED << holding, kernel >>
      BY <2>1 DEF SyncRead
    <3>2. CASE holding
      <4>1. sync'[t].pc = "push" /\ sync'[t].want
        BY <1>3, <2>1, <3>2 DEF SyncRead, TypeOK, DaemonTypeOK
      <4>2. Asked'
        BY <4>1 DEF Asked
      <4>3. QED
        BY <3>1, <3>2, <4>2 DEF Abstract!Next, Abstract!Ask
    <3>3. CASE ~holding
      <4>1. Asked' => Asked
        BY <1>3, <2>1, <3>3 DEF SyncRead, TypeOK, DaemonTypeOK, Asked
      <4>2. QED
        BY <1>2, <3>1, <4>1
    <3>4. QED
      BY <3>2, <3>3
  <2>2. CASE \A t \in Thread : ~SyncRead(t)
    <3>1. Asked' => Asked
      BY <1>3, <2>2, DaemonAsksLess
    <3>2. kernel' = kernel
      BY <1>3, DaemonFrame
    <3>3. CASE holding' = holding
      BY <1>2, <3>1, <3>2, <3>3
    <3>4. CASE holding' = FALSE
      BY <3>1, <3>2, <3>4 DEF Abstract!Next, Abstract!Stop
    <3>5. ASSUME NEW t \in Thread, ChangeHolds(t)
          PROVE  Abstract!Next \/ UNCHANGED Abstract!vars
      <4>1. Asked' <=> Asked
        BY <1>3, <3>5 DEF ChangeHolds, TypeOK, DaemonTypeOK, Asked
      <4>2. holding' \in BOOLEAN
        BY <3>5 DEF ChangeHolds
      <4>3. QED
        BY <3>2, <4>1, <4>2 DEF Abstract!Next, Abstract!ChangeHolds
    <3>6. (\E t \in Thread : ChangeHolds(t)) \/ holding' = holding \/ holding' = FALSE
      BY <1>3, <2>2
      DEF Daemon, IpcBegin, Repush, Push, Nudge, PumpWake, PumpExit,
          ReconcileSnapshot, ReconcileRefused, ReconcileCall, ReconcileReturn,
          ReconcileTimeout, DaemonStart, Shutdown, SettleReturn, FinalRefused,
          FinalCall, FinalReturn, FinalTimeout, DaemonExit, DaemonCrash, Forget
    <3>7. QED
      BY <3>3, <3>4, <3>5, <3>6
  <2>3. QED
    BY <2>1, <2>2
<1>4. ASSUME TypeOK, Helper PROVE Abstract!Next \/ UNCHANGED Abstract!vars
  <2>1. (Asked' => Asked) /\ holding' = holding
    BY <1>4, HelperAsksLess, HelperFrame DEF daemonVars
  <2>2. CASE kernel' = kernel
    BY <1>2, <2>1, <2>2
  <2>3. CASE kernel' = FALSE
    BY <2>1, <2>3 DEF Abstract!Next, Abstract!Free
  <2>4. CASE Asked /\ kernel' = TRUE
    <3>1. Asked' \in BOOLEAN
      BY DEF Asked
    <3>2. QED
      BY <2>1, <2>4, <3>1 DEF Abstract!Next, Abstract!Block
  <2>5. QED
    BY <1>4, <2>2, <2>3, <2>4, HelperRaises
<1>5. ASSUME TypeOK, [Next]_vars PROVE [Abstract!Next]_(Abstract!vars)
  <2>1. CASE UNCHANGED vars
    <3>1. UNCHANGED << holding, kernel >>
      BY <2>1 DEF vars, daemonVars
    <3>2. Asked' => Asked
      BY <2>1 DEF vars, daemonVars, Asked
    <3>3. QED
      BY <1>2, <3>1, <3>2
  <2>2. QED
    BY <1>3, <1>4, <1>5, <2>1 DEF Next
<1>6. QED
  BY <1>1, <1>5, TypeCorrect, PTL DEF Spec, ImplementsAwake, Abstract!Spec

=============================================================================
