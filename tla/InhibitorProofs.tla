-------------------------- MODULE InhibitorProofs --------------------------
(***************************************************************************)
(* Theorems about Inhibitor, for any number of children, changes and       *)
(* faults of every kind: the helper never loses track of a child that      *)
(* holds the lock, and the record the dead-man switch goes by shows it.    *)
(***************************************************************************)
EXTENDS Inhibitor, TLAPS

CallType == [pc : {"idle", "enter", "ask", "stop", "stopWait", "kill", "killWait",
                   "start", "grace", "exit"},
             op : BOOLEAN, at : {None} \cup Child]

Calls == call \in [Caller -> CallType]

\* The variables the invariant is about, with the types it needs.
Shape ==
    /\ Calls /\ cmd \in {None} \cup Child /\ None \notin Child
    /\ proc \in [Child -> {"none", "exited"} \cup Alive]
    /\ hold \in [Child -> BOOLEAN] /\ blocked \in BOOLEAN

IInv == Shape /\ CallsInv /\ ChildTracked /\ RecordInv

-----------------------------------------------------------------------------
(* How a call moves. *)

LEMMA GotoCalls ==
    ASSUME Calls, NEW c \in Caller, Goto(c, "ask") \/ Goto(c, "stop") \/ Goto(c, "start")
              \/ Goto(c, "kill") \/ Goto(c, "killWait") \/ Goto(c, "grace")
              \/ Goto(c, "enter") \/ Goto(c, "exit")
    PROVE  /\ Calls'
           /\ call'[c].op = call[c].op /\ call'[c].at = call[c].at
           /\ \A d \in Caller \ {c} : call'[d] = call[d]
  BY DEF Calls, CallType, Goto

LEMMA ReturnCalls ==
    ASSUME Calls, NEW c \in Caller, NEW ok, Return(c, ok)
    PROVE  /\ Calls'
           /\ call'[c].pc \notin Inside /\ ~call'[c].op
           /\ \A d \in Caller \ {c} : call'[d] = call[d]
           /\ mu' = None
           /\ blocked' = IF ok /\ c = "request" THEN call[c].op ELSE blocked
<1>1. Idle \in CallType /\ [Idle EXCEPT !.pc = "exit"] \in CallType
  BY DEF Idle, CallType
<1>2. Idle.pc \notin Inside /\ [Idle EXCEPT !.pc = "exit"].pc \notin Inside
  BY DEF Idle, Inside
<1>3. ~Idle.op /\ ~[Idle EXCEPT !.pc = "exit"].op
  BY DEF Idle
<1> QED
  BY <1>1, <1>2, <1>3 DEF Return, Calls

\* Two callers are never inside together.
LEMMA Alone ==
    ASSUME CallsInv, NEW c \in Caller, NEW d \in Caller, c # d, call[c].pc \in Inside
    PROVE  call[d].pc \notin Inside
  BY DEF CallsInv

-----------------------------------------------------------------------------
(* Each step of a caller keeps the invariant. *)

\* A call that returns while no child is on record, or none changes.
LEMMA ReturnKeeps ==
    ASSUME IInv, NEW c \in Caller, NEW ok \in BOOLEAN, Return(c, ok),
           call[c].pc \in Inside, UNCHANGED << proc, hold, cmd >>,
           cmd = None \/ (ok /\ call[c].op)
    PROVE  IInv'
<1>1. /\ Calls' /\ call'[c].pc \notin Inside /\ ~call'[c].op
      /\ \A d \in Caller \ {c} : call'[d] = call[d]
      /\ mu' = None
      /\ blocked' = IF ok /\ c = "request" THEN call[c].op ELSE blocked
  BY ReturnCalls DEF IInv, Shape
<1>2. call[c].op \in BOOLEAN
  BY DEF IInv, Shape, Calls, CallType
<1>3. Shape'
  BY <1>1, <1>2 DEF IInv, Shape
<1>4. \A d \in Caller \ {c} : call'[d].pc \notin Inside
  BY <1>1, Alone DEF IInv
<1>5. \A d \in Caller : call'[d].pc \notin Inside
  BY <1>1, <1>4
<1>6. ~call'["shutdown"].op
  BY <1>1 DEF IInv, CallsInv, Caller
<1>7. CallsInv'
  BY <1>5, <1>6 DEF CallsInv, Inside
<1>8. ChildTracked'
  BY DEF IInv, ChildTracked
<1>9. RecordInv'
  <2>1. CASE cmd = None
    BY <2>1 DEF RecordInv
  <2>2. CASE ok /\ call[c].op
    <3>1. c = "request"
      BY <2>2 DEF IInv, CallsInv, Caller
    <3>2. blocked'
      BY <1>1, <2>2, <3>1
    <3> QED
      BY <3>2 DEF RecordInv
  <2> QED
    BY <2>1, <2>2
<1> QED
  BY <1>3, <1>7, <1>8, <1>9 DEF IInv

\* A call that goes on inside, with no child on record or with the same one.
LEMMA GotoKeeps ==
    ASSUME IInv, NEW c \in Caller, NEW pc \in {"stop", "start", "kill", "killWait"},
           Goto(c, pc), call[c].pc \in Inside \ {"grace"},
           UNCHANGED << blocked, mu, cmd, hold >>,
           \A g \in Child : proc'[g] \in {proc[g], "exited"},
           proc' \in [Child -> {"none", "exited"} \cup Alive],
           pc # "stop" => cmd = None, pc = "start" => call[c].op
    PROVE  IInv'
<1>1. /\ Calls' /\ call'[c].op = call[c].op /\ call'[c].pc = pc
      /\ \A d \in Caller \ {c} : call'[d] = call[d]
  BY GotoCalls DEF IInv, Shape, Goto, Calls, CallType
<1>2. Shape'
  BY <1>1 DEF IInv, Shape
<1>3. CallsInv'
  BY <1>1 DEF IInv, CallsInv, Inside, Caller
<1>4. ChildTracked'
  BY DEF IInv, ChildTracked, Shape, Alive
<1>5. RecordInv'
  <2> SUFFICES ASSUME cmd # None, proc'[cmd] \in Alive
               PROVE  blocked \/ call'["request"].pc = "grace"
    BY DEF RecordInv
  <2>1. proc[cmd] \in Alive
    BY DEF IInv, Shape, Alive
  <2>2. blocked \/ call["request"].pc = "grace"
    BY <2>1 DEF IInv, RecordInv
  <2>3. CASE call["request"].pc = "grace"
    <3>1. c # "request"
      BY <2>3
    <3>2. call'["request"] = call["request"]
      BY <1>1, <3>1 DEF Caller
    <3> QED
      BY <2>3, <3>2
  <2> QED
    BY <2>2, <2>3
<1> QED
  BY <1>2, <1>3, <1>4, <1>5 DEF IInv

LEMMA AfterStopKeeps ==
    ASSUME IInv, NEW c \in Caller, AfterStop(c), call[c].pc \in {"stop", "stopWait"},
           cmd = None, UNCHANGED << proc, hold, cmd >>
    PROVE  IInv'
<1>0. call[c].pc \in Inside \ {"grace"} /\ call[c].pc \in Inside
  BY DEF Inside
<1>1. CASE call[c].op
  <2>1. /\ \A g \in Child : proc'[g] \in {proc[g], "exited"}
        /\ proc' \in [Child -> {"none", "exited"} \cup Alive]
    BY DEF IInv, Shape
  <2>2. Goto(c, "start") /\ UNCHANGED << blocked, mu >>
    BY <1>1 DEF AfterStop
  <2> QED
    BY <1>0, <1>1, <2>1, <2>2, GotoKeeps
<1>2. CASE ~call[c].op
  <2>1. Return(c, TRUE)
    BY <1>2 DEF AfterStop
  <2> QED
    BY <1>0, <2>1, ReturnKeeps
<1> QED
  BY <1>1, <1>2

LEMMA EnterKeeps == \A c \in Caller : IInv /\ Enter(c) => IInv'
<1> SUFFICES ASSUME IInv, NEW c \in Caller, Enter(c) PROVE IInv'
  OBVIOUS
<1>1. call[c].pc = "enter" /\ mu = None /\ mu' = c
  BY DEF Enter
<1>2. /\ Calls' /\ call'[c].op = call[c].op
      /\ call'[c].pc = (IF call[c].op THEN "ask" ELSE "stop")
      /\ \A d \in Caller \ {c} : call'[d] = call[d]
  <2>1. Goto(c, "ask") \/ Goto(c, "stop")
    BY DEF Enter
  <2>2. call' = [call EXCEPT ![c].pc = IF call[c].op THEN "ask" ELSE "stop"] /\ Calls
    BY DEF Enter, Goto, IInv, Shape
  <2>3. call'[c].pc = (IF call[c].op THEN "ask" ELSE "stop")
    BY <2>2 DEF Calls, CallType
  <2> QED
    BY <2>1, <2>2, <2>3, GotoCalls
<1>3. \A d \in Caller : call[d].pc \notin Inside
  BY <1>1 DEF IInv, CallsInv, Caller, None
<1>4. Shape'
  BY <1>2 DEF Enter, IInv, Shape, childVars
<1>5. CallsInv'
  BY <1>1, <1>2, <1>3 DEF Enter, IInv, CallsInv, Inside, Caller
<1>6. ChildTracked' /\ RecordInv'
  BY <1>3 DEF Enter, childVars, IInv, ChildTracked, RecordInv, Inside, Caller
<1> QED
  BY <1>4, <1>5, <1>6 DEF IInv

LEMMA StopKeeps == \A c \in Caller : IInv /\ StopInhibitor(c) => IInv'
<1> SUFFICES ASSUME IInv, NEW c \in Caller, StopInhibitor(c) PROVE IInv'
  OBVIOUS
<1>1. CASE cmd = None
  BY <1>1, AfterStopKeeps DEF StopInhibitor
<1>2. CASE cmd # None
  <2>1. /\ cmd' = None /\ cmd \in Child /\ hold' = [hold EXCEPT ![cmd] = FALSE]
        /\ call' = [call EXCEPT ![c].pc = "stopWait", ![c].at = cmd]
        /\ UNCHANGED << blocked, mu, proc >> /\ call[c].pc = "stop"
    BY <1>2 DEF StopInhibitor, IInv, Shape
  <2>2. Calls'
    BY <2>1 DEF IInv, Shape, Calls, CallType
  <2>3. /\ call'[c].pc = "stopWait" /\ call'[c].op = call[c].op
        /\ \A d \in Caller \ {c} : call'[d] = call[d]
    BY <2>1 DEF IInv, Shape, Calls, CallType
  <2>4. Shape'
    BY <2>1, <2>2 DEF IInv, Shape
  <2>5. \A d \in Caller \ {c} : call'[d].pc \notin Inside
    BY <2>1, <2>3, Alone DEF IInv, Inside
  <2>6. CallsInv'
    BY <2>1, <2>3, <2>5 DEF IInv, CallsInv, Inside, Caller
  <2>7. ChildTracked' /\ RecordInv'
    BY <2>1 DEF IInv, Shape, ChildTracked, RecordInv
  <2> QED
    BY <2>4, <2>6, <2>7 DEF IInv
<1> QED
  BY <1>1, <1>2

LEMMA StartKeeps == \A c \in Caller : IInv /\ StartInhibitor(c) => IInv'
<1> SUFFICES ASSUME IInv, NEW c \in Caller, StartInhibitor(c) PROVE IInv'
  OBVIOUS
<1>0. call[c].pc = "start" /\ cmd = None /\ call[c].op
  BY DEF StartInhibitor, IInv, CallsInv
<1>1. CASE Return(c, FALSE) /\ UNCHANGED << cmd, childVars >>
  BY <1>0, <1>1, ReturnKeeps DEF Inside, childVars
<1>2. ASSUME NEW g \in Child, cmd' = g, proc' = [proc EXCEPT ![g] = "starting"],
             hold' = [hold EXCEPT ![g] = TRUE], Goto(c, "grace"), UNCHANGED << blocked, mu >>
      PROVE  IInv'
  <2>1. /\ Calls' /\ call'[c].op = call[c].op /\ call'[c].pc = "grace"
        /\ \A d \in Caller \ {c} : call'[d] = call[d]
    BY <1>2, GotoCalls DEF IInv, Shape, Goto, Calls, CallType
  <2>2. Shape'
    BY <1>2, <2>1 DEF IInv, Shape, Alive
  <2>3. \A d \in Caller \ {c} : call'[d].pc \notin Inside
    BY <1>0, <2>1, Alone DEF IInv, Inside
  <2>4. c = "request"
    BY <1>0 DEF IInv, CallsInv, Caller
  <2>5. CallsInv'
    BY <1>0, <1>2, <2>1, <2>3 DEF IInv, CallsInv, Inside, Caller, Shape
  <2>6. ChildTracked' /\ RecordInv'
    BY <1>0, <1>2, <2>1, <2>4 DEF IInv, Shape, ChildTracked, RecordInv
  <2> QED
    BY <2>2, <2>5, <2>6 DEF IInv
<1>3. \/ Return(c, FALSE) /\ UNCHANGED << cmd, childVars >>
      \/ /\ Free # {} /\ Goto(c, "grace") /\ UNCHANGED << blocked, mu >>
         /\ LET g == CHOOSE f \in Free : TRUE IN
              cmd' = g /\ proc' = [proc EXCEPT ![g] = "starting"]
              /\ hold' = [hold EXCEPT ![g] = TRUE]
  BY DEF StartInhibitor
<1>4. Free # {} => (CHOOSE f \in Free : TRUE) \in Child
  BY DEF Free
<1> QED
  BY <1>1, <1>2, <1>3, <1>4

LEMMA GraceKeeps == \A c \in Caller : IInv /\ Grace(c) => IInv'
<1> SUFFICES ASSUME IInv, NEW c \in Caller, Grace(c) PROVE IInv'
  OBVIOUS
<1>0. call[c].pc = "grace" /\ cmd # None /\ cmd \in Child /\ call[c].op
  BY DEF Grace, IInv, CallsInv, Shape
<1>1. CASE ~Done(cmd)
  BY <1>0, <1>1, ReturnKeeps DEF Grace, Inside
<1>2. CASE Done(cmd)
  <2>1. /\ Return(c, FALSE) /\ cmd' = None /\ hold' = [hold EXCEPT ![cmd] = FALSE]
        /\ UNCHANGED proc
    BY <1>2 DEF Grace
  <2>2. /\ Calls' /\ call'[c].pc \notin Inside /\ ~call'[c].op
        /\ \A d \in Caller \ {c} : call'[d] = call[d]
        /\ mu' = None /\ blocked' = blocked
    BY <2>1, ReturnCalls DEF IInv, Shape
  <2>3. Shape'
    BY <2>1, <2>2 DEF IInv, Shape
  <2>4. \A d \in Caller \ {c} : call'[d].pc \notin Inside
    BY <1>0, <2>2, Alone DEF IInv, Inside
  <2>5. ~call'["shutdown"].op
    BY <2>2 DEF IInv, CallsInv, Caller
  <2>6. CallsInv'
    BY <2>2, <2>4, <2>5 DEF CallsInv, Inside
  <2>7. ChildTracked' /\ RecordInv'
    BY <1>0, <2>1 DEF IInv, Shape, ChildTracked, RecordInv
  <2> QED
    BY <2>3, <2>6, <2>7 DEF IInv
<1> QED
  BY <1>1, <1>2

LEMMA CallerKeeps == \A c \in Caller : IInv /\ SetSleepBlocked(c) => IInv'
<1> SUFFICES ASSUME IInv, NEW c \in Caller, SetSleepBlocked(c) PROVE IInv'
  OBVIOUS
<1>1. CASE Enter(c)
  BY <1>1, EnterKeeps
<1>2. CASE InhibitorHeld(c)
  <2>1. call[c].pc = "ask" /\ call[c].op /\ UNCHANGED << cmd, proc, hold >>
    BY <1>2 DEF InhibitorHeld, childVars, IInv, CallsInv
  <2>2. CASE Return(c, TRUE)
    BY <2>1, <2>2, ReturnKeeps DEF Inside
  <2>3. CASE Goto(c, "stop") /\ UNCHANGED << blocked, mu >>
    BY <2>1, <2>3, GotoKeeps DEF Inside, IInv, Shape
  <2> QED
    BY <1>2, <2>2, <2>3 DEF InhibitorHeld
<1>3. CASE StopInhibitor(c)
  BY <1>3, StopKeeps
<1>4. CASE StopDone(c)
  BY <1>4, AfterStopKeeps DEF StopDone, childVars, IInv, CallsInv
<1>5. CASE StopTimeout(c)
  <2>1. call[c].pc = "stopWait" /\ cmd = None
    BY <1>5 DEF StopTimeout, IInv, CallsInv
  <2> QED
    BY <1>5, <2>1, GotoKeeps DEF StopTimeout, childVars, Inside, IInv, Shape
<1>6. CASE Kill(c)
  <2>1. call[c].pc = "kill" /\ cmd = None /\ UNCHANGED << cmd, hold >>
    BY <1>6 DEF Kill, IInv, CallsInv
  <2>2. CASE Return(c, FALSE) /\ UNCHANGED proc
    BY <2>1, <2>2, ReturnKeeps DEF Inside
  <2>3. CASE /\ proc' = [proc EXCEPT ![call[c].at] = "exited"]
             /\ Goto(c, "killWait") /\ UNCHANGED << blocked, mu >>
    <3>1. /\ \A g \in Child : proc'[g] \in {proc[g], "exited"}
          /\ proc' \in [Child -> {"none", "exited"} \cup Alive]
      BY <2>3 DEF IInv, Shape
    <3> QED
      BY <2>1, <2>3, <3>1, GotoKeeps DEF Inside
  <2> QED
    BY <1>6, <2>2, <2>3 DEF Kill
<1>7. CASE StartInhibitor(c)
  BY <1>7, StartKeeps
<1>8. CASE Grace(c)
  BY <1>8, GraceKeeps
<1> QED
  BY <1>1, <1>2, <1>3, <1>4, <1>5, <1>6, <1>7, <1>8 DEF SetSleepBlocked

-----------------------------------------------------------------------------
(* The children, the world and the theorem. *)

\* Steps outside the helper: a child only takes a lock, loses it or is gone.
LEMMA ChildKeeps ==
    ASSUME IInv, NEW g \in Child, NEW st \in Alive \cup {"exited"}, Becomes(g, st),
           proc[g] \in Alive \/ st = "exited"
    PROVE  IInv'
<1>1. /\ proc' = [proc EXCEPT ![g] = st]
      /\ UNCHANGED << hold, blocked, mu, call, cmd >>
  BY DEF Becomes, helperVars
<1>2. Shape'
  BY <1>1 DEF IInv, Shape, Alive, Calls
<1>3. CallsInv'
  BY <1>1 DEF IInv, CallsInv
<1>4. ChildTracked' /\ RecordInv'
  BY <1>1 DEF IInv, Shape, ChildTracked, RecordInv, Alive
<1> QED
  BY <1>2, <1>3, <1>4 DEF IInv

\* Steps that change nothing the invariant looks at.
LEMMA OtherKeeps ==
    ASSUME IInv, UNCHANGED << blocked, mu, call, cmd, proc, hold >> PROVE IInv'
  BY DEF IInv, Shape, Calls, CallsInv, ChildTracked, RecordInv

LEMMA GoneKeeps == ASSUME IInv, Gone PROVE IInv'
<1>1. Idle \in CallType /\ Idle.pc = "idle" /\ ~Idle.op
  BY DEF Idle, CallType
<1>2. \A c \in Caller : call'[c] = Idle
  BY DEF Gone
<1>3. Shape'
  BY <1>1 DEF Gone, IInv, Shape, Calls
<1>4. CallsInv'
  BY <1>1, <1>2 DEF CallsInv, Inside, Caller
<1>5. ChildTracked' /\ RecordInv'
  BY DEF Gone, ChildTracked, RecordInv
<1> QED
  BY <1>3, <1>4, <1>5 DEF IInv

LEMMA StepKeeps == IInv /\ want \in BOOLEAN /\ [Next]_vars => IInv'
<1> SUFFICES ASSUME IInv, want \in BOOLEAN, [Next]_vars PROVE IInv'
  OBVIOUS
<1>1. CASE SetBlocked
  <2>1. /\ call' = [call EXCEPT !["request"] = [Idle EXCEPT !.pc = "enter", !.op = want]]
        /\ \A c \in Caller : call[c].pc = "idle"
        /\ UNCHANGED << blocked, mu, cmd, proc, hold >>
    BY <1>1 DEF SetBlocked, childVars
  <2>2. [Idle EXCEPT !.pc = "enter", !.op = want] \in CallType
    BY DEF Idle, CallType
  <2>3. [Idle EXCEPT !.pc = "enter", !.op = want].pc = "enter"
    BY DEF Idle
  <2>4. Shape'
    BY <2>1, <2>2 DEF IInv, Shape, Calls
  <2>5. \A c \in Caller : call'[c].pc \in {"idle", "enter"}
    BY <2>1, <2>3 DEF IInv, Shape, Calls
  <2>6. call'["shutdown"] = call["shutdown"]
    BY <2>1 DEF IInv, Shape, Calls, Caller
  <2>7. CallsInv'
    BY <2>5, <2>6 DEF IInv, CallsInv, Inside
  <2>8. ChildTracked' /\ RecordInv'
    BY <2>1 DEF IInv, ChildTracked, RecordInv, Caller
  <2> QED
    BY <2>4, <2>7, <2>8 DEF IInv
<1>2. CASE Shutdown
  <2>1. \/ Goto("shutdown", "enter") \/ Goto("shutdown", "exit")
    BY <1>2 DEF Shutdown
  <2>2. call["shutdown"].pc = "idle" /\ UNCHANGED << blocked, mu, cmd, proc, hold >>
    BY <1>2 DEF Shutdown, childVars
  <2>3. /\ Calls' /\ call'["shutdown"].op = call["shutdown"].op
        /\ call'["shutdown"].pc \in {"enter", "exit"}
        /\ call'["request"] = call["request"]
    BY <2>1, GotoCalls DEF IInv, Shape, Goto, Calls, CallType, Caller
  <2>4. Shape'
    BY <2>2, <2>3 DEF IInv, Shape
  <2>5. CallsInv'
    BY <2>2, <2>3 DEF IInv, CallsInv, Inside, Caller
  <2>6. ChildTracked' /\ RecordInv'
    BY <2>2, <2>3 DEF IInv, ChildTracked, RecordInv
  <2> QED
    BY <2>4, <2>5, <2>6 DEF IInv
<1>3. CASE HelperExit \/ HelperCrash
  BY <1>3, GoneKeeps DEF HelperExit, HelperCrash
<1>4. CASE PushChanges
  BY <1>4, OtherKeeps DEF PushChanges, helperVars, childVars
<1>5. CASE LogindRestart \/ HelperStart
  <2>1. /\ \/ proc' = [g \in Child |-> IF proc[g] = "holding" THEN "lockless" ELSE proc[g]]
           \/ proc' = [g \in Child |-> IF proc[g] \in Alive THEN "exited" ELSE proc[g]]
        /\ UNCHANGED << hold, blocked, mu, call, cmd >>
    BY <1>5 DEF LogindRestart, HelperStart, helperVars
  <2>2. Shape'
    BY <2>1 DEF IInv, Shape, Alive, Calls
  <2>3. CallsInv'
    BY <2>1 DEF IInv, CallsInv
  <2>4. ChildTracked' /\ RecordInv'
    BY <2>1 DEF IInv, Shape, ChildTracked, RecordInv, Alive
  <2> QED
    BY <2>2, <2>3, <2>4 DEF IInv
<1>6. ASSUME NEW c \in Caller, SetSleepBlocked(c) PROVE IInv'
  BY <1>6, CallerKeeps
<1>7. ASSUME NEW g \in Child, Waiter(g) \/ IgnoreEOF(g) PROVE IInv'
  BY <1>7, OtherKeeps DEF Waiter, Reap, WaiterLock, WaiterClose, IgnoreEOF, helperVars
<1>8. ASSUME NEW g \in Child, Process(g) \/ RefuseLock(g) \/ Die(g) PROVE IInv'
  <2>1. \/ proc[g] = "starting" /\ (Becomes(g, "holding") \/ Becomes(g, "exited"))
        \/ proc[g] \in Alive /\ Becomes(g, "exited")
    BY <1>8 DEF Process, TakeLock, ExitOnEOF, RefuseLock, Die
  <2> QED
    BY <2>1, ChildKeeps DEF Alive
<1>9. CASE UNCHANGED vars
  BY <1>9, OtherKeeps DEF vars, helperVars, childVars
<1> QED
  BY <1>1, <1>2, <1>3, <1>4, <1>5, <1>6, <1>7, <1>8, <1>9 DEF Next

-----------------------------------------------------------------------------
(* The types. *)

WaiterType == [Child -> {"none", "wait", "lock", "close", "closed"}]

\* The variables no lemma above speaks of.
RestOK ==
    /\ want \in BOOLEAN /\ up \in BOOLEAN /\ mu \in {None} \cup Caller
    /\ stubborn \in [Child -> BOOLEAN] /\ waiter \in WaiterType
    /\ changes \in 0..MaxChanges /\ faults \in 0..MaxFaults

LEMMA RestStep == RestOK /\ [Next]_vars => RestOK'
<1> SUFFICES ASSUME RestOK, [Next]_vars PROVE RestOK'
  OBVIOUS
<1> USE DEF RestOK, WaiterType
<1>0. \A k : Fault(k) => faults' \in 0..MaxFaults
  BY BudgetAssumption DEF Fault
<1>1. CASE SetBlocked \/ HelperStart
  BY <1>1 DEF SetBlocked, HelperStart, childVars, helperVars, budgetVars
<1>2. CASE Shutdown
  BY <1>0, <1>2 DEF Shutdown, childVars
<1>3. CASE HelperExit \/ HelperCrash
  BY <1>0, <1>3 DEF HelperExit, HelperCrash, Gone
<1>4. CASE PushChanges
  <2>1. changes' \in 0..MaxChanges
    BY <1>4, BudgetAssumption DEF PushChanges
  <2> QED
    BY <1>4, <2>1 DEF PushChanges, helperVars, childVars
<1>5. CASE LogindRestart
  BY <1>0, <1>5 DEF LogindRestart, helperVars
<1>6. ASSUME NEW c \in Caller, SetSleepBlocked(c) PROVE RestOK'
  <2> USE DEF childVars, budgetVars, AfterStop, Return
  <2>1. CASE Enter(c)
    BY <2>1 DEF Enter
  <2>2. CASE InhibitorHeld(c)
    BY <1>0, <2>2 DEF InhibitorHeld
  <2>3. CASE StopInhibitor(c)
    BY <2>3 DEF StopInhibitor
  <2>4. CASE StopDone(c) \/ StopTimeout(c) \/ Kill(c)
    BY <2>4 DEF StopDone, StopTimeout, Kill
  <2>5. CASE StartInhibitor(c)
    BY <1>0, <2>5 DEF StartInhibitor
  <2>6. CASE Grace(c)
    BY <1>0, <2>6 DEF Grace
  <2> QED
    BY <1>6, <2>1, <2>2, <2>3, <2>4, <2>5, <2>6 DEF SetSleepBlocked
<1>7. ASSUME NEW g \in Child, Waiter(g) PROVE RestOK'
  BY <1>7 DEF Waiter, Reap, WaiterLock, WaiterClose, helperVars, budgetVars
<1>8. ASSUME NEW g \in Child, Process(g) \/ RefuseLock(g) \/ Die(g) PROVE RestOK'
  BY <1>0, <1>8 DEF Process, TakeLock, ExitOnEOF, RefuseLock, Die, Becomes, helperVars
<1>9. ASSUME NEW g \in Child, IgnoreEOF(g) PROVE RestOK'
  BY <1>0, <1>9 DEF IgnoreEOF, helperVars
<1>10. CASE UNCHANGED vars
  BY <1>10 DEF vars, childVars, helperVars, budgetVars
<1> QED
  BY <1>1, <1>2, <1>3, <1>4, <1>5, <1>6, <1>7, <1>8, <1>9, <1>10 DEF Next

LEMMA InitInv == Init => IInv /\ RestOK
<1> SUFFICES ASSUME Init PROVE IInv /\ RestOK
  OBVIOUS
<1>1. Idle \in CallType /\ Idle.pc = "idle" /\ ~Idle.op
  BY DEF Idle, CallType
<1>2. \A c \in Caller : call[c] = Idle
  BY DEF Init
<1>3. Shape
  BY <1>1, ChildAssumption DEF Init, Shape, Calls
<1>4. CallsInv
  BY <1>1, <1>2 DEF CallsInv, Inside, Caller
<1>5. ChildTracked /\ RecordInv
  BY DEF Init, ChildTracked, RecordInv, Alive
<1>6. RestOK
  <2>1. changes \in 0..MaxChanges /\ faults \in 0..MaxFaults
    BY BudgetAssumption DEF Init
  <2>2. stubborn \in [Child -> BOOLEAN] /\ waiter \in WaiterType
    BY DEF Init, WaiterType
  <2>3. want \in BOOLEAN /\ up \in BOOLEAN /\ mu \in {None} \cup Caller
    BY DEF Init
  <2> QED
    BY <2>1, <2>2, <2>3 DEF RestOK
<1> QED
  BY <1>3, <1>4, <1>5, <1>6 DEF IInv

\* IInv and the types hold in every state.
LEMMA Invariance == Spec => [](IInv /\ RestOK)
<1>1. IInv /\ RestOK /\ [Next]_vars => (IInv /\ RestOK)'
  BY StepKeeps, RestStep DEF RestOK
<1> QED
  BY <1>1, InitInv, PTL DEF Spec

-----------------------------------------------------------------------------

\* Every variable keeps its type; in particular no waiter is left holding inhibitMu
\* (startInhibitor, stopInhibitor and the waiter goroutine).
THEOREM TypeCorrect == Spec => []TypeOK
<1>1. IInv /\ RestOK => TypeOK
  BY DEF IInv, RestOK, Shape, Calls, CallType, WaiterType, TypeOK
<1> QED
  BY <1>1, Invariance, PTL

\* A child whose pipe the helper keeps open is the one on record, whatever concurrent
\* requests, a shutdown, faults and restarts do (setSleepBlocked).
THEOREM NoUntrackedChild == Spec => []ChildTracked
<1>1. IInv => ChildTracked
  BY DEF IInv
<1> QED
  BY <1>1, Invariance, PTL

\* The record the dead-man switch goes by shows every child the helper keeps, once the
\* call that made it has returned (Service.SetBlocked over setSleepBlocked).
THEOREM RecordNeverBlind == Spec => []RecordShowsChild
<1>1. IInv => RecordShowsChild
  BY DEF IInv, CallsInv, RecordInv, RecordShowsChild, Inside, Caller, None
<1> QED
  BY <1>1, Invariance, PTL

=============================================================================
