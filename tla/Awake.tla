------------------------------- MODULE Awake --------------------------------
(***************************************************************************)
(* What the sleep block promises, whatever fails: the kernel's setting is  *)
(* only ever raised for somebody.  A request to raise it begins while the  *)
(* daemon holds something, lasts until it is answered, overtaken or lost,  *)
(* and nothing outside such a request raises the setting: not a restart of *)
(* the helper, the dead-man switch, a shutdown, or the sync of a thread    *)
(* that has fallen behind.  SleepBlock implements it with two threads, the *)
(* pump, the wire and the helper, and no assumption about the faults.      *)
(***************************************************************************)
VARIABLES
    needed,     \* the daemon holds something
    asked,      \* a request to keep the machine awake is on its way
    stays       \* the kernel refuses to sleep

vars == << needed, asked, stays >>

\* An earlier boot may have left the setting behind; nobody asks for it yet.
Init ==
    /\ needed = FALSE /\ asked = FALSE
    /\ stays \in BOOLEAN

ChangeHolds ==
    /\ needed' \in BOOLEAN
    /\ UNCHANGED << asked, stays >>

\* Only a daemon that holds something begins to ask.
Ask ==
    /\ needed /\ asked' = TRUE
    /\ UNCHANGED << needed, stays >>

\* The last request under way is answered, overtaken or lost.
Withdraw ==
    /\ asked' = FALSE
    /\ UNCHANGED << needed, stays >>

\* The daemon ends; what it asked for may end with it, or outlive it.
Stop ==
    /\ needed' = FALSE
    /\ asked' => asked
    /\ UNCHANGED stays

\* A request is carried out.
Block ==
    /\ asked /\ stays' = TRUE
    /\ asked' \in BOOLEAN
    /\ UNCHANGED needed

\* Anything may free the machine: a request, the helper's own care, the kernel.
Free ==
    /\ stays' = FALSE
    /\ asked' => asked
    /\ UNCHANGED needed

Next == ChangeHolds \/ Ask \/ Withdraw \/ Stop \/ Block \/ Free

Spec == Init /\ [][Next]_vars

=============================================================================
