------------------------------ MODULE MCHolds ------------------------------
(* Holds on small instances. *)
EXTENDS Holds, TLC

CONSTANTS j1, k1, r1, h1, h2

\* One job, watched as the run's configuration says.
MarkJob == [j \in Job |-> "mark"]
PatternJob == [j \in Job |-> "pattern"]

Handlers == Permutations(Handler)

=============================================================================
