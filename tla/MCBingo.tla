------------------------------ MODULE MCBingo ------------------------------
EXTENDS Bingo, TLC
Symmetry ==
    Permutations(Dealt \ Byz) \cup Permutations(Node \ (Dealt \cup Byz))

(* TLC reports a state that has no step as a deadlock, unless it is quiet: *)
(* Quiet leaves out no state in which the operation stops.                 *)
Stopped == Quiet /\ UNCHANGED vars
StoppingSpec == Init /\ [][Next \/ Stopped]_vars
=============================================================================
