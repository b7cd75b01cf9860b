---------------------------- MODULE MCOperations ----------------------------
EXTENDS Operations, TLC
Symmetry ==
    Permutations(Served \ Byz) \cup Permutations(Node \ (Served \cup Byz))

(* TLC reports a state that has no step as a deadlock, unless it is quiet. *)
Stopped == Quiet /\ UNCHANGED allVars
StoppingSpec == Init /\ [][Next \/ Stopped]_allVars
=============================================================================
