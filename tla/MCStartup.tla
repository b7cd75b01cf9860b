------------------------------ MODULE MCStartup ------------------------------
EXTENDS Startup

(* One network of two nodes, and two networks of one.                      *)
TwoOrTwice == {<<2>>, <<1, 1>>}

(* Process ids that u16 holds, and some that it does not.                  *)
Small == [x \in Node |-> 1000 * x[1] + x[3]]
Mixed == [x \in Node |-> IF x[1] = 1 THEN 2^16 + 2000 + x[3] ELSE 2000 + x[3]]
SmallOrMixed == {Small, Mixed}

(* While the interface runs, nothing but a Stop follows a state only if it *)
(* is Quiet: TLC reports a deadlock if Quiet leaves out such a state.      *)
Stopping == (ENABLED Work \/ Quiet) /\ (Stop \/ UNCHANGED vars)

StoppingSpec == Init /\ [][Start \/ Work \/ Stopping]_vars
=============================================================================
