-------------------------- MODULE BroadcastPromise --------------------------
(***************************************************************************)
(* What the protocols that call Node::reliable_broadcast rely on: once the *)
(* message is committed every node is handed it, exactly once and in any   *)
(* order; before that no node is.  The dealer alone decides the message.   *)
(***************************************************************************)
EXTENDS Naturals

CONSTANT Node

VARIABLES
    committed,   \* some node has made sure that the others can decode
    delivered    \* [Node -> Nat]: messages handed to each node

pvars == <<committed, delivered>>

Init ==
    /\ committed = FALSE
    /\ delivered = [i \in Node |-> 0]

Commit ==
    /\ ~committed
    /\ committed' = TRUE
    /\ UNCHANGED delivered

Deliver(i) ==
    /\ committed
    /\ delivered[i] = 0
    /\ delivered' = [delivered EXCEPT ![i] = 1]
    /\ UNCHANGED committed

Next == Commit \/ \E i \in Node : Deliver(i)

Spec == Init /\ [][Next]_pvars

FairSpec == Spec /\ WF_pvars(Commit) /\ \A i \in Node : WF_pvars(Deliver(i))
=============================================================================
