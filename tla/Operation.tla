------------------------------ MODULE Operation ------------------------------
(***************************************************************************)
(* What every sharing has in common, as nodes/src/node/node.rs runs it:    *)
(* the nodes its dealer serves, its reliable broadcast, and the nodes that *)
(* have left it.                                                           *)
(*                                                                         *)
(* Node::output spawns the task that sets im_done; a call and its task are *)
(* one step, for what a node does between the two changes nothing that     *)
(* another one sees.  After it the node sends and takes no message.        *)
(***************************************************************************)
EXTENDS Nodes

VARIABLES
    corrupted, \* Configuration::dealer_corruption, known to every node
    left,      \* nodes whose im_done is set
    committed, \* the dealer's broadcast is past its commit point
    delivered  \* [Node -> 0..1]: messages of it handed over

opVars == <<corrupted, left>>
broadcastVars == <<committed, delivered>>

(* dealer_corruption() is t nodes when the flag is set.                    *)
Reached == IF corrupted THEN Served ELSE Node

(* Configuration::from_fields and Node::new: the flag is 0 or 1.           *)
OpInit ==
    /\ corrupted \in BOOLEAN /\ left = {}
    /\ committed = FALSE /\ delivered = [i \in Node |-> 0]

Broadcast == INSTANCE BroadcastPromise

(* Node::output, in the step Sharing.                                      *)
Output(i) == left' = left \cup {i} /\ UNCHANGED corrupted

AtLeast(k, S) == Cardinality(S) >= k

OpTypeOK ==
    /\ corrupted \in BOOLEAN /\ left \subseteq Node
    /\ committed \in BOOLEAN /\ delivered \in [Node -> 0..1]
=============================================================================
