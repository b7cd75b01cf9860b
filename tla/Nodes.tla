-------------------------------- MODULE Nodes --------------------------------
(***************************************************************************)
(* The nodes of an operation, as nodes/src/node/configuration.rs gives     *)
(* them to every protocol.                                                 *)
(***************************************************************************)
EXTENDS Integers, FiniteSets

CONSTANTS
    Node,   \* the nodes of the operation
    T,      \* Configuration::t
    Served, \* the nodes that a corrupted dealer serves: all but t
    Byz     \* the nodes whose is_byz is set

ASSUME NodesAssumption ==
    /\ IsFiniteSet(Node) /\ T \in Nat /\ 3 * T < Cardinality(Node)
    /\ Served \subseteq Node /\ Byz \subseteq Node

N == Cardinality(Node)
=============================================================================
