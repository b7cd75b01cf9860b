------------------------------ MODULE AvssSimpl ------------------------------
(***************************************************************************)
(* The sharing step of nodes/src/avss_simpl, for AvssSimpl and its dual    *)
(* version: the dealer sends each node its share, waits for 2T+1 valid     *)
(* signatures, and broadcasts the shares of the nodes whose signature it   *)
(* has not.  A node outputs when the broadcast hands it that list, which   *)
(* it checks to cover every node once; its own share may still be on its   *)
(* way.                                                                    *)
(***************************************************************************)
EXTENDS Operation

VARIABLES
    received,   \* nodes that have handled the dealer's Share
    signs,      \* the nodes whose signatures the dealer has taken
    plain,      \* the list: nodes whose shares are in it,
    encrypted,  \* and nodes whose shares are in it encrypted
    held        \* [Node -> SUBSET Node]: the shares in a node's set

theList == <<signs, plain, encrypted>>
avssVars == <<received, theList, held>>

AvssInit ==
    /\ received = {} /\ signs = {} /\ plain = {} /\ encrypted = {}
    /\ held = [i \in Node |-> {}]

(* first_receiv.  The share of a node that is not served is empty and has  *)
(* no effect.  The variant signs before it saves, and never saves.         *)
SignUnsaved(i) ==
    /\ i \in Reached \ (received \cup left)
    /\ received' = received \cup {i}
    /\ UNCHANGED <<opVars, broadcastVars, theList, held>>

FirstReceive(i) ==
    /\ i \in Reached \ (received \cup left)
    /\ received' = received \cup {i}
    /\ held' = [held EXCEPT ![i] = @ \cup {i}]
    /\ UNCHANGED <<opVars, broadcastVars, theList>>

(* A Byzantine node fakes its signature, which the dealer passes over.     *)
Acked == received \ Byz

(* wait_for_signs, until it has 2T+1.                                      *)
TakeSign(i) ==
    /\ Cardinality(signs) < 2 * T + 1
    /\ i \in Acked \ signs
    /\ signs' = signs \cup {i}
    /\ UNCHANGED <<opVars, broadcastVars, received, plain, encrypted, held>>

(* The shares that are left when one is removed at each signature.  The    *)
(* variant removes them as the nodes sign.                                 *)
Unsigned == Node \ Acked
Missing == Node \ signs

(* broadcast_missing_share.  If l > t, all but r = 2t - l of the missing   *)
(* shares are encrypted.                                                   *)
BroadcastMissing ==
    /\ Cardinality(signs) = 2 * T + 1
    /\ Broadcast!Commit
    /\ \E P \in SUBSET Missing :
           /\ P = Missing \/ Cardinality(P) < T
           /\ plain' = P /\ encrypted' = Missing \ P
    /\ UNCHANGED <<opVars, received, signs, held>>

HandOver(i) ==
    /\ Broadcast!Deliver(i)
    /\ UNCHANGED <<opVars, avssVars>>

(* The assertions on shares_set in verify_and_output.                      *)
ListCovers ==
    /\ signs \cup plain \cup encrypted = Node
    /\ plain \cap (signs \cup encrypted) = {}

(* verify_and_output: a node decrypts its own share unless it has it.      *)
VerifyAndOutput(i) ==
    /\ i \notin left /\ delivered[i] = 1 /\ ListCovers
    /\ held' = [held EXCEPT ![i] = @ \cup plain \cup (encrypted \cap {i})]
    /\ Output(i)
    /\ UNCHANGED <<broadcastVars, received, theList>>

AvssNext ==
    \/ BroadcastMissing
    \/ \E i \in Node :
           \/ FirstReceive(i) \/ TakeSign(i)
           \/ HandOver(i) \/ VerifyAndOutput(i)

(* No message that has been sent moves a node, nor any signature the       *)
(* dealer.                                                                 *)
AvssQuiet ==
    /\ Cardinality(signs) < 2 * T + 1 => Acked \subseteq signs
    /\ Cardinality(signs) = 2 * T + 1 => committed
    /\ committed => \A i \in Node : delivered[i] = 1
    /\ \A i \in Node \ left :
           /\ i \in Reached => i \in received
           /\ delivered[i] = 1 => ~ListCovers

AvssTypeOK ==
    /\ received \subseteq Node /\ signs \subseteq Acked
    /\ plain \subseteq Node /\ encrypted \subseteq Node
    /\ held \in [Node -> SUBSET Node]

(* A node that has left holds its own share, although what it outputs on   *)
(* is a list of other nodes' shares: a node whose share is not in the list *)
(* has signed, and it saves its share before it signs.                     *)
LeavesWithItsShare == \A i \in left : i \in held[i]
=============================================================================
