------------------------------- MODULE Bingo -------------------------------
(***************************************************************************)
(* The sharing step of nodes/src/bingo, one operation: the dealer reliably *)
(* broadcasts the commitment and sends each node its line; a node opens    *)
(* its line for all (NewCol); T+1 openings let any node send everyone a    *)
(* row (NewRow); 2T+1 rows rebuild a line; 2T+1 Dones end the operation.   *)
(*                                                                         *)
(* Four tasks of a node (verify_my_line, col_manager, line_manager and     *)
(* done_manager) share its CryptoSet and talk through channels.  Shares    *)
(* are abstracted to whether they verify, which those of a Byzantine node  *)
(* do not.  A task that counts messages up to a threshold takes one step,  *)
(* at the message that reaches it: until then the count is known to no     *)
(* one else, and messages may be delivered late, so only how many have     *)
(* been sent matters.                                                      *)
(***************************************************************************)
EXTENDS Integers, FiniteSets, Sequences

CONSTANTS
    Node,   \* the nodes of the operation
    T,      \* Configuration::t
    Dealt,  \* the nodes that the dealer sends a line to: all, or n - t
    Byz     \* the nodes whose is_byz is set

ASSUME BingoAssumption ==
    /\ IsFiniteSet(Node) /\ T \in Nat /\ 3 * T < Cardinality(Node)
    /\ Dealt \subseteq Node /\ Byz \subseteq Node

VARIABLES
    committed,   \* the broadcast of the commitment is past its commit point
    delivered,   \* [Node -> 0..1]: BroadcastBingo messages handed over
    line,        \* [Node -> {"none", "opened", "saved"}]: verify_my_line
    rows,        \* nodes whose col_manager has sent its NewRows
    requests,    \* [Node -> Seq({"all", "none"})]: the shares carried by the
                 \* BingoBroadcastDoneRequests on their way to done_manager
    rebuilt,     \* nodes whose line_manager has counted 2T+1 rows
    crashed,     \* nodes whose line_manager has panicked
    announced,   \* nodes whose has_broadcast is set
    counted,     \* nodes that have counted 2T+1 Dones
    shares,      \* nodes with shares in their CryptoSet
    left,        \* nodes that have called Node::output
    reported     \* nodes whose output has reached the node heart

broadcast == <<committed, delivered>>
managers == <<rows, rebuilt, crashed>>
done == <<announced, counted, shares, left>>
vars == <<broadcast, line, requests, managers, done, reported>>

Init ==
    /\ committed = FALSE
    /\ delivered = [i \in Node |-> 0]
    /\ line = [i \in Node |-> "none"]
    /\ requests = [i \in Node |-> <<>>]
    /\ rows = {} /\ rebuilt = {} /\ crashed = {}
    /\ announced = {} /\ counted = {} /\ shares = {}
    /\ left = {} /\ reported = {}

(* The broadcast of the commitment keeps the promise of ReliableBroadcast. *)
Commitment == INSTANCE BroadcastPromise

-----------------------------------------------------------------------------
(* What has been sent.  NewCol and Done go to every node at once; a NewCol *)
(* or NewRow of a Byzantine node does not verify, and it sends no Done.    *)
Opened == {i \in Node : line[i] # "none"}
ValidCols == Opened \ Byz
ValidRows == rows \ Byz
Dones == announced \ Byz

(* The managers of i run from the commitment until the output is reported; *)
(* after Node::output a message that was queued may still be handled.      *)
Running(i) == delivered[i] = 1 /\ i \notin reported

(* send_message of a BingoBroadcastDoneRequest: nothing once im_done.      *)
Request(i, load) ==
    requests' = IF i \in left THEN requests
                ELSE [requests EXCEPT ![i] = Append(@, load)]

(* Node::output, which done_manager calls once: it then ignores requests.  *)
Leave(i) ==
    /\ left' = left \cup {i}
    /\ requests' = [requests EXCEPT ![i] = <<>>]

CommitmentStep ==
    /\ Commitment!Commit \/ \E i \in Node : Commitment!Deliver(i)
    /\ UNCHANGED <<line, requests, managers, done, reported>>

(* verify_my_line opens the line at every node's point, one proof after    *)
(* another, and asks for a Done with its own openings when all are sent.   *)
(* A corrupted dealer sends some nodes no line, and no invalid one.        *)
OpenMyLine(i) ==
    /\ Running(i)
    /\ i \in Dealt
    /\ line[i] = "none"
    /\ line' = [line EXCEPT ![i] = "opened"]
    /\ UNCHANGED <<broadcast, requests, managers, done, reported>>

(* The variant asks for a Done without them.                               *)
ForgetMyLine(i) ==
    /\ line[i] = "opened"
    /\ line' = [line EXCEPT ![i] = "saved"]
    /\ Request(i, "none")
    /\ UNCHANGED <<broadcast, managers, done, reported>>

SaveMyLine(i) ==
    /\ line[i] = "opened"
    /\ line' = [line EXCEPT ![i] = "saved"]
    /\ Request(i, "all")
    /\ UNCHANGED <<broadcast, managers, done, reported>>

(* Columns that determine a row.  The variant is one short.                *)
TooFewCols == T
EnoughCols == T + 1

(* col_manager at its (T+1)-th valid column.                               *)
SendRows(i) ==
    /\ Running(i)
    /\ i \notin rows
    /\ Cardinality(ValidCols) >= EnoughCols
    /\ rows' = rows \cup {i}
    /\ Request(i, "none")
    /\ UNCHANGED <<broadcast, line, rebuilt, crashed, done, reported>>

(* line_manager at its (2T+1)-th row, unless the CryptoSet is full.        *)
Rebuild(i) ==
    /\ Running(i)
    /\ i \notin rebuilt \cup crashed \cup shares
    /\ Cardinality(ValidRows) >= 2 * T + 1
    /\ rebuilt' = rebuilt \cup {i}
    /\ Request(i, "all")
    /\ UNCHANGED <<broadcast, line, rows, crashed, done, reported>>

(* line_manager asserts that a row verifies.                               *)
RefuseRow(i) ==
    /\ Running(i)
    /\ i \notin crashed \cup shares
    /\ rows \cap Byz # {}
    /\ crashed' = crashed \cup {i}
    /\ UNCHANGED <<broadcast, line, requests, rows, rebuilt, done, reported>>

(* done_manager takes a request: the first one sets has_broadcast, saves   *)
(* the shares it carries and sends Done; the others are dropped.  The node *)
(* leaves if it has the Dones already; the variant does not look.          *)
Announce(i) ==
    /\ announced' = announced \cup {i}
    /\ shares' = IF i \notin announced /\ Head(requests[i]) = "all"
                 THEN shares \cup {i} ELSE shares
    /\ UNCHANGED <<broadcast, line, managers, counted, reported>>

TakeRequestBlindly(i) ==
    /\ requests[i] # <<>>
    /\ Announce(i)
    /\ requests' = [requests EXCEPT ![i] = Tail(@)]
    /\ UNCHANGED left

TakeRequest(i) ==
    /\ requests[i] # <<>>
    /\ Announce(i)
    /\ \/ /\ i \notin announced /\ i \in counted
          /\ Leave(i)
       \/ /\ ~(i \notin announced /\ i \in counted)
          /\ requests' = [requests EXCEPT ![i] = Tail(@)]
          /\ UNCHANGED left

(* done_manager counts the (2T+1)-th Done, and leaves if the node has sent *)
(* its own.                                                                *)
CountDones(i) ==
    /\ Running(i)
    /\ i \notin counted
    /\ Cardinality(Dones) >= 2 * T + 1
    /\ counted' = counted \cup {i}
    /\ IF i \in announced THEN Leave(i) ELSE UNCHANGED <<left, requests>>
    /\ UNCHANGED <<broadcast, line, managers, announced, shares, reported>>

(* Node::output awaits the node's tasks, unwraps what they end with, and   *)
(* only then reports to the heart.                                         *)
Report(i) ==
    /\ i \in left \ reported
    /\ i \notin crashed
    /\ line[i] # "opened"
    /\ reported' = reported \cup {i}
    /\ UNCHANGED <<broadcast, line, requests, managers, done>>

NodeStep(i) ==
    \/ OpenMyLine(i) \/ SaveMyLine(i)
    \/ SendRows(i)
    \/ Rebuild(i) \/ RefuseRow(i)
    \/ TakeRequest(i) \/ CountDones(i)
    \/ Report(i)

Next == CommitmentStep \/ \E i \in Node : NodeStep(i)

Spec == Init /\ [][Next]_vars

-----------------------------------------------------------------------------
TypeOK ==
    /\ committed \in BOOLEAN
    /\ delivered \in [Node -> 0..1]
    /\ line \in [Node -> {"none", "opened", "saved"}]
    /\ requests \in [Node -> Seq({"all", "none"})]
    /\ rows \subseteq Node /\ rebuilt \subseteq Node /\ crashed \subseteq Node
    /\ announced \subseteq Node /\ counted \subseteq Node
    /\ shares \subseteq announced
    /\ reported \subseteq left /\ left \subseteq announced \cap counted

(* Nobody leaves before T+1 correct nodes have opened their lines, so that *)
(* the dealer's polynomial is fixed: a Done may stand on columns instead   *)
(* of a line, but the columns stand on lines.                              *)
LeavingFixesTheSecret ==
    left # {} => Cardinality(ValidCols) >= T + 1

(* A node without shares got past done_manager with the empty request of   *)
(* its col_manager, so it has sent its rows to the others.                 *)
EmptyHandedSentRows == announced \ shares \subseteq rows

(* Every node that leaves has shares to reconstruct from: the assertion    *)
(* that Node::output keeps as a comment.                                   *)
NoOneLeavesEmptyHanded == left \subseteq shares

(* The tasks of i have nothing to do, whatever they have done.             *)
Settled(i) ==
    /\ line[i] # "opened" /\ requests[i] = <<>>
    /\ i \in left => i \in reported \cup crashed
    /\ Running(i) =>
         /\ i \in Dealt => line[i] # "none"
         /\ Cardinality(ValidCols) >= EnoughCols => i \in rows
         /\ Cardinality(ValidRows) >= 2 * T + 1
              => i \in rebuilt \cup crashed \cup shares
         /\ rows \cap Byz # {} => i \in crashed \cup shares
         /\ Cardinality(Dones) >= 2 * T + 1 => i \in counted

Quiet ==
    /\ committed /\ \A i \in Node : delivered[i] = 1
    /\ \A i \in Node : Settled(i)

(* When no task has anything left to do every node has left, with a        *)
(* corrupted dealer and with up to T Byzantine nodes that send no Done,    *)
(* although a node that has left may never open its line or send its rows. *)
(* Every step brings the operation forward, so this is where it ends.  And *)
(* the output of a node reaches the heart, unless its line_manager         *)
(* panicked.                                                               *)
EveryoneLeavesInTheEnd ==
    Quiet => left = Node /\ Node \ crashed \subseteq reported
=============================================================================
