------------------------- MODULE ReliableBroadcast -------------------------
(***************************************************************************)
(* The reliable broadcast of nodes/src/broadcast, for one operation and    *)
(* one message kind: the dealer sends Propose, every node that receives it *)
(* sends to each other node that node's Reed-Solomon share (Echo), and a   *)
(* node relays its own share once it has seen enough (Ready).  A node      *)
(* outputs by decoding the shares it holds, at its (2T+1)-th Ready.        *)
(*                                                                         *)
(* What is left out: the message and its hash.  A kind has one proposer    *)
(* and one message per operation, so every hash check of a run compares    *)
(* the same two values; what tells one Ready from another is whether it    *)
(* carries a share, since a node relays `my_share' even while it is empty. *)
(***************************************************************************)
EXTENDS Integers, FiniteSets

CONSTANTS
    Node,    \* the nodes of the operation
    Served   \* the nodes the dealer sends Propose to (all, or n - t of them)

(* With two nodes or less t is 0: broadcast_ready then finds no share of    *)
(* its own at the quorum of Echoes either, and sends again.                *)
ASSUME NodeAssumption == IsFiniteSet(Node) /\ Cardinality(Node) >= 3
ASSUME ServedAssumption == Served \subseteq Node

N == Cardinality(Node)
T == N \div 3     \* encode_message: n / 3

(* Shares to decode, and Readies that make a node relay: `datas.t'.        *)
Enough == T + 1

(* Echoes to relay and Readies to output: `2 * datas.t - 1'.  The variant  *)
(* takes `datas.t' for t.                                                  *)
QuorumOfDatasT == 2 * Enough + 1
Quorum == 2 * Enough - 1

VARIABLES
    proposals,  \* nodes a Propose is in flight to
    echoes,     \* [Node -> Nat]: Echoes in flight to each node; all carry a
                \* share, and the receiver puts its own index on it
    readies,    \* Readies in flight: <<from, to>>
    manager,    \* [Node -> {"none", "open", "done"}]: the entry of `proposed'
    echo,       \* [Node -> Nat]: Echoes counted
    ready,      \* [Node -> Nat]: Readies counted
    holds,      \* nodes whose my_share is not empty
    shares,     \* [Node -> SUBSET Node]: indices of the decoder's shares
    relayed,    \* nodes whose ready_state is Ready
    bare,       \* nodes whose Ready carries an empty share
    delivered,  \* [Node -> Nat]: messages handed to the node by output()
    starved,    \* nodes whose decode() failed for want of shares
    rejected    \* nodes whose decoder refused a share it already had

net == <<proposals, echoes, readies>>
outcome == <<delivered, starved>>
vars == <<net, manager, echo, ready, holds, shares, relayed, bare, outcome,
          rejected>>

Init ==
    /\ proposals = Served
    /\ echoes = [i \in Node |-> 0]
    /\ readies = {}
    /\ manager = [i \in Node |-> "none"]
    /\ echo = [i \in Node |-> 0]
    /\ ready = [i \in Node |-> 0]
    /\ holds = {}
    /\ shares = [i \in Node |-> {}]
    /\ relayed = {}
    /\ bare = {}
    /\ delivered = [i \in Node |-> 0]
    /\ starved = {}
    /\ rejected = {}

-----------------------------------------------------------------------------
(* broadcast_ready: once, to every other node, with my_share as it is at   *)
(* that moment (`mine': it is not empty).  `taken' is the Ready that the   *)
(* handler is working on, if any.                                          *)
(* The variant forgets to set ready_state.                                 *)
ForgetsRelay(i, mine, taken) ==
    /\ readies' = (readies \ taken) \cup ({i} \X (Node \ {i}))
    /\ bare' = IF mine THEN bare ELSE bare \cup {i}
    /\ UNCHANGED relayed

BroadcastReady(i, mine, taken) ==
    /\ relayed' = relayed \cup {i}
    /\ IF i \in relayed
       THEN /\ readies' = readies \ taken
            /\ UNCHANGED bare
       ELSE /\ readies' = (readies \ taken) \cup ({i} \X (Node \ {i}))
            /\ bare' = IF mine THEN bare ELSE bare \cup {i}

NoRelay(taken) ==
    /\ readies' = readies \ taken
    /\ UNCHANGED <<relayed, bare>>

(* decode() needs Enough distinct shares.                                  *)
Decodes(got) == Cardinality(got) >= Enough

(* output: decode() panics without them.  The variant asks for one more.   *)
OutputOfMore(i, got) ==
    IF Cardinality(got) > Enough
    THEN /\ delivered' = [delivered EXCEPT ![i] = @ + 1]
         /\ UNCHANGED starved
    ELSE /\ starved' = starved \cup {i}
         /\ UNCHANGED delivered

Output(i, got) ==
    IF Decodes(got)
    THEN /\ delivered' = [delivered EXCEPT ![i] = @ + 1]
         /\ UNCHANGED starved
    ELSE /\ starved' = starved \cup {i}
         /\ UNCHANGED delivered

(* The Ready that makes add_ready output and answer true.  The variant has *)
(* every later one do so too.                                              *)
OutputsFrom(r) == r >= Quorum
Outputs(r) == r = Quorum

(* MessageManager::add_ready of node i, for a Ready of j with a share      *)
(* (`full') or without; `got' is the decoder after it.  `closes' says that *)
(* BroadcastMemory drops the manager when the result is true: only its own *)
(* add_ready does, and only for a manager it already had.                  *)
CountReady(i, j, full, mine, taken, closes) ==
    LET got == IF full THEN shares[i] \cup {j} ELSE shares[i]
        r == ready[i] + 1
        done == closes /\ Outputs(r)
    IN IF full /\ j \in shares[i]
       THEN /\ rejected' = rejected \cup {i}
            /\ NoRelay(taken)
            /\ UNCHANGED <<manager, ready, shares, outcome>>
       ELSE /\ shares' = [shares EXCEPT ![i] = got]
            /\ ready' = [ready EXCEPT ![i] = r]
            /\ \/ /\ r = Enough
                  /\ BroadcastReady(i, mine, taken)
                  /\ UNCHANGED outcome
               \/ /\ r # Enough
                  /\ NoRelay(taken)
                  /\ IF Outputs(r) THEN Output(i, got) ELSE UNCHANGED outcome
            /\ manager' = [manager EXCEPT ![i] =
                             IF done /\ i \notin starved' THEN "done" ELSE "open"]
            /\ UNCHANGED rejected

(* MessageManager::add_echo of node i.  The first Echo gives my_share and  *)
(* counts as a Ready of i itself, unless it also is the Quorum-th.         *)
CountEcho(i) ==
    /\ manager[i] # "done"
    /\ echo' = [echo EXCEPT ![i] = @ + 1]
    /\ \/ /\ echo[i] + 1 = Quorum
          /\ BroadcastReady(i, i \in holds, {})
          /\ manager' = [manager EXCEPT ![i] = "open"]
          /\ UNCHANGED <<ready, holds, shares, outcome, rejected>>
       \/ /\ echo[i] + 1 # Quorum
          /\ i \notin holds
          /\ holds' = holds \cup {i}
          /\ CountReady(i, i, TRUE, TRUE, {}, FALSE)
       \/ /\ echo[i] + 1 # Quorum
          /\ i \in holds
          /\ NoRelay({})
          /\ manager' = [manager EXCEPT ![i] = "open"]
          /\ UNCHANGED <<ready, holds, shares, outcome, rejected>>

-----------------------------------------------------------------------------
(* The handlers of BroadcastMemory.  Each runs in a task of its own under  *)
(* the memory's lock, so a step takes one message, any one, to the end.    *)

(* propose: encode, echo to the others and count the echo to oneself.      *)
ReceivePropose(i) ==
    /\ i \in proposals
    /\ proposals' = proposals \ {i}
    /\ echoes' = [j \in Node |-> IF j = i THEN echoes[j] ELSE echoes[j] + 1]
    /\ CountEcho(i)

ReceiveEcho(i) ==
    /\ echoes[i] > 0
    /\ echoes' = [echoes EXCEPT ![i] = @ - 1]
    /\ CountEcho(i)
    /\ UNCHANGED proposals

ReceiveReady(i, j) ==
    /\ <<j, i>> \in readies
    /\ manager[i] # "done"
    /\ CountReady(i, j, j \notin bare, i \in holds, {<<j, i>>},
                  manager[i] = "open")
    /\ UNCHANGED <<proposals, echoes, echo, holds>>

(* A node whose manager is dropped (Some(None)) ignores every message.  No *)
(* order of the discarded messages can be told from another.               *)
Ignore(i) ==
    /\ manager[i] = "done"
    /\ i \in proposals \/ echoes[i] > 0 \/ \E j \in Node : <<j, i>> \in readies
    /\ proposals' = proposals \ {i}
    /\ echoes' = [echoes EXCEPT ![i] = 0]
    /\ readies' = readies \ (Node \X {i})
    /\ UNCHANGED <<manager, echo, ready, holds, shares, relayed, bare, outcome,
                   rejected>>

Receive(i) ==
    \/ ReceivePropose(i)
    \/ ReceiveEcho(i)
    \/ \E j \in Node : ReceiveReady(i, j)
    \/ Ignore(i)

Next == \E i \in Node : Receive(i)

Spec == Init /\ [][Next]_vars

(* A message put in a channel is handled: tokio runs every spawned task.   *)
FairSpec == Spec /\ \A i \in Node : WF_vars(Receive(i))

-----------------------------------------------------------------------------
TypeOK ==
    /\ proposals \subseteq Served
    /\ echoes \in [Node -> Nat]
    /\ readies \subseteq Node \X Node
    /\ manager \in [Node -> {"none", "open", "done"}]
    /\ echo \in [Node -> Nat]
    /\ ready \in [Node -> Nat]
    /\ holds \subseteq Node
    /\ shares \in [Node -> SUBSET Node]
    /\ relayed \subseteq Node
    /\ bare \subseteq relayed
    /\ delivered \in [Node -> Nat]
    /\ starved \subseteq Node
    /\ rejected \subseteq Node

Finished(i) == delivered[i] > 0 \/ i \in starved

(* No Ready is sent on the strength of Readies alone: before the first one *)
(* leaves, some node has counted a quorum of Echoes, although every node   *)
(* counts a Ready of its own at its first Echo, before it sends any.       *)
RelayNeedsEchoQuorum ==
    relayed # {} => \E i \in Node : echo[i] >= Quorum

(* The decode of output() runs at most once in a node: the (2T+1)-th Ready *)
(* is counted once, whether add_ready or the first Echo counts it, and     *)
(* whether or not the manager is dropped afterwards.                       *)
OneOutput ==
    \A i \in Node : delivered[i] <= 1 /\ (i \in starved => delivered[i] = 0)

(* add_recovery_shard never fails: no decoder is given the same index      *)
(* twice, the node's own index, added at its first Echo, included.         *)
NoShareTwice == rejected = {}

(* A node that has left the protocol has sent its Ready, so the others can *)
(* count on it; ignoring its late Propose and Echoes is then harmless.     *)
DoneHasRelayed ==
    \A i \in Node : manager[i] = "done" => i \in relayed

(* decode() never runs on too few shares.  It holds unless n = 3T + 2: the *)
(* first Ready finds at least 2T+1 nodes holding a share, so the others    *)
(* can relay at most n - 2T - 1 empty ones.                                *)
NeverStarved == starved = {}

(* At most T + 1 nodes relay an empty share, for every n of at least 3.    *)
FewBare == T > 0 => Cardinality(bare) <= T + 1

Quiet == proposals = {} /\ readies = {} /\ \A i \in Node : echoes[i] = 0

(* When nothing is left in flight every node has run its output(): no node *)
(* is left waiting for a Ready or an Echo that a finished node withheld.   *)
QuietMeansFinished == Quiet => \A i \in Node : Finished(i)

-----------------------------------------------------------------------------
(* The broadcast commits when the first node counts a quorum of Echoes.    *)
Committed == \E i \in Node : echo[i] >= Quorum

Promise == INSTANCE BroadcastPromise WITH committed <- Committed

(* The protocol keeps the promise its callers rely on: no delivery before  *)
(* the commit point, and one for each node.                                *)
KeepsPromise == Promise!Spec

(* With a dealer that serves every node the promise is also kept in the    *)
(* end: the broadcast commits and every node delivers.                     *)
KeepsPromiseInTheEnd == Promise!FairSpec
=============================================================================
