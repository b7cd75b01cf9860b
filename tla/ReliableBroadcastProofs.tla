---------------------- MODULE ReliableBroadcastProofs ----------------------
(***************************************************************************)
(* Theorems about ReliableBroadcast, for every finite set of nodes and     *)
(* every set of nodes the dealer serves.                                   *)
(***************************************************************************)
EXTENDS ReliableBroadcast, FiniteSetTheorems, TLAPS

(* The thresholds are natural numbers and 3T <= N <= 3T + 2.               *)
LEMMA Thresholds ==
    /\ N \in Nat /\ T \in Nat /\ Quorum \in Nat /\ Enough \in Nat
    /\ Enough = T + 1 /\ Quorum = 2 * T + 1
    /\ 3 * T <= N /\ N <= 3 * T + 2
<1>1. N \in Nat
  BY NodeAssumption, FS_CardinalityType DEF N
<1>2. T \in Nat /\ 3 * T <= N /\ N <= 3 * T + 2
  BY <1>1 DEF T
<1>. QED  BY <1>1, <1>2 DEF Quorum, Enough

-----------------------------------------------------------------------------
(* Type correctness, one lemma for each operator that a handler is made of. *)

LEMMA BroadcastReadyType ==
    ASSUME TypeOK, NEW i \in Node, NEW mine, NEW taken,
           BroadcastReady(i, mine, taken)
    PROVE  /\ readies' \subseteq Node \X Node
           /\ relayed' \subseteq Node
           /\ bare' \subseteq relayed'
BY DEF BroadcastReady, TypeOK

LEMMA CountReadyType ==
    ASSUME TypeOK, NEW i \in Node, NEW j \in Node,
           NEW full, NEW mine, NEW taken,
           NEW closes,
           CountReady(i, j, full, mine, taken, closes)
    PROVE  /\ readies' \subseteq Node \X Node
           /\ manager' \in [Node -> {"none", "open", "done"}]
           /\ ready' \in [Node -> Nat]
           /\ shares' \in [Node -> SUBSET Node]
           /\ relayed' \subseteq Node
           /\ bare' \subseteq relayed'
           /\ delivered' \in [Node -> Nat]
           /\ starved' \subseteq Node
           /\ rejected' \subseteq Node
<1>. USE DEF TypeOK
<1>1. CASE full /\ j \in shares[i]
  BY <1>1 DEF CountReady, NoRelay, outcome
<1>2. CASE ~(full /\ j \in shares[i])
  <2>1. /\ shares' \in [Node -> SUBSET Node]
        /\ ready' \in [Node -> Nat]
        /\ manager' \in [Node -> {"none", "open", "done"}]
        /\ rejected' \subseteq Node
    BY <1>2 DEF CountReady
  <2>2. CASE ready[i] + 1 = Enough
    BY <1>2, <2>1, <2>2, BroadcastReadyType DEF CountReady, outcome
  <2>3. CASE ready[i] + 1 # Enough
    BY <1>2, <2>1, <2>3 DEF CountReady, NoRelay, Output, Decodes, outcome
  <2>. QED  BY <2>2, <2>3
<1>. QED  BY <1>1, <1>2

LEMMA CountEchoType ==
    ASSUME TypeOK, NEW i \in Node, CountEcho(i)
    PROVE  /\ readies' \subseteq Node \X Node
           /\ manager' \in [Node -> {"none", "open", "done"}]
           /\ echo' \in [Node -> Nat]
           /\ ready' \in [Node -> Nat]
           /\ holds' \subseteq Node
           /\ shares' \in [Node -> SUBSET Node]
           /\ relayed' \subseteq Node
           /\ bare' \subseteq relayed'
           /\ delivered' \in [Node -> Nat]
           /\ starved' \subseteq Node
           /\ rejected' \subseteq Node
<1>1. echo' \in [Node -> Nat]
  BY DEF CountEcho, TypeOK
<1>2. CASE echo[i] + 1 = Quorum
  BY <1>1, <1>2, BroadcastReadyType DEF CountEcho, TypeOK, outcome
<1>3. CASE echo[i] + 1 # Quorum /\ i \notin holds
  BY <1>1, <1>3, CountReadyType DEF CountEcho, TypeOK
<1>4. CASE echo[i] + 1 # Quorum /\ i \in holds
  BY <1>1, <1>4 DEF CountEcho, NoRelay, TypeOK, outcome
<1>. QED  BY <1>2, <1>3, <1>4

LEMMA TypeStep == TypeOK /\ [Next]_vars => TypeOK'
<1>. SUFFICES ASSUME TypeOK, [Next]_vars PROVE TypeOK'
  OBVIOUS
<1>1. ASSUME NEW i \in Node, ReceivePropose(i) PROVE TypeOK'
  BY <1>1, CountEchoType DEF ReceivePropose, TypeOK
<1>2. ASSUME NEW i \in Node, ReceiveEcho(i) PROVE TypeOK'
  BY <1>2, CountEchoType DEF ReceiveEcho, TypeOK
<1>3. ASSUME NEW i \in Node, NEW j \in Node, ReceiveReady(i, j) PROVE TypeOK'
  BY <1>3, CountReadyType DEF ReceiveReady, TypeOK
<1>4. ASSUME NEW i \in Node, Ignore(i) PROVE TypeOK'
  BY <1>4 DEF Ignore, TypeOK, outcome
<1>5. CASE UNCHANGED vars
  BY <1>5 DEF vars, net, outcome, TypeOK
<1>. QED  BY <1>1, <1>2, <1>3, <1>4, <1>5 DEF Next, Receive

(* Every reachable state is well typed; in particular no node counts an    *)
(* Echo that was never sent to it.                                         *)
THEOREM TypeCorrect == Spec => []TypeOK
<1>1. Init => TypeOK
  BY ServedAssumption DEF Init, TypeOK
<1>. QED  BY <1>1, TypeStep, PTL DEF Spec
-----------------------------------------------------------------------------
(* The commit point.  Until some node has counted Quorum Echoes nobody has *)
(* relayed, and the only Ready a node may have counted is its own; a node  *)
(* that has counted Quorum Echoes has relayed.                             *)
CommitInv ==
    /\ \A i \in Node : echo[i] >= Quorum => i \in relayed
    /\ ~Committed =>
         /\ relayed = {} /\ readies = {}
         /\ \A i \in Node : /\ ready[i] <= 1
                            /\ i \notin holds => ready[i] = 0

(* A step of CountEcho keeps CommitInv.                                    *)
LEMMA CountEchoCommit ==
    ASSUME TypeOK, CommitInv, NEW i \in Node, CountEcho(i)
    PROVE  CommitInv'
<1>. USE Thresholds DEF TypeOK
<1>1. /\ echo' = [echo EXCEPT ![i] = @ + 1]
      /\ \A k \in Node : echo'[k] >= echo[k]
      /\ Committed => Committed'
  BY DEF CountEcho, Committed
<1>2. CASE echo[i] + 1 = Quorum
  <2>1. relayed' = relayed \cup {i}
    BY <1>2 DEF CountEcho, BroadcastReady
  <2>2. Committed'
    BY <1>1, <1>2 DEF Committed
  <2>. QED  BY <1>1, <1>2, <2>1, <2>2 DEF CommitInv
<1>3. CASE echo[i] + 1 # Quorum
  <2>1. relayed \subseteq relayed'
    BY <1>3 DEF CountEcho, CountReady, NoRelay, BroadcastReady
  <2>2. \A k \in Node : echo'[k] >= Quorum => k \in relayed'
    BY <1>1, <1>3, <2>1 DEF CommitInv
  <2>3. ASSUME ~Committed'
        PROVE  /\ relayed' = {} /\ readies' = {}
               /\ \A k \in Node : /\ ready'[k] <= 1
                                  /\ k \notin holds' => ready'[k] = 0
    <3>1. ~Committed /\ T > 0
      BY <1>1, <2>3 DEF Committed
    <3>2. CASE i \in holds
      BY <1>3, <3>1, <3>2 DEF CountEcho, NoRelay, CommitInv
    <3>3. CASE i \notin holds
      <4>1. ready[i] = 0 /\ ready[i] + 1 # Enough /\ ~Outputs(ready[i] + 1)
        BY <3>1, <3>3 DEF CommitInv, Outputs
      <4>2. holds' = holds \cup {i}
        BY <1>3, <3>3 DEF CountEcho
      <4>3. CountReady(i, i, TRUE, TRUE, {}, FALSE)
        BY <1>3, <3>3 DEF CountEcho
      <4>4. /\ relayed' = relayed /\ readies' = readies
            /\ ready' = ready \/ ready' = [ready EXCEPT ![i] = 1]
        <5>1. CASE i \in shares[i]
          BY <4>3, <5>1 DEF CountReady, NoRelay
        <5>2. CASE i \notin shares[i]
          <6>1. ready' = [ready EXCEPT ![i] = ready[i] + 1] /\ NoRelay({})
            BY <4>1, <4>3, <5>2 DEF CountReady
          <6>. QED  BY <4>1, <6>1 DEF NoRelay
        <5>. QED  BY <5>1, <5>2
      <4>. QED  BY <3>1, <3>3, <4>1, <4>2, <4>4 DEF CommitInv
    <3>. QED  BY <3>2, <3>3
  <2>. QED  BY <2>2, <2>3 DEF CommitInv
<1>. QED  BY <1>2, <1>3

LEMMA CommitStep == TypeOK /\ CommitInv /\ [Next]_vars => CommitInv'
<1>. SUFFICES ASSUME TypeOK, CommitInv, [Next]_vars PROVE CommitInv'
  OBVIOUS
<1>1. ASSUME NEW i \in Node, ReceivePropose(i) \/ ReceiveEcho(i)
      PROVE  CommitInv'
  BY <1>1, CountEchoCommit DEF ReceivePropose, ReceiveEcho
<1>2. ASSUME NEW i \in Node, NEW j \in Node, ReceiveReady(i, j)
      PROVE  CommitInv'
  <2>1. Committed
    BY <1>2 DEF ReceiveReady, CommitInv
  <2>2. echo' = echo /\ relayed \subseteq relayed'
    BY <1>2 DEF ReceiveReady, CountReady, NoRelay, BroadcastReady
  <2>. QED  BY <2>1, <2>2 DEF CommitInv, Committed
<1>3. ASSUME NEW i \in Node, Ignore(i) PROVE CommitInv'
  BY <1>3 DEF Ignore, CommitInv, Committed
<1>4. CASE UNCHANGED vars
  BY <1>4 DEF vars, net, CommitInv, Committed
<1>. QED  BY <1>1, <1>2, <1>3, <1>4 DEF Next, Receive

LEMMA CommitCorrect == Spec => []CommitInv
<1>1. Init => CommitInv
  BY Thresholds DEF Init, CommitInv, Committed
<1>. QED  BY <1>1, TypeCorrect, CommitStep, PTL DEF Spec

(* No Ready leaves any node before some node has counted 2T+1 Echoes,      *)
(* although add_echo counts a node's own Ready before it is sent.          *)
THEOREM EchoQuorumFirst == Spec => []RelayNeedsEchoQuorum
<1>1. CommitInv => RelayNeedsEchoQuorum
  BY DEF CommitInv, RelayNeedsEchoQuorum, Committed
<1>. QED  BY <1>1, CommitCorrect, PTL
-----------------------------------------------------------------------------
(* output() has not run before the Quorum-th Ready, and then has one       *)
(* result.                                                                 *)
OutputInv ==
    \A i \in Node :
        /\ ready[i] < Quorum => delivered[i] = 0 /\ i \notin starved
        /\ delivered[i] = 0 \/ (delivered[i] = 1 /\ i \notin starved)

(* Node i is handed the message, which output() does once, at a Ready      *)
(* beyond the first.                                                       *)
Delivers(i) ==
    /\ delivered[i] = 0
    /\ delivered' = [delivered EXCEPT ![i] = 1]
    /\ ready[i] > 1

LEMMA CountReadyOutput ==
    ASSUME TypeOK, OutputInv, NEW i \in Node, NEW j \in Node,
           NEW full, NEW mine, NEW taken, NEW closes,
           CountReady(i, j, full, mine, taken, closes)
    PROVE  OutputInv' /\ (UNCHANGED delivered \/ Delivers(i))
<1>. USE Thresholds DEF TypeOK
<1>1. CASE full /\ j \in shares[i]
  BY <1>1 DEF CountReady, OutputInv, outcome
<1>2. CASE ~(full /\ j \in shares[i])
  <2>1. ready' = [ready EXCEPT ![i] = @ + 1]
    BY <1>2 DEF CountReady
  <2>2. CASE UNCHANGED outcome
    BY <2>1, <2>2 DEF OutputInv, outcome
  <2>3. CASE ~ UNCHANGED outcome
    <3>1. PICK got : Output(i, got)
      BY <1>2, <2>3 DEF CountReady
    <3>2. ready[i] + 1 = Quorum /\ ready[i] + 1 # Enough
      BY <1>2, <2>3 DEF CountReady, Outputs
    <3>3. delivered[i] = 0 /\ i \notin starved /\ ready[i] > 1
      BY <3>2 DEF OutputInv
    <3>4. CASE Cardinality(got) >= Enough
      <4>1. delivered' = [delivered EXCEPT ![i] = 1] /\ starved' = starved
        BY <3>1, <3>3, <3>4 DEF Output, Decodes
      <4>. QED  BY <2>1, <3>2, <3>3, <4>1 DEF OutputInv, Delivers
    <3>5. CASE ~(Cardinality(got) >= Enough)
      <4>1. delivered' = delivered /\ starved' = starved \cup {i}
        BY <3>1, <3>5 DEF Output, Decodes
      <4>. QED  BY <2>1, <3>2, <3>3, <4>1 DEF OutputInv
    <3>. QED  BY <3>4, <3>5
  <2>. QED  BY <2>2, <2>3
<1>. QED  BY <1>1, <1>2

(* An Echo either is the one that commits the broadcast in its node, or it *)
(* leaves the commit point alone and at most delivers.                     *)
LEMMA CountEchoOutput ==
    ASSUME TypeOK, OutputInv, NEW i \in Node, CountEcho(i)
    PROVE  /\ OutputInv'
           /\ \/ Committed' /\ UNCHANGED delivered
              \/ (Committed' <=> Committed) /\ (UNCHANGED delivered \/ Delivers(i))
<1>. USE Thresholds DEF TypeOK
<1>1. echo' = [echo EXCEPT ![i] = @ + 1]
  BY DEF CountEcho
<1>2. CASE echo[i] + 1 = Quorum
  <2>1. Committed'
    BY <1>1, <1>2 DEF Committed
  <2>2. UNCHANGED <<ready, delivered, starved>>
    BY <1>2 DEF CountEcho, outcome
  <2>. QED  BY <2>1, <2>2 DEF OutputInv
<1>3. CASE echo[i] + 1 # Quorum
  <2>1. Committed' <=> Committed
    BY <1>1, <1>3 DEF Committed
  <2>2. CASE i \in holds
    <3>1. UNCHANGED <<ready, delivered, starved>>
      BY <1>3, <2>2 DEF CountEcho, outcome
    <3>. QED  BY <2>1, <3>1 DEF OutputInv
  <2>3. CASE i \notin holds
    <3>1. CountReady(i, i, TRUE, TRUE, {}, FALSE)
      BY <1>3, <2>3 DEF CountEcho
    <3>. QED  BY <2>1, <3>1, CountReadyOutput
  <2>. QED  BY <2>2, <2>3
<1>. QED  BY <1>2, <1>3

(* The same of every step of the protocol.                                 *)
LEMMA OutputStep ==
    ASSUME TypeOK, OutputInv, [Next]_vars
    PROVE  /\ OutputInv'
           /\ \/ Committed' /\ UNCHANGED delivered
              \/ /\ Committed' <=> Committed
                 /\ UNCHANGED delivered \/ \E i \in Node : Delivers(i)
<1>1. ASSUME NEW i \in Node, ReceivePropose(i) \/ ReceiveEcho(i)
      PROVE  CountEcho(i)
  BY <1>1 DEF ReceivePropose, ReceiveEcho
<1>2. ASSUME NEW i \in Node, NEW j \in Node, ReceiveReady(i, j)
      PROVE  /\ OutputInv'
             /\ Committed' <=> Committed
             /\ UNCHANGED delivered \/ Delivers(i)
  <2>1. CountReady(i, j, j \notin bare, i \in holds, {<<j, i>>},
                   manager[i] = "open")
    BY <1>2 DEF ReceiveReady
  <2>2. Committed' <=> Committed
    BY <1>2 DEF ReceiveReady, Committed
  <2>. QED  BY <2>1, <2>2, CountReadyOutput
<1>3. CASE (\E i \in Node : Ignore(i)) \/ UNCHANGED vars
  <2>1. UNCHANGED <<echo, ready, delivered, starved>>
    BY <1>3 DEF Ignore, vars, outcome
  <2>. QED  BY <2>1 DEF OutputInv, Committed
<1>. QED  BY <1>1, <1>2, <1>3, CountEchoOutput DEF Next, Receive

LEMMA OutputCorrect == Spec => []OutputInv
<1>1. Init => OutputInv
  BY DEF Init, OutputInv
<1>2. TypeOK /\ OutputInv /\ [Next]_vars => OutputInv'
  BY OutputStep
<1>. QED  BY <1>1, <1>2, TypeCorrect, PTL DEF Spec

(* output() runs at most once in every node, whatever the order in which   *)
(* Proposes, Echoes and Readies reach it.                                  *)
THEOREM OneOutputEach == Spec => []OneOutput
<1>1. OutputInv => OneOutput
  BY DEF OutputInv, OneOutput
<1>. QED  BY <1>1, OutputCorrect, PTL

(* The protocol implements BroadcastPromise: nothing is delivered before   *)
(* the commit point, and every node is handed the message at most once.    *)
THEOREM PromiseKept == Spec => KeepsPromise
<1>1. Init => Promise!Init
  <2>1. Init => ~Committed
    BY Thresholds DEF Init, Committed
  <2>2. ~Committed <=> (Committed = FALSE)
    OBVIOUS
  <2>. QED  BY <2>1, <2>2 DEF Init, Promise!Init
<1>2. TypeOK /\ CommitInv /\ OutputInv /\ [Next]_vars
        => [Promise!Next]_(Promise!pvars)
  <2>. SUFFICES ASSUME TypeOK, CommitInv, OutputInv, [Next]_vars
                PROVE  [Promise!Next]_(Promise!pvars)
    OBVIOUS
  <2>1. CASE Committed' /\ UNCHANGED delivered
    <3>1. CASE Committed
      BY <2>1, <3>1 DEF Promise!pvars
    <3>2. CASE ~Committed
      BY <2>1, <3>2 DEF Promise!Next, Promise!Commit
    <3>. QED  BY <3>1, <3>2
  <2>2. CASE (Committed' <=> Committed) /\ UNCHANGED delivered
    BY <2>2 DEF Promise!pvars
  <2>3. ASSUME NEW i \in Node, Committed' <=> Committed, Delivers(i)
        PROVE  Promise!Deliver(i)
    <3>1. Committed
      BY <2>3 DEF Delivers, CommitInv, TypeOK
    <3>. QED  BY <2>3, <3>1 DEF Delivers, Promise!Deliver
  <2>. QED  BY <2>1, <2>2, <2>3, OutputStep DEF Promise!Next
<1>. QED  BY <1>1, <1>2, TypeCorrect, CommitCorrect, OutputCorrect, PTL
          DEF Spec, KeepsPromise, Promise!Spec
-----------------------------------------------------------------------------
(* Why decode() finds enough shares unless n = 3T + 2.  A node counts an   *)
(* Echo only from nodes that hold a share, so the first Ready finds Quorum *)
(* of them; the others may relay an empty share, and every Ready a node    *)
(* counts is one of a new share or one of those empty ones.                *)

(* The empty Readies that i has received.                                  *)
Spent(i) == {j \in bare \ {i} : <<j, i>> \notin readies}

EchoersHold ==
    \A i \in Node :
        /\ i \notin holds => echo[i] = 0
        /\ echo[i] + echoes[i] <= Cardinality(holds \ proposals)

RelayFindsQuorum == relayed # {} => Quorum <= Cardinality(holds \ bare)

ReadiesCounted ==
    \A i \in Node :
        /\ <<i, i>> \notin readies
        /\ ready[i] <= Cardinality(shares[i]) + Cardinality(Spent(i))

(* Node i counts its last Ready and has fewer shares than it decodes from.*)
Starves(i) ==
    /\ ready'[i] = Quorum /\ Quorum # Enough
    /\ Cardinality(shares'[i]) < Enough

LEMMA NodeSets ==
    ASSUME NEW S \in SUBSET Node
    PROVE  /\ IsFiniteSet(S) /\ Cardinality(S) \in Nat
           /\ \A R \in SUBSET S : Cardinality(R) <= Cardinality(S)
           /\ \A x : x \notin S => Cardinality(S \cup {x}) = Cardinality(S) + 1
<1>1. IsFiniteSet(S)
  BY NodeAssumption, FS_Subset
<1>. QED  BY <1>1, FS_CardinalityType, FS_Subset, FS_AddElement

(* What a handler sends never changes the empty Readies received: only the *)
(* Ready it is working on does.                                            *)
LEMMA SpentStep ==
    ASSUME TypeOK, NEW i \in Node, NEW mine, NEW taken,
           BroadcastReady(i, mine, taken) \/ NoRelay(taken), NEW k \in Node
    PROVE  /\ Spent(k)' = {p \in bare \ {k} : <<p, k>> \notin readies \ taken}
           /\ <<k, k>> \notin readies => <<k, k>> \notin readies'
<1>1. CASE NoRelay(taken) \/ i \in relayed
  BY <1>1 DEF NoRelay, BroadcastReady, Spent
<1>2. CASE BroadcastReady(i, mine, taken) /\ i \notin relayed
  <2>1. /\ readies' = (readies \ taken) \cup ({i} \X (Node \ {i}))
        /\ bare' = bare \/ bare' = bare \cup {i}
        /\ i \notin bare
    BY <1>2 DEF BroadcastReady, TypeOK
  <2>2. ASSUME NEW j
        PROVE  (j \in bare' \ {k} /\ <<j, k>> \notin readies')
                 <=> (j \in bare \ {k} /\ <<j, k>> \notin readies \ taken)
    BY <2>1
  <2>. QED  BY <2>1, <2>2 DEF Spent
<1>. QED  BY <1>1, <1>2

(* Counting a Ready keeps the books: it brings a new share, or it is one   *)
(* empty Ready more.                                                       *)
LEMMA CountReadyShares ==
    ASSUME TypeOK, ReadiesCounted, NEW i \in Node, NEW j \in Node,
           NEW mine, NEW taken, NEW closes, NEW full,
           CountReady(i, j, full, mine, taken, closes),
           \/ full /\ taken = {}
           \/ /\ taken = {<<j, i>>} /\ <<j, i>> \in readies
              /\ full <=> j \notin bare
    PROVE  /\ ReadiesCounted'
           /\ relayed' = relayed \/ ready[i] + 1 = Enough
           /\ starved' = starved \/ Starves(i)
<1>1. BroadcastReady(i, mine, taken) \/ NoRelay(taken)
  BY DEF CountReady
<1>s. ASSUME NEW k \in Node
      PROVE  /\ Spent(k)' = {p \in bare \ {k} : <<p, k>> \notin readies \ taken}
             /\ <<k, k>> \notin readies => <<k, k>> \notin readies'
  BY <1>1, SpentStep, Zenon
<1>. USE DEF TypeOK
<1>2. \A k \in Node : <<k, k>> \notin readies'
  BY <1>s DEF ReadiesCounted
<1>3. ASSUME NEW k \in Node
      PROVE  /\ Spent(k) \subseteq Node /\ Spent(k)' \subseteq Node
             /\ Spent(k) \subseteq Spent(k)'
  <2>1. Spent(k)' = {p \in bare \ {k} : <<p, k>> \notin readies \ taken}
    BY <1>s
  <2>2. Spent(k) = {p \in bare \ {k} : <<p, k>> \notin readies}
    BY DEF Spent
  <2>. QED  BY <2>1, <2>2
<1>4. \A k \in Node : Cardinality(Spent(k)) <= Cardinality(Spent(k)')
  BY <1>3, NodeSets
<1>5. CASE full /\ j \in shares[i]
  <2>1. UNCHANGED <<ready, shares, starved, relayed>>
    BY <1>5 DEF CountReady, NoRelay, outcome
  <2>. QED  BY <1>2, <1>3, <1>4, <2>1, NodeSets DEF ReadiesCounted
<1>6. CASE ~(full /\ j \in shares[i])
  <2>1. /\ ready' = [ready EXCEPT ![i] = @ + 1]
        /\ shares' = [shares EXCEPT ![i] = IF full THEN @ \cup {j} ELSE @]
    BY <1>6 DEF CountReady
  <2>2. relayed' = relayed \/ ready[i] + 1 = Enough
    BY <1>6 DEF CountReady, NoRelay
  <2>3. starved' = starved \/ Starves(i)
    <3>1. CASE UNCHANGED outcome
      BY <3>1 DEF outcome
    <3>2. CASE ~ UNCHANGED outcome
      <4>1. /\ ready[i] + 1 # Enough /\ Outputs(ready[i] + 1)
            /\ Output(i, IF full THEN shares[i] \cup {j} ELSE shares[i])
        BY <1>6, <3>2 DEF CountReady
      <4>2. /\ Output(i, shares'[i])
            /\ ready'[i] = Quorum /\ Quorum # Enough
        BY <2>1, <4>1 DEF Outputs
      <4>3. Cardinality(shares'[i]) \in Nat
        BY <2>1, NodeSets
      <4>. QED  BY <4>2, <4>3, Thresholds DEF Output, Decodes, Starves
    <3>. QED  BY <3>1, <3>2
  <2>4. ASSUME NEW k \in Node
        PROVE  ready'[k] <= Cardinality(shares'[k]) + Cardinality(Spent(k)')
    <3>0. /\ Cardinality(shares[k]) \in Nat /\ Cardinality(Spent(k)) \in Nat
          /\ Cardinality(Spent(k)') \in Nat
      BY <1>3, NodeSets
    <3>1. CASE k # i
      <4>1. ready'[k] = ready[k] /\ shares'[k] = shares[k]
        BY <2>1, <3>1
      <4>2. ready[k] <= Cardinality(shares[k]) + Cardinality(Spent(k))
        BY DEF ReadiesCounted
      <4>. QED  BY <1>4, <3>0, <4>1, <4>2
    <3>2. CASE k = i /\ full
      <4>1. ready'[i] = ready[i] + 1 /\ shares'[i] = shares[i] \cup {j}
        BY <2>1, <3>2
      <4>2. Cardinality(shares'[i]) = Cardinality(shares[i]) + 1
        BY <1>6, <3>2, <4>1, NodeSets
      <4>3. ready[i] <= Cardinality(shares[i]) + Cardinality(Spent(i))
        BY DEF ReadiesCounted
      <4>. QED  BY <1>4, <3>0, <3>2, <4>1, <4>2, <4>3
    <3>3. CASE k = i /\ ~full
      <4>1. /\ taken = {<<j, i>>} /\ <<j, i>> \in readies
            /\ j \in bare /\ j # i
        BY <3>3 DEF ReadiesCounted
      <4>2. Spent(i)' = Spent(i) \cup {j} /\ j \notin Spent(i)
        <5>1. Spent(i)' = {p \in bare \ {i} : <<p, i>> \notin readies \ taken}
          BY <1>s
        <5>2. Spent(i) = {p \in bare \ {i} : <<p, i>> \notin readies}
          BY DEF Spent
        <5>. QED  BY <4>1, <5>1, <5>2
      <4>3. Cardinality(Spent(i)') = Cardinality(Spent(i)) + 1
        BY <1>3, <4>2, NodeSets
      <4>4. ready'[i] = ready[i] + 1 /\ shares'[i] = shares[i]
        BY <2>1, <3>3
      <4>5. ready[i] <= Cardinality(shares[i]) + Cardinality(Spent(i))
        BY DEF ReadiesCounted
      <4>. QED  BY <3>0, <3>3, <4>3, <4>4, <4>5
    <3>. QED  BY <3>1, <3>2, <3>3
  <2>. QED  BY <1>2, <2>2, <2>3, <2>4 DEF ReadiesCounted
<1>. QED  BY <1>5, <1>6

(* A step of CountEcho adds its node to the holders, never relays an empty *)
(* share, and, if it sends the first Ready, finds a quorum of Echoes.      *)
LEMMA CountEchoHolds ==
    ASSUME TypeOK, CommitInv, EchoersHold, T > 0, NEW i \in Node, CountEcho(i)
    PROVE  /\ holds' = holds \cup {i} /\ bare' = bare
           /\ echo' = [echo EXCEPT ![i] = @ + 1]
           /\ relayed = {} => relayed' = {} \/ echo'[i] = Quorum
<1>. USE Thresholds DEF TypeOK
<1>1. echo' = [echo EXCEPT ![i] = @ + 1]
  BY DEF CountEcho
<1>2. CASE echo[i] + 1 = Quorum
  <2>1. i \in holds
    BY <1>2 DEF EchoersHold
  <2>2. BroadcastReady(i, i \in holds, {}) /\ holds' = holds
    BY <1>2 DEF CountEcho
  <2>3. bare' = bare
    BY <2>1, <2>2 DEF BroadcastReady
  <2>. QED  BY <1>1, <1>2, <2>1, <2>2, <2>3
<1>3. CASE echo[i] + 1 # Quorum /\ i \in holds
  BY <1>1, <1>3 DEF CountEcho, NoRelay
<1>4. CASE echo[i] + 1 # Quorum /\ i \notin holds
  <2>1. holds' = holds \cup {i} /\ CountReady(i, i, TRUE, TRUE, {}, FALSE)
    BY <1>4 DEF CountEcho
  <2>2. bare' = bare
    BY <2>1 DEF CountReady, NoRelay, BroadcastReady
  <2>3. ASSUME relayed = {} PROVE relayed' = {}
    <3>1. ~Committed
      BY <2>3 DEF CommitInv, Committed
    <3>2. ready[i] = 0 /\ ready[i] + 1 # Enough
      BY <1>4, <3>1 DEF CommitInv
    <3>3. NoRelay({})
      BY <2>1, <3>2 DEF CountReady
    <3>. QED  BY <2>3, <3>3 DEF NoRelay
  <2>. QED  BY <1>1, <2>1, <2>2, <2>3
<1>. QED  BY <1>2, <1>3, <1>4

(* Every Echo was sent by a node that had received the Propose and held a  *)
(* share from then on.                                                     *)
LEMMA EchoersHoldStep ==
    ASSUME TypeOK, CommitInv, EchoersHold, T > 0, NEW i \in Node, Receive(i)
    PROVE  EchoersHold'
<1>. USE DEF TypeOK
<1>1. holds \in SUBSET Node /\ holds \ proposals \in SUBSET Node
  OBVIOUS
<1>2. CASE ReceivePropose(i)
  <2>1. /\ holds' = holds \cup {i}
        /\ echo' = [echo EXCEPT ![i] = @ + 1]
    BY <1>2, CountEchoHolds DEF ReceivePropose
  <2>2. /\ i \in proposals /\ proposals' = proposals \ {i}
        /\ echoes' = [k \in Node |-> IF k = i THEN echoes[k] ELSE echoes[k] + 1]
    BY <1>2 DEF ReceivePropose
  <2>3. (holds' \ proposals') = (holds \ proposals) \cup {i}
    BY <2>1, <2>2
  <2>4. /\ Cardinality(holds' \ proposals') = Cardinality(holds \ proposals) + 1
        /\ Cardinality(holds \ proposals) \in Nat
    BY <1>1, <2>2, <2>3, NodeSets
  <2>5. ASSUME NEW k \in Node
        PROVE  /\ k \notin holds' => echo'[k] = 0
               /\ echo'[k] + echoes'[k] <= Cardinality(holds' \ proposals')
    <3>1. echo'[k] + echoes'[k] = echo[k] + echoes[k] + 1
      BY <2>1, <2>2
    <3>2. echo[k] + echoes[k] <= Cardinality(holds \ proposals)
      BY DEF EchoersHold
    <3>3. k \notin holds' => echo'[k] = 0
      BY <2>1 DEF EchoersHold
    <3>. QED  BY <2>4, <3>1, <3>2, <3>3
  <2>. QED  BY <2>5 DEF EchoersHold
<1>3. CASE ReceiveEcho(i)
  <2>1. /\ holds' = holds \cup {i} /\ proposals' = proposals
        /\ echo' = [echo EXCEPT ![i] = @ + 1]
        /\ echoes[i] > 0 /\ echoes' = [echoes EXCEPT ![i] = @ - 1]
    BY <1>3, CountEchoHolds DEF ReceiveEcho
  <2>2. /\ holds \ proposals \subseteq holds' \ proposals'
        /\ holds' \ proposals' \in SUBSET Node
    BY <2>1
  <2>3. /\ Cardinality(holds \ proposals) <= Cardinality(holds' \ proposals')
        /\ Cardinality(holds \ proposals) \in Nat
        /\ Cardinality(holds' \ proposals') \in Nat
    BY <1>1, <2>2, NodeSets
  <2>4. ASSUME NEW k \in Node
        PROVE  /\ k \notin holds' => echo'[k] = 0
               /\ echo'[k] + echoes'[k] <= Cardinality(holds' \ proposals')
    <3>1. echo'[k] + echoes'[k] = echo[k] + echoes[k]
      BY <2>1
    <3>2. echo[k] + echoes[k] <= Cardinality(holds \ proposals)
      BY DEF EchoersHold
    <3>3. k \notin holds' => echo'[k] = 0
      BY <2>1 DEF EchoersHold
    <3>. QED  BY <2>3, <3>1, <3>2, <3>3
  <2>. QED  BY <2>4 DEF EchoersHold
<1>4. CASE \E j \in Node : ReceiveReady(i, j)
  BY <1>4 DEF ReceiveReady, EchoersHold
<1>5. CASE Ignore(i)
  <2>1. /\ echo' = echo /\ holds' = holds /\ proposals' = proposals \ {i}
        /\ echoes' = [echoes EXCEPT ![i] = 0]
    BY <1>5 DEF Ignore
  <2>2. /\ holds \ proposals \subseteq holds' \ proposals'
        /\ holds' \ proposals' \in SUBSET Node
    BY <2>1
  <2>3. /\ Cardinality(holds \ proposals) <= Cardinality(holds' \ proposals')
        /\ Cardinality(holds \ proposals) \in Nat
        /\ Cardinality(holds' \ proposals') \in Nat
    BY <1>1, <2>2, NodeSets
  <2>4. ASSUME NEW k \in Node
        PROVE  /\ k \notin holds' => echo'[k] = 0
               /\ echo'[k] + echoes'[k] <= Cardinality(holds' \ proposals')
    <3>1. echo'[k] = echo[k] /\ echoes'[k] <= echoes[k]
      BY <2>1
    <3>2. echo[k] + echoes[k] <= Cardinality(holds \ proposals)
      BY DEF EchoersHold
    <3>3. k \notin holds' => echo'[k] = 0
      BY <2>1 DEF EchoersHold
    <3>. QED  BY <2>1, <2>3, <3>1, <3>2, <3>3
  <2>. QED  BY <2>4 DEF EchoersHold
<1>. QED  BY <1>2, <1>3, <1>4, <1>5 DEF Receive

(* The nodes that hold a share and have not relayed an empty one only      *)
(* become more, and at the first Ready they are a quorum.                  *)
LEMMA RelayFindsQuorumStep ==
    ASSUME TypeOK, CommitInv, EchoersHold, EchoersHold', RelayFindsQuorum,
           TypeOK', T > 0, NEW i \in Node, Receive(i)
    PROVE  RelayFindsQuorum'
<1>. USE Thresholds DEF TypeOK
<1>1. holds \ bare \subseteq holds' \ bare'
  <2>1. CASE ReceivePropose(i) \/ ReceiveEcho(i)
    BY <2>1, CountEchoHolds DEF ReceivePropose, ReceiveEcho
  <2>2. ASSUME NEW j \in Node, ReceiveReady(i, j)
        PROVE  holds \ bare \subseteq holds' \ bare'
    <3>1. /\ CountReady(i, j, j \notin bare, i \in holds, {<<j, i>>},
                        manager[i] = "open")
          /\ holds' = holds
      BY <2>2 DEF ReceiveReady
    <3>2. bare' = bare \/ (i \notin holds /\ bare' = bare \cup {i})
      BY <3>1 DEF CountReady, NoRelay, BroadcastReady
    <3>. QED  BY <3>1, <3>2
  <2>3. CASE Ignore(i)
    BY <2>3 DEF Ignore
  <2>. QED  BY <2>1, <2>2, <2>3 DEF Receive
<1>2. CASE relayed # {}
  <2>1. Cardinality(holds \ bare) <= Cardinality(holds' \ bare')
    BY <1>1, NodeSets
  <2>2. /\ Cardinality(holds \ bare) \in Nat
        /\ Cardinality(holds' \ bare') \in Nat
    BY NodeSets
  <2>3. Quorum <= Cardinality(holds \ bare)
    BY <1>2 DEF RelayFindsQuorum
  <2>4. Quorum <= Cardinality(holds' \ bare')
    BY <2>1, <2>2, <2>3
  <2>. QED  BY <2>4 DEF RelayFindsQuorum
<1>3. CASE relayed = {}
  <2>1. SUFFICES ASSUME relayed' # {}
                 PROVE  Quorum <= Cardinality(holds' \ bare')
    BY DEF RelayFindsQuorum
  <2>2. readies = {}
    BY <1>3 DEF CommitInv, Committed
  <2>3. CountEcho(i)
    BY <1>3, <2>1, <2>2 DEF Receive, ReceivePropose, ReceiveEcho,
                            ReceiveReady, Ignore
  <2>4. echo'[i] = Quorum /\ bare' = {}
    BY <1>3, <2>1, <2>3, CountEchoHolds
  <2>5. /\ Cardinality(holds' \ proposals') \in Nat
        /\ Cardinality(holds' \ bare') \in Nat
    BY NodeSets
  <2>6. Cardinality(holds' \ proposals') <= Cardinality(holds' \ bare')
    BY <2>4, NodeSets
  <2>7. echo'[i] <= Cardinality(holds' \ proposals')
    <3>1. echo'[i] \in Nat /\ echoes'[i] \in Nat
      OBVIOUS
    <3>2. echo'[i] + echoes'[i] <= Cardinality(holds' \ proposals')
      BY DEF EchoersHold
    <3>. QED  BY <2>5, <3>1, <3>2
  <2>. QED  BY <2>4, <2>5, <2>6, <2>7
<1>. QED  BY <1>2, <1>3

LEMMA ReadiesCountedStep ==
    ASSUME TypeOK, CommitInv, EchoersHold, ReadiesCounted, T > 0,
           NEW i \in Node, Receive(i)
    PROVE  ReadiesCounted' /\ (starved' = starved \/ Starves(i))
<1>. USE Thresholds DEF TypeOK
<1>1. CASE ReceivePropose(i) \/ ReceiveEcho(i)
  <2>1. CountEcho(i)
    BY <1>1 DEF ReceivePropose, ReceiveEcho
  <2>2. CASE CountReady(i, i, TRUE, TRUE, {}, FALSE)
    BY <2>2, CountReadyShares
  <2>3. CASE ~CountReady(i, i, TRUE, TRUE, {}, FALSE)
    <3>1. /\ BroadcastReady(i, i \in holds, {}) \/ NoRelay({})
          /\ UNCHANGED <<ready, shares, starved>>
      BY <2>1, <2>3 DEF CountEcho, outcome
    <3>2. ASSUME NEW k \in Node
          PROVE  /\ Spent(k)' = {p \in bare \ {k} : <<p, k>> \notin readies \ {}}
                 /\ <<k, k>> \notin readies => <<k, k>> \notin readies'
      BY <3>1, SpentStep, Zenon
    <3>3. \A k \in Node : Spent(k)' = Spent(k)
      BY <3>2 DEF Spent
    <3>. QED  BY <3>1, <3>2, <3>3 DEF ReadiesCounted
  <2>. QED  BY <2>2, <2>3
<1>2. ASSUME NEW j \in Node, ReceiveReady(i, j)
      PROVE  ReadiesCounted' /\ (starved' = starved \/ Starves(i))
  <2>1. /\ CountReady(i, j, j \notin bare, i \in holds, {<<j, i>>},
                      manager[i] = "open")
        /\ <<j, i>> \in readies
    BY <1>2 DEF ReceiveReady
  <2>. QED  BY <2>1, CountReadyShares
<1>3. CASE Ignore(i)
  <2>1. /\ UNCHANGED <<ready, shares, bare, starved>>
        /\ readies' \subseteq readies
    BY <1>3 DEF Ignore, outcome
  <2>2. ASSUME NEW k \in Node
        PROVE  /\ Spent(k) \subseteq Spent(k)'
               /\ Spent(k) \in SUBSET Node /\ Spent(k)' \in SUBSET Node
    BY <2>1 DEF Spent
  <2>3. ASSUME NEW k \in Node
        PROVE  ready'[k] <= Cardinality(shares'[k]) + Cardinality(Spent(k)')
    <3>1. Cardinality(Spent(k)) <= Cardinality(Spent(k)')
      BY <2>2, NodeSets
    <3>2. /\ Cardinality(Spent(k)) \in Nat /\ Cardinality(Spent(k)') \in Nat
          /\ Cardinality(shares[k]) \in Nat
      BY <2>2, NodeSets
    <3>3. ready[k] <= Cardinality(shares[k]) + Cardinality(Spent(k))
      BY DEF ReadiesCounted
    <3>. QED  BY <2>1, <3>1, <3>2, <3>3
  <2>. QED  BY <2>1, <2>3 DEF ReadiesCounted
<1>. QED  BY <1>1, <1>2, <1>3 DEF Receive

ShareInv == T > 0 => EchoersHold /\ RelayFindsQuorum /\ ReadiesCounted

LEMMA ShareStep ==
    TypeOK /\ CommitInv /\ ShareInv /\ [Next]_vars => ShareInv'
<1>. SUFFICES ASSUME TypeOK, CommitInv, ShareInv, [Next]_vars, T > 0
              PROVE  (EchoersHold /\ RelayFindsQuorum /\ ReadiesCounted)'
  BY DEF ShareInv
<1>1. TypeOK'
  BY TypeStep
<1>2. ASSUME NEW i \in Node, Receive(i)
      PROVE  (EchoersHold /\ RelayFindsQuorum /\ ReadiesCounted)'
  <2>1. EchoersHold'
    BY <1>2, EchoersHoldStep DEF ShareInv
  <2>2. RelayFindsQuorum'
    BY <1>1, <1>2, <2>1, RelayFindsQuorumStep DEF ShareInv
  <2>3. ReadiesCounted'
    BY <1>2, ReadiesCountedStep DEF ShareInv
  <2>. QED  BY <2>1, <2>2, <2>3
<1>3. CASE UNCHANGED vars
  BY <1>3 DEF vars, net, ShareInv, EchoersHold, RelayFindsQuorum,
              ReadiesCounted, Spent
<1>. QED  BY <1>2, <1>3 DEF Next

LEMMA ShareCorrect == Spec => []ShareInv
<1>1. Init => ShareInv
  <2>. SUFFICES ASSUME Init, T > 0
                PROVE  EchoersHold /\ RelayFindsQuorum /\ ReadiesCounted
    BY DEF ShareInv
  <2>1. Cardinality({}) = 0
    BY FS_EmptySet
  <2>2. EchoersHold
    <3>1. holds = {} /\ holds \ proposals = {}
      BY DEF Init
    <3>. QED  BY <2>1, <3>1 DEF Init, EchoersHold
  <2>3. RelayFindsQuorum
    BY DEF Init, RelayFindsQuorum
  <2>4. ReadiesCounted
    <3>1. ASSUME NEW i \in Node
          PROVE  shares[i] = {} /\ Spent(i) = {} /\ ready[i] = 0
      BY DEF Init, Spent
    <3>. QED  BY <2>1, <3>1 DEF Init, ReadiesCounted
  <2>. QED  BY <2>2, <2>3, <2>4
<1>. QED  BY <1>1, TypeCorrect, CommitCorrect, ShareStep, PTL DEF Spec

(* A node that has counted Quorum Readies has shares enough to decode: at  *)
(* most N - Quorum of them brought none, and Quorum - (N - Quorum) is at   *)
(* least T + 1 unless N = 3T + 2.                                          *)
EnoughShares ==
    \A i \in Node : T > 0 /\ ready[i] = Quorum
                      => Cardinality(shares[i]) >= Enough

LEMMA QuorumBringsShares ==
    ASSUME TypeOK, CommitInv, ShareInv, N # 3 * T + 2
    PROVE  EnoughShares
<1>. USE Thresholds DEF TypeOK
<1>. SUFFICES ASSUME NEW i \in Node, T > 0, ready[i] = Quorum
              PROVE  Cardinality(shares[i]) >= Enough
  BY DEF EnoughShares
<1>1. /\ Spent(i) \subseteq bare /\ bare \in SUBSET Node
      /\ shares[i] \in SUBSET Node /\ Spent(i) \in SUBSET Node
      /\ holds \ bare \in SUBSET Node /\ Node \ bare \in SUBSET Node
      /\ holds \ bare \subseteq Node \ bare
  BY DEF Spent
<1>2. Cardinality(Spent(i)) <= Cardinality(bare)
  BY <1>1, NodeSets
<1>3. Cardinality(holds \ bare) <= Cardinality(Node \ bare)
  BY <1>1, NodeSets
<1>4. Cardinality(Node \ bare) = N - Cardinality(bare)
  <2>1. Cardinality(Node \ bare) = Cardinality(Node) - Cardinality(Node \cap bare)
    BY NodeAssumption, FS_Difference
  <2>2. Node \cap bare = bare
    BY <1>1
  <2>. QED  BY <2>1, <2>2 DEF N
<1>5. Quorum <= Cardinality(holds \ bare)
  <2>1. Committed
    BY DEF CommitInv
  <2>2. relayed # {}
    BY <2>1 DEF Committed, CommitInv
  <2>. QED  BY <2>2 DEF ShareInv, RelayFindsQuorum
<1>6. ready[i] <= Cardinality(shares[i]) + Cardinality(Spent(i))
  BY DEF ShareInv, ReadiesCounted
<1>7. /\ Cardinality(Spent(i)) \in Nat /\ Cardinality(bare) \in Nat
      /\ Cardinality(shares[i]) \in Nat /\ Cardinality(holds \ bare) \in Nat
  BY <1>1, NodeSets
<1>. QED  BY <1>2, <1>3, <1>4, <1>5, <1>6, <1>7

(* Up to two nodes output() is never called: the Quorum-th Ready is the    *)
(* one that makes a node relay.                                            *)
LEMMA FewNodesNeverOutput ==
    ASSUME T = 0, NEW i \in Node, Receive(i)
    PROVE  starved' = starved
<1>1. Quorum = Enough
  BY DEF Quorum, Enough
<1>2. CASE ReceivePropose(i) \/ ReceiveEcho(i)
  BY <1>1, <1>2 DEF ReceivePropose, ReceiveEcho, CountEcho, CountReady,
                    Outputs, outcome
<1>3. ASSUME NEW j \in Node, ReceiveReady(i, j) PROVE starved' = starved
  BY <1>1, <1>3 DEF ReceiveReady, CountReady, Outputs, outcome
<1>4. CASE Ignore(i)
  BY <1>4 DEF Ignore, outcome
<1>. QED  BY <1>2, <1>3, <1>4 DEF Receive

(* decode() never runs on too few shares, for every number of nodes that   *)
(* is not 3T + 2, although a node may relay an empty share.                *)
THEOREM DecodeNeverStarves == N # 3 * T + 2 => (Spec => []NeverStarved)
<1>. SUFFICES ASSUME N # 3 * T + 2 PROVE Spec => []NeverStarved
  OBVIOUS
<1>1. Init => NeverStarved
  BY DEF Init, NeverStarved
<1>2. TypeOK /\ CommitInv /\ ShareInv => EnoughShares
  BY QuorumBringsShares
<1>3. TypeOK /\ CommitInv /\ ShareInv /\ EnoughShares' /\ NeverStarved
        /\ [Next]_vars => NeverStarved'
  <2>. SUFFICES ASSUME TypeOK, CommitInv, ShareInv, EnoughShares',
                       NeverStarved, [Next]_vars
                PROVE  starved' = starved
    BY DEF NeverStarved
  <2>1. ASSUME NEW i \in Node, Receive(i), T > 0 PROVE starved' = starved
    <3>1. starved' = starved \/ Starves(i)
      BY <2>1, ReadiesCountedStep DEF ShareInv
    <3>2. ASSUME Starves(i) PROVE FALSE
      <4>1. Cardinality(shares'[i]) >= Enough
        BY <2>1, <3>2 DEF EnoughShares, Starves
      <4>2. Cardinality(shares'[i]) < Enough
        BY <3>2 DEF Starves
      <4>3. TypeOK'
        BY TypeStep
      <4>4. Cardinality(shares'[i]) \in Nat
        BY <4>3, NodeSets DEF TypeOK
      <4>. QED  BY <4>1, <4>2, <4>4, Thresholds
    <3>. QED  BY <3>1, <3>2
  <2>2. ASSUME NEW i \in Node, Receive(i), T = 0 PROVE starved' = starved
    BY <2>2, FewNodesNeverOutput
  <2>3. CASE UNCHANGED vars
    BY <2>3 DEF vars, outcome
  <2>. QED  BY <2>1, <2>2, <2>3, Thresholds DEF Next
<1>. QED  BY <1>1, <1>2, <1>3, TypeCorrect, CommitCorrect, ShareCorrect, PTL
          DEF Spec

-----------------------------------------------------------------------------
(* A decoder has the shares of Readies that are no longer on their way,    *)
(* and a node's own only once it holds one.                                *)
SharesCameOnce ==
    /\ \A j, i \in Node : <<j, i>> \in readies => j \in relayed /\ j # i
    /\ \A i \in Node : i \in shares[i] => i \in holds
    /\ \A i \in Node : \A j \in shares[i] \ {i} :
         j \in relayed /\ <<j, i>> \notin readies
    /\ NoShareTwice

(* A Ready that is relayed goes to nodes that have not had it.             *)
LEMMA RelayIsFresh ==
    ASSUME TypeOK, SharesCameOnce, NEW i \in Node, NEW mine, NEW taken,
           BroadcastReady(i, mine, taken) \/ NoRelay(taken)
    PROVE  /\ relayed \subseteq relayed'
           /\ \A k, l \in Node : <<k, l>> \in readies' =>
                k \in relayed' /\ k # l /\ <<k, l>> \notin taken \ ({i} \X Node)
           /\ \A l \in Node : \A k \in shares[l] \ {l} :
                <<k, l>> \notin readies'
<1>1. CASE NoRelay(taken)
  BY <1>1 DEF NoRelay, SharesCameOnce, TypeOK
<1>2. CASE BroadcastReady(i, mine, taken)
  BY <1>2 DEF BroadcastReady, SharesCameOnce, TypeOK
<1>. QED  BY <1>1, <1>2

LEMMA SharesCameOnceStep ==
    TypeOK /\ SharesCameOnce /\ [Next]_vars => SharesCameOnce'
<1>. SUFFICES ASSUME TypeOK, SharesCameOnce, [Next]_vars
              PROVE  SharesCameOnce'
  OBVIOUS
<1>1. ASSUME NEW i \in Node, NEW j \in Node, ReceiveReady(i, j)
      PROVE  SharesCameOnce'
  <2>1. j # i /\ j \in relayed /\ j \notin shares[i] /\ holds' = holds
    BY <1>1 DEF ReceiveReady, SharesCameOnce
  <2>2. /\ shares' = [shares EXCEPT ![i] = IF j \notin bare THEN @ \cup {j} ELSE @]
        /\ rejected' = rejected
    BY <1>1, <2>1 DEF ReceiveReady, CountReady, TypeOK
  <2>3. BroadcastReady(i, i \in holds, {<<j, i>>}) \/ NoRelay({<<j, i>>})
    BY <1>1, <2>1 DEF ReceiveReady, CountReady
  <2>4. /\ relayed \subseteq relayed'
        /\ \A k, l \in Node : <<k, l>> \in readies' =>
             k \in relayed' /\ k # l /\ <<k, l>> # <<j, i>>
        /\ \A l \in Node : \A k \in shares[l] \ {l} : <<k, l>> \notin readies'
    BY <2>1, <2>3, RelayIsFresh
  <2>. QED  BY <2>1, <2>2, <2>4 DEF SharesCameOnce, NoShareTwice, TypeOK
<1>2. ASSUME NEW i \in Node, CountEcho(i) PROVE SharesCameOnce'
  <2>1. \/ BroadcastReady(i, i \in holds, {}) \/ NoRelay({})
        \/ BroadcastReady(i, TRUE, {})
    BY <1>2 DEF CountEcho, CountReady
  <2>2. /\ relayed \subseteq relayed'
        /\ \A k, l \in Node : <<k, l>> \in readies' => k \in relayed' /\ k # l
        /\ \A l \in Node : \A k \in shares[l] \ {l} : <<k, l>> \notin readies'
    BY <2>1, RelayIsFresh
  <2>3. /\ rejected' = rejected
        /\ \/ shares' = shares /\ holds' = holds
           \/ /\ shares' = [shares EXCEPT ![i] = @ \cup {i}]
              /\ holds' = holds \cup {i}
    BY <1>2 DEF CountEcho, CountReady, SharesCameOnce, TypeOK
  <2>. QED  BY <2>2, <2>3 DEF SharesCameOnce, NoShareTwice, TypeOK
<1>3. ASSUME NEW i \in Node, Ignore(i) PROVE SharesCameOnce'
  BY <1>3 DEF Ignore, SharesCameOnce, NoShareTwice
<1>4. CASE UNCHANGED vars
  BY <1>4 DEF vars, net, SharesCameOnce, NoShareTwice
<1>. QED  BY <1>1, <1>2, <1>3, <1>4
          DEF Next, Receive, ReceivePropose, ReceiveEcho

LEMMA SharesOnceCorrect == Spec => []SharesCameOnce
<1>1. Init => SharesCameOnce
  BY DEF Init, SharesCameOnce, NoShareTwice
<1>. QED  BY <1>1, TypeCorrect, SharesCameOnceStep, PTL DEF Spec

(* No decoder is given the same index twice, in every order of Echoes and  *)
(* Readies: add_recovery_shard does not fail.                              *)
THEOREM NoShardAddedTwice == Spec => []NoShareTwice
<1>1. SharesCameOnce => NoShareTwice
  BY DEF SharesCameOnce
<1>. QED  BY <1>1, SharesOnceCorrect, PTL

-----------------------------------------------------------------------------
(* The end of a broadcast.  Echoes go to all nodes at once, so that a node *)
(* which still counts them has been sent as many as any other; and it has  *)
(* counted every Ready that is no longer on its way, and its own.          *)
Heard(i) == {j \in relayed \ {i} : <<j, i>> \notin readies}
Own(i) == IF i \in holds THEN 1 ELSE 0

EchoesEven ==
    /\ \A i, k \in Node :
         manager[k] # "done" => echo[i] + echoes[i] <= echo[k] + echoes[k]
    /\ (\A k \in Node : manager[k] # "done")
         => \A i \in Node :
              echo[i] + echoes[i] = Cardinality(Served \ proposals)

ReadiesEven ==
    \A i \in Node :
      manager[i] # "done" => Cardinality(Heard(i)) + Own(i) <= ready[i]

CountsDone ==
    \A i \in Node :
      /\ ready[i] >= Enough => i \in relayed
      /\ ready[i] >= Quorum => Finished(i)
      /\ manager[i] = "done" => ready[i] >= Quorum

LEMMA SeveralNodes == T \in Nat /\ T > 0 /\ Enough < Quorum /\ 1 < Quorum
<1>1. N >= 3
  BY NodeAssumption DEF N
<1>. QED  BY <1>1, Thresholds

(* What a handler sends does not change what the others have heard.        *)
LEMMA HeardStep ==
    ASSUME TypeOK, NEW i \in Node, NEW mine, NEW taken, taken \subseteq readies,
           SharesCameOnce,
           BroadcastReady(i, mine, taken) \/ NoRelay(taken), NEW k \in Node
    PROVE  Heard(k)' = {p \in relayed \ {k} : <<p, k>> \notin readies \ taken}
<1>1. CASE NoRelay(taken) \/ (BroadcastReady(i, mine, taken) /\ i \in relayed)
  <2>1. readies' = readies \ taken /\ relayed' = relayed
    BY <1>1 DEF NoRelay, BroadcastReady
  <2>. QED  BY <2>1 DEF Heard
<1>2. CASE BroadcastReady(i, mine, taken) /\ i \notin relayed
  <2>1. /\ readies' = (readies \ taken) \cup ({i} \X (Node \ {i}))
        /\ relayed' = relayed \cup {i}
    BY <1>2 DEF BroadcastReady
  <2>2. ASSUME NEW j
        PROVE  (j \in relayed' \ {k} /\ <<j, k>> \notin readies')
                 <=> (j \in relayed \ {k} /\ <<j, k>> \notin readies \ taken)
    BY <1>2, <2>1
  <2>. QED  BY <2>1, <2>2 DEF Heard
<1>. QED  BY <1>1, <1>2

(* What add_ready does when it takes a Ready.                              *)
LEMMA CountReadyEffect ==
    ASSUME TypeOK, NEW i \in Node, NEW j \in Node, NEW full, NEW mine,
           NEW taken, NEW closes,
           CountReady(i, j, full, mine, taken, closes),
           ~(full /\ j \in shares[i])
    PROVE  /\ ready' = [ready EXCEPT ![i] = @ + 1]
           /\ BroadcastReady(i, mine, taken) \/ NoRelay(taken)
           /\ ready[i] + 1 = Enough => i \in relayed'
           /\ relayed \subseteq relayed'
           /\ ready[i] + 1 = Quorum => Finished(i)'
           /\ \A k \in Node : Finished(k) => Finished(k)'
           /\ \A k \in Node : k # i => manager'[k] = manager[k]
           /\ manager'[i] = "done" => ready[i] + 1 = Quorum
<1>. USE SeveralNodes, Thresholds
<1>1. /\ ready' = [ready EXCEPT ![i] = @ + 1]
      /\ \A k \in Node : k # i => manager'[k] = manager[k]
      /\ manager'[i] = "done" => ready[i] + 1 = Quorum
  BY DEF CountReady, TypeOK, Outputs
<1>2. CASE ready[i] + 1 = Enough
  <2>1. BroadcastReady(i, mine, taken) /\ UNCHANGED outcome
    BY <1>2 DEF CountReady
  <2>2. i \in relayed' /\ relayed \subseteq relayed'
    BY <2>1 DEF BroadcastReady
  <2>. QED  BY <1>1, <1>2, <2>1, <2>2 DEF outcome, Finished
<1>3. CASE ready[i] + 1 # Enough
  <2>1. NoRelay(taken) /\ relayed' = relayed
    BY <1>3 DEF CountReady, NoRelay
  <2>2. PICK got : IF Outputs(ready[i] + 1) THEN Output(i, got)
                   ELSE UNCHANGED outcome
    BY <1>3 DEF CountReady
  <2>3. CASE Outputs(ready[i] + 1)
    <3>1. /\ Finished(i)'
          /\ \A k \in Node : Finished(k) => Finished(k)'
      BY <2>2, <2>3 DEF Output, Finished, TypeOK
    <3>. QED  BY <1>1, <1>3, <2>1, <3>1
  <2>4. CASE ~Outputs(ready[i] + 1)
    BY <1>1, <1>3, <2>1, <2>2, <2>4 DEF Outputs, outcome, Finished
  <2>. QED  BY <2>3, <2>4
<1>. QED  BY <1>2, <1>3

LEMMA CountReadyDone ==
    ASSUME TypeOK, CountsDone, NEW i \in Node, NEW j \in Node, NEW full,
           NEW mine, NEW taken, NEW closes,
           CountReady(i, j, full, mine, taken, closes),
           ~(full /\ j \in shares[i])
    PROVE  CountsDone'
<1>. USE SeveralNodes, Thresholds
<1>1. /\ ready' = [ready EXCEPT ![i] = @ + 1]
      /\ ready[i] + 1 = Enough => i \in relayed'
      /\ relayed \subseteq relayed'
      /\ ready[i] + 1 = Quorum => Finished(i)'
      /\ \A k \in Node : Finished(k) => Finished(k)'
      /\ \A k \in Node : k # i => manager'[k] = manager[k]
      /\ manager'[i] = "done" => ready[i] + 1 = Quorum
  BY CountReadyEffect
<1>2. ready[i] \in Nat /\ ready'[i] = ready[i] + 1
  BY <1>1 DEF TypeOK
<1>3. ASSUME NEW k \in Node, k # i
      PROVE  /\ ready'[k] >= Enough => k \in relayed'
             /\ ready'[k] >= Quorum => Finished(k)'
             /\ manager'[k] = "done" => ready'[k] >= Quorum
  BY <1>1, <1>3 DEF CountsDone, TypeOK
<1>4. /\ ready'[i] >= Enough => i \in relayed'
      /\ ready'[i] >= Quorum => Finished(i)'
      /\ manager'[i] = "done" => ready'[i] >= Quorum
  BY <1>1, <1>2 DEF CountsDone
<1>. QED  BY <1>3, <1>4 DEF CountsDone

LEMMA CountsDoneStep ==
    ASSUME TypeOK, SharesCameOnce, CountsDone, NEW i \in Node, Receive(i)
    PROVE  CountsDone'
<1>1. CASE CountEcho(i)
  <2>1. CASE CountReady(i, i, TRUE, TRUE, {}, FALSE) /\ i \notin holds
    BY <2>1, CountReadyDone DEF SharesCameOnce
  <2>2. CASE ~(CountReady(i, i, TRUE, TRUE, {}, FALSE) /\ i \notin holds)
    <3>1. /\ manager' = [manager EXCEPT ![i] = "open"]
          /\ UNCHANGED <<ready, delivered, starved>>
          /\ relayed \subseteq relayed'
      BY <1>1, <2>2 DEF CountEcho, outcome, BroadcastReady, NoRelay
    <3>. QED  BY <3>1 DEF CountsDone, Finished, TypeOK
  <2>. QED  BY <2>1, <2>2
<1>2. ASSUME NEW j \in Node, ReceiveReady(i, j) PROVE CountsDone'
  <2>1. j \notin shares[i]
    BY <1>2 DEF ReceiveReady, SharesCameOnce
  <2>. QED  BY <1>2, <2>1, CountReadyDone DEF ReceiveReady
<1>3. CASE Ignore(i)
  BY <1>3 DEF Ignore, outcome, CountsDone, Finished
<1>. QED  BY <1>1, <1>2, <1>3 DEF Receive, ReceivePropose, ReceiveEcho

LEMMA ReadiesEvenStep ==
    ASSUME TypeOK, SharesCameOnce, ReadiesEven, NEW i \in Node, Receive(i)
    PROVE  ReadiesEven'
<1>. USE SeveralNodes
<1>0. \A k \in Node : Heard(k) \in SUBSET Node /\ ready[k] \in Nat
  BY DEF Heard, TypeOK
<1>1. CASE CountEcho(i)
  <2>1. CASE CountReady(i, i, TRUE, TRUE, {}, FALSE) /\ i \notin holds
             /\ holds' = holds \cup {i}
    <3>1. i \notin shares[i]
      BY <2>1 DEF SharesCameOnce
    <3>2. /\ ready' = [ready EXCEPT ![i] = @ + 1]
          /\ BroadcastReady(i, TRUE, {}) \/ NoRelay({})
          /\ \A k \in Node : k # i => manager'[k] = manager[k]
      BY <2>1, <3>1, CountReadyEffect
    <3>3. \A k \in Node : Heard(k)' = Heard(k)
      <4>1. PICK mine : BroadcastReady(i, mine, {}) \/ NoRelay({})
        BY <3>2, Zenon
      <4>2. ASSUME NEW k \in Node
            PROVE  Heard(k)' =
                     {p \in relayed \ {k} : <<p, k>> \notin readies \ {}}
        BY <4>1, HeardStep
      <4>. QED  BY <4>2 DEF Heard
    <3>4. manager[i] # "done"
      BY <1>1 DEF CountEcho
    <3>5. ASSUME NEW k \in Node, manager'[k] # "done"
          PROVE  Cardinality(Heard(k)') + Own(k)' <= ready'[k]
      <4>1. Cardinality(Heard(k)) + Own(k) <= ready[k]
        BY <3>2, <3>4, <3>5 DEF ReadiesEven
      <4>2. Cardinality(Heard(k)) \in Nat
        BY <1>0, NodeSets
      <4>. QED  BY <1>0, <2>1, <3>2, <3>3, <4>1, <4>2 DEF Own, TypeOK
    <3>. QED  BY <3>5 DEF ReadiesEven
  <2>2. CASE /\ BroadcastReady(i, i \in holds, {}) \/ NoRelay({})
             /\ UNCHANGED <<ready, holds>>
             /\ manager' = [manager EXCEPT ![i] = "open"]
    <3>1. \A k \in Node : Heard(k)' = Heard(k)
      BY <2>2, HeardStep DEF Heard
    <3>2. manager[i] # "done"
      BY <1>1 DEF CountEcho
    <3>. QED  BY <2>2, <3>1, <3>2 DEF ReadiesEven, Own, TypeOK
  <2>. QED  BY <1>1, <2>1, <2>2 DEF CountEcho
<1>2. ASSUME NEW j \in Node, ReceiveReady(i, j) PROVE ReadiesEven'
  <2>1. /\ j \notin shares[i] /\ j \in relayed /\ j # i
        /\ <<j, i>> \in readies /\ holds' = holds /\ manager[i] # "done"
    BY <1>2 DEF ReceiveReady, SharesCameOnce
  <2>2. /\ ready' = [ready EXCEPT ![i] = @ + 1]
        /\ \/ BroadcastReady(i, i \in holds, {<<j, i>>})
           \/ NoRelay({<<j, i>>})
        /\ \A k \in Node : k # i => manager'[k] = manager[k]
    BY <1>2, <2>1, CountReadyEffect DEF ReceiveReady
  <2>3. ASSUME NEW k \in Node
        PROVE  Heard(k)' = IF k = i THEN Heard(k) \cup {j} ELSE Heard(k)
    <3>1. Heard(k)' = {p \in relayed \ {k} : <<p, k>> \notin readies \ {<<j, i>>}}
      BY <2>1, <2>2, HeardStep
    <3>. QED  BY <2>1, <3>1 DEF Heard
  <2>4. j \notin Heard(i)
    BY <2>1 DEF Heard
  <2>5. Cardinality(Heard(i)') = Cardinality(Heard(i)) + 1
    BY <1>0, <2>3, <2>4, NodeSets
  <2>6. ASSUME NEW k \in Node, manager'[k] # "done"
        PROVE  Cardinality(Heard(k)') + Own(k)' <= ready'[k]
    <3>1. Cardinality(Heard(k)) + Own(k) <= ready[k]
      BY <2>1, <2>2, <2>6 DEF ReadiesEven
    <3>2. Cardinality(Heard(k)) \in Nat /\ Own(k)' = Own(k) /\ Own(k) \in Nat
      BY <1>0, <2>1, NodeSets DEF Own
    <3>3. ready'[k] = IF k = i THEN ready[k] + 1 ELSE ready[k]
      BY <2>2 DEF TypeOK
    <3>. QED  BY <1>0, <2>3, <2>5, <3>1, <3>2, <3>3
  <2>. QED  BY <2>6 DEF ReadiesEven
<1>3. CASE Ignore(i)
  <2>1. /\ manager[i] = "done" /\ UNCHANGED <<manager, ready, holds, relayed>>
        /\ readies' = readies \ (Node \X {i})
    BY <1>3 DEF Ignore
  <2>2. ASSUME NEW k \in Node, k # i PROVE Heard(k)' = Heard(k)
    BY <2>1, <2>2 DEF Heard
  <2>. QED  BY <2>1, <2>2 DEF ReadiesEven, Own
<1>. QED  BY <1>1, <1>2, <1>3 DEF Receive, ReceivePropose, ReceiveEcho

LEMMA EchoesEvenStep ==
    ASSUME TypeOK, EchoesEven, NEW i \in Node, Receive(i)
    PROVE  EchoesEven'
<1>1. \A k \in Node : echo[k] \in Nat /\ echoes[k] \in Nat
  BY DEF TypeOK
<1>2. CASE CountEcho(i)
  <2>1. /\ manager[i] # "done" /\ echo' = [echo EXCEPT ![i] = @ + 1]
        /\ \A k \in Node : manager'[k] # "done" => manager[k] # "done"
    BY <1>2 DEF CountEcho, CountReady, TypeOK
  <2>2. CASE ReceivePropose(i)
    <3>1. /\ i \in proposals /\ proposals' = proposals \ {i}
          /\ \A k \in Node : echo'[k] + echoes'[k] = echo[k] + echoes[k] + 1
      BY <1>1, <2>1, <2>2 DEF ReceivePropose, TypeOK
    <3>2. Cardinality(Served \ proposals') = Cardinality(Served \ proposals) + 1
      <4>1. /\ Served \ proposals' = (Served \ proposals) \cup {i}
            /\ i \notin Served \ proposals
        BY <3>1 DEF TypeOK
      <4>2. Served \ proposals \in SUBSET Node
        BY ServedAssumption
      <4>. QED  BY <4>1, <4>2, NodeSets
    <3>3. Cardinality(Served \ proposals) \in Nat
      BY ServedAssumption, NodeSets
    <3>. QED  BY <1>1, <2>1, <3>1, <3>2, <3>3 DEF EchoesEven
  <2>3. CASE ReceiveEcho(i)
    <3>1. /\ proposals' = proposals
          /\ \A k \in Node : echo'[k] + echoes'[k] = echo[k] + echoes[k]
      BY <1>1, <2>1, <2>3 DEF ReceiveEcho, TypeOK
    <3>. QED  BY <2>1, <3>1 DEF EchoesEven
  <2>4. CASE ~ReceivePropose(i) /\ ~ReceiveEcho(i)
    <3>1. CASE Ignore(i)
      BY <2>1, <3>1 DEF Ignore
    <3>2. CASE \E j \in Node : ReceiveReady(i, j)
      BY <1>1, <2>1, <3>2 DEF ReceiveReady, TypeOK
    <3>. QED  BY <2>4, <3>1, <3>2 DEF Receive
  <2>. QED  BY <2>2, <2>3, <2>4
<1>3. ASSUME NEW j \in Node, ReceiveReady(i, j) PROVE EchoesEven'
  <2>1. /\ UNCHANGED <<proposals, echoes, echo>>
        /\ \A k \in Node : manager'[k] # "done" => manager[k] # "done"
    BY <1>3 DEF ReceiveReady, CountReady, TypeOK
  <2>. QED  BY <2>1 DEF EchoesEven
<1>4. CASE Ignore(i)
  <2>1. /\ manager[i] = "done" /\ UNCHANGED <<manager, echo>>
        /\ echoes' = [echoes EXCEPT ![i] = 0]
    BY <1>4 DEF Ignore
  <2>2. \A k \in Node : /\ echo'[k] + echoes'[k] <= echo[k] + echoes[k]
                        /\ k # i => echoes'[k] = echoes[k]
    BY <1>1, <2>1 DEF TypeOK
  <2>3. ASSUME NEW m \in Node, NEW k \in Node, manager'[k] # "done"
        PROVE  echo'[m] + echoes'[m] <= echo'[k] + echoes'[k]
    <3>1. k # i /\ echo[m] + echoes[m] <= echo[k] + echoes[k]
      BY <2>1, <2>3 DEF EchoesEven
    <3>2. echo'[m] + echoes'[m] \in Nat
      BY <1>1, <2>1 DEF TypeOK
    <3>. QED  BY <1>1, <2>1, <2>2, <3>1, <3>2
  <2>. QED  BY <2>1, <2>3 DEF EchoesEven
<1>. QED  BY <1>2, <1>3, <1>4 DEF Receive, ReceivePropose, ReceiveEcho

EndInv == EchoesEven /\ ReadiesEven /\ CountsDone

LEMMA EndCorrect == Spec => []EndInv
<1>1. Init => EndInv
  <2>. SUFFICES ASSUME Init PROVE EndInv
    OBVIOUS
  <2>1. Cardinality({}) = 0 /\ Served \ proposals = {}
    BY FS_EmptySet DEF Init
  <2>2. EchoesEven
    BY <2>1 DEF Init, EchoesEven
  <2>3. \A i \in Node : Heard(i) = {} /\ Own(i) = 0
    BY DEF Init, Heard, Own
  <2>4. ReadiesEven
    BY <2>1, <2>3 DEF Init, ReadiesEven
  <2>5. CountsDone
    BY Thresholds, SeveralNodes DEF Init, CountsDone
  <2>. QED  BY <2>2, <2>4, <2>5 DEF EndInv
<1>2. TypeOK /\ SharesCameOnce /\ EndInv /\ [Next]_vars => EndInv'
  <2>. SUFFICES ASSUME TypeOK, SharesCameOnce, EndInv, [Next]_vars
                PROVE  EndInv'
    OBVIOUS
  <2>1. ASSUME NEW i \in Node, Receive(i) PROVE EndInv'
    BY <2>1, EchoesEvenStep, ReadiesEvenStep, CountsDoneStep DEF EndInv
  <2>2. CASE UNCHANGED vars
    BY <2>2 DEF vars, net, outcome, EndInv, EchoesEven, ReadiesEven,
                CountsDone, Heard, Own, Finished
  <2>. QED  BY <2>1, <2>2 DEF Next
<1>. QED  BY <1>1, <1>2, TypeCorrect, SharesOnceCorrect, PTL DEF Spec

(* When nothing is in flight any more every node has run its output(): a   *)
(* node that ignores late messages withholds nothing the others need, if   *)
(* the dealer serves as many nodes as a quorum of Echoes has.              *)
THEOREM QuietNodesAreFinished ==
    Cardinality(Served) >= Quorum => (Spec => []QuietMeansFinished)
<1>. SUFFICES ASSUME Cardinality(Served) >= Quorum
              PROVE  Spec => []QuietMeansFinished
  OBVIOUS
<1>1. ASSUME TypeOK, CommitInv, ShareInv, EndInv PROVE QuietMeansFinished
  <2>. SUFFICES ASSUME Quiet PROVE \A k \in Node : Finished(k)
    BY DEF QuietMeansFinished
  <2>. USE SeveralNodes, Thresholds
  <2>1. /\ proposals = {} /\ readies = {}
        /\ \A k \in Node : echoes[k] = 0 /\ echo[k] \in Nat /\ ready[k] \in Nat
    BY <1>1 DEF Quiet, TypeOK
  <2>2. \A k \in Node : /\ ready[k] >= Enough => k \in relayed
                        /\ ready[k] >= Quorum => Finished(k)
                        /\ manager[k] = "done" => ready[k] >= Quorum
    BY <1>1 DEF EndInv, CountsDone
  <2>3. Committed
    <3>. SUFFICES ASSUME ~Committed PROVE FALSE
      OBVIOUS
    <3>1. \A k \in Node : manager[k] # "done"
      BY <1>1, <2>1, <2>2 DEF CommitInv
    <3>2. PICK k \in Node : TRUE
      <4>1. Node # {}
        BY NodeAssumption, FS_EmptySet
      <4>. QED  BY <4>1
    <3>3. echo[k] + echoes[k] = Cardinality(Served)
      BY <1>1, <2>1, <3>1 DEF EndInv, EchoesEven
    <3>4. echo[k] >= Quorum
      BY <2>1, <3>3
    <3>. QED  BY <3>4 DEF Committed
  <2>4. PICK m \in Node : echo[m] >= Quorum
    BY <2>3 DEF Committed
  <2>5. ASSUME NEW k \in Node, manager[k] # "done" PROVE echo[k] >= Quorum
    <3>1. echo[m] + echoes[m] <= echo[k] + echoes[k]
      BY <1>1, <2>5 DEF EndInv, EchoesEven
    <3>. QED  BY <2>1, <2>4, <3>1
  <2>6. relayed = Node
    <3>1. ASSUME NEW k \in Node PROVE k \in relayed
      <4>1. CASE manager[k] = "done"
        BY <2>1, <2>2, <4>1
      <4>2. CASE manager[k] # "done"
        BY <1>1, <2>5, <4>2 DEF CommitInv
      <4>. QED  BY <4>1, <4>2
    <3>. QED  BY <1>1, <3>1 DEF TypeOK
  <2>7. ASSUME NEW k \in Node, manager[k] # "done" PROVE ready[k] >= Quorum
    <3>1. Heard(k) = Node \ {k}
      BY <2>1, <2>6 DEF Heard
    <3>2. Cardinality(Heard(k)) = N - 1
      BY <3>1, NodeAssumption, FS_RemoveElement DEF N
    <3>3. k \in holds
      BY <1>1, <2>1, <2>5, <2>7 DEF ShareInv, EchoersHold
    <3>4. Cardinality(Heard(k)) + Own(k) <= ready[k] /\ Own(k) = 1
      BY <1>1, <2>7, <3>3 DEF EndInv, ReadiesEven, Own
    <3>. QED  BY <2>1, <3>2, <3>4
  <2>. QED  BY <2>2, <2>7
<1>. QED  BY <1>1, TypeCorrect, CommitCorrect, ShareCorrect, EndCorrect, PTL
=============================================================================
