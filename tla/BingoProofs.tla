---------------------------- MODULE BingoProofs ----------------------------
(***************************************************************************)
(* Theorems about Bingo, for any number of nodes, T, dealer and Byzantine  *)
(* nodes.                                                                  *)
(***************************************************************************)
EXTENDS Bingo, FiniteSetTheorems, SequenceTheorems, TLAPS

(* What a BingoBroadcastDoneRequest may carry.                             *)
Load == {"all", "none"}

LEMMA RequestType ==
    ASSUME requests \in [Node -> Seq(Load)], NEW i \in Node, NEW load \in Load,
           Request(i, load)
    PROVE  requests' \in [Node -> Seq(Load)]
<1>1. Append(requests[i], load) \in Seq(Load)
  BY AppendProperties
<1>2. \/ requests' = requests
      \/ requests' = [requests EXCEPT ![i] = Append(requests[i], load)]
  BY DEF Request
<1>. QED  BY <1>1, <1>2

LEMMA TypeStep == TypeOK /\ [Next]_vars => TypeOK'
<1>. SUFFICES ASSUME TypeOK, [Next]_vars PROVE TypeOK'
  OBVIOUS
<1>. USE DEF TypeOK, broadcast, managers, done
<1>1. CASE CommitmentStep
  <2>1. committed' \in BOOLEAN
    BY <1>1, Zenon DEF CommitmentStep, Commitment!Commit, Commitment!Deliver
  <2>2. delivered' \in [Node -> 0..1]
    BY <1>1 DEF CommitmentStep, Commitment!Commit, Commitment!Deliver
  <2>3. UNCHANGED <<line, requests, managers, done, reported>>
    BY <1>1 DEF CommitmentStep
  <2>. QED  BY <2>1, <2>2, <2>3
<1>2. ASSUME NEW i \in Node, OpenMyLine(i) PROVE TypeOK'
  BY <1>2 DEF OpenMyLine
<1>3. ASSUME NEW i \in Node, SaveMyLine(i) PROVE TypeOK'
  BY <1>3, RequestType DEF SaveMyLine, Load
<1>4. ASSUME NEW i \in Node, SendRows(i) PROVE TypeOK'
  BY <1>4, RequestType DEF SendRows, Load
<1>5. ASSUME NEW i \in Node, Rebuild(i) PROVE TypeOK'
  BY <1>5, RequestType DEF Rebuild, Load
<1>6. ASSUME NEW i \in Node, RefuseRow(i) PROVE TypeOK'
  BY <1>6 DEF RefuseRow
<1>7. ASSUME NEW i \in Node, TakeRequest(i) PROVE TypeOK'
  <2>1. Tail(requests[i]) \in Seq(Load)
    BY <1>7, HeadTailProperties DEF TakeRequest, Load
  <2>2. requests' \in [Node -> Seq(Load)]
    <3>1. requests \in [Node -> Seq(Load)] /\ <<>> \in Seq(Load)
      BY EmptySeq DEF Load
    <3>2. \/ requests' = [requests EXCEPT ![i] = <<>>]
          \/ requests' = [requests EXCEPT ![i] = Tail(@)]
      BY <1>7 DEF TakeRequest, Leave
    <3>. QED  BY <2>1, <3>1, <3>2
  <2>. QED  BY <1>7, <2>2 DEF TakeRequest, Leave, Announce, Load
<1>8. ASSUME NEW i \in Node, CountDones(i) PROVE TypeOK'
  <2>1. requests' \in [Node -> Seq(Load)]
    <3>1. requests \in [Node -> Seq(Load)] /\ <<>> \in Seq(Load)
      BY EmptySeq DEF Load
    <3>. QED  BY <1>8, <3>1 DEF CountDones, Leave
  <2>. QED  BY <1>8, <2>1 DEF CountDones, Leave, Load
<1>9. ASSUME NEW i \in Node, Report(i) PROVE TypeOK'
  BY <1>9 DEF Report
<1>10. CASE UNCHANGED vars
  BY <1>10 DEF vars
<1>. QED  BY <1>1, <1>2, <1>3, <1>4, <1>5, <1>6, <1>7, <1>8, <1>9, <1>10
          DEF Next, NodeStep

(* A node leaves only when it has announced and counted, and has shares    *)
(* only when it has announced.                                             *)
THEOREM TypeCorrect == Spec => []TypeOK
<1>1. Init => TypeOK
  <2>1. <<>> \in Seq({"all", "none"})
    BY EmptySeq
  <2>2. Init => committed \in BOOLEAN
    BY Zenon DEF Init
  <2>3. Init => requests \in [Node -> Seq({"all", "none"})]
    BY <2>1 DEF Init
  <2>. QED  BY <2>2, <2>3 DEF Init, TypeOK
<1>. QED  BY <1>1, TypeStep, PTL DEF Spec
-----------------------------------------------------------------------------
(* What a request in the channel of done_manager, and an announcement made *)
(* of one, stand on: an empty one on the node's rows, one with shares on   *)
(* its line or on the rows of others.                                      *)
Grounds(i) ==
    (IF i \in rows THEN {"none"} ELSE {})
      \cup (IF line[i] = "saved" \/ i \in rebuilt THEN {"all"} ELSE {})

Grounded ==
    \A i \in Node :
        /\ requests[i] \in Seq(Grounds(i))
        /\ i \in announced => Grounds(i) # {}
        /\ i \in announced \ shares => i \in rows

LEMMA GroundsGrow ==
    ASSUME Grounded, NEW i \in Node, Grounds(i) \subseteq Grounds(i)'
    PROVE  /\ requests[i] \in Seq(Grounds(i)')
           /\ i \in announced => Grounds(i)' # {}
BY SeqMonotonic DEF Grounded

(* A task that sends a request has its grounds.                            *)
LEMMA RequestGrounded ==
    ASSUME TypeOK, Grounded, NEW i \in Node, NEW load \in Load,
           Request(i, load),
           \A k \in Node : Grounds(k) \subseteq Grounds(k)',
           load \in Grounds(i)', rows \subseteq rows', UNCHANGED done
    PROVE  Grounded'
<1>1. ASSUME NEW k \in Node
      PROVE  requests'[k] \in Seq(Grounds(k)')
  <2>1. requests[k] \in Seq(Grounds(k)')
    BY GroundsGrow
  <2>2. requests'[k] = requests[k]
          \/ (k = i /\ requests'[k] = Append(requests[k], load))
    BY DEF Request, TypeOK
  <2>3. ASSUME k = i PROVE Append(requests[k], load) \in Seq(Grounds(k)')
    BY <2>1, <2>3, AppendProperties
  <2>. QED  BY <2>1, <2>2, <2>3
<1>2. ASSUME NEW k \in Node
      PROVE  /\ k \in announced' => Grounds(k)' # {}
             /\ k \in announced' \ shares' => k \in rows'
  BY GroundsGrow DEF done, Grounded
<1>. QED  BY <1>1, <1>2 DEF Grounded

LEMMA GroundedStep == TypeOK /\ Grounded /\ [Next]_vars => Grounded'
<1>. SUFFICES ASSUME TypeOK, Grounded, [Next]_vars PROVE Grounded'
  OBVIOUS
<1>1. ASSUME NEW i \in Node, SaveMyLine(i) PROVE Grounded'
  <2>1. \A k \in Node : Grounds(k) \subseteq Grounds(k)'
    BY <1>1 DEF SaveMyLine, Grounds, managers, TypeOK
  <2>2. "all" \in Grounds(i)' /\ rows' = rows /\ UNCHANGED done
    BY <1>1 DEF SaveMyLine, Grounds, managers, TypeOK
  <2>. QED  BY <1>1, <2>1, <2>2, RequestGrounded DEF SaveMyLine, Load
<1>2. ASSUME NEW i \in Node, SendRows(i) PROVE Grounded'
  <2>1. \A k \in Node : Grounds(k) \subseteq Grounds(k)'
    BY <1>2 DEF SendRows, Grounds
  <2>2. "none" \in Grounds(i)' /\ rows \subseteq rows' /\ UNCHANGED done
    BY <1>2 DEF SendRows, Grounds
  <2>. QED  BY <1>2, <2>1, <2>2, RequestGrounded DEF SendRows, Load
<1>3. ASSUME NEW i \in Node, Rebuild(i) PROVE Grounded'
  <2>1. \A k \in Node : Grounds(k) \subseteq Grounds(k)'
    BY <1>3 DEF Rebuild, Grounds
  <2>2. "all" \in Grounds(i)' /\ rows \subseteq rows' /\ UNCHANGED done
    BY <1>3 DEF Rebuild, Grounds
  <2>. QED  BY <1>3, <2>1, <2>2, RequestGrounded DEF Rebuild, Load
<1>4. ASSUME NEW i \in Node, TakeRequest(i) PROVE Grounded'
  <2>1. /\ requests[i] # <<>> /\ Announce(i)
        /\ UNCHANGED <<line, rows, rebuilt>>
    BY <1>4 DEF TakeRequest, Announce, managers
  <2>2. requests[i] \in Seq(Grounds(i))
    BY DEF Grounded
  <2>3. /\ Head(requests[i]) \in Grounds(i)
        /\ Tail(requests[i]) \in Seq(Grounds(i))
    BY <2>1, <2>2, HeadTailProperties
  <2>4. \A k \in Node : Grounds(k)' = Grounds(k)
    BY <2>1 DEF Grounds
  <2>5. ASSUME NEW k \in Node PROVE requests'[k] \in Seq(Grounds(k))
    <3>1. requests'[k] = requests[k]
            \/ (k = i /\ requests'[k] = Tail(requests[k]))
            \/ requests'[k] = <<>>
      BY <1>4 DEF TakeRequest, Leave, TypeOK
    <3>2. requests[k] \in Seq(Grounds(k))
      BY DEF Grounded
    <3>. QED  BY <2>3, <3>1, <3>2, EmptySeq
  <2>6. /\ announced' = announced \cup {i}
        /\ shares' = shares \/ shares' = shares \cup {i}
        /\ i \notin announced /\ i \notin shares' => Head(requests[i]) # "all"
    BY <2>1 DEF Announce
  <2>7. i \notin announced /\ i \notin shares' => i \in rows
    BY <2>3, <2>6 DEF Grounds
  <2>8. ASSUME NEW k \in Node
        PROVE  /\ k \in announced' => Grounds(k) # {}
               /\ k \in announced' \ shares' => k \in rows
    BY <2>3, <2>6, <2>7 DEF Grounded
  <2>. QED  BY <2>1, <2>4, <2>5, <2>8 DEF Grounded
<1>5. ASSUME NEW i \in Node, CountDones(i) PROVE Grounded'
  <2>1. UNCHANGED <<announced, shares, line, rows, rebuilt>>
    BY <1>5 DEF CountDones, managers
  <2>2. \A k \in Node : requests'[k] = requests[k] \/ requests'[k] = <<>>
    BY <1>5 DEF CountDones, Leave, TypeOK
  <2>. QED  BY <2>1, <2>2, EmptySeq DEF Grounded, Grounds
<1>6. CASE \/ CommitmentStep
           \/ \E i \in Node : OpenMyLine(i) \/ RefuseRow(i) \/ Report(i)
           \/ UNCHANGED vars
  <2>1. /\ UNCHANGED <<announced, shares, rows, rebuilt, requests>>
        /\ \A k \in Node : line[k] = "saved" => line'[k] = "saved"
    BY <1>6 DEF CommitmentStep, OpenMyLine, RefuseRow, Report, vars, managers,
                done, TypeOK
  <2>2. \A k \in Node : Grounds(k) \subseteq Grounds(k)'
    BY <2>1 DEF Grounds
  <2>. QED  BY <2>1, <2>2, GroundsGrow DEF Grounded
<1>. QED  BY <1>1, <1>2, <1>3, <1>4, <1>5, <1>6 DEF Next, NodeStep

LEMMA GroundedCorrect == Spec => []Grounded
<1>1. Init => Grounded
  BY EmptySeq DEF Init, Grounded
<1>. QED  BY <1>1, TypeCorrect, GroundedStep, PTL DEF Spec

(* A node that announces without shares has sent its rows.                 *)
THEOREM EmptyHandedRows == Spec => []EmptyHandedSentRows
<1>1. TypeOK /\ Grounded => EmptyHandedSentRows
  BY DEF Grounded, EmptyHandedSentRows, TypeOK
<1>. QED  BY <1>1, TypeCorrect, GroundedCorrect, PTL
-----------------------------------------------------------------------------
(* Rows stand on T+1 columns, rebuilt lines on rows, and the decision to   *)
(* leave on 2T+1 Dones.                                                    *)
SecretInv ==
    /\ rows # {} => Cardinality(ValidCols) >= T + 1
    /\ rebuilt # {} => rows # {}
    /\ counted # {} => Cardinality(Dones) >= 2 * T + 1

LEMMA NodeSets ==
    ASSUME NEW S \in SUBSET Node, NEW R \in SUBSET S
    PROVE  /\ Cardinality(S) \in Nat /\ Cardinality(R) \in Nat
           /\ Cardinality(R) <= Cardinality(S)
<1>1. IsFiniteSet(S) /\ IsFiniteSet(R)
  BY BingoAssumption, FS_Subset
<1>. QED  BY <1>1, FS_CardinalityType, FS_Subset

(* No message is taken back.                                               *)
LEMMA SentStaysSent ==
    ASSUME TypeOK, [Next]_vars
    PROVE  /\ ValidCols \subseteq ValidCols' /\ Dones \subseteq Dones'
           /\ ValidCols' \in SUBSET Node /\ Dones' \in SUBSET Node
           /\ rows \subseteq rows'
<1>1. TypeOK'
  BY TypeStep
<1>2. ASSUME NEW i \in Node, NodeStep(i)
      PROVE  /\ \A k \in Node : line[k] # "none" => line'[k] # "none"
             /\ announced \subseteq announced' /\ rows \subseteq rows'
  BY <1>2 DEF NodeStep, OpenMyLine, SaveMyLine, SendRows, Rebuild, RefuseRow,
     TakeRequest, Announce, CountDones, Report, managers, done, TypeOK
<1>3. CASE CommitmentStep \/ UNCHANGED vars
  BY <1>1, <1>3 DEF CommitmentStep, vars, managers, done, ValidCols, Opened,
                    Dones, TypeOK
<1>. QED  BY <1>1, <1>2, <1>3 DEF Next, ValidCols, Opened, Dones, TypeOK

LEMMA SecretStep == TypeOK /\ SecretInv /\ [Next]_vars => SecretInv'
<1>. SUFFICES ASSUME TypeOK, SecretInv, [Next]_vars PROVE SecretInv'
  OBVIOUS
<1>. USE BingoAssumption
<1>1. /\ Cardinality(ValidCols) <= Cardinality(ValidCols')
      /\ Cardinality(Dones) <= Cardinality(Dones')
      /\ Cardinality(ValidCols) \in Nat /\ Cardinality(ValidCols') \in Nat
      /\ Cardinality(Dones) \in Nat /\ Cardinality(Dones') \in Nat
  BY SentStaysSent, NodeSets
<1>2. rows' # {} => Cardinality(ValidCols') >= T + 1
  <2>1. rows' = rows \/ Cardinality(ValidCols) >= T + 1
    BY DEF Next, NodeStep, CommitmentStep, OpenMyLine, SaveMyLine, SendRows,
       EnoughCols, Rebuild, RefuseRow, TakeRequest, Announce, CountDones,
       Report, managers, vars
  <2>. QED  BY <1>1, <2>1 DEF SecretInv
<1>3. rebuilt' # {} => rows' # {}
  <2>1. rebuilt' = rebuilt \/ Cardinality(ValidRows) >= 2 * T + 1
    BY DEF Next, NodeStep, CommitmentStep, OpenMyLine, SaveMyLine, SendRows,
       Rebuild, RefuseRow, TakeRequest, Announce, CountDones, Report,
       managers, vars
  <2>2. Cardinality(ValidRows) >= 2 * T + 1 => rows # {}
    <3>1. rows = {} => ValidRows = {}
      BY DEF ValidRows
    <3>. QED  BY <3>1, FS_EmptySet
  <2>. QED  BY <2>1, <2>2, SentStaysSent DEF SecretInv
<1>4. counted' # {} => Cardinality(Dones') >= 2 * T + 1
  <2>1. counted' = counted \/ Cardinality(Dones) >= 2 * T + 1
    BY DEF Next, NodeStep, CommitmentStep, OpenMyLine, SaveMyLine, SendRows,
       Rebuild, RefuseRow, TakeRequest, Announce, CountDones, Report, done,
       vars
  <2>. QED  BY <1>1, <2>1 DEF SecretInv
<1>. QED  BY <1>2, <1>3, <1>4 DEF SecretInv

LEMMA SecretCorrect == Spec => []SecretInv
<1>1. Init => SecretInv
  BY DEF Init, SecretInv
<1>. QED  BY <1>1, TypeCorrect, SecretStep, PTL DEF Spec

(* No node leaves before T+1 correct nodes have opened their lines: with   *)
(* 2T+1 Dones and no row sent, every Done stands on the line of its node.  *)
THEOREM SecretFixed == Spec => []LeavingFixesTheSecret
<1>1. TypeOK /\ Grounded /\ SecretInv => LeavingFixesTheSecret
  <2>. SUFFICES ASSUME TypeOK, Grounded, SecretInv, left # {}
                PROVE  Cardinality(ValidCols) >= T + 1
    BY DEF LeavingFixesTheSecret
  <2>1. Cardinality(Dones) >= 2 * T + 1
    BY DEF SecretInv, TypeOK
  <2>2. CASE rows # {}
    BY <2>2 DEF SecretInv
  <2>3. CASE rows = {}
    <3>1. rebuilt = {}
      BY <2>3 DEF SecretInv
    <3>2. \A i \in announced : line[i] = "saved"
      BY <2>3, <3>1 DEF Grounded, Grounds, TypeOK
    <3>3. Dones \in SUBSET ValidCols /\ ValidCols \in SUBSET Node
      BY <3>2 DEF Dones, ValidCols, Opened, TypeOK
    <3>4. /\ Cardinality(Dones) <= Cardinality(ValidCols)
          /\ Cardinality(Dones) \in Nat /\ Cardinality(ValidCols) \in Nat
      BY <3>3, NodeSets
    <3>. QED  BY <2>1, <3>4, BingoAssumption
  <2>. QED  BY <2>2, <2>3
<1>. QED  BY <1>1, TypeCorrect, GroundedCorrect, SecretCorrect, PTL
-----------------------------------------------------------------------------
(* A node that has sent its rows has a request on its way, or has          *)
(* announced; one that has announced and counted has left.                 *)
EndInv ==
    /\ \A i \in rows \ announced : requests[i] # <<>>
    /\ announced \cap counted \subseteq left

LEMMA RequestKept ==
    ASSUME TypeOK, NEW i \in Node, NEW load \in Load, Request(i, load),
           NEW k \in Node, requests[k] # <<>> \/ k = i, k \notin announced
    PROVE  requests'[k] # <<>>
<1>1. k \notin left /\ requests[i] \in Seq(Load)
  BY DEF TypeOK, Load
<1>2. Append(requests[i], load) # <<>>
  BY <1>1, AppendProperties
<1>. QED  BY <1>1, <1>2 DEF Request, TypeOK

LEMMA EndStep == TypeOK /\ EndInv /\ [Next]_vars => EndInv'
<1>. SUFFICES ASSUME TypeOK, EndInv, [Next]_vars PROVE EndInv'
  OBVIOUS
<1>1. ASSUME NEW i \in Node, SaveMyLine(i) \/ Rebuild(i) PROVE EndInv'
  <2>1. PICK load \in Load : Request(i, load)
    BY <1>1 DEF SaveMyLine, Rebuild, Load
  <2>2. UNCHANGED <<rows, done>>
    BY <1>1 DEF SaveMyLine, Rebuild, managers
  <2>3. rows \subseteq Node
    BY DEF TypeOK
  <2>. QED  BY <2>1, <2>2, <2>3, RequestKept DEF EndInv, done
<1>2. ASSUME NEW i \in Node, SendRows(i) PROVE EndInv'
  <2>1. Request(i, "none") /\ rows' = rows \cup {i} /\ UNCHANGED done
    BY <1>2 DEF SendRows
  <2>2. rows \subseteq Node /\ "none" \in Load
    BY DEF TypeOK, Load
  <2>. QED  BY <2>1, <2>2, RequestKept DEF EndInv, done
<1>3. ASSUME NEW i \in Node, TakeRequest(i) PROVE EndInv'
  <2>1. /\ announced' = announced \cup {i}
        /\ UNCHANGED <<rows, counted>>
        /\ \A k \in Node : k # i => requests'[k] = requests[k]
        /\ left \subseteq left'
        /\ i \in counted \ announced => i \in left'
    BY <1>3 DEF TakeRequest, Announce, Leave, managers, TypeOK
  <2>2. rows \subseteq Node
    BY DEF TypeOK
  <2>. QED  BY <2>1, <2>2 DEF EndInv
<1>4. ASSUME NEW i \in Node, CountDones(i) PROVE EndInv'
  <2>1. /\ counted' = counted \cup {i}
        /\ UNCHANGED <<rows, announced>>
        /\ \A k \in Node \ announced : requests'[k] = requests[k]
        /\ left \subseteq left'
        /\ i \in announced => i \in left'
    BY <1>4 DEF CountDones, Leave, managers, TypeOK
  <2>2. rows \subseteq Node
    BY DEF TypeOK
  <2>. QED  BY <2>1, <2>2 DEF EndInv
<1>5. CASE \/ CommitmentStep
           \/ \E i \in Node : OpenMyLine(i) \/ RefuseRow(i) \/ Report(i)
           \/ UNCHANGED vars
  <2>1. UNCHANGED <<rows, requests, announced, counted, left>>
    BY <1>5 DEF CommitmentStep, OpenMyLine, RefuseRow, Report, vars, managers,
                done
  <2>. QED  BY <2>1 DEF EndInv
<1>. QED  BY <1>1, <1>2, <1>3, <1>4, <1>5 DEF Next, NodeStep

LEMMA EndCorrect == Spec => []EndInv
<1>1. Init => EndInv
  BY DEF Init, EndInv
<1>. QED  BY <1>1, TypeCorrect, EndStep, PTL DEF Spec

(* When all are quiet, T+1 correct nodes have opened their lines: those    *)
(* that the dealer has served, if nobody has left, and else those on whose *)
(* lines the node that left stands.                                        *)
LEMMA QuietCols ==
    ASSUME Cardinality(Byz) <= T, Cardinality(Node \ Dealt) <= T,
           TypeOK, LeavingFixesTheSecret, Quiet
    PROVE  Cardinality(ValidCols) >= T + 1
<1>. USE BingoAssumption
<1>1. CASE left # {}
  BY <1>1 DEF LeavingFixesTheSecret
<1>2. CASE left = {}
  <2>1. \A i \in Node : Running(i)
    BY <1>2 DEF Quiet, Running, TypeOK
  <2>2. Dealt \subseteq Opened
    BY <2>1 DEF Quiet, Settled, Opened
  <2>3. Node \ ValidCols \subseteq (Node \ Dealt) \cup Byz
    BY <2>2 DEF ValidCols
  <2>4. /\ ValidCols \in SUBSET Node /\ Node \ ValidCols \in SUBSET Node
        /\ Node \ Dealt \in SUBSET Node /\ (Node \ Dealt) \cup Byz \in SUBSET Node
    BY DEF ValidCols, Opened
  <2>5. Cardinality((Node \ Dealt) \cup Byz) <= 2 * T
    <3>1. IsFiniteSet(Node \ Dealt) /\ IsFiniteSet(Byz)
      BY <2>4, FS_Subset
    <3>2. /\ Cardinality((Node \ Dealt) \cup Byz)
               = Cardinality(Node \ Dealt) + Cardinality(Byz)
                   - Cardinality((Node \ Dealt) \cap Byz)
          /\ Cardinality((Node \ Dealt) \cap Byz) \in Nat
      BY <3>1, FS_Union, FS_Intersection, FS_CardinalityType
    <3>3. Cardinality(Node \ Dealt) \in Nat /\ Cardinality(Byz) \in Nat
      BY <3>1, FS_CardinalityType
    <3>. QED  BY <3>2, <3>3
  <2>6. Cardinality(Node \ ValidCols) <= 2 * T
    <3>1. /\ Cardinality(Node \ ValidCols) <= Cardinality((Node \ Dealt) \cup Byz)
          /\ Cardinality(Node \ ValidCols) \in Nat
          /\ Cardinality((Node \ Dealt) \cup Byz) \in Nat
      BY <2>3, <2>4, NodeSets
    <3>. QED  BY <2>5, <3>1
  <2>7. Cardinality(Node) = Cardinality(ValidCols) + Cardinality(Node \ ValidCols)
    <3>1. Cardinality(Node \cap ValidCols) = Cardinality(ValidCols)
      <4>1. Node \cap ValidCols = ValidCols
        BY <2>4
      <4>. QED  BY <4>1
    <3>2. Cardinality(Node \ ValidCols)
            = Cardinality(Node) - Cardinality(Node \cap ValidCols)
      BY FS_Difference
    <3>3. Cardinality(Node) \in Nat /\ Cardinality(ValidCols) \in Nat
      BY <2>4, NodeSets
    <3>. QED  BY <3>1, <3>2, <3>3
  <2>8. /\ Cardinality(ValidCols) \in Nat /\ Cardinality(Node \ ValidCols) \in Nat
        /\ Cardinality(Node) \in Nat
    BY <2>4, NodeSets
  <2>. QED  BY <2>6, <2>7, <2>8
<1>. QED  BY <1>1, <1>2

(* Where the operation stops every node has left it: all nodes have sent   *)
(* rows or have left, so all have announced, and the 2T+1 that are not     *)
(* Byzantine have sent a Done.                                             *)
THEOREM EveryoneLeaves ==
    ASSUME Cardinality(Byz) <= T, Cardinality(Node \ Dealt) <= T
    PROVE  Spec => []EveryoneLeavesInTheEnd
<1>1. TypeOK /\ EndInv /\ LeavingFixesTheSecret => EveryoneLeavesInTheEnd
  <2>. SUFFICES ASSUME TypeOK, EndInv, LeavingFixesTheSecret, Quiet
                PROVE  left = Node /\ Node \ crashed \subseteq reported
    BY DEF EveryoneLeavesInTheEnd
  <2>1. ASSUME NEW i \in Node PROVE i \in announced
    <3>1. CASE i \in left
      BY <3>1 DEF TypeOK
    <3>2. CASE i \notin left
      <4>1. Running(i)
        BY <3>2 DEF Quiet, Running, TypeOK
      <4>2. i \in rows
        BY <4>1, QuietCols DEF Quiet, Settled, EnoughCols
      <4>. QED  BY <4>2 DEF EndInv, Quiet, Settled
    <3>. QED  BY <3>1, <3>2
  <2>2. Cardinality(Dones) >= 2 * T + 1
    <3>1. Dones = Node \ Byz /\ Node \cap Byz = Byz
      BY <2>1, BingoAssumption DEF Dones, TypeOK
    <3>2. Cardinality(Node \ Byz) = Cardinality(Node) - Cardinality(Byz)
      BY <3>1, FS_Difference, BingoAssumption
    <3>3. Cardinality(Node) \in Nat /\ Cardinality(Byz) \in Nat
      BY NodeSets, BingoAssumption
    <3>. QED  BY <3>1, <3>2, <3>3, BingoAssumption
  <2>3. ASSUME NEW i \in Node, i \notin left PROVE FALSE
    <3>1. Running(i)
      BY <2>3 DEF Quiet, Running, TypeOK
    <3>2. i \in counted
      BY <2>2, <3>1 DEF Quiet, Settled
    <3>. QED  BY <2>1, <2>3, <3>2 DEF EndInv
  <2>4. left = Node
    BY <2>3 DEF TypeOK
  <2>. QED  BY <2>4 DEF Quiet, Settled
<1>. QED  BY <1>1, TypeCorrect, EndCorrect, SecretFixed, PTL
=============================================================================
