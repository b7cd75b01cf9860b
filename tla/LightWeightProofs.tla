------------------------- MODULE LightWeightProofs -------------------------
(***************************************************************************)
(* Theorems about LightWeight, for any number of nodes, any T, any set of  *)
(* served nodes and any set of Byzantine nodes.                            *)
(***************************************************************************)
EXTENDS LightWeight, FiniteSetTheorems, TLAPS

Manager == {"wait", "on", "off"}

(* TypeOK without what stands on the invariant of a node's tasks: that     *)
(* only nodes that were not served complain, and the bound on outputs.     *)
Shapes ==
    /\ committed \in BOOLEAN /\ delivered \in [Node -> 0..1]
    /\ VoteTypeOK
    /\ proposed \subseteq Served
    /\ share \in [Node -> ShareState]
    /\ phase \in [Node -> {"share", "vote", "over"}]
    /\ complaints \subseteq Node
    /\ assists \subseteq Node /\ crashed \subseteq assists
    /\ answering \in [Node -> Manager]
    /\ recovering \in [Node -> Manager]
    /\ outputs \in [Node -> Nat]
    /\ left \subseteq Node /\ reported \subseteq left

LEMMA ShapesInit == Init => Shapes
<1>. SUFFICES ASSUME Init PROVE Shapes
  OBVIOUS
<1>1. committed \in BOOLEAN
  BY Zenon DEF Init
<1>2. delivered \in [Node -> 0..1] /\ outputs \in [Node -> Nat]
  BY DEF Init
<1>. QED  BY <1>1, <1>2 DEF Init, Shapes, VoteTypeOK, NoVote, ShareState, Manager

LEMMA VoteShapes ==
    ASSUME VoteTypeOK, NEW i \in Node,
           BroadcastOk(i) \/ VoteStep(i) \/ UNCHANGED voteVars
    PROVE  /\ VoteTypeOK'
           /\ oks \subseteq oks' /\ votes \subseteq votes' /\ done \subseteq done'
BY DEF VoteTypeOK, BroadcastOk, VoteStep, CastVote, EndVote, voteVars

LEMMA ShapesStep == Shapes /\ [Next]_vars => Shapes'
<1>. SUFFICES ASSUME Shapes, [Next]_vars PROVE Shapes'
  OBVIOUS
<1>. USE DEF Shapes, broadcast, sharing, forwards, managers, ending
<1>1. CASE CommitmentStep
  <2>1. committed' \in BOOLEAN
    BY <1>1, Zenon DEF CommitmentStep, Commitment!Commit, Commitment!Deliver
  <2>2. delivered' \in [Node -> 0..1]
    BY <1>1 DEF CommitmentStep, Commitment!Commit, Commitment!Deliver
  <2>3. UNCHANGED <<voteVars, sharing, forwards, managers, ending>>
    BY <1>1 DEF CommitmentStep
  <2>. QED  BY <2>1, <2>2, <2>3 DEF voteVars, VoteTypeOK
<1>2. ASSUME NEW i \in Node, HandlePropose(i) PROVE Shapes'
  BY <1>2 DEF HandlePropose, voteVars, VoteTypeOK
<1>3. ASSUME NEW i \in Node, ReceiveShare(i) PROVE Shapes'
  BY <1>3 DEF ReceiveShare, voteVars, VoteTypeOK, ShareState
<1>4. ASSUME NEW i \in Node, Process(i) PROVE Shapes'
  <2>1. VoteTypeOK'
    BY <1>4, VoteShapes DEF Process
  <2>. QED  BY <1>4, <2>1 DEF Process
<1>5. ASSUME NEW i \in Node, Vote(i) PROVE Shapes'
  <2>1. VoteTypeOK'
    BY <1>5, VoteShapes DEF Vote
  <2>. QED  BY <1>5, <2>1 DEF Vote
<1>6. ASSUME NEW i \in Node, EndProcess(i) PROVE Shapes'
  BY <1>6 DEF EndProcess, CallOutput, voteVars, VoteTypeOK, ShareState
<1>7. ASSUME NEW i \in Node, StartAnswering(i) PROVE Shapes'
  BY <1>7 DEF StartAnswering, voteVars, VoteTypeOK, Manager
<1>8. ASSUME NEW i \in Node, StartRecovering(i) PROVE Shapes'
  BY <1>8 DEF StartRecovering, voteVars, VoteTypeOK, Manager
<1>9. ASSUME NEW i \in Node, Answer(i) PROVE Shapes'
  BY <1>9 DEF Answer, Forward, CallOutput, voteVars, VoteTypeOK, Manager
<1>10. ASSUME NEW i \in Node, Recover(i) PROVE Shapes'
  BY <1>10 DEF Recover, CallOutput, voteVars, VoteTypeOK, Manager, ShareState
<1>11. ASSUME NEW i \in Node, Leave(i) PROVE Shapes'
  BY <1>11 DEF Leave, voteVars, VoteTypeOK
<1>12. ASSUME NEW i \in Node, Report(i) PROVE Shapes'
  BY <1>12 DEF Report, voteVars, VoteTypeOK
<1>13. CASE UNCHANGED vars
  BY <1>13 DEF vars, voteVars, VoteTypeOK
<1>. QED  BY <1>1, <1>2, <1>3, <1>4, <1>5, <1>6, <1>7, <1>8, <1>9, <1>10,
             <1>11, <1>12, <1>13 DEF Next, NodeStep

-----------------------------------------------------------------------------
(* The share of a node, by where it comes from and how far the node is.    *)
ShareFits(i) ==
    /\ share[i] = "good" => i \in Served
    /\ share[i] # "good" /\ share[i] # "none" => i \notin Served
    /\ phase[i] = "share" => share[i] \in {"none", "good", "bad"}
    /\ phase[i] = "vote" => share[i] \in {"good", "bad"}
    /\ phase[i] = "over" => share[i] \in {"good", "thrown", "recovered"}

(* The two managers work on the share that the end of the process left.    *)
ManagersFit(i) ==
    /\ answering[i] # "wait" => Corrupted /\ phase[i] = "over"
    /\ recovering[i] # "wait" => Corrupted /\ phase[i] = "over"
    /\ answering[i] = "on" => share[i] \in {"good", "recovered"}
    /\ recovering[i] = "on" => share[i] = "thrown"
    /\ recovering[i] = "off" => share[i] = "recovered"

(* Who may call Node::output, and how often.                               *)
Callers(i) ==
    (IF answering[i] = "off" /\ share[i] # "thrown" THEN 1 ELSE 0)
      + (IF recovering[i] = "off" THEN 1 ELSE 0)
      + (IF ~Corrupted /\ phase[i] = "over" THEN 1 ELSE 0)

OutputsFit(i) ==
    /\ outputs[i] <= Callers(i)
    /\ outputs[i] > 0 => phase[i] = "over" /\ share[i] \in {"good", "recovered"}

NodeFits(i) ==
    /\ ShareFits(i)
    /\ ManagersFit(i)
    /\ OutputsFit(i)
    /\ phase[i] = "over" => i \in done
    /\ i \in left => outputs[i] > 0
    /\ i \in complaints => i \notin Served

Fits == \A i \in Node : NodeFits(i)

(* What NodeFits(i) looks at.                                              *)
Local(i) == <<share[i], phase[i], answering[i], recovering[i], outputs[i]>>

(* A node that the step leaves alone still fits.                           *)
LEMMA OthersFit ==
    ASSUME NEW k \in Node, NodeFits(k), UNCHANGED Local(k),
           done \subseteq done',
           k \in left' => k \in left,
           k \in complaints' => k \in complaints
    PROVE  NodeFits(k)'
BY DEF NodeFits, Local, ShareFits, ManagersFit, OutputsFit, Callers

LEMMA FitsInit == Init => Fits
BY DEF Init, NoVote, Fits, NodeFits, ShareFits, ManagersFit, OutputsFit, Callers

LEMMA FitsStep == Shapes /\ Fits /\ [Next]_vars => Fits'
<1>. SUFFICES ASSUME Shapes, Fits, [Next]_vars, NEW k \in Node PROVE NodeFits(k)'
  BY DEF Fits
<1>. USE DEF broadcast, sharing, forwards, managers, ending
<1>0. NodeFits(k)
  BY DEF Fits
<1>00. /\ share \in [Node -> ShareState] /\ outputs \in [Node -> Nat]
       /\ phase \in [Node -> {"share", "vote", "over"}]
       /\ answering \in [Node -> Manager] /\ recovering \in [Node -> Manager]
  BY DEF Shapes
<1>1. CASE CommitmentStep
  BY <1>0, <1>1, OthersFit DEF CommitmentStep, Local, voteVars
<1>2. ASSUME NEW i \in Node, HandlePropose(i) PROVE NodeFits(k)'
  BY <1>0, <1>2, OthersFit DEF HandlePropose, Local, voteVars
<1>3. ASSUME NEW i \in Node, ReceiveShare(i) PROVE NodeFits(k)'
  <2>1. CASE k # i
    BY <1>0, <1>00, <1>3, <2>1, OthersFit DEF ReceiveShare, Local, voteVars
  <2>2. CASE k = i
    BY <1>0, <1>00, <1>3, <2>2 DEF ReceiveShare, voteVars, NodeFits, ShareFits,
       ManagersFit, OutputsFit, Callers
  <2>. QED  BY <2>1, <2>2
<1>4. ASSUME NEW i \in Node, Process(i) PROVE NodeFits(k)'
  <2>0. done' = done
    BY <1>4 DEF Process, BroadcastOk, voteVars
  <2>1. CASE k # i
    BY <1>0, <1>00, <1>4, <2>0, <2>1, OthersFit DEF Process, Local
  <2>2. CASE k = i
    BY <1>0, <1>00, <1>4, <2>0, <2>2 DEF Process, NodeFits, ShareFits,
       ManagersFit, OutputsFit, Callers
  <2>. QED  BY <2>1, <2>2
<1>5. ASSUME NEW i \in Node, Vote(i) PROVE NodeFits(k)'
  <2>1. done \subseteq done'
    BY <1>5, VoteShapes DEF Vote, Shapes
  <2>. QED  BY <1>0, <1>5, <2>1, OthersFit DEF Vote, Local
<1>6. ASSUME NEW i \in Node, EndProcess(i) PROVE NodeFits(k)'
  <2>0. done' = done /\ left' = left
    BY <1>6 DEF EndProcess, voteVars
  <2>1. CASE k # i
    BY <1>0, <1>00, <1>6, <2>0, <2>1, OthersFit DEF EndProcess, CallOutput, Local
  <2>2. CASE k = i /\ share[i] = "good"
    BY <1>0, <1>00, <1>6, <2>0, <2>2 DEF EndProcess, CallOutput, NodeFits,
       ShareFits, ManagersFit, OutputsFit, Callers
  <2>3. CASE k = i /\ share[i] # "good"
    BY <1>0, <1>00, <1>6, <2>0, <2>3 DEF EndProcess, NodeFits,
       ShareFits, ManagersFit, OutputsFit, Callers
  <2>. QED  BY <2>1, <2>2, <2>3
<1>7. ASSUME NEW i \in Node, StartAnswering(i) PROVE NodeFits(k)'
  <2>1. CASE k # i
    BY <1>0, <1>00, <1>7, <2>1, OthersFit DEF StartAnswering, Local, voteVars
  <2>2. CASE k = i
    BY <1>0, <1>00, <1>7, <2>2 DEF StartAnswering, voteVars, NodeFits,
       HasShare, ShareFits, ManagersFit, OutputsFit, Callers
  <2>. QED  BY <2>1, <2>2
<1>8. ASSUME NEW i \in Node, StartRecovering(i) PROVE NodeFits(k)'
  <2>1. CASE k # i
    BY <1>0, <1>00, <1>8, <2>1, OthersFit DEF StartRecovering, Local, voteVars
  <2>2. CASE k = i
    BY <1>0, <1>00, <1>8, <2>2 DEF StartRecovering, voteVars, NodeFits,
       HasShare, ShareFits, ManagersFit, OutputsFit, Callers
  <2>. QED  BY <2>1, <2>2
<1>9. ASSUME NEW i \in Node, Answer(i) PROVE NodeFits(k)'
  <2>1. CASE k # i
    BY <1>0, <1>00, <1>9, <2>1, OthersFit DEF Answer, Forward, CallOutput, Local, voteVars
  <2>2. CASE k = i
    BY <1>0, <1>00, <1>9, <2>2 DEF Answer, Forward, CallOutput, voteVars, NodeFits,
       ShareFits, ManagersFit, OutputsFit, Callers
  <2>. QED  BY <2>1, <2>2
<1>10. ASSUME NEW i \in Node, Recover(i) PROVE NodeFits(k)'
  <2>1. CASE k # i
    BY <1>0, <1>00, <1>10, <2>1, OthersFit DEF Recover, CallOutput, Local, voteVars
  <2>2. CASE k = i
    BY <1>0, <1>00, <1>10, <2>2 DEF Recover, CallOutput, voteVars, NodeFits,
       ShareFits, ManagersFit, OutputsFit, Callers
  <2>. QED  BY <2>1, <2>2
<1>11. ASSUME NEW i \in Node, Leave(i) PROVE NodeFits(k)'
  <2>1. CASE k # i
    BY <1>0, <1>11, <2>1, OthersFit DEF Leave, Local, voteVars
  <2>2. CASE k = i
    BY <1>0, <1>11, <2>2 DEF Leave, voteVars, NodeFits,
       ShareFits, ManagersFit, OutputsFit, Callers
  <2>. QED  BY <2>1, <2>2
<1>12. ASSUME NEW i \in Node, Report(i) PROVE NodeFits(k)'
  BY <1>0, <1>12, OthersFit DEF Report, Local, voteVars
<1>13. CASE UNCHANGED vars
  BY <1>0, <1>13, OthersFit DEF vars, Local, voteVars
<1>. QED  BY <1>1, <1>2, <1>3, <1>4, <1>5, <1>6, <1>7, <1>8, <1>9, <1>10,
             <1>11, <1>12, <1>13 DEF Next, NodeStep

(* A node calls output() at most twice, once in each manager.              *)
LEMMA FitsTypes == Shapes /\ Fits => TypeOK
<1>. SUFFICES ASSUME Shapes, Fits PROVE TypeOK
  OBVIOUS
<1>1. complaints \subseteq Node \ Served
  BY DEF Shapes, Fits, NodeFits
<1>2. ASSUME NEW i \in Node PROVE outputs[i] \in 0..2
  <2>1. outputs[i] \in Nat /\ outputs[i] <= Callers(i)
    BY DEF Shapes, Fits, NodeFits, OutputsFit
  <2>2. ~Corrupted => answering[i] = "wait" /\ recovering[i] = "wait"
    BY DEF Shapes, Fits, NodeFits, ManagersFit
  <2>3. Callers(i) \in 0..2
    BY <2>2 DEF Callers
  <2>. QED  BY <2>1, <2>3
<1>3. outputs \in [Node -> 0..2]
  BY <1>2 DEF Shapes
<1>. QED  BY <1>1, <1>3 DEF Shapes, TypeOK, Manager

(* Each variable keeps its type: only nodes that were not served complain, *)
(* and a node calls Node::output at most twice.                            *)
THEOREM TypeCorrect == Spec => []TypeOK
<1>1. Init => Shapes /\ Fits
  BY ShapesInit, FitsInit
<1>2. Shapes /\ Fits /\ [Next]_vars => (Shapes /\ Fits)'
  BY ShapesStep, FitsStep
<1>. QED  BY <1>1, <1>2, FitsTypes, PTL DEF Spec

(* A node leaves with a share of the committed polynomial: the manager     *)
(* that lets it go has seen one, and no task throws it afterwards.         *)
THEOREM LeavesWithOne == Spec => []LeavesWithAShare
<1>1. Init => Shapes /\ Fits
  BY ShapesInit, FitsInit
<1>2. Shapes /\ Fits /\ [Next]_vars => (Shapes /\ Fits)'
  BY ShapesStep, FitsStep
<1>3. Shapes /\ Fits => LeavesWithAShare
  BY DEF Shapes, Fits, NodeFits, OutputsFit, LeavesWithAShare
<1>. QED  BY <1>1, <1>2, <1>3, PTL DEF Spec

-----------------------------------------------------------------------------
(* An Ok stands on a good share, and any vote on 2T+1 Oks: the first vote  *)
(* cannot follow another.                                                  *)
OkIsGood == \A i \in oks : i \in Served \ Byz /\ share[i] = "good"
VoteHasOks == votes # {} => Cardinality(oks) >= enough

LEMMA CountGrows ==
    ASSUME NEW A, NEW B, B \subseteq Node, A \subseteq B
    PROVE  Cardinality(A) <= Cardinality(B) /\ Cardinality(B) \in Nat
BY FS_Subset, FS_CardinalityType, NodesAssumption

LEMMA OkStep == Shapes /\ Fits /\ OkIsGood /\ [Next]_vars => OkIsGood'
<1>. SUFFICES ASSUME Shapes, Fits, OkIsGood, [Next]_vars PROVE OkIsGood'
  OBVIOUS
<1>. USE DEF broadcast, sharing, forwards, managers, ending, OkIsGood
<1>1. share \in [Node -> ShareState] /\ oks \subseteq Node
  BY DEF Shapes, VoteTypeOK
<1>2. ASSUME NEW i \in Node, share[i] # "good", oks' = oks,
             \A k \in Node \ {i} : share'[k] = share[k]
      PROVE  OkIsGood'
  BY <1>1, <1>2
<1>3. ASSUME oks' = oks, share' = share PROVE OkIsGood'
  BY <1>3
<1>4. CASE CommitmentStep
  BY <1>3, <1>4 DEF CommitmentStep, voteVars
<1>5. ASSUME NEW i \in Node, HandlePropose(i) PROVE OkIsGood'
  BY <1>3, <1>5 DEF HandlePropose, voteVars
<1>6. ASSUME NEW i \in Node, ReceiveShare(i) PROVE OkIsGood'
  BY <1>1, <1>2, <1>6 DEF ReceiveShare, voteVars
<1>7. ASSUME NEW i \in Node, Process(i) PROVE OkIsGood'
  <2>1. share' = share
    BY <1>7 DEF Process
  <2>2. oks' = oks \/ (oks' = oks \cup {i} /\ share[i] = "good" /\ i \notin Byz)
    BY <1>7 DEF Process, BroadcastOk, voteVars
  <2>3. share[i] = "good" => i \in Served
    BY DEF Fits, NodeFits, ShareFits
  <2>. QED  BY <2>1, <2>2, <2>3
<1>8. ASSUME NEW i \in Node, Vote(i) PROVE OkIsGood'
  BY <1>3, <1>8 DEF Vote, VoteStep, CastVote, EndVote
<1>9. ASSUME NEW i \in Node, EndProcess(i) PROVE OkIsGood'
  BY <1>1, <1>2, <1>3, <1>9 DEF EndProcess, voteVars
<1>10. ASSUME NEW i \in Node, StartAnswering(i) PROVE OkIsGood'
  BY <1>3, <1>10 DEF StartAnswering, voteVars
<1>11. ASSUME NEW i \in Node, StartRecovering(i) PROVE OkIsGood'
  BY <1>3, <1>11 DEF StartRecovering, voteVars
<1>12. ASSUME NEW i \in Node, Answer(i) PROVE OkIsGood'
  BY <1>3, <1>12 DEF Answer, Forward, voteVars
<1>13. ASSUME NEW i \in Node, Recover(i) PROVE OkIsGood'
  <2>1. share[i] # "good"
    BY <1>13 DEF Recover, Fits, NodeFits, ManagersFit
  <2>. QED  BY <1>1, <1>2, <1>13, <2>1 DEF Recover, voteVars
<1>14. ASSUME NEW i \in Node, Leave(i) PROVE OkIsGood'
  BY <1>3, <1>14 DEF Leave, voteVars
<1>15. ASSUME NEW i \in Node, Report(i) PROVE OkIsGood'
  BY <1>3, <1>15 DEF Report, voteVars
<1>16. CASE UNCHANGED vars
  BY <1>3, <1>16 DEF vars, voteVars
<1>. QED  BY <1>4, <1>5, <1>6, <1>7, <1>8, <1>9, <1>10, <1>11, <1>12, <1>13,
             <1>14, <1>15, <1>16 DEF Next, NodeStep

(* Of all steps only those of the vote touch it.                           *)
LEMMA VoteMoves ==
    [Next]_vars => (\E i \in Node : BroadcastOk(i) \/ VoteStep(i)) \/ UNCHANGED voteVars
BY DEF Next, NodeStep, CommitmentStep, HandlePropose, ReceiveShare, Process,
       Vote, EndProcess, StartAnswering, StartRecovering, Answer, Forward, Recover, Leave,
       Report, vars

LEMMA VoteHasOksStep == Shapes /\ VoteHasOks /\ [Next]_vars => VoteHasOks'
<1>. SUFFICES ASSUME Shapes, VoteHasOks, [Next]_vars PROVE VoteHasOks'
  OBVIOUS
<1>1. VoteTypeOK /\ T \in Nat
  BY NodesAssumption DEF Shapes
<1>2. CASE UNCHANGED voteVars
  BY <1>2 DEF voteVars, VoteHasOks
<1>3. ASSUME NEW i \in Node, BroadcastOk(i) PROVE VoteHasOks'
  <2>1. Cardinality(oks) <= Cardinality(oks') /\ Cardinality(oks') \in Nat
    BY <1>1, <1>3, CountGrows DEF BroadcastOk, VoteTypeOK
  <2>2. Cardinality(oks) \in Nat
    BY <1>1, CountGrows DEF VoteTypeOK
  <2>3. votes' = votes
    BY <1>3 DEF BroadcastOk
  <2>. QED  BY <1>1, <2>1, <2>2, <2>3 DEF VoteHasOks, enough
<1>4. ASSUME NEW i \in Node, CastVote(i) PROVE VoteHasOks'
  <2>1. votes = {} => Cardinality(votes) = 0
    BY FS_EmptySet
  <2>2. EnoughOks \/ votes # {}
    BY <1>1, <1>4, <2>1 DEF CastVote, SomeVotes
  <2>. QED  BY <1>4, <2>2 DEF CastVote, EnoughOks, VoteHasOks
<1>5. ASSUME NEW i \in Node, EndVote(i) PROVE VoteHasOks'
  BY <1>5 DEF EndVote, VoteHasOks
<1>. QED  BY <1>2, <1>3, <1>4, <1>5, VoteMoves DEF VoteStep

(* A node that leaves has seen the vote end, which stands on 2T+1 Oks.     *)
LEMMA LeavingHasOks ==
    Shapes /\ Fits /\ OkIsGood /\ VoteHasOks => LeavingMeansShared
<1>. SUFFICES ASSUME Shapes, Fits, OkIsGood, VoteHasOks, NEW i \in left
             PROVE  Cardinality({k \in Served \ Byz : share[k] = "good"}) >= 2 * T + 1
  BY DEF LeavingMeansShared
<1>1. i \in Node /\ T \in Nat
  BY NodesAssumption DEF Shapes
<1>2. i \in done
  BY <1>1 DEF Shapes, Fits, NodeFits, OutputsFit
<1>3. Cardinality(oks) >= 2 * T + 1
  BY <1>2 DEF Shapes, VoteTypeOK, VoteHasOks, enough
<1>4. oks \subseteq {k \in Served \ Byz : share[k] = "good"}
  BY DEF OkIsGood
<1>5. {k \in Served \ Byz : share[k] = "good"} \subseteq Node
  BY NodesAssumption
<1>. DEFINE good == {k \in Served \ Byz : share[k] = "good"}
<1>6. Cardinality(oks) <= Cardinality(good) /\ Cardinality(good) \in Nat
  BY <1>4, <1>5, CountGrows
<1>7. Cardinality(oks) \in Nat
  BY CountGrows DEF Shapes, VoteTypeOK
<1>. HIDE DEF good
<1>8. Cardinality(good) >= 2 * T + 1
  BY <1>1, <1>3, <1>6, <1>7
<1>. QED  BY <1>8 DEF good

(* Nobody leaves before 2T+1 nodes that follow the protocol hold a good    *)
(* share, whoever the dealer serves and however many nodes are Byzantine.  *)
THEOREM LeavingAfterSharing == Spec => []LeavingMeansShared
<1>. DEFINE Inv == Shapes /\ Fits /\ OkIsGood /\ VoteHasOks
<1>1. Init => Inv
  BY ShapesInit, FitsInit DEF Init, NoVote, OkIsGood, VoteHasOks
<1>2. Inv /\ [Next]_vars => Inv'
  BY ShapesStep, FitsStep, OkStep, VoteHasOksStep
<1>3. Inv => LeavingMeansShared
  BY LeavingHasOks
<1>. QED  BY <1>1, <1>2, <1>3, PTL DEF Spec

-----------------------------------------------------------------------------
(* With a dealer that serves no more than n - S nodes, whoever has a share *)
(* knows that all those nodes have handled their Propose.                  *)
SharesFollowProposals == \A i \in Node : share[i] # "none" => Served \subseteq proposed

LEMMA AllProposed ==
    ASSUME N - S >= Cardinality(Served), Shapes, Cardinality(proposed) >= N - S
    PROVE  Served \subseteq proposed
<1>1. proposed \subseteq Served /\ IsFiniteSet(Served)
  BY FS_Subset, NodesAssumption DEF Shapes
<1>2. /\ Cardinality(proposed) \in Nat /\ Cardinality(Served) \in Nat
      /\ Cardinality(proposed) <= Cardinality(Served)
  BY <1>1, FS_Subset, FS_CardinalityType
<1>3. N - S \in Int
  BY FS_CardinalityType, NodesAssumption DEF N, S
<1>4. Cardinality(proposed) = Cardinality(Served)
  BY <1>2, <1>3
<1>. QED  BY <1>1, <1>4, FS_Subset

(* Which steps give a share to a node that had none.                       *)
LEMMA FirstShare ==
    ASSUME Shapes, Fits, [Next]_vars, NEW k \in Node, share'[k] # "none"
    PROVE  share[k] # "none" \/ Cardinality(proposed) >= N - S
<1>1. share \in [Node -> ShareState]
  BY DEF Shapes
<1>2. ASSUME NEW i \in Node, EndProcess(i) PROVE share[i] # "none"
  BY <1>2 DEF EndProcess, Fits, NodeFits, ShareFits
<1>3. ASSUME NEW i \in Node, Recover(i) PROVE share[i] # "none"
  BY <1>3 DEF Recover, Fits, NodeFits, ManagersFit
<1>4. \/ share' = share
      \/ \E i \in Node : ReceiveShare(i) \/ EndProcess(i) \/ Recover(i)
  BY DEF Next, NodeStep, CommitmentStep, HandlePropose, Process, Vote,
     StartAnswering, StartRecovering, Answer, Forward, Leave, Report, vars, sharing
<1>5. CASE share' = share
  BY <1>5
<1>6. ASSUME NEW i \in Node, ReceiveShare(i) \/ EndProcess(i) \/ Recover(i)
      PROVE  (share[i] # "none" \/ Cardinality(proposed) >= N - S)
             /\ \A j \in Node \ {i} : share'[j] = share[j]
  BY <1>1, <1>2, <1>3, <1>6 DEF ReceiveShare, EndProcess, Recover
<1>. QED  BY <1>4, <1>5, <1>6

LEMMA ProposalsStep ==
    ASSUME N - S >= Cardinality(Served), Shapes, Fits, SharesFollowProposals,
           [Next]_vars
    PROVE  SharesFollowProposals'
<1>1. proposed \subseteq proposed'
  BY DEF Next, NodeStep, CommitmentStep, HandlePropose, ReceiveShare, Process,
       Vote, EndProcess, StartAnswering, StartRecovering, Answer, Forward, Recover, Leave,
       Report, vars, sharing
<1>. QED  BY <1>1, AllProposed, FirstShare DEF SharesFollowProposals

(* A recovered share stays, and a node that is now told to answer without  *)
(* the proof was not served.                                               *)
LEMMA CrashStep ==
    Shapes /\ Fits /\ SharesFollowProposals /\ OnlyLateManagersCrash /\ [Next]_vars
      => OnlyLateManagersCrash'
<1>. SUFFICES ASSUME Shapes, Fits, SharesFollowProposals, OnlyLateManagersCrash,
                     [Next]_vars, NEW k \in crashed'
              PROVE  k \notin Served /\ share'[k] = "recovered"
  BY DEF OnlyLateManagersCrash
<1>1. /\ share \in [Node -> ShareState]
      /\ \A i \in crashed : i \in Node
  BY DEF Shapes
<1>2. ASSUME NEW i \in Node, Answer(i), k \notin crashed
      PROVE  k \notin Served /\ share'[k] = "recovered"
  <2>1. k = i /\ i \notin proposed /\ answering[i] = "on" /\ share' = share
    BY <1>2 DEF Answer, Forward, sharing, forwards
  <2>2. share[i] \in {"good", "recovered"}
    BY <2>1 DEF Fits, NodeFits, ManagersFit
  <2>3. i \notin Served
    BY <2>1, <2>2 DEF SharesFollowProposals
  <2>4. share[i] # "good"
    BY <2>3 DEF Fits, NodeFits, ShareFits
  <2>. QED  BY <2>1, <2>2, <2>3, <2>4
<1>3. k \notin crashed => \E i \in Node : Answer(i)
  BY DEF Next, NodeStep, CommitmentStep, HandlePropose, ReceiveShare, Process,
       Vote, EndProcess, StartAnswering, StartRecovering, Recover, Leave,
       Report, vars, forwards
<1>4. ASSUME k \in crashed PROVE share'[k] = "recovered"
  <2>1. k \in Node /\ share[k] = "recovered" /\ k \notin Served
    BY <1>1, <1>4 DEF OnlyLateManagersCrash
  <2>2. phase[k] # "vote"
    BY <2>1 DEF Fits, NodeFits, ShareFits
  <2>3. \/ share' = share
        \/ \E i \in Node : ReceiveShare(i) \/ EndProcess(i) \/ Recover(i)
    BY DEF Next, NodeStep, CommitmentStep, HandlePropose, Process, Vote,
       StartAnswering, StartRecovering, Answer, Forward, Leave, Report, vars, sharing
  <2>. QED  BY <1>1, <2>1, <2>2, <2>3 DEF ReceiveShare, EndProcess, Recover
<1>. QED  BY <1>2, <1>3, <1>4 DEF OnlyLateManagersCrash

(* If the dealer serves at most n - S nodes, every SMD listener that is    *)
(* told to forward a bad share has its root proof, but for the late        *)
(* complaint_manager of a node that was not served.  It is what fails when *)
(* n is a multiple of 3 and the dealer serves n - t nodes with t < n / 3.  *)
THEOREM ProofsAtHand ==
    N - S >= Cardinality(Served) => (Spec => []OnlyLateManagersCrash)
<1>. SUFFICES ASSUME N - S >= Cardinality(Served)
              PROVE  Spec => []OnlyLateManagersCrash
  OBVIOUS
<1>. DEFINE Inv == /\ Shapes /\ Fits
                   /\ SharesFollowProposals /\ OnlyLateManagersCrash
<1>1. Init => Inv
  <2>1. Init => SharesFollowProposals /\ OnlyLateManagersCrash
    BY DEF Init, SharesFollowProposals, OnlyLateManagersCrash
  <2>. QED  BY <2>1, ShapesInit, FitsInit
<1>2. Inv /\ [Next]_vars => Inv'
  BY ShapesStep, FitsStep, ProposalsStep, CrashStep
<1>. QED  BY <1>1, <1>2, PTL DEF Spec
-----------------------------------------------------------------------------
(* How far a node is from its end, by what it and its share have come to.  *)
EndFits(i) ==
    /\ phase[i] # "share" /\ share[i] = "good" /\ i \notin Byz => i \in oks
    /\ phase[i] = "over" /\ ~Corrupted => outputs[i] > 0
    /\ phase[i] = "over" /\ i \notin Served => i \in complaints
    /\ answering[i] = "off" /\ i \in Served => outputs[i] > 0
    /\ recovering[i] = "off" => outputs[i] > 0
    /\ share[i] = "recovered" => recovering[i] = "off"
    /\ Corrupted /\ i \in Served /\ outputs[i] > 0
         => answering[i] = "off" /\ i \in assists

Ends == \A i \in Node : EndFits(i)

LEMMA OthersEnd ==
    ASSUME NEW k \in Node, EndFits(k), UNCHANGED Local(k), oks \subseteq oks',
           complaints \subseteq complaints', assists \subseteq assists'
    PROVE  EndFits(k)'
BY DEF EndFits, Local

LEMMA EndsInit == Init => Ends
BY DEF Init, NoVote, Ends, EndFits

LEMMA EndsStep == Shapes /\ Fits /\ Ends /\ [Next]_vars => Ends'
<1>. SUFFICES ASSUME Shapes, Fits, Ends, [Next]_vars, NEW k \in Node
              PROVE  EndFits(k)'
  BY DEF Ends
<1>. USE DEF broadcast, sharing, forwards, managers, ending, Local
<1>0. NodeFits(k) /\ EndFits(k)
  BY DEF Fits, Ends
<1>00. /\ share \in [Node -> ShareState] /\ outputs \in [Node -> Nat]
       /\ phase \in [Node -> {"share", "vote", "over"}]
       /\ answering \in [Node -> Manager] /\ recovering \in [Node -> Manager]
  BY DEF Shapes
<1>1. CASE CommitmentStep
  BY <1>0, <1>1, OthersEnd DEF CommitmentStep, voteVars
<1>2. ASSUME NEW i \in Node, HandlePropose(i) PROVE EndFits(k)'
  BY <1>0, <1>2, OthersEnd DEF HandlePropose, voteVars
<1>3. ASSUME NEW i \in Node, ReceiveShare(i) PROVE EndFits(k)'
  <2>1. CASE k # i
    BY <1>0, <1>00, <1>3, <2>1, OthersEnd DEF ReceiveShare, Local, voteVars
  <2>2. CASE k = i
    BY <1>0, <1>00, <1>3, <2>2 DEF ReceiveShare, voteVars, EndFits, NodeFits,
       ShareFits, ManagersFit, OutputsFit, HasShare
  <2>. QED  BY <2>1, <2>2
<1>4. ASSUME NEW i \in Node, Process(i) PROVE EndFits(k)'
  <2>0. oks \subseteq oks'
    BY <1>4 DEF Process, BroadcastOk, voteVars
  <2>1. CASE k # i
    BY <1>0, <1>00, <1>4, <2>0, <2>1, OthersEnd DEF Process
  <2>2. CASE k = i
    BY <1>0, <1>00, <1>4, <2>2 DEF Process, BroadcastOk, EndFits, NodeFits,
       ShareFits, ManagersFit, OutputsFit
  <2>. QED  BY <2>1, <2>2
<1>5. ASSUME NEW i \in Node, Vote(i) PROVE EndFits(k)'
  <2>1. oks \subseteq oks'
    BY <1>5, VoteShapes DEF Vote, Shapes
  <2>. QED  BY <1>0, <1>5, <2>1, OthersEnd DEF Vote
<1>6. ASSUME NEW i \in Node, EndProcess(i) PROVE EndFits(k)'
  <2>1. CASE k # i
    BY <1>0, <1>00, <1>6, <2>1, OthersEnd DEF EndProcess, Local, CallOutput, voteVars
  <2>2. CASE k = i /\ share[i] = "good"
    BY <1>0, <1>00, <1>6, <2>2 DEF EndProcess, CallOutput, voteVars, EndFits,
       NodeFits, ShareFits, ManagersFit, OutputsFit
  <2>3. CASE k = i /\ share[i] # "good"
    <3>1. i \notin Served
      BY <1>0, <1>6, <2>3 DEF EndProcess, NodeFits, ShareFits
    <3>2. Corrupted
      BY <3>1 DEF Corrupted
    <3>. QED  BY <1>0, <1>00, <1>6, <2>3, <3>1, <3>2 DEF EndProcess, voteVars,
                 EndFits, NodeFits, ShareFits, ManagersFit, OutputsFit
  <2>. QED  BY <2>1, <2>2, <2>3
<1>7. ASSUME NEW i \in Node, StartAnswering(i) PROVE EndFits(k)'
  <2>1. CASE k # i
    BY <1>0, <1>00, <1>7, <2>1, OthersEnd DEF StartAnswering, Local, voteVars
  <2>2. CASE k = i
    BY <1>0, <1>00, <1>7, <2>2 DEF StartAnswering, voteVars, EndFits, NodeFits,
       ShareFits, ManagersFit, OutputsFit, HasShare
  <2>. QED  BY <2>1, <2>2
<1>8. ASSUME NEW i \in Node, StartRecovering(i) PROVE EndFits(k)'
  <2>1. CASE k # i
    BY <1>0, <1>00, <1>8, <2>1, OthersEnd DEF StartRecovering, Local, voteVars
  <2>2. CASE k = i
    BY <1>0, <1>00, <1>8, <2>2 DEF StartRecovering, voteVars, EndFits, NodeFits,
       ShareFits, ManagersFit, OutputsFit, HasShare
  <2>. QED  BY <2>1, <2>2
<1>9. ASSUME NEW i \in Node, Answer(i) PROVE EndFits(k)'
  <2>0. i \notin left \/ i \notin Served
    <3>1. NodeFits(i) /\ EndFits(i) /\ answering[i] = "on"
      BY <1>9 DEF Answer, Fits, Ends
    <3>. QED  BY <3>1 DEF NodeFits, ManagersFit, EndFits
  <2>1. CASE k # i
    BY <1>0, <1>00, <1>9, <2>1, OthersEnd DEF Answer, Forward, CallOutput, voteVars
  <2>2. CASE k = i
    BY <1>0, <1>00, <1>9, <2>0, <2>2 DEF Answer, Forward, CallOutput, voteVars,
       EndFits, NodeFits, ShareFits, ManagersFit, OutputsFit
  <2>. QED  BY <2>1, <2>2
<1>10. ASSUME NEW i \in Node, Recover(i) PROVE EndFits(k)'
  <2>1. CASE k # i
    BY <1>0, <1>00, <1>10, <2>1, OthersEnd DEF Recover, Local, CallOutput, voteVars
  <2>2. CASE k = i
    BY <1>0, <1>00, <1>10, <2>2 DEF Recover, CallOutput, voteVars, EndFits, NodeFits,
       ShareFits, ManagersFit, OutputsFit, HasShare
  <2>. QED  BY <2>1, <2>2
<1>11. ASSUME NEW i \in Node, Leave(i) \/ Report(i) PROVE EndFits(k)'
  BY <1>0, <1>11, OthersEnd DEF Leave, Report, voteVars
<1>12. CASE UNCHANGED vars
  BY <1>0, <1>12, OthersEnd DEF vars, voteVars
<1>. QED  BY <1>1, <1>2, <1>3, <1>4, <1>5, <1>6, <1>7, <1>8, <1>9, <1>10,
             <1>11, <1>12 DEF Next, NodeStep

(* A share stands on n - S Proposes, whoever the dealer serves.            *)
SharesStand ==
    \A i \in Node : share[i] # "none" => Cardinality(proposed) >= N - S

LEMMA StandStep == Shapes /\ Fits /\ SharesStand /\ [Next]_vars => SharesStand'
<1>. SUFFICES ASSUME Shapes, Fits, SharesStand, [Next]_vars,
                     NEW k \in Node, share'[k] # "none"
              PROVE  Cardinality(proposed') >= N - S
  BY DEF SharesStand
<1>1. proposed \subseteq proposed' /\ proposed \subseteq Node
  <2>1. proposed \subseteq proposed'
    BY DEF Next, NodeStep, CommitmentStep, HandlePropose, ReceiveShare, Process,
       Vote, EndProcess, StartAnswering, StartRecovering, Answer, Forward,
       Recover, Leave, Report, vars, sharing
  <2>. QED  BY <2>1, NodesAssumption DEF Shapes
<1>2. proposed' \subseteq Node
  BY ShapesStep, NodesAssumption DEF Shapes
<1>3. /\ Cardinality(proposed) <= Cardinality(proposed')
      /\ Cardinality(proposed) \in Nat /\ Cardinality(proposed') \in Nat
  BY <1>1, <1>2, CountGrows
<1>4. Cardinality(proposed) >= N - S
  BY FirstShare DEF SharesStand
<1>5. N - S \in Int
  BY FS_CardinalityType, NodesAssumption DEF N, S
<1>. QED  BY <1>3, <1>4, <1>5

(* Only complaints are answered, and an honest dealer leaves no reason.    *)
AssistsHelp == assists # {} => Corrupted

LEMMA AssistsStep == Fits /\ AssistsHelp /\ [Next]_vars => AssistsHelp'
<1>. SUFFICES ASSUME Fits, AssistsHelp, [Next]_vars, assists' # {} PROVE Corrupted
  BY DEF AssistsHelp, Corrupted
<1>1. assists' = assists \/ \E i \in Node : Answer(i)
  BY DEF Next, NodeStep, CommitmentStep, HandlePropose, ReceiveShare, Process,
     Vote, EndProcess, StartAnswering, StartRecovering, Recover, Leave, Report,
     vars, forwards
<1>2. ASSUME NEW i \in Node, Answer(i) PROVE Corrupted
  BY <1>2 DEF Answer, Fits, NodeFits, ManagersFit
<1>. QED  BY <1>1, <1>2 DEF AssistsHelp

(* All that the end of the operation rests on.                             *)
EndInv ==
    /\ Shapes /\ Fits /\ OkIsGood /\ VoteHasOks
    /\ Ends /\ SharesStand /\ AssistsHelp

LEMMA EndInvCorrect == Spec => []EndInv
<1>1. Init => EndInv
  <2>1. Init => OkIsGood /\ VoteHasOks /\ SharesStand /\ AssistsHelp
    BY DEF Init, NoVote, OkIsGood, VoteHasOks, SharesStand, AssistsHelp
  <2>. QED  BY <2>1, ShapesInit, FitsInit, EndsInit DEF EndInv
<1>2. EndInv /\ [Next]_vars => EndInv'
  BY ShapesStep, FitsStep, OkStep, VoteHasOksStep, EndsStep, StandStep,
     AssistsStep DEF EndInv
<1>. QED  BY <1>1, <1>2, PTL DEF Spec

(* The dealer serves as many nodes as SMD asks for, and enough of them can *)
(* send an Ok.                                                             *)
EnoughServed == /\ Cardinality(Served) >= N - S
        /\ Cardinality(Served \ Byz) >= 2 * T + 1

(* Where all is quiet every node has its share and has sent its Ok: the    *)
(* nodes that are served have handled their Propose, or one has left and   *)
(* stands on those that had.                                               *)
LEMMA QuietShares ==
    ASSUME EnoughServed, EndInv, Quiet
    PROVE  \A i \in Node : share[i] # "none" /\ phase[i] # "share"
<1>1. Cardinality(proposed) >= N - S
  <2>1. CASE left = {}
    <3>1. Served \subseteq proposed /\ proposed \subseteq Served
      BY <2>1, NodesAssumption DEF Quiet, SharingSettled, EndInv, Shapes
    <3>2. proposed = Served
      BY <3>1
    <3>. QED  BY <3>2 DEF EnoughServed
  <2>2. CASE left # {}
    <3>1. PICK i \in left : i \in Node /\ NodeFits(i)
      BY <2>2 DEF EndInv, Shapes, Fits
    <3>2. share[i] # "none"
      BY <3>1 DEF NodeFits, OutputsFit
    <3>. QED  BY <3>1, <3>2 DEF EndInv, SharesStand
  <2>. QED  BY <2>1, <2>2
<1>2. /\ Cardinality(proposed) \in Nat /\ N - S \in Int
      /\ \A i \in Node : share[i] = "none" => Cardinality(proposed) < N - S
  <2>1. proposed \subseteq Node
    BY NodesAssumption DEF EndInv, Shapes
  <2>. QED  BY <2>1, CountGrows, FS_CardinalityType, NodesAssumption
           DEF N, S, Quiet, SharingSettled
<1>3. \A i \in Node : share[i] # "none"
  BY <1>1, <1>2
<1>. QED  BY <1>3 DEF Quiet, SharingSettled

(* So the vote ends at every node: one that has left has seen its end.     *)
LEMMA QuietVote ==
    ASSUME EnoughServed, EndInv, Quiet
    PROVE  \A i \in Node : phase[i] = "over"
<1>0. T \in Nat /\ oks \subseteq Node /\ votes \subseteq Node /\ done \subseteq votes
  BY NodesAssumption DEF EndInv, Shapes, VoteTypeOK
<1>1. Served \ Byz \subseteq oks
  <2>. SUFFICES ASSUME NEW i \in Served \ Byz PROVE i \in oks
    OBVIOUS
  <2>1. i \in Node /\ NodeFits(i) /\ EndFits(i)
    BY NodesAssumption DEF EndInv, Fits, Ends
  <2>2. share[i] # "none" /\ phase[i] # "share"
    BY <2>1, QuietShares
  <2>. QED  BY <2>1, <2>2 DEF NodeFits, ShareFits, EndFits
<1>2. EnoughOks
  <2>1. /\ Cardinality(Served \ Byz) <= Cardinality(oks)
        /\ Cardinality(oks) \in Nat
    BY <1>0, <1>1, CountGrows
  <2>2. Cardinality(Served \ Byz) \in Nat
    BY CountGrows, NodesAssumption
  <2>. QED  BY <1>0, <2>1, <2>2 DEF EnoughServed, EnoughOks, enough
<1>3. \A i \in Node : i \in left => i \in done
  BY DEF EndInv, Fits, NodeFits, OutputsFit
<1>4. votes = Node
  BY <1>0, <1>2, <1>3 DEF Quiet, SharingSettled, VoteSettled
<1>5. Cardinality(votes) >= enough
  <2>1. Cardinality(Node) \in Nat
    BY FS_CardinalityType, NodesAssumption
  <2>. QED  BY <1>0, <1>4, <2>1, NodesAssumption DEF enough
<1>6. \A i \in Node : i \in done
  BY <1>3, <1>4, <1>5 DEF Quiet, SharingSettled, VoteSettled
<1>7. phase \in [Node -> {"share", "vote", "over"}]
  BY DEF EndInv, Shapes
<1>. QED  BY <1>6, <1>7, QuietShares DEF Quiet, SharingSettled

(* With a corrupted dealer the nodes that it has served answer the         *)
(* complaint of one that it has not, before they leave.                    *)
LEMMA QuietAnswers ==
    ASSUME EnoughServed, EndInv, Quiet, Corrupted
    PROVE  Served \subseteq left /\ Served \subseteq assists
<1>. SUFFICES ASSUME NEW i \in Served PROVE i \in left /\ i \in assists
  OBVIOUS
<1>1. PICK k \in Node \ Served : TRUE
  BY NodesAssumption DEF Corrupted
<1>2. k \in complaints /\ k # i
  <2>1. EndFits(k) /\ phase[k] = "over"
    BY QuietVote DEF EndInv, Ends
  <2>. QED  BY <1>1, <2>1 DEF EndFits
<1>3. i \in Node /\ NodeFits(i) /\ EndFits(i) /\ phase[i] = "over"
  BY QuietVote, NodesAssumption DEF EndInv, Ends, Fits
<1>4. answering[i] \in {"on", "off"}
  BY <1>3 DEF EndInv, Shapes, Manager, Quiet, ComplaintsSettled
<1>5. i \in left
  <2>1. CASE answering[i] = "off"
    BY <1>3, <2>1 DEF EndFits, Quiet, ComplaintsSettled
  <2>2. CASE answering[i] = "on"
    BY <1>2, <1>3, <2>2 DEF Quiet, ComplaintsSettled, EndInv, Shapes
  <2>. QED  BY <1>4, <2>1, <2>2
<1>. QED  BY <1>3, <1>5 DEF NodeFits, EndFits

LEMMA QuietLeft ==
    ASSUME EnoughServed, EndInv, Quiet
    PROVE  left = Node
<1>. SUFFICES ASSUME NEW i \in Node PROVE i \in left
  BY DEF EndInv, Shapes
<1>0. /\ NodeFits(i) /\ EndFits(i) /\ phase[i] = "over"
      /\ SharingSettled(i) /\ ComplaintsSettled(i)
  BY QuietVote DEF EndInv, Ends, Fits, Quiet
<1>1. CASE ~Corrupted
  BY <1>0, <1>1 DEF EndFits, ComplaintsSettled
<1>2. CASE Corrupted /\ i \in Served
  BY <1>2, QuietAnswers
<1>3. CASE Corrupted /\ i \notin Served
  <2>1. Cardinality(GoodAssists(i)) >= T + 1
    <3>1. Served \ Byz \subseteq GoodAssists(i) /\ GoodAssists(i) \subseteq Node
      BY <1>3, QuietAnswers, NodesAssumption DEF GoodAssists
    <3>2. /\ Cardinality(Served \ Byz) <= Cardinality(GoodAssists(i))
          /\ Cardinality(GoodAssists(i)) \in Nat
          /\ Cardinality(Served \ Byz) \in Nat
      BY <3>1, CountGrows, NodesAssumption
    <3>. QED  BY <3>2, NodesAssumption DEF EnoughServed
  <2>2. Cardinality(GoodAssists(i)) \in Nat /\ T \in Nat
    <3>1. GoodAssists(i) \subseteq Node
      BY NodesAssumption DEF GoodAssists
    <3>. QED  BY <3>1, CountGrows, NodesAssumption
  <2>3. recovering[i] = "on" => i \in left
    BY <1>0, <2>1, <2>2 DEF ComplaintsSettled
  <2>4. recovering[i] = "off" => i \in left
    BY <1>0 DEF EndFits, ComplaintsSettled
  <2>5. recovering[i] # "wait"
    <3>1. share[i] \in {"thrown", "recovered"}
      BY <1>0, <1>3 DEF NodeFits, ShareFits
    <3>2. CASE share[i] = "thrown"
      BY <1>0, <1>3, <3>2 DEF ComplaintsSettled, HasShare
    <3>3. CASE share[i] = "recovered"
      BY <1>0, <3>3 DEF EndFits
    <3>. QED  BY <3>1, <3>2, <3>3
  <2>. QED  BY <2>3, <2>4, <2>5 DEF EndInv, Shapes, Manager
<1>. QED  BY <1>1, <1>2, <1>3

(* Where the operation stops every node has left it.  The output of a node *)
(* that was served has been reported too, if SMD had the Proposes of all   *)
(* that the dealer serves: then none of them lacks a root proof.           *)
THEOREM EveryoneLeaves ==
    ASSUME EnoughServed
    PROVE  /\ Spec => [](Quiet => left = Node)
           /\ Served = Node \/ Cardinality(Served) = N - S
                => (Spec => []EveryoneLeavesInTheEnd)
<1>1. Spec => [](Quiet => left = Node)
  <2>1. EndInv => (Quiet => left = Node)
    BY QuietLeft
  <2>. QED  BY <2>1, EndInvCorrect, PTL
<1>2. ASSUME Cardinality(Served) = N - S
      PROVE  Spec => []EveryoneLeavesInTheEnd
  <2>1. Spec => []OnlyLateManagersCrash
    <3>1. N - S >= Cardinality(Served)
      <4>1. N - S \in Int
        BY FS_CardinalityType, NodesAssumption DEF N, S
      <4>. QED  BY <1>2, <4>1
    <3>. QED  BY <3>1, ProofsAtHand
  <2>2. EndInv /\ OnlyLateManagersCrash => EveryoneLeavesInTheEnd
    <3>. SUFFICES ASSUME EndInv, OnlyLateManagersCrash, Quiet
                  PROVE  left = Node /\ Served \subseteq reported
      BY DEF EveryoneLeavesInTheEnd
    <3>1. left = Node
      BY QuietLeft
    <3>. QED  BY <3>1, NodesAssumption
             DEF Quiet, ComplaintsSettled, OnlyLateManagersCrash
  <2>. QED  BY <2>1, <2>2, EndInvCorrect, PTL
<1>3. ASSUME Served = Node
      PROVE  Spec => []EveryoneLeavesInTheEnd
  <2>1. EndInv => EveryoneLeavesInTheEnd
    <3>. SUFFICES ASSUME EndInv, Quiet
                  PROVE  left = Node /\ Served \subseteq reported
      BY DEF EveryoneLeavesInTheEnd
    <3>1. crashed = {}
      BY <1>3 DEF EndInv, AssistsHelp, Corrupted, Shapes
    <3>2. left = Node
      BY QuietLeft
    <3>. QED  BY <1>3, <3>1, <3>2 DEF Quiet, ComplaintsSettled
  <2>. QED  BY <2>1, EndInvCorrect, PTL
<1>. QED  BY <1>1, <1>2, <1>3
=============================================================================
