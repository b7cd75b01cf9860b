--------------------------- MODULE ProtocolProofs ---------------------------
(***************************************************************************)
(* Invariants of the protocols of Operations, one after the other: the     *)
(* sharings of Haven, AvssSimpl and HbAvss and SecureMessageDist, for any  *)
(* number of nodes, any T with 3T < N, any set of served nodes and any set *)
(* of Byzantine nodes; and what one node does by itself, the               *)
(* reconstruction step, its part of a dispersal and the clean of its       *)
(* heart, for any number of nodes, of parts of a message and of messages   *)
(* sent.  OperationsProofs makes theorems about operations of them.        *)
(***************************************************************************)
EXTENDS Haven, AvssSimpl, HbAvss, SecureMessageDist, Reconstruct,
        DisperseRetrieve, Cleaning, FiniteSetTheorems, TLAPS

LEMMA Quantities == N \in Nat /\ Third \in Nat /\ T \in Nat
BY NodesAssumption, FS_CardinalityType DEF N, Third

(* More nodes are not fewer.                                               *)
LEMMA AtLeastGrows ==
    ASSUME NEW k \in Nat, NEW S, NEW U \in SUBSET Node, S \subseteq U,
           AtLeast(k, S)
    PROVE  AtLeast(k, U)
<1>1. IsFiniteSet(U)
  BY NodesAssumption, FS_Subset
<1>. QED  BY <1>1, FS_Subset, FS_CardinalityType DEF AtLeast

LEMMA SomeoneIfAtLeast ==
    ASSUME NEW k \in Nat \ {0}, NEW S, AtLeast(k, S)
    PROVE  S # {}
BY FS_EmptySet DEF AtLeast

LEMMA ReachedAreNodes == Reached \subseteq Node
BY NodesAssumption DEF Reached

-----------------------------------------------------------------------------
(* A Ready takes 2T+1 Echoes, and whoever leaves has had a Ready.          *)
HavenInv ==
    /\ left \subseteq Node /\ HavenTypeOK
    /\ readied # {} => AtLeast(2 * T + 1, echoed)
    /\ left # {} => readied # {}

LEMMA HavenStart == OpInit /\ HavenInit => HavenInv
BY DEF OpInit, HavenInit, HavenInv, HavenTypeOK

LEMMA HavenStep == HavenInv /\ HavenNext => HavenInv'
<1>. SUFFICES ASSUME HavenInv, NEW i \in Node,
                     \/ SendEchoes(i)
                     \/ SomeEchoes(i) \/ EnoughEchoes(i)
                     \/ SomeReadies(i) \/ EnoughReadies(i)
              PROVE  HavenInv'
  BY DEF HavenNext
<1>. USE Quantities DEF HavenInv, HavenTypeOK, opVars
<1>1. CASE SendEchoes(i)
  <2>1. echoed \subseteq echoed' /\ echoed' \subseteq Node
    BY <1>1, ReachedAreNodes DEF SendEchoes
  <2>2. readied # {} => AtLeast(2 * T + 1, echoed')
    BY <2>1, AtLeastGrows
  <2>. QED  BY <1>1, <2>1, <2>2 DEF SendEchoes, AtLeast
<1>2. CASE SomeEchoes(i)
  BY <1>2 DEF SomeEchoes, PassEchoes, Output, AtLeast
<1>3. CASE EnoughEchoes(i)
  <2>1. AtLeast(2 * T + 1, echoed)
    BY <1>3 DEF EnoughEchoes, PassEchoes, Threshold
  <2>. QED  BY <1>3, <2>1 DEF EnoughEchoes, PassEchoes, AtLeast
<1>4. CASE SomeReadies(i)
  <2>1. readied # {}
    BY <1>4, SomeoneIfAtLeast DEF SomeReadies, PassReadies, Threshold
  <2>. QED  BY <1>4, <2>1 DEF SomeReadies, PassReadies, AtLeast
<1>5. CASE EnoughReadies(i)
  <2>1. readied # {}
    <3>1. Threshold(2) \in Nat \ {0}
      BY DEF Threshold
    <3>. QED  BY <1>5, <3>1, SomeoneIfAtLeast DEF EnoughReadies, PassReadies
  <2>. QED  BY <1>5, <2>1 DEF EnoughReadies, PassReadies, Output, AtLeast
<1>. QED  BY <1>1, <1>2, <1>3, <1>4, <1>5

LEMMA HavenStays ==
    ASSUME HavenInv, UNCHANGED <<opVars, havenVars>>
    PROVE  HavenInv'
BY DEF HavenInv, HavenTypeOK, opVars, havenVars, AtLeast

LEMMA HavenFixes == HavenInv => HavenFixed
BY DEF HavenInv, HavenFixed

-----------------------------------------------------------------------------
(* A node that has handled the dealer's Share holds it, and the dealer     *)
(* takes the signatures of such nodes only.                                *)
AvssInv ==
    /\ left \subseteq Node /\ AvssTypeOK
    /\ \A i \in received : i \in held[i]
    /\ LeavesWithItsShare

LEMMA AvssStart == OpInit /\ AvssInit => AvssInv
BY DEF OpInit, AvssInit, AvssInv, AvssTypeOK, Acked, LeavesWithItsShare

LEMMA AvssStep == AvssInv /\ AvssNext => AvssInv'
<1>. SUFFICES ASSUME AvssInv, AvssNext PROVE AvssInv'
  OBVIOUS
<1>. USE DEF AvssInv, AvssTypeOK, Acked, LeavesWithItsShare, theList, opVars
<1>1. CASE BroadcastMissing
  BY <1>1 DEF BroadcastMissing, Missing
<1>2. ASSUME NEW i \in Node, FirstReceive(i) PROVE AvssInv'
  BY <1>2, ReachedAreNodes DEF FirstReceive
<1>3. ASSUME NEW i \in Node, TakeSign(i) PROVE AvssInv'
  BY <1>3 DEF TakeSign
<1>4. ASSUME NEW i \in Node, HandOver(i) PROVE AvssInv'
  BY <1>4 DEF HandOver, avssVars
<1>5. ASSUME NEW i \in Node, VerifyAndOutput(i) PROVE AvssInv'
  <2>1. i \in held'[i]
    BY <1>5 DEF VerifyAndOutput, ListCovers
  <2>2. \A j \in Node : held[j] \subseteq held'[j]
    BY <1>5 DEF VerifyAndOutput
  <2>. QED  BY <1>5, <2>1, <2>2 DEF VerifyAndOutput, Output
<1>. QED  BY <1>1, <1>2, <1>3, <1>4, <1>5 DEF AvssNext

LEMMA AvssStays ==
    ASSUME AvssInv, UNCHANGED <<opVars, avssVars>>
    PROVE  AvssInv'
BY DEF AvssInv, AvssTypeOK, Acked, LeavesWithItsShare, opVars, avssVars, theList

LEMMA AvssHolds == AvssInv => LeavesWithItsShare
BY DEF AvssInv

-----------------------------------------------------------------------------
(* Oks come from correct nodes that hold a good share and keep it, and no  *)
(* chain of votes starts without 2T+1 of them.                             *)
Approving == {i \in Reached \ Byz : kept[i] = "good"}

HbInv ==
    /\ left \subseteq Node /\ HbTypeOK
    /\ \A i \in Node : kept[i] = "good" => i \in Reached
    /\ oks \subseteq Approving
    /\ votes # {} => AtLeast(2 * T + 1, oks)
    /\ \A i \in Node : stage[i] \in {"over", "lost"} => i \in done
    /\ left # {} => done # {} /\ (corrupted => complained # {})

LEMMA HbStart == OpInit /\ HbInit /\ NoVote => HbInv
BY DEF OpInit, HbInit, NoVote, HbInv, HbTypeOK, VoteTypeOK, Stage

LEMMA SomeVotesAreVotes == SomeVotes => votes # {}
BY Quantities, FS_EmptySet DEF SomeVotes

LEMMA HbStep == HbInv /\ HbNext => HbInv'
<1>. SUFFICES ASSUME HbInv, HbNext PROVE HbInv'
  OBVIOUS
<1>. USE DEF HbInv, HbTypeOK, VoteTypeOK, Stage, Approving, Reached, opVars
<1>a. Approving \subseteq Node
  BY ReachedAreNodes
<1>1. CASE TakeCommitment
  BY <1>1 DEF TakeCommitment, voteVars, hbVars, AtLeast
<1>2. ASSUME NEW i \in Node, Disperse(i) PROVE HbInv'
  BY <1>2, ReachedAreNodes DEF Disperse, voteVars, AtLeast
<1>3. ASSUME NEW i \in Node, RetrieveMine(i) PROVE HbInv'
  <2>1. \A j \in Node : kept[j] = "good" => kept'[j] = "good"
    BY <1>3 DEF RetrieveMine
  <2>2. oks' \subseteq Approving'
    BY <1>3, <2>1, <1>a DEF RetrieveMine, voteVars
  <2>. QED  BY <1>3, <2>2 DEF RetrieveMine, voteVars, AtLeast
<1>4. ASSUME NEW i \in Node, StartVote(i) PROVE HbInv'
  <2>1. CASE kept[i] = "good" /\ i \notin Byz
    <3>1. oks' = oks \cup {i} /\ i \in Approving
      BY <1>4, <2>1 DEF StartVote, BroadcastOk
    <3>2. votes # {} => AtLeast(2 * T + 1, oks')
      BY <3>1, <1>a, Quantities, AtLeastGrows
    <3>. QED  BY <1>4, <2>1, <3>1, <3>2, <1>a DEF StartVote, BroadcastOk, AtLeast
  <2>2. CASE ~(kept[i] = "good" /\ i \notin Byz)
    BY <1>4, <2>2 DEF StartVote, voteVars, AtLeast
  <2>. QED  BY <2>1, <2>2
<1>5. ASSUME NEW i \in Node, TakeVote(i) PROVE HbInv'
  <2>1. CASE CastVote(i)
    <3>1. EnoughOks => AtLeast(2 * T + 1, oks)
      BY DEF EnoughOks, enough, AtLeast
    <3>2. AtLeast(2 * T + 1, oks)
      BY <2>1, <3>1, SomeVotesAreVotes DEF CastVote
    <3>. QED  BY <1>5, <2>1, <3>2 DEF TakeVote, CastVote, hbVars, AtLeast
  <2>2. CASE EndVote(i)
    BY <1>5, <2>2 DEF TakeVote, EndVote, hbVars, AtLeast
  <2>. QED  BY <1>5, <2>1, <2>2 DEF TakeVote, VoteStep
<1>6. ASSUME NEW i \in Node, AfterVote(i) PROVE HbInv'
  BY <1>6 DEF AfterVote, voteVars, AtLeast, Output
<1>7. ASSUME NEW i \in Node, TakeComplaint(i) PROVE HbInv'
  BY <1>7 DEF TakeComplaint, voteVars, AtLeast, Output
<1>8. ASSUME NEW i \in Node, MissEchoes(i) PROVE HbInv'
  BY <1>8 DEF MissEchoes, voteVars, broadcastVars, AtLeast
<1>. QED  BY <1>1, <1>2, <1>3, <1>4, <1>5, <1>6, <1>7, <1>8 DEF HbNext

LEMMA HbStays ==
    ASSUME HbInv, UNCHANGED <<opVars, voteVars, hbVars>>
    PROVE  HbInv'
BY DEF HbInv, HbTypeOK, VoteTypeOK, Stage, Approving, Reached, AtLeast, opVars,
       voteVars, hbVars

LEMMA HbFixes == HbInv => HbFixed
<1>. SUFFICES ASSUME HbInv, left # {} PROVE HbFixed
  BY DEF HbFixed
<1>1. AtLeast(2 * T + 1, oks)
  BY DEF HbInv, HbTypeOK, VoteTypeOK
<1>2. Approving \subseteq Node
  BY ReachedAreNodes DEF Approving
<1>3. AtLeast(2 * T + 1, Approving)
  BY <1>1, <1>2, Quantities, AtLeastGrows DEF HbInv
<1>. QED  BY <1>3 DEF HbInv, HbFixed, Approving

-----------------------------------------------------------------------------
(* The calls of try_to_output, by the thresholds that make them; a node    *)
(* that has counted a vote has voted, and the first vote takes N-S parts.  *)
SMDInv ==
    /\ SMDTypeOK
    /\ \A i \in Node :
           /\ tries[i] = (IF shareCount[i] > 0 THEN 1 ELSE 0)
                          + (IF voteCount[i] = 2 THEN 1 ELSE 0)
           /\ voteCount[i] > 0 => i \in voted
    /\ voted # {} => AtLeast(N - Third, proposed)

LEMMA SMDStart == SMDInit => SMDInv
BY DEF SMDInit, SMDInv, SMDTypeOK

LEMMA SMDStep == SMDInv /\ SMDNext => SMDInv'
<1>. SUFFICES ASSUME SMDInv, NEW i \in Node,
                     \/ Propose(i)
                     \/ SomeParts(i) \/ EnoughParts(i)
                     \/ SomeSMDVotes(i) \/ EnoughSMDVotes(i)
              PROVE  SMDInv'
  BY DEF SMDNext
<1>. USE DEF SMDInv, SMDTypeOK
<1>a. N - Third \in Nat /\ Third + 1 \in Nat \ {0}
  BY Quantities DEF Third
<1>1. CASE Propose(i)
  <2>1. proposed \subseteq proposed' /\ proposed' \subseteq Node
    BY <1>1, ReachedAreNodes DEF Propose
  <2>2. voted # {} => AtLeast(N - Third, proposed')
    BY <1>a, <2>1, AtLeastGrows
  <2>. QED  BY <1>1, <2>1, <2>2 DEF Propose, AtLeast
<1>2. CASE SomeParts(i)
  BY <1>2 DEF SomeParts, PassParts, TryToOutput, AtLeast
<1>3. CASE EnoughParts(i)
  <2>1. AtLeast(N - Third, proposed)
    BY <1>3 DEF EnoughParts, PassParts, PartsFor
  <2>. QED  BY <1>3, <2>1 DEF EnoughParts, PassParts, CastSMDVote, AtLeast
<1>4. CASE SomeSMDVotes(i)
  <2>1. voted # {}
    BY <1>4, <1>a, SomeoneIfAtLeast DEF SomeSMDVotes, PassVotes, VotesFor
  <2>. QED  BY <1>4, <2>1 DEF SomeSMDVotes, PassVotes, CastSMDVote, AtLeast
<1>5. CASE EnoughSMDVotes(i)
  BY <1>5 DEF EnoughSMDVotes, PassVotes, TryToOutput, AtLeast
<1>. QED  BY <1>1, <1>2, <1>3, <1>4, <1>5

LEMMA SMDStays == SMDInv /\ UNCHANGED smdVars => SMDInv'
BY DEF SMDInv, SMDTypeOK, smdVars, AtLeast

LEMMA SMDHolds == SMDInv => DistributedToMost
BY DEF SMDInv, SMDTypeOK, DistributedToMost, HasOutput

-----------------------------------------------------------------------------
(* A share is in a task or in the set, and no more are taken than needed;  *)
(* in Bingo none gets into the set.                                        *)
RecInv ==
    /\ job \in Jobs /\ RecTypeOK
    /\ phase = "start" => tasks = 0 /\ inserted = 0 /\ outputs = 0
    /\ job.algo = "Bingo" => outputs = 0
    /\ job.algo # "Bingo" => inserted + tasks <= Enough
    /\ ReconstructsOnce

LEMMA EnoughIsPositive == job \in Jobs => Enough \in Nat \ {0}
<1>. SUFFICES ASSUME job \in Jobs PROVE Enough \in Nat \ {0}
  OBVIOUS
<1>1. PICK n \in Sizes : job.n = n
  BY DEF Jobs
<1>2. n \in Nat
  BY <1>1, SizesAssumption
<1>3. FieldsT(job.n) \in Nat
  BY <1>1, <1>2 DEF FieldsT
<1>. QED  BY <1>3 DEF Enough, Degree

LEMMA RecStart == RecInit => RecInv
<1>. SUFFICES ASSUME RecInit PROVE RecInv
  OBVIOUS
<1>1. Enough \in Nat \ {0}
  BY EnoughIsPositive DEF RecInit
<1>2. coming \in Nat
  <2>1. PICK n \in Sizes : job.senders \in n - 1 - FieldsT(n)..n - 1
    BY DEF RecInit, Jobs
  <2>2. n \in Nat \ {0} /\ FieldsT(n) \in Nat /\ FieldsT(n) <= n - 1
    BY SizesAssumption DEF FieldsT
  <2>. QED  BY <2>1, <2>2 DEF RecInit
<1>. QED  BY <1>1, <1>2 DEF RecInit, RecInv, RecTypeOK, ReconstructsOnce

LEMMA RecStep == RecInv /\ RecNext => RecInv'
<1>. SUFFICES ASSUME RecInv, RecNext PROVE RecInv'
  OBVIOUS
<1>1. Enough \in Nat \ {0} /\ Enough' = Enough
  <2>1. job' = job
    BY DEF RecNext, StartReconstruct, TakeShare, DropShare, InsertShare
  <2>. QED  BY <2>1, EnoughIsPositive DEF RecInv, Enough, Degree
<1>. USE <1>1 DEF RecInv, RecTypeOK, ReconstructsOnce
<1>2. CASE StartReconstruct
  BY <1>2 DEF StartReconstruct
<1>3. CASE TakeShare
  BY <1>3 DEF TakeShare, Full
<1>4. CASE DropShare
  BY <1>4 DEF DropShare
<1>5. CASE InsertShare
  BY <1>5 DEF InsertShare
<1>. QED  BY <1>2, <1>3, <1>4, <1>5 DEF RecNext

LEMMA RecStays == RecInv /\ UNCHANGED recVars => RecInv'
BY DEF RecInv, RecTypeOK, ReconstructsOnce, Enough, Degree, recVars

LEMMA RecHolds == RecInv => ReconstructsOnce
BY DEF RecInv

-----------------------------------------------------------------------------
(* Every share that a manager has passed on has been added, or is among    *)
(* the first k messages of the handler's channel.                          *)
Covered(m, k) ==
    \A j \in from[m] + 1..from[m] + passed[m] :
        j \in saw \/ \E q \in 1..k : queue[q] = j

(* A request for the output stands behind all the shares of its manager.   *)
RequestsCovered ==
    \A p \in 1..Len(queue) : queue[p] = 0 =>
        \E m \in Manager : passed[m] = parts /\ Covered(m, p - 1)

DRInv ==
    /\ parts \in Nat \ {0} /\ came \in Nat
    /\ from \in [Manager -> Nat \cup {-1}] /\ passed \in [Manager -> Nat]
    /\ queue \in Seq(Int) /\ IsFiniteSet(saw)
    /\ \A m \in Manager : from[m] = -1 => passed[m] = 0
    /\ \A m \in Manager : Covered(m, Len(queue))
    /\ RequestsCovered
    /\ DecodesEnough

LEMMA DRStart == DRInit => DRInv
<1>. SUFFICES ASSUME DRInit PROVE DRInv
  OBVIOUS
<1>1. parts \in Nat \ {0}
  BY PartsAssumption DEF DRInit
<1>. QED  BY <1>1, FS_EmptySet
          DEF DRInit, DRInv, Covered, RequestsCovered, DecodesEnough

(* A message is put behind the others.                                     *)
LEMMA Pushed ==
    ASSUME DRInv, NEW x \in Int, queue' = Append(queue, x),
           UNCHANGED <<from, parts, saw>>,
           passed' \in [Manager -> Nat],
           \A m \in Manager :
               \/ passed'[m] = passed[m]
               \/ passed'[m] = passed[m] + 1 /\ x = from[m] + passed[m] + 1
                  /\ passed[m] # parts,
           x = 0 => \E m \in Manager : passed'[m] = parts /\ passed'[m] = passed[m]
    PROVE  /\ queue' \in Seq(Int)
           /\ \A m \in Manager : Covered(m, Len(queue))'
           /\ RequestsCovered'
<1>. USE DEF DRInv
<1>1. /\ queue' \in Seq(Int) /\ Len(queue') = Len(queue) + 1
      /\ \A p \in 1..Len(queue) : queue'[p] = queue[p]
      /\ queue'[Len(queue) + 1] = x
  OBVIOUS
<1>2. ASSUME NEW m \in Manager PROVE Covered(m, Len(queue))'
  <2>. SUFFICES ASSUME NEW j \in from[m] + 1..from[m] + passed'[m],
                       j \notin saw
                PROVE  \E q \in 1..Len(queue') : queue'[q] = j
    BY DEF Covered
  <2>1. from[m] \in Int /\ passed[m] \in Nat /\ passed'[m] \in Nat
    OBVIOUS
  <2>2. CASE j \in from[m] + 1..from[m] + passed[m]
    <3>1. PICK q \in 1..Len(queue) : queue[q] = j
      BY <2>2 DEF Covered
    <3>. QED  BY <1>1, <3>1
  <2>3. CASE j \notin from[m] + 1..from[m] + passed[m]
    <3>1. passed'[m] = passed[m] + 1 /\ x = from[m] + passed[m] + 1
      BY <2>3
    <3>2. j = x
      BY <2>1, <2>3, <3>1
    <3>. QED  BY <1>1, <3>2
  <2>. QED  BY <2>2, <2>3
<1>3. ASSUME NEW p \in 1..Len(queue'), queue'[p] = 0
      PROVE  \E m \in Manager : passed'[m] = parts' /\ Covered(m, p - 1)'
  <2>1. CASE p \in 1..Len(queue)
    <3>1. PICK m \in Manager : passed[m] = parts /\ Covered(m, p - 1)
      BY <1>1, <1>3, <2>1 DEF RequestsCovered
    <3>2. passed'[m] = passed[m]
      BY <3>1
    <3>3. Covered(m, p - 1)'
      BY <1>1, <2>1, <3>1, <3>2 DEF Covered
    <3>. QED  BY <3>1, <3>2, <3>3
  <2>2. CASE p = Len(queue) + 1
    <3>1. PICK m \in Manager : passed'[m] = parts /\ passed'[m] = passed[m]
      BY <1>1, <1>3, <2>2
    <3>2. Covered(m, p - 1)'
      BY <1>1, <2>2, <3>1 DEF Covered
    <3>. QED  BY <3>1, <3>2
  <2>. QED  BY <1>1, <2>1, <2>2
<1>. QED  BY <1>1, <1>2, <1>3 DEF RequestsCovered

(* The handler takes the first message, and if it is a share adds it.      *)
LEMMA Popped ==
    ASSUME DRInv, queue # <<>>, queue' = Tail(queue),
           UNCHANGED <<from, parts, passed>>,
           saw \subseteq saw', Head(queue) > 0 => Head(queue) \in saw'
    PROVE  /\ queue' \in Seq(Int)
           /\ \A m \in Manager : Covered(m, Len(queue))'
           /\ RequestsCovered'
<1>. USE DEF DRInv
<1>1. /\ queue' \in Seq(Int) /\ Len(queue') = Len(queue) - 1
      /\ \A p \in 1..Len(queue) - 1 : queue'[p] = queue[p + 1]
      /\ Head(queue) = queue[1] /\ Len(queue) \in Nat \ {0}
  OBVIOUS
<1>2. ASSUME NEW m \in Manager, NEW k \in 1..Len(queue), Covered(m, k)
      PROVE  Covered(m, k - 1)'
  <2>. SUFFICES ASSUME NEW j \in from[m] + 1..from[m] + passed[m], j \notin saw'
                PROVE  \E q \in 1..k - 1 : queue'[q] = j
    BY DEF Covered
  <2>1. PICK q \in 1..k : queue[q] = j
    BY <1>2 DEF Covered
  <2>2. j > 0
    <3>1. from[m] \in Nat \cup {-1} /\ passed[m] \in Nat
      OBVIOUS
    <3>2. from[m] # -1
      BY <3>1
    <3>. QED  BY <3>1, <3>2
  <2>3. q # 1
    BY <1>1, <2>1, <2>2
  <2>4. q - 1 \in 1..k - 1 /\ queue'[q - 1] = j
    BY <1>1, <2>1, <2>3
  <2>. QED  BY <2>4
<1>3. \A m \in Manager : Covered(m, Len(queue))'
  BY <1>1, <1>2
<1>4. ASSUME NEW p \in 1..Len(queue'), queue'[p] = 0
      PROVE  \E m \in Manager : passed'[m] = parts' /\ Covered(m, p - 1)'
  <2>1. p + 1 \in 1..Len(queue) /\ queue[p + 1] = 0
    BY <1>1, <1>4
  <2>2. PICK m \in Manager : passed[m] = parts /\ Covered(m, p)
    BY <2>1 DEF RequestsCovered
  <2>. QED  BY <1>1, <1>2, <2>1, <2>2
<1>. QED  BY <1>1, <1>3, <1>4 DEF RequestsCovered

LEMMA DRStep == DRInv /\ DRNext => DRInv'
<1>. SUFFICES ASSUME DRInv, DRNext PROVE DRInv'
  OBVIOUS
<1>. USE DEF DRInv, managerVars, retrieveVars
<1>a. ASSUME UNCHANGED <<from, passed, queue, saw, parts>>
      PROVE  /\ \A m \in Manager : Covered(m, Len(queue))'
             /\ RequestsCovered'
  BY <1>a DEF Covered, RequestsCovered
<1>1. CASE Comes \/ StartHandler
  BY <1>1, <1>a DEF Comes, StartHandler, DecodesEnough
<1>2. ASSUME NEW m \in Manager, StartManager(m) PROVE DRInv'
  <2>1. \A k \in Manager : Covered(k, Len(queue))'
    BY <1>2 DEF StartManager, Covered
  <2>2. RequestsCovered'
    <3>. SUFFICES ASSUME NEW p \in 1..Len(queue), queue[p] = 0
                  PROVE  \E k \in Manager : passed[k] = parts /\ Covered(k, p - 1)'
      BY <1>2 DEF RequestsCovered, StartManager, Covered
    <3>1. PICK k \in Manager : passed[k] = parts /\ Covered(k, p - 1)
      BY DEF RequestsCovered
    <3>2. from'[k] = from[k]
      BY <1>2, <3>1 DEF StartManager
    <3>. QED  BY <1>2, <3>1, <3>2 DEF Covered, StartManager
  <2>. QED  BY <1>2, <2>1, <2>2 DEF StartManager, DecodesEnough
<1>3. ASSUME NEW m \in Manager, PassShare(m) PROVE DRInv'
  <2>1. CASE handler = "late"
    BY <1>3, <1>a, <2>1 DEF PassShare, DecodesEnough
  <2>2. CASE handler # "late"
    <3>. DEFINE x == from[m] + passed[m] + 1
    <3>1. x \in Int /\ x > 0 /\ queue' = Append(queue, x)
      BY <1>3, <2>2 DEF PassShare
    <3>2. passed' \in [Manager -> Nat] /\ (x # 0)
      BY <1>3, <2>2 DEF PassShare
    <3>3. UNCHANGED <<from, parts, saw, came, complete, handler>>
      BY <1>3 DEF PassShare
    <3>4. \A k \in Manager :
             \/ passed'[k] = passed[k]
             \/ passed'[k] = passed[k] + 1 /\ x = from[k] + passed[k] + 1
                /\ passed[k] # parts
      BY <1>3, <2>2 DEF PassShare
    <3>5. \A k \in Manager : from[k] = -1 => passed'[k] = 0
      BY <1>3, <2>2 DEF PassShare
    <3>6. /\ queue' \in Seq(Int)
          /\ \A k \in Manager : Covered(k, Len(queue))'
          /\ RequestsCovered'
      <4>. HIDE DEF x, DRInv
      <4>. QED  BY <3>1, <3>2, <3>3, <3>4, Pushed
    <3>. QED  BY <3>2, <3>3, <3>5, <3>6 DEF DecodesEnough
  <2>. QED  BY <2>1, <2>2
<1>4. ASSUME NEW m \in Manager, AskOutput(m) PROVE DRInv'
  <2>1. /\ queue' \in Seq(Int)
        /\ \A k \in Manager : Covered(k, Len(queue))'
        /\ RequestsCovered'
    <3>1. queue' = Append(queue, 0) /\ UNCHANGED <<from, parts, saw, passed>>
      BY <1>4 DEF AskOutput
    <3>2. passed' \in [Manager -> Nat] /\ passed'[m] = parts /\ passed'[m] = passed[m]
      BY <1>4 DEF AskOutput
    <3>3. \A k \in Manager : passed'[k] = passed[k]
      BY <3>1
    <3>. HIDE DEF DRInv
    <3>. QED  BY <3>1, <3>2, <3>3, Pushed
  <2>. QED  BY <1>4, <2>1 DEF AskOutput, DecodesEnough
<1>5. CASE AddShare
  <2>1. /\ queue' \in Seq(Int)
        /\ \A k \in Manager : Covered(k, Len(queue))'
        /\ RequestsCovered'
    BY <1>5, Popped DEF AddShare
  <2>2. /\ IsFiniteSet(saw')
        /\ Cardinality(saw) >= parts => Cardinality(saw') >= parts
    <3>1. saw \subseteq saw' /\ saw' = saw \cup {Head(queue)}
      BY <1>5 DEF AddShare
    <3>2. IsFiniteSet(saw')
      BY <3>1, FS_AddElement
    <3>. QED  BY <3>1, <3>2, FS_Subset, FS_CardinalityType
  <2>. QED  BY <1>5, <2>1, <2>2 DEF AddShare, DecodesEnough
<1>6. CASE DecodeOutput
  <2>1. /\ queue' \in Seq(Int)
        /\ \A k \in Manager : Covered(k, Len(queue))'
        /\ RequestsCovered'
    BY <1>6, Popped DEF DecodeOutput
  <2>2. Cardinality(saw) >= parts
    <3>1. 1 \in 1..Len(queue) /\ queue[1] = 0
      BY <1>6 DEF DecodeOutput
    <3>2. PICK m \in Manager : passed[m] = parts /\ Covered(m, 0)
      BY <3>1 DEF RequestsCovered
    <3>3. from[m] \in Int /\ from[m] + 1..from[m] + parts \subseteq saw
      BY <3>2 DEF Covered
    <3>4. Cardinality(from[m] + 1..from[m] + parts) = parts
      BY <3>3, FS_Interval
    <3>. QED  BY <3>3, <3>4, FS_Subset
  <2>. QED  BY <1>6, <2>1, <2>2 DEF DecodeOutput, DecodesEnough
<1>7. CASE SendRequest
  <2>1. /\ queue' \in Seq(Int)
        /\ \A k \in Manager : Covered(k, Len(queue))'
        /\ RequestsCovered'
    <3>1. queue' = Append(queue, -1) /\ UNCHANGED <<from, parts, saw, passed>>
      BY <1>7 DEF SendRequest
    <3>2. passed' \in [Manager -> Nat] /\ \A k \in Manager : passed'[k] = passed[k]
      BY <1>7 DEF SendRequest
    <3>. HIDE DEF DRInv
    <3>. QED  BY <3>1, <3>2, Pushed
  <2>. QED  BY <1>7, <2>1 DEF SendRequest, DecodesEnough
<1>8. CASE SubscribeToAnswer
  BY <1>8, <1>a DEF SubscribeToAnswer, DecodesEnough
<1>9. CASE AnswerRequest
  <2>1. /\ queue' \in Seq(Int)
        /\ \A k \in Manager : Covered(k, Len(queue))'
        /\ RequestsCovered'
    BY <1>9, Popped DEF AnswerRequest
  <2>. QED  BY <1>9, <2>1 DEF AnswerRequest, DecodesEnough
<1>. QED  BY <1>1, <1>2, <1>3, <1>4, <1>5, <1>6, <1>7, <1>8, <1>9 DEF DRNext

LEMMA DRStays == DRInv /\ UNCHANGED drVars => DRInv'
BY DEF DRInv, Covered, RequestsCovered, DecodesEnough, drVars, managerVars

LEMMA DRHolds == DRInv => DecodesEnough
BY DEF DRInv

-----------------------------------------------------------------------------
(* Until the network is first cleared, count and onWay hold every message  *)
(* that is owed, and senders, once it is known, is the number of peers     *)
(* whose messages have not all been heard.                                 *)
Unheard(c, t) == {p \in Peer : ~IsHeard(p, c, t)}

Counts ==
    /\ told = Peer \ due
    /\ \A p \in Peer : onWay[p] + count[p] = owed[p]
    /\ senders = IF op = "new" THEN -1 ELSE Cardinality(Unheard(count, told))

ClInv ==
    /\ owed \in [Peer -> Nat] /\ onWay \in [Peer -> Nat]
    /\ count \in [Peer -> Nat] /\ due \subseteq Peer /\ told \subseteq Peer
    /\ cleared = "no" => Counts
    /\ CountedMeansArrived

LEMMA ClStart == ClInit => ClInv
BY CleaningAssumption DEF ClInit, ClInv, Counts, CountedMeansArrived

(* What check_summ does after a message or a summary of a peer p that had  *)
(* not been heard: n counts what is left, and reaches zero with it.        *)
LEMMA Checked ==
    ASSUME ClInv, cleared = "no", NEW p \in Peer, p \in Unheard(count, told),
           NEW c \in [Peer -> Nat], NEW t \in SUBSET Peer,
           \A q \in Peer \ {p} : c[q] = count[q] /\ (q \in t <=> q \in told),
           CheckSumm(p, c, t)
    PROVE  \/ /\ cleared' = "counted" /\ Unheard(c, t) = {}
              /\ count' \in [Peer -> Nat] /\ told' \subseteq Peer
           \/ /\ cleared' = "no" /\ count' = c /\ told' = t
              /\ senders' = IF op = "new" THEN -1
                            ELSE Cardinality(Unheard(c, t))
<1>. DEFINE n == IF senders # -1 /\ IsHeard(p, c, t) THEN senders - 1 ELSE senders
<1>1. /\ IsFiniteSet(Unheard(count, told)) /\ IsFiniteSet(Unheard(c, t))
      /\ Cardinality(Unheard(count, told)) \in Nat
      /\ Cardinality(Unheard(c, t)) \in Nat
  <2>1. Unheard(count, told) \subseteq Peer /\ Unheard(c, t) \subseteq Peer
    BY DEF Unheard
  <2>. QED  BY <2>1, CleaningAssumption, FS_Subset, FS_CardinalityType
<1>2. \A q \in Peer \ {p} : IsHeard(q, c, t) <=> IsHeard(q, count, told)
  BY DEF IsHeard
<1>3. n = IF op = "new" THEN -1 ELSE Cardinality(Unheard(c, t))
  <2>1. CASE IsHeard(p, c, t)
    <3>1. Unheard(c, t) = Unheard(count, told) \ {p}
      BY <1>2, <2>1 DEF Unheard
    <3>2. Cardinality(Unheard(c, t)) = Cardinality(Unheard(count, told)) - 1
      BY <1>1, <3>1, FS_RemoveElement
    <3>. QED  BY <1>1, <2>1, <3>2 DEF ClInv, Counts
  <2>2. CASE ~IsHeard(p, c, t)
    <3>1. Unheard(c, t) = Unheard(count, told)
      BY <1>2, <2>2 DEF Unheard
    <3>. QED  BY <2>2, <3>1 DEF ClInv, Counts
  <2>. QED  BY <2>1, <2>2
<1>4. CASE n = 0
  <2>1. Unheard(c, t) = {}
    BY <1>1, <1>3, <1>4, FS_EmptySet
  <2>. QED  BY <1>4, <2>1 DEF CheckSumm, ClearSumm
<1>5. CASE n # 0
  BY <1>3, <1>5 DEF CheckSumm
<1>. QED  BY <1>4, <1>5

LEMMA ClStep == ClInv /\ ClNext => ClInv'
<1>. SUFFICES ASSUME ClInv, ClNext PROVE ClInv'
  OBVIOUS
<1>. USE DEF Unheard, IsHeard, listVars
<1>1. CASE NewProcess
  BY <1>1 DEF NewProcess, ClInv, Counts, CountedMeansArrived
<1>2. CASE EndOperation \/ PoolOutput \/ CleanPool
  BY <1>2 DEF EndOperation, PoolOutput, CleanPool, ClInv, Counts,
              CountedMeansArrived
<1>3. CASE GiveSumm \/ Subscribe \/ Heard \/ Cleaned \/ Notify
  BY <1>3 DEF GiveSumm, Subscribe, Heard, Cleaned, Notify, ClInv, Counts,
              CountedMeansArrived
<1>4. CASE TimerFires
  BY <1>4 DEF TimerFires, ClearSumm, ClInv, CountedMeansArrived
(* After the first clearing, whatever comes can only leave less on its way. *)
<1>5. ASSUME cleared # "no", NEW p \in Peer, MessageComes(p) \/ SummaryComes(p)
      PROVE  ClInv'
  <2>1. /\ cleared' = cleared /\ owed' = owed /\ due' \subseteq due
        /\ onWay' \in [Peer -> Nat]
        /\ \A q \in Peer : onWay'[q] <= onWay[q]
    BY <1>5 DEF MessageComes, SummaryComes, CheckSumm, ClearSumm, ClInv
  <2>2. count' \in [Peer -> Nat] /\ told' \subseteq Peer
    BY <1>5 DEF MessageComes, SummaryComes, CheckSumm, ClearSumm, ClInv
  <2>. QED  BY <1>5, <2>1, <2>2 DEF ClInv, CountedMeansArrived
<1>6. ASSUME cleared = "no", NEW p \in Peer, MessageComes(p) PROVE ClInv'
  <2>. DEFINE c == [count EXCEPT ![p] = @ + 1]
  <2>1. /\ c \in [Peer -> Nat] /\ onWay' \in [Peer -> Nat]
        /\ p \in Unheard(count, told)
        /\ \A q \in Peer : onWay'[q] + c[q] = owed[q]
        /\ \A q \in Peer \ {p} : c[q] = count[q]
        /\ UNCHANGED <<op, owed, due>> /\ CheckSumm(p, c, told)
    BY <1>6 DEF MessageComes, ClInv, Counts
  <2>2. CASE /\ cleared' = "counted" /\ Unheard(c, told) = {}
             /\ count' \in [Peer -> Nat] /\ told' \subseteq Peer
    <3>1. \A q \in Peer : onWay'[q] = 0
      BY <2>1, <2>2 DEF ClInv
    <3>. QED  BY <2>1, <2>2, <3>1 DEF ClInv, CountedMeansArrived
  <2>3. CASE /\ cleared' = "no" /\ count' = c /\ told' = told
             /\ senders' = IF op = "new" THEN -1
                           ELSE Cardinality(Unheard(c, told))
    <3>1. Unheard(count, told)' = Unheard(c, told)
      BY <2>1, <2>3
    <3>. HIDE DEF c, Unheard
    <3>. QED  BY <1>6, <2>1, <2>3, <3>1 DEF ClInv, Counts, CountedMeansArrived
  <2>. HIDE DEF c, Unheard
  <2>. QED  BY <1>6, <2>1, <2>2, <2>3, Checked DEF ClInv
<1>7. ASSUME cleared = "no", NEW p \in Peer, SummaryComes(p) PROVE ClInv'
  <2>. DEFINE t == told \cup {p}
  <2>1. /\ t \subseteq Peer /\ p \in Unheard(count, told)
        /\ t = Peer \ due'
        /\ \A q \in Peer \ {p} : q \in t <=> q \in told
        /\ UNCHANGED <<op, owed, onWay>> /\ CheckSumm(p, count, t)
    BY <1>7 DEF SummaryComes, ClInv, Counts
  <2>2. CASE /\ cleared' = "counted" /\ Unheard(count, t) = {}
             /\ count' \in [Peer -> Nat] /\ told' \subseteq Peer
    <3>1. \A q \in Peer : onWay[q] = 0
      BY <1>7, <2>2 DEF ClInv, Counts
    <3>2. due' \subseteq Peer
      BY <1>7 DEF SummaryComes, ClInv
    <3>. QED  BY <2>1, <2>2, <3>1, <3>2 DEF ClInv, CountedMeansArrived
  <2>3. CASE /\ cleared' = "no" /\ count' = count /\ told' = t
             /\ senders' = IF op = "new" THEN -1
                           ELSE Cardinality(Unheard(count, t))
    <3>1. Unheard(count, told)' = Unheard(count, t)
      BY <2>1, <2>3
    <3>2. due' \subseteq Peer
      BY <1>7 DEF SummaryComes, ClInv
    <3>. HIDE DEF t, Unheard
    <3>. QED  BY <1>7, <2>1, <2>3, <3>1, <3>2
              DEF ClInv, Counts, CountedMeansArrived
  <2>. HIDE DEF t, Unheard
  <2>. QED  BY <1>7, <2>1, <2>2, <2>3, Checked DEF ClInv
<1>. QED  BY <1>1, <1>2, <1>3, <1>4, <1>5, <1>6, <1>7 DEF ClNext

LEMMA ClStays == ClInv /\ UNCHANGED clVars => ClInv'
BY DEF ClInv, Counts, Unheard, IsHeard, CountedMeansArrived, clVars, listVars

LEMMA ClHolds == ClInv => CountedMeansArrived
BY DEF ClInv
-----------------------------------------------------------------------------
(* Where an operation stops.  The dealers of the code leave out T nodes at *)
(* most, which is few enough for Haven and for SecureMessageDist.          *)
EnoughServed == Cardinality(Node \ Served) <= T

LEMMA ReachedEnough ==
    ASSUME EnoughServed
    PROVE  AtLeast(2 * T + 1, Reached) /\ AtLeast(N - Third, Reached)
<1>1. /\ N = Cardinality(Node) /\ IsFiniteSet(Node) /\ Served \subseteq Node
      /\ 3 * T < N
  BY NodesAssumption DEF N
<1>2. Cardinality(Served) >= N - T
  <2>1. Node \cap Served = Served
    BY <1>1
  <2>2. Cardinality(Node \ Served) = Cardinality(Node) - Cardinality(Node \cap Served)
    BY <1>1, FS_Difference
  <2>3. Cardinality(Node \ Served) = N - Cardinality(Served)
    BY <1>1, <2>1, <2>2
  <2>4. Cardinality(Served) \in Nat
    BY <1>1, FS_Subset, FS_CardinalityType
  <2>. QED  BY <2>3, <2>4, Quantities DEF EnoughServed
<1>3. T <= Third
  BY <1>1, Quantities DEF Third
<1>4. Cardinality(Reached) >= N - T /\ Cardinality(Reached) \in Nat
  <2>1. Cardinality(Served) \in Nat
    BY <1>1, FS_Subset, FS_CardinalityType
  <2>. QED  BY <1>1, <1>2, <2>1, Quantities DEF Reached
<1>. QED  BY <1>1, <1>3, <1>4, Quantities DEF AtLeast

LEMMA EveryoneIsEnough ==
    ASSUME NEW k \in Nat, k <= N
    PROVE  AtLeast(k, Node)
BY DEF AtLeast, N

-----------------------------------------------------------------------------
(* Whoever has passed a threshold of Readies, or both of Echoes, is ready, *)
(* and the later of the two paths to the output is taken.                  *)
HavenEnd ==
    \A i \in Node :
        /\ echoCount[i] = 2 \/ readyCount[i] > 0 \/ i \in left => i \in readied
        /\ readyCount[i] = 2 /\ echoCount[i] > 0 => i \in left

LEMMA HavenEndStart == OpInit /\ HavenInit => HavenEnd
BY DEF OpInit, HavenInit, HavenEnd

LEMMA HavenEndStep == HavenInv /\ HavenEnd /\ HavenNext => HavenEnd'
<1>. SUFFICES ASSUME HavenInv, HavenEnd, NEW i \in Node,
                     \/ SendEchoes(i)
                     \/ SomeEchoes(i) \/ EnoughEchoes(i)
                     \/ SomeReadies(i) \/ EnoughReadies(i)
              PROVE  HavenEnd'
  BY DEF HavenNext
<1>. USE DEF HavenInv, HavenTypeOK, HavenEnd, opVars
<1>1. CASE SendEchoes(i)
  BY <1>1 DEF SendEchoes
<1>2. CASE SomeEchoes(i)
  BY <1>2 DEF SomeEchoes, PassEchoes, Output
<1>3. CASE EnoughEchoes(i)
  BY <1>3 DEF EnoughEchoes, PassEchoes
<1>4. CASE SomeReadies(i)
  BY <1>4 DEF SomeReadies, PassReadies
<1>5. CASE EnoughReadies(i)
  BY <1>5 DEF EnoughReadies, PassReadies, Output
<1>. QED  BY <1>1, <1>2, <1>3, <1>4, <1>5

LEMMA HavenEndStays ==
    ASSUME HavenEnd, UNCHANGED <<opVars, havenVars>>
    PROVE  HavenEnd'
BY DEF HavenEnd, opVars, havenVars

(* All are ready, since 2T+1 nodes have echoed: those that the dealer      *)
(* serves, or those on whose Echoes the node stands that has left.         *)
LEMMA HavenEnds ==
    ASSUME EnoughServed, HavenInv, HavenEnd, HavenQuiet
    PROVE  left = Node
<1>. USE Quantities DEF HavenInv, HavenTypeOK
<1>1. AtLeast(2 * T + 1, echoed)
  <2>1. CASE left = {}
    <3>1. Reached \subseteq echoed
      BY <2>1, ReachedAreNodes DEF HavenQuiet
    <3>. QED  BY <3>1, ReachedEnough, AtLeastGrows
  <2>2. CASE left # {}
    BY <2>2
  <2>. QED  BY <2>1, <2>2
<1>2. AtLeast(T + 1, echoed)
  <2>1. IsFiniteSet(echoed)
    BY NodesAssumption, FS_Subset
  <2>. QED  BY <1>1, <2>1, FS_CardinalityType DEF AtLeast
<1>3. ASSUME NEW i \in Node \ left PROVE echoCount[i] = 2
  <2>1. echoCount[i] \in 0..2
    BY <1>3
  <2>2. echoCount[i] # 0
    BY <1>2, <1>3 DEF HavenQuiet, Threshold
  <2>3. echoCount[i] # 1
    BY <1>1, <1>3 DEF HavenQuiet, Threshold
  <2>. QED  BY <2>1, <2>2, <2>3
<1>4. readied = Node
  BY <1>3 DEF HavenEnd
<1>5. AtLeast(2 * T + 1, readied) /\ AtLeast(T + 1, readied)
  BY <1>4, EveryoneIsEnough, NodesAssumption DEF N
<1>6. ASSUME NEW i \in Node \ left PROVE readyCount[i] = 2
  <2>1. readyCount[i] \in 0..2
    BY <1>6
  <2>2. readyCount[i] # 0
    BY <1>5, <1>6 DEF HavenQuiet, Threshold
  <2>3. readyCount[i] # 1
    BY <1>5, <1>6 DEF HavenQuiet, Threshold
  <2>. QED  BY <2>1, <2>2, <2>3
<1>. QED  BY <1>3, <1>6 DEF HavenEnd

-----------------------------------------------------------------------------
(* The dealer takes 2T+1 signatures and no more, and its list covers the   *)
(* nodes then; nobody leaves without it.                                   *)
AvssEnd ==
    /\ delivered \in [Node -> 0..1]
    /\ Cardinality(signs) <= 2 * T + 1
    /\ committed => ListCovers /\ Cardinality(signs) = 2 * T + 1
    /\ ~committed => left = {} /\ \A i \in Node : delivered[i] = 0

LEMMA AvssEndStart == OpInit /\ AvssInit => AvssEnd
BY Quantities, FS_EmptySet DEF OpInit, AvssInit, AvssEnd

LEMMA AvssEndStep == AvssInv /\ AvssEnd /\ AvssNext => AvssEnd'
<1>. SUFFICES ASSUME AvssInv, AvssEnd, AvssNext PROVE AvssEnd'
  OBVIOUS
<1>. USE DEF AvssInv, AvssTypeOK, Acked, AvssEnd, theList, opVars, broadcastVars
<1>1. CASE BroadcastMissing
  BY <1>1 DEF BroadcastMissing, Missing, Broadcast!Commit, ListCovers
<1>2. ASSUME NEW i \in Node, FirstReceive(i) PROVE AvssEnd'
  BY <1>2 DEF FirstReceive, ListCovers
<1>3. ASSUME NEW i \in Node, TakeSign(i) PROVE AvssEnd'
  <2>1. IsFiniteSet(signs)
    BY NodesAssumption, FS_Subset
  <2>2. Cardinality(signs') = Cardinality(signs) + 1
    BY <1>3, <2>1, FS_AddElement DEF TakeSign
  <2>3. Cardinality(signs) \in Nat
    BY <2>1, FS_CardinalityType
  <2>. QED  BY <1>3, <2>2, <2>3, Quantities DEF TakeSign
<1>4. ASSUME NEW i \in Node, HandOver(i) PROVE AvssEnd'
  BY <1>4 DEF HandOver, avssVars, Broadcast!Deliver, ListCovers
<1>5. ASSUME NEW i \in Node, VerifyAndOutput(i) PROVE AvssEnd'
  BY <1>5 DEF VerifyAndOutput, Output, ListCovers
<1>. QED  BY <1>1, <1>2, <1>3, <1>4, <1>5 DEF AvssNext

LEMMA AvssEndStays ==
    ASSUME AvssEnd, UNCHANGED <<opVars, broadcastVars, avssVars>>
    PROVE  AvssEnd'
BY DEF AvssEnd, ListCovers, opVars, broadcastVars, avssVars, theList

(* The dealer has its signatures, from the nodes that it has served.       *)
LEMMA AvssEnds ==
    ASSUME AvssInv, AvssEnd, AvssQuiet, AtLeast(2 * T + 1, Reached \ Byz)
    PROVE  left = Node
<1>. USE Quantities DEF AvssInv, AvssTypeOK, AvssEnd
<1>1. committed
  <2>. SUFFICES ASSUME ~committed PROVE FALSE
    OBVIOUS
  <2>1. Reached \ Byz \subseteq Acked
    BY ReachedAreNodes DEF AvssQuiet, Acked
  <2>2. IsFiniteSet(signs) /\ Cardinality(signs) \in Nat
    <3>1. IsFiniteSet(signs)
      BY NodesAssumption, FS_Subset DEF Acked
    <3>. QED  BY <3>1, FS_CardinalityType
  <2>3. Cardinality(signs) < 2 * T + 1
    BY <2>2 DEF AvssQuiet
  <2>4. Reached \ Byz \subseteq signs /\ signs \subseteq Node
    BY <2>1, <2>3 DEF AvssQuiet, Acked
  <2>5. AtLeast(2 * T + 1, signs)
    BY <2>4, AtLeastGrows
  <2>. QED  BY <2>2, <2>3, <2>5 DEF AtLeast
<1>. QED  BY <1>1 DEF AvssQuiet

(* What a node keeps follows from whom the dealer reached, a correct node  *)
(* with a good share has broadcast its Ok, and a node that leaves under a  *)
(* corrupted dealer has taken the complaint of another one.                *)
HbEndAt(i) ==
    /\ kept[i] # "none" => i \notin late
    /\ kept[i] = "bad" => i \notin Reached
    /\ stage[i] # "share" => kept[i] # "none"
    /\ stage[i] # "share" /\ kept[i] = "good" /\ i \notin Byz => i \in oks
    /\ i \in complained => i \notin Reached
    /\ i \in left => stage[i] = "over"
    /\ ~corrupted /\ stage[i] \in {"over", "lost"} => i \in left
    /\ corrupted /\ i \in left => complained \ {i} # {}

HbEnd == \A i \in Node : HbEndAt(i)

LEMMA HbEndStart == OpInit /\ HbInit => HbEnd
BY DEF OpInit, HbInit, HbEnd, HbEndAt

LEMMA HbEndStep == HbInv /\ HbEnd /\ HbNext => HbEnd'
<1>. SUFFICES ASSUME HbInv, HbEnd, HbNext, NEW j \in Node PROVE HbEndAt(j)'
  BY DEF HbEnd
<1>. USE Quantities DEF HbInv, HbTypeOK, Stage, HbEndAt, opVars
<1>0. HbEndAt(j) /\ \A i \in Node : HbEndAt(i)
  BY DEF HbEnd
<1>1. CASE TakeCommitment
  BY <1>0, <1>1 DEF TakeCommitment, voteVars, hbVars, AtLeast, Reached
<1>2. ASSUME NEW i \in Node, Disperse(i) PROVE HbEndAt(j)'
  BY <1>0, <1>2 DEF Disperse, voteVars, Reached
<1>3. ASSUME NEW i \in Node, RetrieveMine(i) PROVE HbEndAt(j)'
  BY <1>0, <1>3 DEF RetrieveMine, voteVars, Reached, AtLeast
<1>4. ASSUME NEW i \in Node, StartVote(i) PROVE HbEndAt(j)'
  <2>1. CASE kept[i] = "good" /\ i \notin Byz
    BY <1>0, <1>4, <2>1 DEF StartVote, BroadcastOk, Reached, AtLeast
  <2>2. CASE ~(kept[i] = "good" /\ i \notin Byz)
    BY <1>0, <1>4, <2>2 DEF StartVote, voteVars, Reached, AtLeast
  <2>. QED  BY <2>1, <2>2
<1>5. ASSUME NEW i \in Node, TakeVote(i) PROVE HbEndAt(j)'
  <2>1. oks' = oks
    BY <1>5 DEF TakeVote, VoteStep, CastVote, EndVote
  <2>. QED  BY <1>0, <1>5, <2>1 DEF TakeVote, hbVars, Reached, AtLeast
<1>6. ASSUME NEW i \in Node, AfterVote(i) PROVE HbEndAt(j)'
  <2>1. HbEndAt(i)
    BY <1>0, <1>6
  <2>. QED  BY <1>0, <1>6, <2>1 DEF AfterVote, voteVars, Output, Reached, AtLeast
<1>7. ASSUME NEW i \in Node, TakeComplaint(i) PROVE HbEndAt(j)'
  BY <1>0, <1>7 DEF TakeComplaint, voteVars, Output, Reached, AtLeast
<1>8. ASSUME NEW i \in Node, MissEchoes(i) PROVE HbEndAt(j)'
  BY <1>0, <1>8 DEF MissEchoes, voteVars, Reached
<1>. QED  BY <1>1, <1>2, <1>3, <1>4, <1>5, <1>6, <1>7, <1>8 DEF HbNext

LEMMA HbEndStays ==
    ASSUME HbEnd, UNCHANGED <<opVars, voteVars, hbVars>>
    PROVE  HbEnd'
BY DEF HbEnd, HbEndAt, opVars, voteVars, hbVars, Reached, AtLeast

(* Every correct node in time has broadcast its Ok, so that the vote has   *)
(* ended at every node that has left or is still there.                    *)
LEMMA HbEnds ==
    ASSUME HbInv, HbEnd, HbQuiet
    PROVE  /\ ~corrupted /\ Deals => InTimeLeave
           /\ \A i \in left : complained # {i}
<1>. USE DEF HbInv, HbTypeOK, VoteTypeOK, Stage
<1>1. ASSUME NEW i \in left PROVE complained # {i}
  BY <1>1 DEF HbEnd, HbEndAt, Reached
<1>2. ASSUME ~corrupted, Deals, AtLeast(T, dispersed),
             AtLeast(2 * T + 1, Node \ (Byz \cup late))
      PROVE  left = Node \ late
  <2>1. \A i \in Node \ late : kept[i] # "none" /\ stage[i] # "share"
    BY <1>2 DEF HbQuiet, HbSettled
  <2>2. Node \ (Byz \cup late) \subseteq oks /\ oks \subseteq Node
    <3>1. \A i \in Node \ late : kept[i] = "good"
      BY <1>2, <2>1 DEF HbEnd, HbEndAt, Reached
    <3>. QED  BY <2>1, <3>1, ReachedAreNodes DEF HbEnd, HbEndAt, Approving
  <2>3. EnoughOks
    <3>1. AtLeast(2 * T + 1, oks)
      BY <1>2, <2>2, AtLeastGrows, Quantities
    <3>. QED  BY <3>1 DEF EnoughOks, enough, AtLeast
  <2>4. \A i \in Node : i \in left => i \in done
    BY DEF HbEnd, HbEndAt
  <2>5. votes = Node
    BY <2>3, <2>4 DEF HbQuiet, HbSettled, VoteSettled
  <2>6. Cardinality(votes) >= enough
    <3>1. 2 * T + 1 <= N
      BY NodesAssumption, Quantities DEF N
    <3>2. AtLeast(2 * T + 1, Node)
      BY <3>1, EveryoneIsEnough, Quantities
    <3>. QED  BY <2>5, <3>2 DEF enough, AtLeast
  <2>7. \A i \in Node : i \in done
    BY <2>4, <2>5, <2>6 DEF HbQuiet, HbSettled, VoteSettled
  <2>8. ASSUME NEW i \in Node \ late PROVE i \in left
    <3>1. stage[i] \in {"over", "lost"}
      BY <2>1, <2>7 DEF HbQuiet, HbSettled
    <3>. QED  BY <1>2, <3>1 DEF HbEnd, HbEndAt
  <2>9. ASSUME NEW i \in left PROVE i \notin late
    <3>1. i \in Node /\ HbEndAt(i)
      BY <2>9 DEF HbEnd
    <3>. QED  BY <2>9, <3>1 DEF HbEndAt
  <2>. QED  BY <2>8, <2>9
<1>. QED  BY <1>1, <1>2 DEF InTimeLeave

-----------------------------------------------------------------------------
(* A node that has counted all the parts that it needs has voted.          *)
SMDEnd == \A i \in Node : shareCount[i] = 2 => i \in voted

LEMMA SMDEndStart == SMDInit => SMDEnd
BY DEF SMDInit, SMDEnd

LEMMA SMDEndStep == SMDInv /\ SMDEnd /\ SMDNext => SMDEnd'
<1>. SUFFICES ASSUME SMDInv, SMDEnd, NEW i \in Node,
                     \/ Propose(i)
                     \/ SomeParts(i) \/ EnoughParts(i)
                     \/ SomeSMDVotes(i) \/ EnoughSMDVotes(i)
              PROVE  SMDEnd'
  BY DEF SMDNext
<1>. USE DEF SMDInv, SMDTypeOK, SMDEnd
<1>1. CASE Propose(i)
  BY <1>1 DEF Propose
<1>2. CASE SomeParts(i)
  BY <1>2 DEF SomeParts, PassParts, TryToOutput
<1>3. CASE EnoughParts(i)
  BY <1>3 DEF EnoughParts, PassParts, CastSMDVote
<1>4. CASE SomeSMDVotes(i)
  BY <1>4 DEF SomeSMDVotes, PassVotes, CastSMDVote
<1>5. CASE EnoughSMDVotes(i)
  BY <1>5 DEF EnoughSMDVotes, PassVotes, TryToOutput
<1>. QED  BY <1>1, <1>2, <1>3, <1>4, <1>5

LEMMA SMDEndStays == SMDEnd /\ UNCHANGED smdVars => SMDEnd'
BY DEF SMDEnd, smdVars

(* The parts of the nodes that the dealer serves make every node vote.     *)
LEMMA SMDEnds ==
    ASSUME EnoughServed, SMDInv, SMDEnd, SMDQuiet
    PROVE  \A i \in Node : HasOutput(i)
<1>. USE DEF SMDInv, SMDTypeOK
<1>1. /\ N - Third \in Nat /\ N - 2 * Third \in Nat /\ Third + 1 \in Nat
      /\ N - 2 * Third <= N - Third /\ Third + 1 <= N /\ N - Third <= N
  BY Quantities, SMDAssumption DEF Third
<1>2. AtLeast(N - Third, proposed) /\ AtLeast(N - 2 * Third, proposed)
  <2>1. AtLeast(N - Third, proposed)
    BY <1>1, ReachedEnough, AtLeastGrows DEF SMDQuiet
  <2>2. Cardinality(proposed) \in Nat
    BY NodesAssumption, FS_Subset, FS_CardinalityType
  <2>. QED  BY <1>1, <2>1, <2>2 DEF AtLeast
<1>3. ASSUME NEW i \in Node PROVE shareCount[i] = 2
  <2>1. shareCount[i] \in 0..2
    BY <1>3
  <2>2. shareCount[i] # 0 /\ shareCount[i] # 1
    BY <1>2, <1>3 DEF SMDQuiet, PartsFor
  <2>. QED  BY <2>1, <2>2
<1>4. voted = Node
  BY <1>3 DEF SMDEnd
<1>5. AtLeast(N - Third, voted) /\ AtLeast(Third + 1, voted)
  BY <1>1, <1>4, EveryoneIsEnough
<1>6. ASSUME NEW i \in Node PROVE voteCount[i] = 2
  <2>1. voteCount[i] \in 0..2
    BY <1>6
  <2>2. voteCount[i] # 0 /\ voteCount[i] # 1
    BY <1>5, <1>6 DEF SMDQuiet, VotesFor
  <2>. QED  BY <2>1, <2>2
<1>. QED  BY <1>3, <1>6 DEF HasOutput

-----------------------------------------------------------------------------
(* In AvssSimpl every share that has come is in a task or in the set, or   *)
(* the node has as many as it needs; it then outputs, unless its own share *)
(* is the only one.                                                        *)
RecEnd ==
    /\ phase = "start" => coming = job.senders
    /\ phase # "listen" => tasks = 0 /\ outputs = 0
    /\ job.algo = "Badger" => phase # "listen"
    /\ job.algo = "AvssSimpl" =>
         /\ phase # "dead"
         /\ phase = "listen" =>
              /\ \/ inserted + tasks = Enough
                 \/ inserted + tasks = 1 + job.senders - coming
              /\ inserted > 0
              /\ IF inserted = Enough /\ Enough > 1
                 THEN outputs = 1 ELSE outputs = 0

LEMMA JobsAre ==
    ASSUME job \in Jobs
    PROVE  /\ FieldsT(job.n) \in Nat /\ 3 * FieldsT(job.n) < job.n /\ job.n \in Nat
           /\ job.senders \in Nat /\ job.senders >= job.n - 1 - FieldsT(job.n)
           /\ job.algo \in {"AvssSimpl", "Badger", "Bingo"}
<1>1. PICK n \in Sizes : /\ job.n = n /\ job.algo \in {"AvssSimpl", "Badger", "Bingo"}
                         /\ job.senders \in n - 1 - FieldsT(n)..n - 1
  BY DEF Jobs
<1>2. n \in Nat \ {0}
  BY SizesAssumption
<1>3. FieldsT(n) \in Nat /\ 3 * FieldsT(n) < n
  BY <1>2 DEF FieldsT
<1>. QED  BY <1>1, <1>2, <1>3

LEMMA RecEndStart == RecInit => RecEnd
BY DEF RecInit, RecEnd

LEMMA RecEndStep == RecInv /\ RecEnd /\ RecNext => RecEnd'
<1>. SUFFICES ASSUME RecInv, RecEnd, RecNext PROVE RecEnd'
  OBVIOUS
<1>1. Enough \in Nat \ {0} /\ Enough' = Enough
  <2>1. job' = job
    BY DEF RecNext, StartReconstruct, TakeShare, DropShare, InsertShare
  <2>. QED  BY <2>1, EnoughIsPositive DEF RecInv, Enough, Degree
<1>a. job.senders \in Nat
  BY JobsAre DEF RecInv
<1>. USE <1>1, <1>a DEF RecInv, RecTypeOK, ReconstructsOnce, RecEnd
<1>2. CASE StartReconstruct
  BY <1>2 DEF StartReconstruct
<1>3. CASE TakeShare
  BY <1>3 DEF TakeShare, Full
<1>4. CASE DropShare
  BY <1>4 DEF DropShare
<1>5. CASE InsertShare
  BY <1>5 DEF InsertShare
<1>. QED  BY <1>2, <1>3, <1>4, <1>5 DEF RecNext

LEMMA RecEndStays == RecEnd /\ UNCHANGED recVars => RecEnd'
BY DEF RecEnd, Enough, Degree, recVars

(* The others send at least n-1-t shares, which with its own are enough.   *)
LEMMA RecEnds ==
    ASSUME RecInv, RecEnd, RecQuiet
    PROVE  (outputs = 1) = CanReconstruct
<1>. USE DEF RecInv, RecTypeOK
<1>1. CASE job.algo # "AvssSimpl"
  BY <1>1, JobsAre DEF RecEnd, CanReconstruct
<1>2. CASE job.algo = "AvssSimpl"
  <2>1. phase = "listen" /\ coming = 0 /\ tasks = 0
    BY <1>2 DEF RecEnd, RecQuiet
  <2>2. Enough = 2 * FieldsT(job.n) + 1 /\ FieldsT(job.n) \in Nat
    BY <1>2, JobsAre DEF Enough, Degree
  <2>3. inserted = Enough
    BY <1>2, <2>1, <2>2, JobsAre DEF RecEnd
  <2>4. outputs = (IF FieldsT(job.n) > 0 THEN 1 ELSE 0)
    BY <1>2, <2>1, <2>2, <2>3 DEF RecEnd
  <2>. QED  BY <1>2, <2>2, <2>4 DEF CanReconstruct
<1>. QED  BY <1>1, <1>2

-----------------------------------------------------------------------------
(* A request for the output waits in the handler's channel until it has    *)
(* been served, and the first request for a message until it is answered.  *)
Waits(x) == \E p \in 1..Len(queue) : queue[p] = x

DREnd ==
    /\ asked \in [Manager -> {"no", "yes", "dead"}]
    /\ handler \in {"late", "on", "dead"} /\ complete \in BOOLEAN
    /\ channel \in {"none", "open", "closed"}
    /\ retrieves \in Nat /\ answers \in Nat
    /\ \A m \in Manager :
           /\ asked[m] = "no" => passed[m] <= parts
           /\ asked[m] = "yes" => complete \/ Waits(0)
    /\ Waits(-1) => complete
    /\ answers = 0 /\ retrieves > 0 => Waits(-1)
    /\ channel = "closed" => answers > 0

LEMMA DREndStart == DRInit => DREnd
<1>. SUFFICES ASSUME DRInit PROVE DREnd
  OBVIOUS
<1>1. parts \in Nat /\ ~Waits(-1)
  BY PartsAssumption DEF DRInit, Waits
<1>2. complete \in BOOLEAN
  BY DEF DRInit
<1>3. \A m \in Manager : asked[m] = "no" /\ passed[m] = 0
  BY DEF DRInit
<1>4. asked \in [Manager -> {"no", "yes", "dead"}]
  BY DEF DRInit
<1>. QED  BY <1>1, <1>2, <1>3, <1>4 DEF DRInit, DREnd

LEMMA WaitsPushed ==
    ASSUME queue \in Seq(Int), NEW x \in Int, NEW y \in Int,
           queue' = Append(queue, x)
    PROVE  Waits(y)' <=> Waits(y) \/ y = x
<1>1. /\ Len(queue') = Len(queue) + 1 /\ queue'[Len(queue) + 1] = x
      /\ \A p \in 1..Len(queue) : queue'[p] = queue[p]
  OBVIOUS
<1>. QED  BY <1>1 DEF Waits

LEMMA WaitsPopped ==
    ASSUME queue \in Seq(Int), NEW y \in Int, queue # <<>>, queue' = Tail(queue)
    PROVE  /\ Waits(y)' => Waits(y)
           /\ Waits(y) /\ Head(queue) # y => Waits(y)'
<1>1. /\ Len(queue') = Len(queue) - 1 /\ Head(queue) = queue[1]
      /\ \A p \in 1..Len(queue) - 1 : queue'[p] = queue[p + 1]
      /\ Len(queue) \in Nat \ {0}
  OBVIOUS
<1>2. ASSUME Waits(y)' PROVE Waits(y)
  <2>1. PICK p \in 1..Len(queue') : queue'[p] = y
    BY <1>2 DEF Waits
  <2>2. p + 1 \in 1..Len(queue) /\ queue[p + 1] = y
    BY <1>1, <2>1
  <2>. QED  BY <2>2 DEF Waits
<1>3. ASSUME Waits(y), Head(queue) # y PROVE Waits(y)'
  <2>1. PICK p \in 1..Len(queue) : queue[p] = y
    BY <1>3 DEF Waits
  <2>2. p - 1 \in 1..Len(queue') /\ queue'[p - 1] = y
    BY <1>1, <1>3, <2>1
  <2>. QED  BY <2>2 DEF Waits
<1>. QED  BY <1>2, <1>3

LEMMA DREndStep == DRInv /\ DREnd /\ DRNext => DREnd'
<1>. SUFFICES ASSUME DRInv, DREnd, DRNext PROVE DREnd'
  OBVIOUS
<1>0. queue \in Seq(Int) /\ parts \in Nat /\ passed \in [Manager -> Nat]
      /\ from \in [Manager -> Nat \cup {-1}] /\ came \in Nat
  BY DEF DRInv
<1>. USE <1>0 DEF DREnd, managerVars, retrieveVars
<1>a. ASSUME UNCHANGED queue PROVE \A y \in Int : (Waits(y)' <=> Waits(y))
  BY <1>a DEF Waits
<1>1. CASE Comes \/ StartHandler
  BY <1>1, <1>a DEF Comes, StartHandler
<1>2. ASSUME NEW m \in Manager, StartManager(m) PROVE DREnd'
  BY <1>2, <1>a DEF StartManager
<1>3. ASSUME NEW m \in Manager, PassShare(m) PROVE DREnd'
  <2>1. CASE handler = "late"
    BY <1>3, <1>a, <2>1 DEF PassShare
  <2>2. CASE handler # "late"
    <3>1. from[m] + passed[m] + 1 \in Int /\ from[m] + passed[m] + 1 > 0
          /\ queue' = Append(queue, from[m] + passed[m] + 1)
      BY <1>3, <2>2 DEF PassShare
    <3>2. (Waits(0)' <=> Waits(0)) /\ (Waits(-1)' <=> Waits(-1))
      BY <3>1, WaitsPushed
    <3>3. \A k \in Manager : asked[k] = "no" => passed'[k] <= parts
      BY <1>3, <2>2 DEF PassShare
    <3>4. UNCHANGED <<asked, complete, parts, handler, channel, retrieves, answers>>
      BY <1>3, <2>2 DEF PassShare
    <3>. QED  BY <3>2, <3>3, <3>4
  <2>. QED  BY <2>1, <2>2
<1>4. ASSUME NEW m \in Manager, AskOutput(m) PROVE DREnd'
  <2>1. Waits(0)' /\ (Waits(-1)' <=> Waits(-1))
    BY <1>4, WaitsPushed DEF AskOutput
  <2>. QED  BY <1>4, <2>1 DEF AskOutput
<1>5. CASE AddShare
  <2>1. (Waits(-1)' <=> Waits(-1)) /\ (Waits(0)' <=> Waits(0))
    <3>1. Head(queue) # 0 /\ Head(queue) # -1
      BY <1>5 DEF AddShare
    <3>. QED  BY <1>5, <3>1, WaitsPopped DEF AddShare
  <2>. QED  BY <1>5, <2>1 DEF AddShare
<1>6. CASE DecodeOutput
  <2>1. (Waits(-1)' <=> Waits(-1))
    BY <1>6, WaitsPopped DEF DecodeOutput
  <2>2. complete'
    <3>1. DRInv'
      BY DRStep
    <3>2. handler' # "dead"
      BY <3>1 DEF DRInv, DecodesEnough
    <3>. QED  BY <1>6, <3>2 DEF DecodeOutput
  <2>. QED  BY <1>6, <2>1, <2>2 DEF DecodeOutput
<1>7. CASE SendRequest
  <2>1. Waits(-1)' /\ (Waits(0)' <=> Waits(0))
    BY <1>7, WaitsPushed DEF SendRequest
  <2>. QED  BY <1>7, <2>1 DEF SendRequest
<1>8. CASE SubscribeToAnswer
  BY <1>8, <1>a DEF SubscribeToAnswer
<1>9. CASE AnswerRequest
  <2>1. (Waits(0)' <=> Waits(0)) /\ (Waits(-1)' => Waits(-1))
    BY <1>9, WaitsPopped DEF AnswerRequest
  <2>2. answers' > 0 /\ answers' \in Nat
    BY <1>9 DEF AnswerRequest
  <2>. QED  BY <1>9, <2>1, <2>2 DEF AnswerRequest
<1>. QED  BY <1>1, <1>2, <1>3, <1>4, <1>5, <1>6, <1>7, <1>8, <1>9 DEF DRNext

LEMMA DREndStays == DREnd /\ UNCHANGED drVars => DREnd'
BY DEF DREnd, Waits, drVars, managerVars, retrieveVars

(* The handler is there, and can only wait with a request for a message.   *)
LEMMA DREnds ==
    ASSUME DRInv, DREnd, DRQuiet
    PROVE  DispersalEnds
<1>. USE DEF DRInv, DREnd
<1>1. handler = "on"
  BY DEF DRQuiet, DecodesEnough
<1>2. ASSUME NEW y \in Int, Waits(y) PROVE Waits(-1) /\ channel = "none"
  <2>1. queue # <<>> /\ 1 \in 1..Len(queue) /\ Head(queue) = queue[1]
    BY <1>2 DEF Waits
  <2>. QED  BY <1>1, <2>1 DEF DRQuiet, Waits
<1>3. ASSUME NEW m \in Manager, InTime(m) PROVE complete
  <2>1. asked[m] # "no"
    BY <1>3 DEF DRQuiet, InTime
  <2>2. asked[m] = "yes"
    BY <1>3, <2>1 DEF InTime
  <2>. QED  BY <1>2, <2>2
<1>4. ASSUME complete PROVE answers > 0
  <2>. SUFFICES ASSUME answers = 0 PROVE FALSE
    OBVIOUS
  <2>1. retrieves > 0
    BY <1>4 DEF DRQuiet
  <2>2. Waits(-1) /\ channel = "open"
    BY <2>1 DEF DRQuiet
  <2>. QED  BY <1>2, <2>2
<1>. QED  BY <1>3, <1>4 DEF DispersalEnds

-----------------------------------------------------------------------------
(* While clean has not heard of its network, the forced clearing is still  *)
(* to come, or its notice is on its way.                                   *)
ClEnd ==
    /\ clean \in {"idle", "give", "subscribe", "wait", "stop", "cleaned"}
    /\ timer \in {"off", "on", "done"} /\ notices \in Nat
    /\ clean \in {"subscribe", "wait", "stop"} => timer # "off"
    /\ clean \in {"idle", "give", "subscribe"} => network = "none"
    /\ clean = "wait" => network \in {"open", "heard"}
    /\ \/ locked \/ timer # "done" \/ notices > 0
       \/ clean \notin {"subscribe", "wait"} \/ network \notin {"none", "open"}

LEMMA ClEndStart == ClInit => ClEnd
BY DEF ClInit, ClEnd

LEMMA ClEndStep == ClEnd /\ ClNext => ClEnd'
<1>. SUFFICES ASSUME ClEnd, ClNext PROVE ClEnd'
  OBVIOUS
<1>. USE DEF ClEnd, listVars
<1>1. CASE NewProcess \/ EndOperation \/ PoolOutput
  BY <1>1 DEF NewProcess, EndOperation, PoolOutput
<1>2. ASSUME NEW p \in Peer, MessageComes(p) \/ SummaryComes(p) PROVE ClEnd'
  <2>1. /\ notices' \in {notices, notices + 1}
        /\ UNCHANGED <<clean, timer, network, locked>>
    BY <1>2 DEF MessageComes, SummaryComes, CheckSumm, ClearSumm
  <2>. QED  BY <2>1
<1>3. CASE CleanPool \/ GiveSumm
  BY <1>3 DEF CleanPool, GiveSumm
<1>4. CASE Subscribe \/ Heard \/ Cleaned
  BY <1>4 DEF Subscribe, Heard, Cleaned
<1>5. CASE TimerFires
  BY <1>5 DEF TimerFires, ClearSumm
<1>6. CASE Notify
  <2>1. CASE network = "none"
    <3>1. locked'
      BY <1>6, <2>1 DEF Notify
    <3>. QED  BY <1>6, <2>1, <3>1 DEF Notify
  <2>2. CASE network # "none"
    <3>1. notices' \in Nat /\ UNCHANGED <<clean, timer>>
      BY <1>6 DEF Notify
    <3>2. network' = (IF network = "open" THEN "heard" ELSE network)
      BY <1>6 DEF Notify
    <3>. QED  BY <2>2, <3>1, <3>2
  <2>. QED  BY <2>1, <2>2
<1>. QED  BY <1>1, <1>2, <1>3, <1>4, <1>5, <1>6 DEF ClNext

LEMMA ClEndStays == ClEnd /\ UNCHANGED clVars => ClEnd'
BY DEF ClEnd, clVars

LEMMA ClEnds ==
    ASSUME ClEnd, ClQuiet
    PROVE  CleanEnds
BY DEF ClEnd, ClQuiet, CleanEnds
=============================================================================
