-------------------------- MODULE OperationsProofs --------------------------
(***************************************************************************)
(* Theorems about the operations of Operations, for every value of its     *)
(* constants: the invariant of an operation is the one of its protocol,    *)
(* proved in ProtocolProofs, for its steps are the only ones of the        *)
(* operation.                                                              *)
(***************************************************************************)
EXTENDS Operations, ProtocolProofs

ProtocolInv ==
    /\ proto = "Haven" => HavenInv
    /\ proto = "AvssSimpl" => AvssInv
    /\ proto = "HbAvss" => HbInv
    /\ proto = "SMD" => SMDInv
    /\ proto = "Reconstruct" => RecInv
    /\ proto = "DispRet" => DRInv
    /\ proto = "Clean" => ClInv

(* What belongs to another protocol stays as it was.                       *)
Untouched ==
    /\ proto # "SMD" => SMDInit
    /\ proto # "Reconstruct" => RecIdle
    /\ proto # "DispRet" => DRIdle
    /\ proto # "Clean" => ClIdle

OperationInv == ProtocolInv /\ Untouched

LEMMA OperationStart == Init => OperationInv
<1>. SUFFICES ASSUME Init PROVE OperationInv
  OBVIOUS
<1>1. ProtocolInv
  BY HavenStart, AvssStart, HbStart, SMDStart, RecStart, DRStart, ClStart
     DEF Init, ProtocolInv
<1>2. Untouched
  BY DEF Init, Untouched
<1>. QED  BY <1>1, <1>2 DEF OperationInv

LEMMA ProtocolStep == ProtocolInv /\ [Next]_allVars => ProtocolInv'
<1>. SUFFICES ASSUME ProtocolInv, [Next]_allVars PROVE ProtocolInv'
  OBVIOUS
<1>1. CASE Haven1
  BY <1>1, HavenStep DEF Haven1, ProtocolInv
<1>2. CASE Avss1
  BY <1>2, AvssStep DEF Avss1, ProtocolInv
<1>3. CASE Hb1
  BY <1>3, HbStep DEF Hb1, ProtocolInv
<1>4. CASE SMD1
  BY <1>4, SMDStep DEF SMD1, ProtocolInv
<1>5. CASE Reconstruct1
  BY <1>5, RecStep DEF Reconstruct1, ProtocolInv
<1>6. CASE DispRet1
  BY <1>6, DRStep DEF DispRet1, ProtocolInv
<1>7. CASE Clean1
  BY <1>7, ClStep DEF Clean1, ProtocolInv
<1>8. CASE UNCHANGED allVars
  BY <1>8, HavenStays, AvssStays, HbStays, SMDStays, RecStays, DRStays, ClStays
     DEF ProtocolInv, allVars
<1>. QED  BY <1>1, <1>2, <1>3, <1>4, <1>5, <1>6, <1>7, <1>8 DEF Next

LEMMA UntouchedStep == Untouched /\ [Next]_allVars => Untouched'
<1>. SUFFICES ASSUME Untouched, [Next]_allVars PROVE Untouched'
  OBVIOUS
<1>. USE DEF Untouched, SMDInit, RecIdle, DRIdle, ClIdle, smdVars, recVars,
             drVars, managerVars, retrieveVars, clVars, listVars
<1>1. CASE Haven1 \/ Avss1 \/ Hb1
  BY <1>1 DEF Haven1, Avss1, Hb1
<1>2. CASE SMD1
  BY <1>2 DEF SMD1
<1>3. CASE Reconstruct1
  BY <1>3 DEF Reconstruct1
<1>4. CASE DispRet1
  BY <1>4 DEF DispRet1
<1>5. CASE Clean1
  BY <1>5 DEF Clean1
<1>6. CASE UNCHANGED allVars
  BY <1>6 DEF allVars
<1>. QED  BY <1>1, <1>2, <1>3, <1>4, <1>5, <1>6 DEF Next

(* The inductive invariant of every operation.                             *)
THEOREM Invariance == Spec => []OperationInv
<1>1. Init => OperationInv
  BY OperationStart
<1>2. OperationInv /\ [Next]_allVars => OperationInv'
  BY ProtocolStep, UntouchedStep DEF OperationInv
<1>. QED  BY <1>1, <1>2, PTL DEF Spec

(* haven/receiver.rs: nobody leaves Haven before 2T+1 nodes have echoed a  *)
(* share of the dealing, on the echo path neither.                         *)
THEOREM NodesLeaveHavenFixed == Spec => []HavenIsFixed
<1>1. OperationInv => HavenIsFixed
  BY HavenFixes DEF OperationInv, ProtocolInv, HavenIsFixed
<1>. QED  BY <1>1, Invariance, PTL

(* avss_simpl/receiver.rs: a node that outputs on the list of missing      *)
(* shares holds its own, whether it came by the list or from the dealer.   *)
THEOREM NodesLeaveWithShares == Spec => []AvssSharesInPlace
<1>1. OperationInv => AvssSharesInPlace
  BY AvssHolds DEF OperationInv, ProtocolInv, AvssSharesInPlace
<1>. QED  BY <1>1, Invariance, PTL

(* hbavss/receivers.rs: nobody leaves HbAvss before 2T+1 correct nodes     *)
(* hold a good share, whoever is served and however many are Byzantine,    *)
(* nor, with a corrupted dealer, before a node has complained.             *)
THEOREM NodesLeaveHbFixed == Spec => []HbIsFixed
<1>1. OperationInv => HbIsFixed
  BY HbFixes DEF OperationInv, ProtocolInv, HbIsFixed
<1>. QED  BY <1>1, Invariance, PTL

(* smd_memory.rs: a node has its share only after it has voted, and after  *)
(* N - N/3 nodes had the Propose, whichever threshold comes last.          *)
THEOREM OutputsAreDistributed == Spec => []DistributedToMost
<1>1. OperationInv => DistributedToMost
  BY SMDStart, SMDHolds DEF OperationInv, ProtocolInv, Untouched
<1>. QED  BY <1>1, Invariance, PTL

(* reconstruct.rs of AvssSimpl, Badger and Bingo: however the tasks of the *)
(* shares interleave, at most one finds the set full and outputs.          *)
THEOREM NodesReconstructOnce == Spec => []ReconstructsOnce
<1>1. OperationInv => ReconstructsOnce
  BY RecHolds DEF OperationInv, ProtocolInv, Untouched, RecIdle,
     ReconstructsOnce
<1>. QED  BY <1>1, Invariance, PTL

(* disperse_retrieve/memory.rs: of both managers, which see the same       *)
(* Echoes, neither asks for the output before its shares are added.        *)
THEOREM DecodingHasEnough == Spec => []DecodesEnough
<1>1. OperationInv => DecodesEnough
  BY DRHolds DEF OperationInv, ProtocolInv, Untouched, DRIdle,
     DecodesEnough
<1>. QED  BY <1>1, Invariance, PTL

(* summaries.rs: the count of senders that are left never reaches zero     *)
(* before every message has come, in any order of messages and summaries.  *)
THEOREM CountsAreComplete == Spec => []CountedMeansArrived
<1>1. OperationInv => CountedMeansArrived
  BY ClHolds DEF OperationInv, ProtocolInv, Untouched, ClIdle,
     CountedMeansArrived
<1>. QED  BY <1>1, Invariance, PTL

-----------------------------------------------------------------------------
(* What a protocol keeps true for the state in which it stops.             *)
EndInv ==
    /\ proto = "Haven" => HavenEnd
    /\ proto = "AvssSimpl" => AvssEnd
    /\ proto = "HbAvss" => HbEnd
    /\ proto = "SMD" => SMDEnd
    /\ proto = "Reconstruct" => RecEnd
    /\ proto = "DispRet" => DREnd
    /\ proto = "Clean" => ClEnd

LEMMA EndStart == Init => EndInv
BY HavenEndStart, AvssEndStart, HbEndStart, SMDEndStart, RecEndStart,
   DREndStart, ClEndStart DEF Init, EndInv

LEMMA EndStep == ProtocolInv /\ EndInv /\ [Next]_allVars => EndInv'
<1>. SUFFICES ASSUME ProtocolInv, EndInv, [Next]_allVars PROVE EndInv'
  OBVIOUS
<1>1. CASE Haven1
  BY <1>1, HavenEndStep DEF Haven1, ProtocolInv, EndInv
<1>2. CASE Avss1
  BY <1>2, AvssEndStep DEF Avss1, ProtocolInv, EndInv
<1>3. CASE Hb1
  BY <1>3, HbEndStep DEF Hb1, ProtocolInv, EndInv
<1>4. CASE SMD1
  BY <1>4, SMDEndStep DEF SMD1, ProtocolInv, EndInv
<1>5. CASE Reconstruct1
  BY <1>5, RecEndStep DEF Reconstruct1, ProtocolInv, EndInv
<1>6. CASE DispRet1
  BY <1>6, DREndStep DEF DispRet1, ProtocolInv, EndInv
<1>7. CASE Clean1
  BY <1>7, ClEndStep DEF Clean1, EndInv
<1>8. CASE UNCHANGED allVars
  BY <1>8, HavenEndStays, AvssEndStays, HbEndStays, SMDEndStays, RecEndStays,
     DREndStays, ClEndStays DEF EndInv, allVars
<1>. QED  BY <1>1, <1>2, <1>3, <1>4, <1>5, <1>6, <1>7, <1>8 DEF Next

LEMMA ProtocolEnds ==
    ASSUME EnoughServed, proto \in Protocols, ProtocolInv, EndInv
    PROVE  OperationEnds
<1>. SUFFICES ASSUME Quiet PROVE OperationEnds
  BY DEF OperationEnds
<1>. USE DEF Quiet, OperationEnds, ProtocolInv, EndInv
<1>1. CASE proto = "Haven"
  BY <1>1, HavenEnds
<1>2. CASE proto = "AvssSimpl"
  BY <1>2, AvssEnds
<1>3. CASE proto = "HbAvss"
  BY <1>3, HbEnds
<1>4. CASE proto = "SMD"
  BY <1>4, SMDEnds
<1>5. CASE proto = "Reconstruct"
  BY <1>5, RecEnds
<1>6. CASE proto = "DispRet"
  BY <1>6, DREnds
<1>7. CASE proto = "Clean"
  BY <1>7, ClEnds
<1>. QED  BY <1>1, <1>2, <1>3, <1>4, <1>5, <1>6, <1>7 DEF Protocols

(* node.rs: where an operation can do nothing more, every node has left a  *)
(* sharing whose dealer leaves out T nodes at most (of AvssSimpl, if 2T+1  *)
(* of those it reaches are correct; of HbAvss, if it was in time for the   *)
(* dispersal, with 2T+1 correct nodes in time and T that echo), every node *)
(* has its part of a distribution, a node has reconstructed if it can, a   *)
(* dispersal is complete if it can be, and a clean has ended or locked its *)
(* heart up.                                                               *)
THEOREM OperationsEnd ==
    ASSUME EnoughServed
    PROVE  Spec => []OperationEnds
<1>1. Init => proto \in Protocols
  BY DEF Init
<1>2. proto \in Protocols /\ [Next]_allVars => (proto \in Protocols)'
  BY DEF Next, Haven1, Avss1, Hb1, SMD1, Reconstruct1, DispRet1, Clean1, allVars
<1>3. Spec => [](proto \in Protocols)
  BY <1>1, <1>2, PTL DEF Spec
<1>4. OperationInv => ProtocolInv
  BY DEF OperationInv
<1>5. Spec => []EndInv
  BY <1>4, EndStart, EndStep, Invariance, PTL DEF Spec
<1>6. proto \in Protocols /\ ProtocolInv /\ EndInv => OperationEnds
  BY ProtocolEnds
<1>. QED  BY <1>3, <1>4, <1>5, <1>6, Invariance, PTL
=============================================================================
