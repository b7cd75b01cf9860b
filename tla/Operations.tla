------------------------------ MODULE Operations ------------------------------
(***************************************************************************)
(* An operation of one of the other protocols: Node::share and             *)
(* Node::reconstruct of nodes/src/node/node.rs start the protocol that the *)
(* fields name, and with it the listeners of the protocols it is built on. *)
(*                                                                         *)
(* Bingo and LightWeight, and the reliable broadcast, have models of their *)
(* own.  Disperse-retrieve, which HbAvss runs at every node, and           *)
(* SecureMessageDist, which LightWeight does, are started by themselves;   *)
(* so is Clean, which a node heart runs between operations.                *)
(***************************************************************************)
EXTENDS Haven, AvssSimpl, HbAvss, SecureMessageDist, Reconstruct,
        DisperseRetrieve, Cleaning

VARIABLE proto   \* what start_listener and share or reconstruct start

Protocols == {"Haven", "AvssSimpl", "HbAvss", "SMD", "DispRet", "Reconstruct",
              "Clean"}

allVars ==
    <<proto, opVars, broadcastVars, voteVars, havenVars, avssVars, hbVars,
      smdVars, recVars, drVars, clVars>>

(* Where a protocol that has not been started stays.                       *)
RecIdle ==
    /\ job = "none" /\ phase = "start"
    /\ coming = 0 /\ tasks = 0 /\ inserted = 0 /\ outputs = 0

DRIdle ==
    /\ parts = 0 /\ came = 0 /\ queue = <<>> /\ saw = {}
    /\ from = [m \in Manager |-> -1]
    /\ passed = [m \in Manager |-> 0]
    /\ asked = [m \in Manager |-> "no"]
    /\ handler = "late" /\ complete = FALSE
    /\ retrieves = 0 /\ channel = "none" /\ answers = 0

ClIdle ==
    /\ op = "new" /\ owed = [p \in Peer |-> 0] /\ onWay = owed
    /\ due = Peer /\ told = {} /\ count = owed /\ senders = -1
    /\ given = "no" /\ clean = "idle" /\ timer = "off"
    /\ notices = 0 /\ network = "none" /\ cleared = "no" /\ locked = FALSE

Init ==
    /\ proto \in Protocols
    /\ OpInit /\ NoVote
    /\ HavenInit /\ AvssInit /\ HbInit /\ SMDInit
    /\ IF proto = "Reconstruct" THEN RecInit ELSE RecIdle
    /\ IF proto = "DispRet" THEN DRInit ELSE DRIdle
    /\ IF proto = "Clean" THEN ClInit ELSE ClIdle
    /\ proto \in {"Reconstruct", "DispRet", "Clean"} => ~corrupted

Haven1 ==
    /\ proto = "Haven" /\ HavenNext
    /\ UNCHANGED <<proto, voteVars, avssVars, hbVars, smdVars, recVars, drVars,
                   clVars>>

Avss1 ==
    /\ proto = "AvssSimpl" /\ AvssNext
    /\ UNCHANGED <<proto, voteVars, havenVars, hbVars, smdVars, recVars, drVars,
                   clVars>>

Hb1 ==
    /\ proto = "HbAvss" /\ HbNext
    /\ UNCHANGED <<proto, havenVars, avssVars, smdVars, recVars, drVars,
                   clVars>>

SMD1 ==
    /\ proto = "SMD" /\ SMDNext
    /\ UNCHANGED <<proto, voteVars, havenVars, avssVars, hbVars, recVars, drVars,
                   clVars>>

Reconstruct1 ==
    /\ proto = "Reconstruct" /\ RecNext
    /\ UNCHANGED <<proto, opVars, broadcastVars, voteVars, havenVars, avssVars,
                   hbVars, smdVars, drVars, clVars>>

DispRet1 ==
    /\ proto = "DispRet" /\ DRNext
    /\ UNCHANGED <<proto, opVars, broadcastVars, voteVars, havenVars, avssVars,
                   hbVars, smdVars, recVars, clVars>>

Clean1 ==
    /\ proto = "Clean" /\ ClNext
    /\ UNCHANGED <<proto, opVars, broadcastVars, voteVars, havenVars, avssVars,
                   hbVars, smdVars, recVars, drVars>>

Next == Haven1 \/ Avss1 \/ Hb1 \/ SMD1 \/ Reconstruct1 \/ DispRet1
        \/ Clean1

Spec == Init /\ [][Next]_allVars

TypeOK ==
    /\ proto \in Protocols /\ OpTypeOK
    /\ HavenTypeOK /\ AvssTypeOK /\ HbTypeOK /\ SMDTypeOK /\ RecTypeOK
    /\ proto = "DispRet" => DRTypeOK
    /\ ClTypeOK

(* HavenFixed, of an operation of Haven.                                   *)
HavenIsFixed == proto = "Haven" => HavenFixed

(* LeavesWithItsShare, of an operation of AvssSimpl.                       *)
AvssSharesInPlace == proto = "AvssSimpl" => LeavesWithItsShare

(* HbFixed, of an operation of HbAvss.                                     *)
HbIsFixed == proto = "HbAvss" => HbFixed

(* Nothing is left to do.                                                  *)
Quiet ==
    CASE proto = "Haven" -> HavenQuiet
      [] proto = "AvssSimpl" -> AvssQuiet
      [] proto = "HbAvss" -> HbQuiet
      [] proto = "SMD" -> SMDQuiet
      [] proto = "Reconstruct" -> RecQuiet
      [] proto = "DispRet" -> DRQuiet
      [] proto = "Clean" -> ClQuiet

(* When nothing is left to do, every node has left a sharing whose dealer  *)
(* follows the protocol if 2T+1 nodes do, and a sharing of a corrupted     *)
(* dealer too.  In HbAvss the nodes leave that were in time for the Echoes *)
(* of the dispersal, and under a corrupted dealer a node that is alone in  *)
(* complaining waits for a complaint to take.  Every node has its part of  *)
(* a distribution, and the steps of one node end as they can.              *)
OperationEnds ==
    Quiet =>
      CASE proto = "Haven" -> left = Node
        [] proto = "AvssSimpl" ->
             AtLeast(2 * T + 1, Reached \ Byz) => left = Node
        [] proto = "HbAvss" ->
             /\ ~corrupted /\ Deals => InTimeLeave
             /\ \A i \in left : complained # {i}
        [] proto = "SMD" -> \A i \in Node : HasOutput(i)
        [] proto = "Reconstruct" -> (outputs = 1) = CanReconstruct
        [] proto = "DispRet" -> DispersalEnds
        [] proto = "Clean" -> CleanEnds
=============================================================================
