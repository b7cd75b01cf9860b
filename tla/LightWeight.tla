----------------------------- MODULE LightWeight -----------------------------
(***************************************************************************)
(* The sharing step of nodes/src/lightweight, one operation.  The dealer   *)
(* distributes the shares with SecureMessageDist (SMD), broadcasts the     *)
(* commitment, and the nodes vote.  If the dealer is corrupted, the nodes  *)
(* it served no good share forward a complaint with their bad share; the   *)
(* others answer the first complaint with their own share (Assist) and a   *)
(* copy of the bad one (Report), and leave; T+1 Assists give a node its    *)
(* share back, and it leaves too.  A Byzantine node sends no Ok.           *)
(*                                                                         *)
(* complaint_manager, assist_manager, wait_for_share and the SMD listener  *)
(* are tasks of a node that run side by side.  SMD is abstracted to which  *)
(* nodes have handled its Propose (they echo to all) and which have their  *)
(* share; a share to whether it is good.                                   *)
(***************************************************************************)
EXTENDS OneSidedVote

(* The t of SMD, which is not the configuration's.  The variant is one     *)
(* more.                                                                   *)
OneMore == N \div 3 + 1
S == N \div 3

(* is_dealer_corrupted, for the nodes: the dealer skips t > 0 of them.     *)
Corrupted == Served # Node

VARIABLES
    committed,  \* the broadcast of the commitment is past its commit point
    delivered,  \* [Node -> 0..1]: BroadcastLightWeight messages handed over
    proposed,   \* nodes that have handled the Propose of SMD
    share,      \* [Node -> ShareState]: my_share
    phase,      \* [Node -> {"share", "vote", "over"}]: wait_for_share
    complaints, \* nodes that have forwarded their bad share
    assists,    \* nodes that have forwarded their good share
    answering,  \* [Node -> {"wait", "on", "off"}]: complaint_manager
    recovering, \* [Node -> {"wait", "on", "off"}]: assist_manager
    crashed,    \* nodes whose SMD listener has panicked
    outputs,    \* [Node -> Nat]: calls of Node::output
    left,       \* nodes whose im_done is set
    reported    \* nodes whose output has reached the node heart

broadcast == <<committed, delivered>>
sharing == <<proposed, share, phase>>
forwards == <<complaints, assists, crashed>>
managers == <<answering, recovering>>
ending == <<outputs, left, reported>>
vars == <<broadcast, voteVars, sharing, forwards, managers, ending>>

ShareState == {"none", "good", "bad", "thrown", "recovered"}
HasShare(i) == share[i] \in {"good", "bad", "recovered"}

Init ==
    /\ committed = FALSE
    /\ delivered = [i \in Node |-> 0]
    /\ NoVote
    /\ proposed = {}
    /\ share = [i \in Node |-> "none"]
    /\ phase = [i \in Node |-> "share"]
    /\ complaints = {} /\ assists = {} /\ crashed = {}
    /\ answering = [i \in Node |-> "wait"]
    /\ recovering = [i \in Node |-> "wait"]
    /\ outputs = [i \in Node |-> 0]
    /\ left = {} /\ reported = {}

Commitment == INSTANCE BroadcastPromise

-----------------------------------------------------------------------------
CommitmentStep ==
    /\ Commitment!Commit \/ \E i \in Node : Commitment!Deliver(i)
    /\ UNCHANGED <<voteVars, sharing, forwards, managers, ending>>

(* Memory::propose: with it the node knows the root proof of every share,  *)
(* without it only that of its own.                                        *)
HandlePropose(i) ==
    /\ i \in Served \ (proposed \cup left)
    /\ proposed' = proposed \cup {i}
    /\ UNCHANGED <<broadcast, voteVars, share, phase, forwards, managers,
                   ending>>

(* SMDOutput, saved by wait_for_share.  It takes n - S votes of SMD, the   *)
(* first of which took n - S shares, each of a node that has the Propose.  *)
ReceiveShare(i) ==
    /\ share[i] = "none"
    /\ Cardinality(proposed) >= N - S
    /\ share' = [share EXCEPT ![i] = IF i \in Served THEN "good" ELSE "bad"]
    /\ UNCHANGED <<broadcast, voteVars, proposed, phase, forwards, managers,
                   ending>>

(* process: a happy node asks for the Ok, unless it is Byzantine.          *)
Process(i) ==
    /\ phase[i] = "share"
    /\ share[i] # "none" /\ delivered[i] = 1
    /\ phase' = [phase EXCEPT ![i] = "vote"]
    /\ IF share[i] = "good" /\ i \notin Byz
       THEN BroadcastOk(i) ELSE UNCHANGED voteVars
    /\ UNCHANGED <<broadcast, proposed, share, forwards, managers, ending>>

Vote(i) ==
    /\ i \notin left
    /\ VoteStep(i)
    /\ UNCHANGED <<broadcast, sharing, forwards, managers, ending>>

CallOutput(i) == outputs' = [outputs EXCEPT ![i] = @ + 1]

(* process after the vote: a happy node of an honest dealer leaves, an     *)
(* unhappy one throws its share and complains.  The variant keeps it.      *)
KeepBadShare(i) ==
    /\ phase[i] = "vote" /\ i \in done
    /\ phase' = [phase EXCEPT ![i] = "over"]
    /\ IF share[i] = "good"
       THEN /\ IF Corrupted THEN UNCHANGED outputs ELSE CallOutput(i)
            /\ UNCHANGED complaints
       ELSE /\ complaints' = complaints \cup {i}
            /\ UNCHANGED outputs
    /\ UNCHANGED <<broadcast, voteVars, proposed, share, assists, crashed,
                   managers, left, reported>>

EndProcess(i) ==
    /\ phase[i] = "vote" /\ i \in done
    /\ phase' = [phase EXCEPT ![i] = "over"]
    /\ IF share[i] = "good"
       THEN /\ IF Corrupted THEN UNCHANGED outputs ELSE CallOutput(i)
            /\ UNCHANGED <<share, complaints>>
       ELSE /\ share' = [share EXCEPT ![i] = "thrown"]
            /\ complaints' = complaints \cup {i}
            /\ UNCHANGED outputs
    /\ UNCHANGED <<broadcast, voteVars, proposed, assists, crashed, managers,
                   left, reported>>

-----------------------------------------------------------------------------
(* LightWeightEndOfProcessing starts the two managers, each in its time:   *)
(* which of them goes on depends on whether the node has a share then.  An *)
(* assist_manager that finds one ends without effect, which is no step.    *)
StartAnswering(i) ==
    /\ Corrupted /\ phase[i] = "over" /\ answering[i] = "wait"
    /\ answering' = [answering EXCEPT ![i] = IF HasShare(i) THEN "on" ELSE "off"]
    /\ UNCHANGED <<broadcast, voteVars, sharing, forwards, recovering, ending>>

StartRecovering(i) ==
    /\ Corrupted /\ phase[i] = "over" /\ recovering[i] = "wait"
    /\ ~HasShare(i)
    /\ recovering' = [recovering EXCEPT ![i] = "on"]
    /\ UNCHANGED <<broadcast, voteVars, sharing, forwards, answering, ending>>

(* forward_request, in the SMD listener, for the node's own share and then *)
(* for another's, whose root proof it unwraps.  Nothing once im_done.      *)
Forward(i) ==
    IF i \in left
    THEN UNCHANGED <<assists, crashed>>
    ELSE /\ assists' = assists \cup {i}
         /\ crashed' = IF i \in proposed THEN crashed ELSE crashed \cup {i}

(* complaint_manager at its first complaint: Assist with the share that    *)
(* SMD gave the node, Report of the other's, output.  The variant outputs  *)
(* first.                                                                  *)
OutputThenAnswer(i) ==
    /\ answering[i] = "on" /\ i \notin reported
    /\ complaints \ {i} # {}
    /\ answering' = [answering EXCEPT ![i] = "off"]
    /\ CallOutput(i)
    /\ UNCHANGED <<broadcast, voteVars, sharing, forwards, recovering, left,
                   reported>>

Answer(i) ==
    /\ answering[i] = "on" /\ i \notin reported
    /\ complaints \ {i} # {}
    /\ answering' = [answering EXCEPT ![i] = "off"]
    /\ CallOutput(i)
    /\ Forward(i)
    /\ UNCHANGED <<broadcast, voteVars, sharing, complaints, recovering, left,
                   reported>>

(* assist_manager at its (T+1)-th share that verifies: saved and output.   *)
GoodAssists(i) == (assists \cap Served) \ {i}

Recover(i) ==
    /\ recovering[i] = "on" /\ i \notin left
    /\ Cardinality(GoodAssists(i)) >= T + 1
    /\ recovering' = [recovering EXCEPT ![i] = "off"]
    /\ share' = [share EXCEPT ![i] = "recovered"]
    /\ CallOutput(i)
    /\ UNCHANGED <<broadcast, voteVars, proposed, phase, forwards, answering,
                   left, reported>>

(* The task of Node::output sets im_done; that of a second call panics on  *)
(* handlers.take(), which nobody sees.                                     *)
Leave(i) ==
    /\ outputs[i] > 0 /\ i \notin left
    /\ left' = left \cup {i}
    /\ UNCHANGED <<broadcast, voteVars, sharing, forwards, managers, outputs,
                   reported>>

(* It awaits the node's tasks and unwraps what they end with.              *)
Report(i) ==
    /\ i \in left \ (reported \cup crashed)
    /\ reported' = reported \cup {i}
    /\ UNCHANGED <<broadcast, voteVars, sharing, forwards, managers, outputs,
                   left>>

NodeStep(i) ==
    \/ HandlePropose(i) \/ ReceiveShare(i)
    \/ Process(i) \/ Vote(i) \/ EndProcess(i)
    \/ StartAnswering(i) \/ StartRecovering(i)
    \/ Answer(i) \/ Recover(i)
    \/ Leave(i) \/ Report(i)

Next == CommitmentStep \/ \E i \in Node : NodeStep(i)

Spec == Init /\ [][Next]_vars

-----------------------------------------------------------------------------
TypeOK ==
    /\ committed \in BOOLEAN /\ delivered \in [Node -> 0..1]
    /\ VoteTypeOK
    /\ proposed \subseteq Served
    /\ share \in [Node -> ShareState]
    /\ phase \in [Node -> {"share", "vote", "over"}]
    /\ complaints \subseteq Node \ Served
    /\ assists \subseteq Node /\ crashed \subseteq assists
    /\ answering \in [Node -> {"wait", "on", "off"}]
    /\ recovering \in [Node -> {"wait", "on", "off"}]
    /\ outputs \in [Node -> 0..2]
    /\ left \subseteq Node /\ reported \subseteq left

(* No node leaves before 2T+1 nodes that follow the protocol hold a good   *)
(* share of the committed polynomial: votes cannot start a vote, and an    *)
(* Assist cannot come before one.                                          *)
LeavingMeansShared ==
    left # {} =>
      Cardinality({i \in Served \ Byz : share[i] = "good"}) >= 2 * T + 1

(* A node leaves with a good share or a recovered one: what Node::output   *)
(* would assert, and what a bad share that is thrown and rebuilt while     *)
(* two managers look at it puts at risk.                                   *)
LeavesWithAShare ==
    \A i \in left : share[i] \in {"good", "recovered"}

(* The tasks of i have nothing to do: those of the sharing and the vote,   *)
SharingSettled(i) ==
    /\ i \in Served => i \in proposed \cup left
    /\ share[i] = "none" => Cardinality(proposed) < N - S
    /\ phase[i] = "share" => share[i] = "none"
    /\ phase[i] = "vote" => i \notin done
    /\ i \in left \/ VoteSettled(i)

(* and those of the complaints and the output.                             *)
ComplaintsSettled(i) ==
    /\ Corrupted /\ phase[i] = "over"
         => answering[i] # "wait" /\ (HasShare(i) \/ recovering[i] # "wait")
    /\ answering[i] = "on" => i \in reported \/ complaints \subseteq {i}
    /\ recovering[i] = "on"
         => i \in left \/ Cardinality(GoodAssists(i)) < T + 1
    /\ outputs[i] > 0 => i \in left
    /\ i \in left => i \in reported \cup crashed

Quiet ==
    /\ committed /\ \A i \in Node : delivered[i] = 1
    /\ \A i \in Node : SharingSettled(i) /\ ComplaintsSettled(i)

(* When nothing is left to do every node has left, if 2T+1 nodes can send  *)
(* an Ok: with a corrupted dealer the first complaint brings T+1 Assists   *)
(* before those who could send them are gone.  And the output of a node    *)
(* that was served a good share has reached the node heart, whatever       *)
(* complaints it has answered.                                             *)
EveryoneLeavesInTheEnd ==
    Quiet => left = Node /\ Served \subseteq reported

(* The SMD listener that answers a complaint has the root proof it needs,  *)
(* unless the node was not served, and its complaint_manager started after *)
(* its share had been recovered and took the complaint of a third node.    *)
OnlyLateManagersCrash ==
    \A i \in crashed : i \notin Served /\ share[i] = "recovered"
=============================================================================
