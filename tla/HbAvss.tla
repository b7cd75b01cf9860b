-------------------------------- MODULE HbAvss --------------------------------
(***************************************************************************)
(* The sharing step of nodes/src/hbavss: shares are dispersed, each node   *)
(* retrieves its own, and the nodes vote.  If the dealer is corrupted, a   *)
(* node with a bad share broadcasts a complaint, and a node that takes     *)
(* another one's complaint retrieves the bad share, assists and leaves.    *)
(*                                                                         *)
(* Its assist_manager waits for the end of the processing of LightWeight,  *)
(* which HbAvss never sends: nobody makes use of an assist, and the node   *)
(* keeps the bad share, which lets its complaint_manager go on.            *)
(*                                                                         *)
(* The tasks of disperse-retrieve subscribe when they come to run, and its *)
(* listener drops what comes before: a node may miss its Propose, and so   *)
(* many Echoes that the dispersal is never complete for it.                *)
(***************************************************************************)
EXTENDS Operation, OneSidedVote

VARIABLES
    dispersed,  \* nodes that have handled the Propose of the dispersal
    late,       \* nodes whose managers were too late for the Echoes
    kept,       \* [Node -> {"none", "good", "bad"}]: my_share
    stage,      \* [Node -> Stage]: wait_for_share, then complaint_manager
    complained  \* nodes that have broadcast a complaint

hbVars == <<dispersed, late, kept, stage, complained>>

(* "lost": complaint_manager waits for the answer to its retrieve, which   *)
(* came before it had subscribed.                                          *)
Stage == {"share", "vote", "over", "lost"}

HbInit ==
    /\ dispersed = {} /\ late = {} /\ complained = {}
    /\ kept = [i \in Node |-> "none"]
    /\ stage = [i \in Node |-> "share"]

(* With t = 0 the dealer panics before it has sent anything: the encoder   *)
(* takes the length of a message modulo t.                                 *)
Deals == T > 0

(* propose of the listener, and messages_handler: the Echo of i, with its  *)
(* part of every message.  If messages_handler has not subscribed when the *)
(* Propose comes, try_send_message fails and this never happens.           *)
Disperse(i) ==
    /\ Deals /\ i \in Reached \ (dispersed \cup left)
    /\ dispersed' = dispersed \cup {i}
    /\ UNCHANGED <<opVars, broadcastVars, voteVars, late, kept, stage,
                   complained>>

(* new_echo: each manager has missed so many Echoes that fewer than t are  *)
(* left, or panicked on one that came before messages_handler was there.   *)
MissEchoes(i) ==
    /\ kept[i] = "none" /\ i \notin late /\ dispersed # {}
    /\ late' = late \cup {i}
    /\ UNCHANGED <<opVars, broadcastVars, voteVars, dispersed, kept, stage,
                   complained>>

(* wait_for_share: t Echoes complete the dispersal at a node with a        *)
(* manager in time for them, and its first retrieve is answered (see       *)
(* DisperseRetrieve).                                                      *)
RetrieveMine(i) ==
    /\ kept[i] = "none" /\ i \notin late
    /\ Deals /\ AtLeast(T, dispersed)
    /\ kept' = [kept EXCEPT ![i] = IF i \in Reached THEN "good" ELSE "bad"]
    /\ UNCHANGED <<opVars, broadcastVars, voteVars, dispersed, late, stage,
                   complained>>

(* wait_from_comm, of the broadcast that the dealer starts last.           *)
TakeCommitment ==
    /\ Deals
    /\ Broadcast!Commit \/ \E i \in Node : Broadcast!Deliver(i)
    /\ UNCHANGED <<opVars, voteVars, hbVars>>

(* process: only a happy node asks for the Ok.  The variant does not look. *)
OkAnyway(i) ==
    /\ stage[i] = "share" /\ kept[i] # "none" /\ delivered[i] = 1
    /\ stage' = [stage EXCEPT ![i] = "vote"]
    /\ BroadcastOk(i)
    /\ UNCHANGED <<opVars, broadcastVars, dispersed, late, kept, complained>>

StartVote(i) ==
    /\ stage[i] = "share" /\ kept[i] # "none" /\ delivered[i] = 1
    /\ stage' = [stage EXCEPT ![i] = "vote"]
    /\ IF kept[i] = "good" /\ i \notin Byz
       THEN BroadcastOk(i) ELSE UNCHANGED voteVars
    /\ UNCHANGED <<opVars, broadcastVars, dispersed, late, kept, complained>>

TakeVote(i) ==
    /\ i \notin left /\ VoteStep(i)
    /\ UNCHANGED <<opVars, broadcastVars, hbVars>>

(* process after the vote.                                                 *)
AfterVote(i) ==
    /\ stage[i] = "vote" /\ i \in done
    /\ stage' = [stage EXCEPT ![i] = "over"]
    /\ complained' = IF kept[i] = "bad" THEN complained \cup {i} ELSE complained
    /\ IF corrupted THEN UNCHANGED opVars ELSE Output(i)
    /\ UNCHANGED <<broadcastVars, voteVars, dispersed, late, kept>>

(* complaint_manager, at the first complaint of another node: its retrieve *)
(* is answered, or it is not, if it is the node's second.                  *)
TakeComplaint(i) ==
    /\ corrupted /\ stage[i] = "over" /\ i \notin left
    /\ complained \ {i} # {}
    /\ \/ Output(i) /\ UNCHANGED stage
       \/ stage' = [stage EXCEPT ![i] = "lost"] /\ UNCHANGED opVars
    /\ UNCHANGED <<broadcastVars, voteVars, dispersed, late, kept,
                   complained>>

HbNext ==
    \/ TakeCommitment
    \/ \E i \in Node :
           \/ Disperse(i) \/ MissEchoes(i) \/ RetrieveMine(i)
           \/ StartVote(i) \/ TakeVote(i) \/ AfterVote(i)
           \/ TakeComplaint(i)

(* The tasks of i have nothing to do; its Propose may have been lost.      *)
HbSettled(i) ==
    /\ kept[i] = "none" /\ Deals /\ AtLeast(T, dispersed) => i \in late
    /\ stage[i] = "share" => kept[i] = "none"
    /\ stage[i] = "vote" => i \notin done
    /\ i \in left \/ VoteSettled(i)
    /\ corrupted /\ stage[i] = "over" => i \in left \/ complained \subseteq {i}

HbQuiet ==
    /\ Deals => committed /\ \A i \in Node : delivered[i] = 1
    /\ \A i \in Node : HbSettled(i)

HbTypeOK ==
    /\ VoteTypeOK
    /\ dispersed \subseteq Node /\ late \subseteq Node
    /\ complained \subseteq Node
    /\ kept \in [Node -> {"none", "good", "bad"}]
    /\ stage \in [Node -> Stage]

(* If t nodes have had their Propose and 2t+1 correct ones are in time for *)
(* the Echoes, all the nodes leave that are in time, and no others.        *)
InTimeLeave ==
    /\ AtLeast(T, dispersed)
    /\ AtLeast(2 * T + 1, Node \ (Byz \cup late))
    => left = Node \ late

(* Nobody leaves before 2T+1 nodes that follow the protocol hold a good    *)
(* share, and with a corrupted dealer not before a node has complained.    *)
HbFixed ==
    left # {} =>
      /\ AtLeast(2 * T + 1, {i \in Reached \ Byz : kept[i] = "good"})
      /\ corrupted => complained # {}
=============================================================================
