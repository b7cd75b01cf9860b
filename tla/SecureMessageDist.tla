-------------------------- MODULE SecureMessageDist --------------------------
(***************************************************************************)
(* The secure message distribution (SMD) of LightWeight, of                *)
(* nodes/src/secure_message_dist: a node that has the dealer's Propose     *)
(* sends every node its part of that node's share (Echo).  N-S parts make  *)
(* a node vote, S+1 votes make another one vote.  N-2S parts and N-S votes *)
(* each call try_to_output, the second call of which decodes the share.    *)
(*                                                                         *)
(* As in Haven, a counter of a node is the number of thresholds it has     *)
(* passed.                                                                 *)
(***************************************************************************)
EXTENDS Operation

(* Memory::t, which is not the configuration's.                            *)
Third == N \div 3

ASSUME SMDAssumption == N > 3

VARIABLES
    proposed,   \* nodes that have handled their Propose
    voted,      \* nodes whose flag voted is set: they have broadcast Vote
    shareCount, \* [Node -> 0..2]: thresholds passed by share_count
    voteCount,  \* [Node -> 0..2]: thresholds passed by vote_count
    tries       \* [Node -> 0..2]: calls of try_to_output; the first sets
                \* is_ready

smdVars == <<proposed, voted, shareCount, voteCount, tries>>

SMDInit ==
    /\ proposed = {} /\ voted = {}
    /\ shareCount = [i \in Node |-> 0]
    /\ voteCount = [i \in Node |-> 0]
    /\ tries = [i \in Node |-> 0]

HasOutput(i) == tries[i] = 2

(* insert_secret and add_vote: the number of parts, then of votes, that    *)
(* make each of their thresholds.  The variant votes at N-2S parts.        *)
EagerParts(k) == N - 2 * Third
PartsFor(k) == IF k = 1 THEN N - 2 * Third ELSE N - Third
VotesFor(k) == IF k = 1 THEN Third + 1 ELSE N - Third

(* Propose: the node's own part, and an Echo to each other node.           *)
Propose(i) ==
    /\ i \in Reached \ proposed
    /\ proposed' = proposed \cup {i}
    /\ UNCHANGED <<opVars, broadcastVars, voted, shareCount, voteCount, tries>>

TryToOutput(i) == tries' = [tries EXCEPT ![i] = @ + 1]

CastSMDVote(i) == voted' = voted \cup {i}

PassParts(i) ==
    /\ shareCount[i] < 2
    /\ AtLeast(PartsFor(shareCount[i] + 1), proposed)
    /\ shareCount' = [shareCount EXCEPT ![i] = @ + 1]
    /\ UNCHANGED <<opVars, broadcastVars, proposed, voteCount>>

SomeParts(i) ==
    /\ shareCount[i] = 0 /\ PassParts(i)
    /\ TryToOutput(i) /\ UNCHANGED voted

EnoughParts(i) ==
    /\ shareCount[i] = 1 /\ PassParts(i)
    /\ CastSMDVote(i) /\ UNCHANGED tries

PassVotes(i) ==
    /\ voteCount[i] < 2
    /\ AtLeast(VotesFor(voteCount[i] + 1), voted)
    /\ voteCount' = [voteCount EXCEPT ![i] = @ + 1]
    /\ UNCHANGED <<opVars, broadcastVars, proposed, shareCount>>

(* The variant leaves the vote to the parts.                               *)
SomeVotesNoVote(i) ==
    /\ voteCount[i] = 0 /\ PassVotes(i)
    /\ UNCHANGED <<voted, tries>>

SomeSMDVotes(i) ==
    /\ voteCount[i] = 0 /\ PassVotes(i)
    /\ CastSMDVote(i) /\ UNCHANGED tries

EnoughSMDVotes(i) ==
    /\ voteCount[i] = 1 /\ PassVotes(i)
    /\ TryToOutput(i) /\ UNCHANGED voted

SMDNext ==
    \E i \in Node :
        \/ Propose(i)
        \/ SomeParts(i) \/ EnoughParts(i)
        \/ SomeSMDVotes(i) \/ EnoughSMDVotes(i)

(* No message that has been sent moves a node.                             *)
SMDQuiet ==
    /\ Reached \subseteq proposed
    /\ \A i \in Node :
           /\ shareCount[i] < 2 => ~AtLeast(PartsFor(shareCount[i] + 1), proposed)
           /\ voteCount[i] < 2 => ~AtLeast(VotesFor(voteCount[i] + 1), voted)

SMDTypeOK ==
    /\ proposed \subseteq Node /\ voted \subseteq Node
    /\ shareCount \in [Node -> 0..2] /\ voteCount \in [Node -> 0..2]
    /\ tries \in [Node -> 0..2]

(* A node that has its share has voted, has the N-2S parts that decode()   *)
(* asserts, and N-S nodes have the Propose: what LightWeight's             *)
(* ReceiveShare relies on.                                                 *)
DistributedToMost ==
    \A i \in Node : HasOutput(i) =>
        /\ i \in voted /\ shareCount[i] > 0
        /\ AtLeast(N - Third, proposed)
=============================================================================
