---------------------------- MODULE OneSidedVote ----------------------------
(***************************************************************************)
(* The vote of nodes/src/one_sided_vote that LightWeight and HbAvss hold   *)
(* on a dealing: a node whose share is good broadcasts Ok, 2T+1 Oks make   *)
(* a node vote, T+1 votes make another one vote, 2T+1 votes end it.        *)
(*                                                                         *)
(* Both messages go to every node at once and are counted one by one.  A   *)
(* count that reaches its threshold is one step: messages may be late, so  *)
(* it only matters how many have been sent.                                *)
(***************************************************************************)
EXTENDS Nodes

VARIABLES
    oks,    \* nodes whose is_ok is set: they have broadcast Ok
    votes,  \* nodes whose has_voted is set: they have broadcast Vote
    done    \* nodes whose done is set: they have sent OneSidedVoteOutput

voteVars == <<oks, votes, done>>

NoVote == oks = {} /\ votes = {} /\ done = {}

enough == 2 * T + 1

(* OneSidedVoteBroadcastOkRequest; a second one has no effect.             *)
BroadcastOk(i) ==
    /\ oks' = oks \cup {i}
    /\ UNCHANGED <<votes, done>>

(* The variant takes one Ok less.                                          *)
FewerOks == Cardinality(oks) >= enough - 1
EnoughOks == Cardinality(oks) >= enough

SomeVotes == Cardinality(votes) > T

(* broadcast_vote, on an Ok or on a Vote of another node.                  *)
CastVote(i) ==
    /\ i \notin votes \cup done
    /\ EnoughOks \/ SomeVotes
    /\ votes' = votes \cup {i}
    /\ UNCHANGED <<oks, done>>

(* The Vote that ends it: a node has voted at its (T+1)-th, if not before. *)
EndVote(i) ==
    /\ i \in votes \ done
    /\ Cardinality(votes) >= enough
    /\ done' = done \cup {i}
    /\ UNCHANGED <<oks, votes>>

VoteStep(i) == CastVote(i) \/ EndVote(i)

(* No message that has been sent moves i.                                  *)
VoteSettled(i) ==
    /\ EnoughOks \/ SomeVotes => i \in votes \cup done
    /\ i \in votes /\ Cardinality(votes) >= enough => i \in done

VoteTypeOK == oks \subseteq Node /\ votes \subseteq Node /\ done \subseteq votes
=============================================================================
