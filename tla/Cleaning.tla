------------------------------- MODULE Cleaning -------------------------------
(***************************************************************************)
(* Clean at one node's heart (nodes/src/system/nodes_heart.rs), after one  *)
(* operation: it gives every node a summary, the number of messages sent   *)
(* to it, and waits until the messages that the others' summaries count    *)
(* have come, or for ten seconds.  Summaries of summaries.rs counts them.  *)
(*                                                                         *)
(* get_waiter locks senders twice: a NetworkCleared that is sent before    *)
(* its channel is first subscribed to locks the heart up for good.         *)
(* Messages are handled in any order; ones of a later operation have not   *)
(* been sent, for no node starts one before it has cleaned.                *)
(*                                                                         *)
(* The hearts have all of this, but the interface does not use it: its     *)
(* clean_the_pools only sleeps, and nothing else sends NodeCommand::Clean. *)
(* The module is what follows if an operation's end sends a Clean.         *)
(***************************************************************************)
EXTENDS Integers, FiniteSets

CONSTANTS
    Peer,    \* the nodes of the operation, this one among them
    Me,
    MaxSent  \* bound: messages that a peer has sent to this node

ASSUME CleaningAssumption ==
    IsFiniteSet(Peer) /\ Me \in Peer /\ MaxSent \in Nat

VARIABLES
    op,       \* the operation here: "new", "running", "over", "ended", "lost"
    onWay,    \* [Peer -> Nat]: messages that have not come
    owed,     \* [Peer -> Nat]: nb_message_sent of each peer's summary
    due,      \* peers whose summary has not come
    told,     \* peers whose Summary::awaited is set
    count,    \* [Peer -> Nat]: Summary::received
    senders,  \* Summaries::n, the senders that are left; -1 for None
    given,    \* GiveSumm: "no", "waits" for the operation, "sent"
    clean,    \* where clean is
    timer,    \* of force_clean_timer: "off", "on", "done"
    notices,  \* NetworkCleared messages whose task has not run
    network,  \* its channel: "none", "open", "heard" or "shut"
    cleared,  \* the first clear_summ was "no", "counted" or "forced"
    locked    \* the heart has locked itself up

listVars == <<onWay, owed, due, told, count, senders>>
clVars == <<op, listVars, given, clean, timer, notices, network, cleared,
            locked>>

(* An operation that a Clean follows (see above), as nodes_heart.rs takes  *)
(* it: no summary and no message has come.                                 *)
ClInit ==
    /\ op = "new"
    /\ owed \in [Peer -> 0..MaxSent] /\ onWay = owed
    /\ due = Peer /\ told = {} /\ count = [p \in Peer |-> 0] /\ senders = -1
    /\ given = "no" /\ clean = "idle" /\ timer = "off"
    /\ notices = 0 /\ network = "none" /\ cleared = "no" /\ locked = FALSE

(* The condition of check_summ; the variant does not count.                *)
IsTold(p, c, t) == p \in t

IsHeard(p, c, t) == p \in t /\ c[p] >= owed[p]

(* new_process: EmitN, for which set_n checks every sender.                *)
NewProcess ==
    /\ ~locked /\ op = "new"
    /\ op' = "running"
    /\ senders' = Cardinality({p \in Peer : ~IsHeard(p, count, told)})
    /\ UNCHANGED <<onWay, owed, due, told, count, given, clean, timer,
                   notices, network, cleared, locked>>

ClearSumm(how) ==
    /\ count' = [q \in Peer |-> 0] /\ told' = {} /\ senders' = -1
    /\ notices' = notices + 1
    /\ cleared' = IF cleared = "no" THEN how ELSE cleared

(* check_summ of summaries.rs, then the one of message_listener, after a   *)
(* message or a summary of p.                                              *)
CheckSumm(p, c, t) ==
    LET n == IF senders # -1 /\ IsHeard(p, c, t) THEN senders - 1 ELSE senders
    IN  IF n = 0
        THEN ClearSumm("counted")
        ELSE /\ count' = c /\ told' = t /\ senders' = n
             /\ UNCHANGED <<notices, cleared>>

MessageComes(p) ==
    /\ ~locked /\ onWay[p] > 0
    /\ onWay' = [onWay EXCEPT ![p] = @ - 1]
    /\ CheckSumm(p, [count EXCEPT ![p] = @ + 1], told)
    /\ UNCHANGED <<op, owed, due, given, clean, timer, network, locked>>

(* Another node may never end its operation, and then sends no summary.    *)
SummaryComes(p) ==
    /\ ~locked /\ p \in due
    /\ p = Me => given = "sent"
    /\ due' = due \ {p}
    /\ CheckSumm(p, count, told \cup {p})
    /\ UNCHANGED <<op, onWay, owed, given, clean, timer, network, locked>>

(* The operation ends in the pool, and listen_for_results hears of it.     *)
EndOperation ==
    /\ ~locked /\ op = "running"
    /\ op' = "over"
    /\ UNCHANGED <<listVars, given, clean, timer, notices, network, cleared,
                   locked>>

PoolOutput ==
    /\ ~locked /\ op = "over"
    /\ op' = "ended"
    /\ given' = IF given = "waits" THEN "sent" ELSE given
    /\ UNCHANGED <<listVars, clean, timer, notices, network, cleared, locked>>

(* clean: the pool's, which ends an operation that takes too long,         *)
CleanPool ==
    /\ ~locked /\ clean = "idle" /\ op # "new"
    /\ clean' = "give"
    /\ op' = IF op = "running" THEN "lost" ELSE op
    /\ UNCHANGED <<listVars, given, timer, notices, network, cleared, locked>>

(* GiveSumm(1), which only clean sends, and the task of the timer,         *)
GiveSumm ==
    /\ ~locked /\ clean = "give"
    /\ given' = IF op = "ended" THEN "sent" ELSE "waits"
    /\ clean' = "subscribe" /\ timer' = "on"
    /\ UNCHANGED <<op, listVars, notices, network, cleared, locked>>

(* the channel of NetworkCleared,                                          *)
Subscribe ==
    /\ ~locked /\ clean = "subscribe"
    /\ network' = "open" /\ clean' = "wait"
    /\ UNCHANGED <<op, listVars, given, timer, notices, cleared, locked>>

(* the message on it, after which the channel is shut,                     *)
Heard ==
    /\ ~locked /\ clean = "wait" /\ network = "heard"
    /\ network' = "shut" /\ clean' = "stop"
    /\ UNCHANGED <<op, listVars, given, timer, notices, cleared, locked>>

(* and the timer, which it cancels or waits for.                           *)
Cleaned ==
    /\ clean = "stop" /\ timer \in {"on", "done"}
    /\ clean' = "cleaned" /\ timer' = "done"
    /\ UNCHANGED <<op, listVars, given, notices, network, cleared, locked>>

(* ForceClearSumm, after ten seconds.                                      *)
TimerFires ==
    /\ ~locked /\ timer = "on"
    /\ timer' = "done"
    /\ ClearSumm("forced")
    /\ UNCHANGED <<op, onWay, owed, due, given, clean, network, locked>>

(* wait_and_send(NetworkCleared) in a task of its own: on a shut channel   *)
(* it panics, alone.                                                       *)
Notify ==
    /\ ~locked /\ notices > 0
    /\ notices' = notices - 1
    /\ locked' = (network = "none")
    /\ network' = IF network = "open" THEN "heard" ELSE network
    /\ UNCHANGED <<op, listVars, given, clean, timer, cleared>>

ClNext ==
    \/ NewProcess \/ EndOperation \/ PoolOutput
    \/ \E p \in Peer : MessageComes(p) \/ SummaryComes(p)
    \/ CleanPool \/ GiveSumm \/ Subscribe \/ Heard \/ Cleaned
    \/ TimerFires \/ Notify

(* The heart waits, for a summary that does not come, or for a message     *)
(* whose channel is open but has heard nothing; or it is locked.           *)
ClQuiet ==
    /\ clean = "stop" => timer = "off"
    /\ ~locked =>
         /\ op \in {"ended", "lost"} /\ notices = 0 /\ timer # "on"
         /\ clean \notin {"idle", "give", "subscribe"}
         /\ clean = "wait" => network # "heard"
         /\ \A p \in Peer : onWay[p] = 0
         /\ \A p \in due : p = Me /\ given # "sent"

ClTypeOK ==
    /\ op \in {"new", "running", "over", "ended", "lost"}
    /\ onWay \in [Peer -> 0..MaxSent] /\ owed \in [Peer -> 0..MaxSent]
    /\ due \subseteq Peer /\ told \subseteq Peer /\ count \in [Peer -> 0..MaxSent]
    /\ senders \in -1..Cardinality(Peer) /\ given \in {"no", "waits", "sent"}
    /\ clean \in {"idle", "give", "subscribe", "wait", "stop", "cleaned"}
    /\ timer \in {"off", "on", "done"} /\ notices \in 0..2
    /\ network \in {"none", "open", "heard", "shut"}
    /\ cleared \in {"no", "counted", "forced"} /\ locked \in BOOLEAN

(* A node that clears its network by counting has every message that was   *)
(* sent to it, although summaries and messages come in any order and n may *)
(* be known after some of them.                                            *)
CountedMeansArrived == cleared = "counted" => \A p \in Peer : onWay[p] = 0

(* A clean ends, with the forced clearing at the latest, unless the heart  *)
(* has cleared its network before clean listened.                          *)
CleanEnds == clean = "cleaned" \/ locked
=============================================================================
