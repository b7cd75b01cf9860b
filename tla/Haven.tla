-------------------------------- MODULE Haven --------------------------------
(***************************************************************************)
(* The sharing step of nodes/src/haven: a served node echoes a share to    *)
(* every node, 2T+1 Echoes or T+1 Readies make a node ready, T+1 Echoes    *)
(* determine its share.  It outputs at its (2T+1)-th Ready if it has these *)
(* Echoes, or at its (T+1)-th Echo if it is ready.                         *)
(*                                                                         *)
(* Messages may be late but none is lost, so that a counter of a node is   *)
(* the number of thresholds it has passed: T+1 and 2T+1.  What a node      *)
(* makes of its shares is in Shares; among 2^k nodes the last one panics   *)
(* there, so that N is not such a number here.                             *)
(***************************************************************************)
EXTENDS Operation

ASSUME HavenAssumption == T # 0

VARIABLES
    echoed,     \* nodes that have handled the dealer's Send
    readied,    \* nodes whose flag ready is set: they have broadcast Ready
    echoCount,  \* [Node -> 0..2]: thresholds passed by echo_count
    readyCount  \* [Node -> 0..2]: thresholds passed by ready_count

havenVars == <<echoed, readied, echoCount, readyCount>>

HavenInit ==
    /\ echoed = {} /\ readied = {}
    /\ echoCount = [i \in Node |-> 0]
    /\ readyCount = [i \in Node |-> 0]

(* The k-th threshold; the variant asks T+1 of both.                       *)
OneThreshold(k) == T + 1
Threshold(k) == k * T + 1

(* HavenSend: the shares verify, an Echo for every node.  The dealer skips *)
(* the first t messages that are ready, whosever they are.                 *)
SendEchoes(i) ==
    /\ i \in Reached \ (echoed \cup left)
    /\ echoed' = echoed \cup {i}
    /\ UNCHANGED <<opVars, broadcastVars, readied, echoCount, readyCount>>

PassEchoes(i) ==
    /\ i \notin left /\ echoCount[i] < 2
    /\ AtLeast(Threshold(echoCount[i] + 1), echoed)
    /\ echoCount' = [echoCount EXCEPT ![i] = @ + 1]

(* HavenEcho, the (2T+1)-th of which makes the node ready.                 *)
EnoughEchoes(i) ==
    /\ PassEchoes(i) /\ echoCount[i] = 1
    /\ readied' = readied \cup {i}
    /\ UNCHANGED <<opVars, broadcastVars, echoed, readyCount>>

(* The (T+1)-th, with its "echo path" to the output.  The variant has only *)
(* the other one.                                                          *)
SomeEchoesNoOutput(i) ==
    /\ PassEchoes(i) /\ echoCount[i] = 0
    /\ UNCHANGED <<opVars, broadcastVars, echoed, readied, readyCount>>

SomeEchoes(i) ==
    /\ PassEchoes(i) /\ echoCount[i] = 0
    /\ IF i \in readied THEN Output(i) ELSE UNCHANGED opVars
    /\ UNCHANGED <<broadcastVars, echoed, readied, readyCount>>

PassReadies(i) ==
    /\ i \notin left /\ readyCount[i] < 2
    /\ AtLeast(Threshold(readyCount[i] + 1), readied)
    /\ readyCount' = [readyCount EXCEPT ![i] = @ + 1]

(* HavenReady, the (T+1)-th of which makes the node ready.                 *)
SomeReadies(i) ==
    /\ PassReadies(i) /\ readyCount[i] = 0
    /\ readied' = readied \cup {i}
    /\ UNCHANGED <<opVars, broadcastVars, echoed, echoCount>>

(* The (2T+1)-th, the "ready path" to the output.                          *)
EnoughReadies(i) ==
    /\ PassReadies(i) /\ readyCount[i] = 1
    /\ IF echoCount[i] > 0 THEN Output(i) ELSE UNCHANGED opVars
    /\ UNCHANGED <<broadcastVars, echoed, readied, echoCount>>

HavenNext ==
    \E i \in Node :
        \/ SendEchoes(i)
        \/ SomeEchoes(i) \/ EnoughEchoes(i)
        \/ SomeReadies(i) \/ EnoughReadies(i)

(* No message that has been sent moves a node.                             *)
HavenQuiet ==
    \A i \in Node \ left :
        /\ i \in Reached => i \in echoed
        /\ echoCount[i] < 2 => ~AtLeast(Threshold(echoCount[i] + 1), echoed)
        /\ readyCount[i] < 2 => ~AtLeast(Threshold(readyCount[i] + 1), readied)

HavenTypeOK ==
    /\ echoed \subseteq Node /\ readied \subseteq Node
    /\ echoCount \in [Node -> 0..2] /\ readyCount \in [Node -> 0..2]

(* Nobody leaves before 2T+1 nodes have echoed a share of the dealing,     *)
(* although the echo path of a node asks for T+1 Echoes and T+1 Readies    *)
(* only: the first Ready takes 2T+1 Echoes.                                *)
HavenFixed == left # {} => AtLeast(2 * T + 1, echoed)
=============================================================================
