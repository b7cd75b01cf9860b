--------------------------- MODULE DisperseRetrieve ---------------------------
(***************************************************************************)
(* One node's part of nodes/src/disperse_retrieve, which HbAvss uses:      *)
(* echo_manager and ready_manager, which subscribes to Echo as well, each  *)
(* pass the first t Echoes to messages_handler and ask it for the output;  *)
(* the first such request decodes the messages.  A retrieve asks the       *)
(* handler for one of them.                                                *)
(*                                                                         *)
(* The three tasks subscribe when they run, which nothing waits for:       *)
(* an Echo that comes before a manager is lost to it, and a manager that   *)
(* sends a share before the handler is there panics.  Echoes are numbered  *)
(* in the order in which they come.                                        *)
(***************************************************************************)
EXTENDS Integers, Sequences, FiniteSets

CONSTANT Parts  \* values of t, the parts that determine a message

ASSUME PartsAssumption == Parts \subseteq Nat \ {0}

Manager == {"echo", "ready"}

VARIABLES
    parts,     \* RSDecoderData::t
    came,      \* Echoes that have come
    from,      \* [Manager -> Int]: Echoes missed; -1 until it subscribes
    passed,    \* [Manager -> Nat]: shares it has sent to the handler
    asked,     \* [Manager -> {"no", "yes", "dead"}]: for the output
    queue,     \* the channel of messages_handler
    handler,   \* "late", "on" or "dead"
    saw,       \* the Echoes whose share has been added
    complete,  \* done is set and DisperseComplete sent
    retrieves, \* calls of Node::retrieve
    channel,   \* DispRetRetrieveOutput: "none", "open" or "closed"
    answers    \* answers that a retrieve has received

managerVars == <<from, passed, asked>>
retrieveVars == <<retrieves, channel, answers>>
drVars == <<parts, came, managerVars, queue, handler, saw, complete,
            retrieveVars>>

DRInit ==
    /\ parts \in Parts
    /\ came = 0 /\ queue = <<>> /\ saw = {}
    /\ from = [m \in Manager |-> -1]
    /\ passed = [m \in Manager |-> 0]
    /\ asked = [m \in Manager |-> "no"]
    /\ handler = "late" /\ complete = FALSE
    /\ retrieves = 0 /\ channel = "none" /\ answers = 0

(* At most n - t nodes echo, of n > 3t; fewer if a Propose has been lost.  *)
Comes ==
    /\ came < 2 * parts + 1
    /\ came' = came + 1
    /\ UNCHANGED <<parts, managerVars, queue, handler, saw, complete,
                   retrieveVars>>

StartManager(m) ==
    /\ from[m] = -1
    /\ from' = [from EXCEPT ![m] = came]
    /\ UNCHANGED <<parts, came, passed, asked, queue, handler, saw, complete,
                   retrieveVars>>

StartHandler ==
    /\ handler = "late"
    /\ handler' = "on"
    /\ UNCHANGED <<parts, came, managerVars, queue, saw, complete,
                   retrieveVars>>

(* The k-th Echo of a manager, for k up to t: AddShare.                    *)
PassShare(m) ==
    /\ from[m] # -1 /\ asked[m] = "no"
    /\ passed[m] < parts /\ from[m] + passed[m] < came
    /\ IF handler = "late"
       THEN asked' = [asked EXCEPT ![m] = "dead"] /\ UNCHANGED <<passed, queue>>
       ELSE /\ passed' = [passed EXCEPT ![m] = @ + 1]
            /\ queue' = Append(queue, from[m] + passed[m] + 1)
            /\ UNCHANGED asked
    /\ UNCHANGED <<parts, came, from, handler, saw, complete, retrieveVars>>

(* OutputReq, after the t-th.  The variant asks one share too early.       *)
AskEarly(m) ==
    /\ asked[m] = "no" /\ passed[m] = parts - 1 /\ handler # "late"
    /\ asked' = [asked EXCEPT ![m] = "yes"]
    /\ queue' = Append(queue, 0)
    /\ UNCHANGED <<parts, came, from, passed, handler, saw, complete,
                   retrieveVars>>

AskOutput(m) ==
    /\ asked[m] = "no" /\ passed[m] = parts
    /\ asked' = [asked EXCEPT ![m] = "yes"]
    /\ queue' = Append(queue, 0)
    /\ UNCHANGED <<parts, came, from, passed, handler, saw, complete,
                   retrieveVars>>

(* messages_handler: a share, whose sender it may have seen.               *)
AddShare ==
    /\ handler = "on" /\ queue # <<>> /\ Head(queue) > 0
    /\ saw' = saw \cup {Head(queue)}
    /\ queue' = Tail(queue)
    /\ UNCHANGED <<parts, came, managerVars, handler, complete, retrieveVars>>

(* The output, once; decode() panics on fewer than t shares.               *)
DecodeOutput ==
    /\ handler = "on" /\ queue # <<>> /\ Head(queue) = 0
    /\ queue' = Tail(queue)
    /\ IF complete \/ Cardinality(saw) >= parts
       THEN complete' = TRUE /\ UNCHANGED handler
       ELSE handler' = "dead" /\ UNCHANGED complete
    /\ UNCHANGED <<parts, came, managerVars, saw, retrieveVars>>

(* Node::retrieve sends its request and subscribes to the answer, the      *)
(* first time after DisperseComplete, a second time for a complaint.       *)
SendRequest ==
    /\ complete /\ retrieves < 2 /\ answers = retrieves
    /\ retrieves' = retrieves + 1
    /\ queue' = Append(queue, -1)
    /\ UNCHANGED <<parts, came, managerVars, handler, saw, complete, channel,
                   answers>>

SubscribeToAnswer ==
    /\ retrieves > answers /\ channel \in {"none", "closed"}
    /\ channel' = "open"
    /\ UNCHANGED <<parts, came, managerVars, queue, handler, saw, complete,
                   retrieves, answers>>

(* try_wait_and_send waits for a channel that was never there, and fails   *)
(* on one whose receiver is gone.  The variant does not wait.              *)
AnswerAtOnce ==
    /\ handler = "on" /\ queue # <<>> /\ Head(queue) = -1
    /\ queue' = Tail(queue)
    /\ IF channel = "open"
       THEN answers' = answers + 1 /\ channel' = "closed"
       ELSE UNCHANGED <<answers, channel>>
    /\ UNCHANGED <<parts, came, managerVars, handler, saw, complete, retrieves>>

AnswerRequest ==
    /\ handler = "on" /\ queue # <<>> /\ Head(queue) = -1
    /\ channel # "none"
    /\ queue' = Tail(queue)
    /\ IF channel = "open"
       THEN answers' = answers + 1 /\ channel' = "closed"
       ELSE UNCHANGED <<answers, channel>>
    /\ UNCHANGED <<parts, came, managerVars, handler, saw, complete, retrieves>>

DRNext ==
    \/ Comes \/ StartHandler
    \/ \E m \in Manager : StartManager(m) \/ PassShare(m) \/ AskOutput(m)
    \/ AddShare \/ DecodeOutput
    \/ SendRequest \/ SubscribeToAnswer \/ AnswerRequest

(* No task has anything to do, whether or not more Echoes come:            *)
(* messages_handler may wait with a request for a channel that is not      *)
(* there.                                                                  *)
DRQuiet ==
    /\ handler # "late"
    /\ \A m \in Manager :
           /\ from[m] # -1
           /\ asked[m] = "no"
                => passed[m] # parts
                   /\ (passed[m] < parts => from[m] + passed[m] >= came)
    /\ handler = "on" /\ queue # <<>> => Head(queue) = -1 /\ channel = "none"
    /\ complete => retrieves = 2 \/ answers # retrieves
    /\ retrieves > answers => channel = "open"

DRTypeOK ==
    /\ parts \in Parts /\ came \in Nat
    /\ from \in [Manager -> Int] /\ passed \in [Manager -> Nat]
    /\ asked \in [Manager -> {"no", "yes", "dead"}]
    /\ handler \in {"late", "on", "dead"} /\ complete \in BOOLEAN
    /\ retrieves \in 0..2 /\ answers \in 0..2
    /\ channel \in {"none", "open", "closed"}

(* The handler never decodes too few shares, although two managers add the *)
(* same ones, ask for the same output and may have missed some.            *)
DecodesEnough == handler # "dead" /\ (complete => Cardinality(saw) >= parts)

(* A manager that was there for t Echoes, and the handler for its shares.  *)
InTime(m) == asked[m] # "dead" /\ from[m] + parts <= came

(* When nothing is left to do, the dispersal is complete if a manager was  *)
(* in time, and the first retrieve has its answer.  The second one may     *)
(* not: its request can come before its subscription.                      *)
DispersalEnds ==
    /\ (\E m \in Manager : InTime(m)) => complete
    /\ complete => answers > 0
=============================================================================
