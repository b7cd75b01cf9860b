------------------------------ MODULE Evaluation ------------------------------
(***************************************************************************)
(* An experiment being run: the interface (interface/src/main.rs and       *)
(* process.rs) starts the operations that its Args ask for, one at a time  *)
(* or, for a debit, many at once; the node hearts run them and keep the    *)
(* shares that a reconstruction starts from.                               *)
(*                                                                         *)
(* What the nodes of an operation do among themselves is one step of each; *)
(* other modules model it.  The seconds that the interface sleeps between  *)
(* debit rounds (clean_the_pools) are no bound on an operation's time.     *)
(***************************************************************************)
EXTENDS Experiment

CONSTANTS
    MaxFlight, \* bound: operations in flight
    MaxCount   \* bound: outputs counted in a debit round

ASSUME BoundsAssumption == MaxFlight \in Nat \ {0} /\ MaxCount \in Nat \ {0}

VARIABLES
    stage,   \* <<what the interface does, operations it has left to await>>
    awaited, \* the operation that it awaits the result of, or 0
    flight,  \* the operations in flight: [id -> what each node has done]
    sets,    \* shares_map of each node: [node, ident, op]
    missed,  \* a node has found no share set and panicked
    stale,   \* an awaited result was that of another operation
    round    \* of a debit: open and the numbers counter, started and prev

runVars == <<stage, awaited, flight, sets, missed, stale, round>>
allVars == <<expVars, runVars>>

Nodes(o) == 1..flight[o].job.fields["n"]

(* CryptoSetIdentity.                                                      *)
Identity(job) == <<job.fields["n"], Threshold(job.fields), job.algo>>

NoRound == [open |-> FALSE, counter |-> 0, started |-> 0, prev |-> 0]

(* One turn of process_config, for block a, s being the steps of blocks'   *)
(* fields: latency_evaluation has one operation before those it measures,  *)
(* debit_evaluation three.                                                 *)
Evaluate(a) ==
    IF blocks[a].kind = "Latency" THEN <<"warm", 1>> ELSE <<"base", 3>>

NextTurn(a, s) ==
    IF a > Len(blocks) THEN <<"over", 0>>
    ELSE IF s[a] = "Reconstruct" THEN <<"setup", 1>>
    ELSE Evaluate(a)

Init ==
    /\ ExpInit
    /\ stage = <<"warmup", 10>> /\ awaited = 0 /\ flight = <<>>
    /\ sets = {} /\ missed = FALSE /\ stale = FALSE /\ round = NoRound

(* The fields of the operation to start.                                   *)
Job ==
    IF stage[1] = "warmup"
    THEN [step |-> "Sharing", algo |-> "AvssSimpl", fields |-> WarmUpFields]
    ELSE [step |-> IF stage[1] = "setup" THEN "Sharing" ELSE step[arg],
          algo |-> algo[arg], fields |-> fields[arg]]

(* process_operation_with_fields, and Process, which sends it to n nodes.  *)
(* An id that nothing refers to any more is used again.                    *)
Unused == 1..MaxFlight + Cardinality(sets) + 1
            \ (DOMAIN flight \cup {s.op : s \in sets})

NewOperation(o) ==
    /\ Cardinality(DOMAIN flight) < MaxFlight
    /\ \A p \in Unused : o <= p
    /\ flight' = [p \in DOMAIN flight \cup {o} |->
         IF p = o THEN [job |-> Job, busy |-> {}, done |-> {}] ELSE flight[p]]

(* start_operation_and_wait.                                               *)
StartAwaited ==
    /\ stage[1] \notin {"spam", "over", "panicked"} /\ awaited = 0
    /\ \E o \in Unused : NewOperation(o) /\ awaited' = o
    /\ UNCHANGED <<expVars, stage, sets, missed, stale, round>>

(* operation_spamer, which counts what it has started in its round, up to  *)
(* as many as may have been counted.                                       *)
Spam ==
    /\ stage[1] = "spam"
    /\ \E o \in Unused : NewOperation(o)
    /\ round' = [round EXCEPT !.started = IF @ < MaxCount THEN @ + 1 ELSE @]
    /\ UNCHANGED <<expVars, stage, awaited, sets, missed, stale>>

(* NodesHeart::new_process: a reconstruction takes a share set.            *)
Finds(i, job) == \E s \in sets : s.node = i /\ s.ident = Identity(job)

NewProcess(i, o) ==
    /\ i \notin flight[o].busy \cup flight[o].done
    /\ IF flight[o].job.step = "Reconstruct" /\ ~Finds(i, flight[o].job)
       THEN missed' = TRUE /\ UNCHANGED flight
       ELSE flight' = [flight EXCEPT ![o].busy = @ \cup {i}] /\ UNCHANGED missed
    /\ UNCHANGED <<expVars, stage, awaited, sets, stale, round>>

(* handle_node_output: the first set of an identity is kept, before the    *)
(* interface is told.  The variant keeps the latest one.                   *)
SetOf(i, o) == [node |-> i, ident |-> Identity(flight[o].job), op |-> o]

Tell(i, o) ==
    /\ i \in flight[o].busy
    /\ flight' = [flight EXCEPT ![o].busy = @ \ {i}, ![o].done = @ \cup {i}]
    /\ UNCHANGED <<expVars, stage, awaited, missed, stale, round>>

KeepLatest(i, o) ==
    /\ Tell(i, o)
    /\ sets' = IF flight[o].job.step # "Reconstruct"
               THEN {s \in sets : s.node # i \/ s.ident # SetOf(i, o).ident}
                    \cup {SetOf(i, o)}
               ELSE sets

HandleNodeOutput(i, o) ==
    /\ Tell(i, o)
    /\ sets' = IF flight[o].job.step = "Reconstruct" \/ Finds(i, flight[o].job)
               THEN sets ELSE sets \cup {SetOf(i, o)}

(* wait_for_outputs: an operation ends when its n nodes have sent theirs.  *)
(* The variant waits for one output more (0..=n).                          *)
EndedLate(o) == Cardinality(flight[o].done) > flight[o].job.fields["n"]

Ended(o) == flight[o].done = Nodes(o)

Forget(o) == flight' = [p \in DOMAIN flight \ {o} |-> flight[p]]

(* After the last operation that a stage awaits.                           *)
NextStage ==
    IF stage[1] = "setup" THEN Evaluate(arg)
    ELSE IF stage[1] = "warm" THEN <<"measure", Block.hmt>>
    ELSE IF stage[1] = "base" THEN <<"spam", 0>>
    ELSE NextTurn(arg', step')

(* The pool's first result, whichever operation it is of, ends the wait.   *)
ResultAwaited(o) ==
    /\ awaited # 0 /\ Ended(o)
    /\ Forget(o)
    /\ awaited' = 0
    /\ stale' = (stale \/ o # awaited)
    /\ IF stage[1] = "measure" THEN LatencyEvolve ELSE UNCHANGED expVars
    /\ stage' = IF stage[2] > 1 THEN <<stage[1], stage[2] - 1>> ELSE NextStage
    /\ UNCHANGED <<sets, missed, round>>

(* A result that comes when nothing is awaited: it counts for a debit,     *)
(* once the round's redirection is there.                                  *)
ResultCounted(o) ==
    /\ awaited = 0 /\ Ended(o)
    /\ stage[1] = "spam" /\ round.open => round.counter < MaxCount
    /\ Forget(o)
    /\ round' = IF stage[1] = "spam" /\ round.open
                THEN [round EXCEPT !.counter = @ + 1] ELSE round
    /\ UNCHANGED <<expVars, stage, awaited, sets, missed, stale>>

(* debit_evaluation: rounds, until one counts less than the one before.    *)
OpenRound ==
    /\ stage[1] = "spam" /\ ~round.open
    /\ round' = [round EXCEPT !.open = TRUE, !.counter = 0]
    /\ UNCHANGED <<expVars, stage, awaited, flight, sets, missed, stale>>

(* to_wait_for - counter.  With outputs of operations that an earlier      *)
(* round has left it can be less than zero: a debug build panics, and in a *)
(* release build the value wraps, and clean_the_pools does not look at it. *)
Underflows == round.counter > round.started

CloseRound ==
    IF round.prev > round.counter
    THEN /\ round' = NoRound
         /\ DebitEvolve
         /\ stage' = NextTurn(arg', step')
    ELSE /\ round' = [NoRound EXCEPT !.prev = round.counter]
         /\ UNCHANGED <<expVars, stage>>

EndRound ==
    /\ stage[1] = "spam" /\ round.open /\ round.counter > 0
    /\ \/ Underflows /\ stage' = <<"panicked", 0>> /\ UNCHANGED <<expVars, round>>
       \/ CloseRound
    /\ UNCHANGED <<awaited, flight, sets, missed, stale>>

Next ==
    \/ StartAwaited \/ Spam
    \/ OpenRound \/ EndRound
    \/ \E o \in DOMAIN flight :
         \/ \E i \in Nodes(o) : NewProcess(i, o) \/ HandleNodeOutput(i, o)
         \/ ResultAwaited(o) \/ ResultCounted(o)

Spec == Init /\ [][Next]_allVars

-----------------------------------------------------------------------------
(* As long as an operation that is awaited is the one whose result comes,  *)
(* the share sets that the nodes keep of an identity are those of one      *)
(* sharing, and a node that starts a reconstruction has one.               *)
ShareSetsInPlace ==
    ~stale =>
      /\ ~missed
      /\ \A s, u \in sets : s.ident = u.ident => s.op = u.op

(* A measured latency is the time of the operation that was started for    *)
(* it: only a debit leaves operations behind, and latencies come first.    *)
LatenciesAreOwn ==
    stale => IsOver \/ Block.kind = "Debit"

(* What the indices of a block's Variation may be.                         *)
Indices(b) ==
    {[variation |-> v, subvariation |-> s[2], subvaried |-> s[1],
      algo |-> p[2], step |-> p[1]] :
       v \in DOMAIN b.main.values, p \in Supported(b),
       s \in IF b.subs = <<>> THEN {<<1, 1>>}
             ELSE UNION {{k} \X DOMAIN b.subs[k].values : k \in DOMAIN b.subs}}

(* What a block has measured there: every field but main and the one that  *)
(* is subvaried has its first value.  With Bingo among the algos the batch *)
(* is a third of n for all of them, but for the block's first measure.     *)
Planned(a, i) ==
    LET b == blocks[a]
    IN  [arg |-> a, indices |-> i,
         run |-> <<b.steps[i.step], b.algos[i.algo]>>,
         fields |-> IF i = Start THEN [x \in Field |-> Value(b, x, i)]
                    ELSE ActualFields(b, i)]

(* In each block the first algo has the first step, as insert_result       *)
(* asserts, and Sharing, if it is one of the steps, is the first: set_eval *)
(* has it measured first.                                                  *)
FirstPairsFit ==
    \A e \in Experiments : \A a \in DOMAIN e :
      <<1, 1>> \in Supported(e[a]) /\ FirstStep(e[a]) = e[a].steps[1]

(* When the experiment is over, every block has been measured at each of   *)
(* its indices, with the step and the algo under which it is recorded, and *)
(* with the fields these indices say.                                      *)
TestedAsPlanned ==
    IsOver =>
      tested = UNION {{Planned(a, i) : i \in Indices(blocks[a])} :
                        a \in DOMAIN blocks}

(* The configuration never moves but to something not measured yet.        *)
NothingTwice ==
    [][<<arg, at>>' # <<arg, at>> => tested' # tested]_allVars

(* Nothing is left to do: the interface awaits a result, has as many       *)
(* operations in flight as it may, is over or has panicked, no operation   *)
(* has ended, and a node that has not done its part of one has panicked.   *)
Panics(i, o) ==
    missed /\ flight[o].job.step = "Reconstruct" /\ ~Finds(i, flight[o].job)

Quiet ==
    /\ \/ stage[1] \in {"over", "panicked"} \/ awaited # 0
       \/ Cardinality(DOMAIN flight) >= MaxFlight
    /\ stage[1] = "spam" => round.open /\ round.counter = 0
    /\ \A o \in DOMAIN flight :
         /\ ~Ended(o)
         /\ \A i \in Nodes(o) :
              /\ i \notin flight[o].busy
              /\ i \in flight[o].done \/ Panics(i, o)

(* When nothing is left to do the experiment is over, unless a node has    *)
(* had no share set for a reconstruction, or the interface has panicked,   *)
(* which it does not in the first round of the first debit.                *)
AfterARound ==
    round.prev > 0 \/ \E r \in tested : blocks[r.arg].kind = "Debit"

ExperimentEnds ==
    Quiet => \/ stage[1] = "over"
             \/ missed
             \/ stage[1] = "panicked" /\ AfterARound
=============================================================================
