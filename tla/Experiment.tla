------------------------------ MODULE Experiment ------------------------------
(***************************************************************************)
(* What an experiment evaluates, and in which order: Args, SubArgs,        *)
(* Variation and Fields of global_lib/src/config_treatment.                *)
(*                                                                         *)
(* An experiment is a sequence of blocks, each a latency or a debit block  *)
(* (configs/README.md: two types are supported).  A block varies one field *)
(* (main) over its values and, one at a time, the fields of subs, for each *)
(* of its algos and steps.  Measured curves are left out.                  *)
(***************************************************************************)
EXTENDS Integers, Sequences, FiniteSetsExt

CONSTANT Experiments   \* the parsed files that from_file may return

(* A Vec, and one that must have a first element: set_algos, set_steps,    *)
(* set_variation and add_subvariation of SubArgs take it.                  *)
Listed(s) == s \in Seq(Range(s))
Filled(s) == Listed(s) /\ s # <<>>

IsBlock(b) ==
    /\ \/ b.kind = "Latency" /\ b.hmt \in Nat \ {0}
       \/ b.kind = "Debit"
    /\ Filled(b.steps) /\ Filled(b.algos) /\ Filled(b.main.values)
    /\ Listed(b.subs) /\ \A k \in DOMAIN b.subs : Filled(b.subs[k].values)

ASSUME ExperimentsAssumption ==
    \A e \in Experiments : Listed(e) /\ \A a \in DOMAIN e : IsBlock(e[a])

Field == {"n", "t", "batch_size"}
Step == {"Sharing", "Reconstruct"}

StepSupported(a) ==
    IF a \in {"Badger", "Bingo", "AvssSimpl", "DualAvssSimpl"}
    THEN Step ELSE {"Sharing"}

VARIABLES
    blocks,  \* Args::args
    arg,     \* Args::current_arg, from 1; Len(blocks) + 1 when it is over
    step,    \* [block -> Step]: the step in the eval of its fields
    fields,  \* [block -> [Field -> Nat]]: its fields
    algo,    \* [block -> algo]: the algo of its fields
    at,      \* the indices of the current block's Variation
    points,  \* latency_curve.len() of the current block
    tested   \* the curves that are recorded, with what was run for them

expVars == <<blocks, arg, step, fields, algo, at, points, tested>>

IsOver == arg > Len(blocks)
Block == blocks[arg]

(* The blocks of a kind after the a-th, and the first of them.  The        *)
(* variant takes the blocks as they come.                                  *)
AnyKind(kind, a) == a + 1..Len(blocks)

OfKind(kind, a) == {b \in a + 1..Len(blocks) : blocks[b].kind = kind}

FirstOf(kind, a) ==
    IF OfKind(kind, a) = {} THEN Len(blocks) + 1 ELSE Min(OfKind(kind, a))

(* The values that a block gives a field, and the one it has at indices i. *)
SubsOf(b, x) == {k \in DOMAIN b.subs : b.subs[k].field = x}

Values(b, x) ==
    IF b.main.field = x THEN b.main.values
    ELSE IF SubsOf(b, x) # {} THEN b.subs[Max(SubsOf(b, x))].values
    ELSE <<b.base[x]>>

Given(b, x) == {Values(b, x)[k] : k \in DOMAIN Values(b, x)}

Value(b, x, i) ==
    Values(b, x)[IF b.main.field = x THEN i.variation
                 ELSE IF SubsOf(b, x) = {i.subvaried} THEN i.subvariation
                 ELSE 1]

Start ==
    [variation |-> 1, subvariation |-> 1, subvaried |-> 1, algo |-> 1,
     step |-> 1]

Has(s, x) == \E k \in DOMAIN s : s[k] = x

(* Args::set_eval.                                                         *)
FirstStep(b) == IF Has(b.steps, "Sharing") THEN "Sharing" ELSE "Reconstruct"

(* from_file and Args::init: latency blocks come first.                    *)
ExpInit ==
    /\ blocks \in Experiments
    /\ arg = IF OfKind("Latency", 0) # {} THEN FirstOf("Latency", 0)
             ELSE FirstOf("Debit", 0)
    /\ step = [b \in DOMAIN blocks |-> IF b = arg THEN FirstStep(blocks[b])
                                       ELSE blocks[b].steps[1]]
    /\ fields = [b \in DOMAIN blocks |->
                   [x \in Field |-> Value(blocks[b], x, Start)]]
    /\ algo = [b \in DOMAIN blocks |-> blocks[b].algos[1]]
    /\ at = Start /\ points = 0 /\ tested = {}

(* Variation::actualise_fields.                                            *)
ActualFields(b, i) ==
    [x \in Field |->
       IF x = "batch_size" /\ Has(b.algos, "Bingo")
       THEN Value(b, "n", i) \div 3 ELSE Value(b, x, i)]

(* Pairs of a step and an algo, by their indices; the variants count a     *)
(* pair as after itself and leave pairs that are not supported.            *)
AllPairs(b) == (DOMAIN b.steps) \X (DOMAIN b.algos)

Supported(b) ==
    {p \in AllPairs(b) : b.steps[p[1]] \in StepSupported(b.algos[p[2]])}

NotAfter(p, q) == p[1] < q[1] \/ (p[1] = q[1] /\ p[2] <= q[2])

Precedes(p, q) == p[1] < q[1] \/ (p[1] = q[1] /\ p[2] < q[2])

(* inc_algo_index and inc_step_index: what is left after the indices i.    *)
AnyPairLeft(b, i) == {p \in AllPairs(b) : Precedes(<<i.step, i.algo>>, p)}

PairsLeft(b, i) == {p \in Supported(b) : Precedes(<<i.step, i.algo>>, p)}

NextPair(b, i) ==
    CHOOSE p \in PairsLeft(b, i) :
      \A q \in PairsLeft(b, i) : q = p \/ Precedes(p, q)

(* Variation::next; {} when the block is over.                             *)
NextIndices(b, i) ==
    IF i.variation < Len(b.main.values)
    THEN {[i EXCEPT !.variation = @ + 1]}
    ELSE IF b.subs # <<>> /\ i.subvariation < Len(b.subs[i.subvaried].values)
    THEN {[i EXCEPT !.variation = 1, !.subvariation = @ + 1]}
    ELSE IF i.subvaried < Len(b.subs)
    THEN {[i EXCEPT !.variation = 1, !.subvariation = 1, !.subvaried = @ + 1]}
    ELSE IF PairsLeft(b, i) # {}
    THEN {[Start EXCEPT !.step = NextPair(b, i)[1], !.algo = NextPair(b, i)[2]]}
    ELSE {}

(* Variation::insert_result: under the step and the algo of the indices.   *)
Result ==
    [arg |-> arg, indices |-> at, run |-> <<step[arg], algo[arg]>>,
     fields |-> fields[arg]]

(* Args::try_to_go_next, and latency_evolve after the last latency block.  *)
NextArg ==
    LET next == FirstOf(Block.kind, arg)
    IN  IF Block.kind = "Latency" /\ next > Len(blocks)
        THEN FirstOf("Debit", 0) ELSE next

IsFirstDebit(b) ==
    /\ Block.kind = "Latency" /\ b = NextArg
    /\ b <= Len(blocks) /\ blocks[b].kind = "Debit"

(* Variation::evolve, with reset_full when the block is over.              *)
Evolve ==
    LET over == NextIndices(Block, at) = {}
        next == IF over THEN Start
                ELSE CHOOSE i \in NextIndices(Block, at) : TRUE
    IN  /\ tested' = tested \cup {Result}
        /\ at' = next
        /\ fields' = [fields EXCEPT ![arg] = ActualFields(Block, next)]
        /\ algo' = [algo EXCEPT ![arg] = Block.algos[next.algo]]
        /\ step' = [b \in DOMAIN blocks |->
             IF b = arg THEN Block.steps[next.step]
             ELSE IF over /\ IsFirstDebit(b) THEN FirstStep(blocks[b])
             ELSE step[b]]
        /\ arg' = IF over THEN NextArg ELSE arg
        /\ UNCHANGED blocks

(* SubArgs::latency_evolve: one more point, hmt of them for an evolution.  *)
LatencyEvolve ==
    IF points + 1 = Block.hmt
    THEN points' = 0 /\ Evolve
    ELSE /\ points' = points + 1
         /\ UNCHANGED <<blocks, arg, step, fields, algo, at, tested>>

DebitEvolve == Evolve /\ UNCHANGED points

(* Fields::t, a percentage of n.                                           *)
Threshold(f) == (f["n"] * f["t"]) \div 100

(* Fields::warm_up, for the largest network that a block asks for.         *)
NetworkSize ==
    Max(UNION {Given(blocks[b], "n") : b \in DOMAIN blocks})

WarmUpFields ==
    [x \in Field |-> CASE x = "n" -> NetworkSize
                       [] x = "t" -> 33
                       [] x = "batch_size" -> 3]
=============================================================================
