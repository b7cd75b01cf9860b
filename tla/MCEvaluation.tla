----------------------------- MODULE MCEvaluation -----------------------------
EXTENDS Evaluation

Base(n, t, b) ==
    [x \in Field |-> CASE x = "n" -> n [] x = "t" -> t [] x = "batch_size" -> b]

Vary(x, values) == [field |-> x, values |-> values]

Both == <<"Sharing", "Reconstruct">>

Latencies(steps, algos, base, main, subs) ==
    [kind |-> "Latency", hmt |-> 2, steps |-> steps, algos |-> algos,
     base |-> base, main |-> main, subs |-> subs]

Debits(steps, algos, base, main) ==
    [kind |-> "Debit", hmt |-> 0, steps |-> steps, algos |-> algos,
     base |-> base, main |-> main, subs |-> <<>>]

(* Two sizes with an algo that does not support Reconstruct between two    *)
(* that do; two more fields, varied one at a time; two debit blocks around *)
(* a latency block, the second of another algo.                              *)
SmallExperiments ==
    {<<Latencies(Both, <<"AvssSimpl", "Haven", "Badger">>, Base(3, 33, 1),
                 Vary("n", <<3, 2>>), <<>>)>>,
     <<Latencies(Both, <<"LightWeight", "Bingo">>, Base(2, 0, 1),
                 Vary("batch_size", <<1, 2>>),
                 <<Vary("n", <<4, 2>>), Vary("t", <<0, 25, 30>>)>>)>>,
     <<Debits(<<"Sharing">>, <<"Badger">>, Base(2, 0, 1), Vary("n", <<2>>)),
       Latencies(Both, <<"AvssSimpl">>, Base(2, 0, 1), Vary("n", <<2>>), <<>>),
       Debits(<<"Reconstruct">>, <<"DualAvssSimpl">>, Base(2, 0, 1),
              Vary("n", <<2>>))>>}

ASSUME TheFirstPairsFit == FirstPairsFit

(* TLC reports a state that has no step as a deadlock, unless it is quiet: *)
(* Quiet leaves out no state in which the experiment stops.                *)
Stopped == Quiet /\ UNCHANGED allVars
StoppingSpec == Init /\ [][Next \/ Stopped]_allVars
=============================================================================
