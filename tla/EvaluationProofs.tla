-------------------------- MODULE EvaluationProofs --------------------------
(***************************************************************************)
(* Theorems about Evaluation, for all experiments and any number of        *)
(* operations in flight.                                                   *)
(***************************************************************************)
EXTENDS Evaluation, FiniteSetTheorems, SequenceTheorems,
        WellFoundedInduction, TLAPS

(* Min of FiniteSetsExt is the least element.                              *)
LEMMA MinIsLeast ==
    ASSUME NEW S \in SUBSET Nat, S # {}
    PROVE  Min(S) \in S /\ \A x \in S : Min(S) <= x
<1>1. PICK x \in S : \A y \in S : <<y, x>> \notin OpToRel(<, Nat)
  BY NatLessThanWellFounded, WFMin, Zenon
<1>2. ASSUME NEW y \in S PROVE x <= y
  <2>1. <<y, x>> \in Nat \X Nat /\ <<y, x>>[1] = y /\ <<y, x>>[2] = x
    OBVIOUS
  <2>2. ~(y < x)
    BY <1>1, <2>1, Zenon DEF OpToRel
  <2>. QED  BY <2>2
<1>. QED  BY <1>2 DEF Min

-----------------------------------------------------------------------------
(* What is known of a Vec.                                                 *)
LEMMA ListedIs ==
    ASSUME NEW s, Listed(s)
    PROVE  /\ Len(s) \in Nat /\ DOMAIN s = 1..Len(s)
           /\ s # <<>> <=> Len(s) > 0
<1>1. /\ Len(s) \in Nat /\ DOMAIN s = 1..Len(s)
      /\ s = <<>> <=> Len(s) = 0
  BY EmptySeq, LenProperties DEF Listed
<1>. QED  BY <1>1

(* The plan: blocks of one kind come one after the other, and the stage of *)
(* the interface is one of the block's kind.                               *)
IsLatency(a) == blocks[a].kind = "Latency" /\ blocks[a].hmt \in Nat \ {0}
IsDebit(a) == blocks[a].kind = "Debit"

LEMMA BlocksAreTyped ==
    ASSUME blocks \in Experiments
    PROVE  /\ Len(blocks) \in Nat /\ DOMAIN blocks = 1..Len(blocks)
           /\ \A a \in 1..Len(blocks) : IsLatency(a) \/ IsDebit(a)
<1>1. Listed(blocks) /\ \A a \in DOMAIN blocks : IsBlock(blocks[a])
  BY ExperimentsAssumption
<1>. QED  BY <1>1, ListedIs DEF IsLatency, IsDebit, IsBlock

LEMMA FirstOfIsBlock ==
    ASSUME blocks \in Experiments, NEW kind, NEW a \in Nat,
           a <= Len(blocks) + 1
    PROVE  \/ FirstOf(kind, a) = Len(blocks) + 1
           \/ /\ FirstOf(kind, a) \in 1..Len(blocks)
              /\ blocks[FirstOf(kind, a)].kind = kind
<1>1. Len(blocks) \in Nat
  BY BlocksAreTyped
<1>2. OfKind(kind, a) \in SUBSET Nat
  BY <1>1 DEF OfKind
<1>3. OfKind(kind, a) # {} => FirstOf(kind, a) \in OfKind(kind, a)
  BY <1>2, MinIsLeast DEF FirstOf
<1>4. OfKind(kind, a) = {} => FirstOf(kind, a) = Len(blocks) + 1
  BY DEF FirstOf
<1>. QED  BY <1>1, <1>3, <1>4 DEF OfKind

(* Where an evolution of the experiment leads.                             *)
Follows(b) ==
    /\ b \in 1..Len(blocks) + 1
    /\ b <= Len(blocks) => arg <= Len(blocks) /\ (IsDebit(arg) => IsDebit(b))

LEMMA EvolveFollows ==
    ASSUME blocks \in Experiments, arg \in 1..Len(blocks), Evolve
    PROVE  blocks' = blocks /\ Follows(arg')
<1>1. Len(blocks) \in Nat
  BY BlocksAreTyped
<1>2. blocks' = blocks /\ arg' \in {arg, NextArg}
  BY DEF Evolve
<1>3. Follows(arg)
  BY <1>1 DEF Follows
<1>4. Follows(NextArg)
  <2>1. /\ NextArg \in {FirstOf("Debit", 0), FirstOf(Block.kind, arg)}
        /\ IsDebit(arg) => NextArg = FirstOf("Debit", arg)
    BY DEF NextArg, IsDebit, Block
  <2>2. /\ FirstOf("Debit", 0) \in 1..Len(blocks) + 1
        /\ FirstOf(Block.kind, arg) \in 1..Len(blocks) + 1
    BY <1>1, FirstOfIsBlock
  <2>3. IsDebit(arg) /\ NextArg <= Len(blocks) => IsDebit(NextArg)
    BY <1>1, <2>1, FirstOfIsBlock DEF IsDebit
  <2>. QED  BY <2>1, <2>2, <2>3 DEF Follows
<1>. QED  BY <1>2, <1>3, <1>4

(* The stages of a turn for block a.                                       *)
Stages(a) ==
    IF a > Len(blocks) THEN {<<"over", 0>>}
    ELSE IF IsLatency(a) THEN {<<"setup", 1>>, <<"warm", 1>>}
    ELSE {<<"setup", 1>>, <<"base", 3>>}

LEMMA NextTurnIsStage ==
    ASSUME blocks \in Experiments, NEW a \in 1..Len(blocks) + 1, NEW s
    PROVE  /\ NextTurn(a, s) \in Stages(a)
           /\ a <= Len(blocks) /\ s[a] = "Reconstruct"
                => NextTurn(a, s) = <<"setup", 1>>
<1>1. a <= Len(blocks) => a \in 1..Len(blocks) /\ ~(a > Len(blocks))
  BY BlocksAreTyped
<1>2. a <= Len(blocks) => IsLatency(a) \/ IsDebit(a)
  BY <1>1, BlocksAreTyped
<1>3. a > Len(blocks) \/ a <= Len(blocks)
  BY BlocksAreTyped
<1>. QED  BY <1>1, <1>2, <1>3 DEF NextTurn, Evaluate, Stages, IsLatency, IsDebit
-----------------------------------------------------------------------------
(* Which stages go with which block, and how many measures are left.       *)
Turning == {"setup", "warm", "measure", "base", "spam"}
Waiting == {"warmup", "setup", "warm", "measure", "base"}

StageInv ==
    /\ blocks \in Experiments /\ arg \in 1..Len(blocks) + 1
    /\ stage \in (Turning \cup {"warmup", "over", "panicked"}) \X Nat
    /\ stage[1] \in Turning => arg <= Len(blocks)
    /\ stage[1] \in {"warm", "measure"} => IsLatency(arg)
    /\ stage[1] \in {"base", "spam"} => IsDebit(arg)
    /\ stage[1] \in Waiting => stage[2] > 0
    /\ stage[1] \notin Waiting => awaited = 0
    /\ points \in Nat
    /\ points = IF stage[1] = "measure" THEN Block.hmt - stage[2] ELSE 0

LEMMA StageStart == Init => StageInv
<1>. SUFFICES ASSUME Init PROVE StageInv
  OBVIOUS
<1>1. blocks \in Experiments
  BY DEF Init, ExpInit
<1>2. Len(blocks) \in Nat
  BY <1>1, BlocksAreTyped
<1>3. arg \in {FirstOf("Latency", 0), FirstOf("Debit", 0)}
  BY DEF Init, ExpInit
<1>4. arg \in 1..Len(blocks) + 1
  BY <1>1, <1>2, <1>3, FirstOfIsBlock
<1>. QED  BY <1>1, <1>4 DEF Init, ExpInit, StageInv, Turning, Waiting

LEMMA StageStays ==
    ASSUME StageInv, UNCHANGED <<blocks, arg, stage, points>>,
           awaited' = awaited \/ stage[1] \in Waiting
    PROVE  StageInv'
BY DEF StageInv, IsLatency, IsDebit, Block

(* A new turn, at the block that an evolution leads to.                    *)
LEMMA NewTurn ==
    ASSUME StageInv, blocks' = blocks, Follows(arg'), points' = 0,
           stage' \in Stages(arg'), awaited' = 0
    PROVE  StageInv'
<1>1. Len(blocks) \in Nat /\ arg' \in 1..Len(blocks) + 1
  BY BlocksAreTyped DEF StageInv, Follows
<1>2. arg' <= Len(blocks) => IsLatency(arg') \/ IsDebit(arg')
  BY <1>1, BlocksAreTyped DEF StageInv
<1>3. stage' \in {<<"over", 0>>, <<"setup", 1>>, <<"warm", 1>>, <<"base", 3>>}
  BY DEF Stages
<1>4. /\ stage'[1] \in Turning => arg' <= Len(blocks)
      /\ stage'[1] = "warm" => IsLatency(arg')
      /\ stage'[1] = "base" => IsDebit(arg')
  BY <1>1, <1>2, <1>3 DEF Stages, Turning
<1>. QED  BY <1>1, <1>3, <1>4 DEF StageInv, IsLatency, IsDebit, Turning, Waiting

(* What the end of an awaited operation does to the stage.                 *)
LEMMA StageAfterResult ==
    ASSUME StageInv, NEW o, ResultAwaited(o)
    PROVE  StageInv' /\ blocks' = blocks /\ Follows(arg')
<1>1. /\ awaited # 0 /\ awaited' = 0 /\ stage[1] \in Waiting /\ stage[2] > 0
      /\ stage[2] \in Nat
  BY DEF ResultAwaited, StageInv
<1>2. Follows(arg)
  BY BlocksAreTyped DEF Follows, StageInv
<1>3. CASE stage[1] # "measure"
  <2>1. UNCHANGED expVars
    BY <1>3 DEF ResultAwaited
  <2>2. UNCHANGED <<blocks, arg, step, points>> /\ points = 0
    BY <1>3, <2>1 DEF expVars, StageInv
  <2>3. CASE stage[2] > 1
    <3>1. stage' = <<stage[1], stage[2] - 1>>
      BY <2>3 DEF ResultAwaited
    <3>. QED  BY <1>1, <1>2, <1>3, <2>2, <2>3, <3>1
              DEF StageInv, IsLatency, IsDebit, Block, Waiting, Turning
  <2>4. CASE ~(stage[2] > 1)
    <3>1. stage' = NextStage
      BY <2>4 DEF ResultAwaited
    <3>2. CASE stage[1] = "warm"
      <4>1. stage' = <<"measure", Block.hmt>>
        BY <3>1, <3>2 DEF NextStage
      <4>. QED  BY <1>1, <1>2, <2>2, <3>2, <4>1
                DEF StageInv, IsLatency, IsDebit, Block, Waiting, Turning
    <3>3. CASE stage[1] = "base"
      <4>1. stage' = <<"spam", 0>>
        BY <3>1, <3>3 DEF NextStage
      <4>. QED  BY <1>1, <1>2, <2>2, <3>3, <4>1
                DEF StageInv, IsLatency, IsDebit, Block, Waiting, Turning
    <3>4. CASE stage[1] = "setup"
      <4>1. stage' = Evaluate(arg) /\ arg <= Len(blocks)
        BY <3>1, <3>4 DEF NextStage, StageInv, Turning
      <4>2. stage' \in Stages(arg')
        BY <2>2, <4>1, BlocksAreTyped
           DEF Evaluate, Stages, StageInv, IsLatency, IsDebit
      <4>. QED  BY <1>1, <1>2, <2>2, <4>2, NewTurn
    <3>5. CASE stage[1] = "warmup"
      <4>1. stage' = NextTurn(arg', step')
        BY <3>1, <3>5 DEF NextStage
      <4>2. stage' \in Stages(arg')
        BY <2>2, <4>1, NextTurnIsStage DEF StageInv
      <4>. QED  BY <1>1, <1>2, <2>2, <4>2, NewTurn
    <3>. QED  BY <1>1, <1>3, <3>2, <3>3, <3>4, <3>5 DEF Waiting
  <2>. QED  BY <2>3, <2>4
<1>4. CASE stage[1] = "measure"
  <2>1. LatencyEvolve /\ IsLatency(arg) /\ arg \in 1..Len(blocks)
    BY <1>4, BlocksAreTyped DEF ResultAwaited, StageInv, Turning
  <2>2. points = Block.hmt - stage[2] /\ Block.hmt \in Nat
    BY <1>4, <2>1 DEF StageInv, IsLatency, Block
  <2>3. CASE stage[2] > 1
    <3>1. points + 1 # Block.hmt
      BY <1>1, <2>2, <2>3
    <3>2. stage' = <<"measure", stage[2] - 1>>
      BY <1>4, <2>3 DEF ResultAwaited
    <3>3. points' = points + 1 /\ UNCHANGED <<blocks, arg>>
      BY <2>1, <3>1 DEF LatencyEvolve
    <3>4. /\ stage'[1] = "measure" /\ stage'[2] = stage[2] - 1
          /\ stage' \in Turning \X Nat /\ stage'[2] > 0
      BY <1>1, <2>3, <3>2 DEF Turning
    <3>5. Block' = Block /\ IsLatency(arg)' /\ arg' <= Len(blocks')
      BY <2>1, <3>3, BlocksAreTyped DEF Block, IsLatency, StageInv
    <3>6. points' \in Nat /\ points' = Block.hmt - stage'[2]
      BY <1>1, <2>2, <3>3, <3>4 DEF StageInv
    <3>. QED  BY <1>1, <1>2, <3>3, <3>4, <3>5, <3>6
              DEF StageInv, Turning, Waiting, Follows, IsDebit
  <2>4. CASE ~(stage[2] > 1)
    <3>1. points + 1 = Block.hmt
      BY <1>1, <2>2, <2>4
    <3>2. points' = 0 /\ Evolve
      BY <2>1, <3>1 DEF LatencyEvolve
    <3>3. blocks' = blocks /\ Follows(arg')
      BY <2>1, <3>2, EvolveFollows DEF StageInv
    <3>4. stage' = NextTurn(arg', step')
      BY <1>4, <2>4 DEF ResultAwaited, NextStage
    <3>5. stage' \in Stages(arg')
      BY <3>3, <3>4, NextTurnIsStage DEF StageInv, Follows
    <3>. QED  BY <1>1, <3>2, <3>3, <3>5, NewTurn
  <2>. QED  BY <2>3, <2>4
<1>. QED  BY <1>3, <1>4

LEMMA StageAfterRound ==
    ASSUME StageInv, EndRound
    PROVE  StageInv' /\ blocks' = blocks /\ Follows(arg')
<1>1. /\ stage[1] = "spam" /\ awaited' = awaited /\ awaited = 0 /\ points = 0
      /\ arg \in 1..Len(blocks)
  BY BlocksAreTyped DEF EndRound, StageInv, Waiting, Turning
<1>2. Follows(arg)
  BY BlocksAreTyped DEF Follows, StageInv
<1>3. CASE CloseRound
  <2>1. CASE round.prev > round.counter
    <3>1. Evolve /\ points' = points /\ stage' = NextTurn(arg', step')
      BY <1>3, <2>1 DEF CloseRound, DebitEvolve
    <3>2. blocks' = blocks /\ Follows(arg')
      BY <1>1, <3>1, EvolveFollows DEF StageInv
    <3>3. stage' \in Stages(arg')
      BY <3>1, <3>2, NextTurnIsStage DEF StageInv, Follows
    <3>. QED  BY <1>1, <3>1, <3>2, <3>3, NewTurn
  <2>2. CASE ~(round.prev > round.counter)
    <3>1. UNCHANGED <<blocks, arg, stage, points>>
      BY <1>3, <2>2 DEF CloseRound, expVars
    <3>. QED  BY <1>1, <1>2, <3>1, StageStays DEF Follows, IsDebit
  <2>. QED  BY <2>1, <2>2
<1>4. CASE stage' = <<"panicked", 0>> /\ UNCHANGED expVars
  BY <1>1, <1>2, <1>4
     DEF StageInv, IsLatency, IsDebit, Block, Turning, Waiting, expVars, Follows
<1>. QED  BY <1>3, <1>4 DEF EndRound

(* The steps that leave the plan as it is.                                 *)
LEMMA OtherSteps ==
    ASSUME Next, StageInv
    PROVE  \/ \E o \in DOMAIN flight : ResultAwaited(o)
           \/ EndRound
           \/ /\ UNCHANGED <<expVars, stage>>
              /\ awaited' = awaited \/ stage[1] \in Waiting
<1>1. CASE StartAwaited
  <2>1. stage[1] \in Waiting
    BY <1>1 DEF StartAwaited, StageInv, Waiting, Turning
  <2>. QED  BY <1>1, <2>1 DEF StartAwaited
<1>2. CASE Spam \/ OpenRound
  BY <1>2 DEF Spam, OpenRound
<1>3. CASE \E o \in DOMAIN flight : \E i \in Nodes(o) :
             NewProcess(i, o) \/ HandleNodeOutput(i, o)
  BY <1>3 DEF NewProcess, HandleNodeOutput, Tell
<1>4. CASE \E o \in DOMAIN flight : ResultCounted(o)
  BY <1>4 DEF ResultCounted
<1>. QED  BY <1>1, <1>2, <1>3, <1>4 DEF Next

LEMMA StageStep == StageInv /\ [Next]_allVars => StageInv'
<1>. SUFFICES ASSUME StageInv, [Next]_allVars PROVE StageInv'
  OBVIOUS
<1>1. CASE UNCHANGED allVars
  BY <1>1, StageStays DEF allVars, runVars, expVars
<1>2. CASE Next
  <2>1. CASE \E o \in DOMAIN flight : ResultAwaited(o)
    BY <2>1, StageAfterResult
  <2>2. CASE EndRound
    BY <2>2, StageAfterRound
  <2>3. CASE /\ UNCHANGED <<expVars, stage>>
             /\ awaited' = awaited \/ stage[1] \in Waiting
    BY <2>3, StageStays DEF expVars
  <2>. QED  BY <1>2, <2>1, <2>2, <2>3, OtherSteps
<1>. QED  BY <1>1, <1>2

-----------------------------------------------------------------------------
(* While latencies are measured nothing but the operation that is awaited  *)
(* is in flight.                                                           *)
Measuring == ~IsOver /\ Block.kind = "Latency"

AloneInv ==
    Measuring =>
      ~stale /\ DOMAIN flight = IF awaited = 0 THEN {} ELSE {awaited}

LEMMA AloneStart == Init => AloneInv
BY DEF Init, AloneInv

LEMMA AloneStep ==
    ASSUME StageInv, AloneInv, [Next]_allVars
    PROVE  AloneInv'
<1>. SUFFICES ASSUME Measuring'
              PROVE  (~stale /\ DOMAIN flight = IF awaited = 0 THEN {}
                                               ELSE {awaited})'
  BY DEF AloneInv
<1>1. /\ arg \in 1..Len(blocks) + 1 /\ Len(blocks) \in Nat
      /\ arg > Len(blocks) \/ arg \in 1..Len(blocks)
  BY BlocksAreTyped DEF StageInv
<1>2. CASE UNCHANGED allVars
  BY <1>2 DEF AloneInv, Measuring, IsOver, Block, allVars, runVars, expVars
<1>3. CASE Next
  <2>1. CASE \E o \in DOMAIN flight : ResultAwaited(o)
    <3>1. PICK o \in DOMAIN flight : ResultAwaited(o)
      BY <2>1
    <3>2. blocks' = blocks /\ Follows(arg')
      BY <3>1, StageAfterResult
    <3>3. Measuring
      BY <1>1, <3>2, BlocksAreTyped
         DEF Measuring, IsOver, Block, Follows, StageInv, IsLatency, IsDebit
    <3>4. o = awaited /\ ~stale /\ DOMAIN flight = {o}
      BY <3>3 DEF AloneInv
    <3>. QED  BY <3>1, <3>4 DEF ResultAwaited, Forget
  <2>2. CASE EndRound
    <3>1. blocks' = blocks /\ Follows(arg')
      BY <2>2, StageAfterRound
    <3>2. IsDebit(arg)
      BY <2>2 DEF EndRound, StageInv
    <3>. QED  BY <1>1, <3>1, <3>2
              DEF Measuring, IsOver, Block, Follows, IsDebit
  <2>3. CASE /\ UNCHANGED <<expVars, stage>>
             /\ awaited' = awaited \/ stage[1] \in Waiting
    <3>1. Measuring
      BY <2>3 DEF Measuring, IsOver, Block, expVars
    <3>2. stage[1] # "spam"
      BY <3>1 DEF StageInv, Measuring, IsDebit, Block
    <3>3. ~stale /\ DOMAIN flight = IF awaited = 0 THEN {} ELSE {awaited}
      BY <3>1 DEF AloneInv
    <3>4. CASE StartAwaited
      <4>1. PICK o \in Unused : NewOperation(o) /\ awaited' = o
        BY <3>4 DEF StartAwaited
      <4>2. o # 0
        BY <4>1 DEF Unused
      <4>. QED  BY <3>3, <3>4, <4>1, <4>2 DEF StartAwaited, NewOperation
    <3>5. CASE Spam \/ OpenRound \/ EndRound
      BY <3>2, <3>5 DEF Spam, OpenRound, EndRound
    <3>6. CASE \E o \in DOMAIN flight : \E i \in Nodes(o) :
                 NewProcess(i, o) \/ HandleNodeOutput(i, o)
      BY <3>3, <3>6 DEF NewProcess, HandleNodeOutput, Tell
    <3>7. CASE \E o \in DOMAIN flight : ResultCounted(o)
      BY <3>3, <3>7 DEF ResultCounted
    <3>. QED  BY <1>3, <2>1, <3>4, <3>5, <3>6, <3>7 DEF Next
  <2>. QED  BY <1>3, <2>1, <2>2, <2>3, OtherSteps
<1>. QED  BY <1>2, <1>3

(* The operation whose result ends a measure is the one that was started   *)
(* for it, since latencies are measured before any debit.                  *)
THEOREM OwnLatencies == Spec => []LatenciesAreOwn
<1>1. Init => StageInv /\ AloneInv
  BY StageStart, AloneStart
<1>2. StageInv /\ AloneInv /\ [Next]_allVars => (StageInv /\ AloneInv)'
  BY StageStep, AloneStep
<1>3. StageInv /\ AloneInv => LatenciesAreOwn
  <2>. SUFFICES ASSUME StageInv, AloneInv, stale, ~IsOver
                PROVE  Block.kind = "Debit"
    BY DEF LatenciesAreOwn
  <2>1. arg \in 1..Len(blocks)
    BY BlocksAreTyped DEF StageInv, IsOver
  <2>. QED  BY <2>1, BlocksAreTyped
            DEF StageInv, AloneInv, Measuring, IsLatency, IsDebit, Block
<1>. QED  BY <1>1, <1>2, <1>3, PTL DEF Spec

-----------------------------------------------------------------------------
(* The share sets: an identity whose sets not all nodes have is that of    *)
(* the operation that is awaited; every other operation, and every         *)
(* reconstruction, has one that all nodes have.                            *)
Holds(i, id) == \E s \in sets : s.node = i /\ s.ident = id
Shared(id) == \A i \in 1..id[1] : Holds(i, id)

Reconstructs(o) == flight[o].job.step = "Reconstruct"

FlightInv ==
    /\ 0 \notin DOMAIN flight
    /\ \A o \in DOMAIN flight : DOMAIN flight[o] = {"job", "busy", "done"}

AwaitedInv ==
    awaited # 0 =>
      /\ awaited \in DOMAIN flight
      /\ flight[awaited].job.step = Job.step
      /\ Identity(flight[awaited].job) = Identity(Job)
      /\ Reconstructs(awaited)
           \/ \A i \in flight[awaited].done : Holds(i, Identity(Job))

OthersInv ==
    \A o \in DOMAIN flight :
      o # awaited \/ Reconstructs(o) => Shared(Identity(flight[o].job))

KeptInv ==
    /\ \A s \in sets : \/ Shared(s.ident)
                       \/ /\ awaited # 0 /\ s.op = awaited
                          /\ s.ident = Identity(Job)
    /\ \A s, u \in sets : s.ident = u.ident => s.op = u.op

NeedsSets ==
    \/ stage[1] = "spam"
    \/ stage[1] \in {"warm", "measure", "base"} /\ Job.step = "Reconstruct"

SetsInv ==
    ~stale => /\ ~missed
              /\ FlightInv /\ AwaitedInv /\ OthersInv /\ KeptInv
              /\ NeedsSets => Shared(Identity(Job))

LEMMA SetsStart == Init => SetsInv
BY DEF Init, SetsInv, FlightInv, AwaitedInv, OthersInv, KeptInv, NeedsSets

(* Sets only come, so that what is shared stays so.                        *)
LEMMA SharedStays ==
    ASSUME sets \subseteq sets'
    PROVE  /\ \A i, id : Holds(i, id) => Holds(i, id)'
           /\ \A id : Shared(id) => Shared(id)'
BY DEF Holds, Shared

LEMMA FindsHolds ==
    ASSUME NEW i, NEW job
    PROVE  Finds(i, job) <=> Holds(i, Identity(job))
BY DEF Finds, Holds

(* The identity of the operations of a turn stays while the turn lasts.    *)
LEMMA JobStays ==
    ASSUME UNCHANGED <<expVars, stage>>
    PROVE  Job' = Job /\ (NeedsSets' <=> NeedsSets)
<1>1. WarmUpFields' = WarmUpFields
  BY DEF WarmUpFields, NetworkSize, expVars
<1>2. Job' = Job
  BY <1>1 DEF Job, expVars
<1>. QED  BY <1>2 DEF NeedsSets

LEMMA NewOperationStarts ==
    ASSUME NEW o \in Unused, NewOperation(o)
    PROVE  /\ o \notin DOMAIN flight /\ o # 0 /\ \A s \in sets : s.op # o
           /\ DOMAIN flight' = DOMAIN flight \cup {o}
           /\ \A p \in DOMAIN flight : flight'[p] = flight[p]
           /\ flight'[o] = [job |-> Job, busy |-> {}, done |-> {}]
BY DEF Unused, NewOperation

LEMMA StartAwaitedSets ==
    ASSUME SetsInv, ~stale, StageInv, StartAwaited
    PROVE  SetsInv'
<1>1. PICK o \in Unused : NewOperation(o) /\ awaited' = o
  BY DEF StartAwaited
<1>2. /\ awaited = 0 /\ stage[1] \notin {"spam", "over", "panicked"}
      /\ UNCHANGED <<expVars, stage, sets, missed, stale, round>>
  BY DEF StartAwaited
<1>3. Job' = Job /\ (NeedsSets' <=> NeedsSets)
  BY <1>2, JobStays
<1>4. \A id : Shared(id)' = Shared(id)
  BY <1>2 DEF Shared, Holds
<1>5. /\ o \notin DOMAIN flight /\ o # 0 /\ \A s \in sets : s.op # o
      /\ DOMAIN flight' = DOMAIN flight \cup {o}
      /\ \A p \in DOMAIN flight : flight'[p] = flight[p]
      /\ flight'[o] = [job |-> Job, busy |-> {}, done |-> {}]
  BY <1>1, NewOperationStarts
<1>6. FlightInv'
  BY <1>5 DEF SetsInv, FlightInv
<1>7. AwaitedInv'
  BY <1>1, <1>3, <1>5 DEF AwaitedInv
<1>8. Job.step = "Reconstruct" => Shared(Identity(Job))
  BY <1>2 DEF SetsInv, NeedsSets, Job, StageInv, Turning
<1>9. OthersInv'
  <2>1. ASSUME NEW p \in DOMAIN flight', p # awaited' \/ Reconstructs(p)'
        PROVE  Shared(Identity(flight'[p].job))
    <3>1. CASE p = o
      BY <1>1, <1>5, <1>8, <2>1, <3>1 DEF Reconstructs
    <3>2. CASE p # o
      <4>1. p \in DOMAIN flight /\ flight'[p] = flight[p]
        BY <1>5, <2>1, <3>2
      <4>2. p # awaited
        BY <1>2, <4>1 DEF SetsInv, FlightInv
      <4>. QED  BY <4>1, <4>2 DEF SetsInv, OthersInv
    <3>. QED  BY <3>1, <3>2
  <2>. QED  BY <1>4, <2>1 DEF OthersInv
<1>10. KeptInv'
  BY <1>2, <1>4 DEF SetsInv, KeptInv
<1>. QED  BY <1>2, <1>3, <1>4, <1>6, <1>7, <1>9, <1>10 DEF SetsInv

LEMMA SpamSets ==
    ASSUME SetsInv, ~stale, StageInv, Spam
    PROVE  SetsInv'
<1>1. PICK o \in Unused : NewOperation(o)
  BY DEF Spam
<1>2. /\ awaited = 0 /\ stage[1] = "spam"
      /\ UNCHANGED <<expVars, stage, awaited, sets, missed, stale>>
  BY DEF Spam, StageInv, Waiting
<1>3. Job' = Job /\ (NeedsSets' <=> NeedsSets)
  BY <1>2, JobStays
<1>4. \A id : Shared(id)' = Shared(id)
  BY <1>2 DEF Shared, Holds
<1>5. /\ o # 0 /\ DOMAIN flight' = DOMAIN flight \cup {o}
      /\ \A p \in DOMAIN flight : flight'[p] = flight[p]
      /\ flight'[o] = [job |-> Job, busy |-> {}, done |-> {}]
  BY <1>1, NewOperationStarts
<1>6. FlightInv'
  BY <1>5 DEF SetsInv, FlightInv
<1>7. AwaitedInv'
  BY <1>2 DEF AwaitedInv
<1>8. Shared(Identity(Job))
  BY <1>2 DEF SetsInv, NeedsSets
<1>9. OthersInv'
  <2>1. ASSUME NEW p \in DOMAIN flight' PROVE Shared(Identity(flight'[p].job))
    <3>1. CASE p = o
      BY <1>5, <1>8, <3>1
    <3>2. CASE p # o
      <4>1. p \in DOMAIN flight /\ flight'[p] = flight[p]
        BY <1>5, <2>1, <3>2
      <4>2. p # awaited \/ Reconstructs(p)
        BY <1>2, <4>1 DEF SetsInv, FlightInv
      <4>. QED  BY <4>1, <4>2 DEF SetsInv, OthersInv
    <3>. QED  BY <3>1, <3>2
  <2>. QED  BY <1>4, <2>1 DEF OthersInv
<1>10. KeptInv'
  BY <1>2, <1>4 DEF SetsInv, KeptInv
<1>. QED  BY <1>2, <1>3, <1>4, <1>6, <1>7, <1>9, <1>10 DEF SetsInv

(* A node changes what it has done in the operations, and no more.         *)
LEMMA NewProcessSets ==
    ASSUME SetsInv, ~stale, NEW o \in DOMAIN flight, NEW i \in Nodes(o),
           NewProcess(i, o)
    PROVE  SetsInv'
<1>1. UNCHANGED <<expVars, stage, awaited, sets, stale, round>>
  BY DEF NewProcess
<1>2. Job' = Job /\ (NeedsSets' <=> NeedsSets)
  BY <1>1, JobStays
<1>3. \A id : Shared(id)' = Shared(id)
  BY <1>1 DEF Shared, Holds
<1>4. \A j, id : Holds(j, id)' = Holds(j, id)
  BY <1>1 DEF Holds
<1>5. ~Reconstructs(o) \/ Finds(i, flight[o].job)
  <2>1. SUFFICES ASSUME Reconstructs(o) PROVE Finds(i, flight[o].job)
    OBVIOUS
  <2>2. Shared(Identity(flight[o].job))
    BY <2>1 DEF SetsInv, OthersInv
  <2>3. Holds(i, Identity(flight[o].job))
    BY <2>2 DEF Shared, Nodes, Identity
  <2>. QED  BY <2>3, FindsHolds
<1>6. flight' = [flight EXCEPT ![o].busy = @ \cup {i}] /\ UNCHANGED missed
  BY <1>5 DEF NewProcess, Reconstructs
<1>7. /\ DOMAIN flight' = DOMAIN flight
      /\ \A p \in DOMAIN flight : /\ DOMAIN flight'[p] = DOMAIN flight[p]
                                  /\ flight'[p].job = flight[p].job
                                  /\ flight'[p].done = flight[p].done
  BY <1>6 DEF SetsInv, FlightInv
<1>8. FlightInv'
  BY <1>7 DEF SetsInv, FlightInv
<1>9. AwaitedInv'
  BY <1>1, <1>2, <1>4, <1>7 DEF SetsInv, AwaitedInv, Reconstructs
<1>10. OthersInv'
  BY <1>1, <1>3, <1>7 DEF SetsInv, OthersInv, Reconstructs
<1>11. KeptInv'
  BY <1>1, <1>2, <1>3 DEF SetsInv, KeptInv
<1>. QED  BY <1>1, <1>2, <1>3, <1>6, <1>8, <1>9, <1>10, <1>11 DEF SetsInv

LEMMA HandleNodeOutputSets ==
    ASSUME SetsInv, ~stale, NEW o \in DOMAIN flight, NEW i \in Nodes(o),
           HandleNodeOutput(i, o)
    PROVE  SetsInv'
<1>0. PICK id : id = Identity(flight[o].job)
  OBVIOUS
<1>1. UNCHANGED <<expVars, stage, awaited, missed, stale, round>>
  BY DEF HandleNodeOutput, Tell
<1>2. Job' = Job /\ (NeedsSets' <=> NeedsSets)
  BY <1>1, JobStays
<1>3. /\ DOMAIN flight' = DOMAIN flight
      /\ \A p \in DOMAIN flight :
           /\ DOMAIN flight'[p] = DOMAIN flight[p]
           /\ flight'[p].job = flight[p].job
           /\ flight'[p].done = IF p = o THEN flight[p].done \cup {i}
                                ELSE flight[p].done
  BY DEF HandleNodeOutput, Tell, SetsInv, FlightInv
<1>4. \/ (Reconstructs(o) \/ Holds(i, id)) /\ sets' = sets
      \/ /\ ~Reconstructs(o) /\ ~Holds(i, id)
         /\ sets' = sets \cup {SetOf(i, o)}
  BY <1>0, FindsHolds DEF HandleNodeOutput, Reconstructs
<1>5. SetOf(i, o).node = i /\ SetOf(i, o).ident = id /\ SetOf(i, o).op = o
  BY <1>0 DEF SetOf
<1>6. Reconstructs(o) \/ Holds(i, id)'
  BY <1>4, <1>5 DEF Holds
<1>7. sets \subseteq sets'
  BY <1>4
<1>8. /\ \A j, d : Holds(j, d) => Holds(j, d)'
      /\ \A d : Shared(d) => Shared(d)'
  BY <1>7, SharedStays
<1>9. FlightInv'
  BY <1>3 DEF SetsInv, FlightInv
<1>10. AwaitedInv'
  <2>. SUFFICES ASSUME awaited' # 0
                PROVE  /\ awaited' \in DOMAIN flight'
                       /\ flight'[awaited'].job.step = Job'.step
                       /\ Identity(flight'[awaited'].job) = Identity(Job')
                       /\ Reconstructs(awaited)'
                            \/ \A j \in flight'[awaited'].done :
                                 Holds(j, Identity(Job))'
    BY DEF AwaitedInv
  <2>1. /\ awaited' = awaited /\ awaited \in DOMAIN flight
        /\ flight'[awaited].job = flight[awaited].job
        /\ flight[awaited].job.step = Job.step
        /\ Identity(flight[awaited].job) = Identity(Job)
    BY <1>1, <1>3 DEF SetsInv, AwaitedInv
  <2>2. ASSUME ~Reconstructs(awaited), NEW j \in flight'[awaited].done
        PROVE  Holds(j, Identity(Job))'
    <3>1. \/ j \in flight[awaited].done
          \/ j = i /\ o = awaited
      BY <1>3, <2>1, <2>2
    <3>2. CASE j \in flight[awaited].done
      <4>1. Holds(j, Identity(Job))
        BY <1>1, <2>2, <3>2 DEF SetsInv, AwaitedInv
      <4>. QED  BY <1>2, <1>8, <4>1
    <3>3. CASE j = i /\ o = awaited
      BY <1>0, <1>2, <1>6, <2>1, <2>2, <3>3
    <3>. QED  BY <3>1, <3>2, <3>3
  <2>3. Reconstructs(awaited)' <=> Reconstructs(awaited)
    BY <2>1 DEF Reconstructs
  <2>. QED  BY <1>2, <1>3, <2>1, <2>2, <2>3
<1>11. OthersInv'
  BY <1>1, <1>3, <1>8 DEF SetsInv, OthersInv, Reconstructs
<1>12. KeptInv'
  <2>1. CASE sets' = sets
    BY <1>1, <1>2, <1>8, <2>1 DEF SetsInv, KeptInv
  <2>2. CASE /\ ~Reconstructs(o) /\ ~Holds(i, id)
             /\ sets' = sets \cup {SetOf(i, o)}
    <3>1. ~Shared(id)
      BY <1>0, <2>2 DEF Shared, Nodes, Identity
    <3>2. o = awaited /\ awaited # 0
      BY <1>0, <3>1 DEF SetsInv, OthersInv, FlightInv
    <3>3. id = Identity(Job)
      BY <1>0, <3>2 DEF SetsInv, AwaitedInv
    <3>4. \A s \in sets : s.ident = id => s.op = o
      BY <3>1, <3>2 DEF SetsInv, KeptInv
    <3>5. \A s \in sets' : \/ Shared(s.ident)'
                           \/ s.op = awaited /\ s.ident = Identity(Job)
      <4>1. ASSUME NEW s \in sets'
            PROVE  \/ s \in sets
                   \/ s.op = awaited /\ s.ident = Identity(Job)
        BY <1>5, <2>2, <3>2, <3>3
      <4>2. \A s \in sets : \/ Shared(s.ident)
                            \/ s.op = awaited /\ s.ident = Identity(Job)
        BY DEF SetsInv, KeptInv
      <4>. QED  BY <1>8, <4>1, <4>2
    <3>6. \A s, u \in sets' : s.ident = u.ident => s.op = u.op
      BY <1>5, <2>2, <3>4 DEF SetsInv, KeptInv
    <3>. QED  BY <1>1, <1>2, <3>2, <3>5, <3>6 DEF KeptInv
  <2>. QED  BY <1>4, <2>1, <2>2
<1>. QED  BY <1>1, <1>2, <1>8, <1>9, <1>10, <1>11, <1>12 DEF SetsInv

(* What an operation that has ended leaves behind.                         *)
LEMMA ForgetSets ==
    ASSUME SetsInv, ~stale, NEW o \in DOMAIN flight, Forget(o)
    PROVE  /\ DOMAIN flight' = DOMAIN flight \ {o}
           /\ \A p \in DOMAIN flight \ {o} : flight'[p] = flight[p]
           /\ FlightInv'
BY DEF Forget, SetsInv, FlightInv

LEMMA ResultCountedSets ==
    ASSUME SetsInv, ~stale, NEW o \in DOMAIN flight, ResultCounted(o)
    PROVE  SetsInv'
<1>1. /\ awaited = 0 /\ Forget(o)
      /\ UNCHANGED <<expVars, stage, awaited, sets, missed, stale>>
  BY DEF ResultCounted
<1>2. Job' = Job /\ (NeedsSets' <=> NeedsSets)
  BY <1>1, JobStays
<1>3. \A id : Shared(id)' = Shared(id)
  BY <1>1 DEF Shared, Holds
<1>4. /\ DOMAIN flight' = DOMAIN flight \ {o}
      /\ \A p \in DOMAIN flight \ {o} : flight'[p] = flight[p]
      /\ FlightInv'
  BY <1>1, ForgetSets
<1>5. AwaitedInv'
  BY <1>1 DEF AwaitedInv
<1>6. OthersInv'
  BY <1>1, <1>3, <1>4 DEF SetsInv, OthersInv, Reconstructs
<1>7. KeptInv'
  BY <1>1, <1>3 DEF SetsInv, KeptInv
<1>. QED  BY <1>1, <1>2, <1>3, <1>4, <1>5, <1>6, <1>7 DEF SetsInv

(* Steps that leave the operations and the sets alone.                     *)
LEMMA UnmovedSets ==
    ASSUME SetsInv, UNCHANGED <<expVars, stage>>,
           UNCHANGED <<awaited, flight, sets, missed, stale>>
    PROVE  SetsInv'
<1>1. Job' = Job /\ (NeedsSets' <=> NeedsSets)
  BY JobStays
<1>2. /\ \A i, id : Holds(i, id)' = Holds(i, id)
      /\ \A id : Shared(id)' = Shared(id)
  BY DEF Shared, Holds
<1>3. FlightInv => FlightInv'
  BY DEF FlightInv
<1>4. AwaitedInv => AwaitedInv'
  BY <1>1, <1>2 DEF AwaitedInv, Reconstructs
<1>5. OthersInv => OthersInv'
  BY <1>2 DEF OthersInv, Reconstructs
<1>6. KeptInv => KeptInv'
  BY <1>1, <1>2 DEF KeptInv
<1>. QED  BY <1>1, <1>2, <1>3, <1>4, <1>5, <1>6 DEF SetsInv

(* A turn that starts with a reconstruction has a setup first, and within  *)
(* a turn the identity of the operations stays.                            *)
LEMMA NewTurnNeedsNothing ==
    ASSUME StageInv', stage' = NextTurn(arg', step')
    PROVE  ~NeedsSets'
<1>1. CASE stage' \in {<<"over", 0>>, <<"setup", 1>>}
  BY <1>1 DEF NeedsSets
<1>2. CASE stage' = Evaluate(arg') /\ step'[arg'] # "Reconstruct"
  BY <1>2 DEF NeedsSets, Evaluate, Job
<1>. QED  BY <1>1, <1>2 DEF NextTurn

LEMMA TurnIdentity ==
    ASSUME stage[1] # "warmup", stage'[1] # "warmup",
           UNCHANGED <<arg, fields, algo>>
    PROVE  Identity(Job)' = Identity(Job)
BY DEF Identity, Threshold, Job

LEMMA ResultKeepsIdentity ==
    ASSUME StageInv, NEW o, ResultAwaited(o), NeedsSets'
    PROVE  Identity(Job)' = Identity(Job)
<1>1. StageInv' /\ stage[1] \in Waiting /\ stage[2] > 0 /\ stage[2] \in Nat
  BY StageAfterResult DEF ResultAwaited, StageInv
<1>2. stage' = NextTurn(arg', step') => FALSE
  BY <1>1, NewTurnNeedsNothing
<1>3. CASE stage[1] = "warmup"
  <2>1. stage' = <<"warmup", stage[2] - 1>> \/ stage' = NextTurn(arg', step')
    BY <1>3 DEF ResultAwaited, NextStage
  <2>. QED  BY <1>2, <2>1 DEF NeedsSets
<1>4. CASE stage[1] = "measure"
  <2>1. stage[2] > 1 /\ stage' = <<"measure", stage[2] - 1>>
    BY <1>2, <1>4 DEF ResultAwaited, NextStage
  <2>2. IsLatency(arg) /\ points = Block.hmt - stage[2]
    BY <1>4 DEF StageInv
  <2>3. points + 1 # Block.hmt
    BY <1>1, <2>1, <2>2 DEF IsLatency, Block
  <2>4. UNCHANGED <<arg, fields, algo>>
    BY <1>4, <2>3 DEF ResultAwaited, LatencyEvolve
  <2>. QED  BY <1>4, <2>1, <2>4, TurnIdentity
<1>5. CASE stage[1] \in {"setup", "warm", "base"}
  <2>1. UNCHANGED <<arg, fields, algo>>
    BY <1>5 DEF ResultAwaited, expVars
  <2>2. stage'[1] # "warmup"
    BY <1>5 DEF ResultAwaited, NextStage, Evaluate
  <2>. QED  BY <1>5, <2>1, <2>2, TurnIdentity
<1>. QED  BY <1>1, <1>3, <1>4, <1>5 DEF Waiting

LEMMA ResultAwaitedSets ==
    ASSUME SetsInv, StageInv, NEW o \in DOMAIN flight, ResultAwaited(o),
           ~stale'
    PROVE  SetsInv'
<1>1. /\ ~stale /\ o = awaited /\ awaited # 0 /\ awaited' = 0
      /\ Ended(o) /\ Forget(o) /\ UNCHANGED <<sets, missed>>
  BY DEF ResultAwaited
<1>2. \A id : Shared(id)' = Shared(id)
  BY <1>1 DEF Shared, Holds
<1>3. /\ DOMAIN flight' = DOMAIN flight \ {o}
      /\ \A p \in DOMAIN flight \ {o} : flight'[p] = flight[p]
      /\ FlightInv'
  BY <1>1, ForgetSets
<1>4. Identity(flight[o].job) = Identity(Job)
  BY <1>1 DEF SetsInv, AwaitedInv
<1>5. Shared(Identity(Job))
  <2>1. CASE Reconstructs(o)
    BY <1>1, <1>4, <2>1 DEF SetsInv, OthersInv
  <2>2. CASE ~Reconstructs(o)
    <3>1. \A i \in Nodes(o) : Holds(i, Identity(Job))
      BY <1>1, <2>2 DEF SetsInv, AwaitedInv, Ended
    <3>2. Nodes(o) = 1..Identity(Job)[1]
      BY <1>4 DEF Nodes, Identity
    <3>. QED  BY <3>1, <3>2 DEF Shared
  <2>. QED  BY <2>1, <2>2
<1>6. AwaitedInv'
  BY <1>1 DEF AwaitedInv
<1>7. OthersInv'
  BY <1>1, <1>2, <1>3 DEF SetsInv, OthersInv
<1>8. KeptInv'
  <2>1. \A s \in sets : Shared(s.ident)
    BY <1>1, <1>5 DEF SetsInv, KeptInv
  <2>. QED  BY <1>1, <1>2, <2>1 DEF SetsInv, KeptInv
<1>9. NeedsSets' => Shared(Identity(Job))'
  <2>. SUFFICES ASSUME NeedsSets' PROVE Shared(Identity(Job))'
    OBVIOUS
  <2>1. Identity(Job)' = Identity(Job)
    BY ResultKeepsIdentity
  <2>. QED  BY <1>1, <1>5, <2>1 DEF Shared, Holds
<1>. QED  BY <1>1, <1>3, <1>6, <1>7, <1>8, <1>9 DEF SetsInv

LEMMA EndRoundSets ==
    ASSUME SetsInv, ~stale, StageInv, EndRound
    PROVE  SetsInv'
<1>1. UNCHANGED <<awaited, flight, sets, missed, stale>> /\ awaited = 0
  BY DEF EndRound, StageInv, Waiting
<1>2. CASE UNCHANGED <<expVars, stage>>
  BY <1>1, <1>2, UnmovedSets
<1>3. CASE stage' = NextTurn(arg', step') \/ stage' = <<"panicked", 0>>
  <2>1. ~NeedsSets'
    BY <1>3, StageAfterRound, NewTurnNeedsNothing DEF NeedsSets
  <2>2. \A id : Shared(id)' = Shared(id)
    BY <1>1 DEF Shared, Holds
  <2>3. FlightInv' /\ AwaitedInv'
    BY <1>1 DEF SetsInv, FlightInv, AwaitedInv
  <2>4. OthersInv'
    BY <1>1, <2>2 DEF SetsInv, OthersInv, Reconstructs
  <2>5. KeptInv'
    BY <1>1, <2>2 DEF SetsInv, KeptInv
  <2>. QED  BY <1>1, <2>1, <2>3, <2>4, <2>5 DEF SetsInv
<1>. QED  BY <1>2, <1>3 DEF EndRound, CloseRound

LEMMA SetsStep ==
    ASSUME StageInv, SetsInv, [Next]_allVars
    PROVE  SetsInv'
<1>. SUFFICES ASSUME ~stale' PROVE SetsInv'
  BY DEF SetsInv
<1>1. CASE UNCHANGED allVars
  BY <1>1, UnmovedSets DEF allVars, runVars
<1>2. CASE Next
  <2>1. CASE \E o \in DOMAIN flight : ResultAwaited(o)
    BY <2>1, ResultAwaitedSets
  <2>2. CASE StartAwaited
    BY <2>2, StartAwaitedSets DEF StartAwaited
  <2>3. CASE Spam
    BY <2>3, SpamSets DEF Spam
  <2>4. CASE OpenRound
    BY <2>4, UnmovedSets DEF OpenRound
  <2>5. CASE EndRound
    BY <2>5, EndRoundSets DEF EndRound
  <2>6. CASE \E o \in DOMAIN flight : \E i \in Nodes(o) : NewProcess(i, o)
    <3>0. PICK o \in DOMAIN flight : \E i \in Nodes(o) : NewProcess(i, o)
      BY <2>6
    <3>1. PICK i \in Nodes(o) : NewProcess(i, o)
      BY <3>0
    <3>2. ~stale
      BY <3>1 DEF NewProcess
    <3>. QED  BY <3>1, <3>2, NewProcessSets
  <2>7. CASE \E o \in DOMAIN flight : \E i \in Nodes(o) :
               HandleNodeOutput(i, o)
    <3>0. PICK o \in DOMAIN flight : \E i \in Nodes(o) : HandleNodeOutput(i, o)
      BY <2>7
    <3>1. PICK i \in Nodes(o) : HandleNodeOutput(i, o)
      BY <3>0
    <3>2. ~stale
      BY <3>1 DEF HandleNodeOutput, Tell
    <3>. QED  BY <3>1, <3>2, HandleNodeOutputSets
  <2>8. CASE \E o \in DOMAIN flight : ResultCounted(o)
    BY <2>8, ResultCountedSets DEF ResultCounted
  <2>. QED  BY <1>2, <2>1, <2>2, <2>3, <2>4, <2>5, <2>6, <2>7, <2>8 DEF Next
<1>. QED  BY <1>1, <1>2

(* As long as no other operation's result ends a wait, a node that starts  *)
(* a reconstruction has a share set, and the sets that the nodes keep of   *)
(* an identity are those of one sharing.                                   *)
THEOREM SetsAreInPlace == Spec => []ShareSetsInPlace
<1>1. Init => StageInv /\ SetsInv
  BY StageStart, SetsStart
<1>2. StageInv /\ SetsInv /\ [Next]_allVars => (StageInv /\ SetsInv)'
  BY StageStep, SetsStep
<1>3. SetsInv => ShareSetsInPlace
  BY DEF SetsInv, KeptInv, ShareSetsInPlace
<1>. QED  BY <1>1, <1>2, <1>3, PTL DEF Spec

-----------------------------------------------------------------------------
(* The order of a block's indices: by step, algo, field and value of the   *)
(* field, and value of main.  Placed indices are of values that there are, *)
(* and those of Indices are moreover of a pair that is supported.          *)
Numbers ==
    [variation : Nat, subvariation : Nat, subvaried : Nat, algo : Nat,
     step : Nat]

Ahead(i, j) ==
    \/ i.step < j.step
    \/ /\ i.step = j.step
       /\ \/ i.algo < j.algo
          \/ /\ i.algo = j.algo
             /\ \/ i.subvaried < j.subvaried
                \/ /\ i.subvaried = j.subvaried
                   /\ \/ i.subvariation < j.subvariation
                      \/ /\ i.subvariation = j.subvariation
                         /\ i.variation < j.variation

SubPlaced(b, k, v) ==
    IF b.subs = <<>> THEN k = 1 /\ v = 1
    ELSE k \in 1..Len(b.subs) /\ v \in 1..Len(b.subs[k].values)

Placed(b, i) ==
    /\ i \in Numbers
    /\ i.step \in 1..Len(b.steps) /\ i.algo \in 1..Len(b.algos)
    /\ SubPlaced(b, i.subvaried, i.subvariation)
    /\ i.variation \in 1..Len(b.main.values)

IsSupported(b, i) == <<i.step, i.algo>> \in Supported(b)

LEMMA AheadIsOrder ==
    ASSUME NEW i \in Numbers, NEW j \in Numbers, NEW k \in Numbers
    PROVE  /\ ~Ahead(i, i)
           /\ Ahead(i, j) /\ Ahead(j, k) => Ahead(i, k)
           /\ i = j \/ Ahead(i, j) \/ Ahead(j, i)
<1>1. ~Ahead(i, i) /\ (Ahead(i, j) /\ Ahead(j, k) => Ahead(i, k))
  BY DEF Ahead, Numbers
<1>2. \/ Ahead(i, j) \/ Ahead(j, i)
      \/ /\ i.step = j.step /\ i.algo = j.algo /\ i.subvaried = j.subvaried
         /\ i.subvariation = j.subvariation /\ i.variation = j.variation
  BY DEF Ahead, Numbers
<1>. QED  BY <1>1, <1>2 DEF Numbers

LEMMA ValuesOfSubs ==
    ASSUME NEW b, IsBlock(b), NEW k \in 1..Len(b.subs)
    PROVE  1 \in 1..Len(b.subs[k].values)
<1>1. Filled(b.subs[k].values)
  BY ListedIs DEF IsBlock
<1>. QED  BY <1>1, ListedIs DEF Filled

LEMMA StartIsPlaced ==
    ASSUME NEW b, IsBlock(b)
    PROVE  /\ Placed(b, Start)
           /\ \A i : Placed(b, i) => ~Ahead(i, Start)
<1>1. /\ Start \in Numbers
      /\ Start.variation = 1 /\ Start.subvariation = 1 /\ Start.subvaried = 1
      /\ Start.algo = 1 /\ Start.step = 1
  BY DEF Start, Numbers
<1>2. /\ Len(b.steps) \in Nat \ {0} /\ Len(b.algos) \in Nat \ {0}
      /\ Len(b.main.values) \in Nat \ {0}
  BY ListedIs DEF IsBlock, Filled
<1>3. SubPlaced(b, 1, 1)
  <2>1. CASE b.subs = <<>>
    BY <2>1 DEF SubPlaced
  <2>2. CASE b.subs # <<>>
    <3>1. 1 \in 1..Len(b.subs)
      BY <2>2, ListedIs DEF IsBlock
    <3>. QED  BY <2>2, <3>1, ValuesOfSubs DEF SubPlaced
  <2>. QED  BY <2>1, <2>2
<1>4. ASSUME NEW i, Placed(b, i) PROVE ~Ahead(i, Start)
  <2>1. /\ i.step \in Nat /\ i.step >= 1 /\ i.algo \in Nat /\ i.algo >= 1
        /\ i.variation \in Nat /\ i.variation >= 1
        /\ i.subvaried \in Nat /\ i.subvariation \in Nat
    BY <1>2, <1>4 DEF Placed, Numbers
  <2>2. i.subvaried >= 1 /\ i.subvariation >= 1
    BY <1>4, <2>1 DEF Placed, SubPlaced
  <2>. QED  BY <1>1, <2>1, <2>2 DEF Ahead
<1>. QED  BY <1>1, <1>2, <1>3, <1>4 DEF Placed

(* The pair that comes next is the first one of those that are left.       *)
LEMMA NextPairIsNext ==
    ASSUME NEW b, IsBlock(b), NEW i, PairsLeft(b, i) # {}
    PROVE  /\ NextPair(b, i) \in PairsLeft(b, i)
           /\ \A q \in PairsLeft(b, i) :
                q = NextPair(b, i) \/ Precedes(NextPair(b, i), q)
<1>. DEFINE P == PairsLeft(b, i)
<1>1. ASSUME NEW p \in P
      PROVE  p = <<p[1], p[2]>> /\ p[1] \in Nat /\ p[2] \in Nat
  <2>1. p \in (1..Len(b.steps)) \X (1..Len(b.algos))
    BY ListedIs DEF PairsLeft, Supported, AllPairs, IsBlock, Filled
  <2>2. Len(b.steps) \in Nat /\ Len(b.algos) \in Nat
    BY ListedIs DEF IsBlock, Filled
  <2>. QED  BY <2>1, <2>2
<1>. DEFINE Firsts == {p[1] : p \in P}
<1>2. PICK s \in Firsts : \A x \in Firsts : s <= x
  <2>1. Firsts \in SUBSET Nat /\ Firsts # {}
    BY <1>1
  <2>. HIDE DEF Firsts
  <2>. QED  BY <2>1, MinIsLeast
<1>. DEFINE Seconds == {p[2] : p \in {r \in P : r[1] = s}}
<1>3. PICK a \in Seconds : \A x \in Seconds : a <= x
  <2>1. Seconds \in SUBSET Nat /\ Seconds # {}
    BY <1>1, <1>2
  <2>. HIDE DEF Seconds
  <2>. QED  BY <2>1, MinIsLeast
<1>4. PICK p \in P : p[1] = s /\ p[2] = a
  BY <1>3
<1>5. ASSUME NEW q \in P PROVE q = p \/ Precedes(p, q)
  <2>1. /\ q = <<q[1], q[2]>> /\ q[1] \in Nat /\ q[2] \in Nat
        /\ p = <<p[1], p[2]>> /\ p[1] \in Nat /\ p[2] \in Nat
    BY <1>1
  <2>2. p[1] <= q[1]
    BY <1>2, <1>4
  <2>3. q[1] = p[1] => p[2] <= q[2]
    BY <1>3, <1>4
  <2>. QED  BY <2>1, <2>2, <2>3 DEF Precedes
<1>. QED  BY <1>5 DEF NextPair

(* What Variation::next moves to: the next of the placed indices that are  *)
(* of a supported pair, if there is one.                                   *)
LEMMA PlacedIs ==
    ASSUME NEW b, IsBlock(b), NEW i, Placed(b, i)
    PROVE  /\ i.step \in Nat /\ i.algo \in Nat
           /\ i.subvaried \in Nat /\ i.subvaried >= 1
           /\ i.subvariation \in Nat /\ i.subvariation >= 1
           /\ i.variation \in Nat /\ i.variation >= 1
           /\ i.variation <= Len(b.main.values) /\ Len(b.main.values) \in Nat
           /\ Len(b.subs) \in Nat
           /\ b.subs # <<>> => /\ i.subvaried <= Len(b.subs)
                               /\ Len(b.subs[i.subvaried].values) \in Nat
                               /\ i.subvariation
                                    <= Len(b.subs[i.subvaried].values)
           /\ b.subs = <<>> => /\ Len(b.subs) = 0
                               /\ i.subvaried = 1 /\ i.subvariation = 1
<1>1. /\ i.step \in Nat /\ i.algo \in Nat /\ i.subvaried \in Nat
      /\ i.subvariation \in Nat /\ i.variation \in Nat
  BY DEF Placed, Numbers
<1>2. /\ Len(b.main.values) \in Nat /\ Len(b.subs) \in Nat
      /\ DOMAIN b.subs = 1..Len(b.subs)
      /\ b.subs = <<>> => Len(b.subs) = 0
  BY ListedIs DEF IsBlock, Filled
<1>3. CASE b.subs = <<>>
  BY <1>1, <1>2, <1>3 DEF Placed, SubPlaced
<1>4. CASE b.subs # <<>>
  <2>1. /\ i.subvaried \in 1..Len(b.subs)
        /\ i.subvariation \in 1..Len(b.subs[i.subvaried].values)
        /\ i.variation \in 1..Len(b.main.values)
    BY <1>4 DEF Placed, SubPlaced
  <2>2. Filled(b.subs[i.subvaried].values)
    BY <1>2, <2>1 DEF IsBlock
  <2>3. Len(b.subs[i.subvaried].values) \in Nat
    BY <2>2, ListedIs DEF Filled
  <2>. QED  BY <1>1, <1>2, <1>4, <2>1, <2>3
<1>. QED  BY <1>3, <1>4

(* The indices whose pair is not over.                                     *)
PairGoesOn(b, i) ==
    \/ i.variation < Len(b.main.values)
    \/ b.subs # <<>> /\ i.subvariation < Len(b.subs[i.subvaried].values)
    \/ i.subvaried < Len(b.subs)

LEMMA PairsInOrder ==
    ASSUME NEW b, IsBlock(b), NEW i, Placed(b, i), ~PairGoesOn(b, i),
           NEW k, Placed(b, k), Ahead(i, k)
    PROVE  Precedes(<<i.step, i.algo>>, <<k.step, k.algo>>)
<1>1. /\ i.variation = Len(b.main.values) /\ k.variation <= i.variation
      /\ k.variation \in Nat /\ i.variation \in Nat
  BY PlacedIs DEF PairGoesOn
<1>2. /\ i.subvaried \in Nat /\ k.subvaried \in Nat
      /\ k.subvaried <= i.subvaried
  BY PlacedIs DEF PairGoesOn
<1>3. /\ i.subvariation \in Nat /\ k.subvariation \in Nat
      /\ k.subvaried = i.subvaried => k.subvariation <= i.subvariation
  <2>1. CASE b.subs = <<>>
    BY <2>1, PlacedIs
  <2>2. CASE b.subs # <<>>
    <3>1. /\ ~(i.subvariation < Len(b.subs[i.subvaried].values))
          /\ Len(b.subs[i.subvaried].values) \in Nat
          /\ i.subvariation \in Nat /\ k.subvariation \in Nat
          /\ k.subvariation <= Len(b.subs[k.subvaried].values)
      BY <2>2, PlacedIs DEF PairGoesOn
    <3>. QED  BY <3>1
  <2>. QED  BY <2>1, <2>2
<1>4. i.step \in Nat /\ k.step \in Nat /\ i.algo \in Nat /\ k.algo \in Nat
  BY PlacedIs
<1>. QED  BY <1>1, <1>2, <1>3, <1>4 DEF Ahead, Precedes

(* j is the next of the block's indices after i.                           *)
IsNext(b, i, j) ==
    /\ Placed(b, j) /\ Ahead(i, j)
    /\ IsSupported(b, i) => IsSupported(b, j)
    /\ \A k : Placed(b, k) /\ IsSupported(b, k) /\ Ahead(k, j)
                => ~Ahead(i, k)

LEMMA NextOfPair ==
    ASSUME NEW b, IsBlock(b), NEW i, Placed(b, i), PairGoesOn(b, i)
    PROVE  \E j : NextIndices(b, i) = {j} /\ IsNext(b, i, j)
<1>1. CASE i.variation < Len(b.main.values)
  <2>. DEFINE j == [i EXCEPT !.variation = @ + 1]
  <2>1. NextIndices(b, i) = {j}
    BY <1>1 DEF NextIndices
  <2>2. /\ j \in Numbers /\ j.variation = i.variation + 1
        /\ j.subvariation = i.subvariation /\ j.subvaried = i.subvaried
        /\ j.algo = i.algo /\ j.step = i.step
    BY DEF Placed, Numbers
  <2>. HIDE DEF j
  <2>3. Placed(b, j)
    BY <1>1, <2>2, PlacedIs DEF Placed
  <2>4. Ahead(i, j)
    BY <2>2, PlacedIs DEF Ahead
  <2>5. ASSUME NEW k, Placed(b, k), Ahead(k, j), Ahead(i, k) PROVE FALSE
    <3>1. /\ k.step \in Nat /\ k.algo \in Nat /\ k.subvaried \in Nat
          /\ k.subvariation \in Nat /\ k.variation \in Nat
          /\ i.step \in Nat /\ i.algo \in Nat /\ i.subvaried \in Nat
          /\ i.subvariation \in Nat /\ i.variation \in Nat
      BY <2>5, PlacedIs
    <3>. QED  BY <2>2, <2>5, <3>1 DEF Ahead
  <2>. QED  BY <2>1, <2>2, <2>3, <2>4, <2>5 DEF IsNext, IsSupported
<1>2. CASE /\ ~(i.variation < Len(b.main.values)) /\ b.subs # <<>>
           /\ i.subvariation < Len(b.subs[i.subvaried].values)
  <2>. DEFINE j == [i EXCEPT !.variation = 1, !.subvariation = @ + 1]
  <2>1. NextIndices(b, i) = {j}
    BY <1>2 DEF NextIndices
  <2>2. /\ j \in Numbers /\ j.variation = 1
        /\ j.subvariation = i.subvariation + 1 /\ j.subvaried = i.subvaried
        /\ j.algo = i.algo /\ j.step = i.step
    <3>. DEFINE m == [i EXCEPT !.variation = 1]
    <3>1. /\ m \in Numbers /\ m.variation = 1 /\ m.algo = i.algo
          /\ m.subvariation = i.subvariation /\ m.subvaried = i.subvaried
          /\ m.step = i.step
      BY DEF Placed, Numbers
    <3>2. j = [m EXCEPT !.subvariation = i.subvariation + 1]
      OBVIOUS
    <3>. HIDE DEF m, j
    <3>. QED  BY <3>1, <3>2 DEF Numbers
  <2>. HIDE DEF j
  <2>3. Placed(b, j)
    <3>1. j.subvariation \in 1..Len(b.subs[j.subvaried].values)
      BY <1>2, <2>2, PlacedIs
    <3>2. j.subvaried \in 1..Len(b.subs) /\ 1 \in 1..Len(b.main.values)
      BY <1>2, <2>2, PlacedIs
    <3>. QED  BY <1>2, <2>2, <3>1, <3>2 DEF Placed, SubPlaced
  <2>4. Ahead(i, j)
    BY <2>2, PlacedIs DEF Ahead
  <2>5. ASSUME NEW k, Placed(b, k), Ahead(k, j), Ahead(i, k) PROVE FALSE
    <3>1. /\ k.step \in Nat /\ k.algo \in Nat /\ k.subvaried \in Nat
          /\ k.subvariation \in Nat /\ k.variation \in Nat
          /\ i.step \in Nat /\ i.algo \in Nat /\ i.subvaried \in Nat
          /\ i.subvariation \in Nat /\ i.variation \in Nat
          /\ k.variation >= 1 /\ k.variation <= i.variation
      BY <1>2, <2>5, PlacedIs
    <3>. QED  BY <2>2, <2>5, <3>1 DEF Ahead
  <2>. QED  BY <2>1, <2>2, <2>3, <2>4, <2>5 DEF IsNext, IsSupported
<1>3. CASE /\ ~(i.variation < Len(b.main.values))
           /\ ~(b.subs # <<>>
                  /\ i.subvariation < Len(b.subs[i.subvaried].values))
           /\ i.subvaried < Len(b.subs)
  <2>. DEFINE j == [i EXCEPT !.variation = 1, !.subvariation = 1,
                             !.subvaried = @ + 1]
  <2>1. NextIndices(b, i) = {j}
    BY <1>3 DEF NextIndices
  <2>2. /\ j \in Numbers /\ j.variation = 1
        /\ j.subvariation = 1 /\ j.subvaried = i.subvaried + 1
        /\ j.algo = i.algo /\ j.step = i.step
    <3>. DEFINE m == [i EXCEPT !.variation = 1]
                l == [m EXCEPT !.subvariation = 1]
    <3>1. /\ m \in Numbers /\ m.variation = 1 /\ m.algo = i.algo
          /\ m.subvaried = i.subvaried /\ m.step = i.step
      BY DEF Placed, Numbers
    <3>2. j = [l EXCEPT !.subvaried = i.subvaried + 1]
      OBVIOUS
    <3>. HIDE DEF m
    <3>3. /\ l \in Numbers /\ l.variation = 1 /\ l.algo = i.algo
          /\ l.subvariation = 1 /\ l.subvaried = i.subvaried
          /\ l.step = i.step
      BY <3>1 DEF Numbers
    <3>. HIDE DEF l, j
    <3>. QED  BY <3>2, <3>3 DEF Numbers
  <2>. HIDE DEF j
  <2>3. b.subs # <<>>
    BY <1>3, PlacedIs
  <2>4. j.subvaried \in 1..Len(b.subs)
    BY <1>3, <2>2, PlacedIs
  <2>5. Placed(b, j)
    <3>1. 1 \in 1..Len(b.subs[j.subvaried].values)
      BY <2>4, ValuesOfSubs
    <3>2. 1 \in 1..Len(b.main.values)
      BY PlacedIs
    <3>. QED  BY <2>2, <2>3, <2>4, <3>1, <3>2 DEF Placed, SubPlaced
  <2>6. Ahead(i, j)
    BY <2>2, PlacedIs DEF Ahead
  <2>7. ASSUME NEW k, Placed(b, k), Ahead(k, j), Ahead(i, k) PROVE FALSE
    <3>1. /\ k.step \in Nat /\ k.algo \in Nat /\ k.subvaried \in Nat
          /\ k.subvariation \in Nat /\ k.variation \in Nat
          /\ i.step \in Nat /\ i.algo \in Nat /\ i.subvaried \in Nat
          /\ i.subvariation \in Nat /\ i.variation \in Nat
          /\ k.variation >= 1 /\ k.variation <= i.variation
          /\ k.subvariation >= 1
      BY <1>3, <2>7, PlacedIs
    <3>2. k.subvaried = i.subvaried => k.subvariation <= i.subvariation
      <4>1. /\ Len(b.subs[i.subvaried].values) \in Nat
            /\ k.subvariation <= Len(b.subs[k.subvaried].values)
        BY <2>3, <2>7, PlacedIs
      <4>. QED  BY <1>3, <2>3, <3>1, <4>1
    <3>. QED  BY <2>2, <2>7, <3>1, <3>2 DEF Ahead
  <2>. QED  BY <2>1, <2>2, <2>5, <2>6, <2>7 DEF IsNext, IsSupported
<1>. QED  BY <1>1, <1>2, <1>3 DEF PairGoesOn

LEMMA NextAfterPair ==
    ASSUME NEW b, IsBlock(b), NEW i, Placed(b, i), ~PairGoesOn(b, i)
    PROVE  \/ /\ NextIndices(b, i) = {}
              /\ \A k : Placed(b, k) /\ IsSupported(b, k) => ~Ahead(i, k)
           \/ \E j : NextIndices(b, i) = {j} /\ IsNext(b, i, j)
<1>1. ASSUME NEW k, Placed(b, k), IsSupported(b, k), Ahead(i, k)
      PROVE  <<k.step, k.algo>> \in PairsLeft(b, i)
  BY <1>1, PairsInOrder DEF PairsLeft, IsSupported
<1>2. CASE PairsLeft(b, i) = {}
  <2>1. NextIndices(b, i) = {}
    BY <1>2 DEF NextIndices, PairGoesOn
  <2>. QED  BY <1>1, <1>2, <2>1
<1>3. CASE PairsLeft(b, i) # {}
  <2>. DEFINE p == NextPair(b, i)
              j == [Start EXCEPT !.step = p[1], !.algo = p[2]]
  <2>1. NextIndices(b, i) = {j}
    BY <1>3 DEF NextIndices, PairGoesOn
  <2>2. /\ p \in PairsLeft(b, i)
        /\ \A q \in PairsLeft(b, i) : q = p \/ Precedes(p, q)
    BY <1>3, NextPairIsNext
  <2>3. p \in (1..Len(b.steps)) \X (1..Len(b.algos)) /\ p \in Supported(b)
    BY <2>2, ListedIs DEF PairsLeft, Supported, AllPairs, IsBlock, Filled
  <2>4. Len(b.steps) \in Nat /\ Len(b.algos) \in Nat
    BY ListedIs DEF IsBlock, Filled
  <2>5. p = <<p[1], p[2]>> /\ p[1] \in Nat /\ p[2] \in Nat
    BY <2>3, <2>4
  <2>6. /\ Precedes(<<i.step, i.algo>>, p)
        /\ \A q \in PairsLeft(b, i) : q = p \/ Precedes(p, q)
    BY <2>2 DEF PairsLeft
  <2>. HIDE DEF p
  <2>7. /\ j \in Numbers /\ j.variation = 1 /\ j.subvariation = 1
        /\ j.subvaried = 1 /\ j.algo = p[2] /\ j.step = p[1]
    BY <2>5 DEF Start, Numbers
  <2>. HIDE DEF j
  <2>8. Placed(b, j) /\ IsSupported(b, j)
    <3>1. Placed(b, Start)
      BY StartIsPlaced
    <3>2. SubPlaced(b, 1, 1) /\ 1 \in 1..Len(b.main.values)
      BY <3>1 DEF Placed, Start
    <3>. QED  BY <2>3, <2>5, <2>7, <3>2 DEF Placed, IsSupported
  <2>9. Ahead(i, j)
    BY <2>6, <2>7 DEF Ahead, Precedes
  <2>10. ASSUME NEW k, Placed(b, k), IsSupported(b, k), Ahead(k, j),
                Ahead(i, k)
         PROVE  FALSE
    <3>1. <<k.step, k.algo>> = p \/ Precedes(p, <<k.step, k.algo>>)
      BY <1>1, <2>6, <2>10
    <3>2. /\ k.step \in Nat /\ k.algo \in Nat /\ k.subvaried \in Nat
          /\ k.subvariation \in Nat /\ k.variation \in Nat
          /\ k.variation >= 1 /\ k.subvariation >= 1 /\ k.subvaried >= 1
      BY <2>10, PlacedIs
    <3>3. \/ k.step = p[1] /\ k.algo = p[2]
          \/ Precedes(p, <<k.step, k.algo>>)
      BY <2>5, <3>1
    <3>. QED  BY <2>5, <2>7, <2>10, <3>2, <3>3 DEF Ahead, Precedes
  <2>. QED  BY <2>1, <2>8, <2>9, <2>10 DEF IsNext
<1>. QED  BY <1>2, <1>3

-----------------------------------------------------------------------------
(* The order of the blocks: latency blocks first, each kind by its place.  *)
Passed(a) ==
    \/ arg > Len(blocks)
    \/ blocks[a].kind = "Latency" /\ blocks[arg].kind = "Debit"
    \/ blocks[a].kind = blocks[arg].kind /\ a < arg

LEMMA FirstOfIs ==
    ASSUME blocks \in Experiments, NEW kind, NEW a \in Nat,
           a <= Len(blocks) + 1
    PROVE  \/ /\ FirstOf(kind, a) = Len(blocks) + 1
              /\ \A c \in 1..Len(blocks) : blocks[c].kind = kind => c <= a
           \/ /\ FirstOf(kind, a) \in 1..Len(blocks)
              /\ a < FirstOf(kind, a)
              /\ blocks[FirstOf(kind, a)].kind = kind
              /\ \A c \in 1..Len(blocks) :
                   blocks[c].kind = kind => c <= a \/ FirstOf(kind, a) <= c
<1>1. Len(blocks) \in Nat
  BY BlocksAreTyped
<1>2. ASSUME NEW c \in 1..Len(blocks), blocks[c].kind = kind, ~(c <= a)
      PROVE  c \in OfKind(kind, a)
  BY <1>1, <1>2 DEF OfKind
<1>3. CASE OfKind(kind, a) = {}
  BY <1>2, <1>3 DEF FirstOf
<1>4. CASE OfKind(kind, a) # {}
  <2>1. OfKind(kind, a) \in SUBSET Nat
    BY <1>1 DEF OfKind
  <2>2. /\ FirstOf(kind, a) \in OfKind(kind, a)
        /\ \A c \in OfKind(kind, a) : FirstOf(kind, a) <= c
    BY <1>4, <2>1, MinIsLeast DEF FirstOf
  <2>3. /\ FirstOf(kind, a) \in 1..Len(blocks) /\ a < FirstOf(kind, a)
        /\ blocks[FirstOf(kind, a)].kind = kind
    BY <1>1, <2>2 DEF OfKind
  <2>. QED  BY <1>2, <2>2, <2>3
<1>. QED  BY <1>3, <1>4

LEMMA KindsAre ==
    ASSUME blocks \in Experiments, NEW a \in 1..Len(blocks)
    PROVE  blocks[a].kind = "Latency" \/ blocks[a].kind = "Debit"
BY BlocksAreTyped DEF IsLatency, IsDebit

LEMMA NothingPassedYet ==
    ASSUME Init, NEW a \in 1..Len(blocks)
    PROVE  ~Passed(a)
<1>1. blocks \in Experiments /\ Len(blocks) \in Nat /\ a \in Nat
  BY BlocksAreTyped DEF Init, ExpInit
<1>2. blocks[a].kind = "Latency" \/ blocks[a].kind = "Debit"
  BY <1>1, KindsAre
<1>3. CASE OfKind("Latency", 0) # {}
  <2>1. arg = FirstOf("Latency", 0)
    BY <1>3 DEF Init, ExpInit
  <2>2. arg # Len(blocks) + 1
    <3>1. OfKind("Latency", 0) \in SUBSET Nat
      BY <1>1 DEF OfKind
    <3>2. arg \in OfKind("Latency", 0)
      BY <1>3, <2>1, <3>1, MinIsLeast DEF FirstOf
    <3>. QED  BY <1>1, <3>2 DEF OfKind
  <2>3. /\ arg \in 1..Len(blocks) /\ blocks[arg].kind = "Latency"
        /\ blocks[a].kind = "Latency" => arg <= a
    BY <1>1, <2>1, <2>2, FirstOfIs
  <2>. QED  BY <1>1, <1>2, <2>3 DEF Passed
<1>4. CASE OfKind("Latency", 0) = {}
  <2>1. arg = FirstOf("Debit", 0)
    BY <1>4 DEF Init, ExpInit
  <2>2. blocks[a].kind = "Debit"
    BY <1>1, <1>2, <1>4 DEF OfKind
  <2>3. arg \in 1..Len(blocks) /\ blocks[arg].kind = "Debit" /\ arg <= a
    BY <1>1, <2>1, <2>2, FirstOfIs
  <2>. QED  BY <1>1, <2>2, <2>3 DEF Passed
<1>. QED  BY <1>3, <1>4

(* After the last index of a block, that block is passed and no other.     *)
LEMMA NextArgPasses ==
    ASSUME blocks \in Experiments, arg \in 1..Len(blocks),
           arg' = NextArg, blocks' = blocks, NEW a \in 1..Len(blocks)
    PROVE  Passed(a)' <=> Passed(a) \/ a = arg
<1>. DEFINE next == FirstOf(Block.kind, arg)
<1>1. Len(blocks) \in Nat /\ a \in Nat /\ arg \in Nat
  BY BlocksAreTyped
<1>2. /\ blocks[a].kind = "Latency" \/ blocks[a].kind = "Debit"
      /\ blocks[arg].kind = "Latency" \/ blocks[arg].kind = "Debit"
  BY KindsAre
<1>3. \/ /\ next = Len(blocks) + 1
         /\ blocks[a].kind = blocks[arg].kind => a <= arg
      \/ /\ next \in 1..Len(blocks) /\ arg < next
         /\ blocks[next].kind = blocks[arg].kind
         /\ blocks[a].kind = blocks[arg].kind => a <= arg \/ next <= a
  BY <1>1, FirstOfIs DEF Block
<1>4. CASE next \in 1..Len(blocks)
  <2>1. arg' = next
    BY <1>1, <1>4 DEF NextArg
  <2>2. next # Len(blocks) + 1 /\ ~(next > Len(blocks)) /\ next \in Nat
    BY <1>1, <1>4
  <2>3. ~(arg > Len(blocks))
    BY <1>1
  <2>. HIDE DEF next
  <2>. QED  BY <1>1, <1>2, <1>3, <2>1, <2>2, <2>3 DEF Passed
<1>5. CASE next = Len(blocks) + 1 /\ blocks[arg].kind = "Debit"
  <2>1. arg' = next
    BY <1>5 DEF NextArg, Block
  <2>2. Passed(a)'
    BY <1>1, <1>5, <2>1 DEF Passed
  <2>3. blocks[a].kind = blocks[arg].kind => a <= arg
    BY <1>1, <1>3, <1>5
  <2>. HIDE DEF next
  <2>. QED  BY <1>1, <1>2, <1>5, <2>2, <2>3 DEF Passed
<1>6. CASE next = Len(blocks) + 1 /\ blocks[arg].kind = "Latency"
  <2>1. arg' = FirstOf("Debit", 0)
    BY <1>1, <1>6 DEF NextArg, Block
  <2>2. blocks[a].kind = "Latency" => a <= arg
    BY <1>1, <1>3, <1>6
  <2>. HIDE DEF next
  <2>3. CASE arg' = Len(blocks) + 1
    <3>1. blocks[a].kind # "Debit"
      BY <1>1, <2>1, <2>3, FirstOfIs
    <3>2. Passed(a)'
      BY <1>1, <2>3 DEF Passed
    <3>. QED  BY <1>1, <1>2, <1>6, <2>2, <3>1, <3>2 DEF Passed
  <2>4. CASE /\ arg' \in 1..Len(blocks) /\ blocks[arg'].kind = "Debit"
             /\ blocks[a].kind = "Debit" => arg' <= a
    BY <1>1, <1>2, <1>6, <2>2, <2>4 DEF Passed
  <2>. QED  BY <1>1, <2>1, <2>3, <2>4, FirstOfIs
<1>. QED  BY <1>2, <1>3, <1>4, <1>5, <1>6

-----------------------------------------------------------------------------
(* What has been recorded comes before what is run.                        *)
Came(a, i) == Passed(a) \/ (a = arg /\ Ahead(i, at))

OrderInv ==
    /\ ~IsOver => Placed(Block, at)
    /\ \A r \in tested : /\ r.arg \in 1..Len(blocks) /\ r.indices \in Numbers
                         /\ Came(r.arg, r.indices)

planVars == <<blocks, arg, step, fields, algo, at, tested>>

(* A step leaves the plan as it is or is an evolution of it.               *)
LEMMA PlanSteps ==
    ASSUME StageInv, [Next]_allVars
    PROVE  \/ UNCHANGED planVars
           \/ Evolve /\ arg \in 1..Len(blocks) /\ blocks \in Experiments
<1>0. blocks \in Experiments
  BY DEF StageInv
<1>1. CASE UNCHANGED allVars
  BY <1>1 DEF allVars, expVars, planVars
<1>2. CASE \E o \in DOMAIN flight : ResultAwaited(o)
  <2>1. PICK o \in DOMAIN flight : ResultAwaited(o)
    BY <1>2
  <2>2. CASE stage[1] = "measure"
    <3>1. arg \in 1..Len(blocks)
      BY <2>2, BlocksAreTyped DEF StageInv, Turning
    <3>2. LatencyEvolve
      BY <2>1, <2>2 DEF ResultAwaited
    <3>. QED  BY <1>0, <3>1, <3>2 DEF LatencyEvolve, planVars
  <2>3. CASE stage[1] # "measure"
    BY <2>1, <2>3 DEF ResultAwaited, expVars, planVars
  <2>. QED  BY <2>2, <2>3
<1>3. CASE EndRound
  <2>1. arg \in 1..Len(blocks)
    BY <1>3, BlocksAreTyped DEF EndRound, StageInv, Turning
  <2>. QED  BY <1>0, <1>3, <2>1
            DEF EndRound, CloseRound, DebitEvolve, expVars, planVars
<1>4. CASE UNCHANGED <<expVars, stage>>
  BY <1>4 DEF expVars, planVars
<1>. QED  BY <1>1, <1>2, <1>3, <1>4, OtherSteps

LEMMA BlocksAre ==
    ASSUME blocks \in Experiments, NEW a \in 1..Len(blocks)
    PROVE  IsBlock(blocks[a])
BY BlocksAreTyped, ExperimentsAssumption

(* An evolution moves to the next index, or to the start of another block. *)
ToNextIndex == UNCHANGED <<blocks, arg>> /\ IsNext(Block, at, at')

ToNextBlock ==
    /\ blocks' = blocks /\ arg' = NextArg /\ at' = Start
    /\ \A k : Placed(Block, k) /\ IsSupported(Block, k) => ~Ahead(at, k)

LEMMA EvolveMoves ==
    ASSUME Evolve, arg \in 1..Len(blocks), blocks \in Experiments,
           Placed(Block, at)
    PROVE  \/ ToNextIndex /\ NextIndices(Block, at) # {}
           \/ ToNextBlock /\ NextIndices(Block, at) = {}
<1>1. IsBlock(Block)
  BY BlocksAre DEF Block
<1>2. CASE PairGoesOn(Block, at)
  <2>1. PICK j : NextIndices(Block, at) = {j} /\ IsNext(Block, at, j)
    BY <1>1, <1>2, NextOfPair
  <2>. QED  BY <2>1 DEF Evolve, ToNextIndex
<1>3. CASE ~PairGoesOn(Block, at)
  <2>1. CASE /\ NextIndices(Block, at) = {}
             /\ \A k : Placed(Block, k) /\ IsSupported(Block, k)
                         => ~Ahead(at, k)
    BY <2>1 DEF Evolve, ToNextBlock
  <2>2. CASE \E j : NextIndices(Block, at) = {j} /\ IsNext(Block, at, j)
    BY <2>2 DEF Evolve, ToNextIndex
  <2>. QED  BY <1>1, <1>3, <2>1, <2>2, NextAfterPair
<1>. QED  BY <1>2, <1>3

LEMMA OrderStart == Init => OrderInv
<1>. SUFFICES ASSUME Init PROVE OrderInv
  OBVIOUS
<1>1. tested = {} /\ at = Start /\ blocks \in Experiments /\ StageInv
  BY StageStart DEF Init, ExpInit
<1>2. ~IsOver => arg \in 1..Len(blocks)
  BY <1>1, BlocksAreTyped DEF IsOver, StageInv
<1>3. ~IsOver => Placed(Block, Start)
  BY <1>1, <1>2, BlocksAre, StartIsPlaced DEF Block
<1>. QED  BY <1>1, <1>3 DEF OrderInv

LEMMA OrderStep ==
    ASSUME StageInv, OrderInv, [Next]_allVars
    PROVE  OrderInv'
<1>1. CASE UNCHANGED planVars
  BY <1>1 DEF OrderInv, planVars, IsOver, Block, Came, Passed
<1>2. CASE Evolve /\ arg \in 1..Len(blocks) /\ blocks \in Experiments
  <2>0. Len(blocks) \in Nat /\ ~IsOver
    BY <1>2, BlocksAreTyped DEF IsOver
  <2>1. Placed(Block, at) /\ at \in Numbers
    BY <2>0 DEF OrderInv, Placed
  <2>2. /\ tested' = tested \cup {Result}
        /\ Result.arg = arg /\ Result.indices = at
    BY <1>2 DEF Evolve, Result
  <2>3. CASE ToNextIndex
    <3>1. Placed(Block, at') /\ at' \in Numbers /\ Ahead(at, at')
      BY <2>3 DEF ToNextIndex, IsNext, Placed
    <3>2. Block' = Block /\ \A a : Passed(a)' <=> Passed(a)
      BY <2>3 DEF ToNextIndex, Block, Passed
    <3>3. \A i \in Numbers : Ahead(i, at) => Ahead(i, at')
      BY <2>1, <3>1, AheadIsOrder
    <3>4. \A a : \A i \in Numbers :
            Came(a, i) \/ (a = arg /\ i = at) => Came(a, i)'
      BY <2>3, <3>1, <3>2, <3>3 DEF Came, ToNextIndex
    <3>5. blocks' = blocks /\ Placed(Block, at)'
      BY <2>3, <3>1, <3>2 DEF ToNextIndex, Placed, SubPlaced
    <3>6. ASSUME NEW r \in tested'
          PROVE  /\ r.arg \in 1..Len(blocks) /\ r.indices \in Numbers
                 /\ Came(r.arg, r.indices)'
      BY <1>2, <2>1, <2>2, <3>4, <3>6 DEF OrderInv
    <3>. QED  BY <3>5, <3>6 DEF OrderInv
  <2>4. CASE ToNextBlock
    <3>1. \A a \in 1..Len(blocks) : Passed(a)' <=> Passed(a) \/ a = arg
      BY <1>2, <2>4, NextArgPasses DEF ToNextBlock
    <3>2. \A a \in 1..Len(blocks) : \A i : Came(a, i) \/ a = arg => Came(a, i)'
      <4>. SUFFICES ASSUME NEW a \in 1..Len(blocks), NEW i,
                           Passed(a) \/ a = arg
                    PROVE  Came(a, i)'
        BY DEF Came
      <4>. QED  BY <3>1 DEF Came
    <3>3. ~IsOver' => Placed(Block, at)'
      <4>1. StageInv' /\ blocks' = blocks /\ at' = Start
        BY <2>4, StageStep DEF ToNextBlock
      <4>2. ~IsOver' => arg' \in 1..Len(blocks)
        BY <2>0, <4>1 DEF IsOver, StageInv
      <4>3. ~IsOver' => Placed(Block', Start)
        BY <1>2, <4>1, <4>2, BlocksAre, StartIsPlaced DEF Block
      <4>. QED  BY <4>1, <4>3 DEF Placed, SubPlaced
    <3>4. ASSUME NEW r \in tested'
          PROVE  /\ r.arg \in 1..Len(blocks) /\ r.indices \in Numbers
                 /\ Came(r.arg, r.indices)'
      BY <1>2, <2>1, <2>2, <3>2, <3>4 DEF OrderInv
    <3>. QED  BY <2>4, <3>3, <3>4 DEF OrderInv, ToNextBlock
  <2>. QED  BY <1>2, <2>1, <2>3, <2>4, EvolveMoves
<1>. QED  BY <1>1, <1>2, PlanSteps

(* Whenever the experiment moves on, it records a configuration that has   *)
(* not been recorded before.                                               *)
THEOREM NothingMeasuredTwice == Spec => NothingTwice
<1>1. Init => StageInv /\ OrderInv
  BY StageStart, OrderStart
<1>2. StageInv /\ OrderInv /\ [Next]_allVars => (StageInv /\ OrderInv)'
  BY StageStep, OrderStep
<1>3. ASSUME StageInv, OrderInv, [Next]_allVars
      PROVE  [<<arg, at>>' # <<arg, at>> => tested' # tested]_allVars
  <2>1. CASE UNCHANGED planVars
    BY <2>1 DEF planVars
  <2>2. CASE Evolve /\ arg \in 1..Len(blocks) /\ blocks \in Experiments
    <3>1. Len(blocks) \in Nat /\ ~IsOver
      BY <2>2, BlocksAreTyped DEF IsOver
    <3>2. Placed(Block, at) /\ at \in Numbers
      BY <1>3, <3>1 DEF OrderInv, Placed
    <3>3. ~Passed(arg) /\ ~Ahead(at, at)
      BY <2>2, <3>1, <3>2, AheadIsOrder, KindsAre DEF Passed
    <3>4. Result \notin tested
      <4>1. Result.arg = arg /\ Result.indices = at
        BY DEF Result
      <4>2. ~Came(Result.arg, Result.indices)
        BY <3>3, <4>1 DEF Came
      <4>. QED  BY <1>3, <4>2 DEF OrderInv
    <3>. QED  BY <2>2, <3>4 DEF Evolve
  <2>. QED  BY <1>3, <2>1, <2>2, PlanSteps
<1>. QED  BY <1>1, <1>2, <1>3, PTL DEF Spec, NothingTwice

-----------------------------------------------------------------------------
(* Everything planned is measured, if the first pairs fit.                 *)
LEMMA IndicesAre ==
    ASSUME NEW b, IsBlock(b), NEW i
    PROVE  i \in Indices(b) <=> Placed(b, i) /\ IsSupported(b, i)
<1>. DEFINE Subs == IF b.subs = <<>> THEN {<<1, 1>>}
                    ELSE UNION {{k} \X DOMAIN b.subs[k].values :
                                  k \in DOMAIN b.subs}
<1>1. /\ Len(b.main.values) \in Nat
      /\ DOMAIN b.main.values = 1..Len(b.main.values)
      /\ Len(b.steps) \in Nat /\ DOMAIN b.steps = 1..Len(b.steps)
      /\ Len(b.algos) \in Nat /\ DOMAIN b.algos = 1..Len(b.algos)
      /\ Len(b.subs) \in Nat /\ DOMAIN b.subs = 1..Len(b.subs)
  BY ListedIs DEF IsBlock, Filled
<1>2. ASSUME NEW k \in 1..Len(b.subs)
      PROVE  /\ Len(b.subs[k].values) \in Nat
             /\ DOMAIN b.subs[k].values = 1..Len(b.subs[k].values)
  <2>1. Filled(b.subs[k].values)
    BY <1>1 DEF IsBlock
  <2>. QED  BY <2>1, ListedIs DEF Filled
<1>3. \A k, v : <<k, v>> \in Subs <=> SubPlaced(b, k, v)
  BY <1>1, <1>2 DEF SubPlaced
<1>4. \A s \in Subs : s = <<s[1], s[2]>> /\ s[1] \in Nat /\ s[2] \in Nat
  BY <1>1, <1>2
<1>5. \A p \in Supported(b) :
        /\ p = <<p[1], p[2]>>
        /\ p[1] \in 1..Len(b.steps) /\ p[2] \in 1..Len(b.algos)
  BY <1>1 DEF Supported, AllPairs
<1>6. i \in Indices(b)
        <=> \E v \in DOMAIN b.main.values, p \in Supported(b), s \in Subs :
              i = [variation |-> v, subvariation |-> s[2],
                   subvaried |-> s[1], algo |-> p[2], step |-> p[1]]
  BY DEF Indices
<1>. HIDE DEF Subs
<1>7. ASSUME i \in Indices(b)
      PROVE  Placed(b, i) /\ IsSupported(b, i)
  <2>1. PICK v \in DOMAIN b.main.values, p \in Supported(b), s \in Subs :
          i = [variation |-> v, subvariation |-> s[2],
               subvaried |-> s[1], algo |-> p[2], step |-> p[1]]
    BY <1>6, <1>7
  <2>2. /\ i.variation = v /\ i.subvariation = s[2] /\ i.subvaried = s[1]
        /\ i.algo = p[2] /\ i.step = p[1]
    BY <2>1
  <2>3. i \in Numbers
    BY <1>1, <1>4, <1>5, <2>1 DEF Numbers
  <2>4. <<i.step, i.algo>> = p /\ <<i.subvaried, i.subvariation>> = s
    BY <1>4, <1>5, <2>2
  <2>5. SubPlaced(b, i.subvaried, i.subvariation)
    BY <1>3, <2>4
  <2>. QED  BY <1>1, <1>5, <2>2, <2>3, <2>4, <2>5 DEF Placed, IsSupported
<1>8. ASSUME Placed(b, i), IsSupported(b, i)
      PROVE  i \in Indices(b)
  <2>1. <<i.subvaried, i.subvariation>> \in Subs
    BY <1>3, <1>8 DEF Placed
  <2>2. /\ <<i.step, i.algo>> \in Supported(b)
        /\ i.variation \in DOMAIN b.main.values
    BY <1>1, <1>8 DEF Placed, IsSupported
  <2>3. i = [variation |-> i.variation, subvariation |-> i.subvariation,
             subvaried |-> i.subvaried, algo |-> i.algo, step |-> i.step]
    BY <1>8 DEF Placed, Numbers
  <2>4. i = [variation |-> i.variation,
             subvariation |-> <<i.subvaried, i.subvariation>>[2],
             subvaried |-> <<i.subvaried, i.subvariation>>[1],
             algo |-> <<i.step, i.algo>>[2], step |-> <<i.step, i.algo>>[1]]
    BY <2>3
  <2>. QED  BY <1>6, <2>1, <2>2, <2>4
<1>. QED  BY <1>7, <1>8

(* The settings of block a are those of its indices i.                     *)
FieldsAt(b, i) ==
    IF i = Start THEN [x \in Field |-> Value(b, x, i)] ELSE ActualFields(b, i)

SetFor(a, i) ==
    /\ step[a] = blocks[a].steps[i.step] /\ algo[a] = blocks[a].algos[i.algo]
    /\ fields[a] = FieldsAt(blocks[a], i)

SettingsInv ==
    /\ DOMAIN algo = DOMAIN blocks /\ DOMAIN fields = DOMAIN blocks
    /\ \A a \in 1..Len(blocks) :
         ~Passed(a) => SetFor(a, IF a = arg THEN at ELSE Start)

(* What is recorded is what was planned for the indices that came before.  *)
RecordsInv ==
    /\ ~IsOver => IsSupported(Block, at)
    /\ \A r \in tested :
         \E a \in 1..Len(blocks) : \E i \in Indices(blocks[a]) :
           r = Planned(a, i)
    /\ \A a \in 1..Len(blocks) : \A i \in Indices(blocks[a]) :
         Came(a, i) => Planned(a, i) \in tested

LEMMA SettingsStart ==
    ASSUME FirstPairsFit, Init
    PROVE  SettingsInv /\ RecordsInv
<1>1. /\ blocks \in Experiments /\ tested = {} /\ at = Start
      /\ arg \in 1..Len(blocks) + 1 /\ Len(blocks) \in Nat
      /\ DOMAIN blocks = 1..Len(blocks)
  BY StageStart, BlocksAreTyped DEF Init, ExpInit, StageInv
<1>2. \A a \in 1..Len(blocks) : ~Passed(a)
  BY NothingPassedYet
<1>3. ASSUME NEW a \in 1..Len(blocks) PROVE SetFor(a, Start)
  <2>1. FirstStep(blocks[a]) = blocks[a].steps[1]
    BY <1>1 DEF FirstPairsFit
  <2>2. Start.step = 1 /\ Start.algo = 1
    BY DEF Start
  <2>3. step[a] = blocks[a].steps[1] /\ algo[a] = blocks[a].algos[1]
    BY <1>1, <2>1 DEF Init, ExpInit
  <2>4. fields[a] = [x \in Field |-> Value(blocks[a], x, Start)]
    BY <1>1 DEF Init, ExpInit
  <2>. QED  BY <2>2, <2>3, <2>4 DEF SetFor, FieldsAt
<1>4. DOMAIN algo = DOMAIN blocks /\ DOMAIN fields = DOMAIN blocks
  BY DEF Init, ExpInit
<1>5. ASSUME ~IsOver PROVE arg \in 1..Len(blocks) /\ IsSupported(Block, Start)
  BY <1>1, <1>5 DEF IsOver, Block, FirstPairsFit, IsSupported, Start
<1>6. ASSUME NEW a \in 1..Len(blocks), NEW i \in Indices(blocks[a])
      PROVE  ~Came(a, i)
  BY <1>1, <1>2, BlocksAre, StartIsPlaced, IndicesAre DEF Came
<1>. QED  BY <1>1, <1>3, <1>4, <1>5, <1>6 DEF SettingsInv, RecordsInv

LEMMA SettingsStep ==
    ASSUME FirstPairsFit, StageInv, OrderInv, SettingsInv, [Next]_allVars
    PROVE  SettingsInv'
<1>1. CASE UNCHANGED planVars
  BY <1>1 DEF SettingsInv, planVars, Passed, SetFor
<1>2. CASE Evolve /\ arg \in 1..Len(blocks) /\ blocks \in Experiments
  <2>0. /\ Len(blocks) \in Nat /\ ~IsOver /\ DOMAIN blocks = 1..Len(blocks)
        /\ blocks' = blocks
    BY <1>2, BlocksAreTyped DEF IsOver, Evolve
  <2>1. Placed(Block, at)
    BY <2>0 DEF OrderInv
  <2>2. /\ DOMAIN algo' = DOMAIN blocks /\ DOMAIN fields' = DOMAIN blocks
        /\ \A a \in 1..Len(blocks) :
             a # arg => algo'[a] = algo[a] /\ fields'[a] = fields[a]
    BY <1>2 DEF Evolve, SettingsInv
  <2>3. CASE ToNextIndex /\ NextIndices(Block, at) # {}
    <3>1. \A a : Passed(a)' <=> Passed(a)
      BY <2>3 DEF ToNextIndex, Passed
    <3>2. at' # Start
      <4>1. Ahead(at, at') /\ ~Ahead(at, Start)
        BY <1>2, <2>1, <2>3, BlocksAre, StartIsPlaced
           DEF ToNextIndex, IsNext, Block
      <4>. QED  BY <4>1
    <3>3. /\ step'[arg] = Block.steps[at'.step]
          /\ algo'[arg] = Block.algos[at'.algo]
          /\ fields'[arg] = ActualFields(Block, at')
      BY <1>2, <2>0 DEF Evolve, SettingsInv
    <3>4. SetFor(arg, at)'
      BY <2>0, <2>3, <3>2, <3>3 DEF SetFor, FieldsAt, Block, ToNextIndex
    <3>5. ASSUME NEW a \in 1..Len(blocks), a # arg, ~Passed(a)
          PROVE  SetFor(a, Start)'
      <4>1. step'[a] = step[a]
        BY <1>2, <2>0, <2>3, <3>5 DEF Evolve
      <4>. QED  BY <2>0, <2>2, <3>5, <4>1 DEF SettingsInv, SetFor
    <3>6. ASSUME NEW a \in 1..Len(blocks)', ~Passed(a)'
          PROVE  SetFor(a, IF a = arg THEN at ELSE Start)'
      BY <2>0, <2>3, <3>1, <3>4, <3>5, <3>6 DEF ToNextIndex
    <3>. QED  BY <2>0, <2>2, <3>6 DEF SettingsInv
  <2>4. CASE ToNextBlock /\ NextIndices(Block, at) = {}
    <3>1. \A a \in 1..Len(blocks) : Passed(a)' <=> Passed(a) \/ a = arg
      BY <1>2, <2>4, NextArgPasses DEF ToNextBlock
    <3>2. ASSUME NEW a \in 1..Len(blocks), a # arg, ~Passed(a)
          PROVE  SetFor(a, Start)'
      <4>1. SetFor(a, Start)
        BY <3>2 DEF SettingsInv
      <4>2. step'[a] \in {step[a], FirstStep(blocks[a])}
        BY <1>2, <2>0, <3>2 DEF Evolve
      <4>3. FirstStep(blocks[a]) = blocks[a].steps[1] /\ Start.step = 1
        BY <1>2, <2>0 DEF FirstPairsFit, Start
      <4>4. step'[a] = step[a]
        BY <4>1, <4>2, <4>3 DEF SetFor
      <4>. QED  BY <2>0, <2>2, <3>2, <4>1, <4>4 DEF SetFor
    <3>3. ASSUME NEW a \in 1..Len(blocks)', ~Passed(a)'
          PROVE  SetFor(a, IF a = arg THEN at ELSE Start)'
      BY <2>0, <2>4, <3>1, <3>2, <3>3 DEF ToNextBlock
    <3>. QED  BY <2>0, <2>2, <3>3 DEF SettingsInv
  <2>. QED  BY <1>2, <2>1, <2>3, <2>4, EvolveMoves
<1>. QED  BY <1>1, <1>2, PlanSteps

LEMMA RecordsStep ==
    ASSUME FirstPairsFit, StageInv, OrderInv, SettingsInv, RecordsInv,
           [Next]_allVars
    PROVE  RecordsInv'
<1>1. CASE UNCHANGED planVars
  BY <1>1 DEF RecordsInv, planVars, IsOver, Block, Came, Passed, Planned
<1>2. CASE Evolve /\ arg \in 1..Len(blocks) /\ blocks \in Experiments
  <2>0. /\ Len(blocks) \in Nat /\ ~IsOver /\ DOMAIN blocks = 1..Len(blocks)
        /\ blocks' = blocks /\ IsBlock(Block)
    BY <1>2, BlocksAreTyped, BlocksAre DEF IsOver, Evolve, Block
  <2>1. Placed(Block, at) /\ IsSupported(Block, at) /\ at \in Indices(Block)
    BY <2>0, IndicesAre DEF OrderInv, RecordsInv
  <2>2. tested' = tested \cup {Planned(arg, at)}
    <3>1. ~Passed(arg)
      BY <1>2, <2>0, KindsAre DEF Passed
    <3>2. SetFor(arg, at)
      BY <1>2, <3>1 DEF SettingsInv
    <3>3. Result = Planned(arg, at)
      BY <3>2 DEF SetFor, FieldsAt, Result, Planned, Block
    <3>. QED  BY <1>2, <3>3 DEF Evolve
  <2>3. \A a, i : Planned(a, i)' = Planned(a, i)
    BY <2>0 DEF Planned
  <2>4. ASSUME NEW r \in tested'
        PROVE  \E a \in 1..Len(blocks) : \E i \in Indices(blocks[a]) :
                 r = Planned(a, i)
    <3>1. CASE r \in tested
      BY <3>1 DEF RecordsInv
    <3>2. CASE r = Planned(arg, at)
      BY <1>2, <2>1, <3>2 DEF Block
    <3>. QED  BY <2>2, <2>4, <3>1, <3>2
  <2>5. ASSUME NEW a \in 1..Len(blocks), NEW i \in Indices(blocks[a]),
               Came(a, i) \/ (a = arg /\ i = at)
        PROVE  Planned(a, i) \in tested'
    BY <2>2, <2>5 DEF RecordsInv
  <2>6. ASSUME NEW i \in Indices(Block), ~Ahead(at, i)
        PROVE  i = at \/ Came(arg, i)
    <3>1. i \in Numbers /\ at \in Numbers
      BY <2>0, <2>1, IndicesAre DEF Placed
    <3>. QED  BY <2>6, <3>1, AheadIsOrder DEF Came
  <2>7. CASE ToNextIndex
    <3>1. IsSupported(Block, at')
      BY <2>1, <2>7 DEF ToNextIndex, IsNext
    <3>2. ASSUME NEW a \in 1..Len(blocks), NEW i \in Indices(blocks[a]),
                 Came(a, i)'
          PROVE  Came(a, i) \/ (a = arg /\ i = at)
      <4>1. Passed(a) \/ (a = arg /\ Ahead(i, at'))
        BY <2>7, <3>2 DEF Came, Passed, ToNextIndex
      <4>2. CASE a = arg /\ Ahead(i, at')
        <5>1. Placed(Block, i) /\ IsSupported(Block, i) /\ i \in Indices(Block)
          BY <2>0, <4>2, IndicesAre DEF Block
        <5>2. ~Ahead(at, i)
          BY <2>7, <4>2, <5>1 DEF ToNextIndex, IsNext
        <5>. QED  BY <2>6, <4>2, <5>1, <5>2
      <4>. QED  BY <4>1, <4>2 DEF Came
    <3>3. IsSupported(Block, at)'
      BY <2>7, <3>1 DEF ToNextIndex, Block, IsSupported
    <3>. QED  BY <2>0, <2>3, <2>4, <2>5, <3>2, <3>3 DEF RecordsInv
  <2>8. CASE ToNextBlock
    <3>1. \A a \in 1..Len(blocks) : Passed(a)' <=> Passed(a) \/ a = arg
      BY <1>2, <2>8, NextArgPasses DEF ToNextBlock
    <3>2. ASSUME NEW a \in 1..Len(blocks), NEW i \in Indices(blocks[a]),
                 Came(a, i)'
          PROVE  Came(a, i) \/ (a = arg /\ i = at)
      <4>1. ~Ahead(i, Start)
        BY <1>2, BlocksAre, IndicesAre, StartIsPlaced
      <4>2. Passed(a) \/ a = arg
        BY <2>8, <3>1, <3>2, <4>1 DEF Came, ToNextBlock
      <4>3. CASE a = arg
        <5>1. Placed(Block, i) /\ IsSupported(Block, i) /\ i \in Indices(Block)
          BY <2>0, <4>3, IndicesAre DEF Block
        <5>2. ~Ahead(at, i)
          BY <2>8, <5>1 DEF ToNextBlock
        <5>. QED  BY <2>6, <4>3, <5>1, <5>2
      <4>. QED  BY <4>2, <4>3 DEF Came
    <3>3. ~IsOver' => IsSupported(Block, at)'
      <4>1. StageInv' /\ at' = Start
        BY <2>8, StageStep DEF ToNextBlock
      <4>2. ~IsOver' => arg' \in 1..Len(blocks)
        BY <2>0, <4>1 DEF IsOver, StageInv
      <4>3. ~IsOver' => IsSupported(Block', Start)
        BY <1>2, <2>0, <4>2 DEF Block, FirstPairsFit, IsSupported, Start
      <4>. QED  BY <4>1, <4>3 DEF IsSupported
    <3>. QED  BY <2>0, <2>3, <2>4, <2>5, <3>2, <3>3 DEF RecordsInv
  <2>. QED  BY <1>2, <2>1, <2>7, <2>8, EvolveMoves
<1>. QED  BY <1>1, <1>2, PlanSteps

(* An experiment that is over has measured each of its blocks at each of   *)
(* its indices, under the step, the algo and the fields of these indices,  *)
(* and nothing else.                                                       *)
THEOREM MeasuredAsPlanned ==
    ASSUME FirstPairsFit
    PROVE  Spec => []TestedAsPlanned
<1>1. Init => StageInv /\ OrderInv /\ SettingsInv /\ RecordsInv
  BY StageStart, OrderStart, SettingsStart
<1>2. StageInv /\ OrderInv /\ SettingsInv /\ RecordsInv /\ [Next]_allVars
        => (StageInv /\ OrderInv /\ SettingsInv /\ RecordsInv)'
  BY StageStep, OrderStep, SettingsStep, RecordsStep
<1>3. StageInv /\ RecordsInv => TestedAsPlanned
  <2>. SUFFICES ASSUME StageInv, RecordsInv, IsOver
                PROVE  tested =
                         UNION {{Planned(a, i) : i \in Indices(blocks[a])} :
                                  a \in DOMAIN blocks}
    BY DEF TestedAsPlanned
  <2>1. DOMAIN blocks = 1..Len(blocks)
    BY BlocksAreTyped DEF StageInv
  <2>2. \A a, i : Came(a, i)
    BY DEF Came, Passed, IsOver
  <2>. QED  BY <2>1, <2>2 DEF RecordsInv
<1>. QED  BY <1>1, <1>2, <1>3, PTL DEF Spec

-----------------------------------------------------------------------------
(* Where the experiment stops.  The operation that is awaited is in        *)
(* flight, and none has had an output of a node that does not run it.      *)
FlyingInv ==
    /\ FlightInv
    /\ awaited # 0 => awaited \in DOMAIN flight
    /\ \A o \in DOMAIN flight : flight[o].done \subseteq Nodes(o)

LEMMA FlyingStart == Init => FlyingInv
BY DEF Init, FlyingInv, FlightInv

LEMMA NewOperationFlies ==
    ASSUME FlyingInv, NEW o \in Unused, NewOperation(o), awaited' \in {awaited, o}
    PROVE  FlyingInv'
<1>1. /\ o # 0 /\ DOMAIN flight' = DOMAIN flight \cup {o}
      /\ \A p \in DOMAIN flight : flight'[p] = flight[p]
      /\ flight'[o] = [job |-> Job, busy |-> {}, done |-> {}]
  BY NewOperationStarts
<1>2. FlightInv'
  BY <1>1 DEF FlyingInv, FlightInv
<1>. QED  BY <1>1, <1>2 DEF FlyingInv, Nodes

LEMMA ForgottenFlies ==
    ASSUME FlyingInv, NEW o \in DOMAIN flight, Forget(o),
           awaited' = 0
    PROVE  FlyingInv'
BY DEF FlyingInv, FlightInv, Forget, Nodes

LEMMA FlyingStep == FlyingInv /\ [Next]_allVars => FlyingInv'
<1>. SUFFICES ASSUME FlyingInv, [Next]_allVars PROVE FlyingInv'
  OBVIOUS
<1>1. CASE StartAwaited
  BY <1>1, NewOperationFlies DEF StartAwaited
<1>2. CASE Spam
  BY <1>2, NewOperationFlies DEF Spam
<1>3. CASE OpenRound \/ EndRound \/ UNCHANGED allVars
  BY <1>3 DEF OpenRound, EndRound, allVars, runVars, FlyingInv, FlightInv, Nodes
<1>4. ASSUME NEW o \in DOMAIN flight, NEW i \in Nodes(o), NewProcess(i, o)
      PROVE  FlyingInv'
  <2>1. /\ DOMAIN flight' = DOMAIN flight /\ awaited' = awaited
        /\ \A p \in DOMAIN flight : /\ DOMAIN flight'[p] = DOMAIN flight[p]
                                    /\ flight'[p].job = flight[p].job
                                    /\ flight'[p].done = flight[p].done
    BY <1>4 DEF NewProcess, FlyingInv, FlightInv
  <2>. QED  BY <2>1 DEF FlyingInv, FlightInv, Nodes
<1>5. ASSUME NEW o \in DOMAIN flight, NEW i \in Nodes(o), HandleNodeOutput(i, o)
      PROVE  FlyingInv'
  <2>1. /\ DOMAIN flight' = DOMAIN flight /\ awaited' = awaited
        /\ \A p \in DOMAIN flight :
             /\ DOMAIN flight'[p] = DOMAIN flight[p]
             /\ flight'[p].job = flight[p].job
             /\ flight'[p].done = IF p = o THEN flight[p].done \cup {i}
                                  ELSE flight[p].done
    BY <1>5 DEF HandleNodeOutput, Tell, FlyingInv, FlightInv
  <2>. QED  BY <1>5, <2>1 DEF FlyingInv, FlightInv, Nodes
<1>6. ASSUME NEW o \in DOMAIN flight, ResultAwaited(o) \/ ResultCounted(o)
      PROVE  FlyingInv'
  BY <1>6, ForgottenFlies DEF ResultAwaited, ResultCounted
<1>. QED  BY <1>1, <1>2, <1>3, <1>4, <1>5, <1>6 DEF Next

(* Every operation in flight would have ended, so that there is none: the  *)
(* interface awaits nothing and may start one.                             *)
LEMMA NothingFlies ==
    ASSUME FlyingInv, Quiet, ~missed
    PROVE  DOMAIN flight = {} /\ awaited = 0
<1>1. ASSUME NEW o \in DOMAIN flight PROVE FALSE
  <2>1. Nodes(o) \subseteq flight[o].done
    BY <1>1 DEF Quiet, Panics
  <2>. QED  BY <1>1, <2>1 DEF Quiet, Ended, FlyingInv
<1>. QED  BY <1>1 DEF FlyingInv

(* The rounds of the debits.  Until the first of them has ended no more    *)
(* outputs can be counted than operations were started in it: nothing is   *)
(* in flight when it begins.                                               *)
Counts == [open : BOOLEAN, counter : 0..MaxCount, started : 0..MaxCount,
           prev : Nat]

Awaited == IF awaited = 0 THEN {} ELSE {awaited}

CountInv ==
    IF stage[1] = "spam"
    THEN \/ round.started = MaxCount
         \/ Cardinality(DOMAIN flight) + round.counter <= round.started
    ELSE round.counter = 0 /\ round.started = 0 /\ DOMAIN flight = Awaited

RoundInv ==
    /\ round \in Counts /\ IsFiniteSet(DOMAIN flight)
    /\ ~AfterARound => stage[1] # "panicked" /\ CountInv

LEMMA RoundStart == Init => RoundInv
<1>1. Init => round \in Counts
  BY BoundsAssumption DEF Init, NoRound, Counts
<1>2. Init => DOMAIN flight = {} /\ awaited = 0 /\ stage[1] = "warmup"
  BY DEF Init
<1>3. Init => round.counter = 0 /\ round.started = 0
  BY DEF Init, NoRound
<1>. QED  BY <1>1, <1>2, <1>3, FS_EmptySet DEF RoundInv, CountInv, Awaited

(* What has been measured stays, and a block keeps its kind.               *)
LEMMA MeasuresStay ==
    ASSUME StageInv, [Next]_allVars
    PROVE  blocks' = blocks /\ tested \subseteq tested'
BY PlanSteps DEF Evolve, planVars

(* A round that has ended is never undone: either its count is kept, or a  *)
(* measure of the debit has been recorded.                                 *)
LEMMA EndedRound ==
    ASSUME StageInv, RoundInv, EndRound, ~AfterARound
    PROVE  AfterARound'
<1>1. /\ round.counter > 0 /\ stage[1] = "spam" /\ round.prev = 0
      /\ round.counter \in 0..MaxCount /\ round.started \in 0..MaxCount
  BY DEF EndRound, RoundInv, Counts, AfterARound
<1>2. IsFiniteSet(DOMAIN flight) /\ CountInv
  BY DEF RoundInv
<1>3. Cardinality(DOMAIN flight) \in Nat
  BY <1>2, FS_CardinalityType
<1>4. ~(round.counter > round.started)
  BY <1>1, <1>2, <1>3, BoundsAssumption DEF CountInv
<1>5. ~(round.prev > round.counter)
  BY <1>1
<1>6. round' = [NoRound EXCEPT !.prev = round.counter]
  BY <1>4, <1>5 DEF EndRound, Underflows, CloseRound
<1>7. round'.prev = round.counter
  BY <1>6 DEF NoRound
<1>. QED  BY <1>1, <1>7 DEF AfterARound

LEMMA RoundsStay ==
    ASSUME StageInv, RoundInv, [Next]_allVars, AfterARound
    PROVE  AfterARound'
<1>1. blocks' = blocks /\ tested \subseteq tested'
  BY MeasuresStay
<1>2. CASE \E r \in tested : blocks[r.arg].kind = "Debit"
  BY <1>1, <1>2 DEF AfterARound
<1>3. CASE round.prev > 0
  <2>1. CASE round' = round
    BY <1>3, <2>1 DEF AfterARound
  <2>2. CASE round'.prev = round.prev
    BY <1>3, <2>2 DEF AfterARound
  <2>3. CASE EndRound
    <3>1. CASE round.prev > round.counter /\ CloseRound
      <4>1. Result \in tested' /\ IsDebit(arg)
        BY <2>3, <3>1 DEF CloseRound, DebitEvolve, Evolve, EndRound, StageInv
      <4>2. Result.arg = arg
        BY DEF Result
      <4>. QED  BY <1>1, <4>1, <4>2 DEF AfterARound, IsDebit
    <3>2. CASE ~(round.prev > round.counter) /\ CloseRound
      <4>1. round'.prev = round.counter
        BY <3>2 DEF CloseRound, NoRound
      <4>. QED  BY <2>3, <4>1 DEF AfterARound, EndRound
    <3>. QED  BY <2>1, <2>3, <3>1, <3>2 DEF EndRound
  <2>4. CASE Spam \/ OpenRound
    <3>1. round'.prev = round.prev
      BY <2>4 DEF Spam, OpenRound, RoundInv, Counts
    <3>. QED  BY <2>2, <3>1
  <2>5. CASE \E o \in DOMAIN flight : ResultCounted(o)
    <3>1. round'.prev = round.prev
      BY <2>5 DEF ResultCounted, RoundInv, Counts
    <3>. QED  BY <2>2, <3>1
  <2>6. CASE UNCHANGED allVars \/ StartAwaited
    BY <2>1, <2>6 DEF StartAwaited, allVars, runVars
  <2>7. CASE \E o \in DOMAIN flight :
               \/ \E i \in Nodes(o) : NewProcess(i, o) \/ HandleNodeOutput(i, o)
               \/ ResultAwaited(o)
    BY <2>1, <2>7 DEF NewProcess, HandleNodeOutput, Tell, ResultAwaited
  <2>. QED  BY <2>3, <2>4, <2>5, <2>6, <2>7 DEF Next
<1>. QED  BY <1>2, <1>3 DEF AfterARound

(* How the steps that start and end operations change their number.        *)
LEMMA OneMore ==
    ASSUME IsFiniteSet(DOMAIN flight), NEW o \in Unused, NewOperation(o)
    PROVE  /\ IsFiniteSet(DOMAIN flight')
           /\ Cardinality(DOMAIN flight') = Cardinality(DOMAIN flight) + 1
<1>1. o \notin DOMAIN flight /\ DOMAIN flight' = DOMAIN flight \cup {o}
  BY NewOperationStarts
<1>. QED  BY <1>1, FS_AddElement

LEMMA OneLess ==
    ASSUME IsFiniteSet(DOMAIN flight), NEW o \in DOMAIN flight, Forget(o)
    PROVE  /\ IsFiniteSet(DOMAIN flight')
           /\ Cardinality(DOMAIN flight') = Cardinality(DOMAIN flight) - 1
<1>1. DOMAIN flight' = DOMAIN flight \ {o}
  BY DEF Forget
<1>. QED  BY <1>1, FS_RemoveElement

LEMMA CountsStay ==
    ASSUME RoundInv, Spam \/ OpenRound \/ EndRound
                     \/ \E o \in DOMAIN flight : ResultCounted(o)
    PROVE  round' \in Counts
<1>1. /\ round \in Counts /\ MaxCount \in Nat /\ MaxCount >= 1
      /\ round.started \in 0..MaxCount /\ round.counter \in 0..MaxCount
  BY BoundsAssumption DEF RoundInv, Counts
<1>2. CASE Spam
  <2>1. (IF round.started < MaxCount THEN round.started + 1
         ELSE round.started) \in 0..MaxCount
    BY <1>1
  <2>. QED  BY <1>1, <1>2, <2>1 DEF Spam, Counts
<1>3. CASE OpenRound
  <2>1. 0 \in 0..MaxCount
    BY <1>1
  <2>. QED  BY <1>1, <1>3, <2>1 DEF OpenRound, Counts
<1>4. CASE EndRound
  <2>1. 0 \in 0..MaxCount /\ round.counter \in Nat
    BY <1>1
  <2>2. NoRound \in Counts /\ [NoRound EXCEPT !.prev = round.counter] \in Counts
    BY <2>1 DEF NoRound, Counts
  <2>3. round' \in {round, NoRound, [NoRound EXCEPT !.prev = round.counter]}
    BY <1>4 DEF EndRound, CloseRound
  <2>. QED  BY <1>1, <2>2, <2>3
<1>5. CASE \E o \in DOMAIN flight : ResultCounted(o)
  <2>1. round.counter < MaxCount => round.counter + 1 \in 0..MaxCount
    BY <1>1
  <2>. QED  BY <1>1, <1>5, <2>1 DEF ResultCounted, Counts
<1>. QED  BY <1>2, <1>3, <1>4, <1>5

LEMMA SpamCounts ==
    ASSUME RoundInv, CountInv, Spam
    PROVE  CountInv'
<1>1. PICK o \in Unused : NewOperation(o)
  BY DEF Spam
<1>2. /\ stage[1] = "spam" /\ stage' = stage /\ round \in Counts
      /\ IsFiniteSet(DOMAIN flight)
  BY DEF Spam, RoundInv
<1>3. /\ Cardinality(DOMAIN flight') = Cardinality(DOMAIN flight) + 1
      /\ Cardinality(DOMAIN flight) \in Nat
  BY <1>1, <1>2, OneMore, FS_CardinalityType
<1>4. /\ round'.counter = round.counter
      /\ round'.started = IF round.started < MaxCount THEN round.started + 1
                          ELSE round.started
      /\ round.counter \in Nat /\ round.started \in 0..MaxCount
      /\ MaxCount \in Nat
  BY <1>2, BoundsAssumption DEF Spam, Counts
<1>5. \/ round.started = MaxCount
      \/ Cardinality(DOMAIN flight) + round.counter <= round.started
  BY <1>2 DEF CountInv
<1>6. \/ round'.started = MaxCount
      \/ Cardinality(DOMAIN flight') + round'.counter <= round'.started
  BY <1>3, <1>4, <1>5
<1>. QED  BY <1>2, <1>6 DEF CountInv

LEMMA CountedCounts ==
    ASSUME RoundInv, CountInv, NEW o \in DOMAIN flight, ResultCounted(o)
    PROVE  CountInv'
<1>1. /\ stage' = stage /\ awaited' = awaited /\ awaited = 0 /\ Forget(o)
      /\ round \in Counts /\ IsFiniteSet(DOMAIN flight)
  BY DEF ResultCounted, RoundInv
<1>2. /\ Cardinality(DOMAIN flight') = Cardinality(DOMAIN flight) - 1
      /\ Cardinality(DOMAIN flight) \in Nat
      /\ Cardinality(DOMAIN flight') \in Nat
  BY <1>1, OneLess, FS_CardinalityType
<1>3. stage[1] = "spam"
  BY <1>1 DEF CountInv, Awaited
<1>4. /\ round'.started = round.started
      /\ round'.counter \in {round.counter, round.counter + 1}
      /\ round.counter \in Nat /\ round.started \in Nat
  BY <1>1 DEF ResultCounted, Counts
<1>5. \/ round.started = MaxCount
      \/ Cardinality(DOMAIN flight) + round.counter <= round.started
  BY <1>3 DEF CountInv
<1>6. \/ round'.started = MaxCount
      \/ Cardinality(DOMAIN flight') + round'.counter <= round'.started
  BY <1>2, <1>4, <1>5
<1>. QED  BY <1>1, <1>3, <1>6 DEF CountInv

LEMMA OpenedCounts ==
    ASSUME RoundInv, CountInv, OpenRound
    PROVE  CountInv'
<1>1. /\ stage[1] = "spam" /\ UNCHANGED <<stage, flight>> /\ round \in Counts
      /\ IsFiniteSet(DOMAIN flight)
  BY DEF OpenRound, RoundInv
<1>2. Cardinality(DOMAIN flight) \in Nat
  BY <1>1, FS_CardinalityType
<1>3. /\ round'.started = round.started /\ round'.counter = 0
      /\ round.counter \in Nat /\ round.started \in Nat
  BY <1>1 DEF OpenRound, Counts
<1>4. \/ round.started = MaxCount
      \/ Cardinality(DOMAIN flight) + round.counter <= round.started
  BY <1>1 DEF CountInv
<1>5. \/ round'.started = MaxCount
      \/ Cardinality(DOMAIN flight) + round'.counter <= round'.started
  BY <1>2, <1>3, <1>4
<1>. QED  BY <1>1, <1>5 DEF CountInv

LEMMA AwaitedCounts ==
    ASSUME StageInv, RoundInv, CountInv, NEW o \in DOMAIN flight,
           ResultAwaited(o)
    PROVE  CountInv' /\ stage'[1] # "panicked"
<1>1. stage[1] \in Waiting /\ stage[1] # "spam" /\ awaited # 0
  BY DEF ResultAwaited, StageInv, Waiting
<1>2. round.counter = 0 /\ round.started = 0 /\ DOMAIN flight = {o}
  BY <1>1 DEF CountInv, Awaited
<1>3. DOMAIN flight' = {} /\ awaited' = 0 /\ round' = round
  BY <1>2 DEF ResultAwaited, Forget
<1>4. Cardinality(DOMAIN flight') = 0
  BY <1>3, FS_EmptySet
<1>5. Cardinality(DOMAIN flight') + round'.counter <= round'.started
  BY <1>2, <1>3, <1>4
<1>6. CountInv'
  BY <1>2, <1>3, <1>5 DEF CountInv, Awaited
<1>7. stage'[1] # "panicked"
  BY <1>1 DEF ResultAwaited, NextStage, NextTurn, Evaluate, Waiting
<1>. QED  BY <1>6, <1>7

LEMMA StartedCounts ==
    ASSUME StageInv, CountInv, StartAwaited
    PROVE  CountInv'
<1>1. PICK o \in Unused : NewOperation(o) /\ awaited' = o
  BY DEF StartAwaited
<1>2. /\ awaited = 0 /\ stage[1] # "spam" /\ UNCHANGED <<stage, round>>
  BY DEF StartAwaited
<1>3. o # 0 /\ DOMAIN flight' = DOMAIN flight \cup {o}
  BY <1>1, NewOperationStarts
<1>4. DOMAIN flight = {}
  BY <1>2 DEF CountInv, Awaited
<1>. QED  BY <1>1, <1>2, <1>3, <1>4 DEF CountInv, Awaited

LEMMA RoundStep ==
    ASSUME StageInv, RoundInv, [Next]_allVars
    PROVE  RoundInv'
<1>1. ~AfterARound' => ~AfterARound
  BY RoundsStay
<1>2. ~AfterARound => stage[1] # "panicked" /\ CountInv
  BY DEF RoundInv
<1>3. round \in Counts /\ IsFiniteSet(DOMAIN flight)
  BY DEF RoundInv
<1>4. CASE UNCHANGED allVars
  <2>1. UNCHANGED <<stage, flight, awaited, round>>
    BY <1>4 DEF allVars, runVars
  <2>. QED  BY <1>1, <1>2, <1>3, <2>1 DEF RoundInv, CountInv, Awaited
<1>5. CASE StartAwaited
  <2>1. UNCHANGED <<stage, round>> /\ IsFiniteSet(DOMAIN flight')
    BY <1>3, <1>5, OneMore DEF StartAwaited
  <2>. QED  BY <1>1, <1>2, <1>3, <1>5, <2>1, StartedCounts DEF RoundInv
<1>6. CASE Spam
  <2>1. stage' = stage /\ IsFiniteSet(DOMAIN flight')
    BY <1>3, <1>6, OneMore DEF Spam
  <2>. QED  BY <1>1, <1>2, <1>6, <2>1, SpamCounts, CountsStay DEF RoundInv
<1>7. CASE OpenRound
  <2>1. UNCHANGED <<stage, flight>>
    BY <1>7 DEF OpenRound
  <2>. QED  BY <1>1, <1>2, <1>3, <1>7, <2>1, OpenedCounts, CountsStay
            DEF RoundInv
<1>8. CASE EndRound
  <2>1. flight' = flight
    BY <1>8 DEF EndRound
  <2>. QED  BY <1>1, <1>3, <1>8, <2>1, EndedRound, CountsStay DEF RoundInv
<1>9. ASSUME NEW o \in DOMAIN flight, NEW i \in Nodes(o),
             NewProcess(i, o) \/ HandleNodeOutput(i, o)
      PROVE  RoundInv'
  <2>1. /\ UNCHANGED <<stage, awaited, round>>
        /\ DOMAIN flight' = DOMAIN flight
    BY <1>9 DEF NewProcess, HandleNodeOutput, Tell
  <2>. QED  BY <1>1, <1>2, <1>3, <2>1 DEF RoundInv, CountInv, Awaited
<1>10. ASSUME NEW o \in DOMAIN flight, ResultAwaited(o)
       PROVE  RoundInv'
  <2>1. round' = round /\ IsFiniteSet(DOMAIN flight')
    BY <1>3, <1>10, OneLess DEF ResultAwaited
  <2>. QED  BY <1>1, <1>2, <1>3, <1>10, <2>1, AwaitedCounts DEF RoundInv
<1>11. ASSUME NEW o \in DOMAIN flight, ResultCounted(o)
       PROVE  RoundInv'
  <2>1. stage' = stage /\ IsFiniteSet(DOMAIN flight')
    BY <1>3, <1>11, OneLess DEF ResultCounted
  <2>2. round' \in Counts
    BY <1>11, CountsStay
  <2>. QED  BY <1>1, <1>2, <1>11, <2>1, <2>2, CountedCounts DEF RoundInv
<1>. QED  BY <1>4, <1>5, <1>6, <1>7, <1>8, <1>9, <1>10, <1>11 DEF Next

(* interface/src/main.rs: an experiment that can do nothing more is over,  *)
(* unless a node has panicked for want of a share set, or the interface    *)
(* over the outputs that an earlier round has left: in the first round of  *)
(* the first debit it never counts more than it has started.               *)
THEOREM ExperimentsEnd == Spec => []ExperimentEnds
<1>1. FlyingInv /\ RoundInv => ExperimentEnds
  <2>. SUFFICES ASSUME FlyingInv, RoundInv, Quiet, ~missed,
                       stage[1] # "over"
                PROVE  stage[1] = "panicked" /\ AfterARound
    BY DEF ExperimentEnds
  <2>1. DOMAIN flight = {} /\ awaited = 0
    BY NothingFlies
  <2>2. Cardinality(DOMAIN flight) = 0
    BY <2>1, FS_EmptySet
  <2>3. stage[1] = "panicked"
    BY <2>1, <2>2, BoundsAssumption DEF Quiet
  <2>. QED  BY <2>3 DEF RoundInv
<1>2. Init => StageInv /\ FlyingInv /\ RoundInv
  BY StageStart, FlyingStart, RoundStart
<1>3. StageInv /\ FlyingInv /\ RoundInv /\ [Next]_allVars
        => (StageInv /\ FlyingInv /\ RoundInv)'
  BY StageStep, FlyingStep, RoundStep
<1>. QED  BY <1>1, <1>2, <1>3, PTL DEF Spec
=============================================================================
