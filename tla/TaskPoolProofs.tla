--------------------------- MODULE TaskPoolProofs ---------------------------
(***************************************************************************)
(* Proofs about TaskPool, for any tasks, cleaners, counts and bounds.      *)
(***************************************************************************)
EXTENDS TaskPool, SequenceTheorems, TLAPS

(* What a step does to the counters of messages, and nothing else about    *)
(* them is needed for the type: they stay natural and their sum bounded.   *)
LEMMA ForgetIsTyped ==
    ASSUME TypeOK, Forget, woken' = woken, delivered' = delivered
    PROVE  /\ states' \in [Task -> {"none", "running", "closed"}]
           /\ waiting' \in [Task -> Nat] /\ refused' \in [Task -> Nat]
           /\ \A i \in Task : Mail(i)' <= MaxMail
<1>1. \A i \in Task : waiting'[i] = 0 /\ refused'[i] = refused[i] + waiting[i]
  BY DEF Forget, Zero
<1>2. \A i \in Task : /\ waiting[i] \in Nat /\ woken[i] \in Nat
                      /\ delivered[i] \in Nat /\ refused[i] \in Nat
  BY DEF TypeOK
<1>3. \A i \in Task : Mail(i)' = Mail(i)
  BY <1>1, <1>2 DEF Mail
<1>4. \A i \in Task : Mail(i)' <= MaxMail
  BY <1>3 DEF TypeOK
<1>5. waiting' \in [Task -> Nat] /\ refused' \in [Task -> Nat]
  BY <1>2 DEF Forget, Zero
<1> QED
  BY <1>4, <1>5 DEF Forget

LEMMA OneMore ==
    ASSUME NEW f \in [Task -> Nat], NEW i \in Task
    PROVE  /\ [f EXCEPT ![i] = @ + 1] \in [Task -> Nat]
           /\ f[i] > 0 => [f EXCEPT ![i] = @ - 1] \in [Task -> Nat]
<1> QED
  OBVIOUS

LEMMA InitTyped == Init => TypeOK
<1> SUFFICES ASSUME Init PROVE TypeOK
  OBVIOUS
<1>1. MaxMail \in Nat
  BY PoolAssumption
<1>2. \A i \in Task : Mail(i) = 0
  BY DEF Init, Zero, Mail
<1>3. ended \in Seq(Task)
  BY EmptySeq DEF Init
<1> QED
  BY <1>1, <1>2, <1>3 DEF Init, TypeOK, Zero, None, CleanState, NoCount

LEMMA StepTyped == TypeOK /\ [Next]_vars => TypeOK'
<1> SUFFICES ASSUME TypeOK, [Next]_vars PROVE TypeOK'
  OBVIOUS
<1> USE DEF tasks, mail, outputs, cleaning
<1>m. \A i \in Task : /\ waiting[i] \in Nat /\ woken[i] \in Nat
                      /\ delivered[i] \in Nat /\ refused[i] \in Nat
                      /\ Mail(i) <= MaxMail
  BY DEF TypeOK
<1>n. /\ waiting \in [Task -> Nat] /\ woken \in [Task -> Nat]
      /\ delivered \in [Task -> Nat] /\ refused \in [Task -> Nat]
      /\ reported \in [Task -> Nat] /\ lost \in [Task -> Nat]
  BY DEF TypeOK
<1>1. ASSUME NEW i \in Task, NewTask(i) PROVE TypeOK'
  <2>1. /\ waiting' \in [Task -> Nat] /\ woken' \in [Task -> Nat]
        /\ runs' \in [Task -> Nat]
        /\ states' \in [Task -> {"none", "running", "closed"}]
        /\ pool' \subseteq Task /\ alive' \subseteq Task
    BY <1>1, <1>m DEF NewTask, Begin, TypeOK
  <2>2. \A j \in Task : Mail(j)' <= MaxMail
    <3> TAKE j \in Task
    <3>1. CASE j = i
      BY <3>1, <1>1, <1>m DEF NewTask, Begin, Mail, TypeOK
    <3>2. CASE j # i
      BY <3>2, <1>1, <1>m DEF NewTask, Begin, Mail, TypeOK
    <3> QED
      BY <3>1, <3>2
  <2> QED
    BY <1>1, <2>1, <2>2 DEF NewTask, Begin, TypeOK
<1>2. ASSUME NEW i \in Task, WaitForTask(i) PROVE TypeOK'
  <2>0. MaxMail \in Nat
    BY PoolAssumption
  <2>1. /\ waiting' \in [Task -> Nat] /\ woken' \in [Task -> Nat]
        /\ refused' \in [Task -> Nat]
    BY <1>2, <1>n, OneMore DEF WaitForTask
  <2>2. \A j \in Task : Mail(j)' <= MaxMail
    <3> TAKE j \in Task
    <3>1. CASE j # i
      BY <3>1, <1>2, <1>m DEF WaitForTask, Mail, TypeOK
    <3>2. CASE j = i
      <4>1. Mail(i)' = Mail(i) + 1
        <5>1. CASE states[i] = "none"
          BY <5>1, <1>2, <1>m, <1>n DEF WaitForTask, Mail
        <5>2. CASE states[i] = "running"
          BY <5>2, <1>2, <1>m, <1>n DEF WaitForTask, Mail
        <5>3. CASE states[i] = "closed"
          BY <5>3, <1>2, <1>m, <1>n DEF WaitForTask, Mail
        <5> QED
          BY <1>2, <5>1, <5>2, <5>3 DEF WaitForTask
      <4>2. Mail(i) < MaxMail /\ Mail(i) \in Nat
        BY <1>2, <1>m DEF WaitForTask, Mail
      <4> QED
        BY <3>2, <4>1, <4>2, <2>0
    <3> QED
      BY <3>1, <3>2
  <2> QED
    BY <1>2, <2>1, <2>2 DEF WaitForTask, TypeOK
<1>3. ASSUME NEW i \in Task, Send(i) PROVE TypeOK'
  <2>1. /\ woken' \in [Task -> Nat] /\ delivered' \in [Task -> Nat]
        /\ refused' \in [Task -> Nat]
    BY <1>3, <1>n, OneMore DEF Send
  <2>2. \A j \in Task : Mail(j)' = Mail(j)
    <3> TAKE j \in Task
    <3>1. CASE j # i
      <4>1. /\ woken'[j] = woken[j] /\ delivered'[j] = delivered[j]
            /\ refused'[j] = refused[j] /\ waiting'[j] = waiting[j]
        BY <3>1, <1>3, <1>n DEF Send
      <4> QED
        BY <4>1 DEF Mail
    <3>2. CASE j = i
      <4>1. waiting'[i] = waiting[i] /\ woken'[i] = woken[i] - 1
        BY <1>3, <1>n DEF Send
      <4>2. \/ delivered'[i] = delivered[i] + 1 /\ refused'[i] = refused[i]
            \/ delivered'[i] = delivered[i] /\ refused'[i] = refused[i] + 1
        BY <1>3, <1>n DEF Send
      <4>3. /\ waiting[i] \in Nat /\ woken[i] \in Nat
            /\ delivered[i] \in Nat /\ refused[i] \in Nat
        BY <1>n
      <4> QED
        BY <3>2, <4>1, <4>2, <4>3 DEF Mail
    <3> QED
      BY <3>1, <3>2
  <2> QED
    <3>1. \A j \in Task : Mail(j)' <= MaxMail
      BY <1>m, <2>2
    <3> QED
      BY <1>3, <2>1, <3>1 DEF Send, TypeOK
<1>4. ASSUME NEW i \in Task, Output(i) PROVE TypeOK'
  <2>1. ended' \in Seq(Task)
    BY <1>4, AppendProperties DEF Output, TypeOK
  <2> QED
    BY <1>4, <2>1 DEF Output, TypeOK, Mail
<1>5. ASSUME HandleEndingTask PROVE TypeOK'
  <2> DEFINE i == Head(ended)
             p == pool \ {i}
             s == [states EXCEPT ![i] = "closed"]
  <2>1. i \in Task /\ ended' \in Seq(Task)
    BY <1>5, HeadTailProperties DEF HandleEndingTask, TypeOK
  <2>2. s \in [Task -> {"none", "running", "closed"}]
    BY <2>1 DEF TypeOK
  <2>3. CASE states[i] = "running" /\ ShouldClear(p, s)
    <3>1. Cleared /\ pool' = p /\ woken' = woken /\ delivered' = delivered
      BY <2>3, <1>5 DEF HandleEndingTask
    <3>2. /\ states' \in [Task -> {"none", "running", "closed"}]
          /\ waiting' \in [Task -> Nat] /\ refused' \in [Task -> Nat]
          /\ \A j \in Task : Mail(j)' <= MaxMail
      BY <3>1, ForgetIsTyped DEF Cleared
    <3>3. /\ notifier' \in [by : SUBSET Cleaner, awaited : Nat \cup {NoCount}]
          /\ cleaner' \in [Cleaner -> CleanState]
      BY <3>1 DEF Cleared, Notified, None, NoCount, CleanState, Busy, TypeOK
    <3>4. reported' = [reported EXCEPT ![i] = @ + 1] /\ lost' = lost
      BY <2>3, <1>5 DEF HandleEndingTask
    <3>5. reported' \in [Task -> Nat]
      BY <2>1, <3>4, <1>n, OneMore
    <3> QED
      BY <1>5, <2>1, <3>1, <3>2, <3>3, <3>4, <3>5 DEF HandleEndingTask, TypeOK
  <2>4. CASE states[i] = "running" /\ ~ShouldClear(p, s)
    <3>1. /\ states' = s /\ waiting' = waiting /\ refused' = refused
          /\ notifier' = notifier /\ cleaner' = cleaner
      BY <2>4, <1>5 DEF HandleEndingTask
    <3>2. /\ reported' = [reported EXCEPT ![i] = @ + 1]
          /\ lost' = lost /\ pool' = p
      BY <2>4, <1>5 DEF HandleEndingTask
    <3>3. reported' \in [Task -> Nat]
      BY <2>1, <3>2, <1>n, OneMore
    <3> QED
      BY <1>5, <2>1, <2>2, <3>1, <3>2, <3>3 DEF HandleEndingTask, TypeOK, Mail
  <2>5. CASE states[i] # "running"
    <3>1. /\ pool' = pool /\ states' = states /\ reported' = reported
          /\ waiting' = waiting /\ refused' = refused
          /\ notifier' = notifier /\ cleaner' = cleaner
      BY <2>5, <1>5 DEF HandleEndingTask
    <3>2. lost' = [lost EXCEPT ![i] = @ + 1]
      BY <2>5, <1>5 DEF HandleEndingTask
    <3>3. lost' \in [Task -> Nat]
      BY <2>1, <3>2, <1>n, OneMore
    <3> QED
      BY <1>5, <2>1, <3>1, <3>3 DEF HandleEndingTask, TypeOK, Mail
  <2> QED
    BY <2>3, <2>4, <2>5
<1>6. ASSUME NEW c \in Cleaner, Clean(c) PROVE TypeOK'
  <2>1. PICK a \in Awaited :
          \/ CleanAtOnce(c)
          \/ \E how \in {"waits", "times"} : CleanLater(c, a, how)
    BY <1>6 DEF Clean
  <2>2. a \in Nat \cup {NoCount}
    BY PoolAssumption
  <2>3. CASE CleanAtOnce(c)
    <3>1. /\ states' \in [Task -> {"none", "running", "closed"}]
          /\ waiting' \in [Task -> Nat] /\ refused' \in [Task -> Nat]
          /\ \A j \in Task : Mail(j)' <= MaxMail
      BY <2>3, <1>6, ForgetIsTyped DEF CleanAtOnce, Clean
    <3> QED
      BY <1>6, <2>3, <3>1 DEF Clean, CleanAtOnce, CleanState, TypeOK
  <2>4. ASSUME NEW how \in {"waits", "times"}, CleanLater(c, a, how)
        PROVE TypeOK'
    <3>1. /\ notifier' \in [by : SUBSET Cleaner, awaited : Nat \cup {NoCount}]
          /\ cleaner' \in [Cleaner -> CleanState]
      BY <2>2, <2>4 DEF CleanLater, CutOff, CleanState, Busy, TypeOK
    <3> QED
      BY <1>6, <2>4, <3>1 DEF Clean, CleanLater, TypeOK, Mail
  <2> QED
    BY <2>1, <2>3, <2>4
<1>7. ASSUME NEW c \in Cleaner, PassOn(c) \/ Panic(c) \/ Expire(c)
      PROVE TypeOK'
  <2>1. PICK to \in {"cleaned", "dropped", "late"} :
          cleaner' = [cleaner EXCEPT ![c] = to]
    BY <1>7 DEF PassOn, Panic, Expire, SetCleaner
  <2>2. cleaner' \in [Cleaner -> CleanState]
    BY <2>1 DEF TypeOK, CleanState, Busy
  <2> QED
    BY <1>7, <2>2 DEF PassOn, Panic, Expire, SetCleaner, TypeOK, Mail
<1>8. ASSUME NEW c \in Cleaner, Wipe(c) PROVE TypeOK'
  <2>1. /\ states' \in [Task -> {"none", "running", "closed"}]
        /\ waiting' \in [Task -> Nat] /\ refused' \in [Task -> Nat]
        /\ \A j \in Task : Mail(j)' <= MaxMail
    BY <1>8, ForgetIsTyped DEF Wipe
  <2>2. /\ notifier' \in [by : SUBSET Cleaner, awaited : Nat \cup {NoCount}]
        /\ cleaner' \in [Cleaner -> CleanState]
    BY <1>8 DEF Wipe, CutOff, None, NoCount, CleanState, Busy, TypeOK
  <2> QED
    BY <1>8, <2>1, <2>2 DEF Wipe, TypeOK
<1>9. CASE UNCHANGED vars
  BY <1>9 DEF vars, TypeOK, Mail
<1> QED
  BY <1>1, <1>2, <1>3, <1>4, <1>5, <1>6, <1>7, <1>8, <1>9 DEF Next, TimerStep

(* The type invariant of the pool.                                         *)
THEOREM TypeCorrect == Spec => []TypeOK
<1> QED
  BY InitTyped, StepTyped, PTL DEF Spec

-----------------------------------------------------------------------------
LEMMA MirrorStep ==
    TypeOK /\ PoolMirrorsStates /\ [Next]_vars => PoolMirrorsStates'
<1> SUFFICES ASSUME TypeOK, PoolMirrorsStates, [Next]_vars
             PROVE  PoolMirrorsStates'
  OBVIOUS
<1> USE DEF tasks, mail, outputs, cleaning, PoolMirrorsStates
<1>1. ASSUME NEW i \in Task, NewTask(i) PROVE PoolMirrorsStates'
  BY <1>1 DEF NewTask, Begin, TypeOK
<1>2. ASSUME NEW i \in Task, WaitForTask(i) \/ Send(i) \/ Output(i)
      PROVE  PoolMirrorsStates'
  BY <1>2 DEF WaitForTask, Send, Output
<1>3. ASSUME HandleEndingTask PROVE PoolMirrorsStates'
  <2> DEFINE i == Head(ended)
             p == pool \ {i}
             s == [states EXCEPT ![i] = "closed"]
  <2>1. i \in Task
    BY <1>3, HeadTailProperties DEF HandleEndingTask, TypeOK
  <2>2. CASE states[i] = "running" /\ ShouldClear(p, s)
    BY <1>3, <2>2 DEF HandleEndingTask, ShouldClear, Cleared, Forget
  <2>3. CASE states[i] = "running" /\ ~ShouldClear(p, s)
    <3>1. states' = s /\ pool' = p
      BY <1>3, <2>3 DEF HandleEndingTask
    <3> QED
      BY <2>1, <3>1 DEF TypeOK
  <2>4. CASE states[i] # "running"
    BY <1>3, <2>4 DEF HandleEndingTask
  <2> QED
    BY <2>2, <2>3, <2>4
<1>4. ASSUME NEW c \in Cleaner, Clean(c) PROVE PoolMirrorsStates'
  BY <1>4 DEF Clean, CleanAtOnce, CleanLater, Forget
<1>5. ASSUME NEW c \in Cleaner, TimerStep(c) PROVE PoolMirrorsStates'
  BY <1>5 DEF TimerStep, PassOn, Panic, Expire, SetCleaner, Wipe, Forget
<1>6. CASE UNCHANGED vars
  BY <1>6 DEF vars
<1> QED
  BY <1>1, <1>2, <1>3, <1>4, <1>5, <1>6 DEF Next

(* The map of senders and the map of states agree, whatever ends, cleans   *)
(* and timeouts happen in which order.                                     *)
THEOREM PoolMirrored == Spec => []PoolMirrorsStates
<1>1. Init => PoolMirrorsStates
  BY DEF Init, PoolMirrorsStates
<1> QED
  BY <1>1, MirrorStep, TypeCorrect, PTL DEF Spec

-----------------------------------------------------------------------------
LEMMA WakeupStep ==
    TypeOK /\ NoLostWakeup /\ [Next]_vars => NoLostWakeup'
<1> SUFFICES ASSUME TypeOK, NoLostWakeup, [Next]_vars PROVE NoLostWakeup'
  OBVIOUS
<1> USE DEF tasks, mail, outputs, cleaning, NoLostWakeup
<1>1. ASSUME NEW i \in Task, NewTask(i) PROVE NoLostWakeup'
  BY <1>1 DEF NewTask, Begin, TypeOK
<1>2. ASSUME NEW i \in Task, WaitForTask(i) \/ Send(i) \/ Output(i)
      PROVE  NoLostWakeup'
  BY <1>2 DEF WaitForTask, Send, Output, TypeOK
<1>3. ASSUME HandleEndingTask PROVE NoLostWakeup'
  <2> DEFINE i == Head(ended)
             p == pool \ {i}
             s == [states EXCEPT ![i] = "closed"]
  <2>1. i \in Task
    BY <1>3, HeadTailProperties DEF HandleEndingTask, TypeOK
  <2>2. CASE states[i] = "running" /\ ShouldClear(p, s)
    BY <1>3, <2>2 DEF HandleEndingTask, Cleared, Forget
  <2>3. CASE states[i] = "running" /\ ~ShouldClear(p, s)
    <3>1. states' = s /\ waiting' = waiting
      BY <1>3, <2>3 DEF HandleEndingTask
    <3> QED
      BY <2>1, <2>3, <3>1 DEF TypeOK
  <2>4. CASE states[i] # "running"
    BY <1>3, <2>4 DEF HandleEndingTask
  <2> QED
    BY <2>2, <2>3, <2>4
<1>4. ASSUME NEW c \in Cleaner, Clean(c) PROVE NoLostWakeup'
  BY <1>4 DEF Clean, CleanAtOnce, CleanLater, Forget
<1>5. ASSUME NEW c \in Cleaner, TimerStep(c) PROVE NoLostWakeup'
  BY <1>5 DEF TimerStep, PassOn, Panic, Expire, SetCleaner, Wipe, Forget
<1>6. CASE UNCHANGED vars
  BY <1>6 DEF vars
<1> QED
  BY <1>1, <1>2, <1>3, <1>4, <1>5, <1>6 DEF Next

(* No message sleeps on a task that runs or has ended.                     *)
THEOREM WakeupsAreKept == Spec => []NoLostWakeup
<1>1. Init => NoLostWakeup
  BY DEF Init, NoLostWakeup
<1> QED
  BY <1>1, WakeupStep, TypeCorrect, PTL DEF Spec

-----------------------------------------------------------------------------
LEMMA HeardStep ==
    TypeOK /\ NotifierIsHeard /\ [Next]_vars => NotifierIsHeard'
<1> SUFFICES ASSUME TypeOK, NotifierIsHeard, [Next]_vars
             PROVE  NotifierIsHeard'
  OBVIOUS
<1> USE DEF tasks, mail, outputs, cleaning, NotifierIsHeard
<1>1. ASSUME NEW i \in Task,
             NewTask(i) \/ WaitForTask(i) \/ Send(i) \/ Output(i)
      PROVE  NotifierIsHeard'
  BY <1>1 DEF NewTask, Begin, WaitForTask, Send, Output
<1>2. ASSUME HandleEndingTask PROVE NotifierIsHeard'
  BY <1>2 DEF HandleEndingTask, Cleared, None
<1>t. cleaner \in [Cleaner -> CleanState] /\ notifier.by \subseteq Cleaner
  BY DEF TypeOK
<1>3. ASSUME NEW c \in Cleaner, Clean(c) PROVE NotifierIsHeard'
  <2>1. CASE CleanAtOnce(c)
    BY <1>3, <2>1, <1>t DEF Clean, CleanAtOnce
  <2>2. ASSUME NEW a \in Awaited, NEW how \in {"waits", "times"},
               CleanLater(c, a, how)
        PROVE  NotifierIsHeard'
    BY <2>2 DEF CleanLater
  <2> QED
    BY <1>3, <2>1, <2>2 DEF Clean
<1>4. ASSUME NEW c \in Cleaner, TimerStep(c) PROVE NotifierIsHeard'
  <2>1. CASE Wipe(c)
    BY <2>1 DEF Wipe, None
  <2>2. CASE PassOn(c) \/ Panic(c)
    BY <2>2, <1>t DEF PassOn, Panic, SetCleaner
  <2>3. CASE Expire(c)
    BY <2>3, <1>t DEF Expire, SetCleaner
  <2> QED
    BY <1>4, <2>1, <2>2, <2>3 DEF TimerStep
<1>5. CASE UNCHANGED vars
  BY <1>5 DEF vars
<1> QED
  BY <1>1, <1>2, <1>3, <1>4, <1>5 DEF Next

(* The sender left in the pool is never without a receiver.                *)
THEOREM NotifierHeard == Spec => []NotifierIsHeard
<1>1. Init => NotifierIsHeard
  BY DEF Init, NotifierIsHeard, None
<1> QED
  BY <1>1, HeardStep, TypeCorrect, PTL DEF Spec

-----------------------------------------------------------------------------
(* Before the first timeout, the tasks that have not output and the queued *)
(* outputs are all of tasks that run, one output each.  A clean finds them *)
(* in the pool, so it clears nothing that is still to end.                 *)
EndsInOrder ==
    /\ alive \subseteq pool
    /\ \A k \in 1 .. Len(ended) : ended[k] \in pool /\ ended[k] \notin alive
    /\ \A k, l \in 1 .. Len(ended) : k # l => ended[k] # ended[l]
    /\ \A i \in Task : lost[i] = 0

OutputsInv == TimedOut \/ EndsInOrder

LEMMA TimeoutsStay ==
    TypeOK /\ [Next]_vars /\ TimedOut => TimedOut'
<1> SUFFICES ASSUME TypeOK, [Next]_vars, TimedOut PROVE TimedOut'
  OBVIOUS
<1> USE DEF tasks, mail, outputs, cleaning
<1>t. PICK d \in Cleaner : cleaner[d] = "timedout"
  BY DEF TimedOut
<1>c. cleaner \in [Cleaner -> CleanState]
  BY DEF TypeOK
<1> SUFFICES cleaner'[d] = "timedout"
  BY DEF TimedOut
<1>1. ASSUME NEW i \in Task,
             NewTask(i) \/ WaitForTask(i) \/ Send(i) \/ Output(i)
      PROVE  cleaner'[d] = "timedout"
  BY <1>1, <1>t DEF NewTask, Begin, WaitForTask, Send, Output
<1>2. ASSUME HandleEndingTask PROVE cleaner'[d] = "timedout"
  BY <1>2, <1>t DEF HandleEndingTask, Cleared, Notified
<1>3. ASSUME NEW c \in Cleaner, Clean(c) PROVE cleaner'[d] = "timedout"
  <2>1. c # d
    BY <1>3, <1>t DEF Clean
  <2> QED
    BY <2>1, <1>3, <1>t, <1>c DEF Clean, CleanAtOnce, CleanLater, CutOff
<1>4. ASSUME NEW c \in Cleaner, TimerStep(c) PROVE cleaner'[d] = "timedout"
  <2>1. CASE Wipe(c)
    BY <2>1, <1>t DEF Wipe, CutOff
  <2>2. CASE PassOn(c) \/ Panic(c) \/ Expire(c)
    <3>1. c # d
      BY <2>2, <1>t DEF PassOn, Panic, Expire, SetCleaner
    <3> QED
      BY <2>2, <3>1, <1>t, <1>c DEF PassOn, Panic, Expire, SetCleaner
  <2> QED
    BY <1>4, <2>1, <2>2 DEF TimerStep
<1>5. CASE UNCHANGED vars
  BY <1>5, <1>t DEF vars
<1> QED
  BY <1>1, <1>2, <1>3, <1>4, <1>5 DEF Next

LEMMA EndsStep ==
    /\ TypeOK /\ PoolMirrorsStates /\ OutputsInv /\ [Next]_vars
    => OutputsInv'
<1> SUFFICES ASSUME TypeOK, PoolMirrorsStates, EndsInOrder, [Next]_vars
             PROVE  OutputsInv'
  BY TimeoutsStay DEF OutputsInv
<1> USE DEF tasks, mail, outputs, cleaning
<1>s. ended \in Seq(Task) /\ pool \subseteq Task
  BY DEF TypeOK
<1>1. ASSUME NEW i \in Task, NewTask(i) PROVE EndsInOrder'
  BY <1>1 DEF NewTask, Begin, EndsInOrder
<1>2. ASSUME NEW i \in Task, WaitForTask(i) \/ Send(i) PROVE EndsInOrder'
  BY <1>2 DEF WaitForTask, Send, EndsInOrder
<1>3. ASSUME NEW i \in Task, Output(i) PROVE EndsInOrder'
  <2>1. /\ Len(ended') = Len(ended) + 1 /\ Len(ended) \in Nat
        /\ \A k \in 1 .. Len(ended) : ended'[k] = ended[k]
        /\ ended'[Len(ended) + 1] = i
    BY <1>3, <1>s, AppendProperties DEF Output
  <2>2. i \in alive /\ alive' = alive \ {i} /\ pool' = pool /\ lost' = lost
    BY <1>3 DEF Output
  <2>3. \A k \in 1 .. Len(ended') : k \in 1 .. Len(ended) \/ k = Len(ended) + 1
    BY <2>1
  <2>4. \A k \in 1 .. Len(ended) : ended[k] # i
    BY <2>2 DEF EndsInOrder
  <2>5. \A k \in 1 .. Len(ended') : ended'[k] \in pool' /\ ended'[k] \notin alive'
    BY <2>1, <2>2, <2>3 DEF EndsInOrder
  <2>6. \A k, l \in 1 .. Len(ended') : k # l => ended'[k] # ended'[l]
    BY <2>1, <2>3, <2>4 DEF EndsInOrder
  <2> QED
    BY <2>2, <2>5, <2>6 DEF EndsInOrder
<1>4. ASSUME HandleEndingTask PROVE EndsInOrder'
  <2> DEFINE i == Head(ended)
             p == pool \ {i}
             s == [states EXCEPT ![i] = "closed"]
  <2>1. /\ Len(ended) \in Nat \ {0} /\ i = ended[1] /\ ended' = Tail(ended)
        /\ Len(ended') = Len(ended) - 1
        /\ \A k \in 1 .. Len(ended') : ended'[k] = ended[k + 1]
    BY <1>4, <1>s, HeadTailProperties DEF HandleEndingTask
  <2>2. i \in pool /\ i \notin alive
    BY <2>1 DEF EndsInOrder
  <2>3. states[i] = "running"
    BY <2>2 DEF PoolMirrorsStates
  <2>4. pool' = p /\ lost' = lost /\ alive' = alive
    BY <1>4, <2>3 DEF HandleEndingTask
  <2>5. \A k \in 1 .. Len(ended') : /\ k + 1 \in 1 .. Len(ended)
                                    /\ k + 1 # 1
    BY <2>1
  <2>6. \A k \in 1 .. Len(ended') : ended'[k] \in p /\ ended'[k] \notin alive
    <3> TAKE k \in 1 .. Len(ended')
    <3>1. ended'[k] = ended[k + 1] /\ ended[k + 1] # ended[1]
      BY <2>1, <2>5 DEF EndsInOrder
    <3>2. ended[k + 1] \in pool /\ ended[k + 1] \notin alive
      BY <2>5 DEF EndsInOrder
    <3> QED
      BY <2>1, <3>1, <3>2
  <2>7. \A k, l \in 1 .. Len(ended') : k # l => ended'[k] # ended'[l]
    BY <2>1, <2>5 DEF EndsInOrder
  <2> QED
    BY <2>2, <2>4, <2>6, <2>7 DEF EndsInOrder
<1>5. ASSUME NEW c \in Cleaner, Clean(c) PROVE EndsInOrder'
  BY <1>5 DEF Clean, EndsInOrder
<1>6. ASSUME NEW c \in Cleaner, Wipe(c) PROVE TimedOut'
  <2>1. cleaner'[c] = "timedout"
    BY <1>6 DEF Wipe
  <2> QED
    BY <2>1 DEF TimedOut
<1>7. ASSUME NEW c \in Cleaner, PassOn(c) \/ Panic(c) \/ Expire(c)
      PROVE  EndsInOrder'
  BY <1>7 DEF PassOn, Panic, Expire, SetCleaner, EndsInOrder
<1>8. ASSUME UNCHANGED vars PROVE EndsInOrder'
  <2>1. pool' = pool /\ alive' = alive /\ ended' = ended /\ lost' = lost
    BY <1>8 DEF vars
  <2> QED
    BY <2>1 DEF EndsInOrder
<1> QED
  BY <1>1, <1>2, <1>3, <1>4, <1>5, <1>6, <1>7, <1>8
     DEF Next, TimerStep, OutputsInv

(* No output is answered with TaskClosed unless a clean has timed out: a   *)
(* clean that ends in order never cuts a task off.                         *)
THEOREM OutputsKept == Spec => []OnlyATimeoutLosesAnOutput
<1>1. Init => OutputsInv
  <2> SUFFICES ASSUME Init PROVE EndsInOrder
    BY DEF OutputsInv
  <2>1. Len(ended) = 0
    BY EmptySeq DEF Init
  <2> QED
    BY <2>1 DEF Init, EndsInOrder, Zero
<1>2. OutputsInv => OnlyATimeoutLosesAnOutput
  BY DEF OutputsInv, EndsInOrder, OnlyATimeoutLosesAnOutput
<1> QED
  BY <1>1, <1>2, EndsStep, TypeCorrect, PoolMirrored, PTL DEF Spec

-----------------------------------------------------------------------------
(* A reason why messages to a task may be given up: it has output, or a    *)
(* clean has been called.  Such a reason stays.                            *)
Reason(i) == reported[i] > 0 \/ CleanedUp

LEMMA CleaningStays ==
    ASSUME TypeOK, [Next]_vars, CleanedUp
    PROVE  CleanedUp'
<1>. USE DEF tasks, mail, outputs, cleaning, CleanedUp
<1>1. PICK c \in Cleaner : cleaner[c] # "unused"
  OBVIOUS
<1>2. CASE HandleEndingTask
  <2>1. Cleared \/ cleaner' = cleaner
    BY <1>2 DEF HandleEndingTask
  <2>2. Notified(c) # "unused"
    BY <1>1 DEF Notified
  <2>3. Cleared => cleaner'[c] \in {Notified(c), cleaner[c]}
    BY DEF Cleared
  <2>. QED  BY <1>1, <2>1, <2>2, <2>3
<1>3. ASSUME NEW d \in Cleaner, Clean(d) PROVE CleanedUp'
  BY <1>1, <1>3 DEF Clean, CleanAtOnce, CleanLater, CutOff, TypeOK
<1>4. ASSUME NEW d \in Cleaner, TimerStep(d) PROVE CleanedUp'
  BY <1>1, <1>4 DEF TimerStep, PassOn, Panic, Expire, Wipe, SetCleaner,
                    CutOff, TypeOK
<1>5. ASSUME NEW i \in Task,
             NewTask(i) \/ WaitForTask(i) \/ Send(i) \/ Output(i)
      PROVE  CleanedUp'
  BY <1>5 DEF NewTask, Begin, WaitForTask, Send, Output
<1>. QED  BY <1>1, <1>2, <1>3, <1>4, <1>5 DEF Next, vars

(* A message past its wait finds its task, or there is a reason; so is     *)
(* there for a task that is closed.                                        *)
Reasons ==
    \A i \in Task :
      /\ refused[i] > 0 => Reason(i)
      /\ woken[i] > 0 => i \in pool \/ Reason(i)
      /\ states[i] = "closed" => Reason(i)

LEMMA ReasonsStep ==
    TypeOK /\ PoolMirrorsStates /\ NotifierIsHeard /\ Reasons /\ [Next]_vars
      => Reasons'
<1>. SUFFICES ASSUME TypeOK, PoolMirrorsStates, NotifierIsHeard, Reasons,
                     [Next]_vars
              PROVE  Reasons'
  OBVIOUS
<1>1. CASE CleanedUp
  BY <1>1, CleaningStays DEF Reasons, Reason
<1>2. CASE ~CleanedUp
  <2>. USE DEF tasks, mail, outputs, cleaning
  <2>0. (\A c \in Cleaner : cleaner[c] = "unused") /\ notifier.by = {}
    BY <1>2 DEF CleanedUp, NotifierIsHeard, TypeOK
  <2>1. ASSUME NEW i \in Task, NewTask(i) PROVE Reasons'
    BY <2>1 DEF NewTask, Begin, Reasons, Reason, CleanedUp, TypeOK
  <2>2. ASSUME NEW i \in Task, WaitForTask(i) PROVE Reasons'
    BY <2>2 DEF WaitForTask, Reasons, Reason, CleanedUp, TypeOK,
                PoolMirrorsStates
  <2>3. ASSUME NEW i \in Task, Send(i) PROVE Reasons'
    BY <2>3 DEF Send, Reasons, Reason, CleanedUp, TypeOK
  <2>4. ASSUME NEW i \in Task, Output(i) PROVE Reasons'
    BY <2>4 DEF Output, Reasons, Reason, CleanedUp
  <2>5. CASE HandleEndingTask
    <3>. DEFINE i == Head(ended)
    <3>1. i \in Task
      BY <2>5, HeadTailProperties DEF HandleEndingTask, TypeOK
    <3>2. ~ShouldClear(pool \ {i}, [states EXCEPT ![i] = "closed"])
      BY <2>0 DEF ShouldClear
    <3>3. woken' = woken
      BY <2>5 DEF HandleEndingTask
    <3>4. CASE states[i] = "running"
      <4>1. /\ states' = [states EXCEPT ![i] = "closed"] /\ pool' = pool \ {i}
            /\ reported' = [reported EXCEPT ![i] = @ + 1]
            /\ refused' = refused /\ cleaner' = cleaner
        BY <2>5, <3>2, <3>4 DEF HandleEndingTask
      <4>2. reported'[i] > 0
        BY <3>1, <4>1 DEF TypeOK
      <4>. QED  BY <3>1, <3>3, <4>1, <4>2 DEF Reasons, Reason, CleanedUp, TypeOK
    <3>5. CASE states[i] # "running"
      <4>1. UNCHANGED <<states, pool, reported, refused, cleaner>>
        BY <2>5, <3>5 DEF HandleEndingTask
      <4>. QED  BY <3>3, <4>1 DEF Reasons, Reason, CleanedUp
    <3>. QED  BY <3>4, <3>5
  <2>6. ASSUME NEW c \in Cleaner, Clean(c) PROVE Reasons'
    <3>1. CleanedUp'
      BY <2>6 DEF Clean, CleanAtOnce, CleanLater, CutOff, CleanedUp, TypeOK
    <3>. QED  BY <3>1 DEF Reasons, Reason
  <2>7. ASSUME NEW c \in Cleaner, TimerStep(c) PROVE Reasons'
    BY <2>0, <2>7 DEF TimerStep, PassOn, Panic, Expire, Wipe, SetCleaner
  <2>8. CASE UNCHANGED vars
    BY <2>8 DEF vars, Reasons, Reason, CleanedUp
  <2>. QED  BY <2>1, <2>2, <2>3, <2>4, <2>5, <2>6, <2>7, <2>8 DEF Next
<1>. QED  BY <1>1, <1>2

(* A message is given up only if its task has output, or after a clean:    *)
(* nothing else closes a task or takes it out of the pool.                 *)
THEOREM RefusalsHaveReasons == Spec => []RefusedForAReason
<1>1. Init => Reasons
  BY DEF Init, Zero, Reasons
<1>2. Reasons => RefusedForAReason
  BY DEF Reasons, Reason, RefusedForAReason
<1>. QED  BY <1>1, <1>2, TypeCorrect, PoolMirrored, NotifierHeard, ReasonsStep,
             PTL DEF Spec
=============================================================================
