------------------------------ MODULE TaskPool ------------------------------
(***************************************************************************)
(* The task pool of global_lib/src/task_pool, in which the node heart and  *)
(* the interface keep their operations: it starts tasks, holds messages    *)
(* back for tasks that are not there yet, hands the outputs on, and is     *)
(* cleaned between experiments.                                            *)
(*                                                                         *)
(* Every method runs under the pool's lock, so it is one step, except that *)
(* wait_and_send gives the lock up between waiting for a task and sending  *)
(* to it, and that a clean with a timer runs in a task of its own.         *)
(* Messages to a task are counted, not named.                              *)
(***************************************************************************)
EXTENDS Integers, FiniteSets, Sequences

CONSTANTS
    Task,      \* operation ids
    Cleaner,   \* calls of clean
    Awaited,   \* the counts that clean is called with; NoCount is no count
    MaxRuns,   \* bound: times a task id is started
    MaxMail    \* bound: messages for a task id

NoCount == -1

ASSUME PoolAssumption ==
    /\ IsFiniteSet(Task)
    /\ Awaited \subseteq Nat \cup {NoCount}
    /\ MaxRuns \in Nat /\ MaxMail \in Nat

None == [by |-> {}, awaited |-> NoCount]

VARIABLES
    pool,      \* ids with a message sender
    states,    \* [Task -> {"none", "running", "closed"}]: task_states
    waiting,   \* [Task -> Nat]: messages waiting for the task to be created
    woken,     \* [Task -> Nat]: messages past the wait, not yet sent
    delivered, \* [Task -> Nat]: messages put in the task's channel
    refused,   \* [Task -> Nat]: messages given up with an error
    alive,     \* ids of tasks that have begun and not output
    ended,     \* Seq(Task): the channel of end_task_sender
    reported,  \* [Task -> Nat]: outputs handed to the result redirections
    lost,      \* [Task -> Nat]: outputs answered with TaskClosed
    runs,      \* [Task -> Nat]: times new_task has started the id
    notifier,  \* cleaning_notifier: whose it is (at most one), and the count
    cleaner    \* [Cleaner -> CleanState]

mail == <<waiting, woken, delivered, refused>>
tasks == <<pool, states, alive, runs>>
outputs == <<ended, reported, lost>>
cleaning == <<notifier, cleaner>>
vars == <<tasks, mail, outputs, cleaning>>

(* waits: clean without a timer.  times: the timer task is in its select!, *)
(* and is told that the pool is clean (told) or loses its sender to        *)
(* another clean (cutoff); late: its sleep has won, it wants the lock.     *)
Busy == {"waits", "times", "told", "cutoff", "late"}
CleanState == {"unused", "at once", "cleaned", "timedout", "dropped"} \cup Busy

Zero == [i \in Task |-> 0]

Init ==
    /\ pool = {} /\ states = [i \in Task |-> "none"]
    /\ waiting = Zero /\ woken = Zero /\ delivered = Zero /\ refused = Zero
    /\ alive = {} /\ ended = <<>> /\ reported = Zero /\ lost = Zero
    /\ runs = Zero
    /\ notifier = None /\ cleaner = [c \in Cleaner |-> "unused"]

-----------------------------------------------------------------------------
(* task_states and task_creation_senders are cleared: the messages that    *)
(* wait lose their sender and fail with FailedToWaitCreation.              *)
Forget ==
    /\ states' = [i \in Task |-> "none"]
    /\ waiting' = Zero
    /\ refused' = [i \in Task |-> refused[i] + waiting[i]]

(* new_task: the messages that wait are told, and the task begins.  An id  *)
(* that runs is refused, without effect.  Callers never use the id of a    *)
(* task again that a timeout has cut off from the pool.  The variant does  *)
(* not take the waiting senders out of the map.                            *)
Begin(i) ==
    /\ states[i] # "running" /\ i \notin alive
    /\ \A k \in 1 .. Len(ended) : ended[k] # i
    /\ runs[i] < MaxRuns
    /\ states' = [states EXCEPT ![i] = "running"]
    /\ pool' = pool \cup {i}
    /\ alive' = alive \cup {i}
    /\ runs' = [runs EXCEPT ![i] = @ + 1]
    /\ UNCHANGED <<delivered, refused, outputs, cleaning>>

NewTaskKeepsWaiters(i) ==
    /\ Begin(i)
    /\ woken' = [woken EXCEPT ![i] = @ + waiting[i]]
    /\ UNCHANGED waiting

NewTask(i) ==
    /\ Begin(i)
    /\ woken' = [woken EXCEPT ![i] = @ + waiting[i]]
    /\ waiting' = [waiting EXCEPT ![i] = 0]

(* wait_for_task_creation, for a message that arrives.  The variant takes  *)
(* an unknown task for a running one.                                      *)
Mail(i) == waiting[i] + woken[i] + delivered[i] + refused[i]

WaitForNoTask(i) ==
    /\ Mail(i) < MaxMail
    /\ woken' = [woken EXCEPT ![i] = @ + 1]
    /\ UNCHANGED <<waiting, delivered, refused, tasks, outputs, cleaning>>

WaitForTask(i) ==
    /\ Mail(i) < MaxMail
    /\ \/ /\ states[i] = "none"
          /\ waiting' = [waiting EXCEPT ![i] = @ + 1]
          /\ UNCHANGED <<woken, refused>>
       \/ /\ states[i] = "running"
          /\ woken' = [woken EXCEPT ![i] = @ + 1]
          /\ UNCHANGED <<waiting, refused>>
       \/ /\ states[i] = "closed"
          /\ refused' = [refused EXCEPT ![i] = @ + 1]
          /\ UNCHANGED <<waiting, woken>>
    /\ UNCHANGED <<delivered, tasks, outputs, cleaning>>

(* The second half of wait_and_send: TaskNotExist if the task has gone.    *)
Send(i) ==
    /\ woken[i] > 0
    /\ woken' = [woken EXCEPT ![i] = @ - 1]
    /\ IF i \in pool
       THEN delivered' = [delivered EXCEPT ![i] = @ + 1] /\ UNCHANGED refused
       ELSE refused' = [refused EXCEPT ![i] = @ + 1] /\ UNCHANGED delivered
    /\ UNCHANGED <<waiting, tasks, outputs, cleaning>>

(* TaskInterface::output; a task of this system outputs once.              *)
Output(i) ==
    /\ i \in alive
    /\ alive' = alive \ {i}
    /\ ended' = Append(ended, i)
    /\ UNCHANGED <<pool, states, runs, mail, reported, lost, cleaning>>

(* should_clear, with pool `p' and states `s'.  The variant does not look  *)
(* at the tasks that still run.                                            *)
Known(s) == {i \in Task : s[i] # "none"}

AwaitedEnough(p, s) ==
    /\ notifier.by # {}
    /\ notifier.awaited = NoCount \/ Cardinality(Known(s)) = notifier.awaited

ShouldClear(p, s) ==
    /\ notifier.by # {}
    /\ p = {}
    /\ notifier.awaited = NoCount \/ Cardinality(Known(s)) = notifier.awaited

(* The cleaner that waits is sent Ok: through its timer if it has one.     *)
(* A timer whose sleep has won no longer listens.                          *)
Notified(c) == CASE cleaner[c] = "waits" -> "cleaned"
                 [] cleaner[c] = "times" -> "told"
                 [] OTHER -> cleaner[c]

Cleared ==
    /\ Forget
    /\ notifier' = None
    /\ cleaner' = [c \in Cleaner |->
                     IF c \in notifier.by THEN Notified(c) ELSE cleaner[c]]

(* listen_for_ending_task and handle_ending_task: an output of a task that *)
(* runs closes it, clears the pool if a clean waits for that, and is then  *)
(* given to every redirection; another is an error.                        *)
HandleEndingTask ==
    /\ ended # <<>>
    /\ ended' = Tail(ended)
    /\ UNCHANGED <<alive, runs, woken, delivered>>
    /\ LET i == Head(ended)
           p == pool \ {i}
           s == [states EXCEPT ![i] = "closed"]
       IN IF states[i] = "running"
          THEN /\ pool' = p
               /\ reported' = [reported EXCEPT ![i] = @ + 1]
               /\ UNCHANGED lost
               /\ IF ShouldClear(p, s)
                  THEN Cleared
                  ELSE states' = s /\ UNCHANGED <<waiting, refused, cleaning>>
          ELSE /\ lost' = [lost EXCEPT ![i] = @ + 1]
               /\ UNCHANGED <<pool, states, waiting, refused, reported,
                              cleaning>>

-----------------------------------------------------------------------------
(* clean: at once if no task runs, whatever count is awaited; else the     *)
(* notifier is replaced, and the cleaner that held it loses its sender.    *)
CutOff(c) == CASE cleaner[c] = "waits" -> "dropped"
               [] cleaner[c] = "times" -> "cutoff"
               [] OTHER -> cleaner[c]

CleanAtOnce(c) ==
    /\ pool = {}
    /\ Forget
    /\ cleaner' = [cleaner EXCEPT ![c] = "at once"]
    /\ UNCHANGED notifier

CleanLater(c, awaited, how) ==
    /\ pool # {}
    /\ notifier' = [by |-> {c}, awaited |-> awaited]
    /\ cleaner' = [d \in Cleaner |-> IF d = c THEN how
                     ELSE IF d \in notifier.by THEN CutOff(d) ELSE cleaner[d]]
    /\ UNCHANGED <<states, waiting, refused>>

Clean(c) ==
    /\ cleaner[c] = "unused"
    /\ \E awaited \in Awaited :
          \/ CleanAtOnce(c)
          \/ \E how \in {"waits", "times"} : CleanLater(c, awaited, how)
    /\ UNCHANGED <<pool, alive, runs, woken, delivered, outputs>>

SetCleaner(c, from, to) ==
    /\ cleaner[c] \in from
    /\ cleaner' = [cleaner EXCEPT ![c] = to]
    /\ UNCHANGED <<tasks, mail, outputs, notifier>>

(* The select! of the timer task: it passes the Ok on, unwraps the None of *)
(* a dropped sender, or finds its time over, also when both have happened. *)
(* In the variant of Expire the time only runs once the Ok is there.       *)
PassOn(c) == SetCleaner(c, {"told"}, "cleaned")
Panic(c) == SetCleaner(c, {"cutoff"}, "dropped")
ExpireOnceTold(c) == SetCleaner(c, {"told"}, "late")
Expire(c) == SetCleaner(c, {"times", "told", "cutoff"}, "late")

(* Its time is over, and it has the lock: the pool is emptied, and the     *)
(* notifier dropped, whoever holds it.  The variant leaves the notifier.   *)
WipeKeepingNotifier(c) ==
    /\ cleaner[c] = "late"
    /\ pool' = {}
    /\ Forget
    /\ cleaner' = [cleaner EXCEPT ![c] = "timedout"]
    /\ UNCHANGED <<alive, runs, woken, delivered, outputs, notifier>>

Wipe(c) ==
    /\ cleaner[c] = "late"
    /\ pool' = {}
    /\ Forget
    /\ notifier' = None
    /\ cleaner' = [d \in Cleaner |-> IF d = c THEN "timedout"
                     ELSE IF d \in notifier.by THEN CutOff(d) ELSE cleaner[d]]
    /\ UNCHANGED <<alive, runs, woken, delivered, outputs>>

TimerStep(c) == PassOn(c) \/ Panic(c) \/ Expire(c) \/ Wipe(c)

Next ==
    \/ \E i \in Task : NewTask(i) \/ WaitForTask(i) \/ Send(i) \/ Output(i)
    \/ HandleEndingTask
    \/ \E c \in Cleaner : Clean(c) \/ TimerStep(c)

Spec == Init /\ [][Next]_vars

(* Spawned tasks and timers run; nobody has to start tasks or output.      *)
FairSpec ==
    /\ Spec
    /\ WF_vars(HandleEndingTask)
    /\ \A i \in Task : WF_vars(Send(i))
    /\ \A c \in Cleaner : WF_vars(TimerStep(c))

-----------------------------------------------------------------------------
TypeOK ==
    /\ pool \subseteq Task
    /\ states \in [Task -> {"none", "running", "closed"}]
    /\ waiting \in [Task -> Nat] /\ woken \in [Task -> Nat]
    /\ delivered \in [Task -> Nat] /\ refused \in [Task -> Nat]
    /\ alive \subseteq Task /\ ended \in Seq(Task)
    /\ reported \in [Task -> Nat] /\ lost \in [Task -> Nat]
    /\ runs \in [Task -> Nat]
    /\ notifier \in [by : SUBSET Cleaner, awaited : Nat \cup {NoCount}]
    /\ cleaner \in [Cleaner -> CleanState]
    /\ \A i \in Task : Mail(i) <= MaxMail

(* The two maps of the pool agree, through ends, cleans and timeouts: the  *)
(* tasks that can be sent to are those recorded as running.                *)
PoolMirrorsStates == pool = {i \in Task : states[i] = "running"}

(* No message sleeps on a task that exists or has ended: a wait that       *)
(* begins as the task does is woken, and a wait that begins after its end  *)
(* fails.                                                                  *)
NoLostWakeup ==
    \A i \in Task : waiting[i] > 0 => states[i] = "none"

(* The sender that a clean leaves in the pool always has a receiver, so    *)
(* that handle_ending_task never fails with CleaningNotifierError: not     *)
(* after a timeout either, nor when one clean has taken another's place.   *)
NotifierIsHeard ==
    \A c \in notifier.by : cleaner[c] \in {"waits", "times", "late"}

TimedOut == \E c \in Cleaner : cleaner[c] = "timedout"
CleanedUp == \E c \in Cleaner : cleaner[c] # "unused"

(* The pool gives an output up with TaskClosed, on which the error handler *)
(* panics, only if a clean has timed out before.                           *)
OnlyATimeoutLosesAnOutput ==
    (\E i \in Task : lost[i] > 0) => TimedOut

(* A message is given up only if its task has output, or after a clean: in *)
(* the window between the wait and the send nothing else can remove it.    *)
RefusedForAReason ==
    \A i \in Task : refused[i] > 0 => reported[i] > 0 \/ CleanedUp

(* Every clean with a timer comes to an end, also when the tasks never     *)
(* output, the awaited count is wrong, or another clean takes its place.   *)
EveryTimedCleanEnds ==
    \A c \in Cleaner : cleaner[c] = "times" ~>
                       cleaner[c] \in {"cleaned", "timedout", "dropped"}
=============================================================================
