----------------------------- MODULE Reconstruct -----------------------------
(***************************************************************************)
(* The reconstruction step at one node: it counts the shares that the      *)
(* other nodes broadcast, each in a task that verifies it, inserts it in a *)
(* set and outputs if it is the last one needed.  AvssSimpl and Badger     *)
(* count a share before its task runs; Bingo looks at the set, where no    *)
(* other share than the node's own ever comes.                             *)
(***************************************************************************)
EXTENDS Integers

CONSTANT Sizes  \* numbers of nodes

ASSUME SizesAssumption == Sizes \subseteq Nat \ {0}

VARIABLES
    job,      \* the algorithm, n, is_byz, and how many others are not
    phase,    \* "start", "listen" or "dead"
    coming,   \* shares on their way
    tasks,    \* spawned tasks that have not inserted their share
    inserted, \* the length of set
    outputs   \* calls of Node::output

recVars == <<job, phase, coming, tasks, inserted, outputs>>

(* Fields::t, with a TDenom of 33.                                         *)
FieldsT(n) == (n * 33) \div 100

Jobs ==
    UNION {[algo : {"AvssSimpl", "Badger", "Bingo"}, n : {n}, byz : BOOLEAN,
            senders : n - 1 - FieldsT(n)..n - 1] : n \in Sizes}

RecInit ==
    /\ job \in Jobs
    /\ phase = "start" /\ coming = job.senders
    /\ tasks = 0 /\ inserted = 0 /\ outputs = 0

Degree == IF job.algo = "AvssSimpl" THEN 2 * FieldsT(job.n)
          ELSE FieldsT(job.n)   \* l = t in Badger

Enough == Degree + 1

(* reconstruct: a Byzantine node broadcasts nothing, and in Bingo it does  *)
(* not receive either.  Badger's sharing keeps no share, so that my_share  *)
(* panics.                                                                 *)
StartReconstruct ==
    /\ phase = "start"
    /\ IF job.algo = "Badger" \/ (job.algo = "Bingo" /\ job.byz)
       THEN phase' = "dead" /\ UNCHANGED inserted
       ELSE phase' = "listen" /\ inserted' = 1
    /\ UNCHANGED <<job, coming, tasks, outputs>>

(* The test at the head of the loop: share_counter, or the length of set.  *)
(* The variant looks at the set, whatever the algorithm.                   *)
FullSet == inserted = Enough

Full ==
    IF job.algo = "Bingo" THEN inserted = Enough ELSE inserted + tasks = Enough

TakeShare ==
    /\ phase = "listen" /\ coming > 0
    /\ coming' = coming - 1
    /\ tasks' = IF Full THEN tasks ELSE tasks + 1
    /\ UNCHANGED <<job, phase, inserted, outputs>>

(* im_done, after an output.                                               *)
DropShare ==
    /\ outputs > 0 /\ coming > 0
    /\ coming' = coming - 1
    /\ UNCHANGED <<job, phase, tasks, inserted, outputs>>

(* The task of a share.  In Bingo it panics before it has verified it: the *)
(* shares that are sent have no randomness, of which get takes the first.  *)
InsertShare ==
    /\ tasks > 0
    /\ tasks' = tasks - 1
    /\ inserted' = IF job.algo = "Bingo" THEN inserted ELSE inserted + 1
    /\ outputs' = IF inserted' > inserted /\ inserted' = Enough
                  THEN outputs + 1 ELSE outputs
    /\ UNCHANGED <<job, phase, coming>>

RecNext == StartReconstruct \/ TakeShare \/ DropShare \/ InsertShare

(* No share is on its way to a node that takes or drops it, and no task    *)
(* has one to insert.                                                      *)
RecQuiet ==
    /\ phase # "start" /\ tasks = 0
    /\ phase = "listen" \/ outputs > 0 => coming = 0

RecTypeOK ==
    /\ phase \in {"start", "listen", "dead"}
    /\ coming \in Nat /\ tasks \in Nat /\ inserted \in Nat /\ outputs \in Nat

(* A node outputs once, with as many shares as it needs, and no task is    *)
(* left then that would verify one more, however many had been spawned     *)
(* before the first of them inserted its share.                            *)
ReconstructsOnce ==
    /\ outputs <= 1
    /\ outputs = 1 => inserted = Enough /\ tasks = 0

(* It outputs unless it cannot: alone (t = 0, as of three nodes), where    *)
(* its own share is enough and none is awaited; in Badger, where it has no *)
(* share; and in Bingo, where no share is counted.                         *)
CanReconstruct == FieldsT(job.n) > 0 /\ job.algo = "AvssSimpl"
=============================================================================
