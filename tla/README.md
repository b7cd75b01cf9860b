# A formal model of the secret-sharing testbed

The repository is a testbed that runs and measures asynchronous verifiable
secret sharing (AVSS) protocols: a *manager* spawns *node hearts* on machines,
an *interface* drives experiments, and a node heart holds one *node* (protocol
instance) for every operation. This directory holds TLA+ modules for its
protocols and the machinery around them, TLC configurations that check them,
and TLAPS proofs.

## 1. Inventory

Paths are below `src/`. In brackets: the modules that model the component.

| Component | State | Operations | Talks to |
|---|---|---|---|
| Reliable broadcast `nodes/src/broadcast` [`ReliableBroadcast`, `BroadcastPromise`] | one `MessageManager` per message kind: counts of Echo and Ready, the decoder's shares, `my_share`, `ready_state`; `None` when finished | Propose, Echo, Ready; each in a task of its own under the memory's lock | the protocols call `Node::reliable_broadcast` and get the message in `wait_and_send` |
| Bingo `nodes/src/bingo` [`Bingo`; reconstruction `Reconstruct`; what lines and rows hold `Shares`] | `CryptoSet` (line, shares), `has_broadcast`, counts in four tasks | NewCol, NewRow, Done, BroadcastDoneRequest; reconstruct | reliable broadcast, `Node` |
| LightWeight `nodes/src/lightweight` [`LightWeight`, `Shares`] | `my_share`, the broadcast, two managers that wait for the end of processing | process, complaint, assist | SMD, vote, reliable broadcast, `Node` |
| One-sided vote `nodes/src/one_sided_vote` [`OneSidedVote`] | `is_ok`, `has_voted`, `done`, two counts | OkRequest, Ok, Vote | LightWeight, HbAvss |
| SMD `nodes/src/secure_message_dist` [`SecureMessageDist`] | trees, root proofs, shares and votes received | Propose, Echo, Vote, Forward | LightWeight |
| Haven `nodes/src/haven` [`Haven`, `Shares`] | `ready`, `echo_count`, `ready_count`, the shares | Send, Echo, Ready | `Node` |
| AvssSimpl, two versions `nodes/src/avss_simpl` [`AvssSimpl`, `Reconstruct`, `Shares`] | the dealer's signatures and missing shares, each node's set of shares | Share, Sign, the broadcast list; reconstruct | reliable broadcast, `Node` |
| HbAvss `nodes/src/hbavss` [`HbAvss`, `Shares`] | `my_share`, the phase of its tasks | process, complaint, assist | disperse-retrieve, vote, reliable broadcast |
| Disperse-retrieve `nodes/src/disperse_retrieve` [`DisperseRetrieve`] | two managers, a handler with decoders | Echo, AddShare, OutputReq, Retrieve | HbAvss |
| Badger `nodes/src/badger` [`Reconstruct`, `Shares`] | none of its own | output at the broadcast; reconstruct | reliable broadcast |
| Task pool `global_lib/src/task_pool` [`TaskPool`] | senders, `task_states`, creation waiters, cleaning notifier | new_task, wait_and_send, output, clean with or without a timer | node heart, interface |
| Node `nodes/src/node` [`Operation`, `Nodes` and all protocols] | `im_done`, handlers, broadcasters, shared objects | contact, send_message, share, reconstruct, output | everything in a node heart |
| Node heart `nodes/src/system/nodes_heart.rs` [`Startup`, `Evaluation`, `Cleaning`] | saved dealers' data and shares, key material, pool | setup, process, message, output, clean | interface, other hearts |
| Summaries `nodes/src/system/summaries.rs` [`Cleaning`] | per sender: messages counted and announced; senders left | new message, summary, set_n, clear | node heart |
| Interface `interface/src` [`Startup`, `Evaluation`] | running experiments, awaited outputs, debit counters | warm up, latency and debit evaluation | manager, hearts |
| Experiment configuration `global_lib/src/config_treatment` [`Experiment`] | blocks, indices, fields, curves | set_eval, evolve, insert_result | interface |
| Manager `manager/src` [`Startup`] | child processes, registered nodes | Gen, add_node | interface, hearts |
| Polynomials and commitments `nodes/src/crypto` [`Polynomials`, `Scheme`, `Shares`] | none | transforms, interpolation, KZG, low degree test | protocols |
| Encryption, signatures, codes [*not modelled: a share or a proof verifies or does not*] | none | – | protocols |
| Network, messages `global_lib/src` [*not modelled: a message in flight is delivered once, at any time*] | sockets | send, listen | all |
| Plots, scripts, playbooks; two unused files [*not modelled*] | – | – | – |

**What is hard in this code.** Every listener of a node is a tokio task, and the
tasks of a node share a few locked cells and channels; every network message is
handed over by a task of its own, so messages come in any order. A protocol
often *counts to a threshold*, and its correctness depends on what those who
were counted had done before. `Node::output` sets `im_done` first (nothing is
sent any more), then awaits and unwraps all the node's tasks: a panic in one of
them loses the output although the protocol has succeeded. Tasks subscribe to a
channel when they come to run, and a message sent before is lost or waits,
depending on the method. The task pool gives
its lock up between two halves of an operation, and has timers that act on the
state they find later; the interface leaves operations behind when a debit
round ends, and the hearts keep share sets for later reconstructions. A dealer
can be *corrupted* (it does not serve t nodes)
and nodes can be *Byzantine* (`is_byz`), both as configured for an experiment.

**What makes each part correct.** Reliable broadcast: one delivery for each
node, none before a quorum, enough shares whenever `decode` runs. Sharing
protocols: nobody leaves before the secret is fixed among correct nodes, whoever
leaves has a share, everybody leaves, and the output reaches the heart.
Reconstruction: one output, from exactly the shares needed. Shares: what nodes
hold is what was dealt, whichever messages came first. Task
pool: its maps agree, no message sleeps on a task that exists, no output and no
clean is lost. Start of a network: keys at their places, an operation only on
nodes that have them all, no node left from an earlier run. Clean: the messages
counted are all there were, and a clean ends. Experiments: each planned
configuration is measured once and recorded under its own indices, and a
reconstruction finds share sets of one sharing of the same n, t and algo (the
batch size is no part of what they are looked up by). `PROJECT.json` lists the hazards, at
their lines, with the properties aimed at them.

## 2. Modules

Each module has comments on what a step stands for. Definitions named as a
*variant* in a comment are used nowhere in a specification: each one is a
plausible slip (a threshold that is off by one, a reset that is forgotten, an
order that is swapped) under which the property it is paired with in
`PROJECT.json` (`mutants`) fails, which shows that the property can fail.

### Module structure

    BroadcastPromise <--implements-- ReliableBroadcast
          ^ INSTANCE
          +---- Bingo
          +---- LightWeight --extends--> OneSidedVote --extends--> Nodes
          +---- Operation --extends--> Nodes
                   ^ extends
                   +---- Haven, AvssSimpl, SecureMessageDist
                   +---- HbAvss --extends--> OneSidedVote
    Operations --extends--> Haven, AvssSimpl, HbAvss, SecureMessageDist,
                            Reconstruct, DisperseRetrieve, Cleaning
    Evaluation --extends--> Experiment
    Shares --extends--> Scheme --extends--> Polynomials
    TaskPool
    Startup

`MC*` modules add symmetry sets, constant definitions and `StoppingSpec`
(see Runs); `*Proofs` modules hold the theorems. `ProtocolProofs` has the invariants of the protocols that
`Operations` composes, `OperationsProofs` extends it with the theorems.

### `BroadcastPromise` — what a broadcast promises

Two variables: `committed` and how often each node has been handed the message.
Nobody is handed it before the commit point, everybody is handed it once. The
sharing protocols include it by `INSTANCE` for the broadcast of their commitment;
`ReliableBroadcast` is shown to implement it.

### `ReliableBroadcast` — `broadcast/broadcast_memory.rs`

One operation and one message kind. `manager`, `echo`, `ready`, `holds`,
`shares`, `relayed` are the fields of `MessageManager` (`holds`: `my_share` is
not empty; `relayed`: `ready_state`; `shares`: the decoder's indices), and
`proposals`, `echoes`, `readies` the messages in flight. The actions are the
three handlers of `BroadcastMemory`, plus `Ignore` for a manager that has been
dropped. `CountEcho` and `CountReady` are `add_echo` and `add_ready`, including
what they call: `broadcast_ready`, `output`, and the dropping of the manager.
Two details of the code that matter are kept. A Ready relayed before the node
has seen an Echo carries an *empty* share (`bare`). And the manager is dropped
when `add_ready` is called on an existing manager, not when it is called by
`add_echo` or for a new manager.

The message, its hash and the Reed-Solomon arithmetic are left out: a kind has
one proposer and one message in an operation, so all hash checks compare equal
values; the decoder is the set of indices it holds and needs `T + 1` of them.

### `Bingo` — `bingo/{messages_receiver,receivers,dealer}.rs`

`verify_my_line` is `OpenMyLine` and `SaveMyLine`; `col_manager` is `SendRows`;
`line_manager` is `Rebuild` and `RefuseRow` (its assertion on a Byzantine row);
`done_manager` is `TakeRequest` and `CountDones`; `Report` is the end of
`Node::output`. The channel of `BingoBroadcastDoneRequest`s is kept as a queue,
since the first request is the one that counts. A counting loop takes one step,
at the message that reaches the threshold: the count is local, and every sender
sends to all, so how many *have sent* is what it can have counted.

### `OneSidedVote`, `LightWeight` — `one_sided_vote/mod.rs`, `lightweight/*.rs`

`Process` and `EndProcess` are the two
halves of `process` around the vote; `StartAnswering`/`Answer` are
`complaint_manager`, `StartRecovering`/`Recover` are `assist_manager`; `Leave`
and `Report` are the two halves of `Node::output`. SMD is abstracted to two
facts per node: it has handled its Propose (`proposed`), and it has its share.
`ReceiveShare` is guarded by the counts that SMD's thresholds imply, with SMD's
own t (`S`, which is `n / 3` and not the configuration's); that they do imply
them is `DistributedToMost` of `SecureMessageDist`. The `unwrap` of
`forward_request` on a root proof that a node may lack is kept (`crashed`).

### `Nodes`, `Operation`, `Operations` — `node/{configuration,node}.rs`

`Nodes` has the constants of an operation, and `Operation` what the sharings
have in common: whether the dealer is corrupted, who has left, and the broadcast.
`Operations` composes the smaller protocols: `proto` says which one an operation
runs, as `Node::share` and `Node::reconstruct` dispatch on the fields, and the
other protocols stay where they are. So one run and one chain of proofs cover
them all, and each of them is still a module of its own:

- `Haven` (`haven/receiver.rs`): Send, Echo and Ready with both ways to the
  output. A counter is the number of thresholds a node has passed.
- `AvssSimpl` (`avss_simpl/{dealer,receiver}.rs`): `wait_for_signs` and
  `broadcast_missing_share` of the dealer, `first_receiv` and
  `verify_and_output` with its assertions on the list (`ListCovers`). The choice
  of `plain` is which of the missing shares are encrypted.
- `HbAvss` (`hbavss/receivers.rs`): `wait_for_share`, `process` around the vote
  and `complaint_manager`. Its `assist_manager` waits for a message that is
  never sent, and so has no step. The dispersal is abstracted to which nodes
  have echoed and which were too late for the Echoes: a Propose or an Echo that
  comes before the task which takes it is dropped (`disperse_retrieve/listener.rs`),
  so that `Disperse` may never happen at a node, and `MissEchoes` may happen at
  any node before it has its share. That it has a share if a manager was in
  time is `DispersalEnds` of `DisperseRetrieve`. With t = 0 the dealer panics in
  the encoder (`Deals`).
- `SecureMessageDist` (`secure_message_dist/smd_memory.rs`): the four thresholds
  and the two calls of `try_to_output`.
- `DisperseRetrieve` (`disperse_retrieve/memory.rs`): one node's managers and
  handler, with the time at which each of them subscribes; the two managers both
  listen to Echo, as in the code. `SendRequest` and `SubscribeToAnswer` are
  `Node::retrieve`, which does the one before the other.
- `Reconstruct` (`bingo/reconstruct.rs` and its like): the loop that takes
  shares and the tasks it spawns. The test of AvssSimpl and Badger counts
  a share at once, the one of Bingo looks at the set that the tasks fill.
- `Cleaning` (`nodes_heart.rs`, `summaries.rs`): one heart's clean with its
  timer, the summaries and the counting of the messages of each peer.
  `CheckSumm` is both functions of that name; `Notify` is the notification that
  locks the heart up if nobody has subscribed yet. The hearts have all of this,
  but at this commit nobody starts it (see below).

### `TaskPool` — `global_lib/src/task_pool/*.rs`

Every method of the pool runs under its lock and is one step. `wait_and_send` is
two (`WaitForTask`, `Send`), as is a clean with a timer: the timer's task has
the states `times`, `told`, `cutoff` and `late` (its sleep has won and it waits
for the lock). `HandleEndingTask` is `listen_for_ending_task` with
`handle_ending_task`; it includes the clearing of the pool and the waking of the
cleaner. `Begin` has one guard that is the callers': an id that a timeout has
cut off from the pool is not used again while its task still runs.

### `Startup` — `manager/src/main.rs`, `interface/src/network.rs`, `nodes_heart.rs`

How a network comes up, while interfaces are started and
stopped one after another and managers and nodes stay. `Generate` and `Track` are the manager's
two handlers; `Start`, `Join`, `Connected`, `BroadcastSetup` with `ContactNext`,
`CountReady` and `Begin` are `init_network` and what it waits for; the rest is
`NodesHeart`: `Listen` is `message_listener` up to its subscription, `TakeKeys`,
`TakeSetup`, `ReadSize` and `CountKey` are `key_waiter`, `Setup` and `ReceiveKey`
the handlers of the two messages. A message is lost if its receiver is dead, not
yet listening (the handler's task panics: `deaf`), or has its `senders` locked
for good (`locked`: `get_waiter` takes the lock twice). `Stop` is
the user's, at any time. A process id is a number, and `AsU16` is what the manager
reads of it.

### `Experiment`, `Evaluation` — `config_treatment`, `interface/src/{main,process}.rs`

`Experiment` is the plan: which block, step, algo and value of each field comes
next (`NextIndices` is `Variation::next`, `Evolve` is `Variation::evolve` with what
calls it), what fields an operation is given and under which indices its result
is recorded. `Evaluation` runs it: `Job` gives the fields of the next operation,
`StartAwaited` and `ResultAwaited` are `start_operation_and_wait`, `Spam`,
`OpenRound`, `ResultCounted` and `EndRound` are `debit_evaluation`, with the
subtraction of the outputs a round has counted from the operations it has
started (`Underflows`: a debug build panics, a release build goes on), and
`NewProcess` and `HandleNodeOutput` are the hearts', with the share sets they
keep. What nodes do among themselves in an operation is one step of each.

### `Polynomials`, `Scheme`, `Shares` — `nodes/src/crypto` and its callers

The arithmetic of the shares as pure operators over a field of 97 elements,
which has the 2^5 roots of unity that the domains need: `BatchDomain`,
`Subdomain`, `serial_fft`, `accumulator_poly`, the Lagrange coefficients,
interpolation at zero, at a root and everywhere, KZG commitments with proofs
and the low degree test, as the code computes them and not as a textbook
defines them. `Shares` then deals and rebuilds: its actions are what a dealer
computes, and what a node does with the first messages that are enough for it,
where every set of enough messages may be the first.

## 3. Runs

| Run | Instance | Shows |
|---|---|---|
| `rb_safety` | n = 4 | `OneOutput`, `NoShareTwice`, `NeverStarved`, `QuietMeansFinished`; implements `BroadcastPromise` (`KeepsPromise`) |
| `rb_live` | n = 3, fair | every node is handed the message (`KeepsPromiseInTheEnd`) |
| `rb_starved` | n = 5, *violation* | `decode` can run on too few shares |
| `bingo` | n = 4, t = 1, one node without a line, one Byzantine | nobody leaves before T+1 correct lines are out (`LeavingFixesTheSecret`), a node without shares has sent its rows (`EmptyHandedSentRows`), everybody leaves and reports (`EveryoneLeavesInTheEnd`) |
| `bingo_no_share` | n = 4, honest dealer, *violation* | a node can leave without shares |
| `lightweight` | n = 7, t = 2, two nodes not served, one of them Byzantine | `LeavingMeansShared`, `LeavesWithAShare`, `OnlyLateManagersCrash`, `EveryoneLeavesInTheEnd` |
| `operations` | n = 5, t = 1, honest or corrupted dealer, one Byzantine; reconstructions of 3, 4 and 7 nodes; dispersals of 1 and 2 parts; a clean of 2 nodes with up to 2 messages each | a sharing is fixed before anyone leaves (`HavenIsFixed`, `AvssSharesInPlace`, `HbIsFixed`), a distribution reaches most nodes before any output (`DistributedToMost`), one output of exactly enough shares (`ReconstructsOnce`), a decoder has its parts (`DecodesEnough`), a counted clean has all messages (`CountedMeansArrived`), and each of them ends but for the cases that are named (`OperationEnds`); in HbAvss all leave that were in time for the dispersal (`InTimeLeave`) |
| `taskpool` | 2 ids started twice, 2 cleans, one message for each id, fair | maps agree (`PoolMirrorsStates`), no lost wake-up (`NoLostWakeup`, `NotifierIsHeard`), no lost output without a timeout, refusals have a reason, timed cleans end (`EveryTimedCleanEnds`) |
| `startup` | a network of 2 on two managers, or two networks of 1 in turn; small and large process ids | `KeysAreInPlace`, `OperationsFindKeys`, `ComesUpUnlessLate`, `SmallIdsAreKilled` |
| `evaluation` | three experiments: up to 3 algos, 2 steps, 3 varied fields, debit blocks around a latency block | share sets are of one sharing and there when needed (`ShareSetsInPlace`), a latency is of its own operation (`LatenciesAreOwn`), everything planned is measured and recorded under its own indices (`TestedAsPlanned`), once (`NothingTwice`), and the experiment is over in the end unless a share set is missing or a debit round after the first counts outputs of an earlier one (`ExperimentEnds`) |
| `shares` | nine cases of n in {4, 5, 7}, t in {1, 2}, batch in {1, 2, 5} | `HeldSharesAreDealt`, `SecretComesBack`, `OnlyCorruptRowsFail`, `DealersPassTheTest` |
| `low_degree` | n = 5, t = 1, *violation* | the low degree test accepts one degree more |

**Bounds and why they are enough.** The modules of the sharings have no artificial
bound: each message is sent once, so a run explores all of an operation, and
only the number of nodes is small. For the broadcast n = 4 has a node more than
the quorum 2T+1 = 3 needs, so a quorum may miss a node, and Readies may come
before Echoes; n = 3 has all nodes needed, the hardest case for liveness. For
Bingo, n = 4 with one node lacking a line and another Byzantine
leaves exactly T+1 correct lines, the least the protocol supports. For
LightWeight two nodes that were not served are needed for complaints, answers and
recoveries to interleave, which takes n = 7. For the other sharings n = 5 with one
node left out and one Byzantine has exactly 2T+1 nodes that are served and follow
the protocol, and its n/3 differs from the quorums of t; Haven leaves out n = 2^k,
where its last node panics (see `Shares` below). A reconstruction of three
nodes has t = 0 and awaits nobody, four and seven have one and two shares
to wait for and more senders than that. In a clean two peers, one of them the node
itself, with two messages each let a summary come before, between and after the
messages it counts. The pool has two
named bounds, `MaxRuns` (an id is started again after it has closed) and
`MaxMail`; two ids, two cleans and two runs let a second clean take the first
one's place, a timer fire late over a new task, and an id be reused. `Startup`
has as bounds the runs of the interface and the size of their networks (`Plans`);
two nodes exchange keys in each order, and also in a second run that
a node of the first has joined, which the run with networks of one contains.
`Evaluation` has `MaxFlight`, operations in flight, and `MaxCount`, outputs
counted in a debit round: three and two let an operation be left behind by a
round while others run, and a round count less than the one before. Its
experiments put an algo that does not support a step between two that do, vary
one field after another, mix Bingo with another algo, and have blocks of a
kind that are not next to each other. `Shares` has domains that are
full (four nodes) and not (five, seven), for the special case in the code, and
`FFTThresh` is 6 instead of 64 so that both products of polynomials are used.

**Symmetry** is used in invariant runs only, over nodes that the dealer serves
alike; the runs with temporal properties have none, except `KeepsPromise` in
`rb_safety`, which is a safety property (its fairness is in `rb_live`).

**Where a system may stop.** Every operation ends, and so a state without a
successor is no fault by itself. Where a stop would be one there is a property
for it: `QuietMeansFinished`, `EveryoneLeavesInTheEnd`, `OperationEnds`,
`ExperimentEnds`, `ComesUpUnlessLate`. They say what must have happened when nothing
is left to do. `Quiet` spells out what that is, handler by handler: nothing is
under way that a task would take, and no task is past what it waits for. A message
that may be lost is not waited for: in HbAvss all is quiet with or without the
Proposes that have not been handled. That it
leaves out no state which stops is checked as well: in the runs `bingo`,
`lightweight`, `operations` and `evaluation` a state may stay as it is if it is
`Quiet` (`StoppingSpec` in the MC modules), and TLC reports every other state
without a successor as a deadlock. In `startup`, where the user can always stop the
interface, `StoppingSpec` lets that be the only step of a state just if it is
`Quiet`. For the broadcast `Quiet` says that no message is in flight, and its
steps are the receipts of messages. Deadlock checking is off in the other runs: a
pool where nobody starts another task, shares that have been put together, and the
broadcasts and violations.

In the protocol modules each step raises a count, a phase or a set, so there is no
infinite run and these properties are "eventually" without an assumption on
fairness beyond progress. In `Evaluation` a debit round may go on spamming for ever,
as in the code, where the end of a round is a timer; there the property says that
nothing else stops an experiment. In `Startup` the runs of the interface are given,
and each step uses up something of a run.

**Fairness.** `rb_live` assumes weak fairness of each node's `Receive`: the
runtime runs every task spawned for a message, and each takes the memory's lock
in turn. The pool assumes it of `HandleEndingTask` (one task loops over the
channel), of the second half of `wait_and_send` and of the timer task; none of
starting tasks or of tasks' outputs, which the code does not promise.

### What the violation runs show

1. `rb_starved`. `output()` runs at the (2t+1)-th Ready, but a node relays a
   Ready with an *empty* share if it has heard t+1 Readies before its first Echo.
   With n = 3t+2 so many nodes can do so that the decoder has only t shares and
   `decode` panics. The comment at `broadcast_memory.rs:167` takes the 2t+1 Echoes
   to guarantee the t+1 shares. `DecodeNeverStarves` proves that
   no other n is exposed.
2. `bingo_no_share`. `done_manager` takes the first request only, and the one
   `col_manager` sends has no shares; a node whose columns arrive before its
   line is verified leaves without shares, against the assertion kept as a
   comment at `node/node.rs:440`.
3. `low_degree`. `get_dual_code_word` (`vss/common.rs:95`) draws `n - deg - 2`
   coefficients for a polynomial that its comment says has degree `n - deg - 2`.
   The test then accepts commitments of degree `deg + 1` for every draw.

### Other places where code and intention part

The models follow the code in each of these; where a property would be false
of it, the property names the exception.

- **Bingo's reconstruction never outputs.** The broadcast shares carry no
  randomness, of which the verification takes the first: the task of every
  share panics (`bingo/reconstruct.rs`; `CanReconstruct`).
- **Badger's reconstruction panics**: its sharing keeps no share
  (`CanReconstruct`).
- **Reconstruction with t = 0** waits for a share of another node to notice that
  its own is enough, but takes none (`CanReconstruct`).
- **Haven interpolates at the wrong place**: the dealer ties a node's
  polynomial at the number of the node, the node asks for the root of that number
  plus one. The value is another one, zero if the node of that root is among the
  senders, and the last of 2^k nodes panics; a node whose number is not below the
  batch size gets an empty share, since a loop over the nodes runs over the batch
  (`HeldSharesAreDealt`).
- **HbAvss**: `assist_manager` waits for the end-of-processing message of
  LightWeight, which is never sent, so that a node left out by a corrupted dealer
  keeps its bad share; if one node alone complains, it never leaves. A second
  retrieve can be answered before it subscribes and is then lost
  (`OperationEnds`, `DispersalEnds`).
- **A dispersal loses what comes too early.** `disperse_retrieve/listener.rs:36-48`
  drops a Propose or an Echo if the task that takes it has not subscribed yet, and
  a manager that has a share for `messages_handler` before that has subscribed
  panics (`memory.rs:84-88`). Nothing is sent again: such a node does not echo,
  or never has its share and never leaves. What is claimed of HbAvss is that all
  the *other* nodes leave, if t nodes have had their Propose and 2t+1 correct ones
  are in time (`InTimeLeave`). A manager that has panicked also costs the
  report of a node that leaves by the other one; reports of HbAvss are not
  modelled. With t = 0 the dealer panics over the length of a message modulo t
  (`reed_solomon_code.rs:63`), and nothing is dispersed (`Deals`).
- **SMD's t is `n / 3`** while the dealer serves n - t of the configuration's
  t. If n/3 is larger (six nodes with t = 1), a node's share can reach it before
  its Propose, and the answer to a complaint unwraps a root proof that is
  not there (`smd_memory.rs:332`); the output of the node is then never reported.
  `ProofsAtHand` has the other case as its hypothesis.
- **A clean with a count** (`clean(Some(k))`) returns at once whenever no task
  runs (`task_pool.rs:226`), though the method's doc (357) promises to wait for k
  processes; `TaskPool` keeps it
  (`CleanAtOnce`).
- **Nothing sends a Clean.** `clean_the_pools` of the interface only sleeps for 30
  seconds (`interface/src/main.rs:364`; two of its three calls are commented out), so
  no heart is sent `NodeCommand::Clean`, and `GiveSumm` and the summaries, which only
  `NodesHeart::clean` starts, are not reached at this commit. `Cleaning` is about
  that code as it stands, after an operation that a Clean follows. Messages are
  counted in every operation all the same.
- **A heart that clears its network before `clean` has subscribed** locks itself
  up for good: `get_waiter` takes the lock of `senders` twice (`CleanEnds`).
- **A node tells its manager its process id with 32 bits, the
  manager reads 16** (`manager/src/main.rs:84`). With an id above 65535, which
  Linux gives on 64-bit machines, `kill -9` goes to another id and the node joins
  in with the next network (`SmallIdsAreKilled`).
- **An interface that starts beside a late heart waits for ever**: three tasks
  may subscribe later than the message they need comes (`ComesUpUnlessLate`).
- **`configs/README.md` says that all combinations are tested**; fields other
  than the main one are varied one at a time, and with Bingo among the algos the
  batch size is a third of n for all of them, but for the first measurement
  (`TestedAsPlanned`, `Planned`).
- **A debit round subtracts** the outputs that it has counted from the operations it
  has started (`interface/src/main.rs:288`), in `usize`. Outputs of operations that
  an earlier round has left are counted too, after a sleep and no clean, so that the
  difference can be negative: a debug build panics and the experiment never ends.
  It cannot in the first round of the first debit, when nothing is left of an
  earlier one (`AfterARound` in `ExperimentEnds`).
- **A share set is looked up by n, t and algo**, not by the batch size
  (`crypto_set.rs`), and the first one is kept: where a block varies the batch size, a
  reconstruction can take a set of another batch. `ShareSetsInPlace` says that
  the nodes have sets of one sharing, not that it was of that batch.
- **After a debit block** an operation left behind may be taken for the one that
  is awaited, so that a reconstruction may find no share set (`stale` in
  `ShareSetsInPlace`). Latencies are measured first and do not suffer from it.

## 4. Proofs

All proofs are for every finite set of nodes (or of tasks and cleans, or of
peers), with the assumptions named in the modules: at least three nodes for the
broadcast, at least four for SMD; any `T` (in Haven not zero), any `Served` or
`Dealt` and any `Byz` with `3T < n` for the protocols; any numbers of nodes,
parts and messages for the steps of one node; any number of managers, process ids
and sizes of networks for a start; every list of blocks and any number
of operations for an experiment. Where a theorem has a hypothesis of its own, it
is named below with what happens without it.

**`ReliableBroadcastProofs`** — `TypeCorrect`, `EchoQuorumFirst`,
`OneOutputEach`, `PromiseKept`, `DecodeNeverStarves`, `NoShardAddedTwice`,
`QuietNodesAreFinished`. The heart of the matter is
why nobody is handed the message before a quorum of Echoes: each node counts a
Ready *of its own* at its first Echo, so the count of Readies is not evidence of
Readies sent. The strengthening relates each node's counters to the messages
received: Readies counted are Readies sent to it plus its own; a node that has relayed on
Readies alone has T+1 of them, at most one its own, so another relayed before
(`CommitInv`). For `NeverStarved` it adds that the decoder holds every non-empty
Ready counted (`ShareInv`), and that when the first Ready was sent at least 2T+1
nodes held their share, or were past Echo, so that at most n - 2T - 1 nodes can
be `bare` (`EnoughShares`). `NoShardAddedTwice` says where each share of a decoder
came from: a Ready that is no longer on its way, or the node's own Echo
(`SharesCameOnce`). `QuietNodesAreFinished` rests on the Echoes and Readies that
came being counted (`EndInv`): Echoes go to all nodes at once, so a node that
still counts them has been sent as many as the one that counted a quorum, and
relays; hence all nodes relay, and each one that is not done counts n Readies with
its own. A node that is done may drop its Propose without an Echo to anyone; that
it has counted 2T+1 Readies shows that the Echoes were enough before. The theorem's
hypothesis is that the dealer serves 2T+1 nodes, which n - t is for the t below n/3
that a configuration gives; otherwise nobody counts a quorum and nothing is output.
`PromiseKept` is the refinement of `BroadcastPromise`.

**`BingoProofs`** — `TypeCorrect`, `EmptyHandedRows`, `SecretFixed`,
`EveryoneLeaves`. Each count
rests on an earlier one: Dones on announcements, an announcement on an own
line, on rows or on columns, rows on columns, columns on lines of correct nodes
(`Grounded`). The proof needs every one of these links, since a request
may still be queued when the node it came from has moved on. `EveryoneLeaves` has as
hypotheses that the dealer leaves out at most T nodes, as the code's does, and that
at most T are Byzantine. Where all is quiet T+1 correct nodes have sent their
columns, the nodes that were served if nobody has left, and by `SecretFixed` if somebody
has. So every node has sent rows, if it is still there. With its rows goes a request,
and the first request a node takes it announces (`EndInv`); every node has
announced, all that are not Byzantine have sent a Done, and those are 2T+1.

**`TaskPoolProofs`** — `TypeCorrect`, `PoolMirrored`, `WakeupsAreKept`,
`NotifierHeard`, `OutputsKept`, `RefusalsHaveReasons`. `OutputsKept` needs that either a clean has
timed out, or every id that is alive or has its output queued is recorded
as running, and queued only once (`OutputsInv`): a normal clean forgets states
only when the pool is empty. `RefusalsHaveReasons` needs that a message which has
passed its wait finds its task in the pool, or a reason has come in between, and
that reasons stay (`Reasons`).

**`LightWeightProofs`** — `TypeCorrect`, `LeavesWithOne`, `LeavingAfterSharing`,
`ProofsAtHand`, `EveryoneLeaves`. The strengthening says which managers, phases and shares go
together (`Shapes`, `Fits`), that who sent an Ok holds a good share and keeps
it (`OkIsGood`), that a first vote stands on 2T+1 Oks (`VoteHasOks`), and that a
share stands on n - S Proposes (`SharesFollowProposals`). `ProofsAtHand` has the
hypothesis that the dealer serves at most n - n/3 nodes; without it a served node
may lack the root proof it unwraps, as told above. `EveryoneLeaves` assumes that the
dealer serves n - n/3 nodes, which SMD waits for, and among them 2T+1 that are not
Byzantine (`EnoughServed`). Every node has its share then and every correct one has
sent its Ok, so that the vote has ended everywhere (`QuietVote`). Nobody is held up
after that: a node that was served leaves at once, or answers a complaint first if
the dealer is corrupted, and there are T+1 good answers for those that were not
served (`QuietAnswers`, `QuietLeft`). The second part, that outputs reach the
heart too, is the property that the run checks. It needs that no listener panics,
and so the hypothesis of `ProofsAtHand`, unless the dealer serves everybody.

**`ProtocolProofs`, `OperationsProofs`** — eight theorems about
`Operations`. Each protocol has its inductive invariant with four lemmas: it
holds at the start, is preserved by the protocol's steps, stays when its
variables do, and implies the property. `OperationsProofs` puts them together:
an operation's protocol takes the steps (`ProtocolStep`), the others are as they
started (`UntouchedStep`), which the properties that are not about `proto`
need.

- `NodesLeaveHavenFixed`: every Ready stands on an earlier one or on 2T+1
  Echoes, hence on the Echoes; whoever leaves has had a Ready. The echo path to
  the output, of T+1 Echoes, is the one that needs it (`HavenInv`).
- `NodesLeaveWithShares`: signatures come from nodes that have saved their
  share, and the list covers the others (`AvssInv`).
- `NodesLeaveHbFixed`: who sent an Ok is served, is not Byzantine and keeps its
  good share; a first vote stands on 2T+1 Oks; with a corrupted dealer only the
  complaint of another node lets a node leave (`HbInv`).
- `OutputsAreDistributed`: the calls of `try_to_output` are the thresholds passed
  (of the first of the parts and the second of the votes), and a first vote
  stands on N-S Proposes (`SMDInv`).
- `NodesReconstructOnce`: inserted shares and running tasks never exceed what is
  needed, since the loop counts a share before it spawns its task (`RecInv`).
- `DecodingHasEnough`: a request for the output stands in the channel behind all
  the shares of the manager that sent it, so it is read when `parts` different
  shares have been added, whatever the other manager has sent or missed in
  between (`Covered`, `RequestsCovered`; the lemmas `Pushed` and `Popped` are
  about the two ends of the channel).
- `CountsAreComplete`: until the first clearing, the number of senders left is
  that of the peers not heard in full, or is not known, and a peer's messages are
  counted or on their way (`Counts`).
- `OperationsEnd`: each protocol has a second invariant for what is left to do
  (`HavenEnd`, `AvssEnd`, `HbEnd`, `SMDEnd`, `RecEnd`, `DREnd`, `ClEnd`) with lemmas of
  the same form and one which says that the protocol ends where it is quiet
  (`HavenEnds` and so on). The hypothesis is that a dealer leaves out at most T nodes
  (`EnoughServed`), as the dealers of the code do. Two ideas carry most of it. A count
  that all nodes make of messages to all is passed by all of them or by none, so
  that a node which has left vouches for those that have not: its Echoes, its
  signatures, its votes are there (`HavenEnds`, `HbEnds`, `SMDEnds`). And what a task
  waits for is somewhere on its way until it has been taken: a share in a task or
  in the set (`RecEnd`), a request in the handler's channel (`DREnd`), a notice or a
  timer that still runs (`ClEnd`). The cases in which an operation does not end are
  the property's, among those listed above. In HbAvss the votes of the correct
  nodes that were in time are enough for all to end the vote, and those that were
  in time have what else they need to leave, while the others keep no share and stay
  (`HbEndAt`, `HbEnds`).

**`StartupProofs`** — `TypeCorrect`, `SmallIdsKilled`, `KeysInPlace`, `KeysFound`,
`NetworkComesUp`.

- `SmallIdsKilled`: the id of a node that lives, if a u16 can hold it, is tracked by
  its manager unless the manager has yet to read it (`TrackInv`), so that the next
  order kills every such node; the ones it starts are of the run that goes on.
- `KeysInPlace`: a node joins once, so that it is in at most one list that is sent,
  is set up once and sends its keys once (`KnownInv`, `OnceInv`, `ListsInv`); nodes that a
  manager has yet to start are unborn and nobody knows them. The place that
  a setup gives a node's key is that of the node in the list, the same for all
  receivers, so that a key under way, queued or counted has the place of its sender
  (`PlacesInv`); and no key is in two of these states (`ApartInv`), so that a key
  never meets a place that is taken.
- `KeysFound`: the managers' quotas for a network of n make n nodes
  (`TakesOfNetwork`), so a run that has counted a Ready of n of its own nodes has
  heard all of them (`CountInv`), and a Ready follows n - 1 keys of different nodes of the
  list (`KeysInv`). Equal numbers then make the keys those of the whole network, which
  the lemma `FullSubset` says of finite sets.
- `NetworkComesUp`: that an interface waits for ever is the fault of a late heart,
  for any network. The quotas make no fewer than n nodes either (`NetworkIsTaken`), and
  a node of the run lives and has connected, or is about to (`HereInv`), so the
  interface does not wait for connections. Every node that it has contacted has lost the
  message, is locked, has a Setup waiting or has its network (`ToldInv`). A node that
  is set up has sent its key to all of its list, and each of them has it, has it on its
  way, has lost a message or has counted all (`SentInv`); and a waiter that counts lacks
  a key (`CountingInv`). Where all is quiet and nobody late, these leave only that every
  node is ready and its Ready counted.

**`EvaluationProofs`** — `OwnLatencies`, `SetsAreInPlace`, `NothingMeasuredTwice`,
`MeasuredAsPlanned`, `ExperimentsEnd`, for every list of blocks. The first four rest on `StageInv`, which says what stage the interface may be in at which
block, and that the points of a curve and the operations left to measure add up to
`hmt`: it is why an evolution and the end of a turn come together.

- `OwnLatencies`: blocks of one kind follow each other, debits last (`Follows`), so
  nothing but the awaited operation is ever in flight while latencies are measured
  (`AloneInv`).
- `SetsAreInPlace`: a share set that not all nodes have is of the operation that is
  awaited, all others are of identities that all nodes have, and a stage that runs
  reconstructions, or many operations at once, comes after a sharing of their
  identity (`SetsInv`). It is why the interface must await a sharing before it
  spams.
- `NothingMeasuredTwice`: blocks come in the order of kind and place, and a
  block's indices in that of step, algo, field, value of the field and value of
  main (`Ahead`, `AheadIsOrder`); what has been recorded comes before what is run
  (`OrderInv`), so each result is new.
- `MeasuredAsPlanned`: `Variation::next` leads to the *next* of the indices whose pair is
  supported, whichever of its five counters moves (`NextOfPair`, `NextAfterPair`), and
  after the last block of a kind exactly the blocks before it are passed
  (`NextArgPasses`). So the indices recorded are those before the current ones
  (`RecordsInv`), under settings that are theirs, blocks not begun having those of
  their first indices (`SettingsInv`). The hypothesis `FirstPairsFit`, which the
  run's experiments meet (`MCEvaluation` assumes it), excludes two kinds of blocks: one
  whose first algo has not the first step, at which `insert_result` panics, and
  one that lists Reconstruct before Sharing, whose first measures are of a
  sharing (`set_eval`) but recorded as Reconstruct.
- `ExperimentsEnd`: the operation that is awaited is in flight, and outputs are of
  nodes that run their operation (`FlyingInv`). So if no node panics, an operation
  whose nodes have all done has ended, and the interface has something left to do:
  to take the result, or to start the next operation, as what is in flight is
  bounded by at least one (`BoundsAssumption`). That it has not panicked before a
  round of a debit has ended takes a count (`RoundInv`): nothing is in flight when
  the first debit begins to spam, so what is in flight and what has been
  counted together are no more than what was started, and a round that has ended
  leaves a count or a measure for good (`RoundsStay`).

**Checked by TLC only:** liveness under fairness (`KeepsPromiseInTheEnd`,
`EveryTimedCleanEnds`), which is out of the prover's reach; that `Quiet` is
true of every state without a successor, which is about `ENABLED`; and `Shares`, as
`Polynomials` has a recursive operator and its properties are arithmetic over a
field. Every other property of a passing run is a theorem.

## 5. What is abstracted

In the protocol modules shares, lines, proofs and commitments are whether they
verify; what they contain is in `Shares`. A Byzantine node
does what `is_byz` makes this code do, not anything it likes; a corrupted dealer
leaves t nodes out, as the code's dealers do. A protocol that takes a message
when enough have come takes it when enough have been *sent* by those who send to
all, since messages may be late but are not lost. Channels with a capacity are
unbounded. The network loses nothing, as connections are TCP and the testbed has
no recovery; delay and reordering are without limit. What a task loses because it
subscribes too late is modelled where the code drops it: in `Startup`,
`DisperseRetrieve` and `HbAvss`.
In `Startup`, killing a process that is not a node has no effect, and the keys
themselves are the nodes they are of. Times, sizes and the measurement output
are left out.

In `Shares`, all that is computed is linear in what a dealer draws, so
polynomials with a single coefficient stand for all of them, and one more without a
zero is there for what might cancel by chance. A group element is its logarithm, so
a KZG commitment is a value at `Tau`, and a proof verifies as the pairing
does. A field of 97 elements makes chance equalities possible that the real one
has not; none of the properties depends on one, as they hold.

`Experiment` takes experiments that `configs/README.md` allows: each algo of a
block supports one of its steps, the first algo the first step, and there is at
least one value for each field.

## 6. What is not modelled

- The encryption of shares with its zero-knowledge proofs, signatures and Merkle
  trees (`crypto_lib/vss/ni_vss`, `data_structures`, `enc_dec.rs`): their
  correctness is arithmetic over large groups, beyond bounded checking. The
  models keep whether they verify.
- Sockets, encodings of messages and the macros that route them
  (`global_lib/src/network`, `sendable_proc_macros`). The models take from them that
  a message is delivered once and in any order.
- Parsing of the JSON configurations and the files of results; command lines.
- Capacities of channels: that outputs are sent to redirections with the pool's
  lock held is listed as a hazard without a property.
- Unused code: `node_sender.rs`, `process_pool.rs`, Feldman's scheme,
  the scheduled and other variants of products of polynomials, batch openings and
  `evaluate_on_x`.
- Plots, scripts and playbooks.
