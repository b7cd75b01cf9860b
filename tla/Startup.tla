------------------------------ MODULE Startup ------------------------------
(***************************************************************************)
(* How a network comes up: the interface orders node processes from the    *)
(* managers, waits until enough have connected, sends them the list of     *)
(* their addresses, and waits until they have exchanged their keys.  The   *)
(* interface may be stopped and started again at any time; the managers    *)
(* stay, and when the next order comes they kill the processes whose ids   *)
(* they have been told.                                                    *)
(*                                                                         *)
(* A message is under way until the handler of its receiver runs.  It is   *)
(* lost if it finds nobody to connect to.  The tasks that NodesHeart::new  *)
(* spawns subscribe to their channels in their own time; a message for the *)
(* heart goes through its message_listener.  An address is a node here.    *)
(***************************************************************************)
EXTENDS Integers, FiniteSets, Sequences

CONSTANTS
    Managers,  \* number of managers
    Plans,     \* how often the interface is started, and for how large a
               \* network each time: get_maximum_network_size()
    MaxSize,   \* bound: the largest of these networks
    Pids       \* the process ids that the machines give to their nodes

ASSUME StartupAssumption ==
    /\ Managers \in Nat \ {0} /\ MaxSize \in Nat
    /\ \A p \in Plans : p \in Seq(1 .. MaxSize)

Manager == 1 .. Managers

(* A network of n nodes takes so many of manager m: they are dealt out in  *)
(* turn.                                                                   *)
Quota(n, m) == (n + Managers - m) \div Managers

(* The k-th node that manager m starts for a run of the interface.         *)
Node == UNION {(1 .. Len(p)) \X {m} \X (1 .. Quota(MaxSize, m)) :
                  p \in Plans, m \in Manager}
RunOf(x) == x[1]
Home(x) == x[2]

ASSUME PidsAssumption ==
    \A p \in Pids : /\ p \in [Node -> Nat]
                   /\ \A x, y \in Node :
                        x # y /\ Home(x) = Home(y) => p[x] # p[y]

(* A node tells its manager std::process::id(), a u32, and the manager     *)
(* reads a u16: it takes the first two bytes of the four.                  *)
Short == 65536  \* 2^16
AsU16(id) == id % Short

VARIABLES
    plan,       \* the member of Plans that comes to pass
    pid,        \* the member of Pids that does
    phase,      \* of the interface: "down", "connecting", "setup",
                \* "waiting" (for the Readies) or "running"
    run,        \* runs of the interface so far
    orders,     \* managers that a Gen is under way to
    ips,        \* Seq(Node): network.ips of the interface
    invited,    \* Seq(Node): the addresses in its Setup
    contacted,  \* how many of them the broadcast of Setup is done with
    readyCount, \* ready_counter
    misled,     \* this run has heard of a node of an earlier one
    alive,      \* nodes whose process runs
    tracked,    \* the ids in the managers' lists: <<manager, id>>
    hello,      \* nodes whose Connect to their manager is under way
    joining,    \* nodes whose Connect to the interface is under way
    listening,  \* nodes whose message_listener has subscribed
    waiter,     \* [Node -> stage of key_waiter]
    setups,     \* Setups that wait for their handler: <<node, ips>>
    network,    \* [Node -> Seq(Node)]: network.ips of the node
    keys,       \* Keys under way: <<index, of, to>>
    queue,      \* [Node -> Keys in its channel]: <<index, of>>
    counted,    \* [Node -> Keys counted]
    readies,    \* nodes whose NodeReady is under way
    deaf,       \* nodes that have lost a message before listening
    locked      \* nodes whose `senders' is locked for good

Size == plan[run]

given == <<plan, pid>>
interface == <<given, phase, run, ips, invited, contacted, readyCount, misled>>
machines == <<orders, alive, tracked, hello>>
heart == <<listening, waiter, network, queue, counted, deaf, locked>>
vars == <<interface, machines, heart, joining, setups, keys, readies>>

Stage == {"new", "keys", "setup", "told", "counting", "ready", "failed"}

Init ==
    /\ plan \in Plans /\ pid \in Pids
    /\ phase = "down" /\ run = 0 /\ orders = {}
    /\ ips = <<>> /\ invited = <<>> /\ contacted = 0 /\ readyCount = 0
    /\ misled = FALSE
    /\ alive = {} /\ tracked = {} /\ hello = {} /\ joining = {}
    /\ listening = {} /\ waiter = [x \in Node |-> "new"]
    /\ setups = {} /\ network = [x \in Node |-> <<>>]
    /\ keys = {}
    /\ queue = [x \in Node |-> {}] /\ counted = [x \in Node |-> {}]
    /\ readies = {} /\ deaf = {} /\ locked = {}

-----------------------------------------------------------------------------
(* The interface starts: generate_nodes.  What was on its way to the one   *)
(* before it is not lost if it comes later than this.                      *)
Start ==
    /\ phase = "down" /\ run < Len(plan)
    /\ phase' = "connecting" /\ run' = run + 1
    /\ orders' = {m \in Manager : Quota(plan[run + 1], m) > 0}
    /\ UNCHANGED <<given, ips, invited, contacted, readyCount, misled, alive,
                   tracked, hello, heart, joining, setups, keys, readies>>

Stop ==
    /\ phase # "down"
    /\ phase' = "down"
    /\ orders' = {}
    /\ ips' = <<>> /\ invited' = <<>> /\ contacted' = 0
    /\ readyCount' = 0 /\ misled' = FALSE
    /\ UNCHANGED <<given, run, alive, tracked, hello, heart, joining, setups,
                   keys, readies>>

(* Manager: kill -9 of the processes with the tracked ids, then the new    *)
(* ones are spawned.  A node that is killed sends nothing any more, and    *)
(* its state is gone.  The variant leaves them alone.                      *)
Spawned(m) == {run} \X {m} \X (1 .. Quota(Size, m))

Spawn(m, killed) ==
    /\ m \in orders
    /\ orders' = orders \ {m}
    /\ tracked' = {t \in tracked : t[1] # m}
    /\ alive' = (alive \ killed) \cup Spawned(m)
    /\ hello' = hello \cup Spawned(m)
    /\ joining' = (joining \ killed) \cup Spawned(m)
    /\ readies' = readies \ killed
    /\ setups' = {s \in setups : s[1] \notin killed}
    /\ keys' = {k \in keys : k[2] \notin killed}
    /\ waiter' = [x \in Node |-> IF x \in killed THEN "new" ELSE waiter[x]]
    /\ network' = [x \in Node |-> IF x \in killed THEN <<>> ELSE network[x]]
    /\ queue' = [x \in Node |-> IF x \in killed THEN {} ELSE queue[x]]
    /\ counted' = [x \in Node |-> IF x \in killed THEN {} ELSE counted[x]]
    /\ listening' = listening \ killed
    /\ deaf' = deaf \ killed /\ locked' = locked \ killed
    /\ UNCHANGED interface

SpawnOnly(m) == Spawn(m, {})
Generate(m) ==
    Spawn(m, {x \in alive : Home(x) = m /\ <<m, pid[x]>> \in tracked})

(* add_node of the manager.                                                *)
Track(x) ==
    /\ x \in hello
    /\ hello' = hello \ {x}
    /\ tracked' = tracked \cup {<<Home(x), AsU16(pid[x])>>}
    /\ UNCHANGED <<interface, orders, alive, heart, joining, setups, keys,
                   readies>>

(* Seen by the interface that runs.                                        *)
Notice(x) ==
    misled' = (misled \/ (phase # "down" /\ RunOf(x) # run))

(* add_node of the interface, in every phase.                              *)
Join(x) ==
    /\ x \in joining
    /\ joining' = joining \ {x}
    /\ ips' = IF phase = "down" THEN ips ELSE Append(ips, x)
    /\ Notice(x)
    /\ UNCHANGED <<given, phase, run, invited, contacted, readyCount, machines,
                   heart, setups, keys, readies>>

(* wait_for_nodes_connection, which ends with a shuffle.                   *)
Orders(s) == {p \in [1 .. Len(s) -> {s[k] : k \in 1 .. Len(s)}] :
                 \A k, l \in 1 .. Len(s) : k # l => p[k] # p[l]}

Connected ==
    /\ phase = "connecting" /\ Len(ips) >= Size
    /\ phase' = "setup"
    /\ ips' \in Orders(ips)
    /\ UNCHANGED <<given, run, invited, contacted, readyCount, misled, machines,
                   heart, joining, setups, keys, readies>>

(* broadcast_setup_message: the nodes are contacted one after another, and *)
(* a failure to connect ends the broadcast.                                *)
BroadcastSetup ==
    /\ phase = "setup"
    /\ phase' = "waiting"
    /\ invited' = ips /\ contacted' = 0
    /\ UNCHANGED <<given, run, ips, readyCount, misled, machines, heart,
                   joining, setups, keys, readies>>

(* NodesHeart::new_message: a message for a node that runs, and is heard   *)
(* by its message_listener.  One that is not makes its task panic.         *)
Heard(x) == x \in alive /\ x \in listening /\ x \notin locked
Unheard(x) == deaf' = IF x \in alive \ listening THEN deaf \cup {x} ELSE deaf

ContactNext ==
    /\ contacted < Len(invited)
    /\ LET x == invited[contacted + 1]
       IN /\ contacted' = IF x \in alive THEN contacted + 1 ELSE Len(invited)
          /\ setups' = IF Heard(x) THEN setups \cup {<<x, invited>>} ELSE setups
          /\ Unheard(x)
    /\ UNCHANGED <<given, phase, run, ips, invited, readyCount, misled,
                   machines, joining, listening, waiter, network, queue,
                   counted, locked, keys, readies>>

-----------------------------------------------------------------------------
(* The heart's tasks take up their channels.  key_waiter first takes Key,  *)
(* then SetupOver.  A task that wants a lock that is never freed stops.    *)
Listen(x) ==
    /\ x \in alive \ (listening \cup locked)
    /\ listening' = listening \cup {x}
    /\ UNCHANGED <<interface, machines, waiter, network, queue, counted, deaf,
                   locked, joining, setups, keys, readies>>

SetWaiter(x, from, to) ==
    /\ x \in alive
    /\ waiter[x] = from
    /\ waiter' = [waiter EXCEPT ![x] = to]
    /\ UNCHANGED <<interface, machines, listening, network, deaf, locked,
                   joining, setups, keys>>

TakeKeys(x) ==
    /\ x \notin locked
    /\ SetWaiter(x, "new", "keys")
    /\ UNCHANGED <<queue, counted, readies>>

TakeSetup(x) ==
    /\ x \notin locked
    /\ SetWaiter(x, "keys", "setup")
    /\ UNCHANGED <<queue, counted, readies>>

(* It goes on with the size that the network has when it looks.            *)
ReadSize(x) ==
    /\ SetWaiter(x, "told", "counting")
    /\ UNCHANGED <<queue, counted, readies>>

(* setup: its key to every address of the list, with its place in it, then *)
(* SetupOver for those who listen.  wait_for_channel does not wait for     *)
(* key_waiter, as message_listener is in that channel as well.  Variants:  *)
(* a place that is one too large, and no key for the node itself.          *)
PlaceFromOne(x, list) == 1 + CHOOSE k \in 1 .. Len(list) : list[k] = x
Place(x, list) == CHOOSE k \in 1 .. Len(list) : list[k] = x

SetUpWith(x, list, addressees) ==
    /\ <<x, list>> \in setups
    /\ setups' = setups \ {<<x, list>>}
    /\ network' = [network EXCEPT ![x] = @ \o list]
    /\ keys' = keys \cup {<<Place(x, list), x, y>> : y \in addressees}
    /\ waiter' = [waiter EXCEPT ![x] = IF @ = "setup" THEN "told" ELSE @]
    /\ UNCHANGED <<interface, machines, listening, queue, counted, deaf,
                   locked, joining, readies>>

Listed(list) == {list[k] : k \in 1 .. Len(list)}
SetupOfOthers(x, list) == SetUpWith(x, list, Listed(list) \ {x})
Setup(x, list) == SetUpWith(x, list, Listed(list))

(* new_key: its wait_for_channel locks `senders' twice if key_waiter has   *)
(* not taken the channel yet.  Later than that the key goes into it.       *)
ReceiveKey(k) ==
    LET x == k[3]
    IN /\ k \in keys
       /\ keys' = keys \ {k}
       /\ Unheard(x)
       /\ locked' = IF Heard(x) /\ waiter[x] = "new"
                    THEN locked \cup {x} ELSE locked
       /\ queue' = IF Heard(x) /\ waiter[x] \notin {"new", "ready", "failed"}
                   THEN [queue EXCEPT ![x] = @ \cup {<<k[1], k[2]>>}] ELSE queue
       /\ UNCHANGED <<interface, machines, listening, waiter, network, counted,
                      joining, setups, readies>>

(* key_waiter takes a key.  It panics if it has the key of that place, or  *)
(* if there is no such place.  With the last one it sends NodeReady.       *)
CountKey(x, key) ==
    LET fails == \/ key[1] > Len(network[x])
                 \/ \E c \in counted[x] : c[1] = key[1]
        last == ~fails /\ Cardinality(counted[x]) + 1 = Len(network[x])
    IN /\ key \in queue[x]
       /\ queue' = [queue EXCEPT ![x] = @ \ {key}]
       /\ SetWaiter(x, "counting", IF fails THEN "failed"
                                   ELSE IF last THEN "ready" ELSE "counting")
       /\ counted' = IF fails THEN counted
                     ELSE [counted EXCEPT ![x] = @ \cup {key}]
       /\ readies' = IF last THEN readies \cup {x} ELSE readies

(* new_ready of the interface, whoever sends it.                           *)
CountReady(x) ==
    /\ x \in readies
    /\ readies' = readies \ {x}
    /\ readyCount' = IF phase = "down" THEN readyCount ELSE readyCount + 1
    /\ Notice(x)
    /\ UNCHANGED <<given, phase, run, ips, invited, contacted, machines, heart,
                   joining, setups, keys>>

(* wait_for_ready polls for exactly Size of them.  The variant does with   *)
(* one less.                                                               *)
BeginWith(enough) ==
    /\ phase = "waiting" /\ enough
    /\ phase' = "running"
    /\ UNCHANGED <<given, run, ips, invited, contacted, readyCount, misled,
                   machines, heart, joining, setups, keys, readies>>

BeginSooner == BeginWith(readyCount + 1 >= Size)
Begin == BeginWith(readyCount = Size)

NodeStep(x) ==
    \/ Track(x) \/ Join(x)
    \/ Listen(x) \/ TakeKeys(x) \/ TakeSetup(x) \/ ReadSize(x)
    \/ \E s \in setups : s[1] = x /\ Setup(x, s[2])
    \/ \E key \in queue[x] : CountKey(x, key)
    \/ CountReady(x)

Work ==
    \/ \E m \in Manager : Generate(m)
    \/ Connected \/ BroadcastSetup \/ ContactNext \/ Begin
    \/ \E k \in keys : ReceiveKey(k)
    \/ \E x \in Node : NodeStep(x)

Next == Start \/ Stop \/ Work

Spec == Init /\ [][Next]_vars

-----------------------------------------------------------------------------
InterfaceOK ==
    /\ plan \in Plans /\ pid \in Pids
    /\ phase \in {"down", "connecting", "setup", "waiting", "running"}
    /\ run \in 0 .. Len(plan)
    /\ ips \in Seq(Node) /\ invited \in Seq(Node)
    /\ contacted \in 0 .. Len(invited)
    /\ readyCount \in Nat /\ misled \in BOOLEAN

MachinesOK ==
    /\ orders \subseteq Manager
    /\ tracked \subseteq Manager \X (0 .. Short - 1)
    /\ alive \subseteq Node /\ hello \subseteq Node
    /\ joining \subseteq alive /\ readies \subseteq alive
    /\ setups \subseteq alive \X Seq(Node)

HeartOK ==
    /\ listening \subseteq Node /\ deaf \subseteq Node /\ locked \subseteq Node
    /\ waiter \in [Node -> Stage]
    /\ network \in [Node -> Seq(Node)]
    /\ keys \subseteq Nat \X Node \X Node
    /\ queue \in [Node -> SUBSET (Nat \X Node)]
    /\ counted \in [Node -> SUBSET (Nat \X Node)]

TypeOK == InterfaceOK /\ MachinesOK /\ HeartOK

(* A node has the key of the right node at each place that it has counted, *)
(* and the assertion that the place is free never fails: the senders and   *)
(* the receiver have the same list, although keys overtake Setups and      *)
(* interfaces come and go.                                                 *)
KeysAreInPlace ==
    \A x \in Node :
        /\ waiter[x] # "failed"
        /\ \A c \in counted[x] : network[x][c[1]] = c[2]

(* An operation is only started on nodes that know the keys of all in the  *)
(* network and their own place in it, which new_process unwraps and slices,*)
(* unless this run has heard of nodes of an earlier one.                   *)
Equipped(x) ==
    /\ network[x] = ips
    /\ {c[2] : c \in counted[x]} = {ips[k] : k \in 1 .. Len(ips)}

OperationsFindKeys ==
    phase = "running" /\ ~misled
      => \A k \in 1 .. Size : Equipped(ips[k])

(* Nothing is left for the interface, the managers or the nodes to do: what *)
(* is under way has come, and every task waits for something else.         *)
Idle(x) ==
    /\ x \in listening \cup locked
    /\ waiter[x] \in {"new", "keys"} => x \in locked
    /\ waiter[x] # "told"
    /\ waiter[x] = "counting" => queue[x] = {}

Quiet ==
    /\ orders = {} /\ hello = {} /\ joining = {}
    /\ setups = {} /\ keys = {} /\ readies = {}
    /\ \A x \in alive : Idle(x)
    /\ phase # "setup" /\ contacted = Len(invited)
    /\ phase = "connecting" => Len(ips) < Size
    /\ phase = "waiting" => readyCount # Size

(* A run that hears of no earlier node comes up, unless a task of a heart  *)
(* has come too late: for the message that message_listener should hear,   *)
(* for the key of another node, or for the heart's own Setup.              *)
Late(x) ==
    \/ x \in deaf \cup locked
    \/ waiter[x] = "setup" /\ network[x] # <<>>

ComesUpUnlessLate ==
    phase # "down" /\ ~misled /\ Quiet
      => phase = "running" \/ \E k \in 1 .. Len(ips) : Late(ips[k])

(* What README.md says of a manager, that it kills nodes as instructed: a  *)
(* node of an earlier run that has told it its process id is gone when the *)
(* new nodes are there.  This holds of the ids that a u16 can hold.        *)
GoneAfterOrder(x) ==
    RunOf(x) < run /\ Home(x) \in orders \ orders' /\ phase' # "down"
      => x \notin alive'

SmallIdsAreKilled ==
    [][\A x \in alive \ hello : pid[x] < Short => GoneAfterOrder(x)]_vars
=============================================================================
