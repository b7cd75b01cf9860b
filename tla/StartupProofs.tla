--------------------------- MODULE StartupProofs ---------------------------
(***************************************************************************)
(* Theorems about Startup, for any number of managers, any networks and    *)
(* any process ids.                                                        *)
(***************************************************************************)
EXTENDS Startup, FiniteSetTheorems, SequenceTheorems, TLAPS

-----------------------------------------------------------------------------
(* Arithmetic of dealing the nodes of a network out to the managers.       *)
LEMMA DivisionBounds ==
    ASSUME NEW a \in Nat, NEW b \in Nat \ {0}
    PROVE  /\ a \div b \in Nat
           /\ (a \div b) * b <= a /\ a < (a \div b) * b + b
OBVIOUS

LEMMA DivisionOrder ==
    ASSUME NEW a \in Nat, NEW b \in Nat, a <= b, NEW c \in Nat \ {0}
    PROVE  a \div c <= b \div c
<1>. DEFINE x == a \div c
            y == b \div c
<1>1. x \in Nat /\ y \in Nat /\ x * c <= a /\ b < y * c + c
  BY DivisionBounds
<1>. HIDE DEF x, y
<1>2. ASSUME y + 1 <= x PROVE FALSE
  <2>1. PICK d \in Nat : x = y + 1 + d
    <3>1. x - (y + 1) \in Nat /\ x = y + 1 + (x - (y + 1))
      BY <1>1, <1>2
    <3>. QED  BY <3>1
  <2>2. x * c = y * c + c + d * c /\ d * c >= 0
    BY <1>1, <2>1
  <2>. QED  BY <1>1, <2>2
<1>3. x <= y
  BY <1>1, <1>2
<1>. QED  BY <1>3 DEF x, y

(* A larger network takes no fewer nodes of a manager.                     *)
LEMMA QuotaGrows ==
    ASSUME NEW n \in 0..MaxSize, NEW m \in Manager
    PROVE  /\ Quota(n, m) \in Nat /\ Quota(MaxSize, m) \in Nat
           /\ Quota(n, m) <= Quota(MaxSize, m)
<1>1. /\ Managers \in Nat \ {0} /\ MaxSize \in Nat
      /\ n + Managers - m \in Nat /\ MaxSize + Managers - m \in Nat
      /\ n + Managers - m <= MaxSize + Managers - m
  BY StartupAssumption DEF Manager
<1>. QED  BY <1>1, DivisionBounds, DivisionOrder DEF Quota

(* The managers' quotas of a network of n are no more than n nodes: they   *)
(* take every place of it at most once.                                    *)
Takes(n) == {x \in Manager \X (Nat \ {0}) : x[2] <= Quota(n, x[1])}
PlaceOf(x) == (x[2] - 1) * Managers + x[1]

LEMMA TakesOfNetwork ==
    ASSUME NEW n \in Nat
    PROVE  IsFiniteSet(Takes(n)) /\ Cardinality(Takes(n)) <= n
<1>. DEFINE f == [x \in Takes(n) |-> PlaceOf(x)]
<1>0. Managers \in Nat \ {0}
  BY StartupAssumption
<1>1. ASSUME NEW x \in Takes(n) PROVE PlaceOf(x) \in 1..n
  <2>1. /\ x[1] \in 1..Managers /\ x[2] \in Nat \ {0}
        /\ x[2] <= Quota(n, x[1]) /\ n + Managers - x[1] \in Nat
    BY <1>0 DEF Takes, Manager
  <2>2. /\ Quota(n, x[1]) \in Nat
        /\ Quota(n, x[1]) * Managers <= n + Managers - x[1]
    BY <1>0, <2>1, DivisionBounds DEF Quota
  <2>3. PICK d \in Nat : Quota(n, x[1]) = x[2] + d
    <3>1. /\ Quota(n, x[1]) - x[2] \in Nat
          /\ Quota(n, x[1]) = x[2] + (Quota(n, x[1]) - x[2])
      BY <2>1, <2>2
    <3>. QED  BY <3>1
  <2>4. Quota(n, x[1]) * Managers = x[2] * Managers + d * Managers
    BY <1>0, <2>1, <2>3
  <2>5. d * Managers >= 0 /\ x[2] * Managers \in Nat /\ d * Managers \in Nat
    BY <1>0, <2>1, <2>3
  <2>6. PlaceOf(x) = x[2] * Managers - Managers + x[1]
    BY <1>0, <2>1 DEF PlaceOf
  <2>7. (x[2] - 1) * Managers \in Nat
    BY <1>0, <2>1
  <2>. QED  BY <1>0, <2>1, <2>2, <2>4, <2>5, <2>6, <2>7 DEF PlaceOf
<1>2. ASSUME NEW x \in Takes(n), NEW y \in Takes(n), PlaceOf(x) = PlaceOf(y)
      PROVE  x = y
  <2>1. /\ x[1] \in 1..Managers /\ y[1] \in 1..Managers
        /\ x[2] \in Nat \ {0} /\ y[2] \in Nat \ {0}
        /\ x = <<x[1], x[2]>> /\ y = <<y[1], y[2]>>
    BY DEF Takes, Manager
  <2>2. \A a, b \in Nat \ {0} : \A k, l \in 1..Managers :
          (a - 1) * Managers + k = (b - 1) * Managers + l => a <= b
    <3>. SUFFICES ASSUME NEW a \in Nat \ {0}, NEW b \in Nat \ {0},
                         NEW k \in 1..Managers, NEW l \in 1..Managers,
                         (a - 1) * Managers + k = (b - 1) * Managers + l,
                         b + 1 <= a
                  PROVE  FALSE
      OBVIOUS
    <3>1. PICK d \in Nat : a = b + 1 + d
      <4>1. a - (b + 1) \in Nat /\ a = b + 1 + (a - (b + 1))
        OBVIOUS
      <4>. QED  BY <4>1
    <3>2. (a - 1) * Managers = (b - 1) * Managers + Managers + d * Managers
      BY <1>0, <3>1
    <3>3. d * Managers \in Nat /\ (b - 1) * Managers \in Nat
      BY <1>0, <3>1
    <3>. QED  BY <1>0, <3>2, <3>3
  <2>3. x[2] = y[2]
    BY <1>2, <2>1, <2>2 DEF PlaceOf
  <2>4. x[1] = y[1]
    <3>1. (x[2] - 1) * Managers \in Nat
      BY <1>0, <2>1
    <3>. QED  BY <1>0, <1>2, <2>1, <2>3, <3>1 DEF PlaceOf
  <2>. QED  BY <2>1, <2>3, <2>4
<1>3. f \in Injection(Takes(n), 1..n)
  <2>1. f \in [Takes(n) -> 1..n]
    BY <1>1
  <2>2. \A x, y \in Takes(n) : f[x] = f[y] => x = y
    BY <1>2
  <2>. QED  BY <2>1, <2>2 DEF Injection, IsInjective
<1>4. IsFiniteSet(1..n) /\ Cardinality(1..n) = n
  BY FS_Interval
<1>. HIDE DEF f
<1>5. IsFiniteSet(Takes(n)) /\ Cardinality(Takes(n)) <= Cardinality(1..n)
  BY <1>3, <1>4, FS_Injection
<1>. QED  BY <1>4, <1>5

-----------------------------------------------------------------------------
(* Lists of nodes.                                                         *)
NoDup(s) == \A k, l \in 1 .. Len(s) : k # l => s[k] # s[l]

LEMMA ListedAre ==
    ASSUME NEW S, NEW s \in Seq(S)
    PROVE  /\ Listed(s) \subseteq S
           /\ Len(s) \in Nat
           /\ s = <<>> <=> Len(s) = 0
           /\ Listed(<<>>) = {}
BY DEF Listed

LEMMA OrdersAre ==
    ASSUME NEW S, NEW s \in Seq(S), NEW p \in Orders(s)
    PROVE  /\ p \in Seq(S) /\ Len(p) = Len(s)
           /\ Listed(p) \subseteq Listed(s) /\ NoDup(p)
<1>. DEFINE n == Len(s)
            T == {s[k] : k \in 1 .. n}
<1>1. n \in Nat /\ T \subseteq S
  OBVIOUS
<1>2. p \in [1 .. n -> T] /\ \A k, l \in 1 .. n : k # l => p[k] # p[l]
  BY DEF Orders
<1>3. p \in Seq(T) /\ Len(p) = n
  BY <1>1, <1>2, SeqDef
<1>4. p \in Seq(S)
  BY <1>1, <1>3, SeqMonotonic
<1>. QED  BY <1>1, <1>2, <1>3, <1>4 DEF Listed, NoDup

LEMMA PlaceIs ==
    ASSUME NEW S, NEW s \in Seq(S), NEW x \in Listed(s)
    PROVE  /\ Place(x, s) \in 1 .. Len(s) /\ Place(x, s) \in Nat
           /\ s[Place(x, s)] = x
<1>1. \E k \in 1 .. Len(s) : s[k] = x
  BY DEF Listed
<1>2. Place(x, s) \in 1 .. Len(s) /\ s[Place(x, s)] = x
  BY <1>1 DEF Place
<1>. QED  BY <1>2

LEMMA AppendedAre ==
    ASSUME NEW S, NEW s \in Seq(S), NEW x \in S
    PROVE  /\ Append(s, x) \in Seq(S) /\ Len(Append(s, x)) = Len(s) + 1
           /\ Listed(Append(s, x)) = Listed(s) \cup {x}
           /\ \A k \in 1 .. Len(s) : Append(s, x)[k] = s[k]
           /\ NoDup(s) /\ x \notin Listed(s) => NoDup(Append(s, x))
<1>1. /\ Append(s, x) \in Seq(S) /\ Len(Append(s, x)) = Len(s) + 1
      /\ Len(s) \in Nat
      /\ \A k \in 1 .. Len(s) : Append(s, x)[k] = s[k]
      /\ Append(s, x)[Len(s) + 1] = x
  BY AppendProperties
<1>2. \A k \in 1 .. Len(s) + 1 : k \in 1 .. Len(s) \/ k = Len(s) + 1
  BY <1>1
<1>3. \A k : k \in 1 .. Len(s) => k \in 1 .. Len(s) + 1
  BY <1>1
<1>4. Len(s) + 1 \in 1 .. Len(s) + 1
  BY <1>1
<1>. QED  BY <1>1, <1>2, <1>3, <1>4 DEF Listed, NoDup
-----------------------------------------------------------------------------
(* Type correctness.                                                       *)
LEMMA NodeParts ==
    ASSUME NEW x \in Node
    PROVE  /\ x[1] \in Nat \ {0} /\ x[2] \in Manager /\ x[3] \in Nat \ {0}
           /\ x = <<x[1], x[2], x[3]>>
<1>1. PICK p \in Plans, m \in Manager :
        x \in (1 .. Len(p)) \X {m} \X (1 .. Quota(MaxSize, m))
  BY DEF Node
<1>2. Len(p) \in Nat
  BY StartupAssumption
<1>3. Quota(MaxSize, m) \in Nat
  <2>1. MaxSize \in 0 .. MaxSize
    BY StartupAssumption
  <2>. QED  BY <2>1, QuotaGrows
<1>. QED  BY <1>1, <1>2, <1>3

LEMMA SizeIsBounded ==
    ASSUME plan \in Plans, run \in 1 .. Len(plan)
    PROVE  Size \in 1 .. MaxSize /\ Len(plan) \in Nat
BY StartupAssumption DEF Size

LEMMA SpawnedAreNodes ==
    ASSUME plan \in Plans, run \in 1 .. Len(plan), NEW m \in Manager
    PROVE  /\ Spawned(m) \subseteq Node
           /\ \A x \in Spawned(m) : /\ RunOf(x) = run /\ Home(x) = m
                                    /\ x[3] <= Quota(Size, m)
<1>1. Size \in 1 .. MaxSize /\ MaxSize \in Nat
  BY SizeIsBounded, StartupAssumption
<1>2. /\ Quota(Size, m) \in Nat /\ Quota(MaxSize, m) \in Nat
      /\ Quota(Size, m) <= Quota(MaxSize, m)
  BY <1>1, QuotaGrows
<1>3. ASSUME NEW x \in Spawned(m)
      PROVE  x \in (1 .. Len(plan)) \X {m} \X (1 .. Quota(MaxSize, m))
  BY <1>2, <1>3 DEF Spawned
<1>4. Spawned(m) \subseteq Node
  <2>. DEFINE Of(p, q) == (1 .. Len(p)) \X {q} \X (1 .. Quota(MaxSize, q))
  <2>. SUFFICES ASSUME NEW x \in Spawned(m) PROVE x \in Node
    OBVIOUS
  <2>1. x \in Of(plan, m)
    BY <1>3
  <2>2. Node = UNION {Of(p, q) : p \in Plans, q \in Manager}
    BY DEF Node
  <2>. HIDE DEF Of
  <2>. QED  BY <2>1, <2>2
<1>5. ASSUME NEW x \in Spawned(m)
      PROVE  RunOf(x) = run /\ Home(x) = m /\ x[3] <= Quota(Size, m)
  BY <1>2, <1>5 DEF Spawned, RunOf, Home
<1>. QED  BY <1>4, <1>5

LEMMA ShortIds ==
    ASSUME NEW id \in Nat
    PROVE  /\ AsU16(id) \in 0 .. Short - 1
           /\ id < Short => AsU16(id) = id
<1>1. Short \in Nat \ {0}
  BY DEF Short
<1>. QED  BY <1>1 DEF AsU16

LEMMA PlanIsTyped ==
    ASSUME InterfaceOK
    PROVE  /\ Len(plan) \in Nat /\ run \in Nat /\ run <= Len(plan)
           /\ Len(ips) \in Nat /\ Len(invited) \in Nat /\ contacted \in Nat
<1>1. plan \in Seq(1 .. MaxSize)
  BY StartupAssumption DEF InterfaceOK
<1>. QED  BY <1>1 DEF InterfaceOK

LEMMA TypeStart == Init => TypeOK
<1>. SUFFICES ASSUME Init PROVE TypeOK
  OBVIOUS
<1>1. <<>> \in Seq(Node) /\ Len(<<>>) = 0
  BY EmptySeq
<1>2. Len(plan) \in Nat
  BY StartupAssumption DEF Init
<1>3. InterfaceOK
  <2>1. ips \in Seq(Node) /\ invited \in Seq(Node) /\ Len(invited) = 0
    BY <1>1 DEF Init
  <2>2. /\ plan \in Plans /\ pid \in Pids /\ phase = "down" /\ run = 0
        /\ contacted = 0 /\ readyCount = 0 /\ misled = FALSE
    BY DEF Init
  <2>3. contacted \in 0 .. Len(invited) /\ run \in 0 .. Len(plan)
    BY <1>2, <2>1, <2>2
  <2>. QED  BY <2>1, <2>2, <2>3 DEF InterfaceOK
<1>4. MachinesOK
  BY DEF Init, MachinesOK
<1>5. HeartOK
  BY <1>1 DEF Init, HeartOK, Stage
<1>. QED  BY <1>3, <1>4, <1>5 DEF TypeOK

(* Each part of the types is left alone by the steps of the other parts.   *)
LEMMA InterfaceStep ==
    ASSUME TypeOK, [Next]_vars
    PROVE  InterfaceOK'
<1>. USE DEF interface, given, InterfaceOK, TypeOK
<1>0. /\ Len(plan) \in Nat /\ run \in Nat /\ run <= Len(plan)
      /\ Len(ips) \in Nat /\ Len(invited) \in Nat /\ contacted \in Nat
      /\ <<>> \in Seq(Node) /\ Len(<<>>) = 0
  BY PlanIsTyped, EmptySeq
<1>1. CASE UNCHANGED interface
  BY <1>1
<1>2. CASE Start
  BY <1>0, <1>2 DEF Start
<1>3. CASE Stop
  <2>1. ips' \in Seq(Node) /\ invited' \in Seq(Node) /\ Len(invited') = 0
    BY <1>0, <1>3 DEF Stop
  <2>2. /\ phase' = "down" /\ contacted' = 0 /\ readyCount' = 0
        /\ misled' = FALSE /\ UNCHANGED <<plan, pid, run>>
    BY <1>3 DEF Stop
  <2>3. contacted' \in 0 .. Len(invited')
    BY <2>1, <2>2
  <2>. QED  BY <2>1, <2>2, <2>3
<1>4. CASE Connected
  <2>1. ips' \in Seq(Node)
    BY <1>4, OrdersAre DEF Connected
  <2>. QED  BY <1>0, <1>4, <2>1 DEF Connected
<1>5. CASE BroadcastSetup
  BY <1>0, <1>5 DEF BroadcastSetup
<1>6. CASE ContactNext
  BY <1>0, <1>6 DEF ContactNext
<1>7. CASE Begin
  BY <1>7 DEF Begin, BeginWith
<1>8. ASSUME NEW x \in Node, Join(x) PROVE InterfaceOK'
  BY <1>0, <1>8, AppendedAre DEF Join, Notice
<1>9. ASSUME NEW x \in Node, CountReady(x) PROVE InterfaceOK'
  BY <1>9 DEF CountReady, Notice
<1>10. CASE \E m \in Manager : Generate(m)
  BY <1>1, <1>10 DEF Generate, Spawn
<1>11. CASE \E k \in keys : ReceiveKey(k)
  BY <1>1, <1>11 DEF ReceiveKey
<1>12. ASSUME NEW x \in Node, Track(x) \/ Listen(x)
       PROVE  UNCHANGED interface
  BY <1>12 DEF Track, Listen
<1>13. ASSUME NEW x \in Node, TakeKeys(x) \/ TakeSetup(x) \/ ReadSize(x)
       PROVE  UNCHANGED interface
  BY <1>13 DEF TakeKeys, TakeSetup, ReadSize, SetWaiter
<1>14. ASSUME NEW x \in Node, NEW s, Setup(x, s)
       PROVE  UNCHANGED interface
  BY <1>14 DEF Setup, SetUpWith
<1>15. ASSUME NEW x \in Node, NEW key, CountKey(x, key)
       PROVE  UNCHANGED interface
  BY <1>15 DEF CountKey, SetWaiter
<1>16. CASE UNCHANGED vars
  BY <1>1, <1>16 DEF vars
<1>. HIDE DEF interface, given, InterfaceOK, TypeOK
<1>. QED
  BY <1>1, <1>2, <1>3, <1>4, <1>5, <1>6, <1>7, <1>8, <1>9, <1>10, <1>11,
     <1>12, <1>13, <1>14, <1>15, <1>16 DEF Next, Work, NodeStep

LEMMA GenerateIsSpawn ==
    ASSUME TypeOK, NEW m \in Manager, Generate(m)
    PROVE  \E killed \in SUBSET alive :
             /\ Spawn(m, killed)
             /\ \A x \in alive : x \in killed <=> /\ Home(x) = m
                                                  /\ <<m, pid[x]>> \in tracked
<1>. DEFINE killed == {x \in alive : Home(x) = m /\ <<m, pid[x]>> \in tracked}
<1>1. killed \in SUBSET alive /\ Spawn(m, killed)
  BY DEF Generate
<1>2. \A x \in alive : x \in killed <=> /\ Home(x) = m
                                        /\ <<m, pid[x]>> \in tracked
  OBVIOUS
<1>. HIDE DEF killed
<1>. QED  BY <1>1, <1>2

LEMMA ContactIs ==
    ASSUME TypeOK, ContactNext
    PROVE  \E k \in 1 .. Len(invited) :
             /\ k = contacted + 1 /\ invited[k] \in Node
             /\ contacted' \in k .. Len(invited)
             /\ invited[k] \notin alive => contacted' = Len(invited)
             /\ \/ setups' = setups
                \/ /\ Heard(invited[k])
                   /\ setups' = setups \cup {<<invited[k], invited>>}
             /\ deaf' \subseteq deaf \cup {invited[k]}
<1>. DEFINE k == contacted + 1
            x == invited[k]
<1>1. k \in 1 .. Len(invited) /\ x \in Node /\ Len(invited) \in Nat
  BY PlanIsTyped DEF ContactNext, TypeOK, InterfaceOK
<1>2. /\ contacted' = IF x \in alive THEN contacted + 1 ELSE Len(invited)
      /\ setups' = IF Heard(x) THEN setups \cup {<<x, invited>>} ELSE setups
      /\ deaf' = IF x \in alive \ listening THEN deaf \cup {x} ELSE deaf
  BY DEF ContactNext, Unheard
<1>3. /\ contacted' \in k .. Len(invited)
      /\ x \notin alive => contacted' = Len(invited)
  BY <1>1, <1>2
<1>4. deaf' \subseteq deaf \cup {x}
  BY <1>2
<1>5. \/ setups' = setups
      \/ Heard(x) /\ setups' = setups \cup {<<x, invited>>}
  BY <1>2
<1>6. k = contacted + 1
  OBVIOUS
<1>. HIDE DEF k
<1>. QED  BY <1>1, <1>3, <1>4, <1>5, <1>6

(* An order is only under way while the interface runs, and a node is only *)
(* sent lists that it is in.                                               *)
RunsOK ==
    /\ phase # "down" => run > 0
    /\ phase = "down" => orders = {}
    /\ \A s \in setups : s[1] \in Listed(s[2])

LEMMA OrderedWhileUp ==
    ASSUME TypeOK, RunsOK, NEW m \in orders
    PROVE  /\ plan \in Plans /\ run \in 1 .. Len(plan) /\ m \in Manager
           /\ Size \in 1 .. MaxSize
           /\ Spawned(m) \subseteq Node
           /\ \A x \in Spawned(m) : /\ RunOf(x) = run /\ Home(x) = m
                                    /\ x[3] <= Quota(Size, m)
<1>1. plan \in Plans /\ run \in 1 .. Len(plan) /\ m \in Manager
  <2>1. run > 0 /\ m \in Manager
    BY DEF TypeOK, MachinesOK, RunsOK
  <2>. QED  BY <2>1, PlanIsTyped DEF TypeOK, InterfaceOK
<1>. QED  BY <1>1, SizeIsBounded, SpawnedAreNodes

LEMMA MachinesStep ==
    ASSUME TypeOK, RunsOK, [Next]_vars
    PROVE  MachinesOK'
<1>. DEFINE same == UNCHANGED <<machines, joining, readies, setups>>
<1>. USE DEF MachinesOK, TypeOK
<1>1. CASE same
  BY <1>1 DEF machines
<1>2. CASE Start
  BY <1>2 DEF Start
<1>3. CASE Stop
  BY <1>3 DEF Stop
<1>4. ASSUME NEW m \in Manager, Generate(m) PROVE MachinesOK'
  <2>1. PICK killed \in SUBSET alive : Spawn(m, killed)
    BY <1>4, GenerateIsSpawn
  <2>2. Spawned(m) \subseteq Node
    BY <2>1, OrderedWhileUp DEF Spawn
  <2>3. ASSUME NEW s \in setups
        PROVE  s[1] \in alive /\ s = <<s[1], s[2]>> /\ s[2] \in Seq(Node)
    BY <2>3
  <2>4. setups' \subseteq alive' \X Seq(Node)
    BY <2>1, <2>3 DEF Spawn
  <2>. QED  BY <2>1, <2>2, <2>4 DEF Spawn
<1>5. CASE Connected
  BY <1>1, <1>5 DEF Connected
<1>6. CASE BroadcastSetup
  BY <1>1, <1>6 DEF BroadcastSetup
<1>7. CASE ContactNext
  <2>1. invited \in Seq(Node)
    BY DEF InterfaceOK
  <2>2. PICK k \in 1 .. Len(invited) :
          \/ setups' = setups
          \/ /\ Heard(invited[k])
             /\ setups' = setups \cup {<<invited[k], invited>>}
    BY <1>7, ContactIs
  <2>3. setups' \subseteq alive \X Seq(Node)
    BY <2>1, <2>2 DEF Heard
  <2>. QED  BY <1>7, <2>3 DEF ContactNext, machines
<1>8. CASE Begin
  BY <1>1, <1>8 DEF Begin, BeginWith
<1>9. CASE \E k \in keys : ReceiveKey(k)
  BY <1>1, <1>9 DEF ReceiveKey
<1>10. ASSUME NEW x \in Node, Track(x) PROVE MachinesOK'
  <2>1. Home(x) \in Manager
    BY NodeParts DEF Home
  <2>2. pid[x] \in Nat
    <3>1. pid \in Pids
      BY DEF InterfaceOK
    <3>. QED  BY <3>1, PidsAssumption
  <2>3. AsU16(pid[x]) \in 0 .. Short - 1
    BY <2>2, ShortIds
  <2>4. tracked' = tracked \cup {<<Home(x), AsU16(pid[x])>>}
    BY <1>10 DEF Track
  <2>5. tracked' \subseteq Manager \X (0 .. Short - 1)
    BY <2>1, <2>3, <2>4
  <2>. QED  BY <1>10, <2>5 DEF Track
<1>11. ASSUME NEW x \in Node, Join(x) PROVE MachinesOK'
  BY <1>11 DEF Join, machines
<1>12. ASSUME NEW x \in Node, CountReady(x) PROVE MachinesOK'
  BY <1>12 DEF CountReady, machines
<1>13. ASSUME NEW x \in Node, Listen(x) PROVE same
  BY <1>13 DEF Listen
<1>14. ASSUME NEW x \in Node, TakeKeys(x) \/ TakeSetup(x) \/ ReadSize(x)
       PROVE  same
  BY <1>14 DEF TakeKeys, TakeSetup, ReadSize, SetWaiter
<1>15. ASSUME NEW x \in Node, NEW s, Setup(x, s) PROVE MachinesOK'
  BY <1>15 DEF Setup, SetUpWith, machines
<1>16. ASSUME NEW x \in Node, NEW key, CountKey(x, key) PROVE MachinesOK'
  <2>1. x \in alive
    BY <1>16 DEF CountKey, SetWaiter
  <2>. QED  BY <1>16, <2>1 DEF CountKey, SetWaiter, machines
<1>17. CASE UNCHANGED vars
  BY <1>1, <1>17 DEF vars
<1>. HIDE DEF same, MachinesOK, TypeOK
<1>. QED
  BY <1>1, <1>2, <1>3, <1>4, <1>5, <1>6, <1>7, <1>8, <1>9, <1>10, <1>11,
     <1>12, <1>13, <1>14, <1>15, <1>16, <1>17 DEF Next, Work, NodeStep

LEMMA HeartStep ==
    ASSUME TypeOK, RunsOK, [Next]_vars
    PROVE  HeartOK'
<1>. DEFINE same == UNCHANGED <<heart, keys>>
<1>. USE DEF HeartOK, TypeOK
<1>1. CASE same
  BY <1>1 DEF heart
<1>2. CASE Start \/ Stop \/ Connected \/ BroadcastSetup \/ Begin
  BY <1>1, <1>2 DEF Start, Stop, Connected, BroadcastSetup, Begin, BeginWith
<1>3. ASSUME NEW m \in Manager, Generate(m) PROVE HeartOK'
  <2>1. PICK killed \in SUBSET alive : Spawn(m, killed)
    BY <1>3, GenerateIsSpawn
  <2>2. /\ listening' \subseteq Node /\ deaf' \subseteq Node
        /\ locked' \subseteq Node /\ keys' \subseteq Nat \X Node \X Node
    BY <2>1 DEF Spawn
  <2>3. waiter' \in [Node -> Stage]
    BY <2>1 DEF Spawn, Stage
  <2>4. network' \in [Node -> Seq(Node)]
    BY <2>1, EmptySeq DEF Spawn
  <2>5. /\ queue' \in [Node -> SUBSET (Nat \X Node)]
        /\ counted' \in [Node -> SUBSET (Nat \X Node)]
    BY <2>1 DEF Spawn
  <2>. QED  BY <2>2, <2>3, <2>4, <2>5
<1>4. CASE ContactNext
  <2>1. deaf' \subseteq Node
    <3>1. invited[contacted + 1] \in Node
      BY <1>4, PlanIsTyped DEF ContactNext, InterfaceOK
    <3>. QED  BY <1>4, <3>1 DEF ContactNext, Unheard
  <2>. QED  BY <1>4, <2>1 DEF ContactNext
<1>5. ASSUME NEW k \in keys, ReceiveKey(k) PROVE HeartOK'
  <2>1. k[1] \in Nat /\ k[2] \in Node /\ k[3] \in Node
    OBVIOUS
  <2>2. deaf' \subseteq Node /\ locked' \subseteq Node /\ keys' \subseteq keys
    BY <1>5, <2>1 DEF ReceiveKey, Unheard
  <2>3. queue' \in [Node -> SUBSET (Nat \X Node)]
    BY <1>5, <2>1 DEF ReceiveKey
  <2>. QED  BY <1>5, <2>2, <2>3 DEF ReceiveKey
<1>6. ASSUME NEW x \in Node, Track(x) \/ Join(x) \/ CountReady(x) PROVE same
  BY <1>6 DEF Track, Join, CountReady
<1>7. ASSUME NEW x \in Node, Listen(x) PROVE HeartOK'
  BY <1>7 DEF Listen
<1>8. ASSUME NEW x \in Node, TakeKeys(x) \/ TakeSetup(x) \/ ReadSize(x)
      PROVE  HeartOK'
  <2>1. waiter' \in [Node -> Stage]
    BY <1>8 DEF TakeKeys, TakeSetup, ReadSize, SetWaiter, Stage
  <2>. QED  BY <1>8, <2>1 DEF TakeKeys, TakeSetup, ReadSize, SetWaiter
<1>9. ASSUME NEW x \in Node, NEW s \in setups, s[1] = x, Setup(x, s[2])
      PROVE  HeartOK'
  <2>. DEFINE l == s[2]
  <2>1. l \in Seq(Node)
    BY DEF MachinesOK
  <2>2. network' \in [Node -> Seq(Node)]
    <3>1. network[x] \o l \in Seq(Node)
      BY <2>1, ConcatProperties
    <3>. QED  BY <1>9, <3>1 DEF Setup, SetUpWith
  <2>3. waiter' \in [Node -> Stage]
    BY <1>9 DEF Setup, SetUpWith, Stage
  <2>4. keys' \subseteq Nat \X Node \X Node
    <3>1. Listed(l) \subseteq Node
      BY <2>1, ListedAre
    <3>2. Place(x, l) \in Nat
      BY <1>9, PlaceIs DEF RunsOK, MachinesOK
    <3>. QED  BY <1>9, <3>1, <3>2 DEF Setup, SetUpWith
  <2>. QED  BY <1>9, <2>2, <2>3, <2>4 DEF Setup, SetUpWith
<1>10. ASSUME NEW x \in Node, NEW key \in queue[x], CountKey(x, key)
       PROVE  HeartOK'
  <2>1. waiter' \in [Node -> Stage]
    BY <1>10 DEF CountKey, SetWaiter, Stage
  <2>2. /\ queue' \in [Node -> SUBSET (Nat \X Node)]
        /\ counted' \in [Node -> SUBSET (Nat \X Node)]
    BY <1>10 DEF CountKey
  <2>. QED  BY <1>10, <2>1, <2>2 DEF CountKey, SetWaiter
<1>11. CASE UNCHANGED vars
  BY <1>1, <1>11 DEF vars
<1>. HIDE DEF same, HeartOK, TypeOK
<1>. QED
  BY <1>1, <1>2, <1>3, <1>4, <1>5, <1>6, <1>7, <1>8, <1>9, <1>10, <1>11
     DEF Next, Work, NodeStep

LEMMA RunsStep ==
    ASSUME TypeOK, RunsOK, [Next]_vars
    PROVE  RunsOK'
<1>. DEFINE same == UNCHANGED <<phase, run, orders, setups>>
<1>. USE DEF RunsOK
<1>1. CASE same
  BY <1>1
<1>2. CASE Start
  BY <1>2, PlanIsTyped DEF Start, TypeOK
<1>3. CASE Stop
  BY <1>3 DEF Stop
<1>4. ASSUME NEW m \in Manager, Generate(m) PROVE RunsOK'
  <2>1. PICK killed \in SUBSET alive : Spawn(m, killed)
    BY <1>4, GenerateIsSpawn
  <2>. QED  BY <2>1 DEF Spawn, interface
<1>5. CASE Connected \/ BroadcastSetup \/ Begin
  BY <1>5 DEF Connected, BroadcastSetup, Begin, BeginWith, machines
<1>6. CASE ContactNext
  <2>1. PICK k \in 1 .. Len(invited) :
          \/ setups' = setups
          \/ setups' = setups \cup {<<invited[k], invited>>}
    BY <1>6, ContactIs
  <2>2. invited[k] \in Listed(invited)
    BY DEF Listed
  <2>3. \A s \in setups' : s[1] \in Listed(s[2])
    BY <2>1, <2>2
  <2>. QED  BY <1>6, <2>3 DEF ContactNext, machines
<1>7. CASE \E k \in keys : ReceiveKey(k)
  BY <1>1, <1>7 DEF ReceiveKey, interface, machines
<1>8. ASSUME NEW x \in Node, Track(x) \/ Join(x) \/ CountReady(x) PROVE same
  BY <1>8 DEF Track, Join, CountReady, interface, machines
<1>9. ASSUME NEW x \in Node, Listen(x) PROVE same
  BY <1>9 DEF Listen, interface, machines
<1>10. ASSUME NEW x \in Node, TakeKeys(x) \/ TakeSetup(x) \/ ReadSize(x)
       PROVE  same
  BY <1>10 DEF TakeKeys, TakeSetup, ReadSize, SetWaiter, interface, machines
<1>11. ASSUME NEW x \in Node, NEW s, Setup(x, s) PROVE RunsOK'
  BY <1>11 DEF Setup, SetUpWith, interface, machines
<1>12. ASSUME NEW x \in Node, NEW key, CountKey(x, key) PROVE same
  BY <1>12 DEF CountKey, SetWaiter, interface, machines
<1>13. CASE UNCHANGED vars
  BY <1>1, <1>13 DEF vars, interface, machines
<1>. HIDE DEF same, RunsOK
<1>. QED
  BY <1>1, <1>2, <1>3, <1>4, <1>5, <1>6, <1>7, <1>8, <1>9, <1>10, <1>11,
     <1>12, <1>13 DEF Next, Work, NodeStep

LEMMA TypeStep ==
    ASSUME TypeOK, RunsOK, [Next]_vars
    PROVE  TypeOK' /\ RunsOK'
BY InterfaceStep, MachinesStep, HeartStep, RunsStep DEF TypeOK

(* Every variable of Startup keeps its type: in particular no more nodes   *)
(* are contacted than are invited, only nodes whose process runs connect,  *)
(* are ready or are set up, and no id of more than 16 bits is tracked.     *)
THEOREM TypeCorrect == Spec => []TypeOK
<1>1. Init => TypeOK /\ RunsOK
  <2>. SUFFICES ASSUME Init PROVE TypeOK /\ RunsOK
    OBVIOUS
  <2>1. RunsOK
    BY DEF Init, RunsOK
  <2>. QED  BY <2>1, TypeStart
<1>2. TypeOK /\ RunsOK /\ [Next]_vars => TypeOK' /\ RunsOK'
  BY TypeStep
<1>. QED  BY <1>1, <1>2, PTL DEF Spec

-----------------------------------------------------------------------------
(* The processes that a manager knows.                                     *)
TrackInv ==
    \A x \in alive \ hello :
        pid[x] < Short => <<Home(x), pid[x]>> \in tracked

(* An order reaches the nodes whose ids are tracked, and no new one.       *)
LEMMA WhoIsKilled ==
    ASSUME TypeOK, RunsOK, TrackInv, NEW m \in Manager, Generate(m)
    PROVE  /\ phase' = phase /\ run' = run /\ orders \ orders' = {m}
           /\ hello' = hello \cup Spawned(m)
           /\ tracked' = {t \in tracked : t[1] # m}
           /\ alive' \subseteq alive \cup Spawned(m)
           /\ \A x \in Spawned(m) : RunOf(x) = run
           /\ \A x \in alive \ hello :
                pid[x] < Short /\ Home(x) = m /\ x \in alive'
                  => x \in Spawned(m)
<1>1. PICK killed \in SUBSET alive :
        /\ Spawn(m, killed)
        /\ \A x \in alive : x \in killed <=> /\ Home(x) = m
                                             /\ <<m, pid[x]>> \in tracked
  BY GenerateIsSpawn
<1>2. m \in orders /\ \A x \in Spawned(m) : RunOf(x) = run
  BY <1>1, OrderedWhileUp DEF Spawn
<1>. QED  BY <1>1, <1>2 DEF Spawn, interface, TrackInv

LEMMA TrackStep ==
    ASSUME TypeOK, RunsOK, TrackInv, [Next]_vars
    PROVE  /\ TrackInv'
           /\ [\A x \in alive \ hello : pid[x] < Short => GoneAfterOrder(x)]_vars
<1>. DEFINE Gone ==
              \A x \in alive \ hello : pid[x] < Short => GoneAfterOrder(x)
            known == UNCHANGED <<pid, alive, hello, tracked>>
<1>. SUFFICES TrackInv' /\ Gone
  OBVIOUS
<1>0. pid' = pid
  <2>1. CASE Next
    <3>. QED  BY <2>1 DEF Next, Work, NodeStep, Start, Stop, Generate,
                Spawn, Connected, BroadcastSetup, ContactNext, Begin, BeginWith,
                ReceiveKey, Track, Join, Listen, TakeKeys, TakeSetup, ReadSize,
                SetWaiter, Setup, SetUpWith, CountKey, CountReady, interface,
                given
  <2>. QED  BY <2>1 DEF vars, interface, given
<1>1. ASSUME known PROVE TrackInv'
  BY <1>1 DEF TrackInv
<1>2. ASSUME orders' = orders PROVE Gone
  BY <1>2 DEF GoneAfterOrder
<1>3. CASE Start
  <2>1. known /\ orders = {}
    BY <1>3 DEF Start, given, RunsOK
  <2>. QED  BY <1>1, <2>1 DEF GoneAfterOrder
<1>4. CASE Stop
  <2>1. known /\ phase' = "down"
    BY <1>4 DEF Stop, given
  <2>. QED  BY <1>1, <2>1 DEF GoneAfterOrder
<1>5. ASSUME NEW m \in Manager, Generate(m) PROVE TrackInv' /\ Gone
  <2>1. ASSUME NEW x \in alive' \ hello', pid'[x] < Short
        PROVE  <<Home(x), pid'[x]>> \in tracked'
    BY <1>0, <1>5, <2>1, WhoIsKilled DEF TrackInv
  <2>2. ASSUME NEW x \in alive \ hello, pid[x] < Short,
               RunOf(x) < run', Home(x) \in orders \ orders', x \in alive'
        PROVE  FALSE
    <3>1. /\ x \in Spawned(m) /\ RunOf(x) = run /\ run' = run
      BY <1>5, <2>2, WhoIsKilled
    <3>2. run \in Nat
      BY PlanIsTyped DEF TypeOK
    <3>. QED  BY <2>2, <3>1, <3>2
  <2>. QED  BY <1>5, <2>1, <2>2, WhoIsKilled DEF TrackInv, GoneAfterOrder
<1>6. ASSUME NEW x \in Node, Track(x) PROVE TrackInv' /\ Gone
  <2>1. pid[x] \in Nat
    <3>1. pid \in Pids
      BY DEF TypeOK, InterfaceOK
    <3>. QED  BY <3>1, PidsAssumption
  <2>2. pid[x] < Short => AsU16(pid[x]) = pid[x]
    BY <2>1, ShortIds
  <2>. QED  BY <1>0, <1>2, <1>6, <2>2 DEF Track, TrackInv
<1>7. ASSUME UNCHANGED machines PROVE TrackInv' /\ Gone
  BY <1>0, <1>1, <1>2, <1>7 DEF machines
<1>8. CASE Connected \/ BroadcastSetup \/ ContactNext \/ Begin
  BY <1>7, <1>8 DEF Connected, BroadcastSetup, ContactNext, Begin, BeginWith
<1>9. CASE \E k \in keys : ReceiveKey(k)
  BY <1>7, <1>9 DEF ReceiveKey
<1>10. ASSUME NEW x \in Node, Join(x) \/ CountReady(x) \/ Listen(x)
       PROVE  UNCHANGED machines
  BY <1>10 DEF Join, CountReady, Listen
<1>11. ASSUME NEW x \in Node, TakeKeys(x) \/ TakeSetup(x) \/ ReadSize(x)
       PROVE  UNCHANGED machines
  BY <1>11 DEF TakeKeys, TakeSetup, ReadSize, SetWaiter
<1>12. ASSUME NEW x \in Node, NEW s, Setup(x, s) PROVE UNCHANGED machines
  BY <1>12 DEF Setup, SetUpWith
<1>13. ASSUME NEW x \in Node, NEW key, CountKey(x, key)
       PROVE  UNCHANGED machines
  BY <1>13 DEF CountKey, SetWaiter
<1>14. CASE UNCHANGED vars
  BY <1>7, <1>14 DEF vars
<1>. HIDE DEF Gone, known
<1>. QED
  BY <1>3, <1>4, <1>5, <1>6, <1>7, <1>8, <1>9, <1>10, <1>11, <1>12, <1>13,
     <1>14 DEF Next, Work, NodeStep

(* A node of an earlier run that has told its manager a process id of less *)
(* than 2^16 is gone when the new nodes are there.                         *)
THEOREM SmallIdsKilled == Spec => SmallIdsAreKilled
<1>1. Init => TypeOK /\ RunsOK /\ TrackInv
  <2>. SUFFICES ASSUME Init PROVE TypeOK /\ RunsOK /\ TrackInv
    OBVIOUS
  <2>1. RunsOK /\ TrackInv
    BY DEF Init, RunsOK, TrackInv
  <2>. QED  BY <2>1, TypeStart
<1>2. TypeOK /\ RunsOK /\ TrackInv /\ [Next]_vars
        => TypeOK' /\ RunsOK' /\ TrackInv'
  BY TypeStep, TrackStep
<1>3. TypeOK /\ RunsOK /\ TrackInv /\ [Next]_vars
        => [\A x \in alive \ hello : pid[x] < Short => GoneAfterOrder(x)]_vars
  BY TrackStep
<1>. QED  BY <1>1, <1>2, <1>3, PTL DEF Spec, SmallIdsAreKilled

-----------------------------------------------------------------------------
(* The nodes that the interface has heard of.  A node of an order that is  *)
(* still under way, or of a later run, does not exist yet.  A node connects *)
(* to the interface once.                                                  *)
Unborn(x) == RunOf(x) > run \/ (RunOf(x) = run /\ Home(x) \in orders)

KnownInv ==
    /\ phase = "down" => ips = <<>>
    /\ phase \in {"down", "connecting", "setup"} => invited = <<>>
    /\ NoDup(ips)
    /\ Listed(ips) \cap joining = {}
    /\ \A x \in Node : Unborn(x) => x \notin alive \cup Listed(ips)

LEMMA KnownStart == Init => KnownInv
<1>. SUFFICES ASSUME Init PROVE KnownInv
  OBVIOUS
<1>1. ips = <<>> /\ invited = <<>> /\ alive = {} /\ joining = {}
  BY DEF Init
<1>2. Listed(ips) = {} /\ NoDup(ips)
  BY <1>1 DEF Listed, NoDup
<1>. QED  BY <1>1, <1>2 DEF KnownInv

(* What an order brings about.                                             *)
LEMMA GenerateIs ==
    ASSUME TypeOK, RunsOK, KnownInv, NEW m \in Manager, Generate(m)
    PROVE  \E killed \in SUBSET alive :
             /\ Spawn(m, killed)
             /\ \A x \in killed : Home(x) = m /\ RunOf(x) # run
             /\ \A x \in Spawned(m) : /\ x \in Node /\ Unborn(x)
                                      /\ ~Unborn(x)' /\ x \notin killed
             /\ \A x : Unborn(x)' => Unborn(x)
<1>1. PICK killed \in SUBSET alive :
        /\ Spawn(m, killed)
        /\ \A x \in alive : x \in killed <=> /\ Home(x) = m
                                             /\ <<m, pid[x]>> \in tracked
  BY GenerateIsSpawn
<1>2. /\ m \in orders /\ orders' = orders \ {m} /\ run' = run
      /\ run \in Nat /\ alive \subseteq Node
  BY <1>1, PlanIsTyped DEF Spawn, interface, TypeOK, MachinesOK
<1>3. \A x \in killed : Home(x) = m /\ RunOf(x) # run
  BY <1>1, <1>2 DEF KnownInv, Unborn
<1>4. \A x : Unborn(x)' => Unborn(x)
  BY <1>2 DEF Unborn, RunOf, Home
<1>5. \A x \in Spawned(m) : /\ x \in Node /\ Unborn(x)
                            /\ ~Unborn(x)' /\ x \notin killed
  <2>1. \A x \in Spawned(m) : x \in Node /\ RunOf(x) = run /\ Home(x) = m
    BY <1>2, OrderedWhileUp
  <2>. QED  BY <1>2, <1>3, <2>1 DEF Unborn, RunOf, Home
<1>. QED  BY <1>1, <1>3, <1>4, <1>5

LEMMA KnownStep ==
    ASSUME TypeOK, RunsOK, KnownInv, [Next]_vars
    PROVE  KnownInv'
<1>. DEFINE same == UNCHANGED <<phase, run, ips, invited, orders, alive, joining>>
<1>0. ips \in Seq(Node) /\ joining \subseteq alive /\ run \in Nat
  BY PlanIsTyped DEF TypeOK, InterfaceOK, MachinesOK
<1>1. ASSUME same PROVE KnownInv'
  BY <1>1 DEF KnownInv, Unborn, RunOf, Home
<1>2. CASE Start
  <2>1. \A x \in Node : Unborn(x)' => Unborn(x)
    BY <1>0, <1>2, NodeParts DEF Start, Unborn, RunOf, Home
  <2>. QED  BY <1>2, <2>1 DEF Start, KnownInv
<1>3. CASE Stop
  <2>1. Listed(ips') = {} /\ NoDup(ips')
    BY <1>3 DEF Stop, Listed, NoDup
  <2>2. \A x \in Node : Unborn(x)' => Unborn(x)
    BY <1>3 DEF Stop, Unborn, RunOf, Home
  <2>. QED  BY <1>3, <2>1, <2>2 DEF Stop, KnownInv, Listed, NoDup
<1>4. ASSUME NEW m \in Manager, Generate(m) PROVE KnownInv'
  <2>1. PICK killed \in SUBSET alive :
          /\ Spawn(m, killed)
          /\ \A x \in Spawned(m) : /\ x \in Node /\ Unborn(x)
                                   /\ ~Unborn(x)' /\ x \notin killed
          /\ \A x : Unborn(x)' => Unborn(x)
    BY <1>4, GenerateIs
  <2>2. /\ UNCHANGED <<phase, ips, invited>>
        /\ alive' = (alive \ killed) \cup Spawned(m)
        /\ joining' = (joining \ killed) \cup Spawned(m)
    BY <2>1 DEF Spawn, interface
  <2>3. Listed(ips') \cap joining' = {}
    BY <2>1, <2>2 DEF KnownInv
  <2>4. \A x \in Node : Unborn(x)' => x \notin alive' \cup Listed(ips')
    BY <2>1, <2>2 DEF KnownInv
  <2>. QED  BY <2>2, <2>3, <2>4 DEF KnownInv, NoDup
<1>5. CASE Connected
  <2>1. Listed(ips') \subseteq Listed(ips) /\ NoDup(ips')
    BY <1>0, <1>5, OrdersAre DEF Connected
  <2>2. \A x \in Node : Unborn(x)' => Unborn(x)
    BY <1>5 DEF Connected, machines, Unborn, RunOf, Home
  <2>. QED  BY <1>5, <2>1, <2>2 DEF Connected, machines, KnownInv, NoDup
<1>6. CASE BroadcastSetup
  <2>1. \A x \in Node : Unborn(x)' => Unborn(x)
    BY <1>6 DEF BroadcastSetup, machines, Unborn, RunOf, Home
  <2>. QED  BY <1>6, <2>1 DEF BroadcastSetup, machines, KnownInv, NoDup
<1>7. CASE ContactNext
  BY <1>1, <1>7 DEF ContactNext, machines
<1>8. CASE Begin
  <2>1. \A x \in Node : Unborn(x)' => Unborn(x)
    BY <1>8 DEF Begin, BeginWith, machines, Unborn, RunOf, Home
  <2>. QED  BY <1>8, <2>1 DEF Begin, BeginWith, machines, KnownInv, NoDup
<1>9. CASE \E k \in keys : ReceiveKey(k)
  BY <1>1, <1>9 DEF ReceiveKey, interface, machines
<1>10. ASSUME NEW x \in Node, Join(x) PROVE KnownInv'
  <2>1. /\ x \in joining /\ joining' = joining \ {x}
        /\ ips' = IF phase = "down" THEN ips ELSE Append(ips, x)
        /\ UNCHANGED <<phase, run, invited, orders, alive>>
    BY <1>10 DEF Join, machines
  <2>2. /\ Listed(ips') \subseteq Listed(ips) \cup {x} /\ NoDup(ips')
    BY <1>0, <2>1, AppendedAre DEF KnownInv, NoDup
  <2>3. \A y \in Node : Unborn(y)' => Unborn(y)
    BY <2>1 DEF Unborn, RunOf, Home
  <2>. QED  BY <1>0, <2>1, <2>2, <2>3 DEF KnownInv
<1>11. ASSUME NEW x \in Node, CountReady(x) \/ Track(x) \/ Listen(x)
       PROVE  same
  BY <1>11 DEF CountReady, Track, Listen, interface, machines
<1>12. ASSUME NEW x \in Node, TakeKeys(x) \/ TakeSetup(x) \/ ReadSize(x)
       PROVE  same
  BY <1>12 DEF TakeKeys, TakeSetup, ReadSize, SetWaiter, interface, machines
<1>13. ASSUME NEW x \in Node, NEW s, Setup(x, s) PROVE same
  BY <1>13 DEF Setup, SetUpWith, interface, machines
<1>14. ASSUME NEW x \in Node, NEW key, CountKey(x, key) PROVE same
  BY <1>14 DEF CountKey, SetWaiter, interface, machines
<1>15. CASE UNCHANGED vars
  BY <1>1, <1>15 DEF vars, interface, machines
<1>. HIDE DEF same
<1>. QED
  BY <1>1, <1>2, <1>3, <1>4, <1>5, <1>6, <1>7, <1>8, <1>9, <1>10, <1>11,
     <1>12, <1>13, <1>14, <1>15 DEF Next, Work, NodeStep

-----------------------------------------------------------------------------
(* The lists that have been sent.  A node that has not been invited yet is *)
(* in none of them, a node is in one of them only, and is set up once: no  *)
(* Setup waits for a node that has a network, and none has been sent to a  *)
(* node that is still to be contacted.                                     *)
Lists == ({network[x] : x \in Node} \cup {s[2] : s \in setups} \cup {invited})
           \ {<<>>}

Fresh(x) == \/ x \in joining \/ Unborn(x)
            \/ x \in Listed(ips) /\ x \notin Listed(invited)

ToContact(x) == \E k \in contacted + 1 .. Len(invited) : x = invited[k]

OnceInv ==
    /\ \A s \in setups : network[s[1]] = <<>> /\ ~ToContact(s[1])
    /\ \A x \in Node : ToContact(x) => network[x] = <<>>

ListsInv ==
    /\ \A l \in Lists : NoDup(l)
    /\ \A l, m \in Lists : Listed(l) \cap Listed(m) # {} => l = m
    /\ \A x \in Node : network[x] # <<>> => x \in Listed(network[x])
    /\ \A x \in Node : Fresh(x) => \A l \in Lists : x \notin Listed(l)

LEMMA ListsAre ==
    ASSUME TypeOK, RunsOK
    PROVE  /\ \A l \in Lists : l \in Seq(Node) /\ l # <<>>
           /\ \A x \in Node : network[x] # <<>> => network[x] \in Lists
           /\ \A s \in setups : s[2] \in Lists
           /\ \A x \in Listed(invited) : invited \in Lists
<1>1. /\ network \in [Node -> Seq(Node)] /\ invited \in Seq(Node)
      /\ \A s \in setups : s[2] \in Seq(Node)
  BY DEF TypeOK, InterfaceOK, MachinesOK, HeartOK
<1>2. \A x : x \notin Listed(<<>>)
  BY DEF Listed
<1>3. \A s \in setups : s[2] # <<>>
  BY <1>2 DEF RunsOK
<1>. QED  BY <1>1, <1>2, <1>3 DEF Lists

(* Where the lists of the next state come from.                            *)
ListEffects ==
    /\ \A x \in Node : \/ network'[x] \in {<<>>, network[x]}
                       \/ <<x, network'[x]>> \in setups
    /\ \A s \in setups' : \/ s \in setups
                          \/ /\ ContactNext /\ ToContact(s[1])
                             /\ s[2] = invited
    /\ \/ invited' \in {<<>>, invited}
       \/ BroadcastSetup /\ invited' = ips
    /\ \A x \in Node : Fresh(x)' => Fresh(x)

LEMMA ListsComeFrom ==
    ASSUME TypeOK, RunsOK, KnownInv, OnceInv, [Next]_vars
    PROVE  ListEffects
<1>. DEFINE same == UNCHANGED <<network, setups, invited>>
            fresh == UNCHANGED <<run, ips, orders, joining>>
<1>0. /\ ips \in Seq(Node) /\ run \in Nat /\ setups \subseteq alive \X Seq(Node)
      /\ network \in [Node -> Seq(Node)]
  BY PlanIsTyped DEF TypeOK, InterfaceOK, MachinesOK, HeartOK
<1>1. ASSUME fresh, invited' = invited
      PROVE \A x \in Node : Fresh(x)' => Fresh(x)
  BY <1>1 DEF Fresh, Unborn, RunOf, Home
<1>2. ASSUME same, \A x \in Node : Fresh(x)' => Fresh(x) PROVE ListEffects
  BY <1>2 DEF ListEffects
<1>3. CASE Start
  <2>1. \A x \in Node : Unborn(x)' => Unborn(x)
    BY <1>0, <1>3, NodeParts DEF Start, Unborn, RunOf, Home
  <2>2. \A x \in Node : Fresh(x)' => Fresh(x)
    BY <1>3, <2>1 DEF Start, Fresh
  <2>. QED  BY <1>2, <1>3, <2>2 DEF Start, heart
<1>4. CASE Stop
  <2>1. \A x \in Node : Unborn(x)' => Unborn(x)
    BY <1>4 DEF Stop, Unborn, RunOf, Home
  <2>2. \A x \in Node : Fresh(x)' => Fresh(x)
    BY <1>4, <2>1, ListedAre DEF Stop, Fresh, Listed
  <2>. QED  BY <1>4, <2>2 DEF Stop, heart, ListEffects
<1>5. ASSUME NEW m \in Manager, Generate(m) PROVE ListEffects
  <2>1. PICK killed \in SUBSET alive :
          /\ Spawn(m, killed)
          /\ \A x \in Spawned(m) : x \in Node /\ Unborn(x)
          /\ \A x : Unborn(x)' => Unborn(x)
    BY <1>5, GenerateIs
  <2>2. \A x \in Node : Fresh(x)' => Fresh(x)
    BY <2>1 DEF Spawn, interface, Fresh
  <2>3. \A x \in Node : network'[x] \in {<<>>, network[x]}
    BY <2>1 DEF Spawn
  <2>. QED  BY <2>1, <2>2, <2>3 DEF Spawn, interface, ListEffects
<1>6. CASE Connected
  <2>1. Listed(ips') \subseteq Listed(ips)
    BY <1>0, <1>6, OrdersAre DEF Connected
  <2>2. \A x \in Node : Fresh(x)' => Fresh(x)
    BY <1>6, <2>1 DEF Connected, machines, Fresh, Unborn, RunOf, Home
  <2>. QED  BY <1>2, <1>6, <2>2 DEF Connected, heart
<1>7. CASE BroadcastSetup
  <2>1. \A x \in Node : Fresh(x)' => Fresh(x)
    BY <1>7 DEF BroadcastSetup, machines, Fresh, Unborn, RunOf, Home
  <2>. QED  BY <1>7, <2>1 DEF BroadcastSetup, heart, ListEffects
<1>8. CASE ContactNext
  <2>1. \A x \in Node : Fresh(x)' => Fresh(x)
    BY <1>1, <1>8 DEF ContactNext, machines
  <2>2. PICK k \in 1 .. Len(invited) :
          /\ k = contacted + 1
          /\ \/ setups' = setups
             \/ setups' = setups \cup {<<invited[k], invited>>}
    BY <1>8, ContactIs
  <2>3. ToContact(invited[k])
    BY <2>2, PlanIsTyped DEF ToContact, TypeOK
  <2>4. ASSUME NEW s \in setups', s \notin setups
        PROVE  ToContact(s[1]) /\ s[2] = invited
    BY <2>2, <2>3, <2>4
  <2>. QED  BY <1>8, <2>1, <2>4 DEF ContactNext, ListEffects
<1>9. CASE Begin
  <2>1. \A x \in Node : Fresh(x)' => Fresh(x)
    BY <1>1, <1>9 DEF Begin, BeginWith, machines
  <2>. QED  BY <1>2, <1>9, <2>1 DEF Begin, BeginWith, heart
<1>10. CASE \E k \in keys : ReceiveKey(k)
  BY <1>1, <1>2, <1>10 DEF ReceiveKey, interface, machines
<1>11. ASSUME NEW x \in Node, Join(x) PROVE ListEffects
  <2>1. /\ x \in joining /\ joining' = joining \ {x}
        /\ ips' = IF phase = "down" THEN ips ELSE Append(ips, x)
        /\ UNCHANGED <<run, invited, orders>> /\ same
    BY <1>11 DEF Join, machines, heart
  <2>2. Listed(ips') \subseteq Listed(ips) \cup {x}
    BY <1>0, <2>1, AppendedAre
  <2>3. \A y \in Node : Fresh(y)' => Fresh(y)
    BY <2>1, <2>2 DEF Fresh, Unborn, RunOf, Home
  <2>. QED  BY <1>2, <2>1, <2>3
<1>12. ASSUME NEW x \in Node, CountReady(x) \/ Track(x) \/ Listen(x)
       PROVE  same /\ fresh
  BY <1>12 DEF CountReady, Track, Listen, interface, machines, heart
<1>13. ASSUME NEW x \in Node, TakeKeys(x) \/ TakeSetup(x) \/ ReadSize(x)
       PROVE  same /\ fresh
  BY <1>13 DEF TakeKeys, TakeSetup, ReadSize, SetWaiter, interface, machines
<1>14. ASSUME NEW x \in Node, NEW s \in setups, s[1] = x, Setup(x, s[2])
       PROVE  ListEffects
  <2>1. network[x] = <<>> /\ s[2] \in Seq(Node) /\ s = <<x, s[2]>>
    BY <1>0, <1>14 DEF OnceInv
  <2>2. network' = [network EXCEPT ![x] = s[2]]
    BY <1>0, <1>14, <2>1, ConcatEmptySeq DEF Setup, SetUpWith
  <2>3. \A y \in Node : \/ network'[y] \in {<<>>, network[y]}
                        \/ <<y, network'[y]>> \in setups
    BY <1>0, <2>1, <2>2
  <2>4. setups' \subseteq setups /\ invited' = invited /\ fresh
    BY <1>14 DEF Setup, SetUpWith, interface, machines
  <2>. QED  BY <1>1, <2>3, <2>4 DEF ListEffects
<1>15. ASSUME NEW x \in Node, NEW key, CountKey(x, key) PROVE same /\ fresh
  BY <1>15 DEF CountKey, SetWaiter, interface, machines
<1>16. CASE UNCHANGED vars
  BY <1>1, <1>2, <1>16 DEF vars, interface, machines, heart
<1>17. same /\ fresh => ListEffects
  BY <1>1, <1>2
<1>. HIDE DEF same, fresh
<1>. QED
  BY <1>3, <1>4, <1>5, <1>6, <1>7, <1>8, <1>9, <1>10, <1>11, <1>12, <1>13,
     <1>14, <1>15, <1>16, <1>17 DEF Next, Work, NodeStep

LEMMA ListsStart == Init => OnceInv /\ ListsInv
<1>. SUFFICES ASSUME Init PROVE OnceInv /\ ListsInv
  OBVIOUS
<1>1. /\ setups = {} /\ invited = <<>> /\ network = [x \in Node |-> <<>>]
      /\ contacted = 0
  BY DEF Init
<1>2. Lists = {}
  BY <1>1 DEF Lists
<1>3. \A x : ~ToContact(x)
  <2>1. Len(<<>>) = 0
    BY EmptySeq
  <2>. QED  BY <1>1, <2>1 DEF ToContact
<1>. QED  BY <1>1, <1>2, <1>3 DEF OnceInv, ListsInv

LEMMA ListsGrow ==
    ASSUME TypeOK, RunsOK, KnownInv, OnceInv, [Next]_vars
    PROVE  \A l \in Lists' : l \in Lists \/ (BroadcastSetup /\ l = ips)
<1>0. ListEffects
  BY ListsComeFrom
<1>. SUFFICES ASSUME NEW l \in Lists', l \notin Lists
              PROVE  BroadcastSetup /\ l = ips
  OBVIOUS
<1>1. l # <<>> /\ \/ \E x \in Node : l = network'[x]
                  \/ \E s \in setups' : l = s[2]
                  \/ l = invited'
  BY DEF Lists
<1>2. ASSUME NEW x \in Node, l = network'[x] PROVE FALSE
  <2>1. CASE network'[x] \in {<<>>, network[x]}
    BY <1>1, <1>2, <2>1 DEF Lists
  <2>2. CASE <<x, network'[x]>> \in setups
    BY <1>1, <1>2, <2>2, ListsAre
  <2>. QED  BY <1>0, <2>1, <2>2 DEF ListEffects
<1>3. ASSUME NEW s \in setups', l = s[2] PROVE FALSE
  <2>1. CASE s \in setups
    BY <1>3, <2>1, ListsAre
  <2>2. CASE s[2] = invited
    BY <1>1, <1>3, <2>2 DEF Lists
  <2>. QED  BY <1>0, <2>1, <2>2 DEF ListEffects
<1>4. l = invited'
  BY <1>1, <1>2, <1>3
<1>. QED  BY <1>0, <1>1, <1>4 DEF ListEffects, Lists

LEMMA ListsStep ==
    ASSUME TypeOK, RunsOK, KnownInv, OnceInv, ListsInv, [Next]_vars
    PROVE  ListsInv'
<1>0. /\ ListEffects /\ TypeOK' /\ RunsOK'
      /\ ips \in Seq(Node) /\ setups \subseteq alive \X Seq(Node)
  BY ListsComeFrom, TypeStep DEF TypeOK, InterfaceOK, MachinesOK
<1>1. \A l \in Lists' : l \in Lists \/ (BroadcastSetup /\ l = ips)
  BY ListsGrow
<1>2. \A l \in Lists : NoDup(l) /\ \A x \in Listed(l) : x \in Node
  <2>1. \A l \in Lists : l \in Seq(Node)
    BY ListsAre
  <2>. QED  BY <2>1, ListedAre DEF ListsInv
<1>3. BroadcastSetup => /\ NoDup(ips)
                        /\ \A x \in Listed(ips) : x \in Node /\ Fresh(x)
  <2>1. ASSUME BroadcastSetup, NEW x \in Listed(ips)
        PROVE  x \in Node /\ Fresh(x)
    <3>1. invited = <<>>
      BY <2>1 DEF BroadcastSetup, KnownInv
    <3>. QED  BY <1>0, <2>1, <3>1, ListedAre DEF Fresh, Listed
  <2>. QED  BY <2>1 DEF KnownInv
<1>4. \A l \in Lists' : NoDup(l)
  BY <1>1, <1>2, <1>3
<1>5. ASSUME NEW l \in Lists', NEW m \in Lists', Listed(l) \cap Listed(m) # {}
      PROVE  l = m
  <2>1. CASE l \in Lists /\ m \in Lists
    BY <1>5, <2>1 DEF ListsInv
  <2>2. CASE l \in Lists /\ m \notin Lists
    BY <1>1, <1>2, <1>3, <1>5, <2>2 DEF ListsInv
  <2>3. CASE l \notin Lists /\ m \in Lists
    BY <1>1, <1>2, <1>3, <1>5, <2>3 DEF ListsInv
  <2>4. CASE l \notin Lists /\ m \notin Lists
    BY <1>1, <2>4
  <2>. QED  BY <2>1, <2>2, <2>3, <2>4
<1>6. ASSUME NEW x \in Node, network'[x] # <<>>
      PROVE  x \in Listed(network'[x])
  <2>1. CASE network'[x] = network[x]
    BY <1>6, <2>1 DEF ListsInv
  <2>2. CASE <<x, network'[x]>> \in setups
    BY <2>2 DEF RunsOK
  <2>. QED  BY <1>0, <1>6, <2>1, <2>2 DEF ListEffects
<1>7. ASSUME NEW x \in Node, Fresh(x)', NEW l \in Lists'
      PROVE  x \notin Listed(l)
  <2>1. CASE l \in Lists
    BY <1>0, <1>7, <2>1 DEF ListEffects, ListsInv
  <2>2. CASE BroadcastSetup /\ l = ips
    <3>1. /\ invited' = ips /\ ips' = ips /\ joining' = joining
          /\ (Unborn(x)' => Unborn(x))
      BY <2>2 DEF BroadcastSetup, machines, Unborn, RunOf, Home
    <3>. QED  BY <1>7, <2>2, <3>1 DEF Fresh, KnownInv
  <2>. QED  BY <1>1, <2>1, <2>2
<1>. QED  BY <1>4, <1>5, <1>6, <1>7 DEF ListsInv

(* A node that has not been invited has no network and no Setup.           *)
LEMMA FreshIsIdle ==
    ASSUME TypeOK, RunsOK, ListsInv, NEW x \in Node, Fresh(x)
    PROVE  network[x] = <<>> /\ \A s \in setups : s[1] # x
<1>1. network[x] # <<>> => network[x] \in Lists /\ x \in Listed(network[x])
  BY ListsAre DEF ListsInv
<1>2. \A s \in setups : s[2] \in Lists /\ s[1] \in Listed(s[2])
  BY ListsAre DEF RunsOK
<1>. QED  BY <1>1, <1>2 DEF ListsInv

LEMMA LaterPlaces ==
    ASSUME NEW a \in Nat, NEW b \in Nat, NEW c \in Nat, c >= a + 1
    PROVE  \A j \in c + 1 .. b : j \in a + 1 .. b /\ j # a + 1
OBVIOUS

LEMMA ContactsShrink ==
    ASSUME TypeOK, RunsOK, [Next]_vars, ~BroadcastSetup, NEW x, ToContact(x)'
    PROVE  ToContact(x)
<1>. DEFINE same == UNCHANGED <<contacted, invited>>
<1>1. same => ToContact(x)
  BY DEF ToContact
<1>2. CASE Stop
  <2>1. invited' = <<>> /\ Len(<<>>) = 0 /\ contacted' = 0
    BY <1>2, EmptySeq DEF Stop
  <2>. QED  BY <2>1 DEF ToContact
<1>3. CASE ContactNext
  <2>1. PICK k \in 1 .. Len(invited) :
          k = contacted + 1 /\ contacted' \in k .. Len(invited)
    BY <1>3, ContactIs
  <2>2. /\ invited' = invited /\ contacted \in Nat /\ Len(invited) \in Nat
    BY <1>3, PlanIsTyped DEF ContactNext, TypeOK
  <2>3. PICK c \in Nat : c = contacted' /\ c >= contacted + 1
    BY <2>1, <2>2
  <2>. QED  BY <2>2, <2>3, LaterPlaces DEF ToContact
<1>4. CASE Start \/ Connected \/ Begin
  BY <1>1, <1>4 DEF Start, Connected, Begin, BeginWith
<1>5. CASE \E m \in Manager : Generate(m)
  BY <1>1, <1>5 DEF Generate, Spawn, interface
<1>6. CASE \E k \in keys : ReceiveKey(k)
  BY <1>1, <1>6 DEF ReceiveKey, interface
<1>7. ASSUME NEW y \in Node,
             Join(y) \/ CountReady(y) \/ Track(y) \/ Listen(y)
      PROVE  same
  BY <1>7 DEF Join, CountReady, Track, Listen, interface
<1>8. ASSUME NEW y \in Node, TakeKeys(y) \/ TakeSetup(y) \/ ReadSize(y)
      PROVE  same
  BY <1>8 DEF TakeKeys, TakeSetup, ReadSize, SetWaiter, interface
<1>9. ASSUME NEW y \in Node, NEW s, Setup(y, s) PROVE same
  BY <1>9 DEF Setup, SetUpWith, interface
<1>10. ASSUME NEW y \in Node, NEW key, CountKey(y, key) PROVE same
  BY <1>10 DEF CountKey, SetWaiter, interface
<1>11. CASE UNCHANGED vars
  BY <1>1, <1>11 DEF vars, interface
<1>. HIDE DEF same
<1>. QED
  BY <1>1, <1>2, <1>3, <1>4, <1>5, <1>6, <1>7, <1>8, <1>9, <1>10, <1>11
     DEF Next, Work, NodeStep

LEMMA OnceStep ==
    ASSUME TypeOK, RunsOK, KnownInv, OnceInv, ListsInv, [Next]_vars
    PROVE  OnceInv'
<1>. DEFINE same == UNCHANGED <<network, setups, contacted, invited>>
<1>0. /\ ips \in Seq(Node) /\ setups \subseteq alive \X Seq(Node)
      /\ alive \subseteq Node /\ network \in [Node -> Seq(Node)]
      /\ contacted \in Nat /\ Len(invited) \in Nat
      /\ \A x : ToContact(x) => x \in Listed(invited)
  <2>1. contacted \in Nat /\ Len(invited) \in Nat
    BY PlanIsTyped DEF TypeOK
  <2>2. \A x : ToContact(x) => x \in Listed(invited)
    BY <2>1 DEF ToContact, Listed
  <2>. QED  BY <2>1, <2>2 DEF TypeOK, InterfaceOK, MachinesOK, HeartOK
<1>1. ASSUME same PROVE OnceInv'
  BY <1>1 DEF OnceInv, ToContact
<1>2. CASE Stop
  <2>1. \A x : ~ToContact(x)'
    <3>1. invited' = <<>> /\ Len(<<>>) = 0 /\ contacted' = 0
      BY <1>2, EmptySeq DEF Stop
    <3>. QED  BY <3>1 DEF ToContact
  <2>. QED  BY <1>2, <2>1 DEF Stop, heart, OnceInv
<1>3. ASSUME NEW m \in Manager, Generate(m) PROVE OnceInv'
  <2>1. PICK killed \in SUBSET alive : Spawn(m, killed)
    BY <1>3, GenerateIsSpawn
  <2>2. /\ \A x \in Node : network[x] = <<>> => network'[x] = <<>>
        /\ setups' \subseteq setups
        /\ UNCHANGED <<contacted, invited>>
    BY <2>1 DEF Spawn, interface
  <2>. QED  BY <1>0, <2>2 DEF OnceInv, ToContact
<1>4. CASE BroadcastSetup
  <2>1. invited' = ips /\ contacted' = 0 /\ UNCHANGED <<network, setups>>
    BY <1>4 DEF BroadcastSetup, heart
  <2>2. invited = <<>>
    BY <1>4 DEF BroadcastSetup, KnownInv
  <2>3. Len(ips) \in Nat
    BY PlanIsTyped DEF TypeOK
  <2>4. \A x : ToContact(x)' => x \in Listed(ips)
    BY <2>1, <2>3 DEF ToContact, Listed
  <2>5. \A x \in Listed(ips) : x \in Node /\ Fresh(x)
    BY <1>0, <2>2, ListedAre DEF Fresh, Listed
  <2>. QED  BY <1>0, <2>1, <2>4, <2>5, FreshIsIdle DEF OnceInv
<1>5. CASE ContactNext
  <2>1. PICK k \in 1 .. Len(invited) :
          /\ k = contacted + 1 /\ invited[k] \in Node
          /\ contacted' \in k .. Len(invited)
          /\ \/ setups' = setups
             \/ setups' = setups \cup {<<invited[k], invited>>}
    BY <1>5, ContactIs
  <2>2. UNCHANGED <<network, invited>>
    BY <1>5 DEF ContactNext
  <2>3. PICK c \in Nat : c = contacted' /\ c >= k
    BY <1>0, <2>1
  <2>4. \A j \in c + 1 .. Len(invited) :
          j \in contacted + 1 .. Len(invited) /\ j # k
    BY <1>0, <2>1, <2>3, LaterPlaces
  <2>5. ToContact(invited[k]) /\ ~ToContact(invited[k])'
    <3>1. NoDup(invited)
      <4>1. invited[k] \in Listed(invited)
        BY DEF Listed
      <4>. QED  BY <4>1, ListsAre DEF ListsInv
    <3>2. k \in contacted + 1 .. Len(invited)
      BY <1>0, <2>1
    <3>3. \A j \in c + 1 .. Len(invited) : invited[j] # invited[k]
      BY <1>0, <2>4, <3>1 DEF NoDup
    <3>. QED  BY <2>2, <2>3, <3>2, <3>3 DEF ToContact
  <2>6. \A x : ToContact(x)' => ToContact(x)
    BY <2>2, <2>3, <2>4 DEF ToContact
  <2>. QED  BY <1>0, <2>1, <2>2, <2>5, <2>6 DEF OnceInv
<1>6. CASE Start \/ Connected \/ Begin
  BY <1>1, <1>6 DEF Start, Connected, Begin, BeginWith, heart
<1>7. CASE \E k \in keys : ReceiveKey(k)
  BY <1>1, <1>7 DEF ReceiveKey, interface
<1>8. ASSUME NEW x \in Node,
             Join(x) \/ CountReady(x) \/ Track(x) \/ Listen(x)
      PROVE  same
  BY <1>8 DEF Join, CountReady, Track, Listen, interface, heart
<1>9. ASSUME NEW x \in Node, TakeKeys(x) \/ TakeSetup(x) \/ ReadSize(x)
      PROVE  same
  BY <1>9 DEF TakeKeys, TakeSetup, ReadSize, SetWaiter, interface
<1>10. ASSUME NEW x \in Node, NEW s \in setups, s[1] = x, Setup(x, s[2])
       PROVE  OnceInv'
  <2>0. \A t \in setups : t = <<t[1], t[2]>>
    BY <1>0
  <2>1. /\ setups' = setups \ {s} /\ UNCHANGED <<contacted, invited>>
        /\ \A y \in Node : y # x => network'[y] = network[y]
    BY <1>0, <1>10, <2>0 DEF Setup, SetUpWith, interface
  <2>2. ASSUME NEW t \in setups' PROVE t[1] # x
    <3>1. t \in setups /\ t # s
      BY <2>1, <2>2
    <3>2. CASE t[1] = x
      <4>1. s[2] \in Lists /\ t[2] \in Lists
        BY <3>1, ListsAre
      <4>2. x \in Listed(s[2]) /\ x \in Listed(t[2])
        BY <1>10, <3>1, <3>2 DEF RunsOK
      <4>3. s[2] = t[2]
        BY <4>1, <4>2 DEF ListsInv
      <4>. QED  BY <1>10, <2>0, <3>1, <3>2, <4>3
    <3>. QED  BY <3>2
  <2>3. ~ToContact(x) /\ \A y : ToContact(y)' => ToContact(y)
    BY <1>10, <2>1 DEF OnceInv, ToContact
  <2>. QED  BY <1>0, <2>1, <2>2, <2>3 DEF OnceInv
<1>11. ASSUME NEW x \in Node, NEW key, CountKey(x, key) PROVE same
  BY <1>11 DEF CountKey, SetWaiter, interface
<1>12. CASE UNCHANGED vars
  BY <1>1, <1>12 DEF vars, interface, heart
<1>. HIDE DEF same
<1>. QED
  BY <1>1, <1>2, <1>3, <1>4, <1>5, <1>6, <1>7, <1>8, <1>9, <1>10, <1>11,
     <1>12 DEF Next, Work, NodeStep

-----------------------------------------------------------------------------
(* The keys that have been sent: under way, in a channel or counted, each  *)
(* in one of these only.  The place of a key is that of its sender in      *)
(* every list that its receiver is in; a node that is not invited has no   *)
(* key and no node has one of it, and a node sends its keys once.          *)
KeyAt(i, y, x) == <<i, y, x>> \in keys \/ <<i, y>> \in queue[x] \cup counted[x]

Unsent(y) == \A x \in Node, i \in Nat : ~KeyAt(i, y, x)

PlacesInv ==
    /\ \A x \in Node : Fresh(x) => /\ Unsent(x)
                                   /\ \A y \in Node, i \in Nat : ~KeyAt(i, y, x)
    /\ \A x, y \in Node, i \in Nat : KeyAt(i, y, x) =>
          \A l \in Lists : x \in Listed(l) => i \in 1 .. Len(l) /\ l[i] = y
    /\ \A s \in setups : Unsent(s[1])
    /\ \A x \in Node : ToContact(x) => Unsent(x)

ApartInv ==
    /\ \A k \in keys : <<k[1], k[2]>> \notin queue[k[3]] \cup counted[k[3]]
    /\ \A x \in Node : queue[x] \cap counted[x] = {}

LEMMA KeysStart == Init => PlacesInv /\ ApartInv
<1>. SUFFICES ASSUME Init PROVE PlacesInv /\ ApartInv
  OBVIOUS
<1>1. /\ keys = {} /\ \A x \in Node : queue[x] = {} /\ counted[x] = {}
      /\ setups = {}
  BY DEF Init
<1>. QED  BY <1>1 DEF PlacesInv, ApartInv, Unsent, KeyAt

LEMMA WhoMovesKeys ==
    ASSUME [Next]_vars
    PROVE  \/ UNCHANGED <<keys, queue, counted>>
           \/ \E m \in Manager : Generate(m)
           \/ \E k \in keys : ReceiveKey(k)
           \/ \E x \in Node, s \in setups : s[1] = x /\ Setup(x, s[2])
           \/ \E x \in Node : \E key \in queue[x] : CountKey(x, key)
<1>. DEFINE same == UNCHANGED <<keys, queue, counted>>
<1>1. CASE Start \/ Stop \/ Connected \/ BroadcastSetup \/ ContactNext \/ Begin
  BY <1>1 DEF Start, Stop, Connected, BroadcastSetup, ContactNext, Begin,
              BeginWith, heart
<1>2. ASSUME NEW x \in Node, Join(x) \/ CountReady(x) \/ Track(x) \/ Listen(x)
      PROVE  same
  BY <1>2 DEF Join, CountReady, Track, Listen, heart
<1>3. ASSUME NEW x \in Node, TakeKeys(x) \/ TakeSetup(x) \/ ReadSize(x)
      PROVE  same
  BY <1>3 DEF TakeKeys, TakeSetup, ReadSize, SetWaiter
<1>4. CASE UNCHANGED vars
  BY <1>4 DEF vars, heart
<1>. QED  BY <1>1, <1>2, <1>3, <1>4 DEF Next, Work, NodeStep

(* A key that is new is that of a node that is set up, for a node of the   *)
(* list, with its sender's place in it.                                    *)
LEMMA KeysComeFrom ==
    ASSUME TypeOK, [Next]_vars,
           NEW x \in Node, NEW y \in Node, NEW i \in Nat, KeyAt(i, y, x)'
    PROVE  \/ KeyAt(i, y, x)
           \/ \E s \in setups : /\ s[1] = y /\ i = Place(y, s[2])
                                /\ x \in Listed(s[2]) /\ Setup(y, s[2])
<1>0. /\ queue \in [Node -> SUBSET (Nat \X Node)]
      /\ counted \in [Node -> SUBSET (Nat \X Node)]
      /\ keys \subseteq Nat \X Node \X Node
  BY DEF TypeOK, HeartOK
<1>1. CASE UNCHANGED <<keys, queue, counted>>
  BY <1>1 DEF KeyAt
<1>2. ASSUME NEW m \in Manager, Generate(m) PROVE KeyAt(i, y, x)
  <2>1. PICK killed \in SUBSET alive : Spawn(m, killed)
    BY <1>2, GenerateIsSpawn
  <2>2. /\ keys' \subseteq keys
        /\ queue'[x] \subseteq queue[x] /\ counted'[x] \subseteq counted[x]
    BY <2>1 DEF Spawn
  <2>. QED  BY <2>2 DEF KeyAt
<1>3. ASSUME NEW k \in keys, ReceiveKey(k) PROVE KeyAt(i, y, x)
  <2>1. k = <<k[1], k[2], k[3]>> /\ k[3] \in Node
    BY <1>0
  <2>2. /\ keys' \subseteq keys /\ counted' = counted
        /\ queue'[x] \subseteq
             queue[x] \cup (IF x = k[3] THEN {<<k[1], k[2]>>} ELSE {})
    BY <1>0, <1>3, <2>1 DEF ReceiveKey
  <2>3. x = k[3] /\ <<i, y>> = <<k[1], k[2]>> => <<i, y, x>> \in keys
    BY <2>1
  <2>. QED  BY <2>2, <2>3 DEF KeyAt
<1>4. ASSUME NEW z \in Node, NEW s \in setups, s[1] = z, Setup(z, s[2]),
             ~KeyAt(i, y, x)
      PROVE  /\ z = y /\ i = Place(y, s[2]) /\ x \in Listed(s[2])
  <2>1. /\ keys' = keys \cup {<<Place(z, s[2]), z, w>> : w \in Listed(s[2])}
        /\ UNCHANGED <<queue, counted>>
    BY <1>4 DEF Setup, SetUpWith
  <2>. QED  BY <1>4, <2>1 DEF KeyAt
<1>5. ASSUME NEW z \in Node, NEW key \in queue[z], CountKey(z, key)
      PROVE  KeyAt(i, y, x)
  <2>1. /\ keys' = keys /\ queue'[x] \subseteq queue[x]
        /\ counted'[x] \subseteq counted[x] \cup (IF x = z THEN {key} ELSE {})
    BY <1>0, <1>5 DEF CountKey, SetWaiter
  <2>. QED  BY <2>1 DEF KeyAt
<1>. QED  BY <1>1, <1>2, <1>3, <1>4, <1>5, WhoMovesKeys

LEMMA PlacesStep ==
    ASSUME TypeOK, RunsOK, KnownInv, OnceInv, ListsInv, PlacesInv, [Next]_vars
    PROVE  PlacesInv'
<1>0. /\ ListEffects /\ ListsInv' /\ OnceInv' /\ RunsOK' /\ TypeOK'
      /\ \A s \in setups \cup setups' :
            s[1] \in Node /\ s[2] \in Seq(Node) /\ s = <<s[1], s[2]>>
      /\ ips \in Seq(Node)
  <2>1. TypeOK' /\ RunsOK'
    BY TypeStep
  <2>2. setups \subseteq alive \X Seq(Node) /\ alive \subseteq Node
    BY DEF TypeOK, MachinesOK
  <2>3. setups' \subseteq alive' \X Seq(Node) /\ alive' \subseteq Node
    BY <2>1 DEF TypeOK, MachinesOK
  <2>4. \A s \in setups \cup setups' :
            s[1] \in Node /\ s[2] \in Seq(Node) /\ s = <<s[1], s[2]>>
    BY <2>2, <2>3
  <2>. QED
    BY <2>1, <2>4, ListsComeFrom, ListsStep, OnceStep DEF TypeOK, InterfaceOK
<1>1. ASSUME NEW s \in setups
      PROVE  /\ s[2] \in Lists /\ s[1] \in Listed(s[2])
             /\ Place(s[1], s[2]) \in 1 .. Len(s[2])
             /\ s[2][Place(s[1], s[2])] = s[1]
             /\ \A x \in Listed(s[2]) : x \in Node /\ ~Fresh(x)
  <2>1. s[2] \in Lists /\ s[1] \in Listed(s[2])
    BY ListsAre DEF RunsOK
  <2>2. \A x \in Listed(s[2]) : x \in Node
    BY <1>0, ListedAre
  <2>. QED  BY <1>0, <2>1, <2>2, PlaceIs DEF ListsInv
<1>2. ASSUME NEW x \in Node, NEW y \in Node, NEW i \in Nat, Fresh(x)'
      PROVE  ~KeyAt(i, x, y)' /\ ~KeyAt(i, y, x)'
  <2>1. Fresh(x)
    BY <1>0, <1>2 DEF ListEffects
  <2>2. ~KeyAt(i, x, y) /\ ~KeyAt(i, y, x)
    BY <2>1 DEF PlacesInv, Unsent
  <2>3. ~KeyAt(i, x, y)'
    BY <1>1, <2>1, <2>2, KeysComeFrom
  <2>4. ~KeyAt(i, y, x)'
    BY <1>1, <2>1, <2>2, KeysComeFrom
  <2>. QED  BY <2>3, <2>4
<1>3. ASSUME NEW x \in Node, NEW y \in Node, NEW i \in Nat, KeyAt(i, y, x)',
             NEW l \in Lists', x \in Listed(l)
      PROVE  i \in 1 .. Len(l) /\ l[i] = y
  <2>1. CASE l \in Lists
    <3>1. CASE KeyAt(i, y, x)
      BY <1>3, <2>1, <3>1 DEF PlacesInv
    <3>2. ASSUME NEW s \in setups, s[1] = y, i = Place(y, s[2]),
                 x \in Listed(s[2])
          PROVE  i \in 1 .. Len(l) /\ l[i] = y
      <4>1. s[2] = l
        BY <1>1, <1>3, <2>1, <3>2 DEF ListsInv
      <4>. QED  BY <1>1, <3>2, <4>1
    <3>. QED  BY <1>3, <3>1, <3>2, KeysComeFrom
  <2>2. CASE BroadcastSetup /\ l = ips
    <3>1. x \notin Listed(invited)
      <4>1. invited = <<>>
        BY <2>2 DEF BroadcastSetup, KnownInv
      <4>. QED  BY <4>1 DEF Listed
    <3>2. Fresh(x)
      BY <1>3, <2>2, <3>1 DEF Fresh
    <3>3. KeyAt(i, y, x)
      BY <1>3, <2>2 DEF BroadcastSetup, heart, KeyAt
    <3>. QED  BY <3>2, <3>3 DEF PlacesInv
  <2>. QED  BY <2>1, <2>2, ListsGrow
<1>4. ASSUME NEW x \in Node, Unsent(x), \A s \in setups : s[1] = x => ~Setup(x, s[2])
      PROVE  Unsent(x)'
  BY <1>4, KeysComeFrom DEF Unsent
<1>5. ASSUME NEW s \in setups' PROVE Unsent(s[1])'
  <2>1. Unsent(s[1])
    BY <1>0, <1>5 DEF ListEffects, PlacesInv
  <2>2. ASSUME NEW t \in setups, t[1] = s[1], Setup(s[1], t[2]) PROVE FALSE
    <3>1. setups' = setups \ {t}
      BY <1>0, <2>2 DEF Setup, SetUpWith
    <3>2. s \in setups /\ s # t
      BY <3>1
    <3>3. s[2] = t[2]
      BY <1>1, <2>2, <3>2 DEF ListsInv
    <3>. QED  BY <1>0, <2>2, <3>2, <3>3
  <2>. QED  BY <1>0, <1>4, <2>1, <2>2
<1>6. ASSUME NEW x \in Node, ToContact(x)' PROVE Unsent(x)'
  <2>1. CASE BroadcastSetup
    <3>1. /\ invited' = ips /\ contacted' = 0 /\ UNCHANGED <<keys, queue, counted>>
          /\ invited = <<>>
      BY <2>1 DEF BroadcastSetup, heart, KnownInv
    <3>2. x \in Listed(ips) /\ x \notin Listed(invited)
      <4>1. Len(ips) \in Nat
        BY PlanIsTyped DEF TypeOK
      <4>. QED  BY <1>6, <3>1, <4>1 DEF ToContact, Listed
    <3>. QED  BY <3>1, <3>2 DEF Fresh, PlacesInv, Unsent, KeyAt
  <2>2. CASE ~BroadcastSetup
    <3>1. ToContact(x)
      BY <1>6, <2>2, ContactsShrink
    <3>. QED  BY <1>4, <3>1 DEF PlacesInv, OnceInv
  <2>. QED  BY <2>1, <2>2
<1>. QED  BY <1>2, <1>3, <1>5, <1>6 DEF PlacesInv, Unsent

LEMMA ApartStep ==
    ASSUME TypeOK, RunsOK, PlacesInv, ApartInv, [Next]_vars
    PROVE  ApartInv'
<1>0. /\ queue \in [Node -> SUBSET (Nat \X Node)]
      /\ counted \in [Node -> SUBSET (Nat \X Node)]
      /\ \A k \in keys : /\ k[1] \in Nat /\ k[2] \in Node /\ k[3] \in Node
                         /\ k = <<k[1], k[2], k[3]>>
      /\ setups \subseteq alive \X Seq(Node) /\ alive \subseteq Node
  BY DEF TypeOK, HeartOK, MachinesOK
<1>1. CASE UNCHANGED <<keys, queue, counted>>
  BY <1>1 DEF ApartInv
<1>2. ASSUME NEW m \in Manager, Generate(m) PROVE ApartInv'
  <2>1. PICK killed \in SUBSET alive : Spawn(m, killed)
    BY <1>2, GenerateIsSpawn
  <2>2. /\ keys' \subseteq keys
        /\ \A x \in Node : /\ queue'[x] \subseteq queue[x]
                           /\ counted'[x] \subseteq counted[x]
    BY <2>1 DEF Spawn
  <2>. QED  BY <1>0, <2>2 DEF ApartInv
<1>3. ASSUME NEW k \in keys, ReceiveKey(k) PROVE ApartInv'
  <2>1. /\ keys' = keys \ {k} /\ counted' = counted
        /\ \A x \in Node : x # k[3] => queue'[x] = queue[x]
        /\ queue'[k[3]] \subseteq queue[k[3]] \cup {<<k[1], k[2]>>}
    BY <1>0, <1>3 DEF ReceiveKey
  <2>2. ASSUME NEW l \in keys'
        PROVE  <<l[1], l[2]>> \notin queue'[l[3]] \cup counted'[l[3]]
    <3>1. l \in keys /\ l # k
      BY <2>1, <2>2
    <3>2. l[3] = k[3] => <<l[1], l[2]>> # <<k[1], k[2]>>
      BY <1>0, <3>1
    <3>. QED  BY <1>0, <2>1, <3>1, <3>2 DEF ApartInv
  <2>. QED  BY <1>0, <2>1, <2>2 DEF ApartInv
<1>4. ASSUME NEW x \in Node, NEW s \in setups, s[1] = x, Setup(x, s[2])
      PROVE  ApartInv'
  <2>1. /\ keys' = keys \cup {<<Place(x, s[2]), x, y>> : y \in Listed(s[2])}
        /\ UNCHANGED <<queue, counted>>
    BY <1>4 DEF Setup, SetUpWith
  <2>2. /\ Place(x, s[2]) \in Nat /\ \A y \in Listed(s[2]) : y \in Node
    BY <1>0, <1>4, PlaceIs, ListedAre DEF RunsOK
  <2>3. \A y \in Listed(s[2]) :
          <<Place(x, s[2]), x>> \notin queue[y] \cup counted[y]
    BY <1>4, <2>2 DEF PlacesInv, Unsent, KeyAt
  <2>. QED  BY <2>1, <2>3 DEF ApartInv
<1>5. ASSUME NEW x \in Node, NEW key \in queue[x], CountKey(x, key)
      PROVE  ApartInv'
  <2>1. /\ keys' = keys
        /\ \A y \in Node : y # x => /\ queue'[y] = queue[y]
                                    /\ counted'[y] = counted[y]
        /\ queue'[x] = queue[x] \ {key}
        /\ counted'[x] \subseteq counted[x] \cup {key}
    BY <1>0, <1>5 DEF CountKey, SetWaiter
  <2>. QED  BY <1>0, <2>1 DEF ApartInv
<1>. QED  BY <1>1, <1>2, <1>3, <1>4, <1>5, WhoMovesKeys

-----------------------------------------------------------------------------
(* What key_waiter has done.                                               *)
WaiterInv ==
    \A x \in Node :
        /\ waiter[x] # "failed"
        /\ waiter[x] \in {"told", "counting", "ready"} => network[x] # <<>>
        /\ IsFiniteSet(counted[x])
        /\ counted[x] # {} => network[x] # <<>>
        /\ waiter[x] = "ready" => Cardinality(counted[x]) = Len(network[x])
        /\ x \in readies => waiter[x] = "ready"

(* The keys that a node has counted are those of its list.                 *)
LEMMA CountedIsPlaced ==
    ASSUME TypeOK, RunsOK, ListsInv, PlacesInv, NEW x \in Node,
           network[x] # <<>>, NEW c \in queue[x] \cup counted[x]
    PROVE  /\ c = <<c[1], c[2]>>
           /\ c[1] \in 1 .. Len(network[x]) /\ network[x][c[1]] = c[2]
<1>1. c \in Nat \X Node
  BY DEF TypeOK, HeartOK
<1>2. c = <<c[1], c[2]>> /\ c[1] \in Nat /\ c[2] \in Node
  BY <1>1
<1>3. KeyAt(c[1], c[2], x)
  BY <1>2 DEF KeyAt
<1>4. network[x] \in Lists /\ x \in Listed(network[x])
  BY ListsAre DEF ListsInv
<1>. QED  BY <1>2, <1>3, <1>4 DEF PlacesInv

(* key_waiter never meets a place that is taken or not there.              *)
LEMMA CountKeyIs ==
    ASSUME TypeOK, RunsOK, ListsInv, PlacesInv, ApartInv, WaiterInv,
           NEW x \in Node, NEW key \in queue[x], CountKey(x, key)
    PROVE  /\ waiter[x] = "counting" /\ key \notin counted[x]
           /\ counted' = [counted EXCEPT ![x] = @ \cup {key}]
           /\ \/ /\ waiter' = [waiter EXCEPT ![x] = "counting"]
                 /\ Cardinality(counted[x]) + 1 # Len(network[x])
                 /\ readies' = readies
              \/ /\ waiter' = [waiter EXCEPT ![x] = "ready"]
                 /\ Cardinality(counted[x]) + 1 = Len(network[x])
                 /\ readies' = readies \cup {x}
           /\ network' = network
<1>1. waiter[x] = "counting" /\ network' = network
  BY DEF CountKey, SetWaiter
<1>2. network[x] # <<>>
  BY <1>1 DEF WaiterInv
<1>3. key[1] \in 1 .. Len(network[x]) /\ Len(network[x]) \in Nat
  <2>1. network[x] \in Seq(Node)
    BY DEF TypeOK, HeartOK
  <2>. QED  BY <1>2, <2>1, CountedIsPlaced
<1>4. key \notin counted[x]
  BY DEF ApartInv
<1>5. \A c \in counted[x] : c[1] # key[1]
  BY <1>2, <1>4, CountedIsPlaced
<1>6. ~(\/ key[1] > Len(network[x]) \/ \E c \in counted[x] : c[1] = key[1])
  BY <1>3, <1>5
<1>. DEFINE last == Cardinality(counted[x]) + 1 = Len(network[x])
<1>7. /\ waiter' = [waiter EXCEPT ![x] = IF last THEN "ready" ELSE "counting"]
      /\ counted' = [counted EXCEPT ![x] = @ \cup {key}]
      /\ readies' = IF last THEN readies \cup {x} ELSE readies
  BY <1>6 DEF CountKey, SetWaiter
<1>. QED  BY <1>1, <1>4, <1>7

LEMMA WaiterStart == Init => WaiterInv
BY FS_EmptySet DEF Init, WaiterInv

LEMMA WaiterStep ==
    ASSUME TypeOK, RunsOK, OnceInv, ListsInv, PlacesInv, ApartInv, WaiterInv,
           [Next]_vars
    PROVE  WaiterInv'
<1>. DEFINE same == UNCHANGED <<waiter, network, counted, readies>>
<1>0. /\ waiter \in [Node -> Stage] /\ network \in [Node -> Seq(Node)]
      /\ counted \in [Node -> SUBSET (Nat \X Node)]
  BY DEF TypeOK, HeartOK
<1>1. ASSUME same PROVE WaiterInv'
  BY <1>1 DEF WaiterInv
<1>2. ASSUME NEW m \in Manager, Generate(m) PROVE WaiterInv'
  <2>1. PICK killed \in SUBSET alive : Spawn(m, killed)
    BY <1>2, GenerateIsSpawn
  <2>2. \A x \in Node \ killed : /\ waiter'[x] = waiter[x]
                                 /\ network'[x] = network[x]
                                 /\ counted'[x] = counted[x]
    BY <2>1 DEF Spawn
  <2>3. \A x \in killed \cap Node :
           waiter'[x] = "new" /\ counted'[x] = {} /\ IsFiniteSet({})
    BY <2>1, FS_EmptySet DEF Spawn
  <2>4. readies' = readies \ killed
    BY <2>1 DEF Spawn
  <2>. QED  BY <2>2, <2>3, <2>4 DEF WaiterInv
<1>3. CASE Start \/ Stop \/ Connected \/ BroadcastSetup \/ ContactNext \/ Begin
  BY <1>1, <1>3 DEF Start, Stop, Connected, BroadcastSetup, ContactNext, Begin,
                    BeginWith, heart
<1>4. CASE \E k \in keys : ReceiveKey(k)
  BY <1>1, <1>4 DEF ReceiveKey
<1>5. ASSUME NEW x \in Node, Join(x) \/ Track(x) \/ Listen(x) PROVE same
  BY <1>5 DEF Join, Track, Listen, heart
<1>6. ASSUME NEW x \in Node, CountReady(x) PROVE WaiterInv'
  BY <1>6 DEF CountReady, heart, WaiterInv
<1>7. ASSUME NEW x \in Node, TakeKeys(x) \/ TakeSetup(x) \/ ReadSize(x)
      PROVE  WaiterInv'
  <2>1. /\ UNCHANGED <<network, counted, readies>>
        /\ waiter[x] \in {"new", "keys", "told"}
        /\ \A y \in Node : y # x => waiter'[y] = waiter[y]
        /\ \/ waiter'[x] \in {"keys", "setup"}
           \/ waiter[x] = "told" /\ waiter'[x] = "counting"
    BY <1>0, <1>7 DEF TakeKeys, TakeSetup, ReadSize, SetWaiter
  <2>. QED  BY <2>1 DEF WaiterInv
<1>8. ASSUME NEW x \in Node, NEW s \in setups, s[1] = x, Setup(x, s[2])
      PROVE  WaiterInv'
  <2>1. network[x] = <<>> /\ s[2] \in Seq(Node) /\ s[2] # <<>>
    <3>1. s[2] \in Lists
      BY ListsAre
    <3>. QED  BY <1>8, <3>1, ListsAre DEF OnceInv
  <2>2. network'[x] = s[2] /\ UNCHANGED <<counted, readies>>
    BY <1>0, <1>8, <2>1, ConcatEmptySeq DEF Setup, SetUpWith
  <2>3. /\ \A y \in Node : y # x => /\ waiter'[y] = waiter[y]
                                    /\ network'[y] = network[y]
        /\ waiter'[x] = IF waiter[x] = "setup" THEN "told" ELSE waiter[x]
    BY <1>0, <1>8 DEF Setup, SetUpWith
  <2>. QED  BY <2>1, <2>2, <2>3 DEF WaiterInv
<1>9. ASSUME NEW x \in Node, NEW key \in queue[x], CountKey(x, key)
      PROVE  WaiterInv'
  <2>0. /\ waiter[x] = "counting" /\ key \notin counted[x]
        /\ counted' = [counted EXCEPT ![x] = @ \cup {key}]
        /\ \/ /\ waiter' = [waiter EXCEPT ![x] = "counting"]
              /\ readies' = readies
           \/ /\ waiter' = [waiter EXCEPT ![x] = "ready"]
              /\ readies' = readies \cup {x}
        /\ network' = network
    BY <1>9, CountKeyIs
  <2>1. /\ network[x] # <<>> /\ IsFiniteSet(counted[x])
        /\ counted'[x] = counted[x] \cup {key}
        /\ \A y \in Node : y # x => /\ waiter'[y] = waiter[y]
                                    /\ counted'[y] = counted[y]
        /\ network' = network /\ readies' \subseteq readies \cup {x}
    BY <1>0, <2>0 DEF WaiterInv
  <2>2. /\ IsFiniteSet(counted'[x])
        /\ Cardinality(counted'[x]) = Cardinality(counted[x]) + 1
    <3>1. /\ IsFiniteSet(counted[x] \cup {key})
          /\ Cardinality(counted[x] \cup {key}) = Cardinality(counted[x]) + 1
      BY <2>0, <2>1, FS_AddElement
    <3>. QED  BY <2>1, <3>1
  <2>3. \/ waiter'[x] = "counting" /\ readies' = readies
        \/ /\ waiter'[x] = "ready"
           /\ Cardinality(counted'[x]) = Len(network'[x])
    BY <1>0, <1>9, <2>1, <2>2, CountKeyIs
  <2>4. waiter[x] # "ready"
    BY <1>9, CountKeyIs
  <2>. QED  BY <2>1, <2>2, <2>3, <2>4 DEF WaiterInv
<1>10. CASE UNCHANGED vars
  BY <1>1, <1>10 DEF vars, heart
<1>. HIDE DEF same
<1>. QED
  BY <1>1, <1>2, <1>3, <1>4, <1>5, <1>6, <1>7, <1>8, <1>9, <1>10
     DEF Next, Work, NodeStep

-----------------------------------------------------------------------------
(* All that the places of the keys rest on.                                *)
KeysInv ==
    /\ TypeOK /\ RunsOK /\ KnownInv
    /\ OnceInv /\ ListsInv
    /\ PlacesInv /\ ApartInv
    /\ WaiterInv

LEMMA KeysInvStart == Init => KeysInv
<1>. SUFFICES ASSUME Init PROVE KeysInv
  OBVIOUS
<1>1. RunsOK
  BY DEF Init, RunsOK
<1>. QED
  BY <1>1, TypeStart, KnownStart, ListsStart, KeysStart, WaiterStart
     DEF KeysInv

LEMMA KeysInvStep ==
    ASSUME KeysInv, [Next]_vars
    PROVE  KeysInv'
BY TypeStep, KnownStep, ListsStep, OnceStep, PlacesStep, ApartStep, WaiterStep
   DEF KeysInv

(* A node has the key of the right node at each place that it has counted, *)
(* and key_waiter never meets a place that is taken or not there.          *)
THEOREM KeysInPlace == Spec => []KeysAreInPlace
<1>1. KeysInv => KeysAreInPlace
  <2>. SUFFICES ASSUME KeysInv, NEW x \in Node
                PROVE  /\ waiter[x] # "failed"
                       /\ \A c \in counted[x] : network[x][c[1]] = c[2]
    BY DEF KeysAreInPlace
  <2>1. ASSUME NEW c \in counted[x] PROVE network[x][c[1]] = c[2]
    <3>1. network[x] # <<>>
      BY DEF KeysInv, WaiterInv
    <3>. QED  BY <3>1, CountedIsPlaced DEF KeysInv
  <2>. QED  BY <2>1 DEF KeysInv, WaiterInv
<1>. QED  BY <1>1, KeysInvStart, KeysInvStep, PTL DEF Spec

-----------------------------------------------------------------------------
(* What the interface has counted.  No more nodes are started than its     *)
(* networks have places; it invites all that it has heard of, at least as  *)
(* many as the network has.                                                *)
Ordered(x) == x[3] <= Quota(plan[RunOf(x)], Home(x))

InvitedInv ==
    /\ \A x \in alive \cup Listed(ips) : Ordered(x)
    /\ Len(invited) <= Len(ips)
    /\ \A k \in 1 .. Len(invited) : invited[k] = ips[k]
    /\ phase = "setup" => Len(ips) >= Size
    /\ phase \in {"waiting", "running"} => Len(invited) >= Size

(* Of a run that has not heard of nodes of an earlier one: the Readies     *)
(* that it has counted are those of its own nodes.                         *)
Arrived == {x \in Node : RunOf(x) = run /\ waiter[x] = "ready" /\ x \notin readies}

CountInv ==
    /\ \A x \in Node : waiter[x] = "ready" => x \in alive
    /\ phase = "down" => ~misled /\ readyCount = 0
    /\ phase # "down" /\ ~misled =>
          /\ \A x \in Listed(ips) : RunOf(x) = run
          /\ IsFiniteSet(Arrived) /\ readyCount = Cardinality(Arrived)
          /\ phase = "running" => readyCount >= Size

LEMMA CountStart == Init => InvitedInv /\ CountInv
<1>. SUFFICES ASSUME Init PROVE InvitedInv /\ CountInv
  OBVIOUS
<1>1. ips = <<>> /\ invited = <<>> /\ Len(<<>>) = 0 /\ alive = {}
  BY EmptySeq DEF Init
<1>2. Listed(ips) = {}
  BY <1>1 DEF Listed
<1>. QED  BY <1>1, <1>2 DEF Init, InvitedInv, CountInv

LEMMA InvitedStep ==
    ASSUME TypeOK, RunsOK, KnownInv, InvitedInv, [Next]_vars
    PROVE  InvitedInv'
<1>. DEFINE same == UNCHANGED <<plan, phase, run, ips, invited, alive>>
<1>0. /\ ips \in Seq(Node) /\ joining \subseteq alive
      /\ Len(ips) \in Nat /\ Len(<<>>) = 0
  BY PlanIsTyped, EmptySeq DEF TypeOK, InterfaceOK, MachinesOK
<1>1. ASSUME same PROVE InvitedInv'
  BY <1>1 DEF InvitedInv, Ordered, Size
<1>2. CASE Start
  <2>1. /\ UNCHANGED <<plan, ips, invited, alive>> /\ phase' = "connecting"
    BY <1>2 DEF Start, given
  <2>. QED  BY <2>1 DEF InvitedInv, Ordered
<1>3. CASE Stop
  <2>1. /\ UNCHANGED <<plan, alive>> /\ phase' = "down"
        /\ ips' = <<>> /\ invited' = <<>>
    BY <1>3 DEF Stop, given
  <2>2. Listed(ips') = {}
    BY <1>0, <2>1 DEF Listed
  <2>. QED  BY <1>0, <2>1, <2>2 DEF InvitedInv, Ordered
<1>4. ASSUME NEW m \in Manager, Generate(m) PROVE InvitedInv'
  <2>1. PICK killed \in SUBSET alive : Spawn(m, killed)
    BY <1>4, GenerateIsSpawn
  <2>2. /\ UNCHANGED <<plan, phase, run, ips, invited>>
        /\ alive' \subseteq alive \cup Spawned(m) /\ m \in orders
    BY <2>1 DEF Spawn, interface, given
  <2>3. \A x \in Spawned(m) : Ordered(x)
    BY <2>2, OrderedWhileUp DEF Ordered, Size
  <2>. QED  BY <2>2, <2>3 DEF InvitedInv, Ordered, Size
<1>5. CASE Connected
  <2>1. Listed(ips') \subseteq Listed(ips) /\ Len(ips') = Len(ips)
    BY <1>0, <1>5, OrdersAre DEF Connected
  <2>2. /\ invited = <<>> /\ invited' = <<>> /\ phase' = "setup"
        /\ Len(ips) >= Size /\ UNCHANGED <<plan, run, alive>>
    BY <1>5 DEF Connected, given, machines, KnownInv
  <2>. QED  BY <1>0, <2>1, <2>2 DEF InvitedInv, Ordered, Size
<1>6. CASE BroadcastSetup
  BY <1>0, <1>6 DEF BroadcastSetup, given, machines, InvitedInv, Ordered, Size
<1>7. CASE ContactNext
  BY <1>1, <1>7 DEF ContactNext, given, machines
<1>8. CASE Begin
  BY <1>8 DEF Begin, BeginWith, given, machines, InvitedInv, Ordered, Size
<1>9. CASE \E k \in keys : ReceiveKey(k)
  BY <1>1, <1>9 DEF ReceiveKey, interface, given, machines
<1>10. ASSUME NEW x \in Node, Join(x) PROVE InvitedInv'
  <2>1. /\ x \in alive /\ UNCHANGED <<plan, phase, run, invited, alive>>
        /\ ips' = IF phase = "down" THEN ips ELSE Append(ips, x)
    BY <1>0, <1>10 DEF Join, given, machines
  <2>2. /\ Listed(ips') \subseteq Listed(ips) \cup {x}
        /\ Len(ips') \in Nat /\ Len(ips') >= Len(ips)
        /\ \A k \in 1 .. Len(ips) : ips'[k] = ips[k]
    BY <1>0, <2>1, AppendedAre
  <2>3. Len(invited) \in Nat /\ (phase # "down" => Size \in Nat)
    <3>1. phase # "down" => plan \in Plans /\ run \in 1 .. Len(plan)
      BY PlanIsTyped DEF TypeOK, InterfaceOK, RunsOK
    <3>. QED  BY <3>1, PlanIsTyped, SizeIsBounded DEF TypeOK
  <2>4. phase' = phase /\ (phase # "down" => Size' = Size)
    BY <2>1 DEF Size
  <2>. QED  BY <1>0, <2>1, <2>2, <2>3, <2>4 DEF InvitedInv, Ordered
<1>11. ASSUME NEW x \in Node, CountReady(x) \/ Track(x) \/ Listen(x)
       PROVE  same
  BY <1>11 DEF CountReady, Track, Listen, interface, given, machines
<1>12. ASSUME NEW x \in Node, TakeKeys(x) \/ TakeSetup(x) \/ ReadSize(x)
       PROVE  same
  BY <1>12 DEF TakeKeys, TakeSetup, ReadSize, SetWaiter, interface, given,
               machines
<1>13. ASSUME NEW x \in Node, NEW s, Setup(x, s) PROVE same
  BY <1>13 DEF Setup, SetUpWith, interface, given, machines
<1>14. ASSUME NEW x \in Node, NEW key, CountKey(x, key) PROVE same
  BY <1>14 DEF CountKey, SetWaiter, interface, given, machines
<1>15. CASE UNCHANGED vars
  BY <1>1, <1>15 DEF vars, interface, given, machines
<1>. HIDE DEF same
<1>. QED
  BY <1>1, <1>2, <1>3, <1>4, <1>5, <1>6, <1>7, <1>8, <1>9, <1>10, <1>11,
     <1>12, <1>13, <1>14, <1>15 DEF Next, Work, NodeStep

LEMMA CountStep ==
    ASSUME KeysInv, CountInv, [Next]_vars
    PROVE  CountInv'
<1>. DEFINE counts == UNCHANGED <<plan, phase, run, ips, misled, readyCount>>
            same == counts /\ UNCHANGED <<alive, waiter, readies>>
            Ready(x) == waiter[x] = "ready"
<1>0. /\ TypeOK /\ RunsOK /\ KnownInv /\ WaiterInv
      /\ ips \in Seq(Node) /\ waiter \in [Node -> Stage] /\ run \in Nat
      /\ readies \subseteq Node /\ readies \subseteq alive
      /\ joining \subseteq Node /\ setups \subseteq alive \X Seq(Node)
      /\ readyCount \in Nat
  BY PlanIsTyped DEF KeysInv, TypeOK, InterfaceOK, MachinesOK, HeartOK
(* Steps that make no node ready and lose none of this run.                *)
<1>1. ASSUME counts, Arrived' = Arrived,
             \A x \in Node : Ready(x)' => x \in alive'
      PROVE  CountInv'
  BY <1>0, <1>1 DEF CountInv, Size
<1>2. ASSUME same PROVE CountInv'
  BY <1>2 DEF CountInv, Arrived, Size
<1>3. CASE Start
  <2>1. /\ phase = "down" /\ phase' = "connecting" /\ run' = run + 1
        /\ UNCHANGED <<ips, misled, readyCount, alive, waiter, readies>>
    BY <1>3 DEF Start, heart
  <2>2. ips = <<>> /\ Listed(<<>>) = {} /\ ~misled /\ readyCount = 0
    BY <1>0, <2>1, ListedAre DEF KnownInv, CountInv
  <2>3. ASSUME NEW x \in Node, RunOf(x) = run + 1 PROVE waiter[x] # "ready"
    BY <1>0, <2>3 DEF KnownInv, Unborn, CountInv
  <2>4. Arrived' = {}
    BY <2>1, <2>3 DEF Arrived, RunOf
  <2>. QED  BY <2>1, <2>2, <2>4, FS_EmptySet DEF CountInv
<1>4. CASE Stop
  BY <1>4 DEF Stop, heart, CountInv
<1>5. ASSUME NEW m \in Manager, Generate(m) PROVE CountInv'
  <2>1. PICK killed \in SUBSET alive :
          /\ Spawn(m, killed)
          /\ \A x \in killed : RunOf(x) # run
    BY <1>0, <1>5, GenerateIs
  <2>2. /\ counts /\ alive' = (alive \ killed) \cup Spawned(m)
        /\ readies' = readies \ killed
        /\ \A x \in Node : waiter'[x] = IF x \in killed THEN "new"
                                        ELSE waiter[x]
    BY <2>1 DEF Spawn, interface, given
  <2>3. Arrived' = Arrived
    BY <2>1, <2>2 DEF Arrived, RunOf
  <2>. QED  BY <1>1, <2>2, <2>3 DEF CountInv
<1>6. CASE Connected
  <2>1. Listed(ips') \subseteq Listed(ips)
    BY <1>0, <1>6, OrdersAre DEF Connected
  <2>2. /\ phase = "connecting" /\ phase' = "setup"
        /\ UNCHANGED <<run, misled, readyCount, alive, waiter, readies>>
    BY <1>6 DEF Connected, machines, heart
  <2>. QED  BY <2>1, <2>2 DEF CountInv, Arrived
<1>7. CASE BroadcastSetup
  BY <1>7 DEF BroadcastSetup, machines, heart, CountInv, Arrived
<1>8. CASE Begin
  <2>1. /\ phase = "waiting" /\ phase' = "running" /\ readyCount = Size
        /\ UNCHANGED <<plan, run, ips, misled, readyCount, alive, waiter,
                       readies>>
    BY <1>8 DEF Begin, BeginWith, given, machines, heart
  <2>. QED  BY <1>0, <2>1 DEF CountInv, Arrived, Size
<1>9. CASE ContactNext
  BY <1>2, <1>9 DEF ContactNext, given, machines
<1>10. CASE \E k \in keys : ReceiveKey(k)
  BY <1>2, <1>10 DEF ReceiveKey, interface, given, machines
<1>11. ASSUME NEW x \in Node, Join(x) PROVE CountInv'
  <2>1. /\ x \in Node /\ ips' = IF phase = "down" THEN ips ELSE Append(ips, x)
        /\ misled' = (misled \/ (phase # "down" /\ RunOf(x) # run))
        /\ UNCHANGED <<plan, phase, run, readyCount, alive, waiter, readies>>
    BY <1>11 DEF Join, Notice, given, machines, heart
  <2>2. phase # "down" => Listed(ips') = Listed(ips) \cup {x}
    BY <1>0, <2>1, AppendedAre
  <2>3. Arrived' = Arrived /\ Size' = Size
    BY <2>1 DEF Arrived, RunOf, Size
  <2>. QED  BY <2>1, <2>2, <2>3 DEF CountInv
<1>12. ASSUME NEW x \in Node, CountReady(x) PROVE CountInv'
  <2>1. /\ x \in readies /\ readies' = readies \ {x}
        /\ readyCount' = IF phase = "down" THEN readyCount ELSE readyCount + 1
        /\ misled' = (misled \/ (phase # "down" /\ RunOf(x) # run))
        /\ UNCHANGED <<plan, phase, run, ips, alive, waiter>>
    BY <1>12 DEF CountReady, Notice, given, machines, heart
  <2>2. waiter[x] = "ready"
    BY <1>0, <2>1 DEF WaiterInv
  <2>3. ASSUME phase # "down", ~misled'
        PROVE  /\ IsFiniteSet(Arrived') /\ readyCount' = Cardinality(Arrived')
               /\ phase' = "running" => readyCount' >= Size'
    <3>1. RunOf(x) = run /\ ~misled
      BY <2>1, <2>3
    <3>2. Arrived' = Arrived \cup {x} /\ x \notin Arrived
      BY <2>1, <2>2, <3>1 DEF Arrived, RunOf
    <3>3. /\ IsFiniteSet(Arrived) /\ readyCount = Cardinality(Arrived)
          /\ phase = "running" => readyCount >= Size
      BY <2>3, <3>1 DEF CountInv
    <3>4. /\ IsFiniteSet(Arrived \cup {x})
          /\ Cardinality(Arrived \cup {x}) = Cardinality(Arrived) + 1
      BY <3>2, <3>3, FS_AddElement
    <3>5. Size' = Size /\ Size \in Int
      <4>1. plan \in Plans /\ run \in 1 .. Len(plan)
        BY <1>0, <2>3, PlanIsTyped DEF TypeOK, InterfaceOK, RunsOK
      <4>. QED  BY <2>1, <4>1, SizeIsBounded, StartupAssumption DEF Size
    <3>. QED  BY <1>0, <2>1, <2>3, <3>2, <3>3, <3>4, <3>5
  <2>. QED  BY <2>1, <2>3 DEF CountInv
<1>13. ASSUME NEW x \in Node, Track(x) \/ Listen(x) PROVE same
  BY <1>13 DEF Track, Listen, interface, given, heart, machines
<1>14. ASSUME NEW x \in Node, TakeKeys(x) \/ TakeSetup(x) \/ ReadSize(x)
       PROVE  CountInv'
  <2>1. /\ counts /\ UNCHANGED <<alive, readies>>
        /\ \A y \in Node : Ready(y)' <=> Ready(y)
    BY <1>0, <1>14 DEF TakeKeys, TakeSetup, ReadSize, SetWaiter, interface,
                       given, machines
  <2>2. Arrived' = Arrived
    BY <2>1 DEF Arrived, RunOf
  <2>. QED  BY <1>1, <2>1, <2>2 DEF CountInv
<1>15. ASSUME NEW x \in Node, NEW s, Setup(x, s) PROVE CountInv'
  <2>1. /\ counts /\ UNCHANGED <<alive, readies>>
        /\ \A y \in Node : Ready(y)' <=> Ready(y)
    BY <1>0, <1>15 DEF Setup, SetUpWith, interface, given, machines
  <2>2. Arrived' = Arrived
    BY <2>1 DEF Arrived, RunOf
  <2>. QED  BY <1>1, <2>1, <2>2 DEF CountInv
<1>16. ASSUME NEW x \in Node, NEW key \in queue[x], CountKey(x, key)
       PROVE  CountInv'
  <2>1. /\ waiter[x] = "counting" /\ x \notin readies
        /\ \/ /\ waiter' = [waiter EXCEPT ![x] = "counting"]
              /\ readies' = readies
           \/ /\ waiter' = [waiter EXCEPT ![x] = "ready"]
              /\ readies' = readies \cup {x}
    BY <1>0, <1>16, CountKeyIs DEF KeysInv, WaiterInv
  <2>2. /\ counts /\ alive' = alive /\ x \in alive
    BY <1>16 DEF CountKey, SetWaiter, interface, given, machines
  <2>3. Arrived' = Arrived
    BY <1>0, <2>1, <2>2 DEF Arrived, RunOf
  <2>. QED  BY <1>0, <1>1, <2>1, <2>2, <2>3 DEF CountInv
<1>17. CASE UNCHANGED vars
  BY <1>2, <1>17 DEF vars, interface, given, machines, heart
<1>. HIDE DEF same, counts, Ready
<1>. QED
  BY <1>2, <1>3, <1>4, <1>5, <1>6, <1>7, <1>8, <1>9, <1>10, <1>11, <1>12,
     <1>13, <1>14, <1>15, <1>16, <1>17 DEF Next, Work, NodeStep

-----------------------------------------------------------------------------
(* A list without duplicates has as many members as places.                *)
LEMMA SizeOfList ==
    ASSUME NEW S, NEW s \in Seq(S), NoDup(s)
    PROVE  IsFiniteSet(Listed(s)) /\ Cardinality(Listed(s)) = Len(s)
<1>. DEFINE D == 1 .. Len(s)
            f == [k \in D |-> s[k]]
<1>0. Len(s) \in Nat
  OBVIOUS
<1>1. IsFiniteSet(D) /\ Cardinality(D) = Len(s)
  BY <1>0, FS_Interval
<1>2. f \in Bijection(D, Listed(s))
  <2>1. f \in [D -> Listed(s)]
    BY DEF Listed
  <2>2. \A j, k \in D : f[j] = f[k] => j = k
    BY DEF NoDup
  <2>3. \A t \in Listed(s) : \E k \in D : f[k] = t
    BY DEF Listed
  <2>. QED
    BY <2>1, <2>2, <2>3 DEF Bijection, Injection, Surjection, IsInjective
<1>. HIDE DEF D, f
<1>. QED  BY <1>1, <1>2, FS_Bijection DEF ExistsBijection

(* The keys of all the places of a list.                                   *)
KeysOf(s) == {<<k, s[k]>> : k \in 1 .. Len(s)}

LEMMA SizeOfKeys ==
    ASSUME NEW S, NEW s \in Seq(S)
    PROVE  IsFiniteSet(KeysOf(s)) /\ Cardinality(KeysOf(s)) = Len(s)
<1>. DEFINE D == 1 .. Len(s)
            f == [k \in D |-> <<k, s[k]>>]
<1>0. Len(s) \in Nat
  OBVIOUS
<1>1. IsFiniteSet(D) /\ Cardinality(D) = Len(s)
  BY <1>0, FS_Interval
<1>2. f \in Bijection(D, KeysOf(s))
  <2>1. f \in [D -> KeysOf(s)]
    BY DEF KeysOf
  <2>2. \A j, k \in D : f[j] = f[k] => j = k
    OBVIOUS
  <2>3. \A t \in KeysOf(s) : \E k \in D : f[k] = t
    BY DEF KeysOf
  <2>. QED
    BY <2>1, <2>2, <2>3 DEF Bijection, Injection, Surjection, IsInjective
<1>. HIDE DEF D, f
<1>. QED  BY <1>1, <1>2, FS_Bijection DEF ExistsBijection

(* The nodes that are started for a run are no more than its network has.  *)
NodesOfRun == {x \in Node : RunOf(x) = run /\ Ordered(x)}

LEMMA NodesOfRunAre ==
    ASSUME Size \in Nat
    PROVE  IsFiniteSet(NodesOfRun) /\ Cardinality(NodesOfRun) <= Size
<1>. DEFINE f == [x \in NodesOfRun |-> <<x[2], x[3]>>]
<1>1. ASSUME NEW x \in NodesOfRun
      PROVE  /\ <<x[2], x[3]>> \in Takes(Size) /\ x = <<run, x[2], x[3]>>
  BY <1>1, NodeParts DEF NodesOfRun, Takes, Ordered, RunOf, Home, Size
<1>2. f \in Injection(NodesOfRun, Takes(Size))
  <2>1. f \in [NodesOfRun -> Takes(Size)]
    BY <1>1
  <2>2. \A x, y \in NodesOfRun : f[x] = f[y] => x = y
    BY <1>1
  <2>. QED  BY <2>1, <2>2 DEF Injection, IsInjective
<1>3. /\ IsFiniteSet(Takes(Size)) /\ Cardinality(Takes(Size)) <= Size
      /\ Cardinality(Takes(Size)) \in Nat
  BY TakesOfNetwork, FS_CardinalityType
<1>. HIDE DEF f
<1>4. /\ IsFiniteSet(NodesOfRun)
      /\ Cardinality(NodesOfRun) <= Cardinality(Takes(Size))
  BY <1>2, <1>3, FS_Injection
<1>5. Cardinality(NodesOfRun) \in Nat
  BY <1>4, FS_CardinalityType
<1>. QED  BY <1>3, <1>4, <1>5

LEMMA FullSubset ==
    ASSUME NEW T, IsFiniteSet(T), NEW S \in SUBSET T,
           Cardinality(S) >= Cardinality(T)
    PROVE  S = T
<1>1. /\ IsFiniteSet(S) /\ Cardinality(S) <= Cardinality(T)
      /\ Cardinality(S) = Cardinality(T) => S = T
  BY FS_Subset
<1>2. Cardinality(S) \in Nat /\ Cardinality(T) \in Nat
  BY <1>1, FS_CardinalityType
<1>. QED  BY <1>1, <1>2

LEMMA RunningIsEquipped ==
    ASSUME KeysInv, InvitedInv, CountInv, phase = "running", ~misled
    PROVE  \A k \in 1 .. Size : Equipped(ips[k])
<1>0. /\ TypeOK /\ RunsOK /\ KnownInv /\ ListsInv /\ PlacesInv /\ WaiterInv
      /\ ips \in Seq(Node) /\ invited \in Seq(Node)
      /\ network \in [Node -> Seq(Node)] /\ alive \subseteq Node
      /\ joining \subseteq alive
  BY DEF KeysInv, TypeOK, InterfaceOK, MachinesOK, HeartOK
<1>1. Size \in Nat \ {0} /\ Len(ips) \in Nat /\ Len(invited) \in Nat
  <2>1. plan \in Plans /\ run \in 1 .. Len(plan)
    BY <1>0, PlanIsTyped DEF TypeOK, InterfaceOK, RunsOK
  <2>. QED  BY <1>0, <2>1, SizeIsBounded, PlanIsTyped, StartupAssumption
<1>2. /\ IsFiniteSet(NodesOfRun) /\ Cardinality(NodesOfRun) <= Size
      /\ Cardinality(NodesOfRun) \in Nat
  BY <1>1, NodesOfRunAre, FS_CardinalityType
(* All the nodes of the run have sent their Readies.                       *)
<1>3. Arrived = NodesOfRun
  <2>1. Arrived \subseteq NodesOfRun
    BY DEF Arrived, NodesOfRun, CountInv, InvitedInv
  <2>2. Cardinality(Arrived) >= Size /\ Cardinality(Arrived) \in Nat
    BY FS_CardinalityType DEF CountInv
  <2>3. Cardinality(Arrived) >= Cardinality(NodesOfRun)
    BY <1>1, <1>2, <2>2
  <2>. QED  BY <1>2, <2>1, <2>3, FullSubset
(* They are all that have connected, and all have been invited.            *)
<1>4. invited = ips /\ Len(ips) = Size
  <2>1. Listed(ips) \subseteq NodesOfRun
    BY <1>0, ListedAre DEF NodesOfRun, CountInv, InvitedInv
  <2>2. IsFiniteSet(Listed(ips)) /\ Cardinality(Listed(ips)) = Len(ips)
    BY <1>0, SizeOfList DEF KnownInv
  <2>3. Len(ips) <= Cardinality(NodesOfRun)
    BY <1>2, <2>1, <2>2, FS_Subset
  <2>4. Len(invited) >= Size /\ Len(invited) <= Len(ips)
    BY DEF InvitedInv
  <2>5. Len(invited) = Len(ips) /\ Len(ips) = Size
    BY <1>1, <1>2, <2>3, <2>4
  <2>6. \A k \in 1 .. Len(invited) : invited[k] = ips[k]
    BY DEF InvitedInv
  <2>7. invited = ips
    BY <1>0, <2>5, <2>6, SeqEqual
  <2>. QED  BY <2>5, <2>7
<1>5. ASSUME NEW k \in 1 .. Size
      PROVE  Equipped(ips[k])
  <2>. DEFINE x == ips[k]
  <2>1. x \in Node /\ x \in Listed(ips)
    BY <1>0, <1>4, <1>5 DEF Listed
  <2>2. waiter[x] = "ready"
    <3>1. x \in NodesOfRun
      BY <2>1 DEF NodesOfRun, CountInv, InvitedInv
    <3>. QED  BY <1>3, <3>1 DEF Arrived
  <2>. HIDE DEF x
  <2>3. network[x] # <<>> /\ Cardinality(counted[x]) = Len(network[x])
    BY <1>0, <2>1, <2>2 DEF WaiterInv
  <2>4. network[x] = ips
    <3>1. /\ network[x] \in Lists /\ invited \in Lists
          /\ x \in Listed(network[x]) /\ x \in Listed(invited)
      BY <1>0, <1>4, <2>1, <2>3, ListsAre DEF ListsInv
    <3>. QED  BY <1>0, <1>4, <3>1 DEF ListsInv
  <2>5. counted[x] = KeysOf(ips)
    <3>1. counted[x] \subseteq KeysOf(ips)
      <4>1. \A c \in counted[x] : /\ c = <<c[1], c[2]>>
                                  /\ c[1] \in 1 .. Len(ips)
                                  /\ ips[c[1]] = c[2]
        BY <1>0, <2>1, <2>3, <2>4, CountedIsPlaced
      <4>. QED  BY <4>1 DEF KeysOf
    <3>2. IsFiniteSet(KeysOf(ips)) /\ Cardinality(KeysOf(ips)) = Len(ips)
      BY <1>0, SizeOfKeys
    <3>. QED  BY <1>1, <2>3, <2>4, <3>1, <3>2, FullSubset
  <2>6. {c[2] : c \in KeysOf(ips)} = {ips[j] : j \in 1 .. Len(ips)}
    <3>1. \A c \in KeysOf(ips) : \E j \in 1 .. Len(ips) : c[2] = ips[j]
      BY DEF KeysOf
    <3>2. \A j \in 1 .. Len(ips) : <<j, ips[j]>> \in KeysOf(ips)
      BY DEF KeysOf
    <3>3. \A j \in 1 .. Len(ips) : \E c \in KeysOf(ips) : c[2] = ips[j]
      BY <3>2
    <3>. QED  BY <3>1, <3>3
  <2>7. Equipped(x)
    BY <2>4, <2>5, <2>6 DEF Equipped
  <2>. QED  BY <2>7 DEF x
<1>. QED  BY <1>5

(* An operation is only started on nodes that have the keys of all in the  *)
(* network and their own place in it, unless the run has heard of nodes of *)
(* an earlier one.                                                         *)
THEOREM KeysFound == Spec => []OperationsFindKeys
<1>1. Init => KeysInv /\ InvitedInv /\ CountInv
  BY KeysInvStart, CountStart
<1>2. KeysInv /\ InvitedInv /\ CountInv /\ [Next]_vars
        => KeysInv' /\ InvitedInv' /\ CountInv'
  <2>. SUFFICES ASSUME KeysInv, InvitedInv, CountInv, [Next]_vars
                PROVE  KeysInv' /\ InvitedInv' /\ CountInv'
    OBVIOUS
  <2>. QED  BY KeysInvStep, InvitedStep, CountStep DEF KeysInv
<1>3. KeysInv /\ InvitedInv /\ CountInv => OperationsFindKeys
  BY RunningIsEquipped DEF OperationsFindKeys
<1>. QED  BY <1>1, <1>2, <1>3, PTL DEF Spec

-----------------------------------------------------------------------------
(* Why a network comes up.                                                 *)

(* The quotas of a network take all its places: they are dealt out in turn. *)
LEMMA PlacesAreTaken ==
    ASSUME NEW n \in Nat, NEW p \in 1..n
    PROVE  \E x \in Takes(n) : PlaceOf(x) = p
<1>. DEFINE q == (p - 1) \div Managers
            m == p - q * Managers
            x == <<m, q + 1>>
<1>0. Managers \in Nat \ {0} /\ p - 1 \in Nat
  BY StartupAssumption
<1>1. q \in Nat /\ q * Managers <= p - 1 /\ p - 1 < q * Managers + Managers
  BY <1>0, DivisionBounds
<1>. HIDE DEF q
<1>2. q * Managers \in Nat
  BY <1>0, <1>1
<1>3. m \in 1..Managers
  BY <1>0, <1>1, <1>2
<1>4. q + 1 <= Quota(n, m)
  <2>. DEFINE a == n + Managers - m
              b == a \div Managers
  <2>1. a \in Nat /\ a >= q * Managers + Managers
    BY <1>0, <1>2, <1>3
  <2>2. b \in Nat /\ a < b * Managers + Managers
    BY <1>0, <2>1, DivisionBounds
  <2>. HIDE DEF m, a
  <2>3. Quota(n, m) = b
    BY DEF Quota, a
  <2>. HIDE DEF b
  <2>4. ASSUME b <= q PROVE FALSE
    <3>1. PICK d \in Nat : q = b + d
      <4>1. q - b \in Nat /\ q = b + (q - b)
        BY <1>1, <2>2, <2>4
      <4>. QED  BY <4>1
    <3>2. q * Managers = b * Managers + d * Managers
      BY <1>0, <2>2, <3>1
    <3>3. d * Managers \in Nat /\ b * Managers \in Nat
      BY <1>0, <2>2, <3>1
    <3>. QED  BY <1>0, <1>2, <2>1, <2>2, <3>2, <3>3
  <2>. QED  BY <1>1, <2>2, <2>3, <2>4
<1>5. x \in Takes(n)
  BY <1>0, <1>1, <1>3, <1>4 DEF Takes, Manager
<1>6. PlaceOf(x) = p
  <2>1. PlaceOf(x) = q * Managers + m
    BY <1>0, <1>1, <1>2, <1>3 DEF PlaceOf
  <2>. QED  BY <1>0, <1>2, <2>1
<1>. QED  BY <1>5, <1>6

LEMMA NetworkIsTaken ==
    ASSUME NEW n \in Nat
    PROVE  Cardinality(Takes(n)) >= n
<1>. DEFINE D == 1..n
            f == [p \in D |-> CHOOSE x \in Takes(n) : PlaceOf(x) = p]
<1>1. ASSUME NEW p \in D PROVE f[p] \in Takes(n) /\ PlaceOf(f[p]) = p
  BY PlacesAreTaken
<1>2. f \in Injection(D, Takes(n))
  <2>1. f \in [D -> Takes(n)]
    BY <1>1
  <2>2. \A p, r \in D : f[p] = f[r] => p = r
    BY <1>1
  <2>. QED  BY <2>1, <2>2 DEF Injection, IsInjective
<1>3. IsFiniteSet(D) /\ Cardinality(D) = n
  BY FS_Interval
<1>4. IsFiniteSet(Takes(n)) /\ Cardinality(Takes(n)) \in Nat
  BY TakesOfNetwork, FS_CardinalityType
<1>. HIDE DEF D, f
<1>5. Cardinality(D) <= Cardinality(Takes(n))
  BY <1>2, <1>4, FS_Injection
<1>. QED  BY <1>3, <1>4, <1>5

LEMMA NodesOfRunFill ==
    ASSUME TypeOK, run > 0
    PROVE  /\ Size \in Nat /\ IsFiniteSet(NodesOfRun)
           /\ Cardinality(NodesOfRun) = Size
<1>0. plan \in Plans /\ run \in 1 .. Len(plan) /\ run \in Nat
  BY PlanIsTyped DEF TypeOK, InterfaceOK
<1>1. Size \in 1 .. MaxSize /\ Size \in Nat /\ MaxSize \in Nat
  BY <1>0, SizeIsBounded, StartupAssumption
<1>. DEFINE f == [x \in Takes(Size) |-> <<run, x[1], x[2]>>]
<1>2. ASSUME NEW x \in Takes(Size) PROVE <<run, x[1], x[2]>> \in NodesOfRun
  <2>. DEFINE y == <<run, x[1], x[2]>>
  <2>1. /\ x[1] \in Manager /\ x[2] \in Nat \ {0}
        /\ x[2] <= Quota(Size, x[1]) /\ Quota(Size, x[1]) \in Nat
    BY <1>1, QuotaGrows DEF Takes
  <2>2. y \in Spawned(x[1])
    BY <2>1 DEF Spawned
  <2>3. y \in Node
    BY <1>0, <2>1, <2>2, SpawnedAreNodes
  <2>4. RunOf(y) = run /\ Ordered(y)
    BY <2>1 DEF RunOf, Ordered, Home, Size
  <2>. QED  BY <2>3, <2>4 DEF NodesOfRun
<1>3. f \in Injection(Takes(Size), NodesOfRun)
  <2>1. f \in [Takes(Size) -> NodesOfRun]
    BY <1>2
  <2>2. ASSUME NEW x \in Takes(Size), NEW y \in Takes(Size), f[x] = f[y]
        PROVE  x = y
    <3>1. x = <<x[1], x[2]>> /\ y = <<y[1], y[2]>>
      BY DEF Takes
    <3>2. x[1] = y[1] /\ x[2] = y[2]
      BY <2>2
    <3>. QED  BY <3>1, <3>2
  <2>. QED  BY <2>1, <2>2 DEF Injection, IsInjective
<1>4. /\ IsFiniteSet(NodesOfRun) /\ Cardinality(NodesOfRun) <= Size
      /\ Cardinality(NodesOfRun) \in Nat
  BY <1>1, NodesOfRunAre, FS_CardinalityType
<1>5. IsFiniteSet(Takes(Size)) /\ Cardinality(Takes(Size)) \in Nat
  BY <1>1, TakesOfNetwork, FS_CardinalityType
<1>. HIDE DEF f
<1>6. Cardinality(Takes(Size)) <= Cardinality(NodesOfRun)
  BY <1>3, <1>4, FS_Injection
<1>. QED  BY <1>1, <1>4, <1>5, <1>6, NetworkIsTaken

(* The shuffle loses nobody.                                               *)
LEMMA OrdersKeepAll ==
    ASSUME NEW S, NEW s \in Seq(S), NoDup(s), NEW p \in Orders(s)
    PROVE  Listed(p) = Listed(s)
<1>1. p \in Seq(S) /\ Len(p) = Len(s) /\ Listed(p) \subseteq Listed(s) /\ NoDup(p)
  BY OrdersAre
<1>2. /\ IsFiniteSet(Listed(s)) /\ Cardinality(Listed(s)) = Len(s)
      /\ Cardinality(Listed(p)) = Len(p)
  BY <1>1, SizeOfList
<1>3. Len(s) \in Nat
  OBVIOUS
<1>. QED  BY <1>1, <1>2, <1>3, FullSubset

(* The nodes of the run that have been started live and have connected, or *)
(* are about to.                                                           *)
HereInv ==
    phase # "down" =>
      \A x \in NodesOfRun : Home(x) \notin orders =>
          x \in alive /\ x \in joining \cup Listed(ips)

LEMMA HereStep ==
    ASSUME TypeOK, RunsOK, KnownInv, HereInv, [Next]_vars
    PROVE  HereInv'
<1>. DEFINE same == UNCHANGED <<plan, phase, run, orders, ips, alive, joining>>
<1>0. /\ ips \in Seq(Node) /\ run \in Nat /\ joining \subseteq Node
  BY PlanIsTyped DEF TypeOK, InterfaceOK, MachinesOK
<1>1. UNCHANGED <<plan, run>> => NodesOfRun' = NodesOfRun
  BY DEF NodesOfRun, Ordered, RunOf, Home
<1>2. ASSUME same PROVE HereInv'
  BY <1>1, <1>2 DEF HereInv
<1>3. CASE Start
  <2>1. /\ plan' = plan /\ run' = run + 1 /\ run < Len(plan)
        /\ orders' = {m \in Manager : Quota(plan[run + 1], m) > 0}
    BY <1>3 DEF Start, given
  <2>2. ASSUME NEW x \in NodesOfRun' PROVE Home(x) \in orders'
    <3>1. /\ x \in Node /\ RunOf(x) = run + 1
          /\ x[3] <= Quota(plan[run + 1], Home(x))
      BY <2>1 DEF NodesOfRun, Ordered, RunOf, Home
    <3>2. Home(x) \in Manager /\ x[3] \in Nat \ {0}
      BY <3>1, NodeParts DEF Home
    <3>3. Quota(plan[run + 1], Home(x)) \in Nat
      <4>1. plan[run + 1] \in 0 .. MaxSize
        <5>1. plan \in Seq(1 .. MaxSize) /\ run + 1 \in 1 .. Len(plan)
          BY <1>0, <2>1, PlanIsTyped, StartupAssumption DEF TypeOK, InterfaceOK
        <5>. QED  BY <5>1, StartupAssumption
      <4>. QED  BY <3>2, <4>1, QuotaGrows
    <3>. QED  BY <2>1, <3>1, <3>2, <3>3
  <2>. QED  BY <2>2 DEF HereInv
<1>4. CASE Stop
  BY <1>4 DEF Stop, HereInv
<1>5. ASSUME NEW m \in Manager, Generate(m) PROVE HereInv'
  <2>1. PICK killed \in SUBSET alive :
          /\ Spawn(m, killed)
          /\ \A x \in killed : Home(x) = m /\ RunOf(x) # run
    BY <1>5, GenerateIs
  <2>2. /\ UNCHANGED <<plan, phase, run, ips>>
        /\ orders' = orders \ {m}
        /\ alive' = (alive \ killed) \cup Spawned(m)
        /\ joining' = (joining \ killed) \cup Spawned(m)
    BY <2>1 DEF Spawn, interface, given
  <2>3. ASSUME NEW x \in NodesOfRun, Home(x) = m PROVE x \in Spawned(m)
    <3>1. /\ x \in Node /\ x[1] = run /\ x[2] = m
          /\ x[3] <= Quota(Size, m) /\ x[3] \in Nat \ {0}
          /\ x = <<x[1], x[2], x[3]>>
      BY <2>3, NodeParts DEF NodesOfRun, Ordered, RunOf, Home, Size
    <3>2. Quota(Size, m) \in Nat
      <4>1. m \in orders
        BY <2>1 DEF Spawn
      <4>2. Size \in 0 .. MaxSize
        BY <4>1, OrderedWhileUp, StartupAssumption
      <4>. QED  BY <4>2, QuotaGrows
    <3>. QED  BY <3>1, <3>2 DEF Spawned
  <2>4. \A x \in NodesOfRun : x \notin killed
    BY <2>1 DEF NodesOfRun
  <2>. QED  BY <1>1, <2>2, <2>3, <2>4 DEF HereInv
<1>6. CASE Connected
  <2>1. Listed(ips') = Listed(ips)
    BY <1>0, <1>6, OrdersKeepAll DEF Connected, KnownInv
  <2>2. /\ phase = "connecting"
        /\ UNCHANGED <<plan, run, orders, alive, joining>>
    BY <1>6 DEF Connected, given, machines
  <2>. QED  BY <1>1, <2>1, <2>2 DEF HereInv
<1>7. CASE BroadcastSetup
  <2>1. /\ phase = "setup"
        /\ UNCHANGED <<plan, run, orders, ips, alive, joining>>
    BY <1>7 DEF BroadcastSetup, given, machines
  <2>. QED  BY <1>1, <2>1 DEF HereInv
<1>8. CASE Begin
  <2>1. /\ phase = "waiting"
        /\ UNCHANGED <<plan, run, orders, ips, alive, joining>>
    BY <1>8 DEF Begin, BeginWith, given, machines
  <2>. QED  BY <1>1, <2>1 DEF HereInv
<1>9. CASE ContactNext
  BY <1>2, <1>9 DEF ContactNext, given, machines
<1>10. CASE \E k \in keys : ReceiveKey(k)
  BY <1>2, <1>10 DEF ReceiveKey, interface, given, machines
<1>11. ASSUME NEW x \in Node, Join(x) PROVE HereInv'
  <2>1. /\ joining' = joining \ {x}
        /\ ips' = IF phase = "down" THEN ips ELSE Append(ips, x)
        /\ UNCHANGED <<plan, phase, run, orders, alive>>
    BY <1>11 DEF Join, given, machines
  <2>2. phase # "down" => Listed(ips') = Listed(ips) \cup {x}
    BY <1>0, <2>1, AppendedAre
  <2>. QED  BY <1>1, <2>1, <2>2 DEF HereInv
<1>12. ASSUME NEW x \in Node, CountReady(x) \/ Track(x) \/ Listen(x)
       PROVE  same
  BY <1>12 DEF CountReady, Track, Listen, interface, given, machines
<1>13. ASSUME NEW x \in Node, TakeKeys(x) \/ TakeSetup(x) \/ ReadSize(x)
       PROVE  same
  BY <1>13 DEF TakeKeys, TakeSetup, ReadSize, SetWaiter, interface, given,
               machines
<1>14. ASSUME NEW x \in Node, NEW s, Setup(x, s) PROVE same
  BY <1>14 DEF Setup, SetUpWith, interface, given, machines
<1>15. ASSUME NEW x \in Node, NEW key, CountKey(x, key) PROVE same
  BY <1>15 DEF CountKey, SetWaiter, interface, given, machines
<1>16. CASE UNCHANGED vars
  BY <1>2, <1>16 DEF vars, interface, given, machines
<1>. HIDE DEF same
<1>. QED
  BY <1>2, <1>3, <1>4, <1>5, <1>6, <1>7, <1>8, <1>9, <1>10, <1>11, <1>12,
     <1>13, <1>14, <1>15, <1>16 DEF Next, Work, NodeStep

(* The nodes that a run has heard of, if no other nodes are among them,    *)
(* are its own and live.                                                   *)
LEMMA HeardOfAre ==
    ASSUME TypeOK, KnownInv, InvitedInv, CountInv, HereInv,
           phase # "down", ~misled, NEW x \in Listed(ips)
    PROVE  x \in NodesOfRun /\ x \in alive
<1>1. x \in Node /\ RunOf(x) = run /\ Ordered(x)
  BY ListedAre DEF TypeOK, InterfaceOK, CountInv, InvitedInv
<1>2. Home(x) \notin orders
  BY <1>1 DEF KnownInv, Unborn
<1>. QED  BY <1>1, <1>2 DEF HereInv, NodesOfRun

(* A node that has been contacted has lost the message, or is locked, or   *)
(* has a Setup that waits for it, or has got its network.                  *)
Told(x) ==
    x \in deaf \cup locked \/ <<x, invited>> \in setups \/ network[x] = invited

ToldInv == ~misled => \A k \in 1 .. contacted : Told(invited[k])

LEMMA ToldStep ==
    ASSUME KeysInv, InvitedInv, CountInv, HereInv, ToldInv, [Next]_vars
    PROVE  ToldInv'
<1>. DEFINE same == UNCHANGED <<misled, invited, contacted, deaf, locked,
                                setups, network>>
<1>0. /\ TypeOK /\ RunsOK /\ KnownInv /\ OnceInv /\ ListsInv
      /\ invited \in Seq(Node) /\ ips \in Seq(Node)
      /\ network \in [Node -> Seq(Node)]
      /\ Len(invited) \in Nat /\ contacted \in Nat /\ contacted <= Len(invited)
      /\ Len(ips) \in Nat /\ Len(invited) <= Len(ips)
      /\ \A s \in setups : s = <<s[1], s[2]>>
  <2>1. TypeOK /\ RunsOK /\ KnownInv /\ OnceInv /\ ListsInv
    BY DEF KeysInv
  <2>2. /\ invited \in Seq(Node) /\ ips \in Seq(Node)
        /\ network \in [Node -> Seq(Node)]
        /\ setups \subseteq alive \X Seq(Node)
        /\ contacted \in 0 .. Len(invited)
    BY <2>1 DEF TypeOK, InterfaceOK, MachinesOK, HeartOK
  <2>. QED  BY <2>1, <2>2, PlanIsTyped DEF InvitedInv, TypeOK
<1>1. ASSUME same PROVE ToldInv'
  BY <1>1 DEF ToldInv, Told
<1>2. ASSUME ~misled, NEW k \in 1 .. Len(invited)
      PROVE  /\ phase # "down" /\ invited[k] \in Node
             /\ invited[k] \in alive /\ RunOf(invited[k]) = run
  <2>1. invited # <<>> /\ phase # "down"
    BY <1>0, <1>2 DEF KnownInv
  <2>2. invited[k] \in Listed(ips)
    <3>1. k \in 1 .. Len(ips) /\ invited[k] = ips[k]
      BY <1>0, <1>2 DEF InvitedInv
    <3>. QED  BY <3>1 DEF Listed
  <2>3. invited[k] \in NodesOfRun /\ invited[k] \in alive
    BY <1>0, <1>2, <2>1, <2>2, HeardOfAre
  <2>. QED  BY <2>1, <2>3 DEF NodesOfRun
<1>3. ASSUME UNCHANGED <<misled, invited, contacted, setups, network>>,
             deaf \subseteq deaf', locked \subseteq locked'
      PROVE  ToldInv'
  BY <1>3 DEF ToldInv, Told
<1>4. CASE Start
  BY <1>1, <1>4 DEF Start, heart
<1>5. CASE Stop
  BY <1>5 DEF Stop, ToldInv
<1>6. ASSUME NEW m \in Manager, Generate(m) PROVE ToldInv'
  <2>1. PICK killed \in SUBSET alive :
          /\ Spawn(m, killed)
          /\ \A x \in killed : Home(x) = m /\ RunOf(x) # run
    BY <1>0, <1>6, GenerateIs
  <2>2. /\ UNCHANGED <<misled, invited, contacted>>
        /\ deaf' = deaf \ killed /\ locked' = locked \ killed
        /\ setups' = {s \in setups : s[1] \notin killed}
        /\ \A x \in Node : x \notin killed => network'[x] = network[x]
    BY <2>1 DEF Spawn, interface
  <2>3. ASSUME ~misled, NEW k \in 1 .. contacted PROVE Told(invited[k])'
    <3>1. k \in 1 .. Len(invited)
      BY <1>0
    <3>2. invited[k] \in Node /\ invited[k] \notin killed
      BY <1>2, <2>1, <2>3, <3>1
    <3>3. Told(invited[k])
      BY <2>3 DEF ToldInv
    <3>. QED  BY <2>2, <3>2, <3>3 DEF Told
  <2>. QED  BY <2>2, <2>3 DEF ToldInv
<1>7. CASE Connected
  BY <1>1, <1>7 DEF Connected, heart
<1>8. CASE BroadcastSetup
  <2>1. contacted' = 0
    BY <1>8 DEF BroadcastSetup
  <2>. QED  BY <2>1 DEF ToldInv
<1>9. CASE Begin
  BY <1>1, <1>9 DEF Begin, BeginWith, heart
<1>10. CASE ContactNext
  <2>. DEFINE k == contacted + 1
              x == invited[k]
  <2>1. k \in 1 .. Len(invited)
    <3>1. contacted < Len(invited)
      BY <1>10 DEF ContactNext
    <3>2. contacted \in Nat /\ Len(invited) \in Nat
      BY <1>0
    <3>. QED  BY <3>1, <3>2
  <2>2. /\ UNCHANGED <<misled, invited, locked, network>>
        /\ contacted' = IF x \in alive THEN k ELSE Len(invited)
        /\ setups' = IF Heard(x) THEN setups \cup {<<x, invited>>} ELSE setups
        /\ deaf' = IF x \in alive \ listening THEN deaf \cup {x} ELSE deaf
    BY <1>10 DEF ContactNext, Unheard
  <2>3. ASSUME ~misled, NEW j \in 1 .. k PROVE Told(invited[j])'
    <3>1. CASE j = k
      <4>1. x \in alive
        BY <1>2, <2>1, <2>3
      <4>. QED  BY <2>2, <3>1, <4>1 DEF Told, Heard
    <3>2. CASE j # k
      <4>1. j \in 1 .. contacted
        BY <1>0, <3>2
      <4>2. Told(invited[j])
        BY <2>3, <4>1 DEF ToldInv
      <4>. QED  BY <2>2, <4>2 DEF Told
    <3>. QED  BY <3>1, <3>2
  <2>4. ~misled => contacted' = k
    BY <1>2, <2>1, <2>2
  <2>. HIDE DEF k, x
  <2>. QED  BY <2>2, <2>3, <2>4 DEF ToldInv
<1>11. ASSUME NEW k \in keys, ReceiveKey(k) PROVE ToldInv'
  BY <1>3, <1>11 DEF ReceiveKey, Unheard, interface
<1>12. ASSUME NEW x \in Node, Join(x) \/ CountReady(x) PROVE ToldInv'
  <2>1. /\ UNCHANGED <<invited, contacted, deaf, locked, setups, network>>
        /\ ~misled' => ~misled
    BY <1>12 DEF Join, CountReady, Notice, heart
  <2>. QED  BY <2>1 DEF ToldInv, Told
<1>13. ASSUME NEW x \in Node, Track(x) \/ Listen(x) PROVE same
  BY <1>13 DEF Track, Listen, interface, heart
<1>14. ASSUME NEW x \in Node, TakeKeys(x) \/ TakeSetup(x) \/ ReadSize(x)
       PROVE  same
  BY <1>14 DEF TakeKeys, TakeSetup, ReadSize, SetWaiter, interface
<1>15. ASSUME NEW x \in Node, NEW s \in setups, s[1] = x, Setup(x, s[2])
       PROVE  ToldInv'
  <2>1. /\ network[x] = <<>> /\ s = <<x, s[2]>>
        /\ s[2] \in Lists /\ s[2] \in Seq(Node)
    BY <1>0, <1>15, ListsAre DEF OnceInv
  <2>2. /\ UNCHANGED <<misled, invited, contacted, deaf, locked>>
        /\ setups' = setups \ {s}
        /\ network' = [network EXCEPT ![x] = s[2]]
    BY <1>0, <1>15, <2>1, ConcatEmptySeq DEF Setup, SetUpWith, interface
  <2>3. ASSUME ~misled, NEW k \in 1 .. contacted PROVE Told(invited[k])'
    <3>1. k \in 1 .. Len(invited) /\ Told(invited[k])
      BY <1>0, <2>3 DEF ToldInv
    <3>2. invited[k] \in Node /\ invited # <<>>
      BY <1>0, <3>1
    <3>. QED  BY <1>0, <2>1, <2>2, <3>1, <3>2 DEF Told
  <2>. QED  BY <2>2, <2>3 DEF ToldInv
<1>16. ASSUME NEW x \in Node, NEW key, CountKey(x, key) PROVE same
  BY <1>16 DEF CountKey, SetWaiter, interface
<1>17. CASE UNCHANGED vars
  BY <1>1, <1>17 DEF vars, interface, heart
<1>. HIDE DEF same
<1>. QED
  BY <1>1, <1>4, <1>5, <1>6, <1>7, <1>8, <1>9, <1>10, <1>11, <1>12, <1>13,
     <1>14, <1>15, <1>16, <1>17 DEF Next, Work, NodeStep

(* A node that has been set up has sent its key to all in its list.  One   *)
(* of them that lives has the key, or it is under way, or the node has     *)
(* lost a message, is locked, or has counted all its keys.                 *)
Sent(y, x) ==
    \/ \E i \in Nat : KeyAt(i, y, x)
    \/ x \in deaf \cup locked
    \/ waiter[x] = "ready"

SentInv ==
    \A x \in alive : \A y \in Node :
        network[y] # <<>> /\ x \in Listed(network[y]) => Sent(y, x)

LEMMA SentStep ==
    ASSUME KeysInv, SentInv, [Next]_vars
    PROVE  SentInv'
<1>. DEFINE same == UNCHANGED <<alive, network, keys, queue, counted, deaf,
                                locked, waiter>>
<1>0. /\ TypeOK /\ RunsOK /\ KnownInv /\ OnceInv /\ ListsInv /\ PlacesInv
      /\ ApartInv /\ WaiterInv
      /\ alive \subseteq Node /\ network \in [Node -> Seq(Node)]
      /\ waiter \in [Node -> Stage]
      /\ queue \in [Node -> SUBSET (Nat \X Node)]
      /\ counted \in [Node -> SUBSET (Nat \X Node)]
      /\ \A k \in keys : /\ k[1] \in Nat /\ k[2] \in Node /\ k[3] \in Node
                         /\ k = <<k[1], k[2], k[3]>>
  BY DEF KeysInv, TypeOK, MachinesOK, HeartOK
<1>1. ASSUME same PROVE SentInv'
  BY <1>1 DEF SentInv, Sent, KeyAt
(* Steps that take nothing from what has been sent.                        *)
<1>2. ASSUME UNCHANGED <<alive, network>>,
             \A x \in alive : \A y \in Node : Sent(y, x) => Sent(y, x)'
      PROVE  SentInv'
  BY <1>2 DEF SentInv
<1>3. CASE Start \/ Stop \/ Connected \/ BroadcastSetup \/ Begin
  <2>1. heart' = heart /\ alive' = alive /\ keys' = keys
    BY <1>3 DEF Start, Stop, Connected, BroadcastSetup, Begin, BeginWith,
                machines
  <2>. QED  BY <1>1, <2>1 DEF heart
<1>4. ASSUME NEW m \in Manager, Generate(m) PROVE SentInv'
  <2>1. PICK killed \in SUBSET alive :
          /\ Spawn(m, killed)
          /\ \A x \in Spawned(m) : x \in Node /\ Unborn(x)
    BY <1>0, <1>4, GenerateIs
  <2>2. /\ alive' = (alive \ killed) \cup Spawned(m)
        /\ keys' = {k \in keys : k[2] \notin killed}
        /\ deaf' = deaf \ killed /\ locked' = locked \ killed
        /\ \A x \in Node : x \notin killed =>
              /\ network'[x] = network[x] /\ queue'[x] = queue[x]
              /\ counted'[x] = counted[x] /\ waiter'[x] = waiter[x]
        /\ \A x \in killed : network'[x] = <<>>
    BY <1>0, <2>1 DEF Spawn
  <2>3. ASSUME NEW x \in alive', NEW y \in Node, network'[y] # <<>>,
               x \in Listed(network'[y])
        PROVE  Sent(y, x)'
    <3>1. y \notin killed /\ network'[y] = network[y]
      BY <2>2, <2>3
    <3>2. x \notin Spawned(m)
      <4>1. network[y] \in Lists
        BY <1>0, <2>3, <3>1, ListsAre
      <4>. QED  BY <1>0, <2>1, <2>3, <3>1, <4>1 DEF ListsInv, Fresh
    <3>3. x \in alive /\ x \notin killed /\ x \in Node
      BY <1>0, <2>2, <2>3, <3>2
    <3>4. Sent(y, x)
      BY <2>3, <3>1, <3>3 DEF SentInv
    <3>5. \A i : KeyAt(i, y, x) => KeyAt(i, y, x)'
      BY <2>2, <3>1, <3>3 DEF KeyAt
    <3>. QED  BY <2>2, <3>3, <3>4, <3>5 DEF Sent
  <2>. QED  BY <2>3 DEF SentInv
<1>5. CASE ContactNext
  <2>1. /\ UNCHANGED <<alive, network, keys, queue, counted, locked, waiter>>
        /\ deaf \subseteq deaf'
    BY <1>5 DEF ContactNext, Unheard, machines
  <2>. QED  BY <1>2, <2>1 DEF Sent, KeyAt
<1>6. ASSUME NEW k \in keys, ReceiveKey(k) PROVE SentInv'
  <2>. DEFINE z == k[3]
  <2>0. z \in Node /\ k = <<k[1], k[2], z>>
    BY <1>0
  <2>. HIDE DEF z
  <2>1. /\ UNCHANGED <<alive, network, counted, waiter>>
        /\ keys' = keys \ {k}
        /\ deaf' = IF z \in alive \ listening THEN deaf \cup {z} ELSE deaf
        /\ locked' = IF Heard(z) /\ waiter[z] = "new"
                     THEN locked \cup {z} ELSE locked
        /\ queue' = IF Heard(z) /\ waiter[z] \notin {"new", "ready", "failed"}
                    THEN [queue EXCEPT ![z] = @ \cup {<<k[1], k[2]>>}] ELSE queue
    BY <1>6 DEF ReceiveKey, Unheard, machines, z
  <2>2. deaf \subseteq deaf' /\ locked \subseteq locked'
    BY <2>1
  <2>3. \A x \in Node : queue[x] \subseteq queue'[x]
    BY <1>0, <2>0, <2>1
  <2>4. z \in alive => \/ z \in deaf' \cup locked'
                       \/ waiter'[z] = "ready"
                       \/ <<k[1], k[2]>> \in queue'[z]
    <3>1. waiter[z] # "failed"
      BY <1>0, <2>0 DEF WaiterInv
    <3>2. CASE ~Heard(z)
      BY <2>1, <3>2 DEF Heard
    <3>3. CASE Heard(z) /\ waiter[z] = "new"
      BY <2>1, <3>3
    <3>4. CASE Heard(z) /\ waiter[z] \notin {"new", "ready", "failed"}
      BY <1>0, <2>0, <2>1, <3>4
    <3>. QED  BY <2>1, <3>1, <3>2, <3>3, <3>4
  <2>5. ASSUME NEW x \in alive, NEW y \in Node, Sent(y, x) PROVE Sent(y, x)'
    <3>1. ASSUME NEW i \in Nat, <<i, y, x>> = k PROVE Sent(y, x)'
      <4>1. x = z /\ i = k[1] /\ y = k[2]
        BY <2>0, <3>1
      <4>. QED  BY <2>4, <4>1 DEF Sent, KeyAt
    <3>2. ASSUME NEW i \in Nat, KeyAt(i, y, x), <<i, y, x>> # k
          PROVE  KeyAt(i, y, x)'
      BY <1>0, <2>1, <2>3, <3>2 DEF KeyAt
    <3>. QED  BY <2>1, <2>2, <2>5, <3>1, <3>2 DEF Sent
  <2>. QED  BY <1>2, <2>1, <2>5
<1>7. ASSUME NEW x \in Node, Track(x) \/ Join(x) \/ CountReady(x) \/ Listen(x)
      PROVE  same
  BY <1>7 DEF Track, Join, CountReady, Listen, machines, heart
<1>8. ASSUME NEW x \in Node, TakeKeys(x) \/ TakeSetup(x) \/ ReadSize(x)
      PROVE  SentInv'
  <2>1. /\ UNCHANGED <<alive, network, keys, queue, counted, deaf, locked>>
        /\ waiter[x] # "ready"
        /\ \A y \in Node : y # x => waiter'[y] = waiter[y]
    BY <1>0, <1>8 DEF TakeKeys, TakeSetup, ReadSize, SetWaiter, machines
  <2>. QED  BY <1>0, <1>2, <2>1 DEF Sent, KeyAt
<1>9. ASSUME NEW z \in Node, NEW s \in setups, s[1] = z, Setup(z, s[2])
      PROVE  SentInv'
  <2>1. network[z] = <<>> /\ s[2] \in Seq(Node) /\ z \in Listed(s[2])
    BY <1>0, <1>9, ListsAre DEF OnceInv, RunsOK
  <2>2. network' = [network EXCEPT ![z] = s[2]]
    BY <1>0, <1>9, <2>1, ConcatEmptySeq DEF Setup, SetUpWith
  <2>3. /\ UNCHANGED <<alive, queue, counted, deaf, locked>>
        /\ keys' = keys \cup {<<Place(z, s[2]), z, w>> : w \in Listed(s[2])}
        /\ \A x \in Node : waiter[x] = "ready" => waiter'[x] = "ready"
    BY <1>0, <1>9 DEF Setup, SetUpWith, machines
  <2>4. Place(z, s[2]) \in Nat
    BY <2>1, PlaceIs
  <2>5. \A x \in alive : \A y \in Node : Sent(y, x) => Sent(y, x)'
    BY <1>0, <2>3 DEF Sent, KeyAt
  <2>6. \A x \in Listed(s[2]) : Sent(z, x)'
    BY <2>3, <2>4 DEF Sent, KeyAt
  <2>7. network'[z] = s[2] /\ \A y \in Node : y # z => network'[y] = network[y]
    BY <1>0, <2>2
  <2>. QED  BY <2>3, <2>5, <2>6, <2>7 DEF SentInv
<1>10. ASSUME NEW x \in Node, NEW key \in queue[x], CountKey(x, key)
       PROVE  SentInv'
  <2>1. /\ waiter[x] = "counting"
        /\ counted' = [counted EXCEPT ![x] = @ \cup {key}]
        /\ network' = network
    BY <1>0, <1>10, CountKeyIs
  <2>2. /\ UNCHANGED <<alive, keys, deaf, locked>>
        /\ queue' = [queue EXCEPT ![x] = @ \ {key}]
        /\ \A y \in Node : y # x => waiter'[y] = waiter[y]
    BY <1>0, <1>10 DEF CountKey, SetWaiter, machines
  <2>3. \A y \in Node : queue[y] \cup counted[y]
                          \subseteq queue'[y] \cup counted'[y]
    BY <1>0, <2>1, <2>2
  <2>4. \A z \in Node : \A y, i : KeyAt(i, y, z) => KeyAt(i, y, z)'
    BY <2>2, <2>3 DEF KeyAt
  <2>. QED  BY <1>0, <1>2, <2>1, <2>2, <2>4 DEF Sent
<1>11. CASE UNCHANGED vars
  BY <1>1, <1>11 DEF vars, machines, heart
<1>. HIDE DEF same
<1>. QED
  BY <1>1, <1>3, <1>4, <1>5, <1>6, <1>7, <1>8, <1>9, <1>10, <1>11
     DEF Next, Work, NodeStep

(* key_waiter counts no key before it knows the size of the network, and   *)
(* stops counting with the last one.                                       *)
CountingInv ==
    \A x \in Node :
        /\ waiter[x] \in {"new", "keys", "setup", "told"} => counted[x] = {}
        /\ waiter[x] = "counting" =>
              Cardinality(counted[x]) < Len(network[x])

LEMMA CountingStep ==
    ASSUME KeysInv, CountingInv, [Next]_vars
    PROVE  CountingInv'
<1>. DEFINE same == UNCHANGED <<waiter, network, counted>>
<1>0. /\ TypeOK /\ RunsOK /\ OnceInv /\ ListsInv /\ PlacesInv
      /\ ApartInv /\ WaiterInv
      /\ network \in [Node -> Seq(Node)] /\ waiter \in [Node -> Stage]
      /\ counted \in [Node -> SUBSET (Nat \X Node)]
      /\ \A x \in Node : /\ Len(network[x]) \in Nat
                         /\ network[x] # <<>> => Len(network[x]) > 0
  <2>1. network \in [Node -> Seq(Node)]
    BY DEF KeysInv, TypeOK, HeartOK
  <2>. QED  BY <2>1 DEF KeysInv, TypeOK, HeartOK
<1>1. ASSUME same PROVE CountingInv'
  BY <1>1 DEF CountingInv
<1>2. ASSUME NEW m \in Manager, Generate(m) PROVE CountingInv'
  <2>1. PICK killed \in SUBSET alive : Spawn(m, killed)
    BY <1>0, <1>2, GenerateIsSpawn
  <2>2. /\ \A x \in Node \ killed : /\ waiter'[x] = waiter[x]
                                    /\ network'[x] = network[x]
                                    /\ counted'[x] = counted[x]
        /\ \A x \in killed \cap Node : waiter'[x] = "new" /\ counted'[x] = {}
    BY <2>1 DEF Spawn
  <2>. QED  BY <2>2 DEF CountingInv
<1>3. CASE Start \/ Stop \/ Connected \/ BroadcastSetup \/ ContactNext \/ Begin
  BY <1>1, <1>3 DEF Start, Stop, Connected, BroadcastSetup, ContactNext, Begin,
                    BeginWith, heart
<1>4. CASE \E k \in keys : ReceiveKey(k)
  BY <1>1, <1>4 DEF ReceiveKey
<1>5. ASSUME NEW x \in Node, Join(x) \/ CountReady(x) \/ Track(x) \/ Listen(x)
      PROVE  same
  BY <1>5 DEF Join, CountReady, Track, Listen, heart
<1>6. ASSUME NEW x \in Node, TakeKeys(x) \/ TakeSetup(x) PROVE CountingInv'
  <2>1. /\ UNCHANGED <<network, counted>> /\ waiter[x] \in {"new", "keys"}
        /\ waiter'[x] \in {"keys", "setup"}
        /\ \A y \in Node : y # x => waiter'[y] = waiter[y]
    BY <1>0, <1>6 DEF TakeKeys, TakeSetup, SetWaiter
  <2>. QED  BY <2>1 DEF CountingInv
<1>7. ASSUME NEW x \in Node, ReadSize(x) PROVE CountingInv'
  <2>1. /\ UNCHANGED <<network, counted>> /\ waiter[x] = "told"
        /\ waiter'[x] = "counting"
        /\ \A y \in Node : y # x => waiter'[y] = waiter[y]
    BY <1>0, <1>7 DEF ReadSize, SetWaiter
  <2>2. counted[x] = {} /\ Cardinality({}) = 0 /\ Len(network[x]) > 0
    BY <1>0, <2>1, FS_EmptySet DEF CountingInv, WaiterInv
  <2>. QED  BY <2>1, <2>2 DEF CountingInv
<1>8. ASSUME NEW x \in Node, NEW s \in setups, s[1] = x, Setup(x, s[2])
      PROVE  CountingInv'
  <2>1. waiter[x] # "counting"
    BY <1>0, <1>8 DEF OnceInv, WaiterInv
  <2>2. /\ counted' = counted
        /\ \A y \in Node : y # x => /\ waiter'[y] = waiter[y]
                                    /\ network'[y] = network[y]
        /\ waiter'[x] = IF waiter[x] = "setup" THEN "told" ELSE waiter[x]
    BY <1>0, <1>8 DEF Setup, SetUpWith
  <2>. QED  BY <2>1, <2>2 DEF CountingInv
<1>9. ASSUME NEW x \in Node, NEW key \in queue[x], CountKey(x, key)
      PROVE  CountingInv'
  <2>1. /\ waiter[x] = "counting" /\ network' = network
        /\ key \notin counted[x]
        /\ counted' = [counted EXCEPT ![x] = @ \cup {key}]
        /\ \/ /\ waiter' = [waiter EXCEPT ![x] = "counting"]
              /\ Cardinality(counted[x]) + 1 # Len(network[x])
           \/ waiter' = [waiter EXCEPT ![x] = "ready"]
    BY <1>0, <1>9, CountKeyIs
  <2>2. /\ waiter'[x] \in {"counting", "ready"}
        /\ waiter'[x] = "counting" =>
              Cardinality(counted[x]) + 1 # Len(network[x])
        /\ counted'[x] = counted[x] \cup {key}
        /\ \A y \in Node : y # x => /\ waiter'[y] = waiter[y]
                                    /\ counted'[y] = counted[y]
    BY <1>0, <2>1
  <2>3. /\ Cardinality(counted[x]) < Len(network[x])
        /\ IsFiniteSet(counted[x])
    BY <1>0, <2>1 DEF CountingInv, WaiterInv
  <2>4. /\ Cardinality(counted[x] \cup {key}) = Cardinality(counted[x]) + 1
        /\ Cardinality(counted[x]) \in Nat
    BY <2>1, <2>3, FS_AddElement, FS_CardinalityType
  <2>5. waiter'[x] = "counting" =>
          Cardinality(counted[x]) + 1 < Len(network[x])
    BY <1>0, <2>2, <2>3, <2>4
  <2>6. waiter'[x] = "counting" => Cardinality(counted'[x]) < Len(network'[x])
    BY <2>1, <2>2, <2>4, <2>5
  <2>. QED  BY <2>1, <2>2, <2>6 DEF CountingInv
<1>10. CASE UNCHANGED vars
  BY <1>1, <1>10 DEF vars, heart
<1>. HIDE DEF same
<1>. QED
  BY <1>1, <1>2, <1>3, <1>4, <1>5, <1>6, <1>7, <1>8, <1>9, <1>10
     DEF Next, Work, NodeStep

(* A run that waits, and has heard of no node of an earlier one, has       *)
(* invited its own nodes and no others.                                    *)
LEMMA InvitesAll ==
    ASSUME KeysInv, InvitedInv, CountInv, HereInv,
           phase = "waiting", ~misled
    PROVE  /\ invited = ips /\ Listed(ips) = NodesOfRun
           /\ Len(ips) = Size /\ Size \in Nat \ {0}
<1>0. /\ TypeOK /\ RunsOK /\ KnownInv
      /\ ips \in Seq(Node) /\ invited \in Seq(Node)
      /\ Len(ips) \in Nat /\ Len(invited) \in Nat
  BY PlanIsTyped DEF KeysInv, TypeOK, InterfaceOK
<1>1. /\ Size \in Nat /\ IsFiniteSet(NodesOfRun)
      /\ Cardinality(NodesOfRun) = Size
  BY <1>0, NodesOfRunFill DEF RunsOK
<1>2. Listed(ips) \subseteq NodesOfRun
  BY <1>0, HeardOfAre
<1>3. IsFiniteSet(Listed(ips)) /\ Cardinality(Listed(ips)) = Len(ips)
  BY <1>0, SizeOfList DEF KnownInv
<1>4. Len(ips) <= Size
  BY <1>1, <1>2, <1>3, FS_Subset
<1>5. Len(invited) >= Size /\ Len(invited) <= Len(ips)
  BY DEF InvitedInv
<1>6. Len(invited) = Len(ips) /\ Len(ips) = Size
  BY <1>0, <1>1, <1>4, <1>5
<1>7. invited = ips
  BY <1>0, <1>6, SeqEqual DEF InvitedInv
<1>8. Listed(ips) = NodesOfRun
  BY <1>0, <1>1, <1>2, <1>3, <1>6, FullSubset
<1>9. Size \in 1 .. MaxSize
  <2>1. plan \in Plans /\ run \in 1 .. Len(plan)
    BY <1>0, PlanIsTyped DEF TypeOK, InterfaceOK, RunsOK
  <2>. QED  BY <2>1, SizeIsBounded
<1>. QED  BY <1>1, <1>6, <1>7, <1>8, <1>9, StartupAssumption

(* A node that has the keys of all in its list has counted them all.       *)
LEMMA AllCounted ==
    ASSUME KeysInv, CountingInv, NEW x \in Node, network[x] # <<>>,
           \A y \in Listed(network[x]) :
               \E i \in Nat : <<i, y>> \in counted[x]
    PROVE  waiter[x] # "counting"
<1>. DEFINE l == network[x]
<1>0. /\ TypeOK /\ RunsOK /\ ListsInv /\ PlacesInv /\ l \in Seq(Node)
      /\ Len(l) \in Nat /\ IsFiniteSet(counted[x]) /\ NoDup(l)
  <2>1. l \in Seq(Node)
    BY DEF KeysInv, TypeOK, HeartOK
  <2>2. NoDup(l)
    BY ListsAre DEF KeysInv, ListsInv
  <2>. QED  BY <2>1, <2>2 DEF KeysInv, WaiterInv
<1>1. ASSUME NEW k \in 1 .. Len(l) PROVE <<k, l[k]>> \in counted[x]
  <2>1. PICK i \in Nat : <<i, l[k]>> \in counted[x]
    BY DEF Listed
  <2>2. i \in 1 .. Len(l) /\ l[i] = l[k]
    BY <1>0, <2>1, CountedIsPlaced
  <2>3. i = k
    BY <1>0, <2>2 DEF NoDup
  <2>. QED  BY <2>1, <2>3
<1>2. KeysOf(l) \subseteq counted[x]
  BY <1>1 DEF KeysOf
<1>3. IsFiniteSet(KeysOf(l)) /\ Cardinality(KeysOf(l)) = Len(l)
  BY <1>0, SizeOfKeys
<1>4. Len(l) <= Cardinality(counted[x]) /\ Cardinality(counted[x]) \in Nat
  BY <1>0, <1>2, <1>3, FS_Subset, FS_CardinalityType
<1>. QED  BY <1>0, <1>4 DEF CountingInv

UpInv ==
    /\ KeysInv /\ InvitedInv /\ CountInv
    /\ HereInv /\ ToldInv /\ SentInv /\ CountingInv

LEMMA QuietIsUp ==
    ASSUME UpInv, phase # "down", ~misled, Quiet,
           \A k \in 1 .. Len(ips) : ~Late(ips[k])
    PROVE  phase = "running"
<1>0. /\ KeysInv /\ TypeOK /\ RunsOK /\ KnownInv /\ ListsInv /\ WaiterInv
      /\ ips \in Seq(Node) /\ waiter \in [Node -> Stage] /\ Len(ips) \in Nat
      /\ phase \in {"down", "connecting", "setup", "waiting", "running"}
  BY PlanIsTyped DEF UpInv, KeysInv, TypeOK, InterfaceOK, HeartOK
<1>1. ASSUME phase = "connecting" PROVE FALSE
  <2>1. /\ Size \in Nat /\ IsFiniteSet(NodesOfRun)
        /\ Cardinality(NodesOfRun) = Size
    BY <1>0, NodesOfRunFill DEF RunsOK
  <2>2. NodesOfRun \subseteq Listed(ips)
    BY DEF UpInv, HereInv, Quiet
  <2>3. IsFiniteSet(Listed(ips)) /\ Cardinality(Listed(ips)) = Len(ips)
    BY <1>0, SizeOfList DEF KnownInv
  <2>4. Size <= Len(ips)
    BY <2>1, <2>2, <2>3, FS_Subset
  <2>5. Len(ips) < Size
    BY <1>1 DEF Quiet
  <2>. QED  BY <1>0, <2>1, <2>4, <2>5
<1>2. ASSUME phase = "waiting" PROVE FALSE
  <2>1. /\ invited = ips /\ Listed(ips) = NodesOfRun
        /\ Len(ips) = Size /\ Size \in Nat \ {0}
    BY <1>2, InvitesAll DEF UpInv
  <2>2. ips # <<>> /\ contacted = Len(ips)
    BY <1>0, <2>1 DEF Quiet
  (* All have been told and are set up. *)
  <2>3. ASSUME NEW x \in Listed(ips)
        PROVE  /\ x \in Node /\ x \in alive /\ ~Late(x)
               /\ network[x] = ips
    <3>1. x \in Node /\ x \in alive
      BY <1>0, <2>3, HeardOfAre, ListedAre DEF UpInv
    <3>2. PICK k \in 1 .. Len(ips) : x = ips[k]
      BY <2>3 DEF Listed
    <3>3. Told(x) /\ ~Late(x)
      BY <2>1, <2>2, <3>2 DEF UpInv, ToldInv
    <3>. QED  BY <2>1, <3>1, <3>3 DEF Told, Late, Quiet
  (* All have counted their keys. *)
  <2>4. ASSUME NEW x \in Listed(ips) PROVE waiter[x] = "ready"
    <3>1. /\ x \in Node /\ x \in alive /\ ~Late(x) /\ network[x] = ips
          /\ Idle(x)
      BY <2>3, <2>4 DEF Quiet
    <3>2. waiter[x] \notin {"new", "keys", "setup", "told", "failed"}
      BY <1>0, <2>2, <3>1 DEF Idle, Late, WaiterInv
    <3>3. ASSUME waiter[x] = "counting" PROVE FALSE
      <4>1. ASSUME NEW y \in Listed(network[x])
            PROVE  \E i \in Nat : <<i, y>> \in counted[x]
        <5>1. y \in Node /\ network[y] = ips /\ x \in Listed(network[y])
          BY <2>3, <2>4, <3>1, <4>1
        <5>2. Sent(y, x)
          BY <2>2, <3>1, <5>1 DEF UpInv, SentInv
        <5>3. PICK i \in Nat : KeyAt(i, y, x)
          BY <3>1, <3>3, <5>2 DEF Sent, Late
        <5>. QED  BY <3>1, <3>3, <5>3 DEF KeyAt, Quiet, Idle
      <4>. QED  BY <1>0, <2>2, <3>1, <3>3, <4>1, AllCounted DEF UpInv
    <3>. QED  BY <1>0, <3>1, <3>2, <3>3 DEF Stage
  <2>5. Arrived = NodesOfRun
    <3>1. \A x \in NodesOfRun : x \in Arrived
      BY <2>1, <2>4 DEF Arrived, NodesOfRun, Quiet
    <3>2. \A x \in Arrived : x \in NodesOfRun
      BY DEF Arrived, NodesOfRun, UpInv, CountInv, InvitedInv
    <3>. QED  BY <3>1, <3>2
  <2>6. readyCount = Cardinality(Arrived)
    BY DEF UpInv, CountInv
  <2>7. Cardinality(NodesOfRun) = Size
    BY <1>0, NodesOfRunFill DEF RunsOK
  <2>8. readyCount # Size
    BY <1>2 DEF Quiet
  <2>. QED  BY <2>5, <2>6, <2>7, <2>8
<1>. QED  BY <1>0, <1>1, <1>2 DEF Quiet

LEMMA UpStart == Init => UpInv
<1>. SUFFICES ASSUME Init PROVE UpInv
  OBVIOUS
<1>1. KeysInv /\ InvitedInv /\ CountInv
  BY KeysInvStart, CountStart
<1>2. HereInv
  BY DEF Init, HereInv
<1>3. ToldInv
  BY DEF Init, ToldInv
<1>4. SentInv
  BY DEF Init, SentInv
<1>5. CountingInv
  BY DEF Init, CountingInv
<1>. QED  BY <1>1, <1>2, <1>3, <1>4, <1>5 DEF UpInv

LEMMA UpStep ==
    ASSUME UpInv, [Next]_vars
    PROVE  UpInv'
BY KeysInvStep, InvitedStep, CountStep, HereStep, ToldStep, SentStep,
   CountingStep DEF UpInv, KeysInv

(* network.rs, nodes_heart.rs: a run that hears of no node of an earlier   *)
(* one comes up unless one of its hearts is late: where nothing is left to *)
(* do, its nodes are there, all have been told, have exchanged their keys  *)
(* and are ready.                                                          *)
THEOREM NetworkComesUp == Spec => []ComesUpUnlessLate
<1>1. UpInv => ComesUpUnlessLate
  BY QuietIsUp DEF ComesUpUnlessLate
<1>2. UpInv /\ [Next]_vars => UpInv'
  BY UpStep
<1>. QED  BY <1>1, <1>2, UpStart, PTL DEF Spec
=============================================================================
