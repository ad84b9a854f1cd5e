--------------------------- MODULE Shards_proofs ----------------------------
(***************************************************************************)
(* Theorems about Shards, for any numbers of shards, resources and hashes: *)
(* what /healthz says of the workers is true of every Recurso, and nothing *)
(* but a new number of shards lets an Event overtake another of its        *)
(* Recurso.                                                                *)
(***************************************************************************)
EXTENDS Shards, FiniteSetTheorems, NaturalsInduction, TLAPS

States == {"none", "starting", "up", "failed", "stopped"}
Up == {i \in Queues : worker[i] = "up"}
Task == [n : Nat, resource : Resources, count : Nat \ {0}, queue : Nat]

\* A container's number of shards is one of those that .env.staging may ask for.
Shapes(container) ==
  /\ container.up \in BOOLEAN
  /\ container.shards \in {HttpShardCount(v) : v \in Values}

TypesOK ==
  /\ env \in Values
  /\ producer \in [env : Values, up : BOOLEAN, shards : Nat] /\ Shapes(producer)
  /\ consumer \in [env : Values, up : BOOLEAN, shards : Nat] /\ Shapes(consumer)
  /\ worker \in [Queues -> States] /\ shardsUp \in Nat /\ cancelled \in BOOLEAN
  /\ tasks \subseteq Task /\ served \subseteq Task /\ events \in Nat

\* There is a goroutine for each shard while the process runs, and the counter of
\* /healthz counts those that came up, until they are told to stop.
Counted ==
  /\ \A i \in Queues : worker[i] # "none" => consumer.up /\ i \in Mine
  /\ consumer.up /\ ~cancelled =>
       /\ shardsUp = Cardinality(Up)
       /\ \A i \in Queues : worker[i] # "stopped"

\* A task is where its number and its Recurso put it, and numbered in the order of
\* arrival.
Placed ==
  \A t \in tasks \cup served : t.n <= events /\ t.queue = Hash[t.resource] % t.count

\* The inductive invariant.
IInv == TypesOK /\ Counted /\ Placed /\ OvertakenOnlyByRecount

-----------------------------------------------------------------------------
(* The number of shards *)

\* A nonempty finite set of naturals has a greatest element.
LEMMA FiniteGreatest ==
  ASSUME NEW S, S \subseteq Nat, IsFiniteSet(S), S # {}
  PROVE  \E m \in S : \A k \in S : k <= m
<1> DEFINE Greatest(T) == \E m \in T : \A k \in T : k <= m
           Bare(T) == T \subseteq Nat /\ IsFiniteSet(T) /\ T # {} /\ ~Greatest(T)
           K == {n \in Nat : \E T : Bare(T) /\ Cardinality(T) = n}
           less == OpToRel(<, Nat)
<1> SUFFICES ASSUME Bare(S) PROVE FALSE
  OBVIOUS
<1>1. K \subseteq Nat /\ Cardinality(S) \in K
  BY FS_CardinalityType
<1>2. PICK n \in K : \A u \in K : ~(<<u, n>> \in less)
  <2> HIDE DEF K, less
  <2>1. IsWellFoundedOn(less, Nat)
    BY NatLessThanWellFounded DEF less
  <2> QED
    BY <1>1, <2>1, WFMin
<1>3. ASSUME NEW u \in K PROVE ~(u < n)
  <2>1. <<u, n>> \in Nat \X Nat /\ <<u, n>>[1] = u /\ <<u, n>>[2] = n
    BY <1>1
  <2> HIDE DEF K
  <2> QED
    BY <1>2, <2>1 DEF OpToRel
<1>4. PICK T : Bare(T) /\ Cardinality(T) = n
  OBVIOUS
<1>5. PICK x \in T : TRUE
  BY <1>4
<1> DEFINE U == T \ {x}
<1>6. IsFiniteSet(U) /\ Cardinality(U) = n - 1 /\ n - 1 \in Nat
  <2>1. IsFiniteSet(T) /\ x \in T /\ T # {} /\ Cardinality(T) = n
    BY <1>4, <1>5
  <2>2. IsFiniteSet(U) /\ Cardinality(U) = Cardinality(T) - 1
    BY <2>1, FS_RemoveElement
  <2>3. Cardinality(T) \in Nat /\ Cardinality(T) # 0
    BY <2>1, FS_CardinalityType, FS_EmptySet
  <2> QED
    BY <2>1, <2>2, <2>3
<1>7. U # {}
  BY <1>4, <1>5
<1>8. U \subseteq Nat
  BY <1>4
<1>9. n - 1 \notin K
  <2> HIDE DEF K
  <2> QED
    BY <1>1, <1>3
<1>10. Greatest(U)
  BY <1>6, <1>7, <1>8, <1>9
<1>11. PICK m \in U : \A k \in U : k <= m
  BY <1>10
<1>12. x \in Nat /\ m \in Nat
  BY <1>4, <1>5
<1>13. CASE x <= m
  BY <1>4, <1>11, <1>12, <1>13
<1>14. CASE m < x
  <2>1. \A k \in T : k \in Nat
    BY <1>4
  <2>2. \A k \in T : k <= x
    BY <2>1, <1>11, <1>12, <1>14
  <2> QED
    BY <1>4, <1>5, <2>2
<1> QED
  BY <1>12, <1>13, <1>14

\* httpShardCount gives a positive number, and Queues has a queue for every shard.
LEMMA ShardCount ==
  ASSUME NEW v \in Values
  PROVE  /\ HttpShardCount(v) \in Nat \ {0}
         /\ 0 .. HttpShardCount(v) - 1 \subseteq Queues
<1> DEFINE S == Values \cup {Default}
           IsGreatest(n) == \A m \in S : m <= n
<1>1. HttpShardCount(v) \in Nat \ {0} /\ HttpShardCount(v) \in S
  BY ShardsAssumption DEF HttpShardCount
<1>2. IsFiniteSet(S) /\ S \subseteq Nat
  BY ShardsAssumption, FS_AddElement
<1>3. \E n \in S : IsGreatest(n)
  BY <1>1, <1>2, FiniteGreatest
<1> DEFINE top == CHOOSE n \in S : IsGreatest(n)
<1>4. top \in S /\ IsGreatest(top)
  BY <1>3
<1>5. Queues = 0 .. top
  BY DEF Queues
<1>6. HttpShardCount(v) <= top /\ top \in Nat
  BY <1>1, <1>2, <1>4
<1> HIDE DEF top
<1> QED
  BY <1>1, <1>5, <1>6

\* The queues are finitely many.
LEMMA QueuesFinite == IsFiniteSet(Queues)
<1> DEFINE S == Values \cup {Default}
           top == CHOOSE n \in S : \A m \in S : m <= n
<1>1. IsFiniteSet(S) /\ S \subseteq Nat /\ S # {}
  BY ShardsAssumption, FS_AddElement
<1>2. top \in S
  BY <1>1, FiniteGreatest
<1>3. Queues = 0 .. top
  BY DEF Queues
<1> HIDE DEF top
<1> QED
  BY <1>1, <1>2, <1>3, FS_Interval

\* A Recurso's queue is one of those below the number of shards.
LEMMA Remainder ==
  ASSUME NEW h \in Nat, NEW s \in Nat \ {0}
  PROVE  h % s \in 0 .. s - 1
OBVIOUS

\* What a container is created with.
LEMMA ContainerShape ==
  ASSUME NEW v \in Values
  PROVE  /\ Container(v) \in [env : Values, up : BOOLEAN, shards : Nat]
         /\ Shapes(Container(v)) /\ ~Container(v).up
BY ShardCount DEF Container, Shapes

\* Both ends have a positive number of shards, each with a queue.
LEMMA Ends ==
  ASSUME TypesOK
  PROVE  /\ producer.shards \in Nat \ {0} /\ consumer.shards \in Nat \ {0}
         /\ Mine \subseteq Queues
BY ShardCount DEF TypesOK, Shapes, Mine

-----------------------------------------------------------------------------
(* Each action *)

THEOREM InitIInv == Init => IInv
<1> SUFFICES ASSUME Init PROVE IInv
  OBVIOUS
<1>1. TypesOK
  BY ContainerShape DEF Init, TypesOK, States
<1>2. Counted /\ Placed /\ OvertakenOnlyByRecount
  BY ContainerShape DEF Init, Counted, Placed, OvertakenOnlyByRecount
<1> QED
  BY <1>1, <1>2 DEF IInv

\* Counted does not depend on the producer and on Redis.
LEMMA CountedStays ==
  ASSUME Counted, UNCHANGED <<worker, shardsUp>>,
         consumer' = consumer, cancelled' = cancelled \/ cancelled' = TRUE
  PROVE  Counted'
BY DEF Counted, Up, Mine

\* Placed and OvertakenOnlyByRecount depend on Redis only.
LEMMA RedisStays ==
  ASSUME Placed, OvertakenOnlyByRecount, UNCHANGED redis
  PROVE  Placed' /\ OvertakenOnlyByRecount'
BY DEF Placed, OvertakenOnlyByRecount, redis

LEMMA EnqueueIInv == ASSUME IInv, NEW r \in Resources, Enqueue(r) PROVE IInv'
<1> USE DEF IInv
<1> DEFINE t == [n |-> events', resource |-> r, count |-> producer.shards, queue |-> ShardFor(r)]
<1>1. events' = events + 1 /\ events \in Nat /\ tasks' = tasks \cup {t} /\ served' = served
  BY DEF Enqueue, TypesOK
<1>2. Hash[r] \in Nat /\ producer.shards \in Nat \ {0}
  BY Ends, ShardsAssumption
<1>3. t \in Task /\ t.n = events + 1 /\ t.queue = Hash[t.resource] % t.count
  <2>1. ShardFor(r) = Hash[r] % producer.shards /\ ShardFor(r) \in Nat
    <3>1. Hash[r] % producer.shards \in 0 .. producer.shards - 1
      BY <1>2, Remainder
    <3>2. 0 .. producer.shards - 1 \subseteq Nat
      BY <1>2
    <3> QED
      BY <3>1, <3>2 DEF ShardFor
  <2> QED
    BY <1>1, <1>2, <2>1 DEF Task
<1> HIDE DEF t
<1>4. TypesOK'
  BY <1>1, <1>3 DEF TypesOK, Enqueue, fleet, Shapes
<1>5. Counted'
  BY CountedStays DEF Enqueue, fleet
<1>6. \A s \in tasks \cup served : s.n \in Nat /\ s.n <= events
  BY DEF TypesOK, Task, Placed
<1>7. Placed'
  BY <1>1, <1>3, <1>6 DEF Placed
<1>8. OvertakenOnlyByRecount'
  BY <1>1, <1>3, <1>6 DEF OvertakenOnlyByRecount
<1> QED
  BY <1>4, <1>5, <1>7, <1>8

LEMMA ServeIInv == ASSUME IInv, NEW i \in Queues, Serve(i) PROVE IInv'
<1> USE DEF IInv
<1>1. PICK t \in tasks :
        /\ t.queue = i /\ \A u \in tasks : u.queue = i => t.n <= u.n
        /\ tasks' = tasks \ {t} /\ served' = served \cup {t}
  BY DEF Serve
<1>2. TypesOK'
  BY <1>1 DEF TypesOK, Serve, fleet, Shapes
<1>3. Counted'
  BY CountedStays DEF Serve, fleet
<1>4. Placed'
  BY <1>1 DEF Placed, Serve
<1>5. ASSUME NEW u \in tasks, u.resource = t.resource, t.n > u.n PROVE t.count # u.count
  BY <1>1, <1>5 DEF Placed, TypesOK, Task
<1>6. OvertakenOnlyByRecount'
  BY <1>1, <1>5 DEF OvertakenOnlyByRecount
<1> QED
  BY <1>2, <1>3, <1>4, <1>6

LEMMA StartConsumerIInv == ASSUME IInv, StartConsumer PROVE IInv'
<1> USE DEF IInv
<1>1. Mine' = Mine /\ Mine \subseteq Queues
  BY Ends DEF StartConsumer, Mine, TypesOK
<1>2. TypesOK'
  BY DEF TypesOK, StartConsumer, Shapes, States, redis
<1>3. Up' = {} /\ \A i \in Queues : worker'[i] \in {"starting", "none"} /\ (worker'[i] # "none" => i \in Mine)
  BY DEF StartConsumer, Up
<1>4. Counted'
  BY <1>1, <1>3, FS_EmptySet DEF Counted, StartConsumer, TypesOK
<1> QED
  BY <1>2, <1>4, RedisStays DEF StartConsumer

\* A worker that comes up is one more of those that are up.
LEMMA WorkerStartsIInv == ASSUME IInv, NEW i \in Queues, WorkerStarts(i) PROVE IInv'
<1> USE DEF IInv
<1>1. /\ worker[i] = "starting" /\ worker' = [worker EXCEPT ![i] = "up"]
      /\ shardsUp' = shardsUp + 1 /\ consumer.up
      /\ UNCHANGED <<env, producer, consumer, cancelled, redis>>
  BY DEF WorkerStarts, Moves
<1>2. TypesOK'
  BY <1>1 DEF TypesOK, Shapes, States, redis
<1>3. Up' = Up \cup {i} /\ i \notin Up /\ Up \subseteq Queues
  BY <1>1 DEF Up, TypesOK
<1>4. Cardinality(Up') = Cardinality(Up) + 1
  BY <1>3, QueuesFinite, FS_Subset, FS_AddElement
<1>5. Counted'
  BY <1>1, <1>4 DEF Counted, Mine, TypesOK
<1> QED
  BY <1>1, <1>2, <1>5, RedisStays

LEMMA WorkerFailsIInv == ASSUME IInv, NEW i \in Queues, WorkerFails(i) PROVE IInv'
<1> USE DEF IInv
<1>1. /\ worker[i] = "starting" /\ worker' = [worker EXCEPT ![i] = "failed"]
      /\ consumer.up /\ UNCHANGED <<env, producer, consumer, cancelled, shardsUp, redis>>
  BY DEF WorkerFails, Moves
<1>2. TypesOK'
  BY <1>1 DEF TypesOK, Shapes, States, redis
<1>3. Up' = Up
  BY <1>1 DEF Up, TypesOK
<1>4. Counted'
  BY <1>1, <1>3 DEF Counted, Mine, TypesOK
<1> QED
  BY <1>1, <1>2, <1>4, RedisStays

LEMMA WorkerStopsIInv == ASSUME IInv, NEW i \in Queues, WorkerStops(i) PROVE IInv'
<1> USE DEF IInv
<1>1. /\ worker[i] = "up" /\ worker' = [worker EXCEPT ![i] = "stopped"] /\ cancelled
      /\ consumer.up /\ UNCHANGED <<env, producer, consumer, cancelled, shardsUp, redis>>
  BY DEF WorkerStops, Moves
<1>2. TypesOK'
  BY <1>1 DEF TypesOK, Shapes, States, redis
<1>3. Counted'
  BY <1>1 DEF Counted, Mine, TypesOK
<1> QED
  BY <1>1, <1>2, <1>3, RedisStays

LEMMA ConsumerDownIInv == ASSUME IInv, ConsumerDown PROVE IInv'
<1> USE DEF IInv
<1>1. TypesOK'
  BY DEF TypesOK, ConsumerDown, Shapes, States, redis
<1>2. Counted'
  BY DEF Counted, ConsumerDown, TypesOK
<1> QED
  BY <1>1, <1>2, RedisStays DEF ConsumerDown

\* A container is only created anew when its process is not running.
LEMMA RecreateConsumerIInv == ASSUME IInv, RecreateConsumer PROVE IInv'
<1> USE DEF IInv
<1>1. TypesOK'
  BY ContainerShape DEF TypesOK, RecreateConsumer, Shapes, fleet, redis
<1>2. ~consumer.up /\ ~consumer'.up
  BY ContainerShape DEF RecreateConsumer, TypesOK
<1>3. Counted'
  BY <1>2 DEF Counted, RecreateConsumer, fleet
<1> QED
  BY <1>1, <1>3, RedisStays DEF RecreateConsumer

\* The other actions change neither a worker nor Redis.
LEMMA OthersIInv ==
  ASSUME IInv,
         StartProducer \/ ProducerDies \/ Sigterm \/ Deploy \/ RecreateProducer \/ UNCHANGED vars
  PROVE  IInv'
<1> USE DEF IInv
<1>1. UNCHANGED <<worker, shardsUp, consumer, redis>> /\ (cancelled' = cancelled \/ cancelled' = TRUE)
  BY DEF StartProducer, ProducerDies, Sigterm, Deploy, RecreateProducer, vars, fleet
<1>2. TypesOK'
  <2>1. env' \in Values /\ cancelled' \in BOOLEAN
    BY DEF TypesOK, StartProducer, ProducerDies, Sigterm, Deploy, RecreateProducer, vars, fleet
  <2>2. producer' \in [env : Values, up : BOOLEAN, shards : Nat] /\ Shapes(producer)'
    <3>1. CASE StartProducer \/ ProducerDies
      BY <3>1 DEF TypesOK, Shapes, StartProducer, ProducerDies
    <3>2. CASE Sigterm \/ Deploy \/ UNCHANGED vars
      BY <3>2 DEF TypesOK, Shapes, Sigterm, Deploy, vars
    <3>3. CASE RecreateProducer
      BY <3>3, ContainerShape DEF TypesOK, Shapes, RecreateProducer
    <3> QED
      BY <3>1, <3>2, <3>3
  <2> QED
    BY <1>1, <2>1, <2>2 DEF TypesOK, Shapes, redis
<1> QED
  BY <1>1, <1>2, CountedStays, RedisStays

THEOREM StepIInv == IInv /\ [Next]_vars => IInv'
<1> SUFFICES ASSUME IInv, [Next]_vars PROVE IInv'
  OBVIOUS
<1>1. CASE \E r \in Resources : Enqueue(r)
  BY <1>1, EnqueueIInv
<1>2. CASE StartConsumer
  BY <1>2, StartConsumerIInv
<1>3. CASE ConsumerExits \/ ConsumerDies \/ Replace
  BY <1>3, ConsumerDownIInv DEF ConsumerExits, ConsumerDies, Replace
<1>4. ASSUME NEW i \in Queues, WorkerStarts(i) \/ WorkerFails(i) \/ Serve(i) \/ WorkerStops(i)
      PROVE  IInv'
  BY <1>4, WorkerStartsIInv, WorkerFailsIInv, ServeIInv, WorkerStopsIInv
<1>5. CASE RecreateConsumer
  BY <1>5, RecreateConsumerIInv
<1>6. CASE StartProducer \/ ProducerDies \/ Sigterm \/ Deploy \/ RecreateProducer \/ UNCHANGED vars
  BY <1>6, OthersIInv
<1> QED
  BY <1>1, <1>2, <1>3, <1>4, <1>5, <1>6 DEF Next, Idle

\* The inductive invariant holds throughout.
THEOREM Invariant == Spec => []IInv
<1>1. Init => IInv
  BY InitIInv
<1>2. IInv /\ [Next]_vars => IInv'
  BY StepIInv
<1> QED
  BY <1>1, <1>2, PTL DEF Spec

-----------------------------------------------------------------------------
(* What /healthz promises, and what the order rests on *)

\* While /healthz counts as many workers as shards, each shard has one of its own, and
\* whatever a producer with the same number enqueues is served: no count of failed
\* starts, restarts and deploys adds up to a full number with a shard missing.
THEOREM HealthIsTrue == Spec => []HealthyMeansServed
<1>1. IInv => HealthyMeansServed
  <2> SUFFICES ASSUME IInv, consumer.up, ~cancelled, Healthy,
                      producer.shards = consumer.shards, NEW r \in Resources
               PROVE  worker[ShardFor(r)] = "up"
    BY DEF HealthyMeansServed
  <2>1. consumer.shards \in Nat \ {0} /\ Mine \subseteq Queues
    BY Ends DEF IInv
  <2>2. Cardinality(Up) = consumer.shards
    BY DEF IInv, Counted, Healthy
  <2>3. IsFiniteSet(Mine) /\ Cardinality(Mine) = consumer.shards
    <3>1. 0 \in Int /\ consumer.shards - 1 \in Int /\ ~(0 > consumer.shards - 1)
      BY <2>1
    <3>2. IsFiniteSet(Mine) /\ Cardinality(Mine) = (consumer.shards - 1) - 0 + 1
      BY <3>1, FS_Interval DEF Mine
    <3> QED
      BY <2>1, <3>2
  <2>4. Up \subseteq Mine
    BY DEF IInv, Counted, Up
  <2>5. Up = Mine
    BY <2>2, <2>3, <2>4, FS_Subset
  <2>6. ShardFor(r) \in Mine
    BY <2>1, Remainder, ShardsAssumption DEF ShardFor, Mine
  <2> QED
    BY <2>5, <2>6 DEF Up
<1> QED
  BY <1>1, Invariant, PTL

\* An Event overtakes an older one of its Recurso only where two numbers of shards
\* routed them, for any hash and however the containers are recreated.
THEOREM OrderHeldByShard == Spec => []OvertakenOnlyByRecount
<1>1. IInv => OvertakenOnlyByRecount
  BY DEF IInv
<1> QED
  BY <1>1, Invariant, PTL
=============================================================================
