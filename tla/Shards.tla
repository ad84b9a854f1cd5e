------------------------------- MODULE Shards -------------------------------
(***************************************************************************)
(* HTTP_CONSUMER_SHARDS at both ends: the producer routes a Recurso to one *)
(* of so many queues, the consumer runs a worker for each, and both read   *)
(* the number once, when they start, from the environment of their         *)
(* container.  A deploy that changes it recreates the containers one by    *)
(* one.  The consumer's /healthz counts the workers that came up.  What a  *)
(* worker does with a task is module Delivery; here it takes the oldest of *)
(* its queue.                                                              *)
(***************************************************************************)
EXTENDS Integers, FiniteSets

CONSTANTS
  Values,           \* what the environment may hold; 0: unset, no number, or not positive
  Default,          \* the number used then (16)
  Resources, Hash,  \* tenant:table:resourceID, and the FNV-1a of each
  Orchestrated,     \* what `acts` may be: {FALSE} for docker compose alone
  MaxEvents, MaxDeploys, MaxFaults  \* bounds; faults are deaths and failed starts

ASSUME ShardsAssumption ==
  /\ Values \subseteq Nat /\ IsFiniteSet(Values) /\ Default \in Nat \ {0}
  /\ Hash \in [Resources -> Nat]
  /\ Orchestrated \subseteq BOOLEAN
  /\ MaxEvents \in Nat /\ MaxDeploys \in Nat /\ MaxFaults \in Nat

VARIABLES
  acts,      \* whether an orchestrator replaces a container whose /healthz answers 503
  env,       \* HTTP_CONSUMER_SHARDS in .env.staging
  producer,  \* its container's env, whether it is up, and its shardCount
  consumer,  \* the same
  worker,    \* worker[i]: "none", "starting", "up", "failed" or "stopped"
  shardsUp,  \* the counter of /healthz
  cancelled, \* the consumer received SIGTERM
  tasks,     \* in Redis: each Event with the number that routed it, and its queue
  served,    \* history: the tasks that a worker took
  events, deploys, faults

fleet == <<worker, shardsUp, cancelled>>
redis == <<tasks, served, events>>
vars == <<acts, env, producer, consumer, fleet, redis, deploys, faults>>

-----------------------------------------------------------------------------
(* The number of shards *)

\* httpShardCount.
HttpShardCount(value) == IF value > 0 THEN value ELSE Default

Queues == 0 .. CHOOSE n \in Values \cup {Default} : \A m \in Values \cup {Default} : m <= n

\* Fault to try on ShardFor: the hash is seeded by each process (hash/maphash).
ShardForSeeded(r) == (Hash[r] + faults) % producer.shards

\* shardFor.
ShardFor(r) == Hash[r] % producer.shards

Container(value) == [env |-> value, up |-> FALSE, shards |-> HttpShardCount(value)]

Init ==
  /\ acts \in Orchestrated /\ env \in Values
  /\ producer = Container(env) /\ consumer = Container(env)
  /\ worker = [i \in Queues |-> "none"] /\ shardsUp = 0 /\ cancelled = FALSE
  /\ tasks = {} /\ served = {} /\ events = 0
  /\ deploys = 0 /\ faults = 0

Fault == faults < MaxFaults /\ faults' = faults + 1

-----------------------------------------------------------------------------
(* The producer *)

StartProducer ==
  /\ ~producer.up /\ producer' = [producer EXCEPT !.up = TRUE]
  /\ UNCHANGED <<acts, env, consumer, fleet, redis, deploys, faults>>

ProducerDies ==
  /\ producer.up /\ producer' = [producer EXCEPT !.up = FALSE] /\ Fault
  /\ UNCHANGED <<acts, env, consumer, fleet, redis, deploys>>

Enqueue(r) ==
  /\ producer.up /\ events < MaxEvents /\ events' = events + 1
  /\ tasks' = tasks \cup
       {[n |-> events', resource |-> r, count |-> producer.shards, queue |-> ShardFor(r)]}
  /\ UNCHANGED <<acts, env, producer, consumer, fleet, served, deploys, faults>>

-----------------------------------------------------------------------------
(* The consumer *)

Mine == 0 .. consumer.shards - 1

\* Fault to try on Healthy: one worker is enough.
AnyWorkerUp == shardsUp > 0

\* up == shardCount.
Healthy == shardsUp = consumer.shards

\* Docker starts a container again with the environment it was created with; one that
\* was stopped to be recreated, it leaves alone.
StartConsumer ==
  /\ ~consumer.up /\ (cancelled => consumer.env = env)
  /\ consumer' = [consumer EXCEPT !.up = TRUE]
  /\ worker' = [i \in Queues |-> IF i \in Mine THEN "starting" ELSE "none"]
  /\ shardsUp' = 0 /\ cancelled' = FALSE
  /\ UNCHANGED <<acts, env, producer, redis, deploys, faults>>

Moves(i, from, to) ==
  /\ consumer.up /\ worker[i] = from /\ worker' = [worker EXCEPT ![i] = to]

WorkerStarts(i) ==
  /\ Moves(i, "starting", "up") /\ shardsUp' = shardsUp + 1
  /\ UNCHANGED <<acts, env, producer, consumer, cancelled, redis, deploys, faults>>

\* Fault to try on WorkerFails: shardsUp.Add comes before Start.
WorkerFailsCounted(i) ==
  /\ Moves(i, "starting", "failed") /\ shardsUp' = shardsUp + 1 /\ Fault
  /\ UNCHANGED <<acts, env, producer, consumer, cancelled, redis, deploys>>

\* Start returns an error, which is logged, and the goroutine ends.
WorkerFails(i) ==
  /\ Moves(i, "starting", "failed") /\ Fault
  /\ UNCHANGED <<acts, env, producer, consumer, shardsUp, cancelled, redis, deploys>>

Serve(i) ==
  /\ consumer.up /\ worker[i] = "up"
  /\ \E t \in tasks :
       /\ t.queue = i /\ \A u \in tasks : u.queue = i => t.n <= u.n
       /\ tasks' = tasks \ {t} /\ served' = served \cup {t}
  /\ UNCHANGED <<acts, env, producer, consumer, fleet, events, deploys, faults>>

\* SIGTERM of docker compose, to recreate the container.
Sigterm ==
  /\ consumer.up /\ ~cancelled /\ consumer.env # env /\ cancelled' = TRUE
  /\ UNCHANGED <<acts, env, producer, consumer, worker, shardsUp, redis, deploys, faults>>

\* ctx is done: Shutdown.  The counter stays.
WorkerStops(i) ==
  /\ cancelled /\ Moves(i, "up", "stopped")
  /\ UNCHANGED <<acts, env, producer, consumer, shardsUp, cancelled, redis, deploys, faults>>

ConsumerDown ==
  /\ consumer' = [consumer EXCEPT !.up = FALSE]
  /\ worker' = [i \in Queues |-> "none"]
  /\ UNCHANGED <<acts, env, producer, shardsUp, cancelled, redis, deploys>>

\* wg.Wait returns: every goroutine has stopped, or failed to start.
ConsumerExits ==
  /\ consumer.up /\ \A i \in Mine : worker[i] \in {"failed", "stopped"}
  /\ ConsumerDown /\ UNCHANGED faults

ConsumerDies == consumer.up /\ ConsumerDown /\ Fault

\* An orchestrator that acts on 503 replaces the consumer, once its start_period is over.
\* docker compose does not: `restart: unless-stopped` takes only a process that ended.
Replace ==
  /\ acts /\ consumer.up /\ ~cancelled /\ ~Healthy /\ \A i \in Mine : worker[i] # "starting"
  /\ ConsumerDown /\ UNCHANGED faults

-----------------------------------------------------------------------------
(* A deploy *)

\* The operator edits .env.staging and runs docker compose up -d ...
Deploy ==
  /\ deploys < MaxDeploys /\ deploys' = deploys + 1
  /\ env' \in Values \ {env}
  /\ UNCHANGED <<acts, producer, consumer, fleet, redis, faults>>

\* ... which recreates each container in its own time.
RecreateProducer ==
  /\ producer.env # env /\ producer' = Container(env)
  /\ UNCHANGED <<acts, env, consumer, fleet, redis, deploys, faults>>

RecreateConsumer ==
  /\ consumer.env # env /\ ~consumer.up /\ consumer' = Container(env)
  /\ UNCHANGED <<acts, env, producer, fleet, redis, deploys, faults>>

Idle == UNCHANGED vars

Next ==
  \/ StartProducer \/ ProducerDies \/ (\E r \in Resources : Enqueue(r))
  \/ StartConsumer \/ Sigterm \/ ConsumerExits \/ ConsumerDies \/ Replace
  \/ \E i \in Queues : WorkerStarts(i) \/ WorkerFails(i) \/ Serve(i) \/ WorkerStops(i)
  \/ Deploy \/ RecreateProducer \/ RecreateConsumer \/ Idle

Spec == Init /\ [][Next]_vars

\* Docker acts on what it is told and goroutines that can run do, and so does an
\* orchestrator, where there is one.  The producer need not start, nor anything fail, nor
\* the operator deploy.
FairSpec ==
  /\ Spec
  /\ WF_vars(StartConsumer) /\ WF_vars(Sigterm) /\ WF_vars(ConsumerExits)
  /\ WF_vars(Replace) /\ WF_vars(RecreateConsumer)
  /\ \A i \in Queues : WF_vars(WorkerStarts(i)) /\ WF_vars(Serve(i)) /\ WF_vars(WorkerStops(i))

-----------------------------------------------------------------------------
(* Properties *)

\* consumer_cmd.go: "Saudável = todos os workers de shard subiram".  While the consumer
\* reports itself healthy and is not stopping, every Recurso goes to a queue that has a
\* worker - if both processes have the same number of shards.
HealthyMeansServed ==
  consumer.up /\ ~cancelled /\ Healthy /\ producer.shards = consumer.shards =>
    \A r \in Resources : worker[ShardFor(r)] = "up"

Waits(n) == \E t \in tasks : t.n = n /\ t.queue < HttpShardCount(env)

\* consumer_cmd.go: a shard that fails to start leaves Recursos unread "sem nenhum outro
\* sinal" than /healthz.  A task in a queue below the number that was deployed last is
\* taken, whatever was recreated late - or it waits under a consumer that answers 503
\* for ever, and that only where no orchestrator acts on it.
TaskServed ==
  \A n \in 1 .. MaxEvents :
    Waits(n) ~> (~Waits(n) \/ (~acts /\ [](consumer.up /\ ~Healthy)))

\* sharded.go: a Recurso keeps its shard across restarts, which is what keeps its order.
\* An Event is only taken before an older one of its Recurso when another number of
\* shards routed the older.
OvertakenOnlyByRecount ==
  \A s \in served, t \in tasks :
    s.resource = t.resource /\ s.n > t.n => s.count # t.count
=============================================================================
