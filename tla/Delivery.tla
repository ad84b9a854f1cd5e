------------------------------ MODULE Delivery ------------------------------
(***************************************************************************)
(* The HTTP consumer (consumer_cmd.go): one process with one worker per    *)
(* queue, of concurrency 1, whose handler (webhook.Delivery) posts each    *)
(* Event to srp-hub-api.  A POST may be refused, or be accepted and its    *)
(* answer lost; the process may be stopped gracefully, or die with tasks   *)
(* in hand, which asynq gives back once their lease has expired.           *)
(***************************************************************************)
EXTENDS Asynq, FiniteSets, SequencesExt

CONSTANTS
  None,             \* the task of an idle worker
  Tasks,            \* Tasks[i]: queue and body of the task of id i, for the instances
                    \* in which the producer is not a module
  MaxHubFaults,     \* bound: POSTs refused or left without an answer
  MaxConsumerCrashes,
  MaxStops,         \* bound: graceful stops
  MaxReportFaults   \* bound: writes of failed_deliveries that fail

ASSUME DeliveryAssumption ==
  /\ None \notin Ids
  /\ DOMAIN Tasks \subseteq Ids
  /\ \A i \in DOMAIN Tasks : Tasks[i].queue \in Queues /\ Tasks[i].body \in Bodies
  /\ MaxHubFaults \in Nat /\ MaxConsumerCrashes \in Nat
  /\ MaxStops \in Nat /\ MaxReportFaults \in Nat

VARIABLES
  mode,             \* the process: "down", "up", or "stopping"
  worker,           \* worker[q]: the task the worker of q holds, or None
  result,           \* result[q]: what the handler made of it: "running", "ok", "error"
  failedDeliveries, \* table failed_deliveries
  received,         \* history: what srp-hub-api received from q: id and body, in order
  unreported,       \* history: dead letters failed_deliveries could not take
  orphaned,         \* history: tasks found with an expired lease at their last attempt
  hubFaults, consumerCrashes, stops, reportFaults

hands == <<worker, result>>
notes == <<failedDeliveries, unreported>>
dBounds == <<hubFaults, consumerCrashes, stops, reportFaults>>
delivery == <<mode, hands, notes, received, orphaned, dBounds>>
vars == <<delivery, redis>>

-----------------------------------------------------------------------------
(* The handler *)

\* rotaPorTipo and modificacoesSemRota.
Routes == {"pedidos"}
NoRoute(tipo) == IF tipo = "pedidos" THEN {"D"} ELSE {}

\* The task is no Event, or its payload no Contrato.
Corrupt(b) == b.tipo = "corrupt"

\* An Event older than the Contrato has no tipo: its table stands for it.
TipoOf(b) == IF b.tipo = "" THEN b.table ELSE b.tipo

Routed(b) == TipoOf(b) \in Routes /\ b.mod \notin NoRoute(TipoOf(b))

\* Fault to try on LastAttempt: off by one.
PastLastAttempt(q, i) == retried[q][i] > MaxRetry

LastAttempt(q, i) == retried[q][i] >= MaxRetry

Init ==
  /\ AsynqInit
  /\ mode = "down"
  /\ worker = [q \in Queues |-> None] /\ result = [q \in Queues |-> "running"]
  /\ failedDeliveries = {} /\ unreported = {} /\ orphaned = {}
  /\ received = [q \in Queues |-> <<>>]
  /\ hubFaults = 0 /\ consumerCrashes = 0 /\ stops = 0 /\ reportFaults = 0

\* runHTTPConsumer: the workers start.
StartConsumer ==
  /\ mode = "down" /\ mode' = "up"
  /\ UNCHANGED <<hands, notes, received, orphaned, dBounds, redis>>

\* The worker of q takes the oldest pending task.
Fetch(q) ==
  /\ mode = "up" /\ worker[q] = None
  /\ \E i \in Ids : Dequeue(q, i) /\ worker' = [worker EXCEPT ![q] = i]
  /\ result' = [result EXCEPT ![q] = "running"]
  /\ UNCHANGED <<mode, notes, received, orphaned, dBounds>>

\* On the last attempt the failure is written to failed_deliveries; a failure to
\* do so is only logged.
SaveFailedDelivery(q, i) ==
  IF ~LastAttempt(q, i)
    THEN UNCHANGED <<notes, reportFaults>>
    ELSE \/ /\ failedDeliveries' = failedDeliveries \cup {i}
            /\ UNCHANGED <<unreported, reportFaults>>
         \/ /\ reportFaults < MaxReportFaults /\ reportFaults' = reportFaults + 1
            /\ unreported' = unreported \cup {i}
            /\ UNCHANGED failedDeliveries

\* Faults to try on Returns: the error of a POST is only logged; a failed attempt is
\* repeated at once.
ReturnsNil(q, r) == result' = [result EXCEPT ![q] = "ok"]
RepeatsOnError(q, r) == result' = [result EXCEPT ![q] = IF r = "ok" THEN r ELSE "running"]

Returns(q, r) == result' = [result EXCEPT ![q] = r]

\* Handle: a payload that cannot be decoded is an error that is reported nowhere;
\* an Event without a route is a success; any other is posted.
Handle(q) ==
  /\ mode # "down" /\ worker[q] # None /\ result[q] = "running"
  /\ LET i == worker[q]
         b == body[q][i]
         arrives == received' = [received EXCEPT ![q] = Append(@, [id |-> i, body |-> b])]
         quiet == UNCHANGED <<notes, received, hubFaults, reportFaults>>
         fails == /\ hubFaults < MaxHubFaults /\ hubFaults' = hubFaults + 1
                  /\ Returns(q, "error") /\ SaveFailedDelivery(q, i)
     IN \/ Corrupt(b) /\ Returns(q, "error") /\ quiet
        \/ ~Corrupt(b) /\ ~Routed(b) /\ Returns(q, "ok") /\ quiet
        \/ ~Corrupt(b) /\ Routed(b) /\ arrives /\ Returns(q, "ok")
             /\ UNCHANGED <<notes, hubFaults, reportFaults>>
        \/ ~Corrupt(b) /\ Routed(b) /\ arrives /\ fails
        \/ ~Corrupt(b) /\ Routed(b) /\ UNCHANGED received /\ fails
  /\ UNCHANGED <<mode, worker, orphaned, consumerCrashes, stops, redis>>

\* asynq removes a task that succeeded, retries or archives one that failed.
Settle(q) ==
  /\ mode # "down" /\ worker[q] # None /\ result[q] # "running"
  /\ IF result[q] = "ok" THEN Complete(q, worker[q]) ELSE RetryOrArchive(q, worker[q])
  /\ worker' = [worker EXCEPT ![q] = None] /\ UNCHANGED result
  /\ UNCHANGED <<mode, notes, received, orphaned, dBounds>>

\* The forwarder of a running worker ends the backoff of a task.
Backoff(q) ==
  /\ mode = "up" /\ \E i \in Ids : Forward(q, i)
  /\ UNCHANGED delivery

\* The recoverer finds an active task that no worker keeps the lease of: the
\* attempt counts as failed, though no handler saw it end.
Recover(q) ==
  /\ mode = "up"
  /\ \E i \in Ids :
       /\ status[q][i] = "active" /\ worker[q] # i
       /\ RetryOrArchive(q, i)
       /\ orphaned' = IF LastAttempt(q, i) THEN orphaned \cup {i} ELSE orphaned
  /\ UNCHANGED <<mode, hands, notes, received, dBounds>>

\* SIGTERM: no worker takes another task.
Stop ==
  /\ mode = "up" /\ mode' = "stopping"
  /\ stops < MaxStops /\ stops' = stops + 1
  /\ UNCHANGED <<hands, notes, received, orphaned, hubFaults, consumerCrashes, reportFaults, redis>>

\* Fault to try on Requeue: the task is enqueued again.
RequeueLast(q) ==
  /\ mode = "stopping" /\ worker[q] # None
  /\ status' = [status EXCEPT ![q][worker[q]] = "pending"]
  /\ pending' = [pending EXCEPT ![q] = Append(@, worker[q])]
  /\ worker' = [worker EXCEPT ![q] = None]
  /\ UNCHANGED <<retried, body, arrived, mode, result, notes, received, orphaned, dBounds>>

\* A task still in hand when Shutdown's patience ends, be its handler done or not,
\* goes back to the front of its queue, its attempt not counted.
Requeue(q) ==
  /\ mode = "stopping" /\ worker[q] # None
  /\ status' = [status EXCEPT ![q][worker[q]] = "pending"]
  /\ pending' = [pending EXCEPT ![q] = <<worker[q]>> \o @]
  /\ worker' = [worker EXCEPT ![q] = None]
  /\ UNCHANGED <<retried, body, arrived, mode, result, notes, received, orphaned, dBounds>>

\* Fault to try on Stopped: main does not wait for the workers.
StoppedAtOnce ==
  /\ mode = "stopping"
  /\ mode' = "down"
  /\ UNCHANGED <<hands, notes, received, orphaned, dBounds, redis>>

\* Every worker has shut down.
Stopped ==
  /\ mode = "stopping" /\ \A q \in Queues : worker[q] = None
  /\ mode' = "down"
  /\ UNCHANGED <<hands, notes, received, orphaned, dBounds, redis>>

\* The process dies with the tasks in hand.
CrashConsumer ==
  /\ mode # "down" /\ mode' = "down"
  /\ consumerCrashes < MaxConsumerCrashes /\ consumerCrashes' = consumerCrashes + 1
  /\ worker' = [q \in Queues |-> None]
  /\ UNCHANGED <<result, notes, received, orphaned, hubFaults, stops, reportFaults, redis>>

\* What the asynq server of q does by itself.
Serve(q) == Fetch(q) \/ Handle(q) \/ Settle(q) \/ Backoff(q) \/ Recover(q)

Step ==
  \/ StartConsumer \/ Stop \/ Stopped \/ CrashConsumer
  \/ \E q \in Queues : Serve(q) \/ Requeue(q)

\* By itself the consumer sees its tasks arrive in any order at any moment.
Arrive ==
  /\ \E i \in DOMAIN Tasks :
       /\ \A q \in Queues : ~Contains(arrived[q], i)
       /\ Insert(Tasks[i].queue, i, Tasks[i].body)
  /\ UNCHANGED delivery

Settled(q, i) == status[q][i] \in {"absent", "archived"}

\* Nothing is left to do.
Drained ==
  /\ mode = "up" /\ \A i \in DOMAIN Tasks : Contains(arrived[Tasks[i].queue], i)
  /\ \A q \in Queues, i \in Ids : Settled(q, i)
  /\ UNCHANGED vars

Next == Step \/ Arrive \/ Drained

\* The process is restarted, and no server of its stands still for ever while it could
\* act: asynq's processor polls, its forwarder and recoverer run periodically.
Fairness ==
  /\ WF_vars(StartConsumer \/ Stopped)
  /\ \A q \in Queues : WF_vars(Serve(q))

Spec == Init /\ [][Next]_vars

FairSpec == Spec /\ Fairness

-----------------------------------------------------------------------------
(* Properties *)

Received(q, i) == \E k \in DOMAIN received[q] : received[q][k].id = i

\* A worker holds an active task of its queue, and the queue lists what is pending,
\* each task once.
TypeOK ==
  /\ AsynqType
  /\ mode \in {"down", "up", "stopping"}
  /\ worker \in [Queues -> Ids \cup {None}]
  /\ result \in [Queues -> {"running", "ok", "error"}]
  /\ failedDeliveries \subseteq Ids /\ unreported \subseteq Ids /\ orphaned \subseteq Ids
  /\ received \in [Queues -> Seq([id : Ids, body : Bodies])]
  /\ \A q \in Queues :
       /\ worker[q] # None => mode # "down" /\ status[q][worker[q]] = "active"
       /\ IsInjective(pending[q])
       /\ ToSet(pending[q]) = {i \in Ids : status[q][i] = "pending"}

\* ADR 0001 and sharded.go: the order of a shard is kept but for retries.  A task is
\* received before one that reached its queue earlier only if the earlier one had an
\* attempt fail, or died with the process that held it: neither another shard nor a
\* graceful stop reorders anything.
OvertakenOnlyAfterFailure ==
  \A q \in Queues : \A m, n \in DOMAIN arrived[q] :
    LET i == arrived[q][m]  j == arrived[q][n] IN
    m < n /\ Received(q, j) /\ Exists(q, i) /\ ~Received(q, i) /\ Routed(body[q][i])
      => \/ retried[q][i] > 0 \/ status[q][i] = "archived"
         \/ status[q][i] = "active" /\ worker[q] # i

\* README: "nenhum evento é perdido silenciosamente".  A task that left Redis was
\* received by srp-hub-api, unless the route refuses what it carries.
GoneMeansReceived ==
  \A q \in Queues, i \in DOMAIN Tasks :
    Contains(arrived[q], i) /\ ~Exists(q, i) /\ Routed(Tasks[i].body) => Received(q, i)

\* deliver.go: a dead letter of asynq is also a row of failed_deliveries - unless
\* nobody saw the last attempt end, SQLite refused the row, or nothing could be decoded.
DeadLetterAccounted ==
  \A q \in Queues, i \in Ids :
    status[q][i] = "archived" =>
      i \in failedDeliveries \cup unreported \cup orphaned \/ Corrupt(body[q][i])

\* Again and again nothing waits: however its attempts went, no task, nor those behind
\* it in its shard, is kept for ever from being received or archived.
EventuallySettled == []<>(\A q \in Queues, i \in Ids : Settled(q, i))
=============================================================================
