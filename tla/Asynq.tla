------------------------------- MODULE Asynq --------------------------------
(***************************************************************************)
(* The tasks asynq keeps in Redis, as RedisQueue (pkg/queue/redis.go) and  *)
(* RedisWorker (pkg/queue/redis_consumer.go) use it: one list of pending   *)
(* tasks per queue, a TaskID that is unique while the task is in Redis in  *)
(* any state, retries up to MaxRetry and then the archive, and no          *)
(* retention of what was processed.                                        *)
(***************************************************************************)
EXTENDS Integers, Sequences

CONSTANTS
  Queues,    \* names of the queues
  Ids,       \* TaskIDs, which are Event.IDs
  Bodies,    \* what a task carries
  NoBody,
  MaxRetry   \* defaultMaxRetries

ASSUME AsynqAssumption == MaxRetry \in Nat /\ NoBody \notin Bodies

VARIABLES
  status,    \* status[q][i]: where the task of id i is in queue q
  retried,   \* its failed attempts
  body,      \* what it carries
  pending,   \* pending[q]: the ids waiting in q, oldest first
  arrived    \* history: the ids inserted in q, in order

redis == <<status, retried, body, pending, arrived>>

Statuses == {"absent", "pending", "active", "retry", "archived"}

AsynqType ==
  /\ status \in [Queues -> [Ids -> Statuses]]
  /\ retried \in [Queues -> [Ids -> 0 .. MaxRetry]]
  /\ body \in [Queues -> [Ids -> Bodies \cup {NoBody}]]
  /\ pending \in [Queues -> Seq(Ids)]
  /\ arrived \in [Queues -> Seq(Ids)]

AsynqInit ==
  /\ status = [q \in Queues |-> [i \in Ids |-> "absent"]]
  /\ retried = [q \in Queues |-> [i \in Ids |-> 0]]
  /\ body = [q \in Queues |-> [i \in Ids |-> NoBody]]
  /\ pending = [q \in Queues |-> <<>>]
  /\ arrived = [q \in Queues |-> <<>>]

\* EnqueueContext answers ErrTaskIDConflict for a task it still has, archived ones
\* included.
Exists(q, i) == status[q][i] # "absent"

Insert(q, i, b) ==
  /\ ~Exists(q, i)
  /\ status' = [status EXCEPT ![q][i] = "pending"]
  /\ retried' = [retried EXCEPT ![q][i] = 0]
  /\ body' = [body EXCEPT ![q][i] = b]
  /\ pending' = [pending EXCEPT ![q] = Append(@, i)]
  /\ arrived' = [arrived EXCEPT ![q] = Append(@, i)]

\* A free worker is given the oldest pending task.
Dequeue(q, i) ==
  /\ pending[q] # <<>> /\ i = Head(pending[q])
  /\ status' = [status EXCEPT ![q][i] = "active"]
  /\ pending' = [pending EXCEPT ![q] = Tail(@)]
  /\ UNCHANGED <<retried, body, arrived>>

\* Without Retention a processed task leaves nothing behind.
Complete(q, i) ==
  /\ status' = [status EXCEPT ![q][i] = "absent"]
  /\ body' = [body EXCEPT ![q][i] = NoBody]
  /\ UNCHANGED <<retried, pending, arrived>>

\* A failed attempt, or one whose lease expired, is retried or archived.
RetryOrArchive(q, i) ==
  /\ IF retried[q][i] < MaxRetry
       THEN /\ status' = [status EXCEPT ![q][i] = "retry"]
            /\ retried' = [retried EXCEPT ![q][i] = @ + 1]
       ELSE /\ status' = [status EXCEPT ![q][i] = "archived"]
            /\ UNCHANGED retried
  /\ UNCHANGED <<body, pending, arrived>>

\* The backoff of a task ends: it waits behind what is pending by then.
Forward(q, i) ==
  /\ status[q][i] = "retry"
  /\ status' = [status EXCEPT ![q][i] = "pending"]
  /\ pending' = [pending EXCEPT ![q] = Append(@, i)]
  /\ UNCHANGED <<retried, body, arrived>>
=============================================================================
