------------------------------ MODULE Pipeline ------------------------------
(***************************************************************************)
(* The two processes at once: the producer, whose module this one extends, *)
(* and the consumer of module Delivery share nothing but Redis, and        *)
(* srp-hub-api sees what comes out.  What is said of one end is only worth *)
(* something to a client if it survives the other: the order of two        *)
(* snapshots, what a duplicate carries, that no change is lost in between. *)
(***************************************************************************)
EXTENDS Producer, SequencesExt

CONSTANTS
  None, MaxHubFaults, MaxConsumerCrashes, MaxStops, MaxReportFaults

\* initQueue publishes to the queue of the HTTP consumer at least; a worker that is idle
\* holds no task.
ASSUME PipelineAssumption == Targets # <<>> /\ None \notin Ids

VARIABLES
  mode, worker, result, failedDeliveries, received, unreported, orphaned,
  hubFaults, consumerCrashes, stops, reportFaults,
  view  \* view[r]: the snapshot of r that a client of srp-hub-api keeps

D == INSTANCE Delivery WITH Tasks <- <<>>

consumer == <<mode, worker, result, failedDeliveries, received, unreported, orphaned,
              hubFaults, consumerCrashes, stops, reportFaults>>
pipeline == <<producer, consumer, redis, view>>

PipelineInit == Init /\ D!Init /\ view = [r \in Resources |-> NoBody]

\* A client keeps the snapshot it has when an older one comes (ADR 0001): "descarta o
\* que for mais antigo que o último recebido".
Keep(have, b) == IF have # NoBody /\ b.date < have.date THEN have ELSE b

\* A client sees what srp-hub-api receives, when it receives it.
ClientSees ==
  \/ UNCHANGED <<received, view>>
  \/ \E q \in Queues :
       /\ received'[q] # received[q]
       /\ LET b == Last(received'[q]).body IN view' = [view EXCEPT ![b.res] = Keep(@, b)]

\* main: the producer's process, and the server it watches.
Produce == Step /\ UNCHANGED <<consumer, view>>

\* runHTTPConsumer: the consumer's process.
Consume == D!Step /\ ClientSees /\ UNCHANGED producer

Idle(q) == \A i \in Ids : D!Settled(q, i)

\* Every change went through the producer, and no task waits.
Quiet == up /\ pc = "read" /\ next > Len(Changes) /\ \A q \in Queues : Idle(q)

Done == Quiet /\ saved = Len(Changes) /\ mode = "up" /\ UNCHANGED pipeline

PipelineNext == Produce \/ Consume \/ Done

PipelineSpec == PipelineInit /\ [][PipelineNext]_pipeline

\* The fairness of each process.
FairPipelineSpec ==
  /\ PipelineSpec
  /\ WF_pipeline(Progress /\ UNCHANGED <<consumer, view>>)
  /\ WF_pipeline(Commit /\ UNCHANGED <<consumer, view>>)
  /\ WF_pipeline((D!StartConsumer \/ D!Stopped) /\ ClientSees /\ UNCHANGED producer)
  /\ \A q \in Queues : WF_pipeline(D!Serve(q) /\ ClientSees /\ UNCHANGED producer)

-----------------------------------------------------------------------------
(* What srp-hub-api sees *)

Sent == UNION {ToSet(received[q]) : q \in Queues}

\* The row events that bring an Event of r which is no removal, which no route takes.
Updates(r) ==
  {n \in DOMAIN Changes :
     Changes[n].action # "DELETE" /\ \E i \in Eligible(n) : Visited(n)[i].res = r}

\* A failure of r was left to the operator, or to the log.
Escalated(r) ==
  \E n \in DOMAIN Changes : \E i \in DOMAIN Visited(n) :
    LET id == EventId(n, i) IN
    /\ Visited(n)[i].res = r
    /\ \/ id \in failedEvents \cup unsaved
       \/ n \in aborted
       \/ \E q \in Queues : status[q][id] = "archived"

-----------------------------------------------------------------------------
(* Properties *)

Delivered(id) == \E q \in Queues : D!Received(q, id)

\* The dead letters of both processes, and what only their logs know.
Accounted(n, i) ==
  LET id == EventId(n, i) IN
  \/ Delivered(id)
  \/ id \in failedEvents \cup unsaved
  \/ id \in failedDeliveries \cup unreported \cup orphaned
  \/ n \in aborted

\* asynq will still give it to a worker.
OnItsWay(id) == \E q \in Queues : status[q][id] \in {"pending", "active", "retry"}

\* README: "nenhum evento é perdido silenciosamente", from end to end.  A change that a
\* restart of the producer will not read again was received by srp-hub-api, is on its
\* way in Redis, or left a trace, whatever crashed on either side; what asynq archived
\* is traced too, and a removal may have been dropped by its route.
NothingLost ==
  \A n \in 1 .. saved : \A i \in Eligible(n) :
    Accounted(n, i) \/ OnItsWay(EventId(n, i)) \/ Changes[n].action = "DELETE"

\* GLOSSARY: "Entre dois Eventos do mesmo Recurso, o de data maior é o mais novo": of
\* two snapshots srp-hub-api received, the later date goes with the later change and
\* the later reading of MariaDB.
NewestIsLast ==
  \A x, y \in Sent :
    x.body.res = y.body.res /\ x.body.date < y.body.date =>
      x.body.capa <= y.body.capa /\ x.body.enr <= y.body.enr

\* When everything was handled and nothing was left to the operator, a client that
\* follows the ADR shows the last change of every resource, and read in MariaDB no
\* earlier than it: no retry, crash of the consumer or lost answer leaves an old
\* snapshot behind.  After a crash of the producer NewestIsLast fails, and so would this.
ClientConverges ==
  Quiet /\ crashes = 0 =>
    \A r \in Resources :
      Updates(r) # {} /\ ~Escalated(r) =>
        /\ view[r] # NoBody
        /\ \A n \in Updates(r) : n <= view[r].capa /\ n <= view[r].enr

\* Every change that is no removal sooner or later reaches srp-hub-api or the operator.
EventuallyDelivered ==
  \A n \in DOMAIN Changes : \A i \in Eligible(n) :
    Changes[n].action # "DELETE" => <>Accounted(n, i)
=============================================================================
