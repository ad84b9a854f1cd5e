------------------------------ MODULE Producer ------------------------------
(***************************************************************************)
(* HandleEvent: the rows of the row events of one server become Events,    *)
(* published to every target of the fan-out, or saved in failed_events.    *)
(* The watcher around it is reduced to what module Replay promises: events *)
(* in order, from a remembered place that is never ahead of the handled    *)
(* ones.  The MariaDB server commits while the producer works, so the      *)
(* state read for an Event may be newer than the change that caused it.    *)
(***************************************************************************)
EXTENDS Asynq, FiniteSets

CONSTANTS
  Changes,       \* the row events of the log, in order: action and rows
  Resources,     \* tenant:table:id of a row
  Targets,       \* the Enqueuers of the FanoutQueue, in order
  Shards,        \* Shards[t]: number of queues of target t
  Hash,          \* Hash[r]: FNV-1a of the resource
  Dates,         \* bound: what the wall clock may show, from 0
  ClockSteps,    \* milliseconds that may pass between two reads of the clock
  MaxCrashes,    \* bound: crashes of the process
  MaxRedisFaults,\* bound: enqueues that fail
  MaxSqliteFaults\* bound: writes of failed_events that fail

\* A row is told apart by what emitRows does with it: "ok", "badid" when its
\* first column is no INT, "poison" when its Recurso cannot be built or serialised,
\* "other" when no TableProcessor supports its table.
ASSUME ProducerAssumption ==
  /\ Changes \in Seq([action : {"INSERT", "UPDATE", "DELETE"},
                      rows : Seq([res : Resources, kind : {"ok", "badid", "poison", "other"}])])
  /\ Targets \in Seq(DOMAIN Shards)
  /\ \A t \in DOMAIN Shards : Shards[t] \in Nat \ {0}
  /\ Hash \in [Resources -> Nat]
  /\ Dates \subseteq Nat /\ 0 \in Dates /\ ClockSteps \subseteq Nat
  /\ MaxCrashes \in Nat /\ MaxRedisFaults \in Nat /\ MaxSqliteFaults \in Nat

VARIABLES
  up,           \* the watcher's loop is running
  next,         \* the row event it handles now or next
  saved,        \* row events a restart skips
  pc,           \* "read", or in emitRows: "row", "build", "fanout"
  row,          \* rowIndex
  date,         \* dataEvento of the row
  payload,      \* the Contrato being published
  tgt,          \* targets already called
  errs, dups,   \* errors and duplicates they answered
  failedEvents, \* table failed_events
  committed,    \* row events the server has committed
  clock,        \* wall clock
  aborted,      \* history: row events HandleEvent gave up on
  unsaved,      \* history: ids that failed_events could not take
  inserted,     \* history: the ids each target was given
  crashes, redisFaults, sqliteFaults

loop == <<up, next, saved>>
fanout == <<tgt, errs, dups>>
read == <<date, clock>>
server == <<committed>>
accounts == <<failedEvents, aborted, unsaved, inserted>>
pBounds == <<crashes, redisFaults, sqliteFaults>>
producer == <<loop, pc, row, read, payload, fanout, server, accounts, pBounds>>
vars == <<producer, redis>>

-----------------------------------------------------------------------------
(* Rows *)

\* eachRow: an UPDATE's rows come in pairs, old and new; a trailing odd row is
\* ignored.
Visited(n) ==
  LET rows == Changes[n].rows IN
  IF Changes[n].action = "UPDATE"
    THEN [i \in 1 .. Len(rows) \div 2 |-> rows[2 * i]]
    ELSE rows

\* generateEventID hashes the tracked position, the index of the row and its resource.
\* The pair stands for the hash on two assumptions: two texts do not collide, and go-mysql
\* does not reconnect by itself.  Without reconnections the position is the same whenever
\* the event is read and no other event has it (StableIds and DistinctIds of Watcher);
\* with them the ids of two changes may be one (the run watcher_reconnect).
EventId(n, i) == <<n, i>>

\* The last of the first c changes to touch r, which is the version of r then.
Version(r, c) ==
  LET touching == {n \in 1 .. c : \E i \in DOMAIN Visited(n) : Visited(n)[i].res = r}
  IN IF touching = {} THEN 0 ELSE CHOOSE n \in touching : \A m \in touching : m <= n

\* Fault to try on TipoModificacaoDe: an update has a letter of its own.
TipoModificacaoU(action) ==
  CASE action = "INSERT" -> "C" [] action = "DELETE" -> "D" [] OTHER -> "U"

TipoModificacaoDe(action) ==
  CASE action = "INSERT" -> "C" [] action = "DELETE" -> "D" [] OTHER -> "M"

\* The Recurso mixes two reads: the cover (capa) is the row of the binlog, what
\* Enrich adds is read in MariaDB at that moment.  A deleted row is not enriched.
Contrato(n, i) ==
  LET change == Changes[n]
      res == Visited(n)[i].res
  IN [tipo |-> "pedidos", table |-> "pedidos",
      mod |-> TipoModificacaoDe(change.action), res |-> res,
      capa |-> n,
      enr |-> IF change.action = "DELETE" THEN n ELSE Version(res, committed),
      date |-> date]

\* Fault to try on ShardFor: a hash with the seed of the process.
ShardForSeeded(t, res) == <<t, (Hash[res] + crashes) % Shards[t]>>

\* ShardedQueue.shardFor.
ShardFor(t, res) == <<t, Hash[res] % Shards[t]>>

\* What a task carries: a Contrato is built of the log, one read of MariaDB and the clock.
Contratos ==
  [tipo : {"pedidos"}, table : {"pedidos"}, mod : {"C", "M", "D"}, res : Resources,
   capa : DOMAIN Changes, enr : 0 .. Len(Changes), date : Dates]

\* The tasks, queues and ids of module Asynq are those the producer makes.
ASSUME NamesAssumption ==
  /\ Contratos \subseteq Bodies
  /\ \A n \in DOMAIN Changes : \A i \in DOMAIN Visited(n) : EventId(n, i) \in Ids
  /\ \A k \in DOMAIN Targets : \A s \in 0 .. Shards[Targets[k]] - 1 : <<Targets[k], s>> \in Queues

\* Fault to try on FanoutResult: one duplicate makes the event a duplicate.
FanoutAnyDuplicate(e, d) ==
  CASE d > 0 -> "duplicate" [] d = 0 /\ e > 0 -> "error" [] OTHER -> "nil"

\* What FanoutQueue.Enqueue returns once every target was called.
FanoutResult(e, d) ==
  CASE Len(Targets) = 0 -> "nil"
    [] Len(Targets) # 0 /\ e > 0 -> "error"
    [] Len(Targets) # 0 /\ e = 0 /\ d = Len(Targets) -> "duplicate"
    [] OTHER -> "nil"

-----------------------------------------------------------------------------
(* Steps of the producer *)

Init ==
  /\ AsynqInit
  /\ up = FALSE /\ next = 1 /\ saved = 0
  /\ pc = "read" /\ row = 0
  /\ date = 0 /\ clock = 0
  /\ payload = NoBody
  /\ tgt = 0 /\ errs = 0 /\ dups = 0
  /\ committed = 0
  /\ failedEvents = {} /\ aborted = {} /\ unsaved = {} /\ inserted = {}
  /\ crashes = 0 /\ redisFaults = 0 /\ sqliteFaults = 0

At(p) == up /\ pc = p

\* Fault to try on Start: resumes one event too far.
StartPast ==
  /\ ~up /\ up' = TRUE
  /\ next' = saved + 2 /\ pc' = "read" /\ row' = 0
  /\ UNCHANGED <<saved, read, payload, fanout, server, accounts, pBounds, redis>>

\* The process starts and resumes after the saved place.
Start ==
  /\ ~up /\ up' = TRUE
  /\ next' = saved + 1 /\ pc' = "read" /\ row' = 0
  /\ UNCHANGED <<saved, read, payload, fanout, server, accounts, pBounds, redis>>

\* HandleEvent begins with the first row of the next event.
HandleEvent ==
  /\ At("read") /\ next <= committed
  /\ pc' = "row" /\ row' = 1
  /\ UNCHANGED <<loop, read, payload, fanout, server, accounts, pBounds, redis>>

\* The event is done with, well or not, and the tracker observes it.
DoneWithEvent == next' = next + 1 /\ pc' = "read" /\ row' = 0 /\ UNCHANGED <<up, saved>>

NextRow == pc' = "row" /\ row' = row + 1 /\ UNCHANGED loop

\* eachRow has no row left.
LastRow ==
  /\ At("row") /\ row \notin DOMAIN Visited(next)
  /\ DoneWithEvent
  /\ UNCHANGED <<read, payload, fanout, server, accounts, pBounds, redis>>

\* rowResourceID refuses the row: it is skipped.
SkipRow ==
  /\ At("row") /\ row \in DOMAIN Visited(next) /\ Visited(next)[row].kind = "badid"
  /\ NextRow
  /\ UNCHANGED <<read, payload, fanout, server, accounts, pBounds, redis>>

\* dataEvento is read before the state of the Recurso.
ReadClock ==
  /\ At("row") /\ row \in DOMAIN Visited(next) /\ Visited(next)[row].kind # "badid"
  /\ \E step \in ClockSteps : clock + step \in Dates /\ clock' = clock + step
  /\ date' = clock'
  /\ pc' = "build"
  /\ UNCHANGED <<loop, row, payload, fanout, server, accounts, pBounds, redis>>

\* dispatchTable finds no TableProcessor: nothing is emitted.
Unsupported ==
  /\ At("build") /\ Visited(next)[row].kind = "other"
  /\ NextRow
  /\ UNCHANGED <<read, payload, fanout, server, accounts, pBounds, redis>>

\* Fault to try on Abort: the event is tried again.
AbortAndRetry ==
  /\ At("build") /\ Visited(next)[row].kind = "poison"
  /\ pc' = "read" /\ row' = 0
  /\ UNCHANGED <<loop, read, payload, fanout, server, accounts, pBounds, redis>>

\* Process fails or panics, or json.Marshal refuses what it built (a NaN parsed
\* from a custom field): HandleEvent returns and the event counts as handled.
Abort ==
  /\ At("build") /\ Visited(next)[row].kind = "poison"
  /\ DoneWithEvent
  /\ aborted' = aborted \cup {next}
  /\ UNCHANGED <<read, payload, fanout, server, failedEvents, unsaved, inserted, pBounds, redis>>

\* Process reads MariaDB and the Contrato is built.
Build ==
  /\ At("build") /\ Visited(next)[row].kind = "ok"
  /\ payload' = Contrato(next, row)
  /\ tgt' = 0 /\ errs' = 0 /\ dups' = 0
  /\ pc' = "fanout"
  /\ UNCHANGED <<loop, row, read, server, accounts, pBounds, redis>>

\* FanoutQueue calls its next target, which may take the event, know it already,
\* or fail, be it before or after Redis took the task.
CallTarget ==
  /\ At("fanout") /\ tgt < Len(Targets)
  /\ tgt' = tgt + 1
  /\ LET id == EventId(next, row)
         t == Targets[tgt + 1]
         q == ShardFor(t, payload.res)
         took == inserted' = inserted \cup {<<t, id>>}
         fails == redisFaults < MaxRedisFaults /\ redisFaults' = redisFaults + 1
                  /\ errs' = errs + 1 /\ UNCHANGED dups
     IN \/ /\ Insert(q, id, payload) /\ took
           /\ UNCHANGED <<errs, dups, redisFaults>>
        \/ /\ Exists(q, id) /\ dups' = dups + 1
           /\ UNCHANGED <<errs, redis, inserted, redisFaults>>
        \/ fails /\ Insert(q, id, payload) /\ took
        \/ fails /\ UNCHANGED <<redis, inserted>>
  /\ UNCHANGED <<loop, pc, row, read, payload, server,
                 failedEvents, aborted, unsaved, crashes, sqliteFaults>>

\* emit, once every target was called: an error that is no duplicate goes to
\* failed_events, and if that fails too it is only logged.
Emit ==
  /\ At("fanout") /\ tgt = Len(Targets)
  /\ NextRow /\ payload' = NoBody
  /\ LET id == EventId(next, row) IN
     IF FanoutResult(errs, dups) = "error"
       THEN \/ /\ failedEvents' = failedEvents \cup {id}
               /\ UNCHANGED <<unsaved, sqliteFaults>>
            \/ /\ sqliteFaults < MaxSqliteFaults /\ sqliteFaults' = sqliteFaults + 1
               /\ unsaved' = unsaved \cup {id} /\ UNCHANGED failedEvents
       ELSE UNCHANGED <<failedEvents, unsaved, sqliteFaults>>
  /\ UNCHANGED <<read, fanout, server, aborted, inserted, crashes, redisFaults, redis>>

\* The watcher persists a place it has been through.
Save ==
  /\ At("read")
  /\ saved' \in saved + 1 .. next - 1
  /\ UNCHANGED <<up, next, pc, row, read, payload, fanout, server, accounts, pBounds, redis>>

\* The process dies between any two steps.
Crash ==
  /\ up /\ up' = FALSE
  /\ crashes < MaxCrashes /\ crashes' = crashes + 1
  /\ payload' = NoBody
  /\ UNCHANGED <<next, saved, pc, row, read, fanout, server, accounts,
                 redisFaults, sqliteFaults, redis>>

\* The ERP commits the next change.
Commit ==
  /\ committed < Len(Changes) /\ committed' = committed + 1
  /\ UNCHANGED <<loop, pc, row, read, payload, fanout, accounts, pBounds, redis>>

Step ==
  \/ Start \/ HandleEvent \/ LastRow \/ SkipRow \/ ReadClock \/ Unsupported \/ Abort
  \/ Build \/ CallTarget \/ Emit \/ Save \/ Crash \/ Commit

Progress ==
  \/ Start \/ HandleEvent \/ LastRow \/ SkipRow \/ ReadClock \/ Unsupported \/ Abort
  \/ Build \/ CallTarget \/ Emit

\* By itself the producer sees its tasks processed at any moment, in any order.
Consumed ==
  \E q \in Queues : \E k \in DOMAIN pending[q] :
    LET i == pending[q][k] IN
    /\ status' = [status EXCEPT ![q][i] = "absent"]
    /\ body' = [body EXCEPT ![q][i] = NoBody]
    /\ pending' = [pending EXCEPT ![q] = SubSeq(@, 1, k - 1) \o SubSeq(@, k + 1, Len(@))]
    /\ UNCHANGED <<retried, arrived, producer>>

\* Everything committed was handled and persisted.
Finished == up /\ saved = Len(Changes) /\ UNCHANGED vars

Next == Step \/ Consumed \/ Finished

Spec == Init /\ [][Next]_vars

FairSpec == Spec /\ WF_vars(Progress) /\ WF_vars(Commit)

-----------------------------------------------------------------------------
(* Properties *)

TypeOK ==
  /\ AsynqType
  /\ up \in BOOLEAN /\ next \in 1 .. Len(Changes) + 1 /\ saved \in 0 .. Len(Changes)
  /\ pc \in {"read", "row", "build", "fanout"} /\ row \in Nat
  /\ date \in Dates /\ clock \in Dates
  /\ payload \in Bodies \cup {NoBody}
  /\ tgt \in 0 .. Len(Targets) /\ errs + dups <= tgt
  /\ committed \in 0 .. Len(Changes)
  /\ failedEvents \subseteq Ids /\ unsaved \subseteq Ids
  /\ aborted \subseteq DOMAIN Changes
  /\ inserted \subseteq {Targets[k] : k \in DOMAIN Targets} \X Ids

\* The rows of event n that are to become Events.
Eligible(n) == {i \in DOMAIN Visited(n) : Visited(n)[i].kind \in {"ok", "poison"}}

Reached(id) ==
  \/ \A k \in DOMAIN Targets : <<Targets[k], id>> \in inserted
  \/ id \in failedEvents

\* README: "nenhum evento é perdido silenciosamente" - as far as the producer keeps
\* its side: of an event a restart will not read again, every row reached every
\* target or failed_events, whatever crashed in the middle of the fan-out, unless
\* the log says it did not (HandleEvent failed, or SQLite did as well).
EveryRowAccounted ==
  \A n \in 1 .. saved : \A i \in Eligible(n) :
    n \in aborted \/ EventId(n, i) \in unsaved \/ Reached(EventId(n, i))

\* While a task is in Redis no replay puts its Event into another shard of the
\* target, where asynq would not recognise it and its worker would race.
OneTaskPerTarget ==
  \A p, q \in Queues, i \in Ids :
    p[1] = q[1] /\ Exists(p, i) /\ Exists(q, i) => p = q

\* Every row of every change is sooner or later accounted for: no failure makes the
\* producer stop in front of an event for ever.
EventuallyAccounted ==
  <>(\A n \in DOMAIN Changes : \A i \in Eligible(n) :
       n \in aborted \/ EventId(n, i) \in unsaved \/ Reached(EventId(n, i)))
=============================================================================
