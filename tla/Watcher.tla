------------------------------ MODULE Watcher -------------------------------
(***************************************************************************)
(* One BinlogWatcher (binlog.go), its positionTracker (position.go) and    *)
(* its row of binlog_servers, reading the binlog through go-mysql's syncer *)
(* and streamer.  The process may crash at any step, be told to stop, lose *)
(* the stream, or fail to write SQLite; the orchestrator starts it again.  *)
(*                                                                         *)
(* What HandleEvent does with the rows is module Producer; here it is the  *)
(* fact that the event was handed over, with the position its ids derive   *)
(* from, or discarded because HandleEvent failed or panicked.              *)
(***************************************************************************)
EXTENDS Binlog, FiniteSets

CONSTANTS
  FlushInterval,  \* positionFlushInterval, in ticks of the clock
  MaxFaults,      \* bound: crashes, stops, lost streams, failed writes, failed events
  MaxReconnects   \* bound: silent reconnections of the syncer

ASSUME WatcherAssumption ==
  /\ FlushInterval \in Nat
  /\ MaxFaults \in Nat
  /\ MaxReconnects \in Nat

VARIABLES
  phase,      \* "down" until Start reaches its loop, then "run"
  pc,         \* in the loop: "read" before GetEvent, "observe" after HandleEvent
  tracker,    \* the positionTracker: current, safe, inTx
  elapsed,    \* now - lastFlush, counted up to FlushInterval
  db,         \* binlog_file and binlog_pos of the server in SQLite
  cursor,     \* the streamer: position of the next event of the log it returns
  pre,        \* artificial events due before it: "rotate" (and what follows), "fde", "none"
  mapped,     \* go-mysql knows the TableMap of the session's current row group
  emitted,    \* history: row events handed to the Producer, with their pre-position
  discarded,  \* history: row events whose HandleEvent failed or panicked
  origin,     \* history: where SHOW MASTER STATUS made the watcher begin
  faults, reconnects

stream == <<cursor, pre, mapped>>
history == <<emitted, discarded>>
bounds == <<faults, reconnects>>
vars == <<phase, pc, tracker, elapsed, db, stream, history, origin, bounds>>

Running(at) == phase = "run" /\ pc = at

\* Spends n of the faults a behaviour may have.
Spend(n) == faults + n <= MaxFaults /\ faults' = faults + n /\ UNCHANGED reconnects

Cost(ok) == IF ok THEN 0 ELSE 1

-----------------------------------------------------------------------------
(* positionTracker *)

Tracker == [current : Position, safe : Position, inTx : BOOLEAN]

NewTracker(start) == [current |-> start, safe |-> start, inTx |-> FALSE]

CloseTx(t) == [t EXCEPT !.inTx = FALSE, !.safe = t.current]

\* Faults to try on ObserveRotate: a boundary even inside a transaction; the name of
\* the next file is forgotten.
ObserveRotateAlways(t, next) == NewTracker(next)
ObserveRotateSameFile(t, next) ==
  [t EXCEPT !.current.pos = next.pos, !.safe = IF t.inTx THEN t.safe ELSE next]

\* Observe on a RotateEvent, real or artificial: inside a transaction it can only
\* be the artificial one of a reconnection, and is no boundary.
ObserveRotate(t, next) ==
  [t EXCEPT !.current = next, !.safe = IF t.inTx THEN t.safe ELSE next]

\* Faults to try on ObserveEvent: the place of an event is where it starts; every
\* event is a boundary; BEGIN is a Query like any other; what opens a transaction
\* does not move the current position.
ObserveEventStart(t, kind, logPos) ==
  LET moved == [t EXCEPT !.current.pos = logPos - 1] IN
  IF kind \in {"xid", "commit", "ddl", "savepoint"} THEN CloseTx(moved) ELSE moved
ObserveEventEager(t, kind, logPos) == CloseTx([t EXCEPT !.current.pos = logPos])
ObserveEventBeginCloses(t, kind, logPos) ==
  LET moved == [t EXCEPT !.current.pos = logPos] IN
  CASE kind \in {"xid", "commit", "ddl", "savepoint", "begin"} -> CloseTx(moved)
    [] kind \in {"gtid", "tablemap", "rows"} -> [moved EXCEPT !.inTx = TRUE]
    [] OTHER -> moved
ObserveEventLazy(t, kind, logPos) ==
  LET moved == [t EXCEPT !.current.pos = logPos] IN
  CASE kind \in {"xid", "commit", "ddl", "savepoint"} -> CloseTx(moved)
    [] kind \in {"begin", "gtid", "tablemap", "rows"} -> [t EXCEPT !.inTx = TRUE]
    [] OTHER -> moved

\* Observe on any other event: the text of a Query only tells BEGIN from the rest.
ObserveEvent(t, kind, logPos) ==
  LET moved == [t EXCEPT !.current.pos = logPos] IN
  CASE kind \in {"xid", "commit", "ddl", "savepoint"} -> CloseTx(moved)
    [] kind \in {"begin", "gtid", "tablemap", "rows"} -> [moved EXCEPT !.inTx = TRUE]
    [] OTHER -> moved

\* Observe asks for a save when an event closes a transaction and the last flush
\* is old enough.
FlushDue(kind) ==
  kind \in {"xid", "commit", "ddl", "savepoint"} /\ elapsed >= FlushInterval

-----------------------------------------------------------------------------
(* BinlogWatcher *)

\* Fault to try on Persist: a failed write leaves no position.
PersistClearing(p, ok) == db' = IF ok THEN p ELSE NoPos

\* A failed UPDATE is logged and forgotten.
Persist(p, ok) == db' = IF ok THEN p ELSE db

\* Faults to try on StartPositions: the master is asked every time; the watcher
\* resumes at the beginning of the file.
StartFromMaster == MasterPositions
StartOfFile == IF db # NoPos THEN {At(db.file, 1)} ELSE MasterPositions

\* decideStartPosition, with the query of the master's position it may ask for.
StartPositions == IF db # NoPos THEN {db} ELSE MasterPositions

Init ==
  /\ phase = "down" /\ pc = "read"
  /\ tracker = NewTracker(NoPos) /\ elapsed = 0
  /\ db = NoPos
  /\ cursor = NoPos /\ pre = "none" /\ mapped = FALSE
  /\ emitted = {} /\ discarded = {} /\ origin = NoPos
  /\ faults = 0 /\ reconnects = 0

\* Start: resumes or asks the master, persists where it begins, syncs.  When
\* StartSync fails the position is already written and the watcher ends.
Start ==
  /\ phase = "down"
  /\ \E p \in StartPositions, saved, synced \in BOOLEAN :
       /\ Spend(Cost(saved) + Cost(synced))
       /\ Persist(p, saved)
       /\ origin' = IF db = NoPos THEN p ELSE origin
       /\ IF synced
            THEN /\ phase' = "run" /\ pc' = "read"
                 /\ tracker' = NewTracker(p) /\ elapsed' = 0
                 /\ cursor' = p /\ pre' = "rotate" /\ mapped' = FALSE
            ELSE UNCHANGED <<phase, pc, tracker, elapsed, stream>>
  /\ UNCHANGED history

\* A TableMapEvent is what lets go-mysql decode the row events that follow it.
Undecodable(p) == IsRows(p) /\ ~mapped

\* The next event of the stream is one of those.
CannotDecode == pre = "none" /\ Undecodable(cursor)

\* One round of the loop up to HandleEvent, for an event of the log that is not
\* a rotation.  Only row events have a strategy; their ids are derived from the
\* tracker's current position, not yet moved past the event.
Handle ==
  /\ Running("read") /\ pre = "none"
  /\ HasEvent(cursor) /\ Kind(cursor) # "rotate" /\ ~Undecodable(cursor)
  /\ pc' = "observe"
  /\ mapped' = (mapped \/ Kind(cursor) = "tablemap")
  /\ IF IsRows(cursor)
       THEN \/ /\ emitted' = emitted \cup {[at |-> cursor, id |-> tracker.current]}
               /\ UNCHANGED <<discarded, bounds>>
            \/ /\ discarded' = discarded \cup {cursor}
               /\ Spend(1) /\ UNCHANGED emitted
       ELSE UNCHANGED <<history, bounds>>
  /\ UNCHANGED <<phase, tracker, elapsed, db, cursor, pre, origin>>

\* The rest of the round: Observe, and the save it may ask for.
Observe ==
  /\ Running("observe")
  /\ pc' = "read"
  /\ tracker' = ObserveEvent(tracker, Kind(cursor), LogPos(cursor))
  /\ cursor' = After(cursor)
  /\ IF FlushDue(Kind(cursor))
       THEN /\ elapsed' = 0
            /\ \E ok \in BOOLEAN : Persist(tracker'.safe, ok) /\ Spend(Cost(ok))
       ELSE UNCHANGED <<elapsed, db, bounds>>
  /\ UNCHANGED <<phase, pre, mapped, history, origin>>

\* The round of a RotateEvent: it is observed without being handled, and its
\* position is saved at once unless a transaction is open.
RotateTo(next) ==
  /\ tracker' = ObserveRotate(tracker, next)
  /\ IF tracker.inTx
       THEN UNCHANGED <<elapsed, db, bounds>>
       ELSE /\ elapsed' = 0
            /\ \E ok \in BOOLEAN : Persist(next, ok) /\ Spend(Cost(ok))
  /\ UNCHANGED <<phase, pc, mapped, history, origin>>

\* The rotation that ends a file of the log.
Rotate ==
  /\ Running("read") /\ pre = "none"
  /\ HasEvent(cursor) /\ Kind(cursor) = "rotate"
  /\ RotateTo(NextFile(cursor))
  /\ cursor' = NextFile(cursor) /\ pre' = "rotate"

\* The rotation the server makes up whenever it starts to send from a position.
\* In the middle of a file a made-up FormatDescriptionEvent follows.
ArtificialRotate ==
  /\ Running("read") /\ pre = "rotate"
  /\ RotateTo(cursor)
  /\ pre' = IF cursor.pos = 1 THEN "none" ELSE "fde"
  /\ UNCHANGED cursor

\* That FormatDescriptionEvent has LogPos 0 and goes through Observe's default
\* branch like any other event.
ArtificialFDE ==
  /\ Running("read") /\ pre = "fde"
  /\ tracker' = ObserveEvent(tracker, "other", 0)
  /\ pre' = "none"
  /\ UNCHANGED <<phase, pc, elapsed, db, cursor, mapped, history, origin, bounds>>

\* GetEvent times out after 2s, or ev is nil: another round.
Timeout == Running("read") /\ UNCHANGED vars

\* ctx is cancelled by SIGTERM: the safe position is persisted.
Shutdown ==
  /\ Running("read")
  /\ phase' = "down"
  /\ \E ok \in BOOLEAN : Persist(tracker.safe, ok) /\ Spend(1 + Cost(ok))
  /\ UNCHANGED <<pc, tracker, elapsed, stream, history, origin>>

\* GetEvent returns an error, and the watcher ends once it has persisted the safe
\* position.  The connection may be lost at any moment; a row event without its
\* TableMap is an error every time ("no corresponding table map event").
StreamError ==
  /\ Running("read")
  /\ phase' = "down"
  /\ \E ok \in BOOLEAN :
       Persist(tracker.safe, ok) /\ Spend(Cost(CannotDecode) + Cost(ok))
  /\ UNCHANGED <<pc, tracker, elapsed, stream, history, origin>>

\* The process dies, between any two steps.
Crash ==
  /\ phase = "run"
  /\ phase' = "down"
  /\ Spend(1)
  /\ UNCHANGED <<pc, tracker, elapsed, db, stream, history, origin>>

-----------------------------------------------------------------------------
(* The environment *)

\* The clock of now.Sub(t.lastFlush).
Tick ==
  /\ phase = "run" /\ elapsed < FlushInterval
  /\ elapsed' = elapsed + 1
  /\ UNCHANGED <<phase, pc, tracker, db, stream, history, origin, bounds>>

\* A file the master left without a rotation ends; the server goes on to the next.
EndOfFile ==
  /\ Running("read") /\ pre = "none"
  /\ AtEndOfFile(cursor) /\ cursor.file < Len(Log)
  /\ cursor' = NextFile(cursor) /\ pre' = "rotate"
  /\ UNCHANGED <<phase, pc, tracker, elapsed, db, mapped, history, origin, bounds>>

\* The syncer loses the connection and resumes by itself from its next event,
\* wherever that is.
Reconnect ==
  /\ Running("read") /\ pre = "none"
  /\ reconnects < MaxReconnects /\ reconnects' = reconnects + 1
  /\ pre' = "rotate"
  /\ UNCHANGED <<phase, pc, tracker, elapsed, db, cursor, mapped, history, origin, faults>>

Next ==
  \/ Start \/ Handle \/ Observe \/ Rotate \/ ArtificialRotate \/ ArtificialFDE
  \/ Timeout \/ Shutdown \/ StreamError \/ Crash
  \/ Tick \/ EndOfFile \/ Reconnect

\* The orchestrator restarts the process (restart: unless-stopped), the loop
\* never stops turning, the server keeps sending, and a stream that cannot be
\* decoded does fail.
Fairness ==
  /\ WF_vars(Start)
  /\ WF_vars(Handle \/ Observe \/ Rotate \/ ArtificialRotate \/ ArtificialFDE)
  /\ WF_vars(EndOfFile)
  /\ WF_vars(CannotDecode /\ StreamError)

Spec == Init /\ [][Next]_vars

FairSpec == Spec /\ Fairness

-----------------------------------------------------------------------------
(* Properties *)

Emissions == [at : RowEvents, id : Position]

\* The types, and the counters within their bounds.
TypeOK ==
  /\ phase \in {"down", "run"} /\ pc \in {"read", "observe"}
  /\ tracker \in Tracker
  /\ elapsed \in 0 .. FlushInterval
  /\ db \in Position
  /\ cursor \in Position /\ pre \in {"none", "rotate", "fde"} /\ mapped \in BOOLEAN
  /\ emitted \subseteq Emissions
  /\ discarded \subseteq RowEvents
  /\ origin \in Position
  /\ faults \in 0 .. MaxFaults /\ reconnects \in 0 .. MaxReconnects

Attempted == {x.at : x \in emitted} \cup discarded

\* No restart skips a change: every row event between where the watcher began
\* and the persisted position went through HandleEvent, whatever crashed, failed
\* or reconnected on the way.
NothingSkipped ==
  \A e \in RowEvents : ~Before(e, origin) /\ Before(e, db) => e \in Attempted

\* position.go: resuming between a TableMapEvent and its RowsEvent makes go-mysql
\* fail at every restart, so the persisted position never points at row events.
SavedResumable == ~IsRows(db)

\* position.go: "Só posições em fronteira de transação são salvas" - the
\* persisted position never splits a transaction.  This is for logs without SAVEPOINT:
\* Observe takes that Query for a boundary, which SavedResumable survives.
SavedAtBoundary == db # NoPos => ~InsideTx(db)

\* Row events that are handled again derive their ids from the position they
\* derived them from before: that is what lets Redis recognise them.
StableIds == \A x, y \in emitted : x.at = y.at => x.id = y.id

\* Two row events never derive their ids from one position: Redis would take the
\* second for a repetition of the first and drop it.
DistinctIds == \A x, y \in emitted : x.id = y.id => x.at = y.at

\* A restart never goes further back than a position already persisted, and a
\* server that was listened to once is never again started from the master's
\* position.
NeverRewinds == [][db # NoPos => ~Before(db', db)]_db

\* Once a position is persisted every row event after it is eventually handled:
\* no sequence of failures leaves the watcher restarting in the same place.
EventuallyHandled ==
  \A e \in RowEvents :
    (db # NoPos /\ ~Before(e, db)) ~> (e \in Attempted)

\* A position as the number of changes a restart from it skips.
Rank(p) == Cardinality({e \in RowEvents : Before(e, p)})

Reader == INSTANCE Replay WITH
  N <- Cardinality(RowEvents),
  live <- phase = "run",
  next <- Rank(IF pc = "observe" THEN After(cursor) ELSE cursor),
  saved <- IF db = NoPos THEN -1 ELSE Rank(db),
  first <- Rank(origin),
  done <- {Rank(e) + 1 : e \in Attempted}

\* The watcher is such a reader of the row events, at the grain of its own steps:
\* artificial events, reconnections and the tracker's bookkeeping never show.
ImplementsReplay == Reader!Spec
=============================================================================
