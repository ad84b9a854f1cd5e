--------------------------- MODULE Watcher_proofs ---------------------------
(***************************************************************************)
(* Theorems about Watcher, for every log the server may write and every    *)
(* bound on failures: what is persisted never skips a change, never stops  *)
(* a restart from decoding, and never goes back.                           *)
(***************************************************************************)
EXTENDS Watcher, FiniteSetTheorems, TLAPS

AtOrBefore(a, b) == ~Before(b, a)

\* What holds of the loop between two of its steps: what the tracker takes for a
\* boundary lies between the persisted position and the next event, every change
\* before that event went through HandleEvent, and with no transaction open the
\* next event is not a row event.
Session ==
  /\ pre # "rotate" => tracker.current.file = cursor.file
  /\ pc = "observe" =>
       /\ pre = "none"
       /\ HasEvent(cursor) /\ Kind(cursor) # "rotate"
       /\ IsRows(cursor) => cursor \in Attempted
  /\ AtOrBefore(tracker.safe, cursor)
  /\ AtOrBefore(db, tracker.safe)
  /\ ~IsRows(tracker.safe)
  /\ pc = "read" /\ ~tracker.inTx => ~IsRows(cursor)
  /\ \A e \in RowEvents : ~Before(e, origin) /\ Before(e, cursor) => e \in Attempted

\* The inductive invariant.
IInv ==
  /\ TypeOK
  /\ phase = "run" => Session
  /\ NothingSkipped
  /\ SavedResumable

-----------------------------------------------------------------------------
(* Positions *)

\* Positions are totally ordered.
LEMMA BeforeOrder ==
  ASSUME NEW a \in Position, NEW b \in Position, NEW c \in Position
  PROVE  /\ AtOrBefore(a, a)
         /\ AtOrBefore(a, b) /\ AtOrBefore(b, c) => AtOrBefore(a, c)
         /\ Before(a, b) /\ AtOrBefore(b, c) => Before(a, c)
         /\ AtOrBefore(a, b) => Before(a, b) \/ a = b
  BY DEF AtOrBefore, Before, Position

\* A log is a sequence of files, files are sequences of kinds.
LEMMA LogShape ==
  /\ \A f \in DOMAIN Log : f \in Nat /\ f >= 1 /\ f <= Len(Log)
  /\ \A f \in Nat : f >= 1 /\ f <= Len(Log) => f \in DOMAIN Log
  /\ \A f \in DOMAIN Log : Len(Log[f]) \in Nat /\ DOMAIN Log[f] = 1 .. Len(Log[f])
  BY LogAssumption

\* Row events are positions of the log, after the start of their file.
LEMMA RowEventsShape ==
  ASSUME NEW e \in RowEvents
  PROVE  /\ e \in Position /\ IsRows(e)
         /\ e.file \in DOMAIN Log /\ e.pos \in 1 .. Len(Log[e.file]) /\ e.pos > 1
         /\ Log[e.file][e.pos - 1] \in {"tablemap", "rows"}
<1>1. PICK f \in DOMAIN Log : \E i \in DOMAIN Log[f] : e = At(f, i)
  BY DEF RowEvents, Events
<1>2. PICK i \in DOMAIN Log[f] : e = At(f, i)
  BY <1>1
<1>3. e.file = f /\ e.pos = i /\ IsRows(e)
  BY <1>2 DEF At, RowEvents
<1>4. f \in Nat /\ i \in 1 .. Len(Log[f]) /\ Len(Log[f]) \in Nat
  BY <1>2, LogShape
<1>5. e \in Position
  BY <1>2, <1>4 DEF At, Position
<1>6. Log[f][i] = "rows"
  BY <1>3 DEF IsRows, Kind
<1> QED
  BY <1>2, <1>3, <1>4, <1>5, <1>6, LogAssumption

\* A position that holds rows is a row event.
LEMMA IsRowsInEvents ==
  ASSUME NEW p \in Position, IsRows(p)
  PROVE  p \in RowEvents
<1>1. p = At(p.file, p.pos)
  BY DEF Position, At
<1> QED
  BY <1>1 DEF IsRows, HasEvent, RowEvents, Events

\* What follows an event that is neither a TableMap nor rows is not rows.
LEMMA AfterNotRows ==
  ASSUME NEW p \in Position, HasEvent(p), Kind(p) \notin {"tablemap", "rows"}
  PROVE  ~IsRows(After(p))
<1>1. SUFFICES ASSUME IsRows(After(p)) PROVE FALSE
  OBVIOUS
<1>2. After(p) \in Position /\ After(p).file = p.file /\ After(p).pos = p.pos + 1
  BY DEF After, At, LogPos, Position
<1>3. Log[p.file][(p.pos + 1) - 1] \in {"tablemap", "rows"}
  BY <1>1, <1>2, IsRowsInEvents, RowEventsShape
<1>4. (p.pos + 1) - 1 = p.pos
  BY DEF Position
<1> QED
  BY <1>3, <1>4 DEF Kind

\* A file does not begin with rows.
LEMMA NextFileNotRows ==
  ASSUME NEW p \in Position
  PROVE  NextFile(p) \in Position /\ ~IsRows(NextFile(p))
<1>1. NextFile(p) \in Position /\ NextFile(p).pos = 1
  BY DEF NextFile, At, Position
<1> QED
  BY <1>1, IsRowsInEvents, RowEventsShape

\* The master commits whole transactions: its position never points at rows.
LEMMA MasterNotRows ==
  ASSUME NEW p \in MasterPositions
  PROVE  p \in Position /\ ~IsRows(p)
<1>1. PICK f \in DOMAIN Log : \E i \in 1 .. Len(Log[f]) + 1 : p = At(f, i)
  BY DEF MasterPositions
<1>2. p \in Position
  BY <1>1, LogShape DEF At, Position
<1>3. ASSUME IsRows(p) PROVE FALSE
  <2>1. /\ p.pos \in Nat /\ p.pos > 1
        /\ Log[p.file][p.pos - 1] \in {"tablemap", "rows"}
    BY <1>2, <1>3, IsRowsInEvents, RowEventsShape DEF Position
  <2>2. p.pos - 1 \in 1 .. p.pos - 1 /\ \A j \in (p.pos - 1) + 1 .. p.pos - 1 : FALSE
    BY <2>1
  <2>3. InsideTx(p)
    BY <2>1, <2>2 DEF InsideTx
  <2> QED
    BY <2>3 DEF MasterPositions
<1> QED
  BY <1>2, <1>3

\* Between an event and the next there is no change but the event itself.
LEMMA AfterCovers ==
  ASSUME NEW p \in Position, NEW e \in RowEvents, Before(e, After(p))
  PROVE  Before(e, p) \/ e = p
  BY RowEventsShape DEF After, At, LogPos, Before, Position

\* Between the last event of a file and the next file there is no change.
LEMMA NextFileCovers ==
  ASSUME NEW p \in Position, NEW e \in RowEvents, Before(e, NextFile(p)),
         \/ AtEndOfFile(p)
         \/ HasEvent(p) /\ Kind(p) = "rotate"
  PROVE  Before(e, p)
<1>1. e \in Position /\ e.pos \in 1 .. Len(Log[e.file]) /\ e.file \in DOMAIN Log
  BY RowEventsShape
<1>2. e.file < p.file \/ e.file = p.file
  BY <1>1 DEF NextFile, At, Before, Position
<1>3. CASE e.file < p.file
  BY <1>3 DEF Before
<1>4. CASE e.file = p.file /\ AtEndOfFile(p)
  BY <1>1, <1>4, LogShape DEF AtEndOfFile, Before, Position
<1>5. CASE e.file = p.file /\ HasEvent(p) /\ Kind(p) = "rotate"
  <2>1. p.pos = Len(Log[p.file])
    BY <1>5, LogAssumption DEF HasEvent, Kind
  <2>2. Log[e.file][e.pos] = "rows"
    BY RowEventsShape DEF IsRows, Kind
  <2>3. e.pos # p.pos
    BY <1>5, <2>2 DEF Kind
  <2> QED
    BY <1>1, <1>5, <2>1, <2>3, LogShape DEF Before, Position
<1> QED
  BY <1>2, <1>3, <1>4, <1>5

\* Moving on from an event moves forward.
LEMMA Forward ==
  ASSUME NEW p \in Position
  PROVE  /\ After(p) \in Position /\ NextFile(p) \in Position
         /\ AtOrBefore(p, After(p)) /\ AtOrBefore(p, NextFile(p))
  BY DEF After, NextFile, At, LogPos, AtOrBefore, Before, Position

-----------------------------------------------------------------------------
(* positionTracker *)

\* Observe on an event that is not a rotation: the position moves to its end, the
\* boundary follows only when the event closes a transaction, and the events of
\* a row group leave the transaction open.
LEMMA ObserveEventFacts ==
  ASSUME NEW t \in Tracker, NEW kind, NEW l \in Nat
  PROVE  LET u == ObserveEvent(t, kind, l) IN
         /\ u \in Tracker
         /\ u.current = At(t.current.file, l)
         /\ \/ u.safe = t.safe
            \/ u.safe = u.current /\ kind \notin {"tablemap", "rows", "other"}
         /\ FlushDue(kind) => u.safe = u.current
         /\ kind \in {"tablemap", "rows"} => u.inTx
         /\ kind = "other" => u.inTx = t.inTx
<1> DEFINE moved == [t EXCEPT !.current.pos = l]
<1>1. /\ moved \in Tracker /\ moved.safe = t.safe /\ moved.inTx = t.inTx
      /\ moved.current = At(t.current.file, l)
  BY DEF Tracker, Position, At
<1>2. CASE kind \in {"xid", "commit", "ddl", "savepoint"}
  <2>1. ObserveEvent(t, kind, l) = CloseTx(moved)
    BY <1>2 DEF ObserveEvent
  <2> HIDE DEF moved
  <2> QED
    BY <1>1, <1>2, <2>1 DEF CloseTx, Tracker
<1>3. CASE kind \in {"begin", "gtid", "tablemap", "rows"}
  <2>1. ObserveEvent(t, kind, l) = [moved EXCEPT !.inTx = TRUE]
    BY <1>3 DEF ObserveEvent
  <2> HIDE DEF moved
  <2> QED
    BY <1>1, <1>3, <2>1 DEF Tracker, FlushDue
<1>4. CASE kind \notin {"xid", "commit", "ddl", "savepoint", "begin", "gtid", "tablemap", "rows"}
  <2>1. ObserveEvent(t, kind, l) = moved
    BY <1>4 DEF ObserveEvent
  <2> HIDE DEF moved
  <2> QED
    BY <1>1, <1>4, <2>1 DEF FlushDue
<1> QED
  BY <1>2, <1>3, <1>4

\* Observe on a rotation: a boundary unless a transaction is open.
LEMMA ObserveRotateFacts ==
  ASSUME NEW t \in Tracker, NEW next \in Position
  PROVE  LET u == ObserveRotate(t, next) IN
         /\ u \in Tracker
         /\ u.current = next /\ u.inTx = t.inTx
         /\ u.safe = IF t.inTx THEN t.safe ELSE next
  BY DEF ObserveRotate, Tracker
-----------------------------------------------------------------------------
(* The invariant *)

\* A watcher that never ran satisfies the invariant (newBinlogWatcher).
THEOREM InitIInv == Init => IInv
<1> SUFFICES ASSUME Init PROVE IInv
  OBVIOUS
<1>1. NoPos \in Position /\ NewTracker(NoPos) \in Tracker
  BY DEF NoPos, At, Position, NewTracker, Tracker
<1>2. TypeOK
  <2>1. 0 \in 0 .. FlushInterval /\ 0 \in 0 .. MaxFaults /\ 0 \in 0 .. MaxReconnects
    BY WatcherAssumption
  <2> QED
    BY <1>1, <2>1 DEF Init, TypeOK
<1>3. ~IsRows(NoPos)
  BY LogShape DEF IsRows, HasEvent, NoPos, At
<1>4. NothingSkipped
  <2> SUFFICES ASSUME NEW e \in RowEvents, Before(e, NoPos) PROVE FALSE
    BY DEF NothingSkipped, Init
  <2> QED
    BY RowEventsShape DEF Before, NoPos, At, Position
<1> QED
  BY <1>2, <1>3, <1>4 DEF IInv, SavedResumable, Init

\* Start: the first event read is the one after the persisted position, or the
\* first the master commits next.
LEMMA StartIInv == IInv /\ Start => IInv'
<1> SUFFICES ASSUME IInv, Start PROVE IInv'
  OBVIOUS
<1> USE DEF Attempted
<1>1. PICK p \in StartPositions, saved \in BOOLEAN, synced \in BOOLEAN :
        /\ Spend(Cost(saved) + Cost(synced))
        /\ Persist(p, saved)
        /\ origin' = IF db = NoPos THEN p ELSE origin
        /\ IF synced
             THEN /\ phase' = "run" /\ pc' = "read"
                  /\ tracker' = NewTracker(p) /\ elapsed' = 0
                  /\ cursor' = p /\ pre' = "rotate" /\ mapped' = FALSE
             ELSE UNCHANGED <<phase, pc, tracker, elapsed, stream>>
  BY DEF Start
<1>2. p \in Position /\ ~IsRows(p) /\ (db # NoPos => p = db)
  BY MasterNotRows DEF StartPositions, IInv, TypeOK, SavedResumable
<1>3. phase = "down" /\ UNCHANGED history
  BY DEF Start
<1>4. Cost(saved) \in 0 .. 1 /\ Cost(synced) \in 0 .. 1
  BY DEF Cost
<1>5. TypeOK'
  <2>1. NewTracker(p) \in Tracker
    BY <1>2 DEF NewTracker, Tracker
  <2>2. faults' \in 0 .. MaxFaults /\ reconnects' \in 0 .. MaxReconnects
    BY <1>1, <1>4, WatcherAssumption DEF IInv, TypeOK, Spend
  <2>3. db' \in Position /\ origin' \in Position
    BY <1>1, <1>2 DEF Persist, IInv, TypeOK
  <2>4. emitted' = emitted /\ discarded' = discarded
    BY <1>3 DEF history
  <2>5. CASE synced
    <3>1. 0 \in 0 .. FlushInterval
      BY WatcherAssumption
    <3> QED
      BY <1>1, <1>2, <2>1, <2>2, <2>3, <2>4, <2>5, <3>1 DEF IInv, TypeOK
  <2>6. CASE ~synced
    BY <1>1, <2>2, <2>3, <2>4, <2>6 DEF IInv, TypeOK, stream
  <2> QED
    BY <2>5, <2>6
<1>6. SavedResumable'
  BY <1>1, <1>2 DEF Persist, IInv, SavedResumable, IsRows, HasEvent, Kind
<1>7. \A e \in RowEvents : ~Before(e, origin') /\ Before(e, p) => e \in Attempted'
  BY <1>1, <1>2, <1>3 DEF IInv, NothingSkipped, history
<1>8. NothingSkipped'
  <2> SUFFICES ASSUME NEW e \in RowEvents, ~Before(e, origin'), Before(e, db')
               PROVE  e \in Attempted'
    BY DEF NothingSkipped
  <2>1. CASE db' = p
    BY <1>7, <2>1
  <2>2. CASE db' = db /\ db = NoPos
    BY <2>2, RowEventsShape DEF Before, NoPos, At, Position
  <2>3. CASE db' = db /\ db # NoPos
    BY <1>2, <1>7, <2>3
  <2> QED
    BY <1>1, <2>1, <2>2, <2>3 DEF Persist
<1>9. ASSUME phase' = "run" PROVE Session'
  <2>1. /\ pc' = "read" /\ tracker' = NewTracker(p)
        /\ cursor' = p /\ pre' = "rotate"
    BY <1>1, <1>3, <1>9
  <2>2. tracker'.safe = p
    BY <2>1 DEF NewTracker
  <2>3. AtOrBefore(p, p) /\ AtOrBefore(db', p)
    <3>1. db' = p \/ db' = NoPos
      BY <1>1, <1>2 DEF Persist
    <3> QED
      BY <1>2, <3>1 DEF AtOrBefore, Before, Position, NoPos, At
  <2>4. \A e \in RowEvents : ~Before(e, origin') /\ Before(e, cursor') => e \in Attempted'
    BY <1>7, <2>1
  <2> QED
    BY <1>2, <2>1, <2>2, <2>3, <2>4 DEF Session, IsRows, HasEvent, Kind
<1> QED
  BY <1>5, <1>6, <1>8, <1>9 DEF IInv

\* Handle: the event at the cursor joins those that were attempted.
LEMMA HandleIInv == IInv /\ Handle => IInv'
<1> SUFFICES ASSUME IInv, Handle PROVE IInv'
  OBVIOUS
<1>1. /\ phase = "run" /\ pc = "read" /\ pre = "none" /\ pc' = "observe"
      /\ HasEvent(cursor) /\ Kind(cursor) # "rotate"
      /\ UNCHANGED <<phase, tracker, elapsed, db, cursor, pre, origin>>
  BY DEF Handle, Running
<1>2. TypeOK /\ Session /\ NothingSkipped /\ SavedResumable
  BY <1>1 DEF IInv
<1>3. IsRows(cursor) => cursor \in RowEvents
  BY <1>2, IsRowsInEvents DEF TypeOK
<1>4. /\ emitted' \subseteq Emissions /\ discarded' \subseteq RowEvents
      /\ Attempted \subseteq Attempted'
      /\ IsRows(cursor) => cursor \in Attempted'
      /\ faults' \in 0 .. MaxFaults /\ reconnects' \in 0 .. MaxReconnects
  <2>1. CASE ~IsRows(cursor)
    BY <1>2, <2>1 DEF Handle, history, bounds, TypeOK, Attempted
  <2>2. CASE IsRows(cursor) /\ emitted' = emitted \cup {[at |-> cursor, id |-> tracker.current]}
             /\ UNCHANGED <<discarded, bounds>>
    <3>1. [at |-> cursor, id |-> tracker.current] \in Emissions
      BY <1>2, <1>3, <2>2 DEF Emissions, TypeOK, Tracker
    <3> QED
      BY <1>2, <2>2, <3>1 DEF bounds, TypeOK, Attempted
  <2>3. CASE IsRows(cursor) /\ discarded' = discarded \cup {cursor} /\ Spend(1) /\ UNCHANGED emitted
    BY <1>2, <1>3, <2>3, WatcherAssumption DEF Spend, TypeOK, Attempted
  <2> QED
    BY <2>1, <2>2, <2>3 DEF Handle
<1>5. mapped' \in BOOLEAN
  BY <1>2 DEF Handle, TypeOK
<1>6. TypeOK'
  BY <1>1, <1>2, <1>4, <1>5 DEF TypeOK
<1>7. NothingSkipped' /\ SavedResumable'
  BY <1>1, <1>2, <1>4 DEF NothingSkipped, SavedResumable, IsRows, HasEvent, Kind
<1>8. Session'
  BY <1>1, <1>2, <1>4 DEF Session, IsRows, HasEvent, Kind, AtOrBefore
<1> QED
  BY <1>6, <1>7, <1>8 DEF IInv

\* Steps that write the tracker's boundary to SQLite, or fail to, keep what is
\* persisted sound.
LEMMA PersistSound ==
  ASSUME IInv, phase = "run",
         NEW p \in Position, ~IsRows(p),
         \A e \in RowEvents : ~Before(e, origin) /\ Before(e, p) => e \in Attempted,
         db' = p \/ db' = db,
         UNCHANGED <<history, origin>>
  PROVE  NothingSkipped' /\ SavedResumable' /\ db' \in Position
<1>1. Attempted' = Attempted /\ origin' = origin
  BY DEF history, Attempted
<1>2. db' \in Position /\ ~IsRows(db')
  BY DEF IInv, TypeOK, SavedResumable
<1>3. \A e \in RowEvents : ~Before(e, origin) /\ Before(e, db') => e \in Attempted
  BY DEF IInv, NothingSkipped
<1> QED
  BY <1>1, <1>2, <1>3 DEF NothingSkipped, SavedResumable

\* What lies before a boundary was attempted, since it lies before the next event.
LEMMA SafeCovered ==
  ASSUME IInv, phase = "run"
  PROVE  /\ tracker.safe \in Position /\ ~IsRows(tracker.safe)
         /\ \A e \in RowEvents :
              ~Before(e, origin) /\ Before(e, tracker.safe) => e \in Attempted
<1>1. TypeOK /\ Session
  BY DEF IInv
<1>2. tracker.safe \in Position /\ cursor \in Position
  BY <1>1 DEF TypeOK, Tracker
<1>3. ASSUME NEW e \in RowEvents, Before(e, tracker.safe) PROVE Before(e, cursor)
  BY <1>1, <1>2, <1>3, RowEventsShape, BeforeOrder DEF Session
<1> QED
  BY <1>1, <1>2, <1>3 DEF Session

\* The spent faults stay within their bounds.
LEMMA SpendType ==
  ASSUME TypeOK, NEW n \in Nat, Spend(n)
  PROVE  faults' \in 0 .. MaxFaults /\ reconnects' \in 0 .. MaxReconnects
  BY WatcherAssumption DEF Spend, TypeOK

\* Observe: the cursor moves past the event, and the boundary with it when the
\* event closes a transaction.
LEMMA ObserveIInv == IInv /\ Observe => IInv'
<1> SUFFICES ASSUME IInv, Observe PROVE IInv'
  OBVIOUS
<1> DEFINE kind == Kind(cursor)
           u == ObserveEvent(tracker, kind, LogPos(cursor))
<1>1. /\ phase = "run" /\ pc = "observe" /\ pc' = "read"
      /\ tracker' = u /\ cursor' = After(cursor)
      /\ UNCHANGED <<phase, pre, mapped, history, origin>>
  BY DEF Observe, Running
<1>2. TypeOK /\ Session /\ NothingSkipped /\ SavedResumable
  BY <1>1 DEF IInv
<1>3. /\ pre = "none" /\ HasEvent(cursor) /\ Kind(cursor) # "rotate"
      /\ IsRows(cursor) => cursor \in Attempted
      /\ tracker.current.file = cursor.file
  BY <1>1, <1>2 DEF Session
<1>4. tracker \in Tracker /\ cursor \in Position /\ LogPos(cursor) \in Nat
  BY <1>2 DEF TypeOK, LogPos, Position
<1>5. /\ u \in Tracker
      /\ u.current = After(cursor)
      /\ \/ u.safe = tracker.safe
         \/ u.safe = u.current /\ kind \notin {"tablemap", "rows", "other"}
      /\ kind \in {"tablemap", "rows"} => u.inTx
  BY <1>3, <1>4, ObserveEventFacts DEF After
<1>6. Attempted' = Attempted /\ origin' = origin
  BY <1>1 DEF history, Attempted
<1>7. After(cursor) \in Position /\ AtOrBefore(cursor, After(cursor))
  BY <1>4, Forward
<1>8. kind \notin {"tablemap", "rows"} => ~IsRows(After(cursor))
  BY <1>3, <1>4, AfterNotRows
<1>9. \A e \in RowEvents : ~Before(e, origin) /\ Before(e, After(cursor)) => e \in Attempted
  BY <1>2, <1>3, <1>4, AfterCovers, RowEventsShape DEF Session
<1>10. ~IsRows(u.safe) /\ u.safe \in Position
  BY <1>2, <1>4, <1>5, <1>7, <1>8 DEF Session, Tracker
<1>11. AtOrBefore(tracker.safe, u.safe) /\ AtOrBefore(u.safe, After(cursor))
  <2>1. tracker.safe \in Position /\ AtOrBefore(tracker.safe, cursor)
    BY <1>2, <1>4 DEF Session, Tracker
  <2> QED
    BY <1>4, <1>5, <1>7, <2>1, BeforeOrder
<1>12. \A e \in RowEvents : ~Before(e, origin) /\ Before(e, u.safe) => e \in Attempted
  BY <1>7, <1>9, <1>10, <1>11, RowEventsShape, BeforeOrder
<1>13. db' = u.safe \/ db' = db
  BY <1>1 DEF Observe, Persist
<1>14. NothingSkipped' /\ SavedResumable' /\ db' \in Position
  BY <1>1, <1>10, <1>12, <1>13, PersistSound
<1>15. /\ elapsed' \in 0 .. FlushInterval
       /\ faults' \in 0 .. MaxFaults /\ reconnects' \in 0 .. MaxReconnects
  <2>1. CASE FlushDue(kind)
    <3>1. PICK ok \in BOOLEAN : Spend(Cost(ok)) /\ elapsed' = 0
      BY <2>1 DEF Observe
    <3>2. Cost(ok) \in Nat
      BY DEF Cost
    <3> QED
      BY <1>2, <3>1, <3>2, SpendType, WatcherAssumption
  <2>2. CASE ~FlushDue(kind)
    BY <1>2, <2>2 DEF Observe, TypeOK, bounds
  <2> QED
    BY <2>1, <2>2
<1>16. TypeOK'
  BY <1>1, <1>2, <1>5, <1>7, <1>14, <1>15 DEF TypeOK, history
<1>17. AtOrBefore(db', u.safe)
  <2>1. AtOrBefore(db, tracker.safe) /\ db \in Position /\ tracker.safe \in Position
    BY <1>2, <1>4 DEF Session, TypeOK, Tracker
  <2> QED
    BY <1>10, <1>11, <1>13, <2>1, BeforeOrder
<1>18. u.current.file = After(cursor).file
  BY <1>5
<1>19. ~u.inTx => ~IsRows(After(cursor))
  BY <1>5, <1>8
<1> HIDE DEF u, kind
<1>20. Session'
  <2>1. ~IsRows(tracker'.safe) /\ (~tracker'.inTx => ~IsRows(cursor'))
    BY <1>1, <1>10, <1>19
  <2>2. AtOrBefore(tracker'.safe, cursor') /\ AtOrBefore(db', tracker'.safe)
    BY <1>1, <1>11, <1>17
  <2>3. \A e \in RowEvents : ~Before(e, origin') /\ Before(e, cursor') => e \in Attempted'
    BY <1>1, <1>6, <1>9
  <2>4. pc' = "read" /\ tracker'.current.file = cursor'.file
    BY <1>1, <1>18
  <2> QED
    BY <2>1, <2>2, <2>3, <2>4 DEF Session, IsRows, HasEvent, Kind, AtOrBefore
<1> QED
  BY <1>14, <1>16, <1>20 DEF IInv

\* A rotation to a position no change precedes but those before the cursor.
LEMMA RotateToIInv ==
  ASSUME IInv, Running("read"), pre # "rotate" \/ cursor' = cursor,
         NEW next \in Position, RotateTo(next), cursor' = next,
         pre' \in {"none", "rotate", "fde"},
         ~tracker.inTx => ~IsRows(next),
         AtOrBefore(cursor, next),
         \A e \in RowEvents : Before(e, next) => Before(e, cursor)
  PROVE  IInv'
<1> DEFINE u == ObserveRotate(tracker, next)
<1>1. /\ phase = "run" /\ pc = "read" /\ TypeOK /\ Session
      /\ NothingSkipped /\ SavedResumable
  BY DEF IInv, Running
<1>2. /\ tracker' = u
      /\ UNCHANGED <<phase, pc, mapped, history, origin>>
  BY DEF RotateTo
<1>3. tracker \in Tracker /\ cursor \in Position /\ db \in Position
  BY <1>1 DEF TypeOK
<1>4. /\ u \in Tracker /\ u.current = next /\ u.inTx = tracker.inTx
      /\ u.safe = IF tracker.inTx THEN tracker.safe ELSE next
  BY <1>3, ObserveRotateFacts
<1>5. Attempted' = Attempted /\ origin' = origin
  BY <1>2 DEF history, Attempted
<1>6. \A e \in RowEvents : ~Before(e, origin) /\ Before(e, next) => e \in Attempted
  BY <1>1 DEF Session
<1>7. /\ db' = next \/ db' = db
      /\ tracker.inTx => db' = db
      /\ elapsed' \in 0 .. FlushInterval
      /\ faults' \in 0 .. MaxFaults /\ reconnects' \in 0 .. MaxReconnects
  <2>1. CASE tracker.inTx
    BY <1>1, <2>1 DEF RotateTo, bounds, TypeOK
  <2>2. CASE ~tracker.inTx
    <3>1. PICK ok \in BOOLEAN : Persist(next, ok) /\ Spend(Cost(ok)) /\ elapsed' = 0
      BY <2>2 DEF RotateTo
    <3>2. Cost(ok) \in Nat
      BY DEF Cost
    <3> QED
      BY <1>1, <2>2, <3>1, <3>2, SpendType, WatcherAssumption DEF Persist
  <2> QED
    BY <2>1, <2>2
<1>8. u.safe \in Position /\ ~IsRows(u.safe)
  BY <1>1, <1>3, <1>4 DEF Session, Tracker
<1>9. AtOrBefore(u.safe, next) /\ AtOrBefore(db', u.safe)
  <2>1. /\ tracker.safe \in Position
        /\ AtOrBefore(tracker.safe, cursor) /\ AtOrBefore(db, tracker.safe)
    BY <1>1, <1>3 DEF Session, Tracker
  <2>2. AtOrBefore(tracker.safe, next) /\ AtOrBefore(db, next) /\ AtOrBefore(next, next)
    BY <1>3, <2>1, BeforeOrder
  <2> QED
    BY <1>4, <1>7, <2>1, <2>2
<1>10. NothingSkipped' /\ SavedResumable' /\ db' \in Position
  <2>1. CASE db' = db
    BY <1>1, <1>2, <2>1, SafeCovered, PersistSound
  <2>2. CASE db' = next /\ ~tracker.inTx
    BY <1>1, <1>2, <1>6, <2>2, PersistSound
  <2> QED
    BY <1>7, <2>1, <2>2
<1>11. TypeOK'
  BY <1>1, <1>2, <1>4, <1>7, <1>10 DEF TypeOK, history
<1>12. ~u.inTx => ~IsRows(next)
  BY <1>4
<1> HIDE DEF u
<1>13. Session'
  <2>1. ~IsRows(tracker'.safe) /\ (~tracker'.inTx => ~IsRows(cursor'))
    BY <1>2, <1>8, <1>12
  <2>2. AtOrBefore(tracker'.safe, cursor') /\ AtOrBefore(db', tracker'.safe)
    BY <1>2, <1>9
  <2>3. \A e \in RowEvents : ~Before(e, origin') /\ Before(e, cursor') => e \in Attempted'
    BY <1>5, <1>6
  <2>4. pc' = "read" /\ tracker'.current.file = cursor'.file
    BY <1>1, <1>2, <1>4
  <2> QED
    BY <2>1, <2>2, <2>3, <2>4 DEF Session, IsRows, HasEvent, Kind, AtOrBefore
<1> QED
  BY <1>10, <1>11, <1>13 DEF IInv

\* Rotate: the next file begins where no change lies in between.
LEMMA RotateIInv == IInv /\ Rotate => IInv'
<1> SUFFICES ASSUME IInv, Rotate PROVE IInv'
  OBVIOUS
<1>1. cursor \in Position
  BY DEF IInv, TypeOK
<1>2. \A e \in RowEvents : Before(e, NextFile(cursor)) => Before(e, cursor)
  BY <1>1, NextFileCovers DEF Rotate
<1>3. /\ Running("read") /\ pre # "rotate" /\ RotateTo(NextFile(cursor))
      /\ cursor' = NextFile(cursor) /\ pre' = "rotate"
  BY DEF Rotate
<1> QED
  BY <1>1, <1>2, <1>3, Forward, NextFileNotRows, RotateToIInv

\* ArtificialRotate: the cursor stays, and the boundary is at most the cursor.
LEMMA ArtificialRotateIInv == IInv /\ ArtificialRotate => IInv'
<1> SUFFICES ASSUME IInv, ArtificialRotate PROVE IInv'
  OBVIOUS
<1>1. cursor \in Position /\ AtOrBefore(cursor, cursor)
  BY BeforeOrder DEF IInv, TypeOK
<1>2. ~tracker.inTx => ~IsRows(cursor)
  BY DEF IInv, ArtificialRotate, Running, Session
<1>3. /\ Running("read") /\ RotateTo(cursor) /\ cursor' = cursor
      /\ pre' \in {"none", "rotate", "fde"}
  BY DEF ArtificialRotate
<1> QED
  BY <1>1, <1>2, <1>3, RotateToIInv

\* The steps that leave the tracker's boundary and SQLite alone.
LEMMA ArtificialFDEIInv == IInv /\ ArtificialFDE => IInv'
<1> SUFFICES ASSUME IInv, ArtificialFDE PROVE IInv'
  OBVIOUS
<1> DEFINE u == ObserveEvent(tracker, "other", 0)
<1>1. /\ phase = "run" /\ pc = "read" /\ TypeOK /\ Session
      /\ NothingSkipped /\ SavedResumable
      /\ pre = "fde" /\ pre' = "none" /\ tracker' = u
      /\ UNCHANGED <<phase, pc, elapsed, db, cursor, mapped, history, origin, bounds>>
  BY DEF IInv, ArtificialFDE, Running
<1>2. /\ u \in Tracker /\ u.safe = tracker.safe /\ u.inTx = tracker.inTx
      /\ u.current.file = tracker.current.file
  <2>1. tracker \in Tracker /\ 0 \in Nat
    BY <1>1 DEF TypeOK
  <2>2. /\ u \in Tracker /\ u.current = At(tracker.current.file, 0)
        /\ u.safe = tracker.safe /\ u.inTx = tracker.inTx
    BY <2>1, ObserveEventFacts
  <2> QED
    BY <2>2 DEF At
<1> HIDE DEF u
<1>3. TypeOK'
  BY <1>1, <1>2 DEF TypeOK, history, bounds
<1>4. Attempted' = Attempted
  BY <1>1 DEF history, Attempted
<1>5. NothingSkipped' /\ SavedResumable'
  BY <1>1, <1>4 DEF NothingSkipped, SavedResumable, IsRows, HasEvent, Kind
<1>6. Session'
  BY <1>1, <1>2, <1>4 DEF Session, IsRows, HasEvent, Kind, AtOrBefore
<1> QED
  BY <1>3, <1>5, <1>6 DEF IInv

\* Tick: only the clock moves.
LEMMA TickIInv == IInv /\ Tick => IInv'
<1> SUFFICES ASSUME IInv, Tick PROVE IInv'
  OBVIOUS
<1>1. /\ phase = "run" /\ TypeOK /\ Session /\ NothingSkipped /\ SavedResumable
      /\ elapsed < FlushInterval /\ elapsed' = elapsed + 1
      /\ UNCHANGED <<phase, pc, tracker, db, stream, history, origin, bounds>>
  BY DEF IInv, Tick
<1>2. elapsed' \in 0 .. FlushInterval
  BY <1>1, WatcherAssumption DEF TypeOK
<1>3. TypeOK'
  BY <1>1, <1>2 DEF TypeOK, history, bounds, stream
<1>4. Attempted' = Attempted
  BY <1>1 DEF history, Attempted
<1>5. NothingSkipped' /\ SavedResumable'
  BY <1>1, <1>4 DEF NothingSkipped, SavedResumable, IsRows, HasEvent, Kind
<1>6. Session'
  BY <1>1, <1>4 DEF Session, IsRows, HasEvent, Kind, AtOrBefore, stream
<1> QED
  BY <1>3, <1>5, <1>6 DEF IInv

\* Reconnect: artificial events become due, nothing else changes.
LEMMA ReconnectIInv == IInv /\ Reconnect => IInv'
<1> SUFFICES ASSUME IInv, Reconnect PROVE IInv'
  OBVIOUS
<1>1. /\ phase = "run" /\ pc = "read" /\ TypeOK /\ Session
      /\ NothingSkipped /\ SavedResumable
      /\ reconnects < MaxReconnects /\ reconnects' = reconnects + 1 /\ pre' = "rotate"
      /\ UNCHANGED <<phase, pc, tracker, elapsed, db, cursor, mapped, history, origin, faults>>
  BY DEF IInv, Reconnect, Running
<1>2. reconnects' \in 0 .. MaxReconnects
  BY <1>1, WatcherAssumption DEF TypeOK
<1>3. TypeOK'
  BY <1>1, <1>2 DEF TypeOK, history
<1>4. Attempted' = Attempted
  BY <1>1 DEF history, Attempted
<1>5. NothingSkipped' /\ SavedResumable'
  BY <1>1, <1>4 DEF NothingSkipped, SavedResumable, IsRows, HasEvent, Kind
<1>6. Session'
  BY <1>1, <1>4 DEF Session, IsRows, HasEvent, Kind, AtOrBefore
<1> QED
  BY <1>3, <1>5, <1>6 DEF IInv

\* EndOfFile: the cursor passes to the next file over no change.
LEMMA EndOfFileIInv == IInv /\ EndOfFile => IInv'
<1> SUFFICES ASSUME IInv, EndOfFile PROVE IInv'
  OBVIOUS
<1>1. /\ phase = "run" /\ pc = "read" /\ TypeOK /\ Session
      /\ NothingSkipped /\ SavedResumable
      /\ AtEndOfFile(cursor) /\ cursor' = NextFile(cursor) /\ pre' = "rotate"
      /\ UNCHANGED <<phase, pc, tracker, elapsed, db, mapped, history, origin, bounds>>
  BY DEF IInv, EndOfFile, Running
<1>2. cursor \in Position /\ tracker.safe \in Position
  BY <1>1 DEF TypeOK, Tracker
<1>3. /\ NextFile(cursor) \in Position /\ ~IsRows(NextFile(cursor))
      /\ AtOrBefore(cursor, NextFile(cursor))
  BY <1>2, NextFileNotRows, Forward
<1>4. TypeOK'
  BY <1>1, <1>3 DEF TypeOK, history, bounds
<1>5. Attempted' = Attempted
  BY <1>1 DEF history, Attempted
<1>6. NothingSkipped' /\ SavedResumable'
  BY <1>1, <1>5 DEF NothingSkipped, SavedResumable, IsRows, HasEvent, Kind
<1>7. AtOrBefore(tracker.safe, NextFile(cursor))
  BY <1>1, <1>2, <1>3, BeforeOrder DEF Session
<1>8. \A e \in RowEvents : ~Before(e, origin) /\ Before(e, NextFile(cursor)) => e \in Attempted
  BY <1>1, <1>2, NextFileCovers DEF Session
<1>9. Session'
  BY <1>1, <1>3, <1>5, <1>7, <1>8 DEF Session, IsRows, HasEvent, Kind, AtOrBefore
<1> QED
  BY <1>4, <1>6, <1>9 DEF IInv

\* The watcher ends, with or without a last write of its boundary.
LEMMA DownIInv ==
  ASSUME IInv, phase = "run", phase' = "down",
         \E n \in Nat : Spend(n),
         db' = tracker.safe \/ db' = db,
         UNCHANGED <<pc, tracker, elapsed, stream, history, origin>>
  PROVE  IInv'
<1>1. NothingSkipped' /\ SavedResumable' /\ db' \in Position
  BY SafeCovered, PersistSound
<1>2. faults' \in 0 .. MaxFaults /\ reconnects' \in 0 .. MaxReconnects
  BY SpendType DEF IInv
<1>3. TypeOK'
  BY <1>1, <1>2 DEF IInv, TypeOK, stream, history
<1> QED
  BY <1>1, <1>3 DEF IInv

\* Shutdown, an error of the stream and a crash all end the watcher.
LEMMA EndingIInv ==
  IInv /\ (Shutdown \/ StreamError \/ Crash) => IInv'
<1> SUFFICES ASSUME IInv, Shutdown \/ StreamError \/ Crash PROVE IInv'
  OBVIOUS
<1>1. \A ok \in BOOLEAN :
        1 + Cost(ok) \in Nat /\ Cost(CannotDecode) + Cost(ok) \in Nat
  BY DEF Cost
<1>2. CASE Shutdown
  <2>1. PICK ok \in BOOLEAN : Persist(tracker.safe, ok) /\ Spend(1 + Cost(ok))
    BY <1>2 DEF Shutdown
  <2> QED
    BY <1>1, <1>2, <2>1, DownIInv DEF Shutdown, Running, Persist
<1>3. CASE StreamError
  <2>1. PICK ok \in BOOLEAN :
          Persist(tracker.safe, ok) /\ Spend(Cost(CannotDecode) + Cost(ok))
    BY <1>3 DEF StreamError
  <2> QED
    BY <1>1, <1>3, <2>1, DownIInv DEF StreamError, Running, Persist
<1>4. CASE Crash
  BY <1>4, DownIInv DEF Crash
<1> QED
  BY <1>2, <1>3, <1>4

\* A round without an event (Timeout) changes nothing.
LEMMA StutterIInv == IInv /\ UNCHANGED vars => IInv'
  BY DEF vars, stream, history, bounds, IInv, TypeOK, Session, NothingSkipped,
         SavedResumable, IsRows, HasEvent, Kind, AtOrBefore, Attempted

\* Every step keeps the invariant.
THEOREM NextIInv == IInv /\ [Next]_vars => IInv'
<1> SUFFICES ASSUME IInv, [Next]_vars PROVE IInv'
  OBVIOUS
<1>1. CASE UNCHANGED vars \/ Timeout
  BY <1>1, StutterIInv DEF Timeout
<1> QED
  BY <1>1, StartIInv, HandleIInv, ObserveIInv, RotateIInv, ArtificialRotateIInv,
     ArtificialFDEIInv, EndingIInv, TickIInv, EndOfFileIInv, ReconnectIInv
     DEF Next

-----------------------------------------------------------------------------
(* Theorems *)

\* The invariant holds in every state the watcher reaches, for every log and every
\* bound on the failures (binlog.go, position.go).
THEOREM Invariance == Spec => []IInv
<1> QED
  BY InitIInv, NextIInv, PTL DEF Spec

\* The variables keep their types and the failures their bounds, whatever the log.
THEOREM TypeCorrect == Spec => []TypeOK
<1>1. IInv => TypeOK
  BY DEF IInv
<1> QED
  BY <1>1, Invariance, PTL

\* No restart skips a change (persistPosition, positionTracker): for every log,
\* every place to crash and every number of failures.
THEOREM NeverSkips == Spec => []NothingSkipped
<1>1. IInv => NothingSkipped
  BY DEF IInv
<1> QED
  BY <1>1, Invariance, PTL

\* No restart is persisted where go-mysql could not decode the next event
\* (position.go:11-15), even with SAVEPOINTs and reconnections in a transaction.
THEOREM AlwaysResumable == Spec => []SavedResumable
<1>1. IInv => SavedResumable
  BY DEF IInv
<1> QED
  BY <1>1, Invariance, PTL

\* While the watcher runs, whatever it writes to SQLite lies at its boundary, at
\* its next event or just after it, none of which is before what is persisted.
LEMMA RunningWrites ==
  ASSUME IInv, phase = "run",
         db' \in {db, tracker.safe, cursor, After(cursor), NextFile(cursor)}
  PROVE  AtOrBefore(db, db')
<1>1. /\ db \in Position /\ tracker.safe \in Position /\ cursor \in Position
      /\ AtOrBefore(db, tracker.safe) /\ AtOrBefore(tracker.safe, cursor)
  BY DEF IInv, TypeOK, Tracker, Session
<1>2. AtOrBefore(db, db) /\ AtOrBefore(db, cursor)
  BY <1>1, BeforeOrder
<1>3. AtOrBefore(db, After(cursor)) /\ AtOrBefore(db, NextFile(cursor))
  BY <1>1, <1>2, Forward, BeforeOrder
<1> QED
  BY <1>1, <1>2, <1>3

\* What is persisted never goes back, and the master's position is asked for only
\* while nothing is persisted (decideStartPosition, persistPosition).
THEOREM NoRewind == Spec => NeverRewinds
<1>1. ASSUME IInv, [Next]_vars PROVE [db # NoPos => ~Before(db', db)]_db
  <2> SUFFICES ASSUME db # NoPos, db' # db PROVE AtOrBefore(db, db')
    BY DEF AtOrBefore
  <2>1. CASE Start
    BY <2>1 DEF Start, StartPositions, Persist
  <2>2. CASE Observe
    <3> DEFINE u == ObserveEvent(tracker, Kind(cursor), LogPos(cursor))
    <3>1. phase = "run" /\ (db' = u.safe \/ db' = db)
      BY <2>2 DEF Observe, Running, Persist
    <3>2. /\ tracker \in Tracker /\ LogPos(cursor) \in Nat
          /\ tracker.current.file = cursor.file
      BY <1>1, <2>2, <3>1 DEF IInv, TypeOK, Session, Observe, Running, LogPos, Position
    <3>3. u.safe = tracker.safe \/ u.safe = At(cursor.file, LogPos(cursor))
      BY <3>2, ObserveEventFacts
    <3> QED
      BY <1>1, <3>1, <3>3, RunningWrites DEF After
  <2>3. CASE Rotate \/ ArtificialRotate
    BY <1>1, <2>3, RunningWrites DEF Rotate, ArtificialRotate, RotateTo, Running, Persist
  <2>4. CASE Shutdown \/ StreamError \/ Crash
    BY <1>1, <2>4, RunningWrites
       DEF Shutdown, StreamError, Crash, Running, Persist
  <2>5. CASE \/ Handle \/ ArtificialFDE \/ Timeout \/ Tick \/ EndOfFile \/ Reconnect
             \/ UNCHANGED vars
    BY <2>5 DEF Handle, ArtificialFDE, Timeout, Tick, EndOfFile, Reconnect, vars
  <2> QED
    BY <1>1, <2>1, <2>2, <2>3, <2>4, <2>5 DEF Next
<1> QED
  BY <1>1, Invariance, PTL DEF Spec, NeverRewinds

-----------------------------------------------------------------------------
(* Ids *)

\* The syncer did not reconnect by itself so far.
NoReconnection == reconnects = 0

\* While the syncer does not reconnect by itself, the tracker stands at the event
\* read whenever that event has rows, so that the position an id derives from is
\* the place of its event.
IdsAreThePlace ==
  /\ \A x \in emitted : x.id = x.at
  /\ phase = "run" /\ IsRows(cursor) => pre = "none" /\ tracker.current = cursor

\* Every step but a reconnection keeps it: a session begins where no rows are, and
\* Observe moves the tracker to the end of the event, where the next one begins.
LEMMA StepIds ==
  IInv /\ IdsAreThePlace /\ [Next]_vars /\ NoReconnection' => IdsAreThePlace'
<1> SUFFICES ASSUME IInv, IdsAreThePlace, [Next]_vars, reconnects' = 0
             PROVE  IdsAreThePlace'
  BY DEF NoReconnection
<1>1. TypeOK /\ (phase = "run" => Session) /\ SavedResumable
  BY DEF IInv
<1>2. CASE Start
  <2>1. ASSUME NEW p \in StartPositions PROVE ~IsRows(p)
    BY <1>1, MasterNotRows DEF StartPositions, SavedResumable
  <2>2. /\ emitted' = emitted
        /\ phase' = "run" => cursor' \in StartPositions
    BY <1>2 DEF Start, history
  <2> QED
    BY <2>1, <2>2 DEF IdsAreThePlace, IsRows, HasEvent, Kind
<1>3. CASE Handle
  <2>1. /\ phase = "run" /\ UNCHANGED <<tracker, cursor, pre>>
        /\ \A x \in emitted' :
             x \in emitted \/ (IsRows(cursor) /\ x = [at |-> cursor, id |-> tracker.current])
    BY <1>3 DEF Handle, Running, history
  <2> QED
    BY <2>1 DEF IdsAreThePlace, IsRows, HasEvent, Kind
<1>4. CASE Observe
  <2>1. /\ phase = "run" /\ cursor' = After(cursor) /\ pre' = pre /\ emitted' = emitted
        /\ tracker' = ObserveEvent(tracker, Kind(cursor), LogPos(cursor))
        /\ pre = "none" /\ tracker.current.file = cursor.file
    BY <1>1, <1>4 DEF Observe, Running, history, Session
  <2>2. tracker \in Tracker /\ LogPos(cursor) \in Nat
    BY <1>1 DEF TypeOK, LogPos, Position
  <2>3. tracker'.current = After(cursor)
    BY <2>1, <2>2, ObserveEventFacts DEF After
  <2> QED
    BY <2>1, <2>3 DEF IdsAreThePlace
<1>5. CASE Rotate \/ EndOfFile
  <2>1. cursor' = NextFile(cursor) /\ emitted' = emitted
    BY <1>5 DEF Rotate, RotateTo, EndOfFile, history
  <2>2. ~IsRows(NextFile(cursor))
    BY <1>1, NextFileNotRows DEF TypeOK
  <2> QED
    BY <2>1, <2>2 DEF IdsAreThePlace, IsRows, HasEvent, Kind
<1>6. CASE ArtificialRotate \/ ArtificialFDE
  <2>1. /\ phase = "run" /\ pre # "none" /\ cursor' = cursor /\ emitted' = emitted
    BY <1>6 DEF ArtificialRotate, ArtificialFDE, RotateTo, Running, history
  <2> QED
    BY <2>1 DEF IdsAreThePlace, IsRows, HasEvent, Kind
<1>7. CASE Shutdown \/ StreamError \/ Crash
  BY <1>7 DEF Shutdown, StreamError, Crash, IdsAreThePlace, history
<1>8. CASE Reconnect
  BY <1>1, <1>8 DEF Reconnect, TypeOK
<1>9. CASE Tick \/ Timeout \/ UNCHANGED vars
  <2>1. UNCHANGED <<phase, tracker, cursor, pre, emitted>>
    BY <1>9 DEF Tick, Timeout, vars, stream, history
  <2> QED
    BY <2>1 DEF IdsAreThePlace, IsRows, HasEvent, Kind
<1> QED
  BY <1>2, <1>3, <1>4, <1>5, <1>6, <1>7, <1>8, <1>9 DEF Next

LEMMA IdsInvariant == Spec /\ []NoReconnection => []IdsAreThePlace
<1>1. Init => IdsAreThePlace
  BY DEF Init, IdsAreThePlace
<1> QED
  BY <1>1, StepIds, Invariance, PTL DEF Spec

\* A row event handled again, after whatever crashes, stops and lost streams,
\* derives its ids from the position it derived them from before (binlog.go,
\* position.go).  A silent reconnection is excluded: the run on the finding shows
\* what it does.
THEOREM IdsAreStable == Spec /\ []NoReconnection => []StableIds
<1>1. IdsAreThePlace => StableIds
  BY DEF IdsAreThePlace, StableIds
<1> QED
  BY <1>1, IdsInvariant, PTL

\* Two row events never derive their ids from one position, under the same
\* exclusion.
THEOREM IdsAreDistinct == Spec /\ []NoReconnection => []DistinctIds
<1>1. IdsAreThePlace => DistinctIds
  BY DEF IdsAreThePlace, DistinctIds
<1> QED
  BY <1>1, IdsInvariant, PTL

-----------------------------------------------------------------------------
(* Boundaries *)

NoSavepoint == \A f \in DOMAIN Log : \A i \in DOMAIN Log[f] : Log[f][i] # "savepoint"

\* What the tracker takes for a boundary is one, and it knows of every transaction
\* open at the next event.
AtBoundary ==
  /\ phase = "run" =>
       /\ ~InsideTx(tracker.safe)
       /\ ~tracker.inTx => ~InsideTx(cursor)
  /\ SavedAtBoundary

\* Past an event that closes transactions no transaction is open; past one that
\* opens none, only one that was open before it.
LEMMA AfterBoundary ==
  ASSUME NEW p \in Position, HasEvent(p),
         Kind(p) \notin {"gtid", "begin", "tablemap", "rows"}
  PROVE  /\ Kind(p) \in {"xid", "commit", "ddl"} => ~InsideTx(After(p))
         /\ ~InsideTx(p) => ~InsideTx(After(p))
<1> SUFFICES ASSUME InsideTx(After(p))
             PROVE  InsideTx(p) /\ Kind(p) \notin {"xid", "commit", "ddl"}
  OBVIOUS
<1>1. p.pos \in Nat /\ After(p).file = p.file /\ After(p).pos - 1 = p.pos
  BY DEF Position, After, At, LogPos
<1>2. PICK i \in 1 .. p.pos :
        /\ Log[p.file][i] \in {"gtid", "begin", "tablemap", "rows"}
        /\ \A j \in i + 1 .. p.pos : Log[p.file][j] \notin {"xid", "commit", "ddl"}
  BY <1>1 DEF InsideTx
<1>3. i # p.pos
  BY <1>2 DEF Kind
<1>4. i \in 1 .. p.pos - 1 /\ p.pos \in i + 1 .. p.pos
  BY <1>1, <1>2, <1>3
<1>5. \A j \in i + 1 .. p.pos - 1 : Log[p.file][j] \notin {"xid", "commit", "ddl"}
  BY <1>1, <1>2
<1> QED
  BY <1>2, <1>4, <1>5 DEF InsideTx, Kind

\* No transaction is open at the beginning of a file.
LEMMA NextFileBoundary ==
  ASSUME NEW p \in Position
  PROVE  ~InsideTx(NextFile(p))
<1>1. NextFile(p).pos = 1 /\ \A i \in 1 .. 1 - 1 : FALSE
  BY DEF NextFile, At
<1> QED
  BY <1>1 DEF InsideTx

\* Observe takes for a boundary what is one, when there are no SAVEPOINTs.
LEMMA ObserveBoundary ==
  ASSUME NoSavepoint, IInv, AtBoundary, Observe
  PROVE  AtBoundary'
<1> DEFINE kind == Kind(cursor)
           u == ObserveEvent(tracker, kind, LogPos(cursor))
<1>1. /\ phase = "run" /\ tracker' = u /\ cursor' = After(cursor)
      /\ db' = u.safe \/ db' = db
      /\ TypeOK /\ Session
      /\ ~InsideTx(tracker.safe) /\ (~tracker.inTx => ~InsideTx(cursor))
      /\ SavedAtBoundary
  BY DEF Observe, Running, Persist, IInv, AtBoundary
<1>2. /\ tracker \in Tracker /\ cursor \in Position /\ LogPos(cursor) \in Nat
      /\ tracker.current.file = cursor.file /\ HasEvent(cursor)
  BY <1>1 DEF TypeOK, LogPos, Position, Session, Observe, Running
<1>3. /\ u.current = After(cursor)
      /\ u.safe = tracker.safe \/ u.safe = u.current
  BY <1>2, ObserveEventFacts DEF After
<1>4. kind \in Kinds /\ kind # "savepoint"
  BY <1>2, LogAssumption DEF NoSavepoint, HasEvent, Kind
<1>5. CASE kind \in {"xid", "commit", "ddl"}
  <2>1. ~InsideTx(After(cursor))
    BY <1>2, <1>5, AfterBoundary
  <2> QED
    BY <1>1, <1>3, <2>1 DEF AtBoundary, SavedAtBoundary, InsideTx
<1>6. CASE kind \in {"gtid", "begin", "tablemap", "rows"}
  <2>1. u.inTx /\ u.safe = tracker.safe
    BY <1>2, <1>6 DEF ObserveEvent, Tracker
  <2> QED
    BY <1>1, <2>1 DEF AtBoundary, SavedAtBoundary, InsideTx
<1>7. CASE kind \in {"other", "rotate"}
  <2>1. u.inTx = tracker.inTx /\ u.safe = tracker.safe
    BY <1>2, <1>7 DEF ObserveEvent, Tracker
  <2>2. ~InsideTx(cursor) => ~InsideTx(After(cursor))
    BY <1>2, <1>7, AfterBoundary
  <2> QED
    BY <1>1, <2>1, <2>2 DEF AtBoundary, SavedAtBoundary, InsideTx
<1> QED
  BY <1>4, <1>5, <1>6, <1>7 DEF Kinds

\* So does a rotation, unless a transaction is open.
LEMMA RotateBoundary ==
  ASSUME AtBoundary, IInv, Running("read"), NEW next \in Position,
         RotateTo(next), cursor' = next, ~tracker.inTx => ~InsideTx(next)
  PROVE  AtBoundary'
<1>1. /\ phase = "run" /\ tracker \in Tracker
      /\ ~InsideTx(tracker.safe) /\ SavedAtBoundary
      /\ tracker' = ObserveRotate(tracker, next)
      /\ db' = db \/ (db' = next /\ ~tracker.inTx)
  BY DEF Running, RotateTo, Persist, IInv, TypeOK, AtBoundary
<1>2. /\ tracker'.inTx = tracker.inTx
      /\ tracker'.safe = IF tracker.inTx THEN tracker.safe ELSE next
  BY <1>1, ObserveRotateFacts
<1> QED
  BY <1>1, <1>2 DEF AtBoundary, SavedAtBoundary, InsideTx

\* Every step keeps it.
LEMMA StepBoundary ==
  ASSUME NoSavepoint
  PROVE  IInv /\ AtBoundary /\ [Next]_vars => AtBoundary'
<1> SUFFICES ASSUME IInv, AtBoundary, [Next]_vars PROVE AtBoundary'
  OBVIOUS
<1>1. cursor \in Position
  BY DEF IInv, TypeOK
<1>2. CASE Start
  <2>1. PICK p \in StartPositions, saved \in BOOLEAN, synced \in BOOLEAN :
          /\ Persist(p, saved)
          /\ IF synced
               THEN tracker' = NewTracker(p) /\ cursor' = p
               ELSE UNCHANGED <<phase, tracker, stream>>
    BY <1>2 DEF Start
  <2>2. ~InsideTx(p) /\ phase = "down"
    BY <1>2 DEF StartPositions, MasterPositions, AtBoundary, SavedAtBoundary, Start
  <2>3. CASE synced
    BY <2>1, <2>2, <2>3
       DEF AtBoundary, SavedAtBoundary, Persist, NewTracker, InsideTx
  <2>4. CASE ~synced
    BY <2>1, <2>2, <2>4 DEF AtBoundary, SavedAtBoundary, Persist, InsideTx
  <2> QED
    BY <2>3, <2>4
<1>3. CASE Rotate
  BY <1>1, <1>3, Forward, NextFileBoundary, RotateBoundary DEF Rotate
<1>4. CASE ArtificialRotate
  <2>1. ~tracker.inTx => ~InsideTx(cursor)
    BY <1>4 DEF ArtificialRotate, Running, AtBoundary
  <2>2. Running("read") /\ RotateTo(cursor) /\ cursor' = cursor
    BY <1>4 DEF ArtificialRotate
  <2> QED
    BY <1>1, <2>1, <2>2, RotateBoundary
<1>5. CASE ArtificialFDE
  <2>1. /\ tracker' = ObserveEvent(tracker, "other", 0) /\ tracker \in Tracker
        /\ UNCHANGED <<phase, cursor, db>>
    BY <1>5 DEF ArtificialFDE, IInv, TypeOK
  <2>2. tracker'.safe = tracker.safe /\ tracker'.inTx = tracker.inTx
    BY <2>1 DEF ObserveEvent, Tracker
  <2> QED
    BY <2>1, <2>2 DEF AtBoundary, SavedAtBoundary, InsideTx
<1>6. CASE EndOfFile
  <2>1. /\ cursor' = NextFile(cursor) /\ UNCHANGED <<phase, tracker, db>>
    BY <1>6 DEF EndOfFile
  <2>2. ~InsideTx(NextFile(cursor))
    BY <1>1, NextFileBoundary
  <2> QED
    BY <2>1, <2>2 DEF AtBoundary, SavedAtBoundary, InsideTx
<1>7. CASE Shutdown \/ StreamError \/ Crash
  <2>1. /\ phase = "run" /\ phase' = "down"
        /\ db' = db \/ db' = tracker.safe
    BY <1>7 DEF Shutdown, StreamError, Crash, Running, Persist
  <2> QED
    BY <2>1 DEF AtBoundary, SavedAtBoundary, InsideTx
<1>8. CASE Handle \/ Timeout \/ Tick \/ Reconnect \/ UNCHANGED vars
  <2>1. UNCHANGED <<phase, tracker, cursor, db>>
    BY <1>8 DEF Handle, Timeout, Tick, Reconnect, vars, stream
  <2> QED
    BY <2>1 DEF AtBoundary, SavedAtBoundary, InsideTx
<1> QED
  BY <1>2, <1>3, <1>4, <1>5, <1>6, <1>7, <1>8, ObserveBoundary DEF Next

\* "Só posições em fronteira de transação são salvas" (position.go:10): for every
\* log without SAVEPOINT, and with any number of reconnections, what is persisted
\* never splits a transaction.
THEOREM BoundariesOnly ==
  ASSUME NoSavepoint
  PROVE  Spec => []SavedAtBoundary
<1>1. Init => AtBoundary
  BY DEF Init, AtBoundary, SavedAtBoundary
<1>2. AtBoundary => SavedAtBoundary
  BY DEF AtBoundary
<1>3. IInv /\ AtBoundary /\ [Next]_vars => AtBoundary'
  BY StepBoundary
<1> QED
  BY <1>1, <1>2, <1>3, Invariance, PTL DEF Spec

-----------------------------------------------------------------------------
(* The watcher as a reader of changes *)

\* The place the watcher reads at: past the event it has just handled.
Place == IF pc = "observe" THEN After(cursor) ELSE cursor

\* The log is finite, hence so are its changes.
LEMMA RowEventsFinite == IsFiniteSet(RowEvents)
<1> DEFINE InFile(f) == {At(f, i) : i \in DOMAIN Log[f]}
           files == {InFile(f) : f \in DOMAIN Log}
<1>1. ASSUME NEW f \in DOMAIN Log PROVE IsFiniteSet(InFile(f))
  <2> DEFINE place == [i \in DOMAIN Log[f] |-> At(f, i)]
  <2>1. IsFiniteSet(DOMAIN Log[f])
    BY LogShape, FS_Interval
  <2>2. place \in Surjection(DOMAIN Log[f], InFile(f))
    BY DEF Surjection
  <2> QED
    BY <2>1, <2>2, FS_Surjection
<1>2. IsFiniteSet(files)
  <2> DEFINE content == [f \in DOMAIN Log |-> InFile(f)]
  <2>1. DOMAIN Log = 1 .. Len(Log) /\ Len(Log) \in Nat
    BY LogAssumption
  <2>2. IsFiniteSet(DOMAIN Log)
    BY <2>1, FS_Interval
  <2>3. content \in Surjection(DOMAIN Log, files)
    BY DEF Surjection
  <2> QED
    BY <2>2, <2>3, FS_Surjection
<1>3. IsFiniteSet(UNION files)
  <2>1. \A T \in files : IsFiniteSet(T)
    BY <1>1
  <2> HIDE DEF files
  <2> QED
    BY <1>2, <2>1, FS_UNION
<1>4. RowEvents \in SUBSET (UNION files)
  BY DEF RowEvents, Events
<1> HIDE DEF files
<1> QED
  BY <1>3, <1>4, FS_Subset

\* A later position has at least as many changes before it, at most all of them.
LEMMA RankGrows ==
  ASSUME NEW a \in Position, NEW b \in Position, AtOrBefore(a, b)
  PROVE  /\ Cardinality(RowEvents) \in Nat
         /\ Rank(a) \in 0 .. Cardinality(RowEvents)
         /\ Rank(b) \in 0 .. Cardinality(RowEvents)
         /\ Rank(a) <= Rank(b)
<1> DEFINE R(p) == {e \in RowEvents : Before(e, p)}
<1>1. R(a) \in SUBSET R(b)
  BY RowEventsShape, BeforeOrder
<1>2. \A S : S = RowEvents => R(a) \in SUBSET S /\ R(b) \in SUBSET S
  OBVIOUS
<1>3. IsFiniteSet(R(b)) /\ Cardinality(R(b)) <= Cardinality(RowEvents)
  BY <1>2, RowEventsFinite, FS_Subset
<1>4. IsFiniteSet(R(a)) /\ Cardinality(R(a)) <= Cardinality(R(b))
  BY <1>1, <1>3, FS_Subset
<1>5. /\ Cardinality(RowEvents) \in Nat /\ Cardinality(R(a)) \in Nat
      /\ Cardinality(R(b)) \in Nat
  BY <1>3, <1>4, RowEventsFinite, FS_CardinalityType
<1> QED
  BY <1>3, <1>4, <1>5 DEF Rank

\* Positions with the same changes before them rank the same.
LEMMA RankSame ==
  ASSUME NEW a, NEW b, \A e \in RowEvents : Before(e, a) <=> Before(e, b)
  PROVE  Rank(a) = Rank(b)
<1>1. {e \in RowEvents : Before(e, a)} = {e \in RowEvents : Before(e, b)}
  OBVIOUS
<1> QED
  BY <1>1 DEF Rank

LEMMA RankNoPos == Rank(NoPos) = 0
<1>1. \A e \in RowEvents : ~Before(e, NoPos)
  BY RowEventsShape DEF Before, NoPos, At, Position
<1>2. {e \in RowEvents : Before(e, NoPos)} = {}
  BY <1>1
<1> QED
  BY <1>2, FS_EmptySet DEF Rank

\* Past an event of rows there is one change more.
LEMMA RankAfter ==
  ASSUME NEW p \in Position
  PROVE  Rank(After(p)) = IF IsRows(p) THEN Rank(p) + 1 ELSE Rank(p)
<1>1. After(p) \in Position /\ AtOrBefore(p, After(p))
  BY Forward
<1>2. \A e \in RowEvents : e \in Position /\ IsRows(e)
  BY RowEventsShape
<1>3. CASE ~IsRows(p)
  <2>1. \A e \in RowEvents : Before(e, After(p)) <=> Before(e, p)
    BY <1>1, <1>2, <1>3, AfterCovers, BeforeOrder
  <2> QED
    BY <1>3, <2>1, RankSame
<1>4. CASE IsRows(p)
  <2> DEFINE S == {e \in RowEvents : Before(e, p)}
  <2>1. p \in RowEvents /\ Before(p, After(p))
    BY <1>4, IsRowsInEvents DEF Before, After, At, LogPos, Position
  <2>2. p \notin S
    BY DEF Before, Position
  <2>3. {e \in RowEvents : Before(e, After(p))} = S \cup {p}
    BY <1>1, <1>2, <2>1, AfterCovers, BeforeOrder
  <2>4. \A T : T = RowEvents => S \in SUBSET T
    OBVIOUS
  <2>5. IsFiniteSet(S)
    BY <2>4, RowEventsFinite, FS_Subset
  <2>6. Cardinality(S \cup {p}) = Cardinality(S) + 1
    BY <2>2, <2>5, FS_AddElement
  <2> HIDE DEF S
  <2> QED
    BY <1>4, <2>3, <2>6 DEF Rank, S
<1> QED
  BY <1>3, <1>4

\* There is no change between the last event of a file and the next file.
LEMMA RankNextFile ==
  ASSUME NEW p \in Position,
         \/ AtEndOfFile(p)
         \/ HasEvent(p) /\ Kind(p) = "rotate"
  PROVE  Rank(NextFile(p)) = Rank(p)
<1>1. NextFile(p) \in Position /\ AtOrBefore(p, NextFile(p))
  BY Forward
<1>2. \A e \in RowEvents : Before(e, NextFile(p)) <=> Before(e, p)
  BY <1>1, NextFileCovers, BeforeOrder, RowEventsShape
<1> QED
  BY <1>2, RankSame

\* A running watcher only moves its boundary forward, and writes no place before
\* its boundary or past the next event.
LEMMA RunningStep ==
  ASSUME IInv, phase = "run", [Next]_vars
  PROVE  /\ origin' = origin
         /\ AtOrBefore(tracker.safe, tracker'.safe)
         /\ \/ db' = db
            \/ AtOrBefore(tracker.safe, db') /\ AtOrBefore(db', Place')
<1>1. /\ TypeOK /\ Session
      /\ cursor \in Position /\ tracker \in Tracker /\ tracker.safe \in Position
      /\ AtOrBefore(tracker.safe, cursor)
  BY DEF IInv, TypeOK, Session, Tracker
<1>2. /\ After(cursor) \in Position /\ NextFile(cursor) \in Position
      /\ AtOrBefore(tracker.safe, After(cursor))
      /\ AtOrBefore(tracker.safe, NextFile(cursor))
      /\ \A q \in Position : AtOrBefore(q, q)
  BY <1>1, Forward, BeforeOrder
<1>3. CASE Observe
  <2> DEFINE u == ObserveEvent(tracker, Kind(cursor), LogPos(cursor))
  <2>1. /\ tracker' = u /\ UNCHANGED origin
        /\ db' = db \/ db' = u.safe
        /\ cursor' = After(cursor) /\ pc' = "read"
    BY <1>3 DEF Observe, Persist
  <2>2. LogPos(cursor) \in Nat /\ tracker.current.file = cursor.file
    BY <1>1, <1>3 DEF LogPos, Position, Session, Observe, Running
  <2>3. u.safe = tracker.safe \/ u.safe = After(cursor)
    BY <1>1, <2>2, ObserveEventFacts DEF After
  <2>4. Place' = After(cursor)
    BY <2>1 DEF Place
  <2> HIDE DEF u
  <2> QED
    BY <1>1, <1>2, <2>1, <2>3, <2>4
<1>4. ASSUME NEW next \in Position, RotateTo(next), cursor' = next, pc = "read",
             AtOrBefore(tracker.safe, next)
      PROVE  /\ origin' = origin
             /\ AtOrBefore(tracker.safe, tracker'.safe)
             /\ \/ db' = db
                \/ AtOrBefore(tracker.safe, db') /\ AtOrBefore(db', Place')
  <2>1. /\ tracker' = ObserveRotate(tracker, next) /\ UNCHANGED <<pc, origin>>
        /\ db' = db \/ db' = next
    BY <1>4 DEF RotateTo, Persist
  <2>2. tracker'.safe = tracker.safe \/ tracker'.safe = next
    BY <1>1, <2>1, ObserveRotateFacts
  <2>3. Place' = next
    BY <1>4, <2>1 DEF Place
  <2> QED
    BY <1>1, <1>2, <1>4, <2>1, <2>2, <2>3
<1>5. CASE Rotate
  BY <1>2, <1>4, <1>5 DEF Rotate, Running
<1>6. CASE ArtificialRotate
  BY <1>1, <1>4, <1>6 DEF ArtificialRotate, Running
<1>7. CASE Shutdown \/ StreamError \/ Crash
  <2>1. /\ UNCHANGED <<tracker, pc, cursor, origin>>
        /\ db' = db \/ db' = tracker.safe
    BY <1>7 DEF Shutdown, StreamError, Crash, Persist, stream
  <2>2. Place' = cursor \/ Place' = After(cursor)
    BY <2>1 DEF Place, After, At, LogPos
  <2> QED
    BY <1>1, <1>2, <2>1, <2>2
<1>8. CASE ArtificialFDE
  <2>1. /\ tracker' = ObserveEvent(tracker, "other", 0)
        /\ UNCHANGED <<db, origin>>
    BY <1>8 DEF ArtificialFDE
  <2>2. tracker'.safe = tracker.safe
    BY <1>1, <2>1 DEF ObserveEvent, Tracker
  <2> QED
    BY <1>1, <1>2, <2>1, <2>2
<1>9. CASE Handle \/ Timeout \/ Tick \/ EndOfFile \/ Reconnect \/ UNCHANGED vars
  <2>1. UNCHANGED <<tracker, db, origin>>
    BY <1>9 DEF Handle, Timeout, Tick, EndOfFile, Reconnect, vars
  <2> QED
    BY <1>1, <1>2, <2>1
<1>10. ~Start
  BY DEF Start
<1> QED
  BY <1>3, <1>5, <1>6, <1>7, <1>8, <1>9, <1>10 DEF Next

\* What is persisted, and the tracker's boundary, are never before where the
\* watcher began.
OriginFirst ==
  /\ phase = "run" => origin # NoPos /\ AtOrBefore(origin, tracker.safe)
  /\ db # NoPos => origin # NoPos /\ AtOrBefore(origin, db)

\* Where Start begins.
LEMMA StartStep ==
  ASSUME IInv, OriginFirst, Start
  PROVE  \E p \in Position \ {NoPos} :
           /\ db' = p \/ db' = db
           /\ db # NoPos => p = db
           /\ origin' = IF db = NoPos THEN p ELSE origin
           /\ \/ /\ phase' = "run" /\ tracker' = NewTracker(p) /\ Place' = p
              \/ /\ phase' = phase /\ Place' = Place
<1>1. PICK p \in StartPositions, saved \in BOOLEAN, synced \in BOOLEAN :
        /\ Persist(p, saved)
        /\ origin' = IF db = NoPos THEN p ELSE origin
        /\ IF synced
             THEN /\ phase' = "run" /\ pc' = "read"
                  /\ tracker' = NewTracker(p) /\ cursor' = p
             ELSE UNCHANGED <<phase, pc, stream>>
  BY DEF Start
<1>2. p \in Position /\ p # NoPos /\ (db # NoPos => p = db)
  BY MasterNotRows DEF StartPositions, MasterPositions, IInv, TypeOK, NoPos, At
<1>3. /\ synced => Place' = p
      /\ ~synced => Place' = Place
  BY <1>1 DEF Place, stream, After, At, LogPos
<1> QED
  BY <1>1, <1>2, <1>3 DEF Persist

LEMMA OriginStep == IInv /\ OriginFirst /\ [Next]_vars => OriginFirst'
<1> SUFFICES ASSUME IInv, OriginFirst, [Next]_vars PROVE OriginFirst'
  OBVIOUS
<1>1. IInv'
  BY NextIInv
<1>2. /\ db \in Position /\ origin \in Position /\ tracker.safe \in Position
      /\ db' \in Position /\ origin' \in Position /\ tracker'.safe \in Position
  BY <1>1 DEF IInv, TypeOK, Tracker
<1>3. CASE Start
  <2>1. PICK p \in Position \ {NoPos} :
           /\ db' = p \/ db' = db
           /\ db # NoPos => p = db
           /\ origin' = IF db = NoPos THEN p ELSE origin
           /\ \/ /\ phase' = "run" /\ tracker' = NewTracker(p)
              \/ phase' = phase
    BY <1>3, StartStep
  <2>2. AtOrBefore(p, p) /\ phase = "down"
    BY <1>3, BeforeOrder DEF Start
  <2> QED
    BY <2>1, <2>2 DEF OriginFirst, NewTracker, AtOrBefore, Before
<1>4. CASE phase = "run"
  <2>1. /\ origin' = origin
        /\ AtOrBefore(tracker.safe, tracker'.safe)
        /\ db' = db \/ AtOrBefore(tracker.safe, db')
    BY <1>4, RunningStep
  <2>2. AtOrBefore(origin, tracker'.safe) /\ (db' = db \/ AtOrBefore(origin, db'))
    BY <1>2, <1>4, <2>1, BeforeOrder DEF OriginFirst
  <2> QED
    BY <1>4, <2>1, <2>2 DEF OriginFirst, AtOrBefore, Before
<1>5. CASE phase # "run" /\ ~Start
  <2>1. UNCHANGED <<phase, tracker, db, origin>>
    BY <1>5 DEF Next, Handle, Observe, Rotate, ArtificialRotate, ArtificialFDE, Timeout,
                Shutdown, StreamError, Crash, Tick, EndOfFile, Reconnect, Running, vars
  <2> QED
    BY <1>5, <2>1 DEF OriginFirst, AtOrBefore, Before
<1> QED
  BY <1>3, <1>4, <1>5

-----------------------------------------------------------------------------
(* The watcher implements Replay *)

\* The changes handled and the places known, as Replay counts them.
Handled == {Rank(e) + 1 : e \in Attempted}
Known == IF db = NoPos THEN -1 ELSE Rank(db)

\* A write that Replay allows, or none.
LEMMA KnownStep ==
  ASSUME IInv, IInv', OriginFirst, OriginFirst', phase = "run", [Next]_vars,
         Rank(Place') = Rank(Place)
  PROVE  /\ Rank(origin') = Rank(origin)
         /\ \/ Known' = Known
            \/ \E n \in Rank(origin) .. Rank(Place) : Known <= n /\ Known' = n
<1>1. /\ origin' = origin
      /\ db' = db \/ (AtOrBefore(tracker.safe, db') /\ AtOrBefore(db', Place'))
  BY RunningStep
<1>2. CASE db' = db
  BY <1>1, <1>2 DEF Known, Rank, Before
<1>3. CASE AtOrBefore(tracker.safe, db') /\ AtOrBefore(db', Place')
  <2>1. /\ db \in Position /\ origin \in Position /\ tracker.safe \in Position
        /\ db' \in Position /\ Place' \in Position
    BY Forward DEF IInv, TypeOK, Tracker, Place
  <2>2. AtOrBefore(origin, tracker.safe) /\ origin # NoPos /\ AtOrBefore(db, tracker.safe)
    BY DEF OriginFirst, IInv, Session
  <2>3. AtOrBefore(origin, db') /\ AtOrBefore(db, db')
    BY <1>3, <2>1, <2>2, BeforeOrder
  <2>4. db' # NoPos
    BY <2>1, <2>2, <2>3 DEF AtOrBefore, Before, NoPos, At, Position
  <2>5. Rank(origin) <= Rank(db') /\ Rank(db) <= Rank(db') /\ Rank(db') <= Rank(Place')
    BY <1>3, <2>1, <2>3, RankGrows
  <2>6. Rank(origin) \in Nat /\ Rank(db) \in Nat /\ Rank(db') \in Nat /\ Rank(Place) \in Nat
    BY <1>3, <2>1, <2>3, RankGrows
  <2>7. Known' = Rank(db') /\ Known <= Rank(db')
    BY <2>4, <2>5, <2>6 DEF Known
  <2> QED
    BY <1>1, <2>5, <2>6, <2>7
<1> QED
  BY <1>1, <1>2, <1>3

\* Only the handling of rows counts as a change taken, or moves Replay's place.
LEMMA PlaceStep ==
  ASSUME IInv, phase = "run", [Next]_vars, ~(Handle /\ IsRows(cursor))
  PROVE  Rank(Place') = Rank(Place) /\ Handled' = Handled
<1>1. cursor \in Position /\ (pc = "observe" => Place = After(cursor)) /\ (pc = "read" => Place = cursor)
  BY DEF IInv, TypeOK, Place
<1>2. CASE Handle
  <2>1. /\ pc = "read" /\ pc' = "observe" /\ cursor' = cursor
        /\ UNCHANGED history
    BY <1>2 DEF Handle, Running, history
  <2>2. Place' = After(cursor)
    BY <2>1 DEF Place, After, At, LogPos
  <2> QED
    BY <1>1, <1>2, <2>1, <2>2, RankAfter DEF Handled, Attempted, history
<1>3. CASE Observe
  <2>1. pc = "observe" /\ pc' = "read" /\ cursor' = After(cursor) /\ UNCHANGED history
    BY <1>3 DEF Observe, Running
  <2>2. Place' = Place
    BY <1>1, <2>1 DEF Place
  <2> QED
    BY <2>1, <2>2 DEF Handled, Attempted, history
<1>4. CASE Rotate \/ EndOfFile
  <2>1. /\ pc = "read" /\ pc' = pc /\ cursor' = NextFile(cursor) /\ UNCHANGED history
        /\ Rank(NextFile(cursor)) = Rank(cursor)
    BY <1>1, <1>4, RankNextFile DEF Rotate, RotateTo, EndOfFile, Running
  <2>2. Place' = NextFile(cursor)
    BY <2>1 DEF Place
  <2> QED
    BY <1>1, <2>1, <2>2 DEF Handled, Attempted, history
<1>5. CASE \/ ArtificialRotate \/ ArtificialFDE \/ Shutdown \/ StreamError \/ Crash
           \/ Tick \/ Reconnect \/ Timeout \/ UNCHANGED vars
  <2>1. UNCHANGED <<pc, cursor, history>>
    BY <1>5 DEF ArtificialRotate, RotateTo, ArtificialFDE, Shutdown, StreamError, Crash,
                Tick, Reconnect, Timeout, vars, stream
  <2>2. Place' = Place
    BY <2>1 DEF Place, After, At, LogPos
  <2> QED
    BY <2>1, <2>2 DEF Handled, Attempted, history
<1>6. ~Start
  BY DEF Start
<1> QED
  BY <1>2, <1>3, <1>4, <1>5, <1>6 DEF Next

\* Start is Begin, from the place it starts at.
LEMMA BeginStep ==
  ASSUME IInv, OriginFirst, Start
  PROVE  Reader!Begin
<1>1. PICK p \in Position \ {NoPos} :
        /\ db' = p \/ db' = db
        /\ db # NoPos => p = db
        /\ origin' = IF db = NoPos THEN p ELSE origin
        /\ \/ /\ phase' = "run" /\ Place' = p
           \/ /\ phase' = phase /\ Place' = Place
  BY StartStep
<1>2. phase = "down" /\ UNCHANGED history
  BY DEF Start
<1>3. Rank(p) \in 0 .. Cardinality(RowEvents)
  BY RankGrows, BeforeOrder
<1>4. Rank(p) \in IF Known = -1 THEN 0 .. Cardinality(RowEvents) ELSE {Known}
  BY <1>1, <1>3 DEF Known
<1>5. Known = -1 <=> db = NoPos
  BY <1>1, <1>3 DEF Known
<1>6. Rank(origin') = IF Known = -1 THEN Rank(p) ELSE Rank(origin)
  BY <1>1, <1>5
<1>7. Known' \in {Known, Rank(p)}
  BY <1>1 DEF Known, Rank, Before
<1>8. Handled' = Handled
  BY <1>2 DEF Handled, Attempted, history
<1>9. \/ (phase' = "run") = TRUE /\ Rank(Place') = Rank(p)
      \/ (phase' = "run") = (phase = "run") /\ Rank(Place') = Rank(Place)
  BY <1>1
<1> QED
  BY <1>2, <1>4, <1>6, <1>7, <1>8, <1>9
     DEF Reader!Begin, Reader!Nothing, Known, Handled, Place, Rank, Before

\* Handling an event with rows is Take.
LEMMA TakeStep ==
  ASSUME IInv, Handle, IsRows(cursor)
  PROVE  Reader!Take
<1>1. /\ phase = "run" /\ phase' = phase /\ pc = "read" /\ pc' = "observe"
      /\ UNCHANGED <<cursor, db, origin>>
      /\ cursor \in Position
  BY DEF Handle, Running, IInv, TypeOK
<1>2. Place = cursor /\ Place' = After(cursor)
  BY <1>1 DEF Place, After, At, LogPos
<1>3. Rank(After(cursor)) = Rank(cursor) + 1
  BY <1>1, RankAfter
<1>4. Rank(cursor) < Cardinality(RowEvents)
  <2>1. After(cursor) \in Position /\ AtOrBefore(cursor, After(cursor))
    BY <1>1, Forward
  <2> QED
    BY <1>1, <1>3, <2>1, RankGrows
<1>5. Attempted' = Attempted \cup {cursor}
  <2>1. CASE /\ emitted' = emitted \cup {[at |-> cursor, id |-> tracker.current]}
             /\ discarded' = discarded
    <3>1. {x.at : x \in emitted'} = {x.at : x \in emitted} \cup {cursor}
      <4>1. ASSUME NEW c, NEW x, x = [at |-> c, id |-> tracker.current],
                   emitted' = emitted \cup {x}, c = cursor
            PROVE  {y.at : y \in emitted'} = {y.at : y \in emitted} \cup {c}
        <5>1. x.at = c
          BY <4>1
        <5> QED
          BY <4>1, <5>1
      <4> QED
        BY <2>1, <4>1
    <3> QED
      BY <2>1, <3>1 DEF Attempted
  <2>2. CASE discarded' = discarded \cup {cursor} /\ emitted' = emitted
    BY <2>2 DEF Attempted
  <2> QED
    BY <2>1, <2>2 DEF Handle
<1>6. Handled' = Handled \cup {Rank(cursor) + 1}
  BY <1>5 DEF Handled, Rank, Before
<1>7. Known' = Known /\ Rank(origin') = Rank(origin)
  BY <1>1 DEF Known, Rank, Before
<1> QED
  BY <1>1, <1>2, <1>3, <1>4, <1>6, <1>7
     DEF Reader!Take, Known, Handled, Place, Rank, Before

\* A step of a running watcher is Take, Save, Stop or nothing to Replay.
LEMMA ReaderStep ==
  ASSUME IInv, IInv', OriginFirst, OriginFirst', [Next]_vars
  PROVE  [Reader!Next]_(Reader!vars)
<1>1. CASE Start
  BY <1>1, BeginStep DEF Reader!Next
<1>2. CASE Handle /\ IsRows(cursor)
  BY <1>2, TakeStep DEF Reader!Next
<1>3. CASE phase = "run" /\ ~(Handle /\ IsRows(cursor))
  <2>1. Rank(Place') = Rank(Place) /\ Handled' = Handled
    BY <1>3, PlaceStep
  <2>2. /\ Rank(origin') = Rank(origin)
        /\ \/ Known' = Known
           \/ \E n \in Rank(origin) .. Rank(Place) : Known <= n /\ Known' = n
    BY <1>3, <2>1, KnownStep
  <2>3. CASE phase' = "run" /\ Known' = Known
    BY <1>3, <2>1, <2>2, <2>3 DEF Reader!vars, Known, Handled, Place, Rank, Before
  <2>4. CASE phase' = "run" /\ Known' # Known
    BY <1>3, <2>1, <2>2, <2>4
       DEF Reader!Next, Reader!Save, Reader!Remember, Known, Handled, Place, Rank, Before
  <2>5. CASE phase' # "run"
    BY <1>3, <2>1, <2>2, <2>5
       DEF Reader!Next, Reader!Stop, Reader!Remember, Known, Handled, Place, Rank, Before
  <2> QED
    BY <2>3, <2>4, <2>5
<1>4. CASE phase # "run" /\ ~Start
  <2>1. UNCHANGED vars
    BY <1>4 DEF Next, Handle, Observe, Rotate, ArtificialRotate, ArtificialFDE, Timeout,
                Shutdown, StreamError, Crash, Tick, EndOfFile, Reconnect, Running
  <2> QED
    BY <2>1 DEF vars, stream, history, Reader!vars, Attempted, Rank, Before, After, At, LogPos
<1> QED
  BY <1>1, <1>2, <1>3, <1>4

\* The watcher implements the reader it promises to be: each of its steps is one of
\* Replay's or invisible to it, for every log, every bound on failures and every
\* number of reconnections.
THEOREM Refines == Spec => ImplementsReplay
<1>1. Init => Reader!Init
  <2> SUFFICES ASSUME Init PROVE Reader!Init
    OBVIOUS
  <2>1. /\ phase = "down" /\ pc = "read" /\ cursor = NoPos /\ db = NoPos /\ origin = NoPos
        /\ Attempted = {}
    BY DEF Init, Attempted
  <2> QED
    BY <2>1, RankNoPos DEF Reader!Init, Reader!Nothing
<1>2. Init => OriginFirst
  BY DEF Init, OriginFirst
<1>3. IInv /\ IInv' /\ OriginFirst /\ OriginFirst' /\ [Next]_vars
        => [Reader!Next]_(Reader!vars)
  BY ReaderStep
<1> QED
  BY <1>1, <1>2, <1>3, OriginStep, Invariance, PTL DEF Spec, ImplementsReplay, Reader!Spec
=============================================================================
