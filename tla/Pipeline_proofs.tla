--------------------------- MODULE Pipeline_proofs --------------------------
(***************************************************************************)
(* Theorems about the producer alone and about the two processes together, *)
(* for every log, every fan-out and every bound on failures: no row of an  *)
(* event a restart will not read again is lost in silence, on its way to   *)
(* Redis or from there to srp-hub-api, no Event is in two queues of a      *)
(* target at a time, and a client ends with the last change of a resource. *)
(***************************************************************************)
EXTENDS Pipeline, SequenceTheorems, WellFoundedInduction, TLAPS

\* What became of row i of event n.
Traced(n, i) ==
  n \in aborted \/ EventId(n, i) \in unsaved \/ Reached(EventId(n, i))

Counts == errs \in Nat /\ dups \in Nat

\* The row in hand is a row of a committed event, and the Contrato is of its resource.
InHand ==
  up /\ pc # "read" =>
    /\ next <= committed /\ row > 0
    /\ pc \in {"build", "fanout"} => row \in DOMAIN Visited(next)
    /\ pc = "fanout" =>
         payload \in Contratos /\ payload.res = Visited(next)[row].res

\* While the process is up, every row before the one in hand is accounted for, and the
\* one in hand reached the targets called so far if none of them failed.
Handled ==
  up =>
    /\ \A n \in 1 .. next - 1 : \A i \in Eligible(n) : Traced(n, i)
    /\ pc # "read" => \A i \in Eligible(next) : i < row => Traced(next, i)
    /\ pc = "fanout" /\ errs = 0 =>
         \A k \in 1 .. tgt : <<Targets[k], EventId(next, row)>> \in inserted

\* A task in Redis was put there by the producer, in the shard of its resource.
Placed ==
  \A q \in Queues, id \in Ids :
    Exists(q, id) =>
      /\ <<q[1], id>> \in inserted
      /\ \E n \in DOMAIN Changes : \E i \in DOMAIN Visited(n) :
           id = EventId(n, i) /\ q = ShardFor(q[1], Visited(n)[i].res)

\* The inductive invariant.
IInv ==
  /\ TypeOK /\ Counts
  /\ InHand
  /\ Handled
  /\ Placed
  /\ EveryRowAccounted

-----------------------------------------------------------------------------
(* The log and the names made of it *)

\* The rows visited of an event are numbered from 1, and each is a row of the log.
LEMMA VisitedShape ==
  ASSUME NEW n \in DOMAIN Changes
  PROVE  /\ \E m \in Nat : DOMAIN Visited(n) = 1 .. m
         /\ \A i \in DOMAIN Visited(n) :
              /\ Visited(n)[i].res \in Resources
              /\ Visited(n)[i].kind \in {"ok", "badid", "poison", "other"}
              /\ EventId(n, i) \in Ids
<1> DEFINE RowSet == [res : Resources, kind : {"ok", "badid", "poison", "other"}]
           RowSeqs == Seq(RowSet)
           ChangeSet == [action : {"INSERT", "UPDATE", "DELETE"}, rows : RowSeqs]
           rows == Changes[n].rows
<1>1. Changes \in Seq(ChangeSet)
  BY ProducerAssumption
<1>2. rows \in RowSeqs
  <2> HIDE DEF RowSeqs
  <2>1. Changes[n] \in ChangeSet
    <3> HIDE DEF ChangeSet
    <3> QED
      BY <1>1, ElementOfSeq
  <2> QED
    BY <2>1
<1>3. Len(rows) \in Nat /\ DOMAIN rows = 1 .. Len(rows) /\ \A j \in 1 .. Len(rows) : rows[j] \in RowSet
  <2> HIDE DEF RowSet, rows
  <2> QED
    BY <1>2, ElementOfSeq
<1> HIDE DEF rows
<1>4. CASE Changes[n].action = "UPDATE"
  <2>1. Visited(n) = [i \in 1 .. Len(rows) \div 2 |-> rows[2 * i]]
    BY <1>4 DEF Visited, rows
  <2>2. Len(rows) \div 2 \in Nat /\ \A i \in 1 .. Len(rows) \div 2 : 2 * i \in 1 .. Len(rows)
    BY <1>3
  <2>3. \A i \in DOMAIN Visited(n) : Visited(n)[i] \in RowSet
    BY <1>3, <2>1, <2>2
  <2> QED
    BY <2>1, <2>2, <2>3, NamesAssumption
<1>5. CASE Changes[n].action # "UPDATE"
  <2>1. Visited(n) = rows
    BY <1>5 DEF Visited, rows
  <2> QED
    BY <1>3, <2>1, NamesAssumption
<1> QED
  BY <1>4, <1>5

\* The shard of a resource is a queue of its target.
LEMMA ShardShape ==
  ASSUME NEW k \in DOMAIN Targets, NEW r \in Resources
  PROVE  ShardFor(Targets[k], r) \in Queues /\ ShardFor(Targets[k], r)[1] = Targets[k]
<1>1. Targets[k] \in DOMAIN Shards
  BY ProducerAssumption
<1>2. Hash[r] % Shards[Targets[k]] \in 0 .. Shards[Targets[k]] - 1
  BY <1>1, ProducerAssumption
<1> QED
  BY <1>2, NamesAssumption DEF ShardFor

-----------------------------------------------------------------------------
(* What the steps have in common *)

\* What has become of rows is never taken back.
AccountsGrow ==
  /\ aborted \subseteq aborted' /\ unsaved \subseteq unsaved'
  /\ failedEvents \subseteq failedEvents' /\ inserted \subseteq inserted'

\* A row that is accounted for stays so.
LEMMA TracedStays ==
  ASSUME NEW n, NEW i, AccountsGrow, Traced(n, i)
  PROVE  Traced(n, i)'
  BY DEF Traced, Reached, AccountsGrow, EventId

\* A step that leaves Redis alone leaves its types alone.
LEMMA RedisStays ==
  ASSUME UNCHANGED redis
  PROVE  /\ AsynqType => AsynqType'
         /\ \A q \in Queues, id \in Ids : Exists(q, id)' <=> Exists(q, id)
  BY DEF redis, AsynqType, Exists

\* A step that leaves Redis alone, and takes back nothing, keeps the tasks placed.
LEMMA PlacedStays ==
  ASSUME Placed, UNCHANGED redis, AccountsGrow
  PROVE  Placed'
  BY RedisStays DEF Placed, AccountsGrow

\* What a restart will not read again was accounted for before.
LEMMA AccountedWhileSavedStands ==
  ASSUME EveryRowAccounted, AccountsGrow, UNCHANGED saved
  PROVE  EveryRowAccounted'
<1> SUFFICES ASSUME NEW n \in 1 .. saved, NEW i \in Eligible(n)
             PROVE  Traced(n, i)'
  BY DEF EveryRowAccounted, Traced, Eligible
<1> QED
  BY TracedStays DEF EveryRowAccounted, Traced

\* The initial states satisfy the invariant.
LEMMA InitIInv ==
  ASSUME Init
  PROVE  IInv
<1>0. 0 \in Dates
  BY ProducerAssumption
<1>1. Len(Changes) \in Nat /\ Len(Targets) \in Nat
  BY ProducerAssumption
<1>2. TypeOK
  <2>1. AsynqType
    BY AsynqAssumption, EmptySeq DEF Init, AsynqInit, AsynqType, Statuses
  <2>2. next \in 1 .. Len(Changes) + 1 /\ saved \in 0 .. Len(Changes)
    BY <1>1 DEF Init
  <2>4. up \in BOOLEAN
    BY Zenon DEF Init
  <2>3. errs + dups <= tgt /\ tgt \in 0 .. Len(Targets) /\ committed \in 0 .. Len(Changes)
    BY <1>1 DEF Init
  <2> QED
    BY <1>0, <2>1, <2>2, <2>3, <2>4 DEF Init, TypeOK
<1>3. Placed
  BY DEF Init, AsynqInit, Placed, Exists
<1> QED
  BY <1>2, <1>3 DEF Init, IInv, Counts, InHand, Handled, EveryRowAccounted

-----------------------------------------------------------------------------
(* The steps between the watcher and the producer *)

\* The process starts: what it will not read again was accounted for.
LEMMA StartIInv ==
  ASSUME IInv, Start
  PROVE  IInv'
<1> USE DEF Start, read, fanout, server, accounts, pBounds
<1>1. AccountsGrow /\ UNCHANGED <<redis, saved>>
  BY DEF AccountsGrow
<1>2. Len(Changes) \in Nat
  BY ProducerAssumption
<1>3. TypeOK' /\ Counts'
  BY <1>1, <1>2, RedisStays DEF IInv, TypeOK, Counts
<1>4. InHand'
  BY DEF InHand
<1>5. Handled'
  <2>1. \A n \in 1 .. next' - 1 : \A i \in Eligible(n) : Traced(n, i)
    BY DEF IInv, TypeOK, EveryRowAccounted, Traced
  <2> QED
    BY <1>1, <2>1, TracedStays DEF Handled, Eligible
<1> QED
  BY <1>1, <1>3, <1>4, <1>5, PlacedStays, AccountedWhileSavedStands DEF IInv

\* The first row of the next event comes to hand.
LEMMA HandleEventIInv ==
  ASSUME IInv, HandleEvent
  PROVE  IInv'
<1> USE DEF HandleEvent, At, loop, read, fanout, server, accounts, pBounds
<1>1. AccountsGrow /\ UNCHANGED <<redis, saved>>
  BY DEF AccountsGrow
<1>2. TypeOK' /\ Counts'
  BY <1>1, RedisStays DEF IInv, TypeOK, Counts
<1>3. InHand'
  BY DEF InHand
<1>4. Handled'
  <2>1. next \in 1 .. Len(Changes) /\ Len(Changes) \in Nat
    BY ProducerAssumption DEF IInv, TypeOK
  <2>2. \A i \in Eligible(next) : i >= 1
    BY <2>1, VisitedShape DEF Eligible
  <2> QED
    BY <1>1, <2>1, <2>2, TracedStays DEF IInv, Handled, Eligible
<1> QED
  BY <1>1, <1>2, <1>3, <1>4, PlacedStays, AccountedWhileSavedStands DEF IInv

\* The event is done with once every row of it is accounted for.
LEMMA DoneHandled ==
  ASSUME IInv, AccountsGrow, up, DoneWithEvent,
         NEW m, m = next,
         \A i \in Eligible(m) : Traced(m, i) \/ Traced(m, i)'
  PROVE  Handled'
<1>1. next \in 1 .. Len(Changes) + 1 /\ Len(Changes) \in Nat
  BY ProducerAssumption DEF IInv, TypeOK
<1>2. \A n \in 1 .. next' - 1 : n \in 1 .. next - 1 \/ n = next
  BY <1>1 DEF DoneWithEvent
<1>3. ASSUME NEW n \in 1 .. next' - 1, NEW i \in Eligible(n)
      PROVE  Traced(n, i)'
  <2>1. CASE n \in 1 .. next - 1
    BY <2>1, TracedStays DEF IInv, Handled
  <2>2. CASE n = m
    BY <2>2, TracedStays
  <2> QED
    BY <1>2, <2>1, <2>2
<1> QED
  BY <1>3 DEF DoneWithEvent, Handled, Eligible

\* eachRow ends: every row of the event was in hand.
LEMMA LastRowIInv ==
  ASSUME IInv, LastRow
  PROVE  IInv'
<1> USE DEF LastRow, At, read, fanout, server, accounts, pBounds
<1>1. AccountsGrow /\ UNCHANGED <<redis, saved>>
  BY DEF AccountsGrow, DoneWithEvent
<1>2. next \in 1 .. Len(Changes) /\ Len(Changes) \in Nat /\ row \in Nat /\ row > 0
  BY ProducerAssumption DEF IInv, TypeOK, InHand
<1>3. TypeOK' /\ Counts'
  BY <1>1, <1>2, RedisStays DEF IInv, TypeOK, Counts, DoneWithEvent
<1>4. InHand'
  BY DEF InHand, DoneWithEvent
<1>5. Handled'
  <2>1. \A i \in Eligible(next) : i < row
    BY <1>2, VisitedShape DEF Eligible
  <2>2. PICK m : m = next
    OBVIOUS
  <2>3. \A i \in Eligible(m) : Traced(m, i)
    BY <2>1, <2>2 DEF IInv, Handled
  <2> QED
    BY <1>1, <2>2, <2>3, DoneHandled
<1> QED
  BY <1>1, <1>3, <1>4, <1>5, PlacedStays, AccountedWhileSavedStands DEF IInv

\* HandleEvent gives up: the whole event is in the log as failed.
LEMMA AbortIInv ==
  ASSUME IInv, Abort
  PROVE  IInv'
<1> USE DEF Abort, At, read, fanout, server, pBounds
<1>1. AccountsGrow /\ UNCHANGED <<redis, saved>>
  BY DEF AccountsGrow, DoneWithEvent
<1>2. next \in 1 .. Len(Changes) /\ Len(Changes) \in Nat
  BY ProducerAssumption DEF IInv, TypeOK, InHand
<1>3. TypeOK' /\ Counts'
  <2>1. next \in DOMAIN Changes
    BY <1>2, ProducerAssumption
  <2> QED
    BY <1>1, <1>2, <2>1, RedisStays DEF IInv, TypeOK, Counts, DoneWithEvent
<1>4. InHand'
  BY DEF InHand, DoneWithEvent
<1>5. Handled'
  <2>1. PICK m : m = next
    OBVIOUS
  <2>2. \A i \in Eligible(m) : Traced(m, i)'
    BY <2>1 DEF Traced
  <2> QED
    BY <1>1, <2>1, <2>2, DoneHandled
<1> QED
  BY <1>1, <1>3, <1>4, <1>5, PlacedStays, AccountedWhileSavedStands DEF IInv

-----------------------------------------------------------------------------
(* The steps of emitRows *)

\* The row in hand is of the log.
LEMMA RowInHand ==
  ASSUME IInv, up, pc # "read", row \in DOMAIN Visited(next)
  PROVE  /\ next \in DOMAIN Changes
         /\ Visited(next)[row].res \in Resources /\ EventId(next, row) \in Ids
<1>1. Len(Changes) \in Nat /\ DOMAIN Changes = 1 .. Len(Changes)
  BY ProducerAssumption
<1>2. next \in DOMAIN Changes
  BY <1>1 DEF IInv, TypeOK, InHand
<1> QED
  BY <1>2, VisitedShape

\* The next row comes to hand once this one is accounted for.
LEMMA NextRowHandled ==
  ASSUME IInv, AccountsGrow, up, pc # "read", NextRow, UNCHANGED committed,
         NEW m, m = next, NEW j, j = row,
         j \in Eligible(m) => Traced(m, j)'
  PROVE  Handled' /\ InHand'
<1>1. row \in Nat /\ Len(Changes) \in Nat /\ next \in 1 .. Len(Changes)
  BY ProducerAssumption DEF IInv, TypeOK, InHand
<1>2. \A i \in Eligible(m) : i \in Nat
  <2>1. m \in DOMAIN Changes
    BY <1>1, ProducerAssumption
  <2>2. PICK last \in Nat : DOMAIN Visited(m) = 1 .. last
    BY <2>1, VisitedShape
  <2> QED
    BY <2>2 DEF Eligible
<1>3. ASSUME NEW i \in Eligible(m), i < row + 1
      PROVE  Traced(m, i)'
  <2>1. CASE i < row
    BY <2>1, TracedStays DEF IInv, Handled
  <2>2. CASE i = row
    BY <2>2
  <2> QED
    BY <1>1, <1>2, <1>3, <2>1, <2>2
<1>4. ASSUME NEW n \in 1 .. next - 1, NEW i \in Eligible(n)
      PROVE  Traced(n, i)'
  BY TracedStays DEF IInv, Handled
<1>5. Handled'
  BY <1>3, <1>4 DEF NextRow, loop, Handled, Eligible
<1> QED
  BY <1>1, <1>5 DEF IInv, InHand, NextRow, loop

\* A row without a usable id is no Event.
LEMMA SkipRowIInv ==
  ASSUME IInv, SkipRow
  PROVE  IInv'
<1> USE DEF SkipRow, At, read, fanout, server, accounts, pBounds
<1>1. AccountsGrow /\ UNCHANGED <<redis, saved>>
  BY DEF AccountsGrow, NextRow, loop
<1>2. TypeOK' /\ Counts'
  BY <1>1, RedisStays DEF IInv, TypeOK, Counts, NextRow, loop
<1>3. Handled' /\ InHand'
  BY <1>1, NextRowHandled DEF Eligible
<1> QED
  BY <1>1, <1>2, <1>3, PlacedStays, AccountedWhileSavedStands DEF IInv

\* dataEvento is taken: the row stays in hand.
LEMMA ReadClockIInv ==
  ASSUME IInv, ReadClock
  PROVE  IInv'
<1> USE DEF ReadClock, At, loop, fanout, server, accounts, pBounds
<1>1. AccountsGrow /\ UNCHANGED <<redis, saved>>
  BY DEF AccountsGrow
<1>2. TypeOK' /\ Counts'
  BY <1>1, RedisStays DEF IInv, TypeOK, Counts
<1>3. InHand'
  BY DEF IInv, InHand
<1>4. Handled'
  BY <1>1, TracedStays DEF IInv, Handled, Eligible
<1> QED
  BY <1>1, <1>2, <1>3, <1>4, PlacedStays, AccountedWhileSavedStands DEF IInv

\* A row of a table without TableProcessor is no Event.
LEMMA UnsupportedIInv ==
  ASSUME IInv, Unsupported
  PROVE  IInv'
<1> USE DEF Unsupported, At, read, fanout, server, accounts, pBounds
<1>1. AccountsGrow /\ UNCHANGED <<redis, saved>>
  BY DEF AccountsGrow, NextRow, loop
<1>2. TypeOK' /\ Counts'
  BY <1>1, RedisStays DEF IInv, TypeOK, Counts, NextRow, loop
<1>3. Handled' /\ InHand'
  BY <1>1, NextRowHandled DEF Eligible
<1> QED
  BY <1>1, <1>2, <1>3, PlacedStays, AccountedWhileSavedStands DEF IInv

\* A set of naturals that is not empty and has a bound has a greatest element.
LEMMA Greatest ==
  ASSUME NEW c \in Nat, NEW S, S \subseteq 0 .. c, S # {}
  PROVE  \E m \in S : \A k \in S : k <= m
<1> DEFINE T == {n \in Nat : c - n \in S}
           less == OpToRel(<, Nat)
<1>0. \A k \in S : k \in Int /\ k <= c
  OBVIOUS
<1>1. T \subseteq Nat /\ T # {}
  <2>1. PICK k \in S : TRUE
    OBVIOUS
  <2>2. c - k \in Nat /\ c - (c - k) = k
    BY <1>0
  <2> QED
    BY <2>1, <2>2
<1>2. PICK t \in T : \A u \in T : ~(<<u, t>> \in less)
  <2> HIDE DEF T, less
  <2>1. IsWellFoundedOn(less, Nat)
    BY NatLessThanWellFounded DEF less
  <2> QED
    BY <1>1, <2>1, WFMin
<1>3. ASSUME NEW u \in T PROVE ~(u < t)
  <2>1. <<u, t>> \in Nat \X Nat /\ <<u, t>>[1] = u /\ <<u, t>>[2] = t
    BY <1>1
  <2> HIDE DEF T
  <2> QED
    BY <1>2, <2>1 DEF OpToRel
<1>4. c - t \in S /\ t \in Nat
  OBVIOUS
<1>5. ASSUME NEW k \in S PROVE k <= c - t
  <2>1. c - k \in T
    <3>1. c - k \in Nat /\ c - (c - k) = k
      BY <1>0
    <3> QED
      BY <3>1
  <2>2. ~(c - k < t)
    BY <1>3, <2>1
  <2> QED
    BY <1>0, <1>4, <2>2
<1> QED
  BY <1>4, <1>5

\* The changes of a resource among the first c.
Touching(r, c) == {n \in 1 .. c : \E i \in DOMAIN Visited(n) : Visited(n)[i].res = r}

\* The state read of a resource is that of the last of the changes committed so far.
LEMMA VersionShape ==
  ASSUME NEW c \in Nat, NEW r
  PROVE  /\ Version(r, c) \in 0 .. c
         /\ \A n \in Touching(r, c) : n <= Version(r, c)
         /\ Version(r, c) \in Touching(r, c) \cup {0}
<1>1. CASE Touching(r, c) = {}
  BY <1>1 DEF Version, Touching
<1>2. CASE Touching(r, c) # {}
  <2>1. Touching(r, c) \subseteq 0 .. c
    BY DEF Touching
  <2>2. \E m \in Touching(r, c) : \A k \in Touching(r, c) : k <= m
    BY <1>2, <2>1, Greatest
  <2> DEFINE top == CHOOSE n \in Touching(r, c) : \A m \in Touching(r, c) : m <= n
  <2>3. top \in Touching(r, c) /\ \A m \in Touching(r, c) : m <= top
    BY <2>2
  <2>4. Version(r, c) = top
    BY <1>2 DEF Version, Touching
  <2> QED
    BY <2>1, <2>3, <2>4
<1> QED
  BY <1>1, <1>2

\* What is read of a resource is no older than any change of it committed by then.
LEMMA VersionReaches ==
  ASSUME NEW c \in Nat, NEW n \in 1 .. c, NEW i \in DOMAIN Visited(n)
  PROVE  n <= Version(Visited(n)[i].res, c)
<1>1. n \in Touching(Visited(n)[i].res, c)
  BY DEF Touching
<1> QED
  BY <1>1, VersionShape

\* A later reading is no older.
LEMMA VersionGrows ==
  ASSUME NEW c \in Nat, NEW d \in Nat, c <= d, NEW r
  PROVE  Version(r, c) <= Version(r, d)
<1>1. Touching(r, c) \subseteq Touching(r, d)
  BY DEF Touching
<1>2. CASE Version(r, c) = 0
  BY <1>2, VersionShape
<1>3. CASE Version(r, c) \in Touching(r, c)
  BY <1>1, <1>3, VersionShape
<1> QED
  BY <1>2, <1>3, VersionShape

\* The Contrato of the row in hand is a Contrato, of the resource of the row.
LEMMA ContratoShape ==
  ASSUME IInv, up, pc # "read", row \in DOMAIN Visited(next)
  PROVE  Contrato(next, row) \in Contratos /\ Contrato(next, row).res = Visited(next)[row].res
<1>1. next \in DOMAIN Changes /\ Visited(next)[row].res \in Resources
  BY RowInHand
<1>2. Len(Changes) \in Nat /\ DOMAIN Changes = 1 .. Len(Changes)
  BY ProducerAssumption
<1>3. Version(Visited(next)[row].res, committed) \in 0 .. Len(Changes)
  <2>1. committed \in 0 .. Len(Changes)
    BY DEF IInv, TypeOK
  <2> QED
    BY <1>2, <2>1, VersionShape
<1>4. next \in 0 .. Len(Changes)
  BY <1>1, <1>2
<1>5. date \in Dates
  BY DEF IInv, TypeOK
<1> QED
  BY <1>1, <1>3, <1>4, <1>5 DEF Contrato, Contratos, TipoModificacaoDe

\* The Contrato is built: no target was called yet.
LEMMA BuildIInv ==
  ASSUME IInv, Build
  PROVE  IInv'
<1> USE DEF Build, At, loop, read, server, accounts, pBounds
<1>1. AccountsGrow /\ UNCHANGED <<redis, saved>>
  BY DEF AccountsGrow
<1>2. row \in DOMAIN Visited(next) /\ payload' \in Contratos
      /\ payload'.res = Visited(next)[row].res
  BY ContratoShape DEF IInv, InHand
<1>3. TypeOK' /\ Counts'
  BY <1>1, <1>2, RedisStays, NamesAssumption, ProducerAssumption DEF IInv, TypeOK, Counts
<1>4. InHand'
  BY <1>2 DEF IInv, InHand
<1>5. Handled'
  BY <1>1, TracedStays DEF IInv, Handled, Eligible
<1> QED
  BY <1>1, <1>3, <1>4, <1>5, PlacedStays, AccountedWhileSavedStands DEF IInv

-----------------------------------------------------------------------------
(* The fan-out *)

\* An enqueue adds one task to one queue.
LEMMA InsertShape ==
  ASSUME AsynqType, NEW q \in Queues, NEW id \in Ids, NEW b \in Bodies, Insert(q, id, b)
  PROVE  /\ AsynqType'
         /\ \A p \in Queues, j \in Ids : Exists(p, j)' <=> (Exists(p, j) \/ (p = q /\ j = id))
<1>1. status' \in [Queues -> [Ids -> Statuses]]
  BY DEF AsynqType, Insert, Statuses
<1>2. 0 \in 0 .. MaxRetry
  BY AsynqAssumption
<1>3. retried' \in [Queues -> [Ids -> 0 .. MaxRetry]] /\ body' \in [Queues -> [Ids -> Bodies \cup {NoBody}]]
  BY <1>2 DEF AsynqType, Insert
<1>4. Append(pending[q], id) \in Seq(Ids) /\ Append(arrived[q], id) \in Seq(Ids)
  BY AppendProperties DEF AsynqType
<1>5. pending' \in [Queues -> Seq(Ids)] /\ arrived' \in [Queues -> Seq(Ids)]
  BY <1>4 DEF AsynqType, Insert
<1>6. \A p \in Queues, j \in Ids : Exists(p, j)' <=> (Exists(p, j) \/ (p = q /\ j = id))
  BY DEF AsynqType, Insert, Exists
<1> QED
  BY <1>1, <1>3, <1>5, <1>6 DEF AsynqType

\* The next target takes the event, knows it, or fails: if it did not fail, it has had
\* the event.
LEMMA CallTargetIInv ==
  ASSUME IInv, CallTarget
  PROVE  IInv'
<1> DEFINE id == EventId(next, row)
           t == Targets[tgt + 1]
           q == ShardFor(t, payload.res)
<1>1. /\ row \in DOMAIN Visited(next) /\ next \in DOMAIN Changes /\ id \in Ids
      /\ payload \in Contratos /\ payload.res = Visited(next)[row].res
      /\ payload.res \in Resources /\ payload \in Bodies
  BY RowInHand, NamesAssumption DEF IInv, InHand, CallTarget, At
<1>2. tgt \in Nat /\ Len(Targets) \in Nat /\ tgt + 1 \in 1 .. Len(Targets)
      /\ DOMAIN Targets = 1 .. Len(Targets)
  BY ProducerAssumption DEF IInv, TypeOK, CallTarget
<1>3. q \in Queues /\ q[1] = t
  BY <1>1, <1>2, ShardShape
<1>4. /\ UNCHANGED <<up, next, saved, pc, row, date, clock, payload, committed,
                     failedEvents, aborted, unsaved>>
      /\ tgt' = tgt + 1 /\ up /\ pc = "fanout"
  BY DEF CallTarget, At, loop, read, server
<1>5. \/ inserted' = inserted \cup {<<t, id>>} /\ Insert(q, id, payload)
      \/ UNCHANGED <<inserted, redis>>
  BY DEF CallTarget
<1>6. \/ UNCHANGED <<errs, dups>> /\ inserted' = inserted \cup {<<t, id>>}
      \/ UNCHANGED <<errs, inserted>> /\ dups' = dups + 1 /\ Exists(q, id)
      \/ errs' = errs + 1 /\ UNCHANGED dups
  BY DEF CallTarget
<1> HIDE DEF id, t, q
<1>7. AccountsGrow
  BY <1>4, <1>5 DEF AccountsGrow
<1>8. TypeOK' /\ Counts'
  <2>1. AsynqType'
    BY <1>1, <1>3, <1>5, InsertShape, RedisStays DEF IInv, TypeOK
  <2>2. t \in {Targets[k] : k \in DOMAIN Targets}
    BY <1>2 DEF t
  <2>3. inserted' \subseteq {Targets[k] : k \in DOMAIN Targets} \X Ids
    BY <1>1, <1>5, <2>2 DEF IInv, TypeOK
  <2>4. errs' \in Nat /\ dups' \in Nat /\ errs' + dups' <= tgt'
    BY <1>2, <1>4, <1>6 DEF IInv, TypeOK, Counts
  <2>5. tgt' \in 0 .. Len(Targets)
    BY <1>2, <1>4
  <2> QED
    BY <1>4, <2>1, <2>3, <2>4, <2>5 DEF IInv, TypeOK, Counts
<1>9. InHand'
  BY <1>4 DEF IInv, InHand
<1>10. Handled'
  <2>1. ASSUME NEW n \in 1 .. next - 1, NEW i \in Eligible(n) PROVE Traced(n, i)'
    BY <1>4, <1>7, TracedStays DEF IInv, Handled
  <2>2. ASSUME NEW n, n = next, NEW i \in Eligible(n), i < row PROVE Traced(n, i)'
    BY <1>4, <1>7, <2>2, TracedStays DEF IInv, Handled
  <2>3. ASSUME errs' = 0, NEW k \in 1 .. tgt + 1
        PROVE  <<Targets[k], id>> \in inserted'
    <3>1. errs = 0 /\ errs' # errs + 1
      BY <1>6, <2>3 DEF IInv, Counts
    <3>2. <<t, id>> \in inserted'
      BY <1>1, <1>3, <1>6, <3>1 DEF IInv, Placed
    <3>3. CASE k \in 1 .. tgt
      BY <1>4, <1>7, <3>1, <3>3 DEF IInv, Handled, AccountsGrow, id
    <3>4. CASE k = tgt + 1
      BY <3>2, <3>4 DEF t
    <3> QED
      BY <1>2, <3>3, <3>4
  <2> QED
    BY <1>4, <2>1, <2>2, <2>3 DEF Handled, Eligible, id, EventId
<1>11. Placed'
  <2>1. CASE UNCHANGED redis
    BY <1>7, <2>1, PlacedStays DEF IInv
  <2>2. CASE inserted' = inserted \cup {<<t, id>>} /\ Insert(q, id, payload)
    <3>1. \A p \in Queues, j \in Ids : Exists(p, j)' <=> (Exists(p, j) \/ (p = q /\ j = id))
      BY <1>1, <1>3, <2>2, InsertShape DEF IInv, TypeOK
    <3>2. id = EventId(next, row) /\ q = ShardFor(q[1], Visited(next)[row].res)
      BY <1>1, <1>3 DEF id, q
    <3> QED
      BY <1>1, <1>3, <1>7, <2>2, <3>1, <3>2 DEF IInv, Placed, AccountsGrow
  <2> QED
    BY <1>5, <2>1, <2>2
<1> QED
  BY <1>4, <1>7, <1>8, <1>9, <1>10, <1>11, AccountedWhileSavedStands DEF IInv

\* emit: when every target was called and none failed each has had the event, otherwise
\* it is in failed_events, or in the log.
LEMMA EmitIInv ==
  ASSUME IInv, Emit
  PROVE  IInv'
<1> DEFINE id == EventId(next, row)
<1>1. id \in Ids
  BY RowInHand DEF IInv, InHand, Emit, At
<1>2. /\ UNCHANGED <<date, clock, tgt, errs, dups, committed, aborted, inserted, redis>>
      /\ NextRow /\ payload' = NoBody /\ up /\ pc = "fanout" /\ tgt = Len(Targets)
  BY DEF Emit, At, read, fanout, server
<1>3. \/ FanoutResult(errs, dups) # "error" /\ UNCHANGED <<failedEvents, unsaved>>
      \/ failedEvents' = failedEvents \cup {id} /\ UNCHANGED unsaved
      \/ unsaved' = unsaved \cup {id} /\ UNCHANGED failedEvents
  BY DEF Emit
<1> HIDE DEF id
<1>4. AccountsGrow /\ UNCHANGED saved
  BY <1>2, <1>3 DEF AccountsGrow, NextRow, loop
<1>5. TypeOK' /\ Counts'
  BY <1>1, <1>2, <1>3, RedisStays DEF IInv, TypeOK, Counts, NextRow, loop
<1>6. Handled' /\ InHand'
  <2>1. CASE FanoutResult(errs, dups) # "error" /\ UNCHANGED <<failedEvents, unsaved>>
    <3>1. Len(Targets) \in Nat /\ DOMAIN Targets = 1 .. Len(Targets)
      BY ProducerAssumption
    <3>2. Len(Targets) = 0 \/ errs = 0
      BY <2>1, <3>1 DEF FanoutResult, IInv, Counts
    <3>3. \A k \in DOMAIN Targets : <<Targets[k], id>> \in inserted
      BY <1>2, <3>1, <3>2 DEF IInv, Handled, id
    <3>4. ASSUME NEW n, n = next, NEW i, i = row PROVE Traced(n, i)'
      BY <1>2, <3>3, <3>4 DEF Traced, Reached, id
    <3> QED
      BY <1>2, <1>4, <3>4, NextRowHandled
  <2>2. CASE id \in failedEvents' \cup unsaved'
    <3>1. ASSUME NEW n, n = next, NEW i, i = row PROVE Traced(n, i)'
      BY <2>2, <3>1 DEF Traced, Reached, id, EventId
    <3> QED
      BY <1>2, <1>4, <3>1, NextRowHandled
  <2> QED
    BY <1>3, <2>1, <2>2
<1> QED
  BY <1>2, <1>4, <1>5, <1>6, PlacedStays, AccountedWhileSavedStands DEF IInv

-----------------------------------------------------------------------------
(* The steps around them *)

\* A place is saved: every event before the next was accounted for.
LEMMA SaveIInv ==
  ASSUME IInv, Save
  PROVE  IInv'
<1> USE DEF Save, At, read, fanout, server, accounts, pBounds
<1>1. AccountsGrow /\ UNCHANGED redis
  BY DEF AccountsGrow
<1>2. Len(Changes) \in Nat /\ next \in 1 .. Len(Changes) + 1 /\ saved \in 0 .. Len(Changes)
      /\ saved' \in 0 .. Len(Changes) /\ saved' <= next - 1
  BY ProducerAssumption DEF IInv, TypeOK
<1>3. TypeOK' /\ Counts'
  BY <1>1, <1>2, RedisStays DEF IInv, TypeOK, Counts
<1>4. InHand'
  BY DEF IInv, InHand
<1>5. Handled'
  BY <1>1, TracedStays DEF IInv, Handled, Eligible
<1>6. EveryRowAccounted'
  <2>1. 1 .. saved' \subseteq 1 .. next - 1
    BY <1>2
  <2>2. ASSUME NEW n \in 1 .. saved', NEW i \in Eligible(n) PROVE Traced(n, i)'
    BY <1>1, <2>1, TracedStays DEF IInv, Handled
  <2> QED
    BY <2>2 DEF EveryRowAccounted, Traced, Eligible
<1> QED
  BY <1>1, <1>3, <1>4, <1>5, <1>6, PlacedStays DEF IInv

\* The process dies: what is in hand is forgotten, and not what was accounted for.
LEMMA CrashIInv ==
  ASSUME IInv, Crash
  PROVE  IInv'
<1> USE DEF Crash, read, fanout, server, accounts
<1>1. AccountsGrow /\ UNCHANGED <<redis, saved>>
  BY DEF AccountsGrow
<1>2. TypeOK' /\ Counts'
  BY <1>1, RedisStays DEF IInv, TypeOK, Counts
<1>3. InHand' /\ Handled'
  BY DEF InHand, Handled
<1> QED
  BY <1>1, <1>2, <1>3, PlacedStays, AccountedWhileSavedStands DEF IInv

\* The ERP commits a change the producer has yet to read.
LEMMA CommitIInv ==
  ASSUME IInv, Commit
  PROVE  IInv'
<1> USE DEF Commit, loop, read, fanout, accounts, pBounds
<1>1. AccountsGrow /\ UNCHANGED <<redis, saved>>
  BY DEF AccountsGrow
<1>2. Len(Changes) \in Nat /\ committed \in 0 .. Len(Changes) /\ next \in Nat
  BY ProducerAssumption DEF IInv, TypeOK
<1>3. TypeOK' /\ Counts'
  BY <1>1, <1>2, RedisStays DEF IInv, TypeOK, Counts
<1>4. InHand'
  BY <1>2 DEF IInv, InHand
<1>5. Handled'
  BY <1>1, TracedStays DEF IInv, Handled, Eligible
<1> QED
  BY <1>1, <1>3, <1>4, <1>5, PlacedStays, AccountedWhileSavedStands DEF IInv

\* A consumer that makes no task leaves the producer what it relies on.
LEMMA RedisMoves ==
  ASSUME IInv, UNCHANGED producer, AsynqType',
         \A q \in Queues, id \in Ids : Exists(q, id)' => Exists(q, id)
  PROVE  IInv'
<1> USE DEF producer, loop, read, fanout, server, accounts, pBounds
<1>1. AccountsGrow /\ UNCHANGED saved
  BY DEF AccountsGrow
<1>2. TypeOK' /\ Counts'
  BY DEF IInv, TypeOK, Counts
<1>3. InHand'
  BY DEF IInv, InHand
<1>4. Handled'
  BY <1>1, TracedStays DEF IInv, Handled, Eligible
<1>5. Placed'
  BY DEF IInv, Placed
<1> QED
  BY <1>1, <1>2, <1>3, <1>4, <1>5, AccountedWhileSavedStands DEF IInv

\* A task is processed and leaves Redis.
LEMMA ConsumedIInv ==
  ASSUME IInv, Consumed
  PROVE  IInv'
<1>0. PICK q \in Queues : \E k \in DOMAIN pending[q] :
        /\ status' = [status EXCEPT ![q][pending[q][k]] = "absent"]
        /\ body' = [body EXCEPT ![q][pending[q][k]] = NoBody]
        /\ pending' = [pending EXCEPT ![q] = SubSeq(@, 1, k - 1) \o SubSeq(@, k + 1, Len(@))]
        /\ UNCHANGED <<retried, arrived, producer>>
  BY DEF Consumed
<1>1. PICK k \in DOMAIN pending[q] :
        /\ status' = [status EXCEPT ![q][pending[q][k]] = "absent"]
        /\ body' = [body EXCEPT ![q][pending[q][k]] = NoBody]
        /\ pending' = [pending EXCEPT ![q] = SubSeq(@, 1, k - 1) \o SubSeq(@, k + 1, Len(@))]
        /\ UNCHANGED <<retried, arrived, producer>>
  BY <1>0
<1>2. AsynqType'
  <2>1. pending[q] \in Seq(Ids) /\ k \in 1 .. Len(pending[q]) /\ Len(pending[q]) \in Nat
    BY DEF IInv, TypeOK, AsynqType
  <2>2. SubSeq(pending[q], 1, k - 1) \in Seq(Ids)
    BY <2>1, SubSeqProperties
  <2>3. SubSeq(pending[q], k + 1, Len(pending[q])) \in Seq(Ids)
    BY <2>1, SubSeqProperties
  <2>4. SubSeq(pending[q], 1, k - 1) \o SubSeq(pending[q], k + 1, Len(pending[q])) \in Seq(Ids)
    BY <2>2, <2>3, ConcatProperties
  <2>5. pending' \in [Queues -> Seq(Ids)]
    BY <1>1, <2>4 DEF IInv, TypeOK, AsynqType
  <2>6. status' \in [Queues -> [Ids -> Statuses]] /\ body' \in [Queues -> [Ids -> Bodies \cup {NoBody}]]
    BY <1>1 DEF IInv, TypeOK, AsynqType, Statuses
  <2> QED
    BY <1>1, <2>5, <2>6 DEF IInv, TypeOK, AsynqType
<1>3. \A p \in Queues, j \in Ids : Exists(p, j)' => Exists(p, j)
  BY <1>1 DEF IInv, TypeOK, AsynqType, Exists
<1>4. UNCHANGED producer
  BY <1>1
<1> QED
  BY <1>2, <1>3, <1>4, RedisMoves

\* A step that changes nothing.
LEMMA StutterIInv ==
  ASSUME IInv, UNCHANGED vars
  PROVE  IInv'
<1> USE DEF vars, producer, loop, read, fanout, server, accounts, pBounds
<1>1. AccountsGrow /\ UNCHANGED <<redis, saved>>
  BY DEF AccountsGrow
<1>2. TypeOK' /\ Counts'
  BY <1>1, RedisStays DEF IInv, TypeOK, Counts
<1>3. InHand'
  BY DEF IInv, InHand
<1>4. Handled'
  BY <1>1, TracedStays DEF IInv, Handled, Eligible
<1> QED
  BY <1>1, <1>2, <1>3, <1>4, PlacedStays, AccountedWhileSavedStands DEF IInv

-----------------------------------------------------------------------------
(* The producer's theorems *)

\* Every step of the producer, of the ERP and of asynq keeps the invariant.
LEMMA NextIInv ==
  ASSUME IInv, [Next]_vars
  PROVE  IInv'
BY StartIInv, HandleEventIInv, LastRowIInv, SkipRowIInv, ReadClockIInv, UnsupportedIInv,
   AbortIInv, BuildIInv, CallTargetIInv, EmitIInv, SaveIInv, CrashIInv, CommitIInv,
   ConsumedIInv, StutterIInv
   DEF Next, Step, Finished

\* The invariant holds at all times.
THEOREM Invariant == Spec => []IInv
<1>1. Init => IInv
  BY InitIInv
<1>2. IInv /\ [Next]_vars => IInv'
  BY NextIInv
<1> QED
  BY <1>1, <1>2, PTL DEF Spec

\* The state of the producer, and of the tasks it made, is well formed at all times: in
\* particular every Event of every row has a queue to go to.
THEOREM TypeCorrect == Spec => []TypeOK
BY Invariant, PTL DEF IInv

\* README: "nenhum evento é perdido silenciosamente".  Whatever the log, the targets and
\* the number of crashes and failures: a restart never passes over a row that did not
\* reach every target of the fan-out or failed_events, unless the log says so.
THEOREM NoRowLostInSilence == Spec => []EveryRowAccounted
BY Invariant, PTL DEF IInv

\* The shard of an Event is a function of its resource, and its resource of its id.
LEMMA OneShard == IInv => OneTaskPerTarget
<1> SUFFICES ASSUME IInv, NEW p \in Queues, NEW q \in Queues, NEW id \in Ids,
                    p[1] = q[1], Exists(p, id), Exists(q, id)
             PROVE  p = q
  BY DEF OneTaskPerTarget
<1>1. PICK n \in DOMAIN Changes : \E i \in DOMAIN Visited(n) :
        id = EventId(n, i) /\ p = ShardFor(p[1], Visited(n)[i].res)
  BY DEF IInv, Placed
<1>2. PICK i \in DOMAIN Visited(n) :
        id = EventId(n, i) /\ p = ShardFor(p[1], Visited(n)[i].res)
  BY <1>1
<1>3. PICK m \in DOMAIN Changes : \E j \in DOMAIN Visited(m) :
        id = EventId(m, j) /\ q = ShardFor(q[1], Visited(m)[j].res)
  BY DEF IInv, Placed
<1>4. PICK j \in DOMAIN Visited(m) :
        id = EventId(m, j) /\ q = ShardFor(q[1], Visited(m)[j].res)
  BY <1>3
<1>5. n = m /\ i = j
  BY <1>2, <1>4 DEF EventId
<1> QED
  BY <1>2, <1>4, <1>5

\* An Event is in one queue of a target at most, however often it is published: the
\* queue is a function of its resource alone.
THEOREM OneShardPerEvent == Spec => []OneTaskPerTarget
BY Invariant, OneShard, PTL

-----------------------------------------------------------------------------
(* The consumer *)

\* A removal is the only thing the producer makes that no route takes (modificacoesSemRota).
Removal(id) == Changes[id[1]].action = "DELETE"

\* What a task of this id may carry.
Fits(b, id) ==
  /\ b \in Contratos /\ b.mod = TipoModificacaoDe(Changes[id[1]].action)
  /\ b.res = Visited(id[1])[id[2]].res /\ b.capa = id[1] /\ b.capa <= b.enr

\* What is in Redis, or on its way there, is what the producer made of that row.
Carried ==
  /\ \A q \in Queues, id \in Ids : Exists(q, id) => Fits(body[q][id], id)
  /\ up /\ pc = "fanout" => Fits(payload, EventId(next, row))

ConsumerTypes ==
  /\ worker \in [Queues -> Ids \cup {None}]
  /\ result \in [Queues -> {"running", "ok", "error"}]
  /\ received \in [Queues -> Seq([id : Ids, body : Bodies])]

\* A queue lists pending tasks, each once.
Waiting(q) ==
  /\ IsInjective(pending[q])
  /\ \A i \in ToSet(pending[q]) : status[q][i] = "pending"

\* The task in hand is active, and what the handler calls done was received.
Held(q) ==
  worker[q] # None =>
    /\ status[q][worker[q]] = "active"
    /\ result[q] = "ok" => D!Received(q, worker[q]) \/ Removal(worker[q])

\* What a target was given is still in Redis, was received, or is a removal.
Kept ==
  \A t, id :
    <<t, id>> \in inserted =>
      Removal(id) \/ \E q \in Queues : Exists(q, id) \/ D!Received(q, id)

\* The inductive invariant of the two processes together.
PInv ==
  /\ IInv
  /\ ConsumerTypes
  /\ Carried
  /\ \A q \in Queues : Waiting(q) /\ Held(q)
  /\ Kept

\* The consumer can decode all that the producer makes, and posts it unless it is a
\* removal (rotaPorTipo, modificacoesSemRota).
LEMMA RouteFacts ==
  ASSUME NEW id, NEW b, Fits(b, id)
  PROVE  ~D!Corrupt(b) /\ (D!Routed(b) \/ Removal(id)) /\ b \in Bodies
<1>1. b.tipo = "pedidos" /\ b \in Bodies
  BY NamesAssumption DEF Fits, Contratos
<1>2. Removal(id) \/ b.mod # "D"
  BY DEF Fits, Removal, TipoModificacaoDe
<1> QED
  BY <1>1, <1>2 DEF D!Corrupt, D!Routed, D!TipoOf, D!Routes, D!NoRoute

LEMMA InitPInv ==
  ASSUME PipelineInit
  PROVE  PInv
<1>1. IInv
  BY InitIInv DEF PipelineInit
<1>2. /\ worker = [q \in Queues |-> None] /\ result = [q \in Queues |-> "running"]
      /\ received = [q \in Queues |-> <<>>]
  BY DEF PipelineInit, D!Init
<1>3. /\ \A q \in Queues, id \in Ids : ~Exists(q, id)
      /\ \A q \in Queues : pending[q] = <<>>
      /\ ~up /\ inserted = {}
  BY DEF PipelineInit, Init, AsynqInit, Exists
<1>4. ConsumerTypes
  BY <1>2 DEF ConsumerTypes
<1>5. ASSUME NEW q \in Queues PROVE Waiting(q) /\ Held(q)
  <2>1. pending[q] = <<>> /\ DOMAIN pending[q] = {} /\ worker[q] = None
    BY <1>2, <1>3
  <2> QED
    BY <2>1 DEF Waiting, Held, IsInjective, ToSet
<1> QED
  BY <1>1, <1>3, <1>4, <1>5 DEF PInv, Carried, Kept

-----------------------------------------------------------------------------
(* The producer beside the consumer *)

\* Every step of the producer keeps what the producer relies on.
LEMMA StepIInv ==
  ASSUME IInv, Step
  PROVE  IInv'
BY StartIInv, HandleEventIInv, LastRowIInv, SkipRowIInv, ReadClockIInv, UnsupportedIInv,
   AbortIInv, BuildIInv, CallTargetIInv, EmitIInv, SaveIInv, CrashIInv, CommitIInv
   DEF Step

\* What the fan-out publishes is the Contrato of the row in hand.
LEMMA PayloadFits ==
  ASSUME IInv, Carried, Step
  PROVE  (up /\ pc = "fanout" => Fits(payload, EventId(next, row)))'
<1> SUFFICES ASSUME up', pc' = "fanout" PROVE Fits(payload', EventId(next', row'))
  BY DEF Fits, EventId, Removal
<1>1. CASE Build
  <2>1. /\ next' = next /\ row' = row /\ payload' = Contrato(next, row)
        /\ up /\ pc = "build"
    BY <1>1 DEF Build, At, loop
  <2>2. Contrato(next, row) \in Contratos /\ row \in DOMAIN Visited(next)
    BY <2>1, ContratoShape DEF IInv, InHand
  <2>3. next <= committed /\ next \in Nat \ {0} /\ committed \in Nat
    BY <2>1, ProducerAssumption DEF IInv, TypeOK, InHand
  <2>4. next <= Version(Visited(next)[row].res, committed)
    BY <2>2, <2>3, VersionReaches
  <2>5. /\ Contrato(next, row).capa = next
        /\ Contrato(next, row).enr \in {next, Version(Visited(next)[row].res, committed)}
    BY DEF Contrato
  <2> QED
    BY <2>1, <2>2, <2>3, <2>4, <2>5 DEF Fits, EventId, Contrato
<1>2. CASE CallTarget \/ Commit
  <2>1. UNCHANGED <<up, pc, next, row, payload>>
    BY <1>2 DEF CallTarget, Commit, loop
  <2> QED
    BY <2>1 DEF Carried
<1>3. CASE ~(Build \/ CallTarget \/ Commit)
  BY <1>3 DEF Step, Start, HandleEvent, LastRow, SkipRow, ReadClock, Unsupported, Abort, Emit,
              Save, Crash, At, DoneWithEvent, NextRow, loop
<1> QED
  BY <1>1, <1>2, <1>3

\* A step of the producer in which nothing is enqueued.
LEMMA ProducerBesides ==
  ASSUME PInv, Step, UNCHANGED <<consumer, redis, inserted>>
  PROVE  PInv'
<1>1. IInv' /\ (up /\ pc = "fanout" => Fits(payload, EventId(next, row)))'
  BY StepIInv, PayloadFits DEF PInv
<1>2. UNCHANGED <<status, body, pending, worker, result, received>>
  BY DEF consumer, redis
<1>3. Carried'
  BY <1>1, <1>2 DEF PInv, Carried, Exists, Fits
<1>4. ConsumerTypes'
  BY <1>2 DEF PInv, ConsumerTypes
<1>5. ASSUME NEW q \in Queues PROVE Waiting(q)' /\ Held(q)'
  BY <1>2 DEF PInv, Waiting, Held, Removal, D!Received
<1>6. Kept'
  BY <1>2 DEF PInv, Kept, Exists, Removal, D!Received
<1> QED
  BY <1>1, <1>3, <1>4, <1>5, <1>6 DEF PInv
-----------------------------------------------------------------------------
(* Lists of pending tasks *)

\* One more at the end.
LEMMA AtTheEnd ==
  ASSUME NEW s \in Seq(Ids), NEW e \in Ids, IsInjective(s), e \notin ToSet(s)
  PROVE  /\ Append(s, e) \in Seq(Ids) /\ IsInjective(Append(s, e))
         /\ ToSet(Append(s, e)) = ToSet(s) \cup {e}
<1> DEFINE t == Append(s, e)
<1>1. /\ t \in Seq(Ids) /\ DOMAIN t = 1 .. Len(s) + 1 /\ DOMAIN s = 1 .. Len(s) /\ Len(s) \in Nat
      /\ t[Len(s) + 1] = e /\ \A k \in 1 .. Len(s) : t[k] = s[k] /\ s[k] # e
  BY DEF ToSet
<1> HIDE DEF t
<1>2. IsInjective(t) /\ ToSet(t) = ToSet(s) \cup {e}
  BY <1>1 DEF IsInjective, ToSet
<1> QED
  BY <1>1, <1>2 DEF t

\* One more in front.
LEMMA AtTheFront ==
  ASSUME NEW s \in Seq(Ids), NEW e \in Ids, IsInjective(s), e \notin ToSet(s)
  PROVE  /\ <<e>> \o s \in Seq(Ids) /\ IsInjective(<<e>> \o s)
         /\ ToSet(<<e>> \o s) = ToSet(s) \cup {e}
<1> DEFINE t == <<e>> \o s
<1>1. <<e>> \in Seq(Ids) /\ Len(<<e>>) = 1 /\ <<e>>[1] = e
  OBVIOUS
<1>2. /\ t \in Seq(Ids) /\ Len(t) = 1 + Len(s) /\ Len(s) \in Nat
      /\ \A k \in 1 .. 1 + Len(s) : t[k] = IF k <= 1 THEN <<e>>[k] ELSE s[k - 1]
  BY <1>1, ConcatProperties
<1> HIDE DEF t
<1>3. DOMAIN t = 1 .. Len(s) + 1 /\ DOMAIN s = 1 .. Len(s)
  BY <1>2
<1>4. t[1] = e /\ \A k \in DOMAIN t : k # 1 => k - 1 \in DOMAIN s /\ t[k] = s[k - 1] /\ t[k] # e
  BY <1>1, <1>2, <1>3 DEF ToSet
<1>5. IsInjective(t)
  <2>1. ASSUME NEW x \in DOMAIN t, NEW y \in DOMAIN t, t[x] = t[y] PROVE x = y
    <3>1. CASE x = 1 \/ y = 1
      BY <1>4, <2>1, <3>1
    <3>2. CASE x # 1 /\ y # 1
      <4>1. x - 1 \in DOMAIN s /\ y - 1 \in DOMAIN s /\ s[x - 1] = s[y - 1]
        BY <1>4, <2>1, <3>2
      <4>2. x - 1 = y - 1
        BY <4>1 DEF IsInjective
      <4> QED
        BY <1>3, <4>2
    <3> QED
      BY <3>1, <3>2
  <2> QED
    BY <2>1 DEF IsInjective
<1>6. ToSet(t) = ToSet(s) \cup {e}
  <2>1. \A k \in DOMAIN s : k + 1 \in DOMAIN t /\ t[k + 1] = s[k]
    BY <1>2, <1>3, <1>4
  <2>2. 1 \in DOMAIN t
    BY <1>2, <1>3
  <2> QED
    BY <1>4, <2>1, <2>2 DEF ToSet
<1> QED
  BY <1>2, <1>5, <1>6 DEF t

\* The first one taken.
LEMMA WithoutHead ==
  ASSUME NEW s \in Seq(Ids), s # <<>>, IsInjective(s)
  PROVE  /\ Head(s) \in ToSet(s) /\ Tail(s) \in Seq(Ids) /\ IsInjective(Tail(s))
         /\ ToSet(Tail(s)) \subseteq ToSet(s) \ {Head(s)}
<1> DEFINE t == Tail(s)
<1>1. /\ t \in Seq(Ids) /\ Len(t) = Len(s) - 1 /\ Len(s) \in Nat \ {0} /\ Len(t) \in Nat
      /\ \A k \in 1 .. Len(t) : t[k] = s[k + 1]
  BY HeadTailProperties, EmptySeq
<1>2. Head(s) = s[1] /\ DOMAIN s = 1 .. Len(s)
  OBVIOUS
<1> HIDE DEF t
<1>3. DOMAIN t = 1 .. Len(s) - 1 /\ 1 \in DOMAIN s
  BY <1>1, <1>2
<1>4. \A k \in DOMAIN t : k + 1 \in DOMAIN s /\ k + 1 # 1 /\ t[k] = s[k + 1]
  BY <1>1, <1>2, <1>3
<1>5. IsInjective(t)
  BY <1>1, <1>3, <1>4 DEF IsInjective
<1>6. ToSet(t) \subseteq ToSet(s) \ {Head(s)}
  BY <1>2, <1>3, <1>4 DEF ToSet, IsInjective
<1> QED
  BY <1>1, <1>2, <1>3, <1>5, <1>6 DEF t, ToSet

-----------------------------------------------------------------------------
(* The fan-out beside the consumer *)

\* A target takes an event: what the worker of its queue holds is another one.
LEMMA EnqueuePInv ==
  ASSUME PInv, IInv', (up /\ pc = "fanout" => Fits(payload, EventId(next, row)))',
         UNCHANGED consumer,
         NEW q \in Queues, NEW id \in Ids, NEW t, NEW b \in Bodies, Fits(b, id),
         Insert(q, id, b), inserted' = inserted \cup {<<t, id>>}
  PROVE  PInv'
<1>1. UNCHANGED <<worker, result, received>>
  BY DEF consumer
<1>2. AsynqType /\ ~Exists(q, id)
  BY DEF PInv, IInv, TypeOK, Insert
<1>3. /\ status'[q][id] = "pending" /\ body'[q][id] = b
      /\ pending'[q] = Append(pending[q], id)
      /\ \A i \in Ids \ {id} : status'[q][i] = status[q][i] /\ body'[q][i] = body[q][i]
      /\ \A p \in Queues \ {q} :
           status'[p] = status[p] /\ body'[p] = body[p] /\ pending'[p] = pending[p]
  BY <1>2 DEF AsynqType, Insert
<1>4. Carried'
  BY <1>3 DEF PInv, Carried, Exists, Fits
<1>5. ASSUME NEW p \in Queues PROVE Waiting(p)' /\ Held(p)'
  <2>1. CASE p = q
    <3>1. pending[q] \in Seq(Ids) /\ id \notin ToSet(pending[q]) /\ IsInjective(pending[q])
      BY <1>2 DEF AsynqType, Exists, PInv, Waiting
    <3>2. IsInjective(pending'[q]) /\ ToSet(pending'[q]) = ToSet(pending[q]) \cup {id}
      BY <1>3, <3>1, AtTheEnd
    <3>3. ToSet(pending[q]) \subseteq Ids
      BY <3>1 DEF ToSet
    <3>4. Waiting(q)'
      BY <1>3, <3>2, <3>3 DEF PInv, Waiting
    <3>5. Held(q)'
      <4>1. worker[q] # None => worker[q] \in Ids /\ status[q][worker[q]] = "active"
        BY DEF PInv, ConsumerTypes, Held
      <4>2. worker[q] # None => status'[q][worker[q]] = "active"
        BY <1>2, <1>3, <4>1 DEF Exists
      <4> QED
        BY <1>1, <4>2 DEF PInv, Held, Removal, D!Received
    <3> QED
      BY <2>1, <3>4, <3>5
  <2>2. CASE p # q
    BY <1>1, <1>3, <2>2 DEF PInv, Waiting, Held, Removal, D!Received
  <2> QED
    BY <2>1, <2>2
<1>6. Kept'
  <2>1. \A p \in Queues, i \in Ids : Exists(p, i) => Exists(p, i)'
    BY <1>2, <1>3 DEF Exists
  <2>2. Exists(q, id)'
    BY <1>3 DEF Exists
  <2>3. \A u, i : <<u, i>> \in inserted => i \in Ids
    BY DEF PInv, IInv, TypeOK
  <2> QED
    BY <1>1, <2>1, <2>2, <2>3 DEF PInv, Kept, Removal, D!Received
<1>7. ConsumerTypes'
  BY <1>1 DEF PInv, ConsumerTypes
<1> QED
  BY <1>4, <1>5, <1>6, <1>7 DEF PInv

\* The target called takes the Event in hand, knows it, or fails.
LEMMA TargetCalled ==
  ASSUME PInv, CallTarget
  PROVE  \/ UNCHANGED <<inserted, redis>>
         \/ \E q \in Queues, id \in Ids : \E t :
              /\ Fits(payload, id) /\ payload \in Bodies
              /\ Insert(q, id, payload) /\ inserted' = inserted \cup {<<t, id>>}
<1>1. PICK id : id = EventId(next, row)
  OBVIOUS
<1>2. PICK t : t = Targets[tgt + 1]
  OBVIOUS
<1>3. PICK q : q = ShardFor(t, payload.res)
  OBVIOUS
<1>4. id \in Ids /\ payload.res \in Resources /\ payload \in Bodies /\ Fits(payload, id)
  BY <1>1, RowInHand, NamesAssumption DEF PInv, IInv, InHand, Carried, CallTarget, At
<1>5. q \in Queues
  <2>1. tgt + 1 \in DOMAIN Targets
    BY ProducerAssumption DEF PInv, IInv, TypeOK, CallTarget
  <2> QED
    BY <1>2, <1>3, <1>4, <2>1, ShardShape
<1>6. \/ inserted' = inserted \cup {<<t, id>>} /\ Insert(q, id, payload)
      \/ UNCHANGED <<inserted, redis>>
  BY <1>1, <1>2, <1>3 DEF CallTarget
<1> QED
  BY <1>4, <1>5, <1>6

LEMMA CallTargetPInv ==
  ASSUME PInv, CallTarget, UNCHANGED consumer
  PROVE  PInv'
<1>1. CASE UNCHANGED <<inserted, redis>>
  BY <1>1, ProducerBesides DEF Step
<1>2. ASSUME NEW q \in Queues, NEW id \in Ids, NEW t, Fits(payload, id), payload \in Bodies,
             Insert(q, id, payload), inserted' = inserted \cup {<<t, id>>}
      PROVE  PInv'
  <2>1. IInv' /\ (up /\ pc = "fanout" => Fits(payload, EventId(next, row)))'
    BY StepIInv, PayloadFits DEF PInv, Step
  <2> QED
    BY <1>2, <2>1, EnqueuePInv
<1> QED
  BY <1>1, <1>2, TargetCalled

\* No step of the producer, or of the ERP, takes a task from the consumer.
LEMMA ProducePInv ==
  ASSUME PInv, Produce
  PROVE  PInv'
<1>1. CASE CallTarget
  BY <1>1, CallTargetPInv DEF Produce
<1>2. CASE ~CallTarget
  <2>1. UNCHANGED <<redis, inserted>>
    BY <1>2 DEF Produce, Step, Start, HandleEvent, LastRow, SkipRow, ReadClock, Unsupported, Abort,
                Build, Emit, Save, Crash, Commit, accounts
  <2> QED
    BY <2>1, ProducerBesides DEF Produce
<1> QED
  BY <1>1, <1>2

-----------------------------------------------------------------------------
(* The steps of the consumer *)

\* A step within q takes from Redis only what was received, or is a removal.
LEMMA OneQueue ==
  ASSUME PInv, UNCHANGED producer, NEW q \in Queues, AsynqType', ConsumerTypes',
         \A p \in Queues \ {q} :
           /\ status'[p] = status[p] /\ body'[p] = body[p] /\ pending'[p] = pending[p]
           /\ worker'[p] = worker[p] /\ result'[p] = result[p] /\ received'[p] = received[p],
         \A i \in Ids :
           /\ Exists(q, i)' => Exists(q, i) /\ body'[q][i] = body[q][i]
           /\ Exists(q, i) => Exists(q, i)' \/ D!Received(q, i)' \/ Removal(i)
           /\ D!Received(q, i) => D!Received(q, i)',
         Waiting(q)', Held(q)'
  PROVE  PInv'
<1>1. UNCHANGED <<up, pc, next, row, payload, inserted>>
  BY DEF producer, loop, accounts
<1>2. ASSUME NEW p \in Queues, NEW i \in Ids
      PROVE  /\ Exists(p, i)' => Exists(p, i) /\ body'[p][i] = body[p][i]
             /\ Exists(p, i) => Exists(p, i)' \/ D!Received(p, i)' \/ Removal(i)
             /\ D!Received(p, i) => D!Received(p, i)'
  BY DEF Exists, D!Received
<1>3. IInv'
  BY <1>2, RedisMoves DEF PInv
<1>4. Carried'
  BY <1>1, <1>2 DEF PInv, Carried, Fits, EventId
<1>5. ASSUME NEW p \in Queues \ {q} PROVE Waiting(p)' /\ Held(p)'
  BY DEF PInv, Waiting, Held, Removal, D!Received
<1>6. Kept'
  <2>1. \A u, i : <<u, i>> \in inserted => i \in Ids
    BY DEF PInv, IInv, TypeOK
  <2> QED
    BY <1>1, <1>2, <2>1 DEF PInv, Kept, Removal
<1> QED
  BY <1>3, <1>4, <1>5, <1>6 DEF PInv
\* A worker takes the oldest pending task.
LEMMA FetchPInv ==
  ASSUME PInv, NEW q \in Queues, D!Fetch(q), UNCHANGED producer
  PROVE  PInv'
<1>1. PICK e \in Ids : D!Dequeue(q, e) /\ worker' = [worker EXCEPT ![q] = e]
  BY DEF D!Fetch
<1>2. /\ pending[q] # <<>> /\ e = Head(pending[q]) /\ status' = [status EXCEPT ![q][e] = "active"]
      /\ pending' = [pending EXCEPT ![q] = Tail(@)]
      /\ worker' = [worker EXCEPT ![q] = e] /\ result' = [result EXCEPT ![q] = "running"]
      /\ UNCHANGED <<retried, body, arrived, received>>
  BY <1>1 DEF D!Fetch, D!Dequeue
<1>3. AsynqType /\ ConsumerTypes /\ Waiting(q)
  BY DEF PInv, IInv, TypeOK
<1>4. /\ e \in ToSet(pending[q]) /\ pending'[q] = Tail(pending[q]) /\ Tail(pending[q]) \in Seq(Ids)
      /\ IsInjective(pending'[q]) /\ ToSet(pending'[q]) \subseteq ToSet(pending[q]) \ {e}
  <2>1. pending[q] \in Seq(Ids) /\ IsInjective(pending[q]) /\ pending'[q] = Tail(pending[q])
    BY <1>2, <1>3 DEF AsynqType, Waiting
  <2> QED
    BY <1>2, <2>1, WithoutHead
<1>5. status[q][e] = "pending"
  BY <1>3, <1>4 DEF Waiting
<1>6. AsynqType'
  BY <1>2, <1>3, <1>4 DEF AsynqType, Statuses
<1>7. ConsumerTypes'
  BY <1>2, <1>3 DEF ConsumerTypes
<1>8. /\ status'[q][e] = "active" /\ worker'[q] = e /\ result'[q] = "running"
      /\ \A i \in Ids \ {e} : status'[q][i] = status[q][i]
      /\ \A p \in Queues \ {q} :
           /\ status'[p] = status[p] /\ body'[p] = body[p] /\ pending'[p] = pending[p]
           /\ worker'[p] = worker[p] /\ result'[p] = result[p] /\ received'[p] = received[p]
  BY <1>2, <1>3 DEF AsynqType, ConsumerTypes
<1>9. \A i \in Ids : Exists(q, i)' <=> Exists(q, i)
  BY <1>5, <1>8 DEF Exists
<1>10. Waiting(q)'
  <2>1. ToSet(pending[q]) \subseteq Ids
    BY <1>3 DEF AsynqType, ToSet
  <2> QED
    BY <1>3, <1>4, <1>8, <2>1 DEF Waiting
<1>11. Held(q)'
  BY <1>8 DEF Held
<1> QED
  BY <1>2, <1>6, <1>7, <1>8, <1>9, <1>10, <1>11, OneQueue DEF D!Received

\* What a worker holds is in Redis, and is listed no more.
LEMMA InTheHand ==
  ASSUME PInv, NEW q \in Queues, worker[q] # None
  PROVE  /\ worker[q] \in Ids /\ status[q][worker[q]] = "active" /\ Exists(q, worker[q])
         /\ worker[q] \notin ToSet(pending[q]) /\ Fits(body[q][worker[q]], worker[q])
<1>1. worker[q] \in Ids /\ status[q][worker[q]] = "active"
  BY DEF PInv, ConsumerTypes, Held
<1>2. Exists(q, worker[q]) /\ worker[q] \notin ToSet(pending[q])
  BY <1>1 DEF PInv, Waiting, Exists
<1> QED
  BY <1>1, <1>2 DEF PInv, Carried

\* Handle calls done what it posted, or what its route drops: a removal.
LEMMA HandlePInv ==
  ASSUME PInv, NEW q \in Queues, D!Handle(q), UNCHANGED producer
  PROVE  PInv'
<1>1. PICK e : e = worker[q]
  OBVIOUS
<1>2. PICK new : new = [id |-> e, body |-> body[q][e]]
  OBVIOUS
<1>3. e # None
  BY <1>1 DEF D!Handle
<1>4. e \in Ids /\ Exists(q, e) /\ Fits(body[q][e], e)
  BY <1>1, <1>3, InTheHand
<1>5. ~D!Corrupt(body[q][e]) /\ (D!Routed(body[q][e]) \/ Removal(e)) /\ body[q][e] \in Bodies
  BY <1>4, RouteFacts
<1>6. /\ UNCHANGED worker /\ UNCHANGED <<status, retried, body, pending, arrived>>
      /\ \/ result' = [result EXCEPT ![q] = "error"]
               /\ received' \in {received, [received EXCEPT ![q] = Append(@, new)]}
         \/ result' = [result EXCEPT ![q] = "ok"] /\ received' = [received EXCEPT ![q] = Append(@, new)]
         \/ result' = [result EXCEPT ![q] = "ok"] /\ received' = received /\ Removal(e)
  BY <1>1, <1>2, <1>5 DEF D!Handle, D!Returns, D!redis
<1>7. AsynqType /\ ConsumerTypes /\ Waiting(q) /\ Held(q)
  BY DEF PInv, IInv, TypeOK
<1>8. /\ received[q] \in Seq([id : Ids, body : Bodies]) /\ new \in [id : Ids, body : Bodies] /\ new.id = e
  BY <1>2, <1>4, <1>5, <1>7 DEF ConsumerTypes
<1>9. ConsumerTypes'
  <2>1. Append(received[q], new) \in Seq([id : Ids, body : Bodies])
    BY <1>8
  <2> QED
    BY <1>6, <1>7, <2>1 DEF ConsumerTypes
<1>10. /\ \A i \in Ids : D!Received(q, i) => D!Received(q, i)'
       /\ received' = [received EXCEPT ![q] = Append(@, new)] => D!Received(q, e)'
  <2>1. CASE received' = received
    <3>1. [received EXCEPT ![q] = Append(@, new)][q] # received[q]
      BY <1>7, <1>8 DEF ConsumerTypes
    <3> QED
      BY <2>1, <3>1 DEF D!Received
  <2>2. CASE received' = [received EXCEPT ![q] = Append(@, new)]
    <3>1. received'[q] = Append(received[q], new)
      BY <1>7, <2>2 DEF ConsumerTypes
    <3>2. /\ DOMAIN received[q] = 1 .. Len(received[q]) /\ Len(received[q]) \in Nat
          /\ DOMAIN received'[q] = 1 .. Len(received[q]) + 1
          /\ received'[q][Len(received[q]) + 1] = new
          /\ \A k \in DOMAIN received[q] : received'[q][k] = received[q][k]
      BY <1>8, <3>1
    <3>3. \A k \in DOMAIN received[q] : k \in DOMAIN received'[q]
      BY <3>2
    <3>4. Len(received[q]) + 1 \in DOMAIN received'[q]
      BY <3>2
    <3> QED
      BY <1>8, <3>2, <3>3, <3>4 DEF D!Received
  <2> QED
    BY <1>6, <2>1, <2>2
<1>11. /\ worker'[q] = e /\ status'[q] = status[q]
       /\ result'[q] = "ok" => Removal(e) \/ received' = [received EXCEPT ![q] = Append(@, new)]
       /\ \A p \in Queues \ {q} : result'[p] = result[p] /\ received'[p] = received[p]
  BY <1>1, <1>6, <1>7 DEF ConsumerTypes
<1>12. Held(q)'
  BY <1>1, <1>3, <1>7, <1>10, <1>11 DEF Held, Removal
<1>13. Waiting(q)'
  BY <1>6, <1>7 DEF Waiting
<1>14. AsynqType' /\ \A i \in Ids : Exists(q, i)' <=> Exists(q, i)
  BY <1>6, <1>7 DEF AsynqType, Exists
<1> QED
  BY <1>6, <1>9, <1>10, <1>11, <1>12, <1>13, <1>14, OneQueue
\* asynq takes the task out of the hands of its worker, or finds it in no hand: its
\* attempt failed, and it stays in Redis.
LEMMA AttemptEnds ==
  ASSUME PInv, NEW q \in Queues, NEW e \in Ids, status[q][e] = "active",
         D!RetryOrArchive(q, e), worker'[q] # e,
         worker' = worker \/ worker' = [worker EXCEPT ![q] = None],
         UNCHANGED <<result, received, producer>>
  PROVE  PInv'
<1>1. PICK st \in {"retry", "archived"} :
        /\ status' = [status EXCEPT ![q][e] = st] /\ UNCHANGED <<body, pending, arrived>>
        /\ \/ retried[q][e] < MaxRetry /\ retried' = [retried EXCEPT ![q][e] = @ + 1]
           \/ UNCHANGED retried
  BY DEF D!RetryOrArchive
<1>2. AsynqType /\ ConsumerTypes /\ Waiting(q) /\ Held(q)
  BY DEF PInv, IInv, TypeOK
<1>3. status' \in [Queues -> [Ids -> Statuses]]
  BY <1>1, <1>2 DEF AsynqType, Statuses
<1>4. retried' \in [Queues -> [Ids -> 0 .. MaxRetry]]
  <2>1. retried[q][e] \in 0 .. MaxRetry /\ MaxRetry \in Nat
    BY <1>2, AsynqAssumption DEF AsynqType
  <2>2. CASE retried[q][e] < MaxRetry /\ retried' = [retried EXCEPT ![q][e] = @ + 1]
    <3>1. retried[q][e] + 1 \in 0 .. MaxRetry /\ retried' = [retried EXCEPT ![q][e] = retried[q][e] + 1]
      BY <2>1, <2>2
    <3> QED
      BY <1>2, <3>1 DEF AsynqType
  <2> QED
    BY <1>1, <1>2, <2>2 DEF AsynqType
<1>5. AsynqType'
  BY <1>1, <1>2, <1>3, <1>4 DEF AsynqType
<1>6. ConsumerTypes'
  BY <1>2 DEF ConsumerTypes
<1>7. /\ status'[q][e] = st /\ worker'[q] \in {worker[q], None}
      /\ \A i \in Ids \ {e} : status'[q][i] = status[q][i]
      /\ \A p \in Queues \ {q} : status'[p] = status[p] /\ worker'[p] = worker[p]
  BY <1>1, <1>2 DEF AsynqType, ConsumerTypes
<1>8. \A i \in Ids : Exists(q, i)' <=> Exists(q, i)
  BY <1>7 DEF Exists
<1>9. Waiting(q)'
  <2>1. pending[q] \in Seq(Ids)
    BY <1>2 DEF AsynqType
  <2>2. ToSet(pending[q]) \subseteq Ids
    BY <2>1 DEF ToSet
  <2>3. e \notin ToSet(pending[q])
    BY <1>2 DEF Waiting
  <2> QED
    BY <1>1, <1>2, <1>7, <2>2, <2>3 DEF Waiting
<1>10. Held(q)'
  <2>1. worker'[q] # None => worker'[q] = worker[q] /\ worker[q] \in Ids \ {e}
    BY <1>2, <1>7 DEF ConsumerTypes
  <2> QED
    BY <1>2, <1>7, <2>1 DEF Held, Removal, D!Received
<1> QED
  BY <1>1, <1>5, <1>6, <1>7, <1>8, <1>9, <1>10, OneQueue DEF D!Received

\* A task whose handler succeeded leaves Redis: it was received, or is a removal.
LEMMA CompletePInv ==
  ASSUME PInv, NEW q \in Queues, D!Settle(q), result[q] = "ok", UNCHANGED producer
  PROVE  PInv'
<1>1. PICK e : e = worker[q]
  OBVIOUS
<1>2. /\ e # None /\ D!Complete(q, e) /\ worker' = [worker EXCEPT ![q] = None]
      /\ UNCHANGED <<result, received>>
  BY <1>1 DEF D!Settle
<1>3. /\ status' = [status EXCEPT ![q][e] = "absent"] /\ body' = [body EXCEPT ![q][e] = NoBody]
      /\ UNCHANGED <<retried, pending, arrived>>
  BY <1>2 DEF D!Complete
<1>4. e \in Ids /\ e \notin ToSet(pending[q])
  BY <1>1, <1>2, InTheHand
<1>5. AsynqType /\ ConsumerTypes /\ Waiting(q)
  BY DEF PInv, IInv, TypeOK
<1>6. D!Received(q, e) \/ Removal(e)
  BY <1>1, <1>2 DEF PInv, Held
<1>7. AsynqType'
  BY <1>3, <1>5 DEF AsynqType, Statuses
<1>8. ConsumerTypes'
  BY <1>2, <1>5 DEF ConsumerTypes
<1>9. /\ status'[q][e] = "absent" /\ worker'[q] = None
      /\ \A i \in Ids \ {e} : status'[q][i] = status[q][i] /\ body'[q][i] = body[q][i]
      /\ \A p \in Queues \ {q} :
           status'[p] = status[p] /\ body'[p] = body[p] /\ worker'[p] = worker[p]
  BY <1>2, <1>3, <1>4, <1>5 DEF AsynqType, ConsumerTypes
<1>10. \A i \in Ids :
         /\ Exists(q, i)' => Exists(q, i) /\ body'[q][i] = body[q][i]
         /\ Exists(q, i) => Exists(q, i)' \/ D!Received(q, i)' \/ Removal(i)
         /\ D!Received(q, i) => D!Received(q, i)'
  BY <1>2, <1>6, <1>9 DEF Exists, D!Received
<1>11. Waiting(q)'
  <2>1. ToSet(pending[q]) \subseteq Ids \ {e}
    BY <1>4, <1>5 DEF AsynqType, ToSet
  <2> QED
    BY <1>3, <1>5, <1>9, <2>1 DEF Waiting
<1>12. Held(q)'
  BY <1>9 DEF Held
<1> QED
  BY <1>2, <1>3, <1>7, <1>8, <1>9, <1>10, <1>11, <1>12, OneQueue

LEMMA SettlePInv ==
  ASSUME PInv, NEW q \in Queues, D!Settle(q), UNCHANGED producer
  PROVE  PInv'
<1>1. CASE result[q] = "ok"
  BY <1>1, CompletePInv
<1>2. CASE result[q] # "ok"
  <2>1. PICK e : e = worker[q]
    OBVIOUS
  <2>2. /\ e # None /\ D!RetryOrArchive(q, e) /\ worker' = [worker EXCEPT ![q] = None]
        /\ UNCHANGED <<result, received>>
    BY <1>2, <2>1 DEF D!Settle
  <2>3. e \in Ids /\ status[q][e] = "active" /\ worker'[q] # e
    BY <2>1, <2>2, InTheHand DEF PInv, ConsumerTypes
  <2> QED
    BY <2>2, <2>3, AttemptEnds
<1> QED
  BY <1>1, <1>2

\* The recoverer finds a task a crash left alone.
LEMMA RecoverPInv ==
  ASSUME PInv, NEW q \in Queues, D!Recover(q), UNCHANGED producer
  PROVE  PInv'
<1>1. PICK e \in Ids : status[q][e] = "active" /\ worker[q] # e /\ D!RetryOrArchive(q, e)
  BY DEF D!Recover
<1>2. UNCHANGED <<worker, result, received>>
  BY DEF D!Recover, D!hands
<1> QED
  BY <1>1, <1>2, AttemptEnds

\* A task becomes pending again, at the end of its queue if it failed before, or at the
\* front if it was in the hands of a worker that stops.
LEMMA PendingAgain ==
  ASSUME PInv, NEW q \in Queues, NEW e \in Ids, status[q][e] \in {"active", "retry"},
         status' = [status EXCEPT ![q][e] = "pending"],
         \/ pending' = [pending EXCEPT ![q] = Append(@, e)]
         \/ pending' = [pending EXCEPT ![q] = <<e>> \o @],
         worker' = worker \/ worker' = [worker EXCEPT ![q] = None],
         worker'[q] # e,
         UNCHANGED <<retried, body, arrived, result, received, producer>>
  PROVE  PInv'
<1>1. AsynqType /\ ConsumerTypes /\ Waiting(q) /\ Held(q)
  BY DEF PInv, IInv, TypeOK
<1>2. pending[q] \in Seq(Ids) /\ IsInjective(pending[q]) /\ e \notin ToSet(pending[q])
      /\ ToSet(pending[q]) \subseteq Ids
  <2>1. pending[q] \in Seq(Ids)
    BY <1>1 DEF AsynqType
  <2>2. ToSet(pending[q]) \subseteq Ids
    BY <2>1 DEF ToSet
  <2> QED
    BY <1>1, <2>1, <2>2 DEF Waiting
<1>3. /\ pending'[q] \in Seq(Ids) /\ IsInjective(pending'[q])
      /\ ToSet(pending'[q]) = ToSet(pending[q]) \cup {e}
      /\ \A p \in Queues \ {q} : pending'[p] = pending[p]
      /\ pending' \in [Queues -> Seq(Ids)]
  <2>1. CASE pending' = [pending EXCEPT ![q] = Append(@, e)]
    <3>1. pending'[q] = Append(pending[q], e)
      BY <1>1, <2>1 DEF AsynqType
    <3>2. pending'[q] \in Seq(Ids) /\ IsInjective(pending'[q]) /\ ToSet(pending'[q]) = ToSet(pending[q]) \cup {e}
      BY <1>2, <3>1, AtTheEnd
    <3> QED
      BY <1>1, <2>1, <3>1, <3>2 DEF AsynqType
  <2>2. CASE pending' = [pending EXCEPT ![q] = <<e>> \o @]
    <3>1. pending'[q] = <<e>> \o pending[q]
      BY <1>1, <2>2 DEF AsynqType
    <3>2. pending'[q] \in Seq(Ids) /\ IsInjective(pending'[q]) /\ ToSet(pending'[q]) = ToSet(pending[q]) \cup {e}
      BY <1>2, <3>1, AtTheFront
    <3> QED
      BY <1>1, <2>2, <3>1, <3>2 DEF AsynqType
  <2> QED
    BY <2>1, <2>2
<1>4. AsynqType'
  BY <1>1, <1>3 DEF AsynqType, Statuses
<1>5. ConsumerTypes'
  BY <1>1 DEF ConsumerTypes
<1>6. /\ status'[q][e] = "pending" /\ worker'[q] \in {worker[q], None}
      /\ \A i \in Ids \ {e} : status'[q][i] = status[q][i]
      /\ \A p \in Queues \ {q} : status'[p] = status[p] /\ worker'[p] = worker[p]
  BY <1>1 DEF AsynqType, ConsumerTypes
<1>7. \A i \in Ids : Exists(q, i)' <=> Exists(q, i)
  BY <1>6 DEF Exists
<1>8. Waiting(q)'
  BY <1>1, <1>2, <1>3, <1>6 DEF Waiting
<1>9. Held(q)'
  <2>1. worker'[q] # None => worker'[q] = worker[q] /\ worker[q] \in Ids \ {e}
    BY <1>1, <1>6 DEF ConsumerTypes
  <2> QED
    BY <1>1, <1>6, <2>1 DEF Held, Removal, D!Received
<1> QED
  BY <1>3, <1>4, <1>5, <1>6, <1>7, <1>8, <1>9, OneQueue DEF D!Received

LEMMA BackoffPInv ==
  ASSUME PInv, NEW q \in Queues, D!Backoff(q), UNCHANGED producer
  PROVE  PInv'
<1>1. PICK e \in Ids : D!Forward(q, e)
  BY DEF D!Backoff
<1>2. /\ status[q][e] = "retry" /\ status' = [status EXCEPT ![q][e] = "pending"]
      /\ pending' = [pending EXCEPT ![q] = Append(@, e)]
      /\ UNCHANGED <<retried, body, arrived, worker, result, received>>
  BY <1>1 DEF D!Backoff, D!Forward, D!delivery, D!hands
<1>3. worker[q] # e
  BY <1>2, PipelineAssumption DEF PInv, Held
<1> QED
  BY <1>2, <1>3, PendingAgain

LEMMA RequeuePInv ==
  ASSUME PInv, NEW q \in Queues, D!Requeue(q), UNCHANGED producer
  PROVE  PInv'
<1>1. PICK e : e = worker[q]
  OBVIOUS
<1>2. /\ e # None /\ status' = [status EXCEPT ![q][e] = "pending"]
      /\ pending' = [pending EXCEPT ![q] = <<e>> \o @] /\ worker' = [worker EXCEPT ![q] = None]
      /\ UNCHANGED <<retried, body, arrived, result, received>>
  BY <1>1 DEF D!Requeue
<1>3. e \in Ids /\ status[q][e] = "active" /\ worker'[q] # e
  BY <1>1, <1>2, InTheHand DEF PInv, ConsumerTypes
<1> QED
  BY <1>2, <1>3, PendingAgain

\* The consumer starts, stops or dies, or nothing happens: no worker comes to hold
\* another task.
LEMMA LifePInv ==
  ASSUME PInv, D!StartConsumer \/ D!Stop \/ D!Stopped \/ D!CrashConsumer \/ UNCHANGED consumer,
         UNCHANGED <<producer, redis>>
  PROVE  PInv'
<1>1. UNCHANGED <<result, received>> /\ (worker' = worker \/ worker' = [q \in Queues |-> None])
  BY DEF D!StartConsumer, D!Stop, D!Stopped, D!CrashConsumer, D!hands, consumer
<1>2. UNCHANGED <<status, retried, body, pending, arrived>>
  BY DEF redis
<1>3. UNCHANGED <<up, pc, next, row, payload, inserted>>
  BY DEF producer, loop, accounts
<1>4. AsynqType' /\ \A q \in Queues, i \in Ids : Exists(q, i)' <=> Exists(q, i)
  BY RedisStays DEF PInv, IInv, TypeOK
<1>5. IInv'
  BY <1>4, RedisMoves DEF PInv
<1>6. ConsumerTypes'
  BY <1>1 DEF PInv, ConsumerTypes
<1>7. Carried' /\ Kept'
  BY <1>1, <1>2, <1>3 DEF PInv, Carried, Kept, Fits, EventId, Exists, Removal, D!Received
<1>8. ASSUME NEW q \in Queues PROVE Waiting(q)' /\ Held(q)'
  <2>1. worker'[q] \in {worker[q], None}
    BY <1>1
  <2> QED
    BY <1>1, <1>2, <2>1 DEF PInv, Waiting, Held, Removal, D!Received
<1> QED
  BY <1>5, <1>6, <1>7, <1>8 DEF PInv

-----------------------------------------------------------------------------
(* The theorems of the two processes *)

\* Every step of either process keeps the invariant.
LEMMA NextPInv ==
  ASSUME PInv, [PipelineNext]_pipeline
  PROVE  PInv'
<1>1. CASE Produce
  BY <1>1, ProducePInv
<1>2. CASE Consume
  <2>1. UNCHANGED producer
    BY <1>2 DEF Consume
  <2>2. CASE D!StartConsumer \/ D!Stop \/ D!Stopped \/ D!CrashConsumer
    <3>1. UNCHANGED redis
      BY <2>2 DEF D!StartConsumer, D!Stop, D!Stopped, D!CrashConsumer, D!redis, redis
    <3> QED
      BY <2>1, <2>2, <3>1, LifePInv
  <2>3. ASSUME NEW q \in Queues, D!Serve(q) \/ D!Requeue(q) PROVE PInv'
    BY <2>1, <2>3, FetchPInv, HandlePInv, SettlePInv, BackoffPInv, RecoverPInv, RequeuePInv
       DEF D!Serve
  <2> QED
    BY <1>2, <2>2, <2>3 DEF Consume, D!Step
<1>3. CASE Done \/ UNCHANGED pipeline
  BY <1>3, LifePInv DEF Done, pipeline
<1> QED
  BY <1>1, <1>2, <1>3 DEF PipelineNext

\* The invariant of the two processes holds at all times.
THEOREM PipelineInvariant == PipelineSpec => []PInv
<1>1. PipelineInit => PInv
  BY InitPInv
<1>2. PInv /\ [PipelineNext]_pipeline => PInv'
  BY NextPInv
<1> QED
  BY <1>1, <1>2, PTL DEF PipelineSpec

-----------------------------------------------------------------------------
(* Dead letters *)

\* The tasks of which a dead letter, or a line in a log, is left.
Letters == failedDeliveries \cup unreported \cup orphaned

\* What asynq archived was reported, and so was the task whose last attempt just failed.
Dead(q) == \A id \in Ids : status[q][id] = "archived" => id \in Letters
Answered(q) ==
  worker[q] # None /\ result[q] = "error" /\ D!LastAttempt(q, worker[q]) => worker[q] \in Letters

DeadLetters == \A q \in Queues : Dead(q) /\ Answered(q)

\* A report is never taken back.
ReportsGrow == Letters \subseteq Letters'

\* Of the hands of the workers, each keeps its task and its answer, or is free, or begins.
HandsMove ==
  \A p \in Queues :
    \/ worker'[p] = None \/ result'[p] = "running"
    \/ worker'[p] = worker[p] /\ result'[p] = result[p]

\* The task of id e in q moves to st, and nothing else moves.
Moves(q, e, st) ==
  /\ status' = [status EXCEPT ![q][e] = st]
  /\ \/ UNCHANGED retried
     \/ worker'[q] # e /\ \E m : retried' = [retried EXCEPT ![q][e] = m]
  /\ st = "archived" => e \in Letters'
  /\ ReportsGrow /\ HandsMove

\* The consumer moves a task that is in Redis, and leaves what it carries until it is done.
Served(q, e, st) ==
  /\ Exists(q, e) /\ Moves(q, e, st) /\ UNCHANGED received
  /\ \/ UNCHANGED body
     \/ st = "absent" /\ body' = [body EXCEPT ![q][e] = NoBody]

LEMMA MovesDead ==
  ASSUME PInv, DeadLetters, NEW q \in Queues, NEW e \in Ids, NEW st, Moves(q, e, st)
  PROVE  DeadLetters'
<1>1. AsynqType /\ ConsumerTypes
  BY DEF PInv, IInv, TypeOK
<1>2. PICK m : \/ UNCHANGED retried
               \/ worker'[q] # e /\ retried' = [retried EXCEPT ![q][e] = m]
  BY DEF Moves
<1>3. ASSUME NEW p \in Queues, NEW i \in Ids, status'[p][i] = "archived"
      PROVE  i \in Letters'
  <2>1. CASE p = q /\ i = e
    BY <1>1, <1>3, <2>1 DEF Moves, AsynqType
  <2>2. CASE ~(p = q /\ i = e)
    <3>1. status'[p][i] = status[p][i]
      BY <1>1, <2>2 DEF Moves, AsynqType
    <3> QED
      BY <1>3, <3>1 DEF DeadLetters, Dead, Moves, ReportsGrow
  <2> QED
    BY <2>1, <2>2
<1>4. ASSUME NEW p \in Queues, worker'[p] # None, result'[p] = "error",
             retried'[p][worker'[p]] >= MaxRetry
      PROVE  worker'[p] \in Letters'
  <2>1. worker'[p] = worker[p] /\ result'[p] = result[p] /\ worker[p] \in Ids
    BY <1>1, <1>4 DEF Moves, HandsMove, ConsumerTypes
  <2>2. retried'[p][worker[p]] = retried[p][worker[p]]
    <3>1. ~(p = q /\ worker[p] = e) \/ UNCHANGED retried
      BY <1>2, <2>1
    <3>2. PICK w : w = worker[p]
      OBVIOUS
    <3>3. retried'[p][w] = retried[p][w]
      BY <1>1, <1>2, <2>1, <3>1, <3>2 DEF AsynqType
    <3> QED
      BY <3>2, <3>3
  <2>3. worker[p] \in Letters
    BY <1>4, <2>1, <2>2 DEF DeadLetters, Answered, D!LastAttempt
  <2>4. worker[p] \in Letters'
    BY <2>3 DEF Moves, ReportsGrow
  <2> QED
    BY <2>1, <2>4 DEF Letters
<1> QED
  BY <1>3, <1>4 DEF DeadLetters, Dead, Answered, D!LastAttempt, Letters

\* A failed attempt, reported if it was the last one.
LEMMA AttemptServed ==
  ASSUME PInv, NEW q \in Queues, NEW e \in Ids, Exists(q, e),
         D!RetryOrArchive(q, e), worker'[q] # e, D!LastAttempt(q, e) => e \in Letters',
         ReportsGrow, HandsMove, UNCHANGED received
  PROVE  \E st \in Statuses : Served(q, e, st)
<1>1. retried[q][e] \in Nat /\ MaxRetry \in Nat
  BY AsynqAssumption DEF PInv, IInv, TypeOK, AsynqType
<1>2. CASE retried[q][e] < MaxRetry
  <2>1. status' = [status EXCEPT ![q][e] = "retry"] /\ UNCHANGED body
    BY <1>2 DEF D!RetryOrArchive
  <2>2. retried' = [retried EXCEPT ![q][e] = retried[q][e] + 1]
    BY <1>2 DEF D!RetryOrArchive
  <2>3. Served(q, e, "retry")
    BY <2>1, <2>2 DEF Served, Moves
  <2> QED
    BY <2>3 DEF Statuses
<1>3. CASE ~(retried[q][e] < MaxRetry)
  <2>1. status' = [status EXCEPT ![q][e] = "archived"] /\ UNCHANGED <<body, retried>>
    BY <1>3 DEF D!RetryOrArchive
  <2>2. e \in Letters'
    BY <1>1, <1>3 DEF D!LastAttempt
  <2>3. Served(q, e, "archived")
    BY <2>1, <2>2 DEF Served, Moves
  <2> QED
    BY <2>3 DEF Statuses
<1> QED
  BY <1>2, <1>3

\* What a worker does with a task, its handler apart.
LEMMA ServeMoves ==
  ASSUME PInv, DeadLetters, NEW q \in Queues,
         D!Fetch(q) \/ D!Settle(q) \/ D!Backoff(q) \/ D!Recover(q) \/ D!Requeue(q)
  PROVE  \E e \in Ids, st \in Statuses : Served(q, e, st)
<1>1. AsynqType /\ ConsumerTypes /\ Waiting(q) /\ Held(q)
  BY DEF PInv, IInv, TypeOK
<1>2. CASE D!Fetch(q)
  <2>1. PICK e \in Ids : D!Dequeue(q, e) /\ worker' = [worker EXCEPT ![q] = e]
    BY <1>2 DEF D!Fetch
  <2>2. pending[q] # <<>> /\ e = Head(pending[q]) /\ pending[q] \in Seq(Ids)
    BY <1>1, <2>1 DEF D!Dequeue, AsynqType
  <2>3. e \in ToSet(pending[q])
    BY <1>1, <2>2, WithoutHead DEF Waiting
  <2>4. Exists(q, e)
    BY <1>1, <2>3 DEF Waiting, Exists
  <2>5. /\ status' = [status EXCEPT ![q][e] = "active"] /\ UNCHANGED <<retried, body, received>>
        /\ ReportsGrow
    BY <1>2, <2>1 DEF D!Fetch, D!Dequeue, D!notes, ReportsGrow, Letters
  <2>6. HandsMove
    BY <1>1, <1>2, <2>1 DEF D!Fetch, ConsumerTypes, HandsMove
  <2>7. Served(q, e, "active")
    BY <2>4, <2>5, <2>6 DEF Served, Moves
  <2> QED
    BY <2>7 DEF Statuses
<1>3. CASE D!Settle(q)
  <2>1. PICK e : e = worker[q]
    OBVIOUS
  <2>2. e \in Ids /\ Exists(q, e)
    BY <1>3, <2>1, InTheHand DEF D!Settle
  <2>3. /\ worker' = [worker EXCEPT ![q] = None] /\ UNCHANGED <<result, received>> /\ ReportsGrow
    BY <1>3 DEF D!Settle, D!notes, ReportsGrow, Letters
  <2>4. HandsMove /\ worker'[q] # e
    BY <1>1, <2>2, <2>3, PipelineAssumption DEF ConsumerTypes, HandsMove
  <2>5. CASE result[q] = "ok"
    <3>1. /\ status' = [status EXCEPT ![q][e] = "absent"] /\ UNCHANGED retried
          /\ body' = [body EXCEPT ![q][e] = NoBody]
      BY <1>3, <2>1, <2>5 DEF D!Settle, D!Complete
    <3>2. Served(q, e, "absent")
      BY <2>2, <2>3, <2>4, <3>1 DEF Served, Moves
    <3> QED
      BY <2>2, <3>2 DEF Statuses
  <2>6. CASE result[q] # "ok"
    <3>1. D!RetryOrArchive(q, e) /\ result[q] = "error" /\ worker[q] # None
      BY <1>1, <1>3, <2>1, <2>6 DEF D!Settle, ConsumerTypes
    <3>2. D!LastAttempt(q, e) => e \in Letters
      BY <2>1, <3>1 DEF DeadLetters, Answered
    <3> QED
      BY <2>2, <2>3, <2>4, <3>1, <3>2, AttemptServed DEF ReportsGrow
  <2> QED
    BY <2>5, <2>6
<1>4. CASE D!Backoff(q)
  <2>1. PICK e \in Ids : D!Forward(q, e)
    BY <1>4 DEF D!Backoff
  <2>2. /\ status' = [status EXCEPT ![q][e] = "pending"] /\ Exists(q, e)
        /\ UNCHANGED <<retried, body, received, worker, result>> /\ ReportsGrow
    BY <1>4, <2>1
       DEF D!Backoff, D!Forward, D!delivery, D!hands, D!notes, ReportsGrow, Letters, Exists
  <2>3. HandsMove
    BY <2>2 DEF HandsMove
  <2>4. Served(q, e, "pending")
    BY <2>2, <2>3 DEF Served, Moves
  <2> QED
    BY <2>4 DEF Statuses
<1>5. CASE D!Recover(q)
  <2>1. PICK e \in Ids : /\ status[q][e] = "active" /\ worker[q] # e /\ D!RetryOrArchive(q, e)
                         /\ orphaned' = IF D!LastAttempt(q, e) THEN orphaned \cup {e} ELSE orphaned
    BY <1>5 DEF D!Recover
  <2>2. UNCHANGED <<worker, result, received, failedDeliveries, unreported>>
    BY <1>5 DEF D!Recover, D!hands, D!notes
  <2>3. ReportsGrow /\ (D!LastAttempt(q, e) => e \in Letters') /\ HandsMove
    BY <2>1, <2>2 DEF ReportsGrow, Letters, HandsMove
  <2>4. Exists(q, e) /\ worker'[q] # e
    BY <2>1, <2>2 DEF Exists
  <2> QED
    BY <2>1, <2>2, <2>3, <2>4, AttemptServed
<1>6. CASE D!Requeue(q)
  <2>1. PICK e : e = worker[q]
    OBVIOUS
  <2>2. e \in Ids /\ Exists(q, e)
    BY <1>6, <2>1, InTheHand DEF D!Requeue
  <2>3. /\ status' = [status EXCEPT ![q][e] = "pending"]
        /\ worker' = [worker EXCEPT ![q] = None]
        /\ UNCHANGED <<retried, body, received, result>> /\ ReportsGrow
    BY <1>6, <2>1 DEF D!Requeue, D!notes, ReportsGrow, Letters
  <2>4. HandsMove
    BY <1>1, <2>3 DEF ConsumerTypes, HandsMove
  <2>5. Served(q, e, "pending")
    BY <2>2, <2>3, <2>4 DEF Served, Moves
  <2> QED
    BY <2>2, <2>5 DEF Statuses
<1> QED
  BY <1>2, <1>3, <1>4, <1>5, <1>6

\* A handler that answers an error to the last attempt has reported it.
LEMMA HandleDead ==
  ASSUME PInv, DeadLetters, NEW q \in Queues, D!Handle(q)
  PROVE  DeadLetters'
<1>1. PICK e : e = worker[q]
  OBVIOUS
<1>2. e \in Ids /\ e # None /\ Fits(body[q][e], e)
  BY <1>1, InTheHand DEF D!Handle
<1>3. ~D!Corrupt(body[q][e])
  BY <1>2, RouteFacts
<1>4. UNCHANGED <<worker, status, retried, orphaned>>
  BY DEF D!Handle, D!redis
<1>5. /\ failedDeliveries \subseteq failedDeliveries' /\ unreported \subseteq unreported'
      /\ \/ result' = [result EXCEPT ![q] = "ok"]
         \/ /\ result' = [result EXCEPT ![q] = "error"]
            /\ D!LastAttempt(q, e) => e \in failedDeliveries' \cup unreported'
  BY <1>1, <1>3 DEF D!Handle, D!Returns, D!SaveFailedDelivery, D!notes
<1>6. ReportsGrow
  BY <1>4, <1>5 DEF ReportsGrow, Letters
<1>7. ASSUME NEW p \in Queues PROVE Dead(p)'
  BY <1>4, <1>6 DEF DeadLetters, Dead, ReportsGrow
<1>8. result \in [Queues -> {"running", "ok", "error"}]
  BY DEF PInv, ConsumerTypes
<1>9. ASSUME NEW p \in Queues PROVE Answered(p)'
  <2>1. CASE p = q
    BY <1>1, <1>4, <1>5, <1>8, <2>1 DEF Answered, D!LastAttempt, Letters
  <2>2. CASE p # q
    <3>1. result'[p] = result[p]
      BY <1>5, <1>8, <2>2
    <3> QED
      BY <1>4, <1>6, <3>1 DEF DeadLetters, Answered, D!LastAttempt, ReportsGrow, Letters
  <2> QED
    BY <2>1, <2>2
<1> QED
  BY <1>7, <1>9 DEF DeadLetters

\* A step of the consumer's process as a whole: its workers drop what they hold, at most.
LEMMA LifeDead ==
  ASSUME DeadLetters, UNCHANGED <<status, retried, result, failedDeliveries, unreported, orphaned>>,
         worker' = worker \/ worker' = [q \in Queues |-> None]
  PROVE  DeadLetters'
<1>1. ASSUME NEW q \in Queues PROVE worker'[q] \in {worker[q], None}
  OBVIOUS
<1> QED
  BY <1>1 DEF DeadLetters, Dead, Answered, D!LastAttempt, Letters

\* A step of the producer: a target takes the Event in hand, or Redis stays as it is.
LEMMA ProduceMoves ==
  ASSUME PInv, Produce
  PROVE  /\ UNCHANGED <<worker, result, received, failedDeliveries, unreported, orphaned, view>>
         /\ \/ UNCHANGED redis
            \/ /\ CallTarget
               /\ \E q \in Queues, id \in Ids : Fits(payload, id) /\ Insert(q, id, payload)
<1>1. UNCHANGED <<worker, result, received, failedDeliveries, unreported, orphaned, view>>
  BY DEF Produce, consumer
<1>2. CASE CallTarget
  <2>1. CallTarget
    BY <1>2
  <2> QED
    BY <1>1, <2>1, TargetCalled
<1>3. CASE ~CallTarget
  BY <1>1, <1>3 DEF Produce, Step, Start, HandleEvent, LastRow, SkipRow, ReadClock, Unsupported, Abort,
                    Build, Emit, Save, Crash, Commit
<1> QED
  BY <1>2, <1>3

LEMMA NextDead ==
  ASSUME PInv, DeadLetters, [PipelineNext]_pipeline
  PROVE  DeadLetters'
<1>1. CASE Produce
  <2>1. UNCHANGED <<worker, result, failedDeliveries, unreported, orphaned>>
    BY <1>1, ProduceMoves
  <2>2. CASE UNCHANGED redis
    BY <2>1, <2>2, LifeDead DEF redis
  <2>3. ASSUME NEW q \in Queues, NEW id \in Ids, Insert(q, id, payload) PROVE DeadLetters'
    <3>1. /\ status' = [status EXCEPT ![q][id] = "pending"]
          /\ retried' = [retried EXCEPT ![q][id] = 0] /\ ~Exists(q, id)
      BY <2>3 DEF Insert
    <3>2. worker'[q] # id
      BY <2>1, <3>1, PipelineAssumption DEF PInv, Held, Exists
    <3>3. ReportsGrow /\ HandsMove
      BY <2>1 DEF ReportsGrow, HandsMove, Letters
    <3>4. Moves(q, id, "pending")
      BY <3>1, <3>2, <3>3 DEF Moves
    <3> QED
      BY <3>4, MovesDead
  <2> QED
    BY <1>1, <2>2, <2>3, ProduceMoves
<1>2. CASE Consume
  <2>1. CASE D!StartConsumer \/ D!Stop \/ D!Stopped \/ D!CrashConsumer
    <3>1. /\ UNCHANGED <<status, retried, result, failedDeliveries, unreported, orphaned>>
          /\ worker' = worker \/ worker' = [q \in Queues |-> None]
      BY <2>1 DEF D!StartConsumer, D!Stop, D!Stopped, D!CrashConsumer, D!redis, D!hands, D!notes
    <3> QED
      BY <3>1, LifeDead
  <2>2. ASSUME NEW q \in Queues, D!Handle(q) PROVE DeadLetters'
    BY <2>2, HandleDead
  <2>3. ASSUME NEW q \in Queues,
               D!Fetch(q) \/ D!Settle(q) \/ D!Backoff(q) \/ D!Recover(q) \/ D!Requeue(q)
        PROVE  DeadLetters'
    <3>1. PICK e \in Ids, st \in Statuses : Served(q, e, st)
      BY <2>3, ServeMoves
    <3> QED
      BY <3>1, MovesDead DEF Served
  <2> QED
    BY <1>2, <2>1, <2>2, <2>3 DEF Consume, D!Step, D!Serve
<1>3. CASE Done \/ UNCHANGED pipeline
  <2>1. UNCHANGED <<status, retried, result, failedDeliveries, unreported, orphaned, worker>>
    BY <1>3 DEF Done, pipeline, consumer, redis
  <2> QED
    BY <2>1, LifeDead
<1> QED
  BY <1>1, <1>2, <1>3 DEF PipelineNext

\* Both processes together leave a trace of every task that asynq archives (deliver.go).
THEOREM DeadLettersTraced == PipelineSpec => []DeadLetters
<1>1. PipelineInit => DeadLetters
  <2>1. ASSUME PipelineInit, NEW q \in Queues
        PROVE  worker[q] = None /\ \A i \in Ids : status[q][i] = "absent"
    BY <2>1 DEF PipelineInit, Init, D!Init, AsynqInit
  <2> QED
    BY <2>1 DEF DeadLetters, Dead, Answered
<1>2. PInv /\ DeadLetters /\ [PipelineNext]_pipeline => DeadLetters'
  BY NextDead
<1> QED
  BY <1>1, <1>2, PipelineInvariant, PTL DEF PipelineSpec

\* README: "nenhum evento é perdido silenciosamente", from the binlog to srp-hub-api.
\* Whatever the log, the shards and the retries, and however often either process stops
\* or dies: a row that no restart will read again was received, is on its way in Redis,
\* or left its trace with one of the two processes, unless it is a removal.
THEOREM NothingLostEndToEnd == PipelineSpec => []NothingLost
<1>1. PInv /\ DeadLetters => NothingLost
  <2> SUFFICES ASSUME PInv, DeadLetters, NEW n \in 1 .. saved, NEW i \in Eligible(n),
                      ~Removal(EventId(n, i))
               PROVE  Accounted(n, i) \/ OnItsWay(EventId(n, i))
    BY DEF NothingLost, Removal, EventId
  <2>1. PICK id : id = EventId(n, i)
    OBVIOUS
  <2>2. n \in aborted \/ id \in unsaved \/ Reached(id)
    BY <2>1 DEF PInv, IInv, EveryRowAccounted
  <2>3. CASE \A k \in DOMAIN Targets : <<Targets[k], id>> \in inserted
    <3>1. 1 \in DOMAIN Targets
      BY ProducerAssumption, PipelineAssumption
    <3>2. id \in Ids
      BY <2>3, <3>1 DEF PInv, IInv, TypeOK
    <3>3. PICK q \in Queues : Exists(q, id) \/ D!Received(q, id)
      BY <2>1, <2>3, <3>1 DEF PInv, Kept
    <3>4. status[q][id] \in Statuses
      BY <3>2 DEF PInv, IInv, TypeOK, AsynqType
    <3>5. status[q][id] = "archived" => id \in Letters
      BY <3>2 DEF DeadLetters, Dead
    <3> QED
      BY <2>1, <3>3, <3>4, <3>5 DEF Accounted, Delivered, OnItsWay, Exists, Statuses, Letters
  <2> QED
    BY <2>1, <2>2, <2>3 DEF Reached, Accounted
<1> QED
  BY <1>1, PipelineInvariant, DeadLettersTraced, PTL

-----------------------------------------------------------------------------
(* What a client ends with *)

\* The Contratos that are in Redis or were received by srp-hub-api.
Made ==
  {b \in Contratos :
     \/ \E q \in Queues, id \in Ids : Exists(q, id) /\ body[q][id] = b
     \/ \E s \in Sent : s.body = b}

\* Those a route takes.
Posted == {b \in Made : b.mod # "D"}

\* No two Contratos of one resource carry the same date.
NoTies ==
  \A x, y \in Posted : x.res = y.res /\ x.date = y.date => x = y

\* srp-hub-api receives what the producer made of a row, and no removals.
Genuine == \A s \in Sent : Fits(s.body, s.id) /\ s.body.mod # "D"

\* Nothing is dated after the clock, and the row in hand is dated by it.
Dated ==
  /\ \A b \in Made : b.date <= clock
  /\ pc \in {"build", "fanout"} => date = clock
  /\ up /\ pc = "fanout" => payload.date = date

\* The client keeps something it received, and nothing it received is dated after it.
Latest ==
  /\ view \in [Resources -> Contratos \cup {NoBody}]
  /\ \A r \in Resources : view[r] # NoBody => view[r].res = r /\ \E s \in Sent : s.body = view[r]
  /\ \A s \in Sent :
       view[s.body.res] # NoBody /\ s.body.date <= view[s.body.res].date

\* What a client knows, whatever crashes.
ClientInv == Genuine /\ Dated /\ Latest

\* An older date goes with an older change and an older reading.
Orderly(x, y) ==
  x.res = y.res /\ x.date <= y.date => x.capa <= y.capa /\ x.enr <= y.enr

\* Until the producer crashes, it handles one change after the other, each with what
\* MariaDB holds by then.
InTurn ==
  /\ crashes \in Nat
  /\ crashes = 0 =>
       /\ ~up => next = 1 /\ saved = 0
       /\ \A b \in Posted : b.capa <= next /\ b.enr <= Version(b.res, committed)
       /\ up /\ pc = "fanout" /\ payload.mod # "D" =>
            /\ payload.enr <= Version(payload.res, committed)
            /\ \A b \in Posted : b.res = payload.res => b.enr <= payload.enr
       /\ \A x, y \in Posted : Orderly(x, y)

\* With a clock that moves between two rows, the date tells every Contrato of Made apart
\* from the one that comes next.
Strict ==
  /\ up /\ pc = "build" => \A b \in Made : b.date < date
  /\ up /\ pc = "fanout" => \A b \in Made : b.date < date \/ b = payload
  /\ NoTies

\* Dates, changes and readings are numbers.
LEMMA Numbers ==
  ASSUME NEW b \in Contratos
  PROVE  /\ b.date \in Nat /\ b.capa \in Nat /\ b.enr \in Nat /\ b.res \in Resources
         /\ b \in Bodies /\ b # NoBody
<1>1. /\ b.date \in Dates /\ b.capa \in DOMAIN Changes /\ b.enr \in 0 .. Len(Changes)
      /\ b.res \in Resources
  BY DEF Contratos
<1>2. Len(Changes) \in Nat /\ DOMAIN Changes = 1 .. Len(Changes) /\ Dates \subseteq Nat
  BY ProducerAssumption
<1>3. b \in Bodies /\ b # NoBody
  BY NamesAssumption, AsynqAssumption
<1>4. b.date \in Nat
  BY <1>1, <1>2
<1>5. b.capa \in Nat
  BY <1>1, <1>2
<1>6. b.enr \in Nat
  BY <1>1, <1>2
<1> QED
  BY <1>1, <1>3, <1>4, <1>5, <1>6

\* The client keeps the newer of two.
LEMMA KeepShape ==
  ASSUME NEW b \in Contratos, NEW have \in Contratos \cup {NoBody},
         have # NoBody => have.res = b.res
  PROVE  /\ Keep(have, b) \in {have, b} /\ Keep(have, b) \in Contratos
         /\ Keep(have, b).res = b.res /\ b.date <= Keep(have, b).date
         /\ have # NoBody => have.date <= Keep(have, b).date
<1>1. CASE have # NoBody /\ b.date < have.date
  BY <1>1, Numbers DEF Keep
<1>2. CASE ~(have # NoBody /\ b.date < have.date)
  BY <1>2, Numbers DEF Keep
<1> QED
  BY <1>1, <1>2

\* One more received.
LEMMA SentMore ==
  ASSUME ConsumerTypes, NEW q \in Queues, NEW s \in [id : Ids, body : Bodies],
         received' = [received EXCEPT ![q] = Append(@, s)]
  PROVE  Sent' = Sent \cup {s} /\ received'[q] # received[q] /\ Last(received'[q]) = s
<1> DEFINE S == [id : Ids, body : Bodies]
<1>1. /\ received[q] \in Seq(S) /\ Len(received[q]) \in Nat
      /\ received'[q] = Append(received[q], s)
      /\ \A p \in Queues \ {q} : received'[p] = received[p]
  <2>1. s \in S /\ received \in [Queues -> Seq(S)]
    BY DEF ConsumerTypes
  <2> HIDE DEF S
  <2> QED
    BY <2>1
<1>2. /\ DOMAIN received[q] = 1 .. Len(received[q])
      /\ DOMAIN received'[q] = 1 .. Len(received[q]) + 1
      /\ Len(received'[q]) = Len(received[q]) + 1
      /\ received'[q][Len(received[q]) + 1] = s
      /\ \A k \in 1 .. Len(received[q]) : received'[q][k] = received[q][k]
  BY <1>1
<1>3. ToSet(received'[q]) = ToSet(received[q]) \cup {s}
  BY <1>2 DEF ToSet
<1>4. Sent' = Sent \cup {s}
  BY <1>1, <1>3 DEF Sent, ToSet
<1>5. Last(received'[q]) = s
  BY <1>2 DEF Last
<1>6. received'[q] # received[q]
  <2>1. Len(received'[q]) # Len(received[q])
    BY <1>1, <1>2
  <2> QED
    BY <2>1
<1> QED
  BY <1>4, <1>5, <1>6

-----------------------------------------------------------------------------
(* What the steps of the two processes make of it *)

\* What is received arrives at the client, and came out of Redis.
Arrives(s) ==
  /\ s.body \in Made /\ Fits(s.body, s.id) /\ s.body.mod # "D"
  /\ Sent' = Sent \cup {s} /\ view' = [view EXCEPT ![s.body.res] = Keep(@, s.body)]

\* A handler that posts.
LEMMA HandleArrives ==
  ASSUME PInv, NEW q \in Queues, D!Handle(q), ClientSees
  PROVE  /\ UNCHANGED <<status, body>>
         /\ UNCHANGED <<received, view>> \/ \E s : Arrives(s)
<1>1. PICK e : e = worker[q]
  OBVIOUS
<1>2. e \in Ids /\ e # None /\ Exists(q, e) /\ Fits(body[q][e], e) /\ body[q][e] \in Bodies
  BY <1>1, InTheHand, RouteFacts DEF D!Handle
<1>3. UNCHANGED <<status, body>>
  BY DEF D!Handle, D!redis
<1>4. PICK s : s = [id |-> e, body |-> body[q][e]]
  OBVIOUS
<1>5. \/ UNCHANGED received
      \/ received' = [received EXCEPT ![q] = Append(@, s)] /\ D!Routed(body[q][e])
  BY <1>1, <1>4 DEF D!Handle
<1>6. CASE UNCHANGED received
  <2>1. UNCHANGED view
    BY <1>6 DEF ClientSees
  <2> QED
    BY <1>3, <1>6, <2>1
<1>7. CASE received' = [received EXCEPT ![q] = Append(@, s)] /\ D!Routed(body[q][e])
  <2>1. ConsumerTypes /\ s \in [id : Ids, body : Bodies]
    BY <1>2, <1>4 DEF PInv
  <2>2. Sent' = Sent \cup {s} /\ received'[q] # received[q] /\ Last(received'[q]) = s
    BY <1>7, <2>1, SentMore
  <2>3. \A p \in Queues : received'[p] # received[p] => p = q
    BY <1>7, <2>1 DEF ConsumerTypes
  <2>4. view' = [view EXCEPT ![s.body.res] = Keep(@, s.body)]
    BY <2>2, <2>3 DEF ClientSees
  <2>5. s.body = body[q][e] /\ s.id = e /\ s.body \in Contratos /\ s.body.tipo = "pedidos"
    BY <1>2, <1>4 DEF Fits, Contratos
  <2>6. s.body.mod # "D"
    BY <1>7, <2>5 DEF D!Routed, D!TipoOf, D!NoRoute
  <2>7. s.body \in Made
    BY <1>2, <2>5 DEF Made
  <2>8. Arrives(s)
    BY <1>2, <2>2, <2>4, <2>5, <2>6, <2>7 DEF Arrives
  <2> QED
    BY <1>3, <2>8
<1> QED
  BY <1>5, <1>6, <1>7

\* The consumer makes nothing: what it keeps, posts or gives back was made before.
LEMMA ConsumeMade ==
  ASSUME PInv, DeadLetters, Consume
  PROVE  /\ UNCHANGED producer /\ Made' \subseteq Made
         /\ UNCHANGED <<received, view>> \/ \E s : Arrives(s)
<1>1. UNCHANGED producer /\ ClientSees /\ D!Step
  BY DEF Consume
<1>2. CASE D!StartConsumer \/ D!Stop \/ D!Stopped \/ D!CrashConsumer
  <2>1. UNCHANGED <<status, body, received>>
    BY <1>2 DEF D!StartConsumer, D!Stop, D!Stopped, D!CrashConsumer, D!redis
  <2>2. UNCHANGED view
    BY <1>1, <2>1 DEF ClientSees
  <2>3. Made' = Made
    BY <2>1 DEF Made, Sent, Exists
  <2> QED
    BY <1>1, <2>1, <2>2, <2>3
<1>3. ASSUME NEW q \in Queues, D!Handle(q)
      PROVE  Made' \subseteq Made /\ (UNCHANGED <<received, view>> \/ \E s : Arrives(s))
  <2>1. UNCHANGED <<status, body>> /\ (UNCHANGED <<received, view>> \/ \E s : Arrives(s))
    BY <1>1, <1>3, HandleArrives
  <2>2. CASE UNCHANGED <<received, view>>
    <3>1. Made' = Made
      BY <2>1, <2>2 DEF Made, Sent, Exists
    <3> QED
      BY <2>2, <3>1
  <2>3. ASSUME NEW s, Arrives(s) PROVE Made' \subseteq Made
    BY <2>1, <2>3 DEF Arrives, Made, Exists
  <2> QED
    BY <2>1, <2>2, <2>3
<1>4. ASSUME NEW q \in Queues,
             D!Fetch(q) \/ D!Settle(q) \/ D!Backoff(q) \/ D!Recover(q) \/ D!Requeue(q)
      PROVE  Made' \subseteq Made /\ UNCHANGED <<received, view>>
  <2>1. PICK e \in Ids, st \in Statuses : Served(q, e, st)
    BY <1>4, ServeMoves
  <2>2. UNCHANGED <<received, view>>
    BY <1>1, <2>1 DEF Served, ClientSees
  <2>3. Sent' = Sent
    BY <2>2 DEF Sent
  <2>4. AsynqType
    BY DEF PInv, IInv, TypeOK
  <2>5. ASSUME NEW p \in Queues, NEW i \in Ids, Exists(p, i)'
        PROVE  Exists(p, i) /\ body'[p][i] = body[p][i]
    <3>1. /\ Exists(q, e) /\ status' = [status EXCEPT ![q][e] = st]
          /\ \/ UNCHANGED body
             \/ st = "absent" /\ body' = [body EXCEPT ![q][e] = NoBody]
      BY <2>1 DEF Served, Moves
    <3> QED
      BY <2>4, <2>5, <3>1 DEF AsynqType, Exists
  <2> QED
    BY <2>2, <2>3, <2>5 DEF Made
<1> QED
  BY <1>1, <1>2, <1>3, <1>4 DEF D!Step, D!Serve

\* The producer makes nothing but the Contrato in hand.
LEMMA ProduceMade ==
  ASSUME PInv, Produce
  PROVE  /\ UNCHANGED <<received, view>> /\ Sent' = Sent
         /\ \/ Made' = Made
            \/ CallTarget /\ Fits(payload, EventId(next, row)) /\ Made' \subseteq Made \cup {payload}
<1>1. UNCHANGED <<received, view>> /\ Sent' = Sent
  BY ProduceMoves DEF Sent
<1>2. CASE UNCHANGED redis
  <2>1. Made' = Made
    BY <1>1, <1>2 DEF redis, Made, Exists
  <2> QED
    BY <1>1, <2>1
<1>3. ASSUME CallTarget, NEW q \in Queues, NEW id \in Ids, Insert(q, id, payload)
      PROVE  Made' \subseteq Made \cup {payload}
  <2>1. AsynqType
    BY DEF PInv, IInv, TypeOK
  <2>2. ASSUME NEW p \in Queues, NEW i \in Ids, Exists(p, i)'
        PROVE  \/ body'[p][i] = payload
               \/ Exists(p, i) /\ body'[p][i] = body[p][i]
    BY <1>3, <2>1, <2>2 DEF Insert, AsynqType, Exists
  <2> QED
    BY <1>1, <2>2 DEF Made
<1>4. CallTarget => Fits(payload, EventId(next, row))
  BY DEF CallTarget, At, PInv, Carried
<1> QED
  BY <1>1, <1>2, <1>3, <1>4, ProduceMoves

\* A step of the two processes is one of these.
LEMMA PipelineSteps ==
  ASSUME PInv, DeadLetters, [PipelineNext]_pipeline
  PROVE  \/ Produce
         \/ /\ UNCHANGED producer /\ Made' \subseteq Made
            /\ UNCHANGED <<received, view>> \/ \E s : Arrives(s)
<1>1. CASE Consume
  BY <1>1, ConsumeMade
<1>2. CASE Done \/ UNCHANGED pipeline
  <2>1. UNCHANGED producer /\ UNCHANGED <<received, view, status, body>>
    BY <1>2 DEF Done, pipeline, consumer, redis
  <2>2. Made' = Made
    BY <2>1 DEF Made, Sent, Exists
  <2> QED
    BY <2>1, <2>2
<1> QED
  BY <1>1, <1>2 DEF PipelineNext

-----------------------------------------------------------------------------
(* The client *)

LEMMA InitClient ==
  ASSUME PipelineInit
  PROVE  ClientInv /\ InTurn /\ Strict
<1>1. /\ \A q \in Queues, id \in Ids : ~Exists(q, id)
      /\ ~up /\ pc = "read" /\ next = 1 /\ saved = 0 /\ crashes = 0
      /\ view = [r \in Resources |-> NoBody]
  BY DEF PipelineInit, Init, AsynqInit, Exists
<1>2. \A q \in Queues : received[q] = <<>>
  BY DEF PipelineInit, D!Init
<1>3. Sent = {}
  <2>1. ASSUME NEW q \in Queues PROVE ToSet(received[q]) = {}
    <3>1. received[q] = <<>> /\ DOMAIN received[q] = {}
      BY <1>2
    <3> QED
      BY <3>1 DEF ToSet
  <2> QED
    BY <2>1 DEF Sent
<1>4. Made = {} /\ Posted = {}
  BY <1>1, <1>3 DEF Made, Posted
<1> QED
  BY <1>1, <1>3, <1>4 DEF ClientInv, Genuine, Dated, Latest, InTurn, Strict, NoTies

\* Nothing new is received: the client knows what it knew.
LEMMA ClientWaits ==
  ASSUME ClientInv, UNCHANGED <<received, view>>
  PROVE  Genuine' /\ Latest'
<1>1. Sent' = Sent
  BY DEF Sent
<1> QED
  BY <1>1 DEF ClientInv, Genuine, Latest, Fits

\* The client compares what arrives with what it has.
LEMMA ClientKeeps ==
  ASSUME ClientInv, NEW s, Arrives(s)
  PROVE  Genuine' /\ Latest'
<1>1. PICK b : b = s.body
  OBVIOUS
<1>2. PICK r : r = b.res
  OBVIOUS
<1>3. b \in Contratos /\ r \in Resources /\ b # NoBody
  BY <1>1, <1>2, Numbers DEF Arrives, Made
<1>4. view \in [Resources -> Contratos \cup {NoBody}] /\ (view[r] # NoBody => view[r].res = r)
  BY <1>3 DEF ClientInv, Latest
<1>5. PICK k : k = Keep(view[r], b)
  OBVIOUS
<1>6. /\ k \in {view[r], b} /\ k \in Contratos /\ k.res = r /\ b.date <= k.date
      /\ view[r] # NoBody => view[r].date <= k.date
  BY <1>2, <1>3, <1>4, <1>5, KeepShape
<1>7. view' = [view EXCEPT ![r] = k] /\ Sent' = Sent \cup {s}
  BY <1>1, <1>2, <1>5 DEF Arrives
<1>8. Genuine'
  BY <1>7 DEF ClientInv, Genuine, Arrives, Fits
<1>9. k # NoBody
  BY <1>6, Numbers
<1>10. view' \in [Resources -> Contratos \cup {NoBody}]
  BY <1>4, <1>6, <1>7
<1>11. ASSUME NEW p \in Resources, view'[p] # NoBody
       PROVE  view'[p].res = p /\ \E t \in Sent' : t.body = view'[p]
  <2>1. CASE p = r /\ k = b
    BY <1>1, <1>4, <1>6, <1>7, <2>1
  <2>2. CASE ~(p = r /\ k = b)
    <3>1. view'[p] = view[p]
      BY <1>3, <1>4, <1>6, <1>7, <2>2
    <3> QED
      BY <1>7, <1>11, <3>1 DEF ClientInv, Latest
  <2> QED
    BY <2>1, <2>2
<1>12. ASSUME NEW t \in Sent'
       PROVE  view'[t.body.res] # NoBody /\ t.body.date <= view'[t.body.res].date
  <2>1. CASE t = s
    <3>1. view'[r] = k
      BY <1>3, <1>4, <1>7
    <3> QED
      BY <1>1, <1>2, <1>6, <1>9, <2>1, <3>1
  <2>2. CASE t \in Sent
    <3>1. PICK c : c = t.body
      OBVIOUS
    <3>2. c \in Contratos /\ c.date \in Nat /\ c.res \in Resources
      BY <2>2, <3>1, Numbers DEF ClientInv, Genuine, Fits
    <3>3. view[c.res] # NoBody /\ c.date <= view[c.res].date
      BY <2>2, <3>1 DEF ClientInv, Latest
    <3>4. CASE c.res = r
      <4>1. view'[r] = k /\ view[r].date \in Nat /\ k.date \in Nat
        BY <1>3, <1>4, <1>6, <1>7, <3>3, <3>4, Numbers
      <4>2. c.date <= k.date
        BY <1>6, <3>2, <3>3, <3>4, <4>1
      <4> QED
        BY <1>9, <3>1, <3>4, <4>1, <4>2
    <3>5. CASE c.res # r
      <4>1. view'[c.res] = view[c.res]
        BY <1>4, <1>7, <3>2, <3>5
      <4> QED
        BY <3>1, <3>3, <4>1
    <3> QED
      BY <3>4, <3>5
  <2> QED
    BY <1>7, <2>1, <2>2
<1> QED
  BY <1>8, <1>10, <1>11, <1>12 DEF Latest

\* The clock goes on before a row is dated.
LEMMA ProduceDated ==
  ASSUME PInv, ClientInv, Produce
  PROVE  Dated'
<1>1. /\ \A b \in Made : b.date <= clock /\ b.date \in Nat
      /\ clock \in Nat
      /\ pc \in {"build", "fanout"} => date = clock
      /\ up /\ pc = "fanout" => payload.date = date
  BY Numbers, ProducerAssumption DEF ClientInv, Dated, Made, PInv, IInv, TypeOK
<1>2. CASE CallTarget
  <2>1. UNCHANGED <<up, pc, date, clock, payload>> /\ up /\ pc = "fanout"
    BY <1>2 DEF CallTarget, At, loop, read
  <2>2. Made' \subseteq Made \cup {payload}
    BY ProduceMade
  <2> QED
    BY <1>1, <2>1, <2>2 DEF Dated
<1>3. CASE ~CallTarget
  <2>1. Made' = Made
    BY <1>3, ProduceMade
  <2>2. CASE ReadClock
    <3>1. PICK step \in ClockSteps : clock + step \in Dates /\ clock' = clock + step
      BY <2>2 DEF ReadClock
    <3>2. step \in Nat /\ date' = clock' /\ pc' = "build"
      BY <2>2, ProducerAssumption DEF ReadClock
    <3>3. \A b \in Made : b.date <= clock'
      BY <1>1, <3>1, <3>2
    <3> QED
      BY <2>1, <3>2, <3>3 DEF Dated
  <2>3. CASE Build
    <3>1. UNCHANGED <<date, clock>> /\ pc = "build" /\ payload' = Contrato(next, row)
      BY <2>3 DEF Build, At, read
    <3>2. payload'.date = date
      BY <3>1 DEF Contrato
    <3> QED
      BY <1>1, <2>1, <3>1, <3>2 DEF Dated
  <2>4. CASE Commit
    <3>1. UNCHANGED <<up, pc, date, clock, payload>>
      BY <2>4 DEF Commit, loop, read
    <3> QED
      BY <1>1, <2>1, <3>1 DEF Dated
  <2>5. CASE Crash
    <3>1. UNCHANGED <<pc, date, clock>> /\ ~up'
      BY <2>5 DEF Crash, read
    <3> QED
      BY <1>1, <2>1, <3>1 DEF Dated
  <2>6. CASE ~(ReadClock \/ Build \/ Commit \/ Crash)
    <3>1. UNCHANGED <<date, clock>> /\ pc' \in {"read", "row"}
      BY <1>3, <2>6
         DEF Produce, Step, Start, HandleEvent, LastRow, SkipRow, Unsupported, Abort, Emit, Save,
             At, DoneWithEvent, NextRow, read
    <3> QED
      BY <1>1, <2>1, <3>1 DEF Dated
  <2> QED
    BY <2>2, <2>3, <2>4, <2>5, <2>6
<1> QED
  BY <1>2, <1>3

\* Every step of either process keeps what a client knows.
LEMMA NextClient ==
  ASSUME PInv, DeadLetters, ClientInv, [PipelineNext]_pipeline
  PROVE  ClientInv'
<1>1. CASE Produce
  BY <1>1, ProduceMade, ProduceDated, ClientWaits DEF ClientInv
<1>2. CASE /\ UNCHANGED producer /\ Made' \subseteq Made
           /\ UNCHANGED <<received, view>> \/ \E s : Arrives(s)
  <2>1. Dated'
    <3>1. UNCHANGED <<up, pc, date, clock, payload>>
      BY <1>2 DEF producer, loop, read
    <3> QED
      BY <1>2, <3>1 DEF ClientInv, Dated
  <2>2. Genuine' /\ Latest'
    BY <1>2, ClientWaits, ClientKeeps
  <2> QED
    BY <2>1, <2>2 DEF ClientInv
<1> QED
  BY <1>1, <1>2, PipelineSteps

\* A client keeps, of each resource, the Contrato with the last date of all it received,
\* each as the producer made it of a row that was no removal.
THEOREM ClientInvariant == PipelineSpec => []ClientInv
<1>1. PipelineInit => ClientInv
  BY InitClient
<1>2. PInv /\ DeadLetters /\ ClientInv /\ [PipelineNext]_pipeline => ClientInv'
  BY NextClient
<1> QED
  BY <1>1, <1>2, PipelineInvariant, DeadLettersTraced, PTL DEF PipelineSpec

-----------------------------------------------------------------------------
(* The order of what a client sees *)

\* What the consumer does leaves the order as it is.
LEMMA ConsumeInTurn ==
  ASSUME UNCHANGED producer, Made' \subseteq Made
  PROVE  (InTurn => InTurn') /\ (Strict => Strict')
<1>1. UNCHANGED <<up, pc, next, saved, date, payload, committed, crashes>>
  BY DEF producer, loop, read, server, pBounds
<1>2. Posted' \subseteq Posted
  BY DEF Posted
<1>3. ASSUME InTurn PROVE InTurn'
  <2>1. \A r : Version(r, committed)' = Version(r, committed)
    BY <1>1 DEF Version, Visited
  <2> QED
    BY <1>1, <1>2, <1>3, <2>1 DEF InTurn, Orderly
<1>4. ASSUME Strict PROVE Strict'
  BY <1>1, <1>2, <1>4 DEF Strict, NoTies
<1> QED
  BY <1>3, <1>4

\* A target takes the Contrato in hand: it is the last in every respect.
LEMMA CallTargetInTurn ==
  ASSUME PInv, ClientInv, InTurn, NoTies', Produce, CallTarget
  PROVE  InTurn'
<1>1. UNCHANGED <<up, pc, next, saved, payload, committed, crashes>> /\ up /\ pc = "fanout"
  BY DEF CallTarget, At, loop, server
<1>2. /\ payload \in Contratos /\ payload.capa = next /\ Made' \subseteq Made \cup {payload}
  BY <1>1, ProduceMade DEF PInv, Carried, Fits, EventId
<1>3. /\ Posted' \subseteq Posted \cup {payload}
      /\ payload.mod = "D" => Posted' \subseteq Posted
  BY <1>2 DEF Posted
<1>4. ASSUME NEW b \in Posted PROVE b \in Contratos /\ b.date <= payload.date
  BY <1>1 DEF Posted, Made, ClientInv, Dated
<1>5. ASSUME crashes = 0
      PROVE  /\ \A b \in Posted' : b.capa <= next /\ b.enr <= Version(b.res, committed)
             /\ payload.mod # "D" => \A b \in Posted' : b.res = payload.res => b.enr <= payload.enr
             /\ \A x, y \in Posted' : Orderly(x, y)
  <2>1. /\ \A b \in Posted : b.capa <= next /\ b.enr <= Version(b.res, committed)
        /\ \A x, y \in Posted : Orderly(x, y)
    BY <1>5 DEF InTurn
  <2>2. CASE Posted' \subseteq Posted
    BY <1>1, <1>5, <2>1, <2>2 DEF InTurn
  <2>3. CASE payload.mod # "D"
    <3>1. /\ payload.enr <= Version(payload.res, committed)
          /\ \A b \in Posted : b.res = payload.res => b.enr <= payload.enr
      BY <1>1, <1>5, <2>3 DEF InTurn
    <3>2. /\ payload.capa \in Nat /\ payload.enr \in Nat /\ payload.date \in Nat
          /\ payload.capa <= next
      BY <1>2, Numbers
    <3>3. ASSUME NEW x \in Posted', NEW y \in Posted' PROVE Orderly(x, y)
      <4>1. CASE x \in Posted /\ y \in Posted
        BY <2>1, <4>1
      <4>2. CASE y = payload
        BY <1>2, <1>3, <2>1, <3>1, <3>2, <4>2 DEF Orderly
      <4>3. CASE x = payload /\ y \in Posted /\ x # y
        <5>1. y.date <= x.date /\ y.date \in Nat /\ x.date \in Nat
          BY <1>4, <3>2, <4>3, Numbers
        <5>2. ~(x.res = y.res /\ x.date = y.date)
          BY <4>3 DEF NoTies
        <5> QED
          BY <5>1, <5>2 DEF Orderly
      <4> QED
        BY <1>3, <4>1, <4>2, <4>3
    <3> QED
      BY <1>3, <2>1, <3>1, <3>2, <3>3
  <2> QED
    BY <1>3, <2>2, <2>3
<1>6. \A r : Version(r, committed)' = Version(r, committed)
  BY <1>1 DEF Version, Visited
<1> QED
  BY <1>1, <1>5, <1>6 DEF InTurn, Orderly

\* What is read of MariaDB now is no older than what was ever read.
LEMMA BuildInTurn ==
  ASSUME PInv, InTurn, Produce, Build
  PROVE  InTurn'
<1>1. /\ UNCHANGED <<up, next, saved, committed, crashes>> /\ pc = "build"
      /\ up /\ payload' = Contrato(next, row)
  BY DEF Build, At, loop, server, pBounds
<1>2. Posted' = Posted
  <2>1. ~CallTarget
    BY DEF Build, CallTarget, At
  <2> QED
    BY <2>1, ProduceMade DEF Posted
<1>3. payload'.mod # "D" => payload'.enr = Version(payload'.res, committed)
  BY <1>1 DEF Contrato, TipoModificacaoDe
<1>4. \A r : Version(r, committed)' = Version(r, committed) /\ Version(r, committed) \in Nat
  <2>1. committed \in Nat
    BY ProducerAssumption DEF PInv, IInv, TypeOK
  <2>2. ASSUME NEW r PROVE Version(r, committed) \in Nat
    <3>1. Version(r, committed) \in 0 .. committed
      BY <2>1, VersionShape
    <3> QED
      BY <2>1, <3>1
  <2>3. \A r : Version(r, committed)' = Version(r, committed)
    BY <1>1 DEF Version, Visited
  <2> QED
    BY <2>2, <2>3
<1> QED
  BY <1>1, <1>2, <1>3, <1>4 DEF InTurn, Orderly

\* MariaDB moves on.
LEMMA CommitInTurn ==
  ASSUME PInv, InTurn, Produce, Commit
  PROVE  InTurn'
<1>1. /\ UNCHANGED <<up, pc, next, saved, payload, crashes>>
      /\ committed \in Nat /\ committed' = committed + 1
  BY ProducerAssumption DEF Commit, loop, pBounds, PInv, IInv, TypeOK
<1>2. Posted' = Posted
  <2>1. ~CallTarget
    BY <1>1 DEF CallTarget, server
  <2> QED
    BY <2>1, ProduceMade DEF Posted
<1>3. \A b \in Posted : b.enr \in Nat
  BY Numbers DEF Posted, Made
<1>4. up /\ pc = "fanout" => payload.enr \in Nat
  BY Numbers DEF PInv, Carried, Fits
<1>5. \A r : /\ Version(r, committed)' = Version(r, committed')
             /\ Version(r, committed) \in Nat /\ Version(r, committed') \in Nat
             /\ Version(r, committed) <= Version(r, committed')
  <2>1. ASSUME NEW r
        PROVE  /\ Version(r, committed) \in Nat /\ Version(r, committed') \in Nat
               /\ Version(r, committed) <= Version(r, committed')
    <3>1. Version(r, committed) \in 0 .. committed
      BY <1>1, VersionShape
    <3>2. PICK d : d = committed'
      OBVIOUS
    <3>3. d \in Nat /\ committed <= d
      BY <1>1, <3>2
    <3>4. Version(r, d) \in 0 .. d
      BY <3>3, VersionShape
    <3>5. Version(r, committed) <= Version(r, d)
      BY <1>1, <3>3, VersionGrows
    <3> QED
      BY <1>1, <3>1, <3>2, <3>3, <3>4, <3>5
  <2> QED
    BY <2>1 DEF Version, Visited
<1> QED
  BY <1>1, <1>2, <1>3, <1>4, <1>5 DEF InTurn, Orderly

\* The other steps of the producer make nothing, and go on to the next row or event.
LEMMA ProduceInTurn ==
  ASSUME PInv, ClientInv, InTurn, NoTies', Produce
  PROVE  InTurn'
<1>1. CASE CallTarget \/ Build \/ Commit
  BY <1>1, CallTargetInTurn, BuildInTurn, CommitInTurn
<1>2. CASE ~(CallTarget \/ Build \/ Commit)
  <2>1. Posted' = Posted
    BY <1>2, ProduceMade DEF Posted
  <2>2. next \in Nat /\ crashes \in Nat /\ UNCHANGED committed
    BY <1>2, ProducerAssumption
       DEF PInv, IInv, TypeOK, InTurn, Produce, Step, Start, HandleEvent, LastRow, SkipRow,
           ReadClock, Unsupported, Abort, Emit, Save, Crash, server
  <2>3. \A r : Version(r, committed)' = Version(r, committed)
    BY <2>2 DEF Version, Visited
  <2>4. CASE Crash
    BY <2>2, <2>4 DEF Crash, InTurn
  <2>5. CASE Start
    <3>1. crashes' = crashes /\ pc' = "read" /\ up' /\ ~up /\ next' = saved + 1
      BY <2>5 DEF Start, pBounds
    <3> QED
      BY <2>1, <2>2, <2>3, <3>1 DEF InTurn, Orderly
  <2>6. CASE ~(Crash \/ Start)
    <3>1. /\ crashes' = crashes /\ up /\ up' /\ pc' # "fanout" /\ next' \in {next, next + 1}
      BY <1>2, <2>6
         DEF Produce, Step, HandleEvent, LastRow, SkipRow, ReadClock, Unsupported, Abort,
             Emit, Save, At, DoneWithEvent, NextRow, loop, pBounds
    <3>2. \A b \in Posted : b.capa \in Nat
      BY Numbers DEF Posted, Made
    <3> QED
      BY <2>1, <2>2, <2>3, <3>1, <3>2 DEF InTurn, Orderly
  <2> QED
    BY <2>4, <2>5, <2>6
<1> QED
  BY <1>1, <1>2

\* Every step of either process keeps the order, while no two dates are equal.
LEMMA NextInTurn ==
  ASSUME PInv, DeadLetters, ClientInv, InTurn, NoTies', [PipelineNext]_pipeline
  PROVE  InTurn'
BY PipelineSteps, ProduceInTurn, ConsumeInTurn

\* Of two snapshots a client was sent, until the producer crashes the one with the later
\* date is of the later change and of the later reading (GLOSSARY), unless two Contratos
\* of one resource carry the same date: ADR 0001 gives no order to those.
THEOREM NewestUntilCrash == PipelineSpec /\ []NoTies => [](crashes = 0 => NewestIsLast)
<1>1. PipelineInit => InTurn
  BY InitClient
<1>2. PInv /\ DeadLetters /\ ClientInv /\ InTurn /\ NoTies' /\ [PipelineNext]_pipeline => InTurn'
  BY NextInTurn
<1>3. ClientInv /\ InTurn => (crashes = 0 => NewestIsLast)
  <2> SUFFICES ASSUME ClientInv, InTurn, crashes = 0, NEW x \in Sent, NEW y \in Sent
               PROVE  x.body.res = y.body.res /\ x.body.date < y.body.date =>
                        x.body.capa <= y.body.capa /\ x.body.enr <= y.body.enr
    BY DEF NewestIsLast
  <2>1. x.body \in Posted /\ y.body \in Posted
    BY DEF ClientInv, Genuine, Fits, Made, Posted
  <2>2. x.body.date \in Nat /\ y.body.date \in Nat
    BY <2>1, Numbers DEF Posted, Made
  <2>3. Orderly(x.body, y.body)
    BY <2>1 DEF InTurn
  <2> QED
    BY <2>2, <2>3 DEF Orderly
<1> QED
  BY <1>1, <1>2, <1>3, PipelineInvariant, DeadLettersTraced, ClientInvariant, PTL
     DEF PipelineSpec

\* A client that follows ADR 0001 ends, once all is handled, with the last change of every
\* resource that was not left to the operator, and a reading of MariaDB no older than it,
\* if the producer has not crashed and no two Contratos of one resource carry the same
\* date: whatever retries, lost answers and crashes the consumer goes through.
THEOREM ClientShowsTheLast == PipelineSpec /\ []NoTies => []ClientConverges
<1>1. PipelineInit => InTurn
  BY InitClient
<1>2. PInv /\ DeadLetters /\ ClientInv /\ InTurn /\ NoTies' /\ [PipelineNext]_pipeline => InTurn'
  BY NextInTurn
<1>3. PInv /\ ClientInv /\ InTurn => ClientConverges
  <2> SUFFICES ASSUME PInv, ClientInv, InTurn, Quiet, crashes = 0, NEW r \in Resources,
                      ~Escalated(r), NEW n \in Updates(r)
               PROVE  view[r] # NoBody /\ n <= view[r].capa /\ n <= view[r].enr
    BY DEF ClientConverges
  <2>1. PICK i \in Eligible(n) : Visited(n)[i].res = r
    BY DEF Updates
  <2>2. PICK id : id = EventId(n, i)
    OBVIOUS
  <2>3. n \in DOMAIN Changes /\ i \in DOMAIN Visited(n) /\ id \in Ids /\ ~Removal(id)
    BY <2>2, NamesAssumption DEF Updates, Eligible, Removal, EventId
  <2>4. n \in 1 .. next - 1
    <3>1. Len(Changes) \in Nat /\ n \in 1 .. Len(Changes) /\ next \in Nat
      BY <2>3, ProducerAssumption DEF PInv, IInv, TypeOK
    <3> QED
      BY <3>1 DEF Quiet
  <2>5. Traced(n, i)
    BY <2>4 DEF PInv, IInv, Handled, Quiet
  <2>6. n \notin aborted /\ id \notin failedEvents \cup unsaved
        /\ \A q \in Queues : status[q][id] # "archived"
    BY <2>1, <2>2, <2>3 DEF Escalated
  <2>7. 1 \in DOMAIN Targets
    BY ProducerAssumption, PipelineAssumption
  <2>8. \E t : <<t, id>> \in inserted
    BY <2>2, <2>5, <2>6, <2>7 DEF Traced, Reached
  <2>9. PICK q \in Queues : Exists(q, id) \/ D!Received(q, id)
    BY <2>3, <2>8 DEF PInv, Kept
  <2>10. D!Received(q, id)
    BY <2>3, <2>6, <2>9 DEF Quiet, Idle, D!Settled, Exists
  <2>11. PICK s \in Sent : s.id = id
    BY <2>10 DEF D!Received, Sent, ToSet
  <2>12. PICK b : b = s.body
    OBVIOUS
  <2>13. Fits(b, id) /\ b.mod # "D"
    BY <2>11, <2>12 DEF ClientInv, Genuine
  <2>14. b \in Contratos /\ b.res = r /\ b.capa = n /\ b.capa <= b.enr
    BY <2>1, <2>2, <2>13 DEF Fits, EventId
  <2>15. view[r] # NoBody /\ b.date <= view[r].date
    BY <2>12, <2>14 DEF ClientInv, Latest
  <2>16. PICK t \in Sent : t.body = view[r]
    BY <2>15 DEF ClientInv, Latest
  <2>17. view[r].res = r
    BY <2>15 DEF ClientInv, Latest
  <2>18. b \in Posted /\ view[r] \in Posted /\ view[r] \in Contratos
    BY <2>12, <2>13, <2>14, <2>16 DEF ClientInv, Genuine, Fits, Made, Posted
  <2>19. Orderly(b, view[r])
    BY <2>18 DEF InTurn
  <2>20. b.capa <= view[r].capa /\ b.enr <= view[r].enr
    BY <2>14, <2>15, <2>17, <2>19 DEF Orderly
  <2>21. b.enr \in Nat /\ view[r].enr \in Nat /\ n \in Nat
    BY <2>14, <2>18, Numbers
  <2> QED
    BY <2>14, <2>15, <2>20, <2>21
<1> QED
  BY <1>1, <1>2, <1>3, PipelineInvariant, DeadLettersTraced, ClientInvariant, PTL
     DEF PipelineSpec

\* With a clock that moves, what comes next is dated after all that was made.
LEMMA ProduceStrict ==
  ASSUME 0 \notin ClockSteps, PInv, ClientInv, Strict, Produce
  PROVE  Strict'
<1>1. /\ \A b \in Made : b.date <= clock /\ b.date \in Nat
      /\ clock \in Nat /\ date \in Nat
      /\ up /\ pc = "fanout" => payload.date = date
  BY Numbers, ProducerAssumption DEF ClientInv, Dated, Made, PInv, IInv, TypeOK
<1>2. CASE CallTarget
  <2>1. UNCHANGED <<up, pc, date, payload>> /\ up /\ pc = "fanout"
    BY <1>2 DEF CallTarget, At, loop, read
  <2>2. Made' \subseteq Made \cup {payload}
    BY ProduceMade
  <2>3. \A b \in Made' : b.date \in Nat /\ (b.date < date \/ b = payload)
    BY <1>1, <2>1, <2>2 DEF Strict
  <2>4. NoTies'
    <3> SUFFICES ASSUME NEW x \in Posted', NEW y \in Posted', x.res = y.res, x.date = y.date
                 PROVE  x = y
      BY DEF NoTies
    <3>1. x \in Made' /\ y \in Made'
      BY DEF Posted
    <3>2. CASE x.date = date
      <4>1. ~(x.date < date) /\ ~(y.date < date)
        BY <1>1, <3>2
      <4>2. x = payload
        BY <2>3, <3>1, <4>1
      <4>3. y = payload
        BY <2>3, <3>1, <4>1
      <4> QED
        BY <4>2, <4>3
    <3>3. CASE x.date # date
      <4>1. x # payload /\ y # payload
        BY <1>1, <2>1, <3>3
      <4>2. x \in Posted /\ y \in Posted
        BY <2>2, <4>1 DEF Posted
      <4> QED
        BY <4>2 DEF Strict, NoTies
    <3> QED
      BY <3>2, <3>3
  <2> QED
    BY <2>1, <2>3, <2>4 DEF Strict
<1>3. CASE ~CallTarget
  <2>1. Made' = Made /\ Posted' = Posted
    BY <1>3, ProduceMade DEF Posted
  <2>2. NoTies'
    BY <2>1 DEF Strict, NoTies
  <2>3. CASE ReadClock
    <3>1. PICK step \in ClockSteps : clock' = clock + step
      BY <2>3 DEF ReadClock
    <3>2. step \in Nat /\ step # 0 /\ date' = clock' /\ pc' = "build"
      BY <2>3, ProducerAssumption DEF ReadClock
    <3>3. \A b \in Made : b.date < clock'
      BY <1>1, <3>1, <3>2
    <3> QED
      BY <2>1, <2>2, <3>2, <3>3 DEF Strict
  <2>4. CASE Build
    <3>1. UNCHANGED date /\ pc = "build" /\ up /\ pc' = "fanout"
      BY <2>4 DEF Build, At, read
    <3> QED
      BY <2>1, <2>2, <3>1 DEF Strict
  <2>5. CASE Commit
    <3>1. UNCHANGED <<up, pc, date, payload>>
      BY <2>5 DEF Commit, loop, read
    <3> QED
      BY <2>1, <2>2, <3>1 DEF Strict
  <2>6. CASE ~(ReadClock \/ Build \/ Commit)
    <3>1. ~up' \/ pc' \in {"read", "row"}
      BY <1>3, <2>6
         DEF Produce, Step, Start, HandleEvent, LastRow, SkipRow, Unsupported, Abort, Emit, Save,
             Crash, At, DoneWithEvent, NextRow
    <3> QED
      BY <2>1, <2>2, <3>1 DEF Strict
  <2> QED
    BY <2>3, <2>4, <2>5, <2>6
<1> QED
  BY <1>2, <1>3

\* No two Contratos carry the same date if the clock, which is read once for each row,
\* shows another millisecond each time.
THEOREM MovingClockHasNoTies ==
  ASSUME 0 \notin ClockSteps
  PROVE  PipelineSpec => []NoTies
<1>1. PipelineInit => Strict
  BY InitClient
<1>2. PInv /\ DeadLetters /\ ClientInv /\ Strict /\ [PipelineNext]_pipeline => Strict'
  BY PipelineSteps, ProduceStrict, ConsumeInTurn
<1>3. Strict => NoTies
  BY DEF Strict
<1> QED
  BY <1>1, <1>2, <1>3, PipelineInvariant, DeadLettersTraced, ClientInvariant, PTL
     DEF PipelineSpec

\* With such a clock, nothing else is needed for a client to end with the last change.
THEOREM ClientShowsTheLastWithMovingClock ==
  ASSUME 0 \notin ClockSteps
  PROVE  PipelineSpec => []ClientConverges
BY MovingClockHasNoTies, ClientShowsTheLast, PTL

\* What the producer promises with tasks that just vanish (Consumed), it keeps beside the
\* real consumer, which retries, archives and gives back tasks.
THEOREM ProducerBesideConsumer == PipelineSpec => [](EveryRowAccounted /\ OneTaskPerTarget)
<1>1. PInv => EveryRowAccounted /\ OneTaskPerTarget
  BY OneShard DEF PInv, IInv
<1> QED
  BY <1>1, PipelineInvariant, PTL
=============================================================================
