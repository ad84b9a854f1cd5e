-------------------------- MODULE Registry_proofs ---------------------------
(***************************************************************************)
(* Theorems about Registry, for any servers, hosts and numbers of commands *)
(* and crashes: no order of commands, restarts and late writes skips a     *)
(* change of a host or undoes the reset of a position.                     *)
(***************************************************************************)
EXTENDS Registry, TLAPS

\* Every change of the host from where the server was begun to pos was handled.
Through(n, host, pos) ==
  \A k \in began[n] .. pos - 1 : <<host, k>> \in handled[n]

\* The copy that the watcher of n works with, against the row of n.
CopyOf(n) ==
  LET copy == watcher[n].row IN
  /\ watcher[n].phase = "start" => table[n].pos \in {copy.pos, NoPos}
  /\ watcher[n].phase = "run" => copy.pos # NoPos
  /\ watcher[n] # NoWatcher /\ n \notin foreign =>
       copy.host = table[n].host /\ Through(n, copy.host, copy.pos)

RowOf(n) ==
  n \in Rows \ foreign => Through(n, table[n].host, table[n].pos)

\* While a reset is due the watcher of n, if there is one, has read it.
DueOf(n) ==
  n \in resetDue =>
    /\ n \in Rows /\ table[n].pos = NoPos
    /\ watcher[n] # NoWatcher => watcher[n].phase = "start" /\ watcher[n].row.pos = NoPos

Server(n) == CopyOf(n) /\ RowOf(n) /\ DueOf(n)

\* The inductive invariant.
IInv == TypeOK /\ \A n \in Names : Server(n)

-----------------------------------------------------------------------------
(* Rows and watchers *)

\* A row and the lack of one, and a watcher and the lack of one, are told apart.
LEMMA NoneApart ==
  /\ NoRow \notin Row
  /\ \A w \in [phase : {"start", "run"}, row : Row] : w # NoWatcher /\ w.phase # "ended"
  /\ NoWatcher.phase = "ended"
<1>1. \A r \in Row : DOMAIN r = {"replica", "host", "fits", "active", "pos"}
  BY DEF Row
<1>2. DOMAIN NoRow = {"replica"}
  BY DEF NoRow
<1>3. "host" # "replica"
  OBVIOUS
<1>4. NoRow \notin Row
  BY <1>1, <1>2, <1>3
<1> QED
  BY <1>4 DEF NoWatcher

\* Positions are naturals.
LEMMA PositionShape ==
  /\ Position \subseteq Nat /\ NoPos \in Position
  /\ \A p \in 0 .. Length : p + 1 \in Position /\ p + 1 # NoPos
BY RegistryAssumption DEF Position, NoPos

\* The rows of the table and the copies of the watchers are rows.
LEMMA Shapes ==
  ASSUME TypeOK, NEW n \in Names
  PROVE  /\ n \in Rows <=> table[n] \in Row
         /\ watcher[n] = NoWatcher <=> watcher[n].phase = "ended"
         /\ watcher[n] # NoWatcher =>
              /\ process = "up" /\ n \in Rows
              /\ watcher[n].phase \in {"start", "run"} /\ watcher[n].row \in Row
BY NoneApart DEF TypeOK, Rows

\* What is said of a server stands while neither its row nor its watcher change, and
\* what was handled of it is not forgotten.
LEMMA ServerStays ==
  ASSUME NEW n \in Names, Server(n),
         table'[n] = table[n], watcher'[n] = watcher[n],
         began'[n] = began[n], handled[n] \subseteq handled'[n],
         n \in foreign' <=> n \in foreign, n \in resetDue' <=> n \in resetDue
  PROVE  Server(n)'
BY DEF Server, CopyOf, RowOf, DueOf, Through, Rows

\* The initial states satisfy the invariant.
LEMMA InitIInv ==
  ASSUME Init
  PROVE  IInv
<1>1. TypeOK
  BY PositionShape, RegistryAssumption, NoneApart DEF Init, TypeOK, Rows
<1>2. ASSUME NEW n \in Names PROVE Server(n)
  BY NoneApart DEF Init, Server, CopyOf, RowOf, DueOf, Rows, NoWatcher
<1> QED
  BY <1>1, <1>2 DEF IInv

-----------------------------------------------------------------------------
(* The commands *)

\* A new row has no position.
LEMMA NewRowShape ==
  ASSUME NEW replica \in Replicas, NEW host \in Hosts, NEW fits \in BOOLEAN
  PROVE  NewRow(replica, host, fits) \in Row /\ NewRow(replica, host, fits).pos = NoPos
BY PositionShape DEF NewRow, Row

\* Where there is no position there is no claim.
LEMMA NoPosThrough ==
  ASSUME NEW n \in Names, began[n] \in Position
  PROVE  \A host : Through(n, host, NoPos)
<1>1. began[n] \in Nat
  BY PositionShape
<1>2. \A k \in began[n] .. NoPos - 1 : FALSE
  BY <1>1 DEF NoPos
<1> QED
  BY <1>2 DEF Through

\* server add: the row of another server is not touched, and the new one has no position.
LEMMA AddIInv ==
  ASSUME IInv, NEW n \in Names, Add(n)
  PROVE  IInv'
<1> USE DEF ghosts
<1>1. PICK row \in Row : row.pos = NoPos /\ table' = [table EXCEPT ![n] = row]
  BY NewRowShape DEF Add
<1>2. UNCHANGED <<master, process, watcher, ghosts, crashes>> /\ commands' = commands + 1
      /\ commands < MaxCommands /\ n \notin Rows
  BY DEF Add, Command
<1>3. table'[n] = row /\ \A m \in Names \ {n} : table'[m] = table[m]
  BY <1>1 DEF IInv, TypeOK
<1>4. TypeOK'
  <2>1. commands' \in 0 .. MaxCommands
    BY <1>2, RegistryAssumption DEF IInv, TypeOK
  <2>2. table' \in [Names -> Row \cup {NoRow}]
    BY <1>1 DEF IInv, TypeOK
  <2>3. \A m \in Names : watcher[m].phase # "ended" => m \in Rows'
    BY <1>3, NoneApart DEF IInv, TypeOK, Rows
  <2> QED
    BY <1>2, <2>1, <2>2, <2>3 DEF IInv, TypeOK
<1>5. Server(n)'
  <2>1. watcher[n] = NoWatcher
    BY <1>2, Shapes DEF IInv
  <2>2. CopyOf(n)'
    BY <1>2, <2>1 DEF CopyOf, NoWatcher
  <2>3. RowOf(n)'
    <3>1. \A host : Through(n, host, NoPos)'
      BY <1>2, NoPosThrough DEF IInv, TypeOK, Through
    <3> QED
      BY <1>1, <1>3, <3>1 DEF RowOf, Through
  <2>4. DueOf(n)'
    BY <1>2 DEF IInv, Server, DueOf
  <2> QED
    BY <2>2, <2>3, <2>4 DEF Server
<1>6. ASSUME NEW m \in Names \ {n} PROVE Server(m)'
  BY <1>2, <1>3, ServerStays DEF IInv
<1> QED
  BY <1>4, <1>5, <1>6 DEF IInv

\* server update: a change of host leaves a position of the host before, and the server
\* is known as foreign, unless there is no position and no watcher to write one.
LEMMA UpdateIInv ==
  ASSUME IInv, NEW n \in Names, Update(n)
  PROVE  IInv'
<1>1. PICK row \in {r \in Row : r.pos = table[n].pos} :
        /\ table' = [table EXCEPT ![n] = row]
        /\ foreign' = IF row.host # table[n].host /\ (row.pos # NoPos \/ watcher[n].phase # "ended")
                        THEN foreign \cup {n} ELSE foreign
  BY DEF Update
<1>2. UNCHANGED <<master, process, watcher, handled, began, resetDue, crashes>>
      /\ commands' = commands + 1 /\ commands < MaxCommands /\ n \in Rows
  BY DEF Update, Command
<1>3. table'[n] = row /\ (\A m \in Names \ {n} : table'[m] = table[m])
      /\ row \in Row /\ row.pos = table[n].pos
  BY <1>1 DEF IInv, TypeOK
<1>4. TypeOK'
  <2>1. commands' \in 0 .. MaxCommands
    BY <1>2, RegistryAssumption DEF IInv, TypeOK
  <2>2. table' \in [Names -> Row \cup {NoRow}] /\ foreign' \subseteq Names
    BY <1>1 DEF IInv, TypeOK
  <2>3. \A m \in Names : watcher[m].phase # "ended" => m \in Rows'
    BY <1>3, NoneApart DEF IInv, TypeOK, Rows
  <2> QED
    BY <1>2, <2>1, <2>2, <2>3 DEF IInv, TypeOK
<1>5. Server(n)'
  <2>1. foreign \subseteq foreign'
    BY <1>1
  <2>2. n \notin foreign' =>
          \/ row.host = table[n].host
          \/ row.pos = NoPos /\ watcher[n] = NoWatcher
    BY <1>1, Shapes DEF IInv
  <2>3. CopyOf(n)'
    BY <1>2, <1>3, <2>1, <2>2, NoneApart DEF IInv, Server, CopyOf, Through
  <2>4. RowOf(n)'
    <3>1. \A host : Through(n, host, NoPos)'
      BY <1>2, NoPosThrough DEF IInv, TypeOK, Through
    <3> QED
      BY <1>2, <1>3, <2>1, <2>2, <3>1 DEF IInv, Server, RowOf, Through
  <2>5. DueOf(n)'
    BY <1>2, <1>3, NoneApart DEF IInv, Server, DueOf, Rows
  <2> QED
    BY <2>3, <2>4, <2>5 DEF Server
<1>6. ASSUME NEW m \in Names \ {n} PROVE Server(m)'
  BY <1>1, <1>2, <1>3, ServerStays DEF IInv
<1> QED
  BY <1>4, <1>5, <1>6 DEF IInv

\* server remove: neither host nor position change.
LEMMA RemoveIInv ==
  ASSUME IInv, NEW n \in Names, Remove(n)
  PROVE  IInv'
<1> USE DEF ghosts
<1>1. UNCHANGED <<master, process, watcher, ghosts, crashes>>
      /\ commands' = commands + 1 /\ commands < MaxCommands /\ n \in Rows
      /\ table' = [table EXCEPT ![n].active = 0]
  BY DEF Remove, Command
<1>2. table[n] \in Row
  BY <1>1, Shapes DEF IInv
<1>3. /\ table'[n] \in Row /\ table'[n].host = table[n].host /\ table'[n].pos = table[n].pos
      /\ \A m \in Names \ {n} : table'[m] = table[m]
  BY <1>1, <1>2 DEF IInv, TypeOK, Row
<1>4. TypeOK'
  <2>1. commands' \in 0 .. MaxCommands
    BY <1>1, RegistryAssumption DEF IInv, TypeOK
  <2>2. table' \in [Names -> Row \cup {NoRow}]
    BY <1>1, <1>3 DEF IInv, TypeOK
  <2>3. \A m \in Names : watcher[m].phase # "ended" => m \in Rows'
    BY <1>3, NoneApart DEF IInv, TypeOK, Rows
  <2> QED
    BY <1>1, <2>1, <2>2, <2>3 DEF IInv, TypeOK
<1>5. Server(n)'
  BY <1>1, <1>3, NoneApart DEF IInv, Server, CopyOf, RowOf, DueOf, Through, Rows
<1>6. ASSUME NEW m \in Names \ {n} PROVE Server(m)'
  BY <1>1, <1>3, ServerStays DEF IInv
<1> QED
  BY <1>4, <1>5, <1>6 DEF IInv

\* The position is zeroed: the claim about the row is void, and that about the copy of a
\* watcher stands.
LEMMA ResetIInv ==
  ASSUME IInv, NEW n \in Names, Reset(n)
  PROVE  IInv'
<1>1. UNCHANGED <<master, process, watcher, handled, began, foreign, crashes>>
      /\ commands' = commands + 1 /\ commands < MaxCommands /\ n \in Rows
      /\ table' = [table EXCEPT ![n].pos = NoPos]
      /\ resetDue' = IF watcher[n] = NoWatcher THEN resetDue \cup {n} ELSE resetDue
  BY DEF Reset, Command
<1>2. table[n] \in Row
  BY <1>1, Shapes DEF IInv
<1>3. /\ table'[n] \in Row /\ table'[n].host = table[n].host /\ table'[n].pos = NoPos
      /\ \A m \in Names \ {n} : table'[m] = table[m]
  BY <1>1, <1>2, PositionShape DEF IInv, TypeOK, Row
<1>4. TypeOK'
  <2>1. commands' \in 0 .. MaxCommands
    BY <1>1, RegistryAssumption DEF IInv, TypeOK
  <2>2. table' \in [Names -> Row \cup {NoRow}] /\ resetDue' \subseteq Names
    BY <1>1, <1>3 DEF IInv, TypeOK
  <2>3. \A m \in Names : watcher[m].phase # "ended" => m \in Rows'
    BY <1>3, NoneApart DEF IInv, TypeOK, Rows
  <2> QED
    BY <1>1, <2>1, <2>2, <2>3 DEF IInv, TypeOK
<1>5. Server(n)'
  <2>1. CopyOf(n)'
    BY <1>1, <1>3 DEF IInv, Server, CopyOf, Through
  <2>2. RowOf(n)'
    <3>1. \A host : Through(n, host, NoPos)'
      BY <1>1, NoPosThrough DEF IInv, TypeOK, Through
    <3> QED
      BY <1>3, <3>1 DEF RowOf, Through
  <2>3. DueOf(n)'
    BY <1>1, <1>3, NoneApart DEF IInv, Server, DueOf, Rows
  <2> QED
    BY <2>1, <2>2, <2>3 DEF Server
<1>6. ASSUME NEW m \in Names \ {n} PROVE Server(m)'
  BY <1>1, <1>3, ServerStays DEF IInv
<1> QED
  BY <1>4, <1>5, <1>6 DEF IInv

-----------------------------------------------------------------------------
(* The producer as a process *)

\* main loads the active rows: every watcher begins with the row as it is.
LEMMA LoadIInv ==
  ASSUME IInv, Load
  PROVE  IInv'
<1> USE DEF ghosts, bounds
<1>1. /\ UNCHANGED <<table, master, ghosts, bounds>>
      /\ process' = IF Active = {} THEN "seeding" ELSE "up"
      /\ watcher' = [n \in Names |-> IF n \in Active THEN Copy(n) ELSE NoWatcher]
  BY DEF Load, Listen
<1>2. ASSUME NEW n \in Active
      PROVE  /\ n \in Rows /\ n \in Names /\ table[n] \in Row
             /\ Copy(n) \in [phase : {"start", "run"}, row : Row]
             /\ Copy(n).phase = "start" /\ Copy(n).row = table[n]
  BY Shapes DEF IInv, Active, Rows, Copy
<1>3. TypeOK'
  <2>1. watcher' \in [Names -> [phase : {"start", "run"}, row : Row] \cup {NoWatcher}]
    BY <1>1, <1>2
  <2>2. \A n \in Names : watcher'[n].phase # "ended" => process' = "up" /\ n \in Rows
    BY <1>1, <1>2, NoneApart
  <2> QED
    BY <1>1, <2>1, <2>2 DEF IInv, TypeOK, Rows
<1>4. ASSUME NEW n \in Names PROVE Server(n)'
  <2>1. CASE n \in Active
    BY <1>1, <1>2, <2>1, NoneApart DEF IInv, Server, CopyOf, RowOf, DueOf, Through, Rows
  <2>2. CASE n \notin Active
    BY <1>1, <2>2, NoneApart DEF IInv, Server, CopyOf, RowOf, DueOf, Through, Rows
  <2> QED
    BY <2>1, <2>2
<1> QED
  BY <1>3, <1>4 DEF IInv

\* The seed is inserted, without a position, or the process ends.
LEMMA SeedingIInv ==
  ASSUME IInv, Seeding
  PROVE  IInv'
<1> USE DEF ghosts, bounds
<1> DEFINE seed == NewRow(SeedReplica, SeedHost, TRUE)
<1>1. UNCHANGED <<master, ghosts, bounds>> /\ process = "seeding"
  BY DEF Seeding
<1>2. \A n \in Names : watcher[n] = NoWatcher
  BY <1>1, Shapes DEF IInv
<1>3. CASE process' = "down" /\ UNCHANGED <<table, watcher>>
  <2>1. TypeOK'
    BY <1>1, <1>2, <1>3, NoneApart DEF IInv, TypeOK, Rows
  <2>2. ASSUME NEW n \in Names PROVE Server(n)'
    BY <1>1, <1>3, ServerStays DEF IInv
  <2> QED
    BY <2>1, <2>2 DEF IInv
<1>4. CASE /\ SeedName \notin Rows /\ process' = "up"
           /\ table' = [table EXCEPT ![SeedName] = seed]
           /\ watcher' = [watcher EXCEPT ![SeedName] = [phase |-> "start", row |-> seed]]
  <2>1. seed \in Row /\ seed.pos = NoPos /\ SeedName \in Names
    BY NewRowShape, RegistryAssumption
  <2> HIDE DEF seed
  <2>2. /\ table'[SeedName] = seed /\ watcher'[SeedName] = [phase |-> "start", row |-> seed]
        /\ \A n \in Names \ {SeedName} : table'[n] = table[n] /\ watcher'[n] = watcher[n]
    BY <1>4, <2>1 DEF IInv, TypeOK
  <2>3. TypeOK'
    <3>1. watcher' \in [Names -> [phase : {"start", "run"}, row : Row] \cup {NoWatcher}]
      BY <1>4, <2>1 DEF IInv, TypeOK
    <3>2. table' \in [Names -> Row \cup {NoRow}]
      BY <1>4, <2>1 DEF IInv, TypeOK
    <3>3. \A n \in Names : watcher'[n].phase # "ended" => n \in Rows'
      BY <1>2, <2>1, <2>2, NoneApart DEF Rows
    <3> QED
      BY <1>1, <1>4, <3>1, <3>2, <3>3 DEF IInv, TypeOK
  <2>4. Server(SeedName)'
    <3>1. \A host : Through(SeedName, host, NoPos)'
      BY <1>1, <2>1, NoPosThrough DEF IInv, TypeOK, Through
    <3>2. SeedName \notin resetDue'
      BY <1>1, <1>4, <2>1 DEF IInv, Server, DueOf
    <3> QED
      BY <1>1, <2>1, <2>2, <3>1, <3>2, NoneApart DEF Server, CopyOf, RowOf, DueOf, Through
  <2>5. ASSUME NEW n \in Names \ {SeedName} PROVE Server(n)'
    BY <1>1, <2>2, ServerStays DEF IInv
  <2> QED
    BY <2>3, <2>4, <2>5 DEF IInv
<1> QED
  BY <1>3, <1>4 DEF Seeding

\* The process ends or dies: the watchers are gone, and the rows stay.
LEMMA DownIInv ==
  ASSUME IInv, process' = "down", watcher' = [n \in Names |-> NoWatcher],
         UNCHANGED <<table, master, ghosts, commands>>, crashes' \in 0 .. MaxCrashes
  PROVE  IInv'
<1> USE DEF ghosts
<1>1. TypeOK'
  BY NoneApart DEF IInv, TypeOK, Rows
<1>2. ASSUME NEW n \in Names PROVE Server(n)'
  BY NoneApart DEF IInv, Server, CopyOf, RowOf, DueOf, Through, Rows
<1> QED
  BY <1>1, <1>2 DEF IInv

\* The process ends by itself.
LEMMA ExitIInv ==
  ASSUME IInv, Exit
  PROVE  IInv'
<1>1. watcher' = [n \in Names |-> NoWatcher]
  BY Shapes DEF Exit, IInv, TypeOK
<1> QED
  BY <1>1, DownIInv DEF Exit, bounds, IInv, TypeOK

\* The process dies.
LEMMA CrashIInv ==
  ASSUME IInv, Crash
  PROVE  IInv'
<1>1. crashes' \in 0 .. MaxCrashes
  BY RegistryAssumption DEF Crash, IInv, TypeOK
<1> QED
  BY <1>1, DownIInv DEF Crash

\* The ERP commits a change, which no claim is about yet.
LEMMA CommitIInv ==
  ASSUME IInv, NEW h \in Hosts, Commit(h)
  PROVE  IInv'
<1> USE DEF Commit, ghosts, bounds
<1>1. TypeOK'
  <2>1. master' \in [Hosts -> 0 .. Length]
    BY RegistryAssumption DEF IInv, TypeOK
  <2> QED
    BY <2>1 DEF IInv, TypeOK, Rows
<1>2. ASSUME NEW n \in Names PROVE Server(n)'
  BY ServerStays DEF IInv
<1> QED
  BY <1>1, <1>2 DEF IInv

\* A step that changes nothing.
LEMMA StutterIInv ==
  ASSUME IInv, UNCHANGED vars
  PROVE  IInv'
<1> USE DEF vars, ghosts, bounds
<1>1. TypeOK'
  BY DEF IInv, TypeOK, Rows
<1>2. ASSUME NEW n \in Names PROVE Server(n)'
  BY ServerStays DEF IInv
<1> QED
  BY <1>1, <1>2 DEF IInv

-----------------------------------------------------------------------------
(* The watchers *)

\* UpdateBinlogPosition changes the position of one row, if it changes anything.
LEMMA PersistShape ==
  ASSUME TypeOK, NEW n \in Names, n \in Rows, NEW pos \in Position, MayPersist(n, pos)
  PROVE  /\ table' \in [Names -> Row \cup {NoRow}]
         /\ table'[n] \in Row /\ table'[n].host = table[n].host
         /\ table'[n].pos \in {pos, table[n].pos}
         /\ Persist(n, pos) => table'[n].pos = pos
         /\ \A m \in Names \ {n} : table'[m] = table[m]
<1>1. table[n] \in Row
  BY Shapes
<1>2. [table[n] EXCEPT !.pos = pos] \in Row
  BY <1>1 DEF Row
<1>3. CASE Persist(n, pos)
  BY <1>1, <1>2, <1>3 DEF Persist, TypeOK, Row
<1>4. CASE UNCHANGED table /\ ~Persist(n, pos)
  BY <1>1, <1>4 DEF TypeOK
<1> QED
  BY <1>3, <1>4 DEF MayPersist

\* Start: from the position loaded, or from that of the master.  What was reset is begun
\* there, and a claim with it; a host that was asked makes the position its own.
LEMMA StartIInv ==
  ASSUME IInv, NEW n \in Names, Start(n)
  PROVE  IInv'
<1> DEFINE copy == watcher[n].row
           asks == copy.pos = NoPos
           pos == IF asks THEN master[copy.host] + 1 ELSE copy.pos
           new == [phase |-> "run", row |-> [copy EXCEPT !.pos = pos]]
<1>1. /\ UNCHANGED <<master, process, handled, bounds>>
      /\ process = "up" /\ watcher[n].phase = "start"
      /\ watcher' = [watcher EXCEPT ![n] = new]
      /\ MayPersist(n, pos)
      /\ began' = IF table[n].pos = NoPos THEN [began EXCEPT ![n] = pos] ELSE began
      /\ foreign' = IF asks /\ copy.host = table[n].host THEN foreign \ {n} ELSE foreign
      /\ resetDue' = IF asks THEN resetDue \ {n} ELSE resetDue
  BY DEF Start
<1>2. copy \in Row /\ n \in Rows /\ watcher[n] # NoWatcher /\ table[n] \in Row
  BY <1>1, Shapes DEF IInv
<1>3. pos \in Position /\ pos # NoPos
  <2>1. copy.host \in Hosts /\ copy.pos \in Position
    BY <1>2 DEF Row
  <2>2. master[copy.host] \in 0 .. Length
    BY <2>1 DEF IInv, TypeOK
  <2> QED
    BY <2>1, <2>2, PositionShape
<1>4. new \in [phase : {"start", "run"}, row : Row] /\ new.phase = "run"
      /\ new.row.pos = pos /\ new.row.host = copy.host
  BY <1>2, <1>3 DEF Row
<1>5. asks => table[n].pos = NoPos
  BY <1>1 DEF IInv, Server, CopyOf
<1>6. /\ table' \in [Names -> Row \cup {NoRow}]
      /\ table'[n] \in Row /\ table'[n].host = table[n].host
      /\ table'[n].pos \in {pos, table[n].pos}
      /\ \A m \in Names \ {n} : table'[m] = table[m]
  BY <1>1, <1>2, <1>3, PersistShape DEF IInv
<1>7. asks \/ pos = copy.pos
  OBVIOUS
<1> HIDE DEF new, pos
<1>8. watcher'[n] = new /\ \A m \in Names \ {n} : watcher'[m] = watcher[m]
  BY <1>1 DEF IInv, TypeOK
<1>9. /\ table[n].pos = NoPos => began'[n] = pos
      /\ table[n].pos # NoPos => began'[n] = began[n]
      /\ \A m \in Names \ {n} : began'[m] = began[m]
      /\ began' \in [Names -> Position]
  BY <1>1, <1>3 DEF IInv, TypeOK
<1>10. TypeOK'
  <2>1. watcher' \in [Names -> [phase : {"start", "run"}, row : Row] \cup {NoWatcher}]
    BY <1>1, <1>4 DEF IInv, TypeOK
  <2>2. \A m \in Names : watcher'[m].phase # "ended" => m \in Rows'
    BY <1>2, <1>6, <1>8, NoneApart DEF IInv, TypeOK, Rows
  <2>3. foreign' \subseteq Names /\ resetDue' \subseteq Names
    BY <1>1 DEF IInv, TypeOK
  <2> QED
    BY <1>1, <1>6, <1>9, <2>1, <2>2, <2>3 DEF IInv, TypeOK, bounds
<1>11. Server(n)'
  <2>1. n \notin foreign' => copy.host = table[n].host
    <3>1. CASE asks /\ copy.host = table[n].host
      BY <3>1
    <3>2. CASE ~(asks /\ copy.host = table[n].host)
      BY <1>1, <1>2, <3>2 DEF IInv, Server, CopyOf
    <3> QED
      BY <3>1, <3>2
  <2>2. ASSUME n \notin foreign', NEW k \in began'[n] .. pos - 1
        PROVE  <<copy.host, k>> \in handled[n]
    <3>1. CASE table[n].pos = NoPos
      <4>1. began'[n] = pos /\ pos \in Nat
        BY <1>3, <1>9, <3>1, PositionShape
      <4> QED
        BY <2>2, <4>1
    <3>2. CASE table[n].pos # NoPos
      <4>1. ~asks /\ pos = copy.pos /\ began'[n] = began[n] /\ foreign' = foreign
        BY <1>1, <1>5, <1>7, <1>9, <3>2
      <4> QED
        BY <1>2, <2>2, <4>1 DEF IInv, Server, CopyOf, Through
    <3> QED
      BY <3>1, <3>2
  <2>3. CopyOf(n)'
    BY <1>1, <1>3, <1>4, <1>6, <1>8, <2>1, <2>2 DEF CopyOf, Through
  <2>4. RowOf(n)'
    <3>1. CASE table'[n].pos = pos
      BY <1>1, <1>6, <2>1, <2>2, <3>1 DEF RowOf, Through
    <3>2. CASE table'[n].pos = NoPos
      <4>1. began'[n] \in Nat
        BY <1>9, PositionShape
      <4>2. \A k \in began'[n] .. NoPos - 1 : FALSE
        BY <4>1 DEF NoPos
      <4> QED
        BY <3>2, <4>2 DEF RowOf, Through
    <3>3. CASE table'[n].pos = table[n].pos /\ table[n].pos # NoPos
      <4>1. ~asks /\ foreign' = foreign /\ began'[n] = began[n]
        BY <1>1, <1>5, <1>9, <3>3
      <4> QED
        BY <1>1, <1>2, <1>6, <3>3, <4>1 DEF IInv, Server, RowOf, Through, Rows
    <3> QED
      BY <1>6, <3>1, <3>2, <3>3
  <2>5. DueOf(n)'
    <3>1. n \notin resetDue'
      <4>1. CASE asks
        BY <1>1, <4>1
      <4>2. CASE ~asks
        BY <1>1, <1>2, <4>2 DEF IInv, Server, DueOf
      <4> QED
        BY <4>1, <4>2
    <3> QED
      BY <3>1 DEF DueOf
  <2> QED
    BY <2>3, <2>4, <2>5 DEF Server
<1>12. ASSUME NEW m \in Names \ {n} PROVE Server(m)'
  <2>1. (m \in foreign' <=> m \in foreign) /\ (m \in resetDue' <=> m \in resetDue)
    BY <1>1
  <2> QED
    BY <1>1, <1>6, <1>8, <1>9, <2>1, ServerStays DEF IInv
<1> QED
  BY <1>10, <1>11, <1>12 DEF IInv

\* A watcher that ends leaves its last position, or what was there.
LEMMA EndedIInv ==
  ASSUME IInv, NEW n \in Names, watcher[n] # NoWatcher,
         \/ UNCHANGED table
         \/ watcher[n].phase = "run" /\ MayPersist(n, watcher[n].row.pos),
         watcher' = [watcher EXCEPT ![n] = NoWatcher],
         UNCHANGED <<master, process, ghosts, bounds>>
  PROVE  IInv'
<1> USE DEF ghosts, bounds
<1>1. n \in Rows /\ table[n] \in Row /\ watcher[n].row \in Row /\ process = "up"
  BY Shapes DEF IInv
<1>2. /\ table' \in [Names -> Row \cup {NoRow}]
      /\ table'[n] \in Row /\ table'[n].host = table[n].host
      /\ \/ table'[n].pos = table[n].pos
         \/ table'[n].pos = watcher[n].row.pos /\ watcher[n].phase = "run"
      /\ \A m \in Names \ {n} : table'[m] = table[m]
  BY <1>1, PersistShape DEF IInv, TypeOK, Row
<1>3. watcher'[n] = NoWatcher /\ \A m \in Names \ {n} : watcher'[m] = watcher[m]
  BY DEF IInv, TypeOK
<1>4. TypeOK'
  <2>1. watcher' \in [Names -> [phase : {"start", "run"}, row : Row] \cup {NoWatcher}]
    BY DEF IInv, TypeOK
  <2>2. \A m \in Names : watcher'[m].phase # "ended" => m \in Rows'
    BY <1>1, <1>2, <1>3, NoneApart DEF IInv, TypeOK, Rows
  <2> QED
    BY <1>1, <1>2, <2>1, <2>2 DEF IInv, TypeOK
<1>5. Server(n)'
  <2>1. CopyOf(n)'
    BY <1>3, NoneApart DEF CopyOf
  <2>2. RowOf(n)'
    BY <1>1, <1>2 DEF IInv, Server, CopyOf, RowOf, Through, Rows
  <2>3. DueOf(n)'
    BY <1>1, <1>2, <1>3, NoneApart DEF IInv, Server, DueOf, Rows
  <2> QED
    BY <2>1, <2>2, <2>3 DEF Server
<1>6. ASSUME NEW m \in Names \ {n} PROVE Server(m)'
  BY <1>2, <1>3, ServerStays DEF IInv
<1> QED
  BY <1>4, <1>5, <1>6 DEF IInv

\* The host does not answer, or the watcher returns.
LEMMA ReturnIInv ==
  ASSUME IInv, NEW n \in Names, CannotAsk(n) \/ Return(n)
  PROVE  IInv'
<1>1. watcher[n] # NoWatcher
  BY NoneApart DEF CannotAsk, Return
<1> QED
  BY <1>1, EndedIInv DEF CannotAsk, Return

\* A change is handed to the Producer before the watcher moves past it.
LEMMA HandleIInv ==
  ASSUME IInv, NEW n \in Names, Handle(n)
  PROVE  IInv'
<1> USE DEF bounds
<1> DEFINE row == watcher[n].row
<1>1. /\ UNCHANGED <<table, master, process, began, foreign, resetDue, bounds>>
      /\ process = "up" /\ watcher[n].phase = "run" /\ row.pos <= master[row.host]
      /\ handled' = [handled EXCEPT ![n] = @ \cup {<<row.host, row.pos>>}]
      /\ watcher' = [watcher EXCEPT ![n].row.pos = @ + 1]
  BY DEF Handle
<1>2. row \in Row /\ n \in Rows /\ watcher[n] # NoWatcher
      /\ watcher[n] \in [phase : {"start", "run"}, row : Row]
  BY <1>1, Shapes, NoneApart DEF IInv, TypeOK
<1>3. row.host \in Hosts /\ row.pos \in Position /\ row.pos \in Nat
      /\ row.pos + 1 \in Position /\ row.pos + 1 # NoPos
  <2>1. row.host \in Hosts /\ row.pos \in Position
    BY <1>2 DEF Row
  <2>2. master[row.host] \in 0 .. Length
    BY <2>1 DEF IInv, TypeOK
  <2>3. row.pos \in 0 .. Length
    BY <1>1, <2>1, <2>2, RegistryAssumption DEF Position
  <2> QED
    BY <2>1, <2>3, PositionShape
<1>4. /\ watcher'[n] \in [phase : {"start", "run"}, row : Row]
      /\ watcher'[n].phase = "run"
      /\ watcher'[n].row.host = row.host /\ watcher'[n].row.pos = row.pos + 1
      /\ \A m \in Names \ {n} : watcher'[m] = watcher[m]
  BY <1>1, <1>2, <1>3 DEF IInv, TypeOK, Row
<1>5. handled'[n] = handled[n] \cup {<<row.host, row.pos>>}
      /\ \A m \in Names \ {n} : handled'[m] = handled[m]
  BY <1>1 DEF IInv, TypeOK
<1>6. TypeOK'
  <2>1. watcher' \in [Names -> [phase : {"start", "run"}, row : Row] \cup {NoWatcher}]
    BY <1>1, <1>4 DEF IInv, TypeOK
  <2>2. handled' \in [Names -> SUBSET (Hosts \X Position)]
    BY <1>1, <1>3 DEF IInv, TypeOK
  <2>3. \A m \in Names : watcher'[m].phase # "ended" => m \in Rows'
    BY <1>1, <1>2, <1>4 DEF IInv, TypeOK, Rows
  <2> QED
    BY <1>1, <2>1, <2>2, <2>3 DEF IInv, TypeOK
<1>7. Server(n)'
  <2>1. CopyOf(n)'
    <3>1. ASSUME n \notin foreign, NEW k \in began[n] .. (row.pos + 1) - 1
          PROVE  <<row.host, k>> \in handled'[n]
      <4>1. began[n] \in Nat
        BY PositionShape DEF IInv, TypeOK
      <4>2. k \in began[n] .. row.pos - 1 \/ k = row.pos
        BY <1>3, <3>1, <4>1
      <4> QED
        BY <1>2, <1>5, <3>1, <4>2 DEF IInv, Server, CopyOf, Through
    <3> QED
      BY <1>1, <1>2, <1>3, <1>4, <3>1 DEF IInv, Server, CopyOf, Through
  <2>2. RowOf(n)'
    BY <1>1, <1>5 DEF IInv, Server, RowOf, Through, Rows
  <2>3. DueOf(n)'
    BY <1>1, <1>2 DEF IInv, Server, DueOf
  <2> QED
    BY <2>1, <2>2, <2>3 DEF Server
<1>8. ASSUME NEW m \in Names \ {n} PROVE Server(m)'
  BY <1>1, <1>4, <1>5, ServerStays DEF IInv
<1> QED
  BY <1>6, <1>7, <1>8 DEF IInv

\* A boundary writes the position of the watcher: what is before it was handled.
LEMMA SaveIInv ==
  ASSUME IInv, NEW n \in Names, Save(n)
  PROVE  IInv'
<1> USE DEF ghosts, bounds
<1>1. /\ UNCHANGED <<master, process, watcher, ghosts, bounds>>
      /\ watcher[n].phase = "run" /\ Persist(n, watcher[n].row.pos)
  BY DEF Save
<1>2. n \in Rows /\ watcher[n].row \in Row /\ watcher[n] # NoWatcher
  BY <1>1, Shapes DEF IInv
<1>3. watcher[n].row.pos \in Position
  BY <1>2 DEF Row
<1>4. /\ table' \in [Names -> Row \cup {NoRow}]
      /\ table'[n] \in Row /\ table'[n].host = table[n].host
      /\ table'[n].pos = watcher[n].row.pos
      /\ \A m \in Names \ {n} : table'[m] = table[m]
  BY <1>1, <1>2, <1>3, PersistShape DEF IInv, MayPersist
<1>5. TypeOK'
  <2>1. \A m \in Names : watcher[m].phase # "ended" => m \in Rows'
    BY <1>4, NoneApart DEF IInv, TypeOK, Rows
  <2> QED
    BY <1>1, <1>4, <2>1 DEF IInv, TypeOK
<1>6. Server(n)'
  BY <1>1, <1>2, <1>4 DEF IInv, Server, CopyOf, RowOf, DueOf, Through
<1>7. ASSUME NEW m \in Names \ {n} PROVE Server(m)'
  BY <1>1, <1>4, ServerStays DEF IInv
<1> QED
  BY <1>5, <1>6, <1>7 DEF IInv

-----------------------------------------------------------------------------
(* The theorems *)

\* Every step keeps the invariant.
LEMMA NextIInv ==
  ASSUME IInv, [Next]_vars
  PROVE  IInv'
BY LoadIInv, SeedingIInv, ExitIInv, CrashIInv, StutterIInv, AddIInv, UpdateIInv, RemoveIInv,
   ResetIInv, StartIInv, ReturnIInv, HandleIInv, SaveIInv, CommitIInv
   DEF Next, Idle

\* The invariant holds at all times.
THEOREM Invariant == Spec => []IInv
<1>1. Init => IInv
  BY InitIInv
<1>2. IInv /\ [Next]_vars => IInv'
  BY NextIInv
<1> QED
  BY <1>1, <1>2, PTL DEF Spec

\* The table and the copies of the watchers are well formed at all times, and no server
\* that is listened to loses its row.
THEOREM TypeCorrect == Spec => []TypeOK
BY Invariant, PTL DEF IInv

\* However the operator's commands, the starts and deaths of the producer and the late
\* writes of the watchers follow each other, the position of a server is never past a
\* change of its host that was not handled, unless the host was replaced under it.
THEOREM NothingSkippedByCommands == Spec => []CommandsSkipNothing
<1>1. IInv => CommandsSkipNothing
  BY DEF IInv, Server, RowOf, Through, CommandsSkipNothing, Rows
<1> QED
  BY <1>1, Invariant, PTL

\* A position that the operator zeroed while nobody listened to the server stays zero
\* until its master is asked.
THEOREM ResetStands == Spec => []ResetTakesEffect
<1>1. IInv => ResetTakesEffect
  BY DEF IInv, TypeOK, Server, DueOf, ResetTakesEffect
<1> QED
  BY <1>1, Invariant, PTL
=============================================================================
