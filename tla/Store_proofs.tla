---------------------------- MODULE Store_proofs ----------------------------
(***************************************************************************)
(* Theorems about Store, for any operators, keys and numbers of commands,  *)
(* dead letters and faults: whoever has opened servers.db finds its schema *)
(* complete, and an operator only removes the dead letter he was shown.    *)
(***************************************************************************)
EXTENDS Store, TLAPS

\* What is due, statement by statement, and what is done by then.
Stages ==
  {"closed", "servers", "info", "binlog_file", "binlog_pos", "failed_events",
   "failed_deliveries", "open"}
AfterServers == Stages \ {"closed", "servers"}
AfterFile == {"binlog_pos", "failed_events", "failed_deliveries", "open"}
AfterPos == {"failed_events", "failed_deliveries", "open"}

TypesOK ==
  /\ tables \subseteq Tables /\ columns \subseteq Columns
  /\ pc \in [Processes -> Stages] /\ seen \in [Processes -> SUBSET Columns]
  /\ sequence \in [DeadLetters -> Nat]
  /\ rows = [t \in DeadLetters |-> rows[t]]
  /\ command = [o \in Operators |-> command[o]]
  /\ shown = [o \in Operators |-> [t \in DeadLetters |-> shown[o][t]]]

\* The statements of InitDB that p is past have had their effect, through p or through
\* another process, and what p saw of the columns has not gone.
Migrated(p) ==
  /\ seen[p] \subseteq columns
  /\ pc[p] \in AfterServers => "binlog_servers" \in tables
  /\ pc[p] \in AfterFile => "binlog_file" \in columns
  /\ pc[p] \in AfterPos => "binlog_pos" \in columns
  /\ pc[p] \in {"failed_deliveries", "open"} => "failed_events" \in tables
  /\ pc[p] = "open" => "failed_deliveries" \in tables

\* AUTOINCREMENT has given every id that is in use.
Numbered(t) == \A id \in DOMAIN rows[t] : id \in Nat /\ id <= sequence[t]

\* An id that an operator was shown was given before, and is that row or none.
Listed(o, t) ==
  \A id \in DOMAIN shown[o][t] :
    /\ id \in Nat /\ id <= sequence[t]
    /\ id \in DOMAIN rows[t] => rows[t][id] = shown[o][t][id]

\* A command is about a table of dead letters, and removes what its operator was shown.
Asked(o) ==
  /\ command[o].name = "list" => command[o].table \in DeadLetters
  /\ command[o].name = "remove" =>
       \E t \in DeadLetters : \E id \in DOMAIN shown[o][t] :
         command[o] = [name |-> "remove", table |-> t, id |-> id]

Letters ==
  /\ \A t \in DeadLetters : Numbered(t)
  /\ \A o \in Operators : Asked(o) /\ \A t \in DeadLetters : Listed(o, t)

\* The inductive invariant.
IInv == TypesOK /\ (\A p \in Processes : Migrated(p)) /\ Letters

-----------------------------------------------------------------------------
(* What changes and what does not *)

\* The names of tables and stages are told apart.
LEMMA Names ==
  /\ DeadLetters \subseteq Processes /\ Operators \subseteq Processes
  /\ "binlog_servers" \in Tables /\ DeadLetters \subseteq Tables
  /\ NoCommand.name = "none"
BY DEF Processes, Services, Tables, NoCommand

\* The schema only grows, so that a process that does not move stays where it was.
LEMMA MigratedStays ==
  ASSUME NEW p \in Processes, Migrated(p), tables \subseteq tables', columns \subseteq columns',
         pc'[p] = pc[p], seen'[p] = seen[p]
  PROVE  Migrated(p)'
BY DEF Migrated

\* A process that starts, or starts over, has seen nothing and is past nothing.
LEMMA MigratedAnew ==
  ASSUME NEW p \in Processes, pc'[p] \in {"closed", "servers"}, seen'[p] \subseteq columns'
  PROVE  Migrated(p)'
BY DEF Migrated, AfterServers, AfterFile, AfterPos

\* Where p alone moves and the schema does not shrink, the others stay migrated.
LEMMA OthersStay ==
  ASSUME IInv, NEW p \in Processes, NEW stage \in Stages, pc' = [pc EXCEPT ![p] = stage],
         NEW s \in SUBSET Columns, seen' = [seen EXCEPT ![p] = s],
         tables \subseteq tables', columns \subseteq columns'
  PROVE  /\ pc' \in [Processes -> Stages] /\ seen' \in [Processes -> SUBSET Columns]
         /\ pc'[p] = stage /\ seen'[p] = s
         /\ Migrated(p)' => \A q \in Processes : Migrated(q)'
<1>1. /\ pc' \in [Processes -> Stages] /\ seen' \in [Processes -> SUBSET Columns]
      /\ pc'[p] = stage /\ seen'[p] = s
      /\ \A q \in Processes \ {p} : pc'[q] = pc[q] /\ seen'[q] = seen[q]
  BY DEF IInv, TypesOK
<1>2. \A q \in Processes \ {p} : Migrated(q)'
  BY <1>1, MigratedStays DEF IInv
<1> QED
  BY <1>1, <1>2

\* Letters depends on neither the schema nor the processes.
LEMMA LettersStay ==
  ASSUME Letters, UNCHANGED <<rows, sequence, shown, command>>
  PROVE  Letters'
BY DEF Letters, Numbered, Listed, Asked

\* An operator whose command is over has none to account for.
LEMMA LettersForget ==
  ASSUME Letters, TypesOK, UNCHANGED <<rows, sequence, shown>>,
         NEW o, command' = IF o \in Operators THEN [command EXCEPT ![o] = NoCommand] ELSE command
  PROVE  Letters' /\ command' = [x \in Operators |-> command'[x]]
<1>1. command' = [x \in Operators |-> command'[x]]
  BY DEF TypesOK
<1>2. \A x \in Operators : command'[x] \in {command[x], NoCommand}
  BY DEF TypesOK
<1>3. ASSUME NEW x \in Operators PROVE Asked(x)'
  BY <1>2, Names DEF Letters, Asked
<1> QED
  BY <1>1, <1>3 DEF Letters, Numbered, Listed

-----------------------------------------------------------------------------
(* InitDB *)

THEOREM InitIInv == Init => IInv
<1> SUFFICES ASSUME Init PROVE IInv
  OBVIOUS
<1>1. TypesOK
  BY DEF Init, TypesOK, Stages, Tables, DeadLetters, Columns
<1>2. \A p \in Processes : Migrated(p)
  BY DEF Init, Migrated, AfterServers, AfterFile, AfterPos
<1>3. Letters
  BY Names DEF Init, Letters, Numbered, Listed, Asked
<1> QED
  BY <1>1, <1>2, <1>3 DEF IInv

\* A process that closes the file, be it with an error or for a command.
LEMMA FailsIInv ==
  ASSUME IInv, NEW p \in Processes, Fails(p), UNCHANGED <<schema, letters, shown>>
  PROVE  IInv'
<1>1. /\ pc' = [pc EXCEPT ![p] = "closed"] /\ seen' = [seen EXCEPT ![p] = {}]
      /\ command' = IF p \in Operators THEN [command EXCEPT ![p] = NoCommand] ELSE command
      /\ UNCHANGED <<tables, columns, rows, sequence, shown>>
  BY DEF Fails, Forget, schema, letters
<1>2. "closed" \in Stages /\ {} \in SUBSET Columns
  BY DEF Stages
<1>3. pc'[p] = "closed" /\ seen'[p] = {}
  BY <1>1, <1>2, OthersStay
<1>4. Migrated(p)'
  BY <1>3, MigratedAnew
<1>5. /\ pc' \in [Processes -> Stages] /\ seen' \in [Processes -> SUBSET Columns]
      /\ \A q \in Processes : Migrated(q)'
  BY <1>1, <1>2, <1>4, OthersStay
<1>6. Letters' /\ command' = [x \in Operators |-> command'[x]]
  BY <1>1, LettersForget DEF IInv
<1>7. TypesOK'
  BY <1>1, <1>5, <1>6 DEF TypesOK, IInv
<1> QED
  BY <1>5, <1>6, <1>7 DEF IInv

\* A statement that succeeds moves p on: the rest of the state is left alone, and what
\* remains to show is that p is migrated as far as its new stage says.
LEMMA StatementIInv ==
  ASSUME IInv, NEW p \in Processes, NEW stage \in Stages, pc' = [pc EXCEPT ![p] = stage],
         NEW s \in SUBSET Columns, seen' = [seen EXCEPT ![p] = s],
         tables \subseteq tables', columns \subseteq columns',
         tables' \subseteq Tables, columns' \subseteq Columns,
         UNCHANGED <<letters, operators>>, Migrated(p)'
  PROVE  IInv'
<1>1. /\ pc' \in [Processes -> Stages] /\ seen' \in [Processes -> SUBSET Columns]
      /\ \A q \in Processes : Migrated(q)'
  BY OthersStay
<1>2. TypesOK'
  BY <1>1 DEF IInv, TypesOK, letters, operators
<1>3. Letters'
  BY LettersStay DEF IInv, letters, operators
<1> QED
  BY <1>1, <1>2, <1>3 DEF IInv

\* A step that leaves seen alone leaves what p saw.
LEMMA SeenStays ==
  ASSUME TypesOK, NEW p \in Processes, UNCHANGED seen
  PROVE  seen[p] \in SUBSET Columns /\ seen' = [seen EXCEPT ![p] = seen[p]]
BY DEF TypesOK

LEMMA StartServiceIInv == ASSUME IInv, NEW s \in Services, StartService(s) PROVE IInv'
<1>1. /\ s \in Processes /\ pc[s] = "closed" /\ pc' = [pc EXCEPT ![s] = "servers"]
      /\ UNCHANGED <<tables, columns, seen, letters, operators>>
  BY Names DEF StartService, Goes, Services, schema
<1>2. seen[s] \in SUBSET Columns /\ seen' = [seen EXCEPT ![s] = seen[s]]
  BY <1>1, SeenStays DEF IInv
<1>3. pc'[s] = "servers" /\ seen'[s] \subseteq columns'
  BY <1>1 DEF IInv, TypesOK, Migrated
<1>4. "servers" \in Stages /\ Migrated(s)'
  BY <1>1, <1>3, MigratedAnew DEF Stages
<1> QED
  BY <1>1, <1>2, <1>4, StatementIInv DEF IInv, TypesOK

LEMMA CreateServersIInv == ASSUME IInv, NEW p \in Processes, CreateServers(p) PROVE IInv'
<1>1. /\ pc[p] = "servers" /\ pc' = [pc EXCEPT ![p] = "info"]
      /\ tables' = tables \cup {"binlog_servers"}
      /\ columns' = (IF "binlog_servers" \in tables THEN columns ELSE Columns)
      /\ UNCHANGED <<seen, letters, operators>>
  BY DEF CreateServers, Goes
<1>2. seen[p] \in SUBSET Columns /\ seen' = [seen EXCEPT ![p] = seen[p]]
  BY <1>1, SeenStays DEF IInv
<1>3. columns \subseteq columns' /\ columns' \subseteq Columns /\ tables' \subseteq Tables
  BY <1>1, Names DEF IInv, TypesOK
<1>4. pc'[p] = "info" /\ seen'[p] = seen[p] /\ seen[p] \subseteq columns
  BY <1>1 DEF IInv, TypesOK, Migrated
<1>5. "info" \in Stages /\ Migrated(p)'
  BY <1>1, <1>3, <1>4 DEF Stages, Migrated, AfterFile, AfterPos
<1> QED
  BY <1>1, <1>2, <1>3, <1>5, StatementIInv

\* table_info shows what is there at the time.
LEMMA TableInfoIInv == ASSUME IInv, NEW p \in Processes, TableInfo(p) PROVE IInv'
<1>1. /\ pc[p] = "info" /\ pc' = [pc EXCEPT ![p] = "binlog_file"]
      /\ seen' = [seen EXCEPT ![p] = columns] /\ UNCHANGED <<tables, columns, letters, operators>>
  BY DEF TableInfo, Goes, schema
<1>2. pc'[p] = "binlog_file" /\ seen'[p] = columns /\ columns \in SUBSET Columns
  BY <1>1 DEF IInv, TypesOK
<1>3. "binlog_file" \in Stages /\ Migrated(p)'
  BY <1>1, <1>2 DEF IInv, Stages, Migrated, AfterServers, AfterFile, AfterPos
<1> QED
  BY <1>1, <1>2, <1>3, StatementIInv DEF IInv, TypesOK

\* The column that p takes to be there is: what it saw has not gone.
LEMMA AddFileIInv == ASSUME IInv, NEW p \in Processes, AddFile(p) PROVE IInv'
<1>1. CASE Fails(p) /\ UNCHANGED columns
  BY <1>1, FailsIInv DEF AddFile, AddUnless, schema
<1>2. CASE /\ pc[p] = "binlog_file" /\ pc' = [pc EXCEPT ![p] = "binlog_pos"]
           /\ columns' = columns \cup {"binlog_file"} /\ UNCHANGED <<tables, seen, letters, operators>>
  <2>1. seen[p] \in SUBSET Columns /\ seen' = [seen EXCEPT ![p] = seen[p]]
    BY <1>2, SeenStays DEF IInv
  <2>2. pc'[p] = "binlog_pos" /\ seen'[p] = seen[p] /\ columns' \subseteq Columns
    BY <1>2 DEF IInv, TypesOK, Columns
  <2>3. "binlog_pos" \in Stages /\ Migrated(p)'
    BY <1>2, <2>2 DEF IInv, Stages, Migrated, AfterServers, AfterFile, AfterPos
  <2> QED
    BY <1>2, <2>1, <2>2, <2>3, StatementIInv DEF IInv, TypesOK
<1> QED
  BY <1>1, <1>2 DEF AddFile, AddUnless, Goes, operators

LEMMA AddPosIInv == ASSUME IInv, NEW p \in Processes, AddPos(p) PROVE IInv'
<1>1. CASE Fails(p) /\ UNCHANGED columns
  BY <1>1, FailsIInv DEF AddPos, AddUnless, schema
<1>2. CASE /\ pc[p] = "binlog_pos" /\ pc' = [pc EXCEPT ![p] = "failed_events"]
           /\ columns' = columns \cup {"binlog_pos"} /\ seen' = [seen EXCEPT ![p] = {}]
           /\ UNCHANGED <<tables, letters, operators>>
  <2>1. pc'[p] = "failed_events" /\ seen'[p] = {} /\ columns' \subseteq Columns
    BY <1>2 DEF IInv, TypesOK, Columns
  <2>2. "failed_events" \in Stages /\ Migrated(p)'
    BY <1>2, <2>1 DEF IInv, Stages, Migrated, AfterServers, AfterFile, AfterPos
  <2> QED
    BY <1>2, <2>1, <2>2, StatementIInv DEF IInv, TypesOK
<1> QED
  BY <1>1, <1>2 DEF AddPos, AddUnless, Goes, Forget, operators

LEMMA CreateDeadLettersIInv ==
  ASSUME IInv, NEW p \in Processes, CreateDeadLetters(p) PROVE IInv'
<1>1. PICK stage \in {"failed_deliveries", "open"} :
        /\ pc[p] = (IF stage = "open" THEN "failed_deliveries" ELSE "failed_events")
        /\ pc' = [pc EXCEPT ![p] = stage] /\ tables' = tables \cup {pc[p]}
        /\ UNCHANGED <<columns, seen, letters, operators>>
  BY DEF CreateDeadLetters, Goes
<1>2. seen[p] \in SUBSET Columns /\ seen' = [seen EXCEPT ![p] = seen[p]]
  BY <1>1, SeenStays DEF IInv
<1>3. pc'[p] = stage /\ seen'[p] = seen[p] /\ tables' \subseteq Tables
  BY <1>1 DEF IInv, TypesOK, Tables, DeadLetters
<1>4. stage \in Stages /\ Migrated(p)'
  BY <1>1, <1>3 DEF IInv, Stages, Migrated, AfterServers, AfterFile, AfterPos
<1> QED
  BY <1>1, <1>2, <1>3, <1>4, StatementIInv DEF IInv, TypesOK

-----------------------------------------------------------------------------
(* Dead letters *)

\* A new row has an id that was never given: no list shows it.
LEMMA InsertIInv == ASSUME IInv, NEW s \in Services, Insert(s) PROVE IInv'
<1> DEFINE id == sequence[s] + 1
<1>1. s \in DeadLetters /\ sequence[s] \in Nat /\ id \in Nat /\ id > sequence[s]
  BY DEF Services, IInv, TypesOK
<1>2. PICK row : rows' = [rows EXCEPT ![s] =
                            [i \in DOMAIN @ \cup {id} |-> IF i = id THEN row ELSE @[i]]]
  BY DEF Insert, NextId
<1>3. sequence' = [sequence EXCEPT ![s] = id]
  BY DEF Insert, NextId
<1>4. UNCHANGED <<tables, columns, pc, seen, command, shown>>
  BY DEF Insert, schema, operators
<1> HIDE DEF id
<1>5. /\ sequence' \in [DeadLetters -> Nat] /\ sequence'[s] = id
      /\ \A t \in DeadLetters \ {s} : sequence'[t] = sequence[t] /\ rows'[t] = rows[t]
  BY <1>1, <1>2, <1>3 DEF IInv, TypesOK
<1>6. /\ rows' = [t \in DeadLetters |-> rows'[t]]
      /\ rows'[s] = [i \in DOMAIN rows[s] \cup {id} |-> IF i = id THEN row ELSE rows[s][i]]
  BY <1>1, <1>2 DEF IInv, TypesOK
<1>7. TypesOK'
  BY <1>4, <1>5, <1>6 DEF IInv, TypesOK
<1>8. \A p \in Processes : Migrated(p)'
  BY <1>4 DEF IInv, Migrated
<1>9. ASSUME NEW t \in DeadLetters PROVE Numbered(t)' /\ \A o \in Operators : Listed(o, t)'
  <2>1. CASE t # s
    BY <1>4, <1>5, <2>1 DEF IInv, Letters, Numbered, Listed
  <2>2. CASE t = s
    <3>1. Numbered(s)'
      BY <1>1, <1>5, <1>6 DEF IInv, Letters, Numbered
    <3>2. ASSUME NEW o \in Operators PROVE Listed(o, s)'
      <4>1. \A i \in DOMAIN shown[o][s] : i \in Nat /\ i <= sequence[s] /\ i # id
        BY <1>1 DEF IInv, Letters, Listed
      <4> QED
        BY <1>1, <1>4, <1>5, <1>6, <4>1 DEF IInv, Letters, Listed
    <3> QED
      BY <2>2, <3>1, <3>2
  <2> QED
    BY <2>1, <2>2
<1>10. \A o \in Operators : Asked(o)'
  BY <1>4 DEF IInv, Letters, Asked
<1> QED
  BY <1>7, <1>8, <1>9, <1>10 DEF IInv, Letters

LEMMA AskIInv == ASSUME IInv, NEW o \in Operators, Ask(o) PROVE IInv'
<1>1. /\ o \in Processes /\ pc' = [pc EXCEPT ![o] = "servers"] /\ pc[o] = "closed"
      /\ UNCHANGED <<tables, columns, seen, rows, sequence, shown>>
  BY Names DEF Ask, Goes, schema, letters
<1>2. PICK c : /\ command' = [command EXCEPT ![o] = c]
               /\ c.name = "list" => c.table \in DeadLetters
               /\ c.name = "remove" =>
                    \E t \in DeadLetters : \E id \in DOMAIN shown[o][t] :
                      c = [name |-> "remove", table |-> t, id |-> id]
  <2>1. PICK t \in DeadLetters :
          \/ \E key \in Keys \cup {"any"} :
               command' = [command EXCEPT ![o] = [name |-> "list", table |-> t, key |-> key]]
          \/ \E id \in DOMAIN shown[o][t] :
               command' = [command EXCEPT ![o] = [name |-> "remove", table |-> t, id |-> id]]
    BY DEF Ask
  <2>2. CASE \E key \in Keys \cup {"any"} :
               command' = [command EXCEPT ![o] = [name |-> "list", table |-> t, key |-> key]]
    <3>1. PICK key \in Keys \cup {"any"} :
            command' = [command EXCEPT ![o] = [name |-> "list", table |-> t, key |-> key]]
      BY <2>2
    <3> DEFINE c == [name |-> "list", table |-> t, key |-> key]
    <3>2. c.name = "list" /\ c.table \in DeadLetters /\ c.name # "remove"
      OBVIOUS
    <3> HIDE DEF c
    <3> QED
      BY <3>1, <3>2 DEF c
  <2>3. CASE \E id \in DOMAIN shown[o][t] :
               command' = [command EXCEPT ![o] = [name |-> "remove", table |-> t, id |-> id]]
    <3>1. PICK id \in DOMAIN shown[o][t] :
            command' = [command EXCEPT ![o] = [name |-> "remove", table |-> t, id |-> id]]
      BY <2>3
    <3> DEFINE c == [name |-> "remove", table |-> t, id |-> id]
    <3>2. c.name # "list"
      OBVIOUS
    <3> HIDE DEF c
    <3> QED
      BY <3>1, <3>2 DEF c
  <2> QED
    BY <2>1, <2>2, <2>3
<1>3. /\ command' = [x \in Operators |-> command'[x]] /\ command'[o] = c
      /\ \A x \in Operators \ {o} : command'[x] = command[x]
  BY <1>2 DEF IInv, TypesOK
<1>4. \A x \in Operators : Asked(x)'
  BY <1>1, <1>2, <1>3 DEF IInv, Letters, Asked
<1>5. Letters'
  BY <1>1, <1>4 DEF IInv, Letters, Numbered, Listed
<1>6. "servers" \in Stages /\ seen[o] \in SUBSET Columns /\ seen' = [seen EXCEPT ![o] = seen[o]]
  BY <1>1, SeenStays DEF IInv, Stages
<1>7. pc'[o] = "servers" /\ seen'[o] \subseteq columns'
  BY <1>1 DEF IInv, TypesOK, Migrated
<1>8. Migrated(o)'
  BY <1>1, <1>7, MigratedAnew
<1>9. /\ pc' \in [Processes -> Stages] /\ seen' \in [Processes -> SUBSET Columns]
      /\ \A q \in Processes : Migrated(q)'
  BY <1>1, <1>6, <1>8, OthersStay
<1>10. TypesOK'
  BY <1>1, <1>3, <1>9 DEF IInv, TypesOK
<1> QED
  BY <1>5, <1>9, <1>10 DEF IInv

\* A command ends: its process closes the file, having forgotten what it saw of it.
LEMMA CommandEnds ==
  ASSUME IInv, NEW o \in Operators, pc' = [pc EXCEPT ![o] = "closed"],
         UNCHANGED <<tables, columns, seen>>
  PROVE  /\ pc' \in [Processes -> Stages] /\ seen' \in [Processes -> SUBSET Columns]
         /\ \A q \in Processes : Migrated(q)'
<1>1. "closed" \in Stages /\ o \in Processes
  BY Names DEF Stages
<1>2. seen[o] \in SUBSET Columns /\ seen' = [seen EXCEPT ![o] = seen[o]]
  BY <1>1, SeenStays DEF IInv
<1>3. pc'[o] = "closed" /\ seen'[o] \subseteq columns'
  BY <1>1 DEF IInv, TypesOK, Migrated
<1>4. Migrated(o)'
  BY <1>1, <1>3, MigratedAnew
<1> QED
  BY <1>1, <1>2, <1>4, OthersStay

LEMMA ListIInv == ASSUME IInv, NEW o \in Operators, List(o) PROVE IInv'
<1> DEFINE t == command[o].table
           new == [id \in Newest(t, command[o].key) |-> rows[t][id]]
<1>1. /\ command[o].name = "list" /\ pc' = [pc EXCEPT ![o] = "closed"]
      /\ shown' = [shown EXCEPT ![o][t] = new] /\ command' = [command EXCEPT ![o] = NoCommand]
      /\ UNCHANGED <<tables, columns, seen, rows, sequence>>
  BY DEF List, Goes, schema, letters
<1>2. t \in DeadLetters
  BY <1>1 DEF IInv, Letters, Asked
<1>3. DOMAIN new \subseteq DOMAIN rows[t] /\ \A id \in DOMAIN new : new[id] = rows[t][id]
  BY DEF Newest
<1> HIDE DEF new, t
<1>4. /\ shown' = [x \in Operators |-> [u \in DeadLetters |-> shown'[x][u]]] /\ shown'[o][t] = new
      /\ \A x \in Operators, u \in DeadLetters :
           x # o \/ u # t => shown'[x][u] = shown[x][u]
  BY <1>1, <1>2 DEF IInv, TypesOK
<1>5. /\ command' = [x \in Operators |-> command'[x]] /\ command'[o] = NoCommand
      /\ \A x \in Operators \ {o} : command'[x] = command[x]
  BY <1>1 DEF IInv, TypesOK
<1>6. /\ pc' \in [Processes -> Stages] /\ seen' \in [Processes -> SUBSET Columns]
      /\ \A q \in Processes : Migrated(q)'
  BY <1>1, CommandEnds
<1>7. TypesOK'
  BY <1>1, <1>4, <1>5, <1>6 DEF IInv, TypesOK
<1>8. ASSUME NEW x \in Operators, NEW u \in DeadLetters PROVE Listed(x, u)'
  <2>1. CASE x = o /\ u = t
    BY <1>1, <1>3, <1>4, <2>1 DEF IInv, Letters, Numbered, Listed
  <2>2. CASE ~(x = o /\ u = t)
    BY <1>1, <1>4, <2>2 DEF IInv, Letters, Listed
  <2> QED
    BY <2>1, <2>2
<1>9. ASSUME NEW x \in Operators PROVE Asked(x)'
  <2>1. CASE x = o
    BY <1>5, <2>1, Names DEF Asked
  <2>2. CASE x # o
    <3>1. command'[x] = command[x] /\ \A u \in DeadLetters : shown'[x][u] = shown[x][u]
      BY <1>4, <1>5, <2>2
    <3> QED
      BY <3>1 DEF IInv, Letters, Asked
  <2> QED
    BY <2>1, <2>2
<1>10. \A u \in DeadLetters : Numbered(u)'
  BY <1>1 DEF IInv, Letters, Numbered
<1> QED
  BY <1>6, <1>7, <1>8, <1>9, <1>10 DEF IInv, Letters

LEMMA RemoveIInv == ASSUME IInv, NEW o \in Operators, Remove(o) PROVE IInv'
<1> DEFINE t == command[o].table
           gone == command[o].id
<1>1. /\ command[o].name = "remove" /\ pc' = [pc EXCEPT ![o] = "closed"]
      /\ rows' = [rows EXCEPT ![t] = [id \in DOMAIN @ \ {gone} |-> @[id]]]
      /\ command' = [command EXCEPT ![o] = NoCommand]
      /\ UNCHANGED <<tables, columns, seen, sequence, shown>>
  BY DEF Remove, Goes, schema
<1>2. t \in DeadLetters
  <2>1. PICK u \in DeadLetters : \E id \in DOMAIN shown[o][u] :
               command[o] = [name |-> "remove", table |-> u, id |-> id]
    BY <1>1 DEF IInv, Letters, Asked
  <2>2. PICK id \in DOMAIN shown[o][u] : command[o] = [name |-> "remove", table |-> u, id |-> id]
    BY <2>1
  <2>3. command[o].table = u
    BY <2>2
  <2> QED
    BY <2>3
<1> HIDE DEF t, gone
<1>3. /\ rows' = [u \in DeadLetters |-> rows'[u]]
      /\ \A u \in DeadLetters : /\ DOMAIN rows'[u] \subseteq DOMAIN rows[u]
                                /\ \A id \in DOMAIN rows'[u] : rows'[u][id] = rows[u][id]
  BY <1>1, <1>2 DEF IInv, TypesOK
<1>4. /\ command' = [x \in Operators |-> command'[x]] /\ command'[o] = NoCommand
      /\ \A x \in Operators \ {o} : command'[x] = command[x]
  BY <1>1 DEF IInv, TypesOK
<1>5. /\ pc' \in [Processes -> Stages] /\ seen' \in [Processes -> SUBSET Columns]
      /\ \A q \in Processes : Migrated(q)'
  BY <1>1, CommandEnds
<1>6. TypesOK'
  BY <1>1, <1>3, <1>4, <1>5 DEF IInv, TypesOK
<1>7. \A u \in DeadLetters : Numbered(u)' /\ \A x \in Operators : Listed(x, u)'
  BY <1>1, <1>3 DEF IInv, Letters, Numbered, Listed
<1>8. ASSUME NEW x \in Operators PROVE Asked(x)'
  BY <1>1, <1>4, Names DEF IInv, Letters, Asked
<1> QED
  BY <1>5, <1>6, <1>7, <1>8 DEF IInv, Letters

-----------------------------------------------------------------------------
(* Every step *)

LEMMA StutterIInv == ASSUME IInv, UNCHANGED vars PROVE IInv'
<1>1. UNCHANGED <<tables, columns, rows, sequence, pc, seen, command, shown>>
  BY DEF vars, schema, letters, operators
<1> QED
  BY <1>1, LettersStay DEF IInv, TypesOK, Migrated

THEOREM StepIInv == IInv /\ [Next]_vars => IInv'
<1> SUFFICES ASSUME IInv, [Next]_vars PROVE IInv'
  OBVIOUS
<1>1. ASSUME NEW p \in Processes, Steps(p) PROVE IInv'
  BY <1>1, CreateServersIInv, TableInfoIInv, AddFileIInv, AddPosIInv, CreateDeadLettersIInv DEF Steps
<1>2. ASSUME NEW p \in Processes, Fault(p) PROVE IInv'
  BY <1>2, FailsIInv DEF Fault
<1>3. ASSUME NEW s \in Services, StartService(s) \/ Insert(s) PROVE IInv'
  BY <1>3, StartServiceIInv, InsertIInv
<1>4. ASSUME NEW o \in Operators, Ask(o) \/ List(o) \/ Remove(o) PROVE IInv'
  BY <1>4, AskIInv, ListIInv, RemoveIInv
<1>5. CASE UNCHANGED vars
  BY <1>5, StutterIInv
<1> QED
  BY <1>1, <1>2, <1>3, <1>4, <1>5 DEF Next, Idle

\* The inductive invariant holds throughout.
THEOREM Invariant == Spec => []IInv
<1>1. Init => IInv
  BY InitIInv
<1>2. IInv /\ [Next]_vars => IInv'
  BY StepIInv
<1> QED
  BY <1>1, <1>2, PTL DEF Spec

-----------------------------------------------------------------------------
(* What the processes rely on *)

\* Whoever has opened servers.db finds every table and column its statements name,
\* however many processes migrate the file at once and wherever they die.
THEOREM SchemaComplete == Spec => []OpenIsComplete
<1>1. IInv => OpenIsComplete
  BY DEF IInv, OpenIsComplete, TypesOK, Migrated, AfterServers, AfterFile, AfterPos, Tables,
         DeadLetters, Columns
<1> QED
  BY <1>1, Invariant, PTL

\* A row leaves its table only by a remove of an operator who was shown that very row:
\* the id in his list has not come to mean another dead letter.
THEOREM RemovesTheRowShown == Spec => RemovesWhatWasListed
<1> DEFINE A == \A t \in DeadLetters : \A id \in DOMAIN rows[t] \ DOMAIN rows'[t] :
                  \E o \in Operators :
                    /\ command[o] = [name |-> "remove", table |-> t, id |-> id]
                    /\ shown[o][t][id] = rows[t][id]
<1>1. IInv /\ [Next]_vars => [A]_rows
  <2> SUFFICES ASSUME IInv, [Next]_vars, rows' # rows,
                      NEW t \in DeadLetters, NEW id \in DOMAIN rows[t] \ DOMAIN rows'[t]
               PROVE  \E o \in Operators :
                        /\ command[o] = [name |-> "remove", table |-> t, id |-> id]
                        /\ shown[o][t][id] = rows[t][id]
    OBVIOUS
  <2>1. CASE \E s \in Services : Insert(s)
    <3>1. PICK s \in Services : Insert(s)
      BY <2>1
    <3>2. \A u \in DeadLetters : DOMAIN rows[u] \subseteq DOMAIN rows'[u]
      <4>1. PICK new, row : rows' = [rows EXCEPT ![s] =
                              [i \in DOMAIN @ \cup {new} |-> IF i = new THEN row ELSE @[i]]]
        BY <3>1 DEF Insert
      <4> QED
        BY <4>1 DEF IInv, TypesOK, Services
    <3> QED
      BY <3>2
  <2>2. CASE \E o \in Operators : Remove(o)
    <3>1. PICK o \in Operators : Remove(o)
      BY <2>2
    <3>2. PICK u \in DeadLetters : \E i \in DOMAIN shown[o][u] :
                  command[o] = [name |-> "remove", table |-> u, id |-> i]
      BY <3>1 DEF Remove, IInv, Letters, Asked
    <3>3. PICK i \in DOMAIN shown[o][u] :
                  command[o] = [name |-> "remove", table |-> u, id |-> i]
      BY <3>2
    <3>4. command[o].table = u /\ command[o].id = i
      BY <3>3
    <3>5. rows' = [rows EXCEPT ![u] = [k \in DOMAIN @ \ {i} |-> @[k]]]
      BY <3>1, <3>4 DEF Remove
    <3>6. u = t /\ i = id
      BY <3>5 DEF IInv, TypesOK
    <3>7. shown[o][t][id] = rows[t][id]
      BY <3>3, <3>6 DEF IInv, Letters, Listed
    <3> QED
      BY <3>3, <3>6, <3>7
  <2>3. CASE UNCHANGED rows
    BY <2>3
  <2> QED
    BY <2>1, <2>2, <2>3 DEF Next, Idle, vars, letters, Steps, CreateServers, TableInfo, AddFile,
       AddPos, AddUnless, CreateDeadLetters, Fault, StartService, Ask, List
<1> QED
  BY <1>1, Invariant, PTL DEF Spec, RemovesWhatWasListed
=============================================================================
