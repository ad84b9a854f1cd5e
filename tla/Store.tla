-------------------------------- MODULE Store -------------------------------
(***************************************************************************)
(* The file servers.db as the processes that share it open it (InitDB in   *)
(* config.go: statement by statement, in no transaction), and the two      *)
(* tables of dead letters in it, which producer and consumer fill and the  *)
(* commands failed-events and failed-deliveries list and clear.  SQLite    *)
(* runs one statement at a time; one that waits for its lock longer than   *)
(* busy_timeout fails.                                                     *)
(***************************************************************************)
EXTENDS Integers, FiniteSets

CONSTANTS
  Operators,               \* shells in which the commands are run
  Keys,                    \* values of server_id and tenant
  Limit,                   \* -limit of list
  MaxInserts, MaxCommands, \* bounds: dead letters, commands
  MaxFaults                \* bound: statements that fail, processes that die

ASSUME StoreAssumption ==
  /\ Limit \in Nat /\ MaxInserts \in Nat /\ MaxCommands \in Nat /\ MaxFaults \in Nat

Columns == {"binlog_file", "binlog_pos"}
DeadLetters == {"failed_events", "failed_deliveries"}
Tables == {"binlog_servers"} \cup DeadLetters

\* The services, by the table each fills.
Services == DeadLetters
Processes == Services \cup Operators

VARIABLES
  tables,   \* the tables that exist
  columns,  \* which of Columns binlog_servers has
  rows,     \* rows[t]: the dead letters by id, each the number of its insertion and a key
  sequence, \* sqlite_sequence: the last id AUTOINCREMENT gave
  pc,       \* pc[p]: "closed", the statement of InitDB that is due, or "open"
  seen,     \* the columns that p found with table_info, until it has migrated
  command,  \* what an operator has asked for
  shown,    \* shown[o]: the rows of the last list, by table and id
  inserts, commands, faults

schema == <<tables, columns>>
letters == <<rows, sequence>>
operators == <<command, shown>>
bounds == <<inserts, commands, faults>>
vars == <<schema, letters, pc, seen, operators, bounds>>

NoCommand == [name |-> "none"]

\* A new file, one from before the positions and the dead letters, and today's.
Init ==
  /\ \/ tables = {} /\ columns = {}
     \/ tables = {"binlog_servers"} /\ columns = {}
     \/ tables = Tables /\ columns = Columns
  /\ rows = [t \in DeadLetters |-> [id \in {} |-> {}]] /\ sequence = [t \in DeadLetters |-> 0]
  /\ pc = [p \in Processes |-> "closed"] /\ seen = [p \in Processes |-> {}]
  /\ command = [o \in Operators |-> NoCommand]
  /\ shown = [o \in Operators |-> [t \in DeadLetters |-> [id \in {} |-> {}]]]
  /\ inserts = 0 /\ commands = 0 /\ faults = 0

-----------------------------------------------------------------------------
(* InitDB *)

Goes(p, from, to) == pc[p] = from /\ pc' = [pc EXCEPT ![p] = to]

\* migrateBinlogPositionColumns returns.
Forget(p) == seen' = [seen EXCEPT ![p] = {}]

\* InitDB returned an error: a service exits with code 1, a command returns 1.
Fails(p) ==
  /\ pc' = [pc EXCEPT ![p] = "closed"] /\ Forget(p)
  /\ command' = IF p \in Operators THEN [command EXCEPT ![p] = NoCommand] ELSE command

\* docker starts a service.
StartService(s) ==
  /\ Goes(s, "closed", "servers")
  /\ UNCHANGED <<schema, letters, seen, operators, bounds>>

\* CREATE TABLE IF NOT EXISTS binlog_servers, with every column.
CreateServers(p) ==
  /\ Goes(p, "servers", "info")
  /\ tables' = tables \cup {"binlog_servers"}
  /\ columns' = IF "binlog_servers" \in tables THEN columns ELSE Columns
  /\ UNCHANGED <<letters, seen, operators, bounds>>

\* Fault to try on TableInfo: the rows of the PRAGMA are not collected.
TableInfoEmpty(p) ==
  /\ Goes(p, "info", "binlog_file") /\ seen' = [seen EXCEPT ![p] = {}]
  /\ UNCHANGED <<schema, letters, operators, bounds>>

\* PRAGMA table_info.
TableInfo(p) ==
  /\ Goes(p, "info", "binlog_file") /\ seen' = [seen EXCEPT ![p] = columns]
  /\ UNCHANGED <<schema, letters, operators, bounds>>

\* ALTER TABLE ADD COLUMN, unless table_info named the column already.  Another process
\* may have added it since: "duplicate column name".
AddUnless(present, p, column, then) ==
  /\ pc[p] = column
  /\ \/ /\ present \/ column \notin columns
        /\ Goes(p, column, then) /\ columns' = columns \cup {column}
        /\ IF column = "binlog_pos" THEN Forget(p) ELSE UNCHANGED seen
        /\ UNCHANGED command
     \/ ~present /\ column \in columns /\ Fails(p) /\ UNCHANGED columns
  /\ UNCHANGED <<tables, letters, shown, bounds>>

AddFile(p) == AddUnless("binlog_file" \in seen[p], p, "binlog_file", "binlog_pos")

\* Fault to try on AddPos: both columns are taken to come together.
AddPosWithFile(p) ==
  IF "binlog_file" \in seen[p]
    THEN /\ Goes(p, "binlog_pos", "failed_events") /\ Forget(p)
         /\ UNCHANGED <<schema, letters, operators, bounds>>
    ELSE AddUnless(FALSE, p, "binlog_pos", "failed_events")

AddPos(p) == AddUnless("binlog_pos" \in seen[p], p, "binlog_pos", "failed_events")

\* The two tables of dead letters.
CreateDeadLetters(p) ==
  /\ \/ Goes(p, "failed_events", "failed_deliveries")
     \/ Goes(p, "failed_deliveries", "open")
  /\ tables' = tables \cup {pc[p]}
  /\ UNCHANGED <<columns, letters, seen, operators, bounds>>

\* A statement fails, or the process dies between two.
Fault(p) ==
  /\ pc[p] # "closed" /\ Fails(p)
  /\ faults < MaxFaults /\ faults' = faults + 1
  /\ UNCHANGED <<schema, letters, shown, inserts, commands>>

-----------------------------------------------------------------------------
(* Dead letters *)

\* Fault to try on NextId: INTEGER PRIMARY KEY without AUTOINCREMENT.
NextFreeId(t) ==
  CHOOSE id \in 1 .. MaxInserts + 1 :
    /\ id \notin DOMAIN rows[t]
    /\ \A used \in DOMAIN rows[t] : used < id
    /\ id = 1 \/ id - 1 \in DOMAIN rows[t]

NextId(t) == sequence[t] + 1

\* SaveFailedEvent of the producer, SaveFailedDelivery of the consumer.
Insert(s) ==
  /\ pc[s] = "open" /\ inserts < MaxInserts /\ inserts' = inserts + 1
  /\ LET id == NextId(s) IN
     /\ sequence' = [sequence EXCEPT ![s] = id]
     /\ \E key \in Keys :
          rows' = [rows EXCEPT ![s] =
                     [i \in DOMAIN @ \cup {id} |-> IF i = id THEN [n |-> inserts', key |-> key] ELSE @[i]]]
  /\ UNCHANGED <<schema, pc, seen, operators, commands, faults>>

\* The rows that list prints: ORDER BY id DESC LIMIT, of one server or tenant if asked.
Newest(t, key) ==
  LET ids == {id \in DOMAIN rows[t] : key \in {"any", rows[t][id].key}}
  IN {id \in ids : Cardinality({newer \in ids : newer > id}) < Limit}

\* An operator asks for a list, or to remove a row of the list in front of him; the
\* command opens the file first.
Ask(o) ==
  /\ Goes(o, "closed", "servers")
  /\ commands < MaxCommands /\ commands' = commands + 1
  /\ \E t \in DeadLetters :
       \/ \E key \in Keys \cup {"any"} :
            command' = [command EXCEPT ![o] = [name |-> "list", table |-> t, key |-> key]]
       \/ \E id \in DOMAIN shown[o][t] :
            command' = [command EXCEPT ![o] = [name |-> "remove", table |-> t, id |-> id]]
  /\ UNCHANGED <<schema, letters, seen, shown, inserts, faults>>

List(o) ==
  /\ command[o].name = "list" /\ Goes(o, "open", "closed")
  /\ LET t == command[o].table IN
       shown' = [shown EXCEPT ![o][t] = [id \in Newest(t, command[o].key) |-> rows[t][id]]]
  /\ command' = [command EXCEPT ![o] = NoCommand]
  /\ UNCHANGED <<schema, letters, seen, bounds>>

\* The row may be gone already.
Remove(o) ==
  /\ command[o].name = "remove" /\ Goes(o, "open", "closed")
  /\ LET t == command[o].table IN
       rows' = [rows EXCEPT ![t] = [id \in DOMAIN @ \ {command[o].id} |-> @[id]]]
  /\ command' = [command EXCEPT ![o] = NoCommand]
  /\ UNCHANGED <<schema, sequence, seen, shown, bounds>>

Steps(p) ==
  \/ CreateServers(p) \/ TableInfo(p) \/ AddFile(p) \/ AddPos(p) \/ CreateDeadLetters(p)

Idle == UNCHANGED vars

Next ==
  \/ \E p \in Processes : Steps(p) \/ Fault(p)
  \/ \E s \in Services : StartService(s) \/ Insert(s)
  \/ \E o \in Operators : Ask(o) \/ List(o) \/ Remove(o)
  \/ Idle

Spec == Init /\ [][Next]_vars

\* A process that runs goes on, and docker restarts a service that exits.
FairSpec ==
  /\ Spec
  /\ \A p \in Processes : WF_vars(Steps(p))
  /\ \A s \in Services : WF_vars(StartService(s))

-----------------------------------------------------------------------------
(* Properties *)

\* Whoever has opened the file finds in it what its statements name, from whatever
\* version it was migrated, however many were migrating it and wherever one died.
OpenIsComplete ==
  \A p \in Processes : pc[p] = "open" => tables = Tables /\ columns = Columns

\* A migration that was cut short, or that another process finished first, costs a
\* restart and no more: each service opens the file in the end.
EventuallyOpen == \A s \in Services : pc[s] = "closed" ~> pc[s] = "open"

\* remove takes an id from a list that may be old by now: the row it deletes is the one
\* that its operator was shown, whatever was removed and inserted since.
RemovesWhatWasListed ==
  [][\A t \in DeadLetters : \A id \in DOMAIN rows[t] \ DOMAIN rows'[t] :
       \E o \in Operators :
         /\ command[o] = [name |-> "remove", table |-> t, id |-> id]
         /\ shown[o][t][id] = rows[t][id]]_rows
=============================================================================
