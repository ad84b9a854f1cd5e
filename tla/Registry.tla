------------------------------ MODULE Registry ------------------------------
(***************************************************************************)
(* The table binlog_servers between its two writers: the commands of the   *)
(* operator (server add, update, remove, and the UPDATE that README.md     *)
(* gives to reset a position) and the producer, which loads the active     *)
(* rows once when it starts, seeds the table when there are none, and      *)
(* writes the positions of the servers it listens to until it ends.  How a *)
(* watcher reads a binlog is module Watcher; here one change is one        *)
(* transaction of one host.                                                *)
(***************************************************************************)
EXTENDS Integers, FiniteSets

CONSTANTS
  Names, Replicas, Hosts,            \* values of server_id and replica_id; masters
  SeedName, SeedReplica, SeedHost,   \* DefaultServerConfig, from the environment
  Length,                            \* bound: changes in the binlog of a master
  MaxCommands, MaxCrashes            \* bounds: commands of the operator, crashes

ASSUME RegistryAssumption ==
  /\ SeedName \in Names /\ SeedReplica \in Replicas /\ SeedHost \in Hosts
  /\ Length \in Nat /\ MaxCommands \in Nat /\ MaxCrashes \in Nat

VARIABLES
  table,    \* binlog_servers by server_id
  master,   \* SHOW MASTER STATUS of each host: changes so far
  process,  \* the producer: "down", "seeding", or "up"
  watcher,  \* the goroutines, each with the copy of its row that was loaded
  handled,  \* history: changes that the watcher of a server handed to the Producer
  began,    \* history: where the server was begun when its row had no position
  foreign,  \* history: the address was changed, and the position is of the master before
  resetDue, \* history: servers reset while not listened to, whose master was not asked yet
  commands, crashes

ghosts == <<handled, began, foreign, resetDue>>
bounds == <<commands, crashes>>
vars == <<table, master, process, watcher, ghosts, bounds>>

-----------------------------------------------------------------------------
(* binlog_servers *)

NoPos == 0

\* binlog_file and binlog_pos: the change before which a restart resumes, from 1.
Position == 0 .. Length + 1

\* "host" is the address of a master, host and port together: -host and -port both change
\* it.  "fits": Scan takes the port and the replica_id for what ServerConfig declares; the
\* commands take any integer.  Any is_active but 1 is as good as 0.
Row == [replica : Replicas, host : Hosts, fits : BOOLEAN, active : {0, 1, 5}, pos : Position]

NoRow == [replica |-> 0]

Rows == {n \in Names : table[n] # NoRow}
Active == {n \in Rows : table[n].active = 1}

\* UNIQUE(replica_id): another server has it.
Taken(n, replica) == \E m \in Rows \ {n} : table[m].replica = replica

NewRow(replica, host, fits) ==
  [replica |-> replica, host |-> host, fits |-> fits, active |-> 1, pos |-> NoPos]

NoWatcher == [phase |-> "ended"]

Init ==
  /\ table = [n \in Names |-> NoRow]
  /\ master = [h \in Hosts |-> 0]
  /\ process = "down" /\ watcher = [n \in Names |-> NoWatcher]
  /\ handled = [n \in Names |-> {}] /\ began = [n \in Names |-> NoPos]
  /\ foreign = {} /\ resetDue = {}
  /\ commands = 0 /\ crashes = 0

-----------------------------------------------------------------------------
(* The commands.  One that the constraints refuse, or that finds no row, changes  *)
(* nothing.                                                                       *)

Command == commands < MaxCommands /\ commands' = commands + 1 /\ UNCHANGED crashes

\* server add.
Add(n) ==
  /\ Command /\ n \notin Rows
  /\ \E replica \in Replicas, host \in Hosts, fits \in BOOLEAN :
       /\ ~Taken(n, replica)
       /\ table' = [table EXCEPT ![n] = NewRow(replica, host, fits)]
  /\ UNCHANGED <<master, process, watcher, ghosts>>

\* server update, of any columns but those of the position, which stays when -host or
\* -port points the server at another binlog.
Update(n) ==
  /\ Command /\ n \in Rows
  /\ \E row \in {r \in Row : r.pos = table[n].pos} :
       /\ row # table[n] /\ ~Taken(n, row.replica)
       /\ table' = [table EXCEPT ![n] = row]
       /\ foreign' = IF row.host # table[n].host /\ (row.pos # NoPos \/ watcher[n].phase # "ended")
                       THEN foreign \cup {n} ELSE foreign
  /\ UNCHANGED <<master, process, watcher, handled, began, resetDue>>

\* Fault to try on Remove: the row is deleted.
RemoveDeletes(n) ==
  /\ Command /\ n \in Rows
  /\ table' = [table EXCEPT ![n] = NoRow]
  /\ UNCHANGED <<master, process, watcher, ghosts>>

\* server remove.
Remove(n) ==
  /\ Command /\ n \in Rows
  /\ table' = [table EXCEPT ![n].active = 0]
  /\ UNCHANGED <<master, process, watcher, ghosts>>

\* README.md: UPDATE binlog_servers SET binlog_file = '', binlog_pos = 0.  The watcher of
\* the server, if it is up, will write its own position over it.
Reset(n) ==
  /\ Command /\ n \in Rows
  /\ table' = [table EXCEPT ![n].pos = NoPos]
  /\ resetDue' = IF watcher[n] = NoWatcher THEN resetDue \cup {n} ELSE resetDue
  /\ UNCHANGED <<master, process, watcher, handled, began, foreign>>

-----------------------------------------------------------------------------
(* The producer *)

\* The ServerConfig of a row.
Copy(n) == [phase |-> "start", row |-> table[n]]

Listen(servers) ==
  watcher' = [n \in Names |-> IF n \in servers THEN Copy(n) ELSE NoWatcher]

\* Fault to try on Load: is_active is only looked at after the rows were read.
LoadEveryRow ==
  /\ process = "down" /\ \A n \in Rows : table[n].fits
  /\ process' = IF Active = {} THEN "seeding" ELSE "up"
  /\ Listen(Active)
  /\ UNCHANGED <<table, master, ghosts, bounds>>

\* main, up to LoadServersFromDB: one active row that cannot be scanned ends the
\* process with code 1, whatever the others are.
Load ==
  /\ process = "down" /\ \A n \in Active : table[n].fits
  /\ process' = IF Active = {} THEN "seeding" ELSE "up"
  /\ Listen(Active)
  /\ UNCHANGED <<table, master, ghosts, bounds>>

\* No server is active: DefaultServerConfig is inserted, or the constraints refuse
\* it and the process ends with code 1.
Seeding ==
  /\ process = "seeding"
  /\ IF SeedName \in Rows \/ Taken(SeedName, SeedReplica)
       THEN process' = "down" /\ UNCHANGED <<table, watcher>>
       ELSE LET row == NewRow(SeedReplica, SeedHost, TRUE) IN
            /\ process' = "up"
            /\ table' = [table EXCEPT ![SeedName] = row]
            /\ watcher' = [watcher EXCEPT ![SeedName] = [phase |-> "start", row |-> row]]
  /\ UNCHANGED <<master, ghosts, bounds>>

\* Fault to try on Persist: the UPDATE has no WHERE.
PersistEverywhere(n, pos) ==
  table' = [m \in Names |-> IF m \in Rows THEN [table[m] EXCEPT !.pos = pos] ELSE NoRow]

\* UpdateBinlogPosition writes the row of that server_id, whatever became of it.
Persist(n, pos) == table' = [table EXCEPT ![n].pos = pos]

MayPersist(n, pos) == Persist(n, pos) \/ UNCHANGED table

\* Start resumes from the loaded position, or asks the host, and writes the place.
Start(n) ==
  /\ process = "up" /\ watcher[n].phase = "start"
  /\ LET copy == watcher[n].row
         asks == copy.pos = NoPos
         pos == IF asks THEN master[copy.host] + 1 ELSE copy.pos IN
     /\ watcher' = [watcher EXCEPT ![n] = [phase |-> "run", row |-> [copy EXCEPT !.pos = pos]]]
     /\ MayPersist(n, pos)
     /\ began' = IF table[n].pos = NoPos THEN [began EXCEPT ![n] = pos] ELSE began
     /\ foreign' = IF asks /\ copy.host = table[n].host THEN foreign \ {n} ELSE foreign
     /\ resetDue' = IF asks THEN resetDue \ {n} ELSE resetDue
  /\ UNCHANGED <<master, process, handled, bounds>>

\* The host does not answer where to start: the watcher ends, and nothing is written.
CannotAsk(n) ==
  /\ process = "up" /\ watcher[n].phase = "start" /\ watcher[n].row.pos = NoPos
  /\ watcher' = [watcher EXCEPT ![n] = NoWatcher]
  /\ UNCHANGED <<table, master, process, ghosts, bounds>>

\* A change of the host is handed to the Producer.
Handle(n) ==
  /\ process = "up" /\ watcher[n].phase = "run"
  /\ LET row == watcher[n].row IN
     /\ row.pos <= master[row.host]
     /\ handled' = [handled EXCEPT ![n] = @ \cup {<<row.host, row.pos>>}]
     /\ watcher' = [watcher EXCEPT ![n].row.pos = @ + 1]
  /\ UNCHANGED <<table, master, process, began, foreign, resetDue, bounds>>

\* A boundary asks for a save.
Save(n) ==
  /\ process = "up" /\ watcher[n].phase = "run"
  /\ Persist(n, watcher[n].row.pos)
  /\ UNCHANGED <<master, process, watcher, ghosts, bounds>>

\* ctx was cancelled, or the stream failed: the position is written once more.
Return(n) ==
  /\ process = "up" /\ watcher[n].phase = "run"
  /\ MayPersist(n, watcher[n].row.pos)
  /\ watcher' = [watcher EXCEPT ![n] = NoWatcher]
  /\ UNCHANGED <<master, process, ghosts, bounds>>

\* Every watcher has ended; the process is started again.
Exit ==
  /\ process = "up" /\ \A n \in Names : watcher[n].phase = "ended"
  /\ process' = "down"
  /\ UNCHANGED <<table, master, watcher, ghosts, bounds>>

Crash ==
  /\ process # "down" /\ crashes < MaxCrashes /\ crashes' = crashes + 1
  /\ process' = "down" /\ watcher' = [n \in Names |-> NoWatcher]
  /\ UNCHANGED <<table, master, ghosts, commands>>

\* The ERP commits a change.
Commit(h) ==
  /\ master[h] < Length /\ master' = [master EXCEPT ![h] = @ + 1]
  /\ UNCHANGED <<table, process, watcher, ghosts, bounds>>

\* The producer may be idle, or refuse to start for good.
Idle == UNCHANGED vars

Next ==
  \/ Load \/ Seeding \/ Exit \/ Crash \/ Idle
  \/ \E n \in Names :
       \/ Add(n) \/ Update(n) \/ Remove(n) \/ Reset(n)
       \/ Start(n) \/ CannotAsk(n) \/ Handle(n) \/ Save(n) \/ Return(n)
  \/ \E h \in Hosts : Commit(h)

Spec == Init /\ [][Next]_vars

\* docker, or the operator after a stop, starts the process again, and main goes on.
FairSpec == Spec /\ WF_vars(Load) /\ WF_vars(Seeding)

-----------------------------------------------------------------------------
(* Properties *)

\* The types of the variables; a server that is listened to keeps its row.
TypeOK ==
  /\ table \in [Names -> Row \cup {NoRow}]
  /\ master \in [Hosts -> 0 .. Length]
  /\ process \in {"down", "seeding", "up"}
  /\ watcher \in [Names -> [phase : {"start", "run"}, row : Row] \cup {NoWatcher}]
  /\ \A n \in Names : watcher[n].phase # "ended" => process = "up" /\ n \in Rows
  /\ handled \in [Names -> SUBSET (Hosts \X Position)] /\ began \in [Names -> Position]
  /\ foreign \subseteq Names /\ resetDue \subseteq Names
  /\ commands \in 0 .. MaxCommands /\ crashes \in 0 .. MaxCrashes

\* No order of commands, restarts and late writes of an old copy makes a server skip a
\* change of its host: a server that is removed and activated again goes on where it
\* stopped.  Only a position taken on another master does, which server update keeps when
\* -host or -port changes.
CommandsSkipNothing ==
  \A n \in Rows \ foreign :
    \A k \in began[n] .. table[n].pos - 1 : <<table[n].host, k>> \in handled[n]

\* The table lets the producer start: no active row is malformed, and there is one or
\* the seed can be inserted.
Bootable ==
  /\ \A n \in Active : table[n].fits
  /\ Active # {} \/ (SeedName \notin Rows /\ ~Taken(SeedName, SeedReplica))

\* With such a table the producer comes up, also when a command adds a server between
\* the loading and the seed.
ProducerComesUp ==
  (process # "up" /\ Bootable) ~> (process = "up" \/ ~Bootable)

\* README.md: to make a server read again from the position of its master, "zere
\* manualmente".  A position that was reset while the server was not listened to stays
\* so until the master is asked: nothing but its own watcher writes it back.
ResetTakesEffect == \A n \in resetDue : table[n].pos = NoPos
=============================================================================
