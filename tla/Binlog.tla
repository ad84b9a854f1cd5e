------------------------------- MODULE Binlog -------------------------------
(***************************************************************************)
(* The MariaDB binlog a watcher reads: a list of files, each a list of     *)
(* events.  The watcher only ever sees it through go-mysql, so this module *)
(* is an external one: it fixes the order of events and the positions the  *)
(* rest of the project talks about.                                        *)
(*                                                                         *)
(* A position is a file and an offset, as mysql.Position.  The offset of   *)
(* an event is modelled by its index in the file, so offset 1 stands for   *)
(* byte 4 (the first event) and offset 0 for the LogPos 0 the server       *)
(* writes in artificial events, which is no offset of the file at all.     *)
(* LogPos, the end of an event, is the offset of the next one.             *)
(***************************************************************************)
EXTENDS Integers, Sequences

CONSTANT Log  \* Log[f] is the sequence of the kinds of the events of file f

\* Query events are split by their text, the one thing the tracker tells apart,
\* and "other" stands for every type of Observe's default branch.
Kinds == {"gtid", "begin", "tablemap", "rows", "xid", "commit", "ddl",
          "savepoint", "other", "rotate"}

\* What the server writes: the events of a row group follow the TableMap that
\* describes their table, and a file names its successor, if it does, at its end.
ASSUME LogAssumption ==
  /\ Log \in Seq(Seq(Kinds))
  /\ \A f \in DOMAIN Log : \A i \in DOMAIN Log[f] :
       /\ Log[f][i] = "rows" => i > 1 /\ Log[f][i - 1] \in {"tablemap", "rows"}
       /\ Log[f][i] = "rotate" => i = Len(Log[f]) /\ f < Len(Log)

At(f, p) == [file |-> f, pos |-> p]

Position == [file : Nat, pos : Nat]

\* BinlogFile = "" and BinlogPos = 0: nothing was ever persisted.
NoPos == At(0, 0)

Before(a, b) == a.file < b.file \/ (a.file = b.file /\ a.pos < b.pos)

HasEvent(p) == p.file \in DOMAIN Log /\ p.pos \in DOMAIN Log[p.file]

Kind(p) == Log[p.file][p.pos]

IsRows(p) == HasEvent(p) /\ Kind(p) = "rows"

\* LogPos of the event at p, where the next event of the file begins.
LogPos(p) == p.pos + 1

After(p) == At(p.file, LogPos(p))

NextFile(p) == At(p.file + 1, 1)

AtEndOfFile(p) == p.file \in DOMAIN Log /\ p.pos = Len(Log[p.file]) + 1

Events == UNION {{At(f, i) : i \in DOMAIN Log[f]} : f \in DOMAIN Log}

RowEvents == {e \in Events : IsRows(e)}

\* p splits a transaction: an event before it in the file opened one that no
\* event since has ended.  A SAVEPOINT ends nothing.
InsideTx(p) ==
  \E i \in 1 .. p.pos - 1 :
    /\ Log[p.file][i] \in {"gtid", "begin", "tablemap", "rows"}
    /\ \A j \in i + 1 .. p.pos - 1 : Log[p.file][j] \notin {"xid", "commit", "ddl"}

\* Where SHOW MASTER STATUS may point: the end of what the master has committed.
MasterPositions ==
  {p \in UNION {{At(f, i) : i \in 1 .. Len(Log[f]) + 1} : f \in DOMAIN Log} :
     /\ ~InsideTx(p)
     /\ p.pos > 1
     /\ Log[p.file][p.pos - 1] # "rotate"}
=============================================================================
