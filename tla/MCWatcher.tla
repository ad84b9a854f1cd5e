----------------------------- MODULE MCWatcher ------------------------------
(* Instances of Watcher for TLC: three files, the first ended by a rotation, *)
(* the second cut inside a transaction by a crash of the master.             *)
EXTENDS Watcher

MCLog == <<
  <<"other", "gtid", "tablemap", "rows", "rows", "xid",
    "gtid", "begin", "tablemap", "rows", "commit", "rotate">>,
  <<"other", "gtid", "ddl", "gtid", "tablemap", "rows">>,
  <<"other", "gtid", "other", "tablemap", "rows", "xid">> >>

\* The same with a SAVEPOINT between two statements of a transaction.
SavepointLog == <<
  <<"other", "gtid", "tablemap", "rows", "savepoint", "other", "tablemap", "rows",
    "xid", "rotate">>,
  <<"other", "gtid", "ddl", "gtid", "tablemap", "rows">>,
  <<"other", "gtid", "tablemap", "rows", "commit">> >>
=============================================================================
