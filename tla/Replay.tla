------------------------------- MODULE Replay -------------------------------
(***************************************************************************)
(* What a BinlogWatcher promises its readers: the changes 1 .. N of a log, *)
(* handled in order from a remembered place, at least once each.  It may   *)
(* stop anywhere and start again from what it remembers, which may be old  *)
(* but never lies beyond what it has handled.  While nothing was ever      *)
(* remembered it begins wherever the log is at that moment.                *)
(***************************************************************************)
EXTENDS Integers

CONSTANT N  \* the number of changes

VARIABLES
  live,   \* reading
  next,   \* changes taken from the log when reading
  saved,  \* changes a restart skips, or Nothing
  first,  \* changes that preceded the log's first reading
  done    \* changes handled so far

vars == <<live, next, saved, first, done>>

Nothing == -1

Init ==
  /\ live = FALSE /\ next = 0
  /\ saved = Nothing /\ first = 0
  /\ done = {}

Begin ==
  /\ ~live
  /\ \E p \in IF saved = Nothing THEN 0 .. N ELSE {saved} :
       /\ first' = IF saved = Nothing THEN p ELSE first
       /\ saved' \in {saved, p}
       /\ \/ live' = TRUE /\ next' = p
          \/ UNCHANGED <<live, next>>
  /\ UNCHANGED done

Take ==
  /\ live /\ next < N
  /\ next' = next + 1
  /\ done' = done \cup {next + 1}
  /\ UNCHANGED <<live, saved, first>>

\* Remembers a place at or before next, never one before what it remembered.
Remember ==
  \E p \in first .. next : saved <= p /\ saved' = p

Save ==
  /\ live /\ Remember
  /\ UNCHANGED <<live, next, first, done>>

Stop ==
  /\ live /\ live' = FALSE
  /\ (Remember \/ UNCHANGED saved)
  /\ UNCHANGED <<next, first, done>>

Next == Begin \/ Take \/ Save \/ Stop

Spec == Init /\ [][Next]_vars
=============================================================================
