----------------------------- MODULE MCProducer -----------------------------
(* Instances of Producer for TLC.                                            *)
EXTENDS Producer, TLC

R(r, k) == [res |-> r, kind |-> k]

\* A DELETE of a row without usable id and of one of a table without processor; an
\* INSERT with a row that cannot be serialised between two good ones; an UPDATE of one
\* row with an odd row left over.
MCChanges == <<
  [action |-> "DELETE", rows |-> <<R("r1", "badid"), R("r1", "other")>>],
  [action |-> "INSERT", rows |-> <<R("r2", "ok"), R("r1", "poison"), R("r2", "ok")>>],
  [action |-> "UPDATE", rows |-> <<R("r2", "ok"), R("r2", "ok"), R("r1", "ok")>>] >>

MCResources == {"r1", "r2"}
MCHash == [r \in MCResources |-> IF r = "r1" THEN 5 ELSE 8]
TwoTargets == <<"http", "sse">>
MCShards == "http" :> 2 @@ "sse" :> 1
MCQueues == {<<"http", 0>>, <<"http", 1>>, <<"sse", 0>>}
MCIds == {<<n, i>> : n \in 1 .. Len(Changes), i \in 1 .. 3}
=============================================================================
