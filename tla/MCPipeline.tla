----------------------------- MODULE MCPipeline -----------------------------
(* Instances of Pipeline for TLC: one target of one shard, where a retry can *)
(* be overtaken, and changes of one resource.                                *)
EXTENDS Pipeline, TLC

Row(r) == [res |-> r, kind |-> "ok"]

TwoChanges == <<
  [action |-> "INSERT", rows |-> <<Row("r1")>>],
  [action |-> "UPDATE", rows |-> <<Row("r1"), Row("r1")>>] >>

MCResources == {"r1", "r2"}
MCHash == [r \in MCResources |-> IF r = "r1" THEN 5 ELSE 8]
OneTarget == <<"http">>
MCShards == "http" :> 1
MCQueues == {<<"http", 0>>}
MCDates == 0 .. 9
MCIds == {<<n, 1>> : n \in 1 .. 2}
MCBodies == Contratos
=============================================================================
