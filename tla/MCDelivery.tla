----------------------------- MODULE MCDelivery -----------------------------
(* Instances of Delivery for TLC: two shards, the first with most tasks.     *)
EXTENDS Delivery, TLC

B(tipo, table, mod) == [tipo |-> tipo, table |-> table, mod |-> mod]

Shard(s) == <<"http", s>>
MCQueues == {Shard(0), Shard(1)}

\* In one shard an Event of today and one from before the Contrato, in the other one
\* that cannot be decoded.
MCTasks ==
  "a" :> [queue |-> Shard(0), body |-> B("pedidos", "pedidos", "M")] @@
  "b" :> [queue |-> Shard(0), body |-> B("", "pedidos", "C")] @@
  "c" :> [queue |-> Shard(1), body |-> B("corrupt", "pedidos", "M")]

MCIds == {"a", "b", "c"}
MCBodies == [tipo : {"pedidos", "", "corrupt"}, table : {"pedidos"}, mod : {"C", "M", "D"}]
=============================================================================
