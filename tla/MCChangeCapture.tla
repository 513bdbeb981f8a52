---------------------------- MODULE MCChangeCapture ----------------------------
(***************************************************************************)
(* Instances of ChangeCapture for TLC: the sources, what applications do    *)
(* with them and what may fail.                                            *)
(***************************************************************************)
EXTENDS ChangeCapture

\* Every source but DynamoDB: one sequence of changes.
OneShard == [k \in Keys |-> Shard]

\* DynamoDB with each key in a shard of its own; what is left of Shards is for splits.
ShardPerKey == CHOOSE f \in [Keys -> Shards] : \A k, q \in Keys : f[k] = f[q] => k = q

Of(connector, hybrid, ops, faults, maxRuns) ==
    [connector |-> connector, hybrid |-> hybrid,
     shardOf |-> IF connector = "dynamodb" THEN ShardPerKey ELSE OneShard,
     ops |-> ops, ties |-> FALSE, faults |-> faults, maxRuns |-> maxRuns]

-------------------------------------------------------------------------------
(* The sources of the passing run *)

\* DynamoDB over a restart, with refused writes, or shards that are replaced, or a
\* stream without images; MongoDB and Redis in one stream each, which is cut for Redis.
DeliveredInOrder ==
    {Of("dynamodb", TRUE, {"put", "delete"}, {"write", "source", "crash"}, 2),
     Of("dynamodb", FALSE, {"put", "delete"}, {"split", "source"}, 2),
     Of("dynamodb", TRUE, {"put", "delete"}, {"split", "no_image"}, 1),
     Of("mongodb", FALSE, Operations, {"source", "crash"}, 1),
     Of("redis", FALSE, {"put", "delete"}, {"write", "blip", "source", "crash"}, 1)}

\* Cassandra's poll does not see what leaves the polled column alone.
Scanned ==
    {Of("cosmosdb", TRUE, Operations, {"write", "source", "crash"}, 2),
     Of("cassandra", TRUE, {"put", "delete"}, {"write", "source", "crash"}, 2)}

Synced == DeliveredInOrder \cup Scanned

-------------------------------------------------------------------------------
(* The sources of the counterexamples *)

HybridMongo == {Of("mongodb", TRUE, Operations, {}, 1)}
RestartedMongo == {Of("mongodb", FALSE, Operations, {"crash"}, 2)}
RestartedCosmos == {Of("cosmosdb", FALSE, {"put", "patch"}, {"crash"}, 2)}
RestartedCassandra == {Of("cassandra", FALSE, {"put"}, {"crash"}, 2)}
TiedCassandra == {[Of("cassandra", FALSE, {"put"}, {}, 1) EXCEPT !.ties = TRUE]}
PatchedCassandra == {Of("cassandra", FALSE, {"put", "patch"}, {}, 1)}
DeletingCassandra == {Of("cassandra", TRUE, {"put", "delete"}, {}, 2)}
SplitDynamo == {Of("dynamodb", FALSE, {"put", "delete"}, {"split"}, 1)}
RefusedDynamo == {Of("dynamodb", FALSE, Operations, {"write"}, 1)}
================================================================================
