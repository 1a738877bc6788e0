------------------------- MODULE MCShardedWorkerPool -------------------------
(* Two pools under one name, the first dropping heads and the second tails,  *)
(* two shards, and three jobs of one key: a, its child b, and d, which fills *)
(* a queue's bytes alone.                                                    *)
EXTENDS ShardedWorkerPool

CONSTANTS a, b, d, k

MCKey == [j \in Job |-> k]
MCSize == [j \in Job |-> IF j = d THEN 2 ELSE 1]
MCParent == [j \in Job |-> IF j = b THEN a ELSE None]
MCHash == [key \in {k} |-> 1]
=============================================================================
