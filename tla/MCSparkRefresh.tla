--------------------------- MODULE MCSparkRefresh ---------------------------
(* Small instances of SparkRefresh: target lists over at most two nodes.    *)
EXTENDS SparkRefresh, TLC

CONSTANTS n1, n2

OneList == {<<n1>>}
Grown == {<<n1>>, <<n1, n2>>}
Swapped == {<<n1, n2>>, <<n2>>}

InstanceSymmetry == Permutations(Instances)
SharedSymmetry == Permutations(Shared)
=============================================================================
