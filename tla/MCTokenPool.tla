---------------------------- MODULE MCTokenPool ----------------------------
(* Instances of TokenPool for TLC.                                         *)
EXTENDS TokenPool

CONSTANTS t1, t2, t3, r1, r2

\* A pool of two, which one cycle fills, fills partly or leaves empty, and three
\* token identities, so that nothing but the code keeps the pool within its size.
\* MaxThread is left to withDefaults, as every DefaultConfigs entry does.
PoolConfig == [Size |-> 2, TTL |-> 1, UseLimit |-> 1, MaxThread |-> 0, Sleep |-> 1]
============================================================================
