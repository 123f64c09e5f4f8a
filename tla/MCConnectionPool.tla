-------------------------- MODULE MCConnectionPool --------------------------
(* Instances of ConnectionPool for TLC. *)
EXTENDS ConnectionPool, TLC

CONSTANTS t1, t2, t3, k1, k2, k3, k4

TwoThreads == {t1, t2}
ThreeThreads == {t1, t2, t3}
MCConnections == {k1, k2, k3, k4}

\* The fair specification of the liveness run.
FairPoolSpec == PoolSpec /\ PoolThreadFairness
=============================================================================
