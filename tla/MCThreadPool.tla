---------------------------- MODULE MCThreadPool ----------------------------
(* Two workers, two committing threads and three tasks: a queue that holds *)
(* several tasks while both workers sleep, run or race the shutdown.       *)
EXTENDS ThreadPool, TLC

CONSTANTS w1, w2, c1, c2, t1, t2, t3

MCWorkers == {w1, w2}
MCClients == {c1, c2}
MCTasks   == {t1, t2, t3}
=============================================================================
