---------------------------- MODULE MCTcpServer -----------------------------
(* Three clients, so that several arrive for one edge, and a work pool of  *)
(* two threads, one of which the timer's loop occupies.                    *)
EXTENDS TcpServer, TLC

CONSTANTS k1, k2, k3

MCClients == {k1, k2, k3}
=============================================================================
