--------------------------- MODULE MCCoThreadPool ---------------------------
(* Two threads that steal from each other, one thread outside the pool and *)
(* three coroutines: one to run and schedule another while a third is      *)
(* queued.  Coroutines are alike.                                          *)
EXTENDS CoThreadPool, TLC

CONSTANTS c1, h1, h2, h3

MCClients == {c1}
MCCoros == {h1, h2, h3}
=============================================================================
