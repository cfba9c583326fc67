------------------------------ MODULE TaskPool ------------------------------
(***************************************************************************)
(* What luce's callers rely on from a pool of worker threads, without      *)
(* threads, locks or condition variables: a task handed in while the pool  *)
(* is open is run exactly once, tasks are started in the order they were   *)
(* accepted, a closed pool refuses tasks instead of dropping them, and     *)
(* closing returns only when everything accepted has finished.             *)
(***************************************************************************)
EXTENDS Sequences

CONSTANT Tasks

VARIABLES status,   \* what became of each task
          queue,    \* accepted, not yet started, oldest first
          open,     \* tasks are still accepted
          over      \* closing has returned

vars == <<status, queue, open, over>>

Init ==
  /\ status = [t \in Tasks |-> "new"]
  /\ queue = <<>>
  /\ open = TRUE
  /\ over = FALSE

Accept(t) ==
  /\ open
  /\ status[t] = "new"
  /\ status' = [status EXCEPT ![t] = "queued"]
  /\ queue' = Append(queue, t)
  /\ UNCHANGED <<open, over>>

Refuse(t) ==
  /\ ~open
  /\ status[t] = "new"
  /\ status' = [status EXCEPT ![t] = "refused"]
  /\ UNCHANGED <<queue, open, over>>

Start ==
  /\ queue # <<>>
  /\ status' = [status EXCEPT ![Head(queue)] = "running"]
  /\ queue' = Tail(queue)
  /\ UNCHANGED <<open, over>>

Finish(t) ==
  /\ status[t] = "running"
  /\ status' = [status EXCEPT ![t] = "done"]
  /\ UNCHANGED <<queue, open, over>>

Close ==
  /\ open
  /\ queue = <<>>
  /\ open' = FALSE
  /\ UNCHANGED <<status, queue, over>>

Return ==
  /\ ~open
  /\ \A t \in Tasks : status[t] \notin {"queued", "running"}
  /\ over' = TRUE
  /\ UNCHANGED <<status, queue, open>>

Next ==
  \/ \E t \in Tasks : Accept(t) \/ Refuse(t) \/ Finish(t)
  \/ Start
  \/ Close
  \/ Return

Spec == Init /\ [][Next]_vars
=============================================================================
