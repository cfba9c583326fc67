------------------------------ MODULE MCTimer -------------------------------
(* Two delays are enough to order four timers in every way that matters to *)
(* their heap: equal, earlier and later than the parent.  MCLibrary checks *)
(* the module.                                                             *)
EXTENDS Timer, TLC

MCDelays == {1, 2}

-----------------------------------------------------------------------------
(* The heap methods call by call, as recursive functions of the vector and *)
(* the index.                                                              *)

Swap(s, i, j) == [s EXCEPT ![i] = s[j], ![j] = s[i]]

Vector == Seq([expiry : Nat, id : Nat])

RecursiveUp[s \in Vector, index \in Nat] ==
  LET parent == index \div 2 IN
  IF index > 1 /\ s[index].expiry < s[parent].expiry
    THEN RecursiveUp[Swap(s, index, parent), parent]
    ELSE s

RecursiveDown[s \in Vector, index \in Nat] ==
  LET left  == 2 * index
      right == 2 * index + 1
      l == IF left <= Len(s) /\ s[left].expiry < s[index].expiry THEN left ELSE index
      smallest == IF right <= Len(s) /\ s[right].expiry < s[l].expiry THEN right ELSE l
  IN  IF smallest # index THEN RecursiveDown[Swap(s, smallest, index), smallest] ELSE s

(* Every vector of a few timers, in any order.                             *)
Vectors ==
  UNION {{[i \in 1..n |-> [expiry |-> e[i], id |-> i]] : e \in [1..n -> 0..2]} : n \in 0..6}

(* What Sift does at once is what the recursive swaps do one after the     *)
(* other: sifting any timer of any of these vectors up or down leaves the  *)
(* vector that HeapifyUp and HeapifyDown of timer.h leave behind, also     *)
(* from the index past the end that Erase passes.                          *)
ASSUME SiftMeetsRecursion ==
  \A s \in Vectors :
    /\ \A index \in 1..Len(s) : HeapifyUp(s, index) = RecursiveUp[s, index]
    /\ \A index \in 1..(Len(s) + 1) : HeapifyDown(s, index) = RecursiveDown[s, index]
=============================================================================
