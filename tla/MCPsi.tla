------------------------------- MODULE MCPsi -------------------------------
(***************************************************************************)
(* PsiProtocol with three parties, two elements each, three bins.          *)
(*                                                                         *)
(* Elements 1 and 2 have the same value and differ in their addresses; the *)
(* address functions are chosen so that a bin is an address of several     *)
(* elements by different hash functions, an element has the same address   *)
(* twice (a dummy at the followers), and, in the last one, an insertion    *)
(* can fail.  A bin has one slot: two elements of a follower in one bin    *)
(* overfill it.                                                            *)
(***************************************************************************)
EXTENDS PsiProtocol

MCKey == 1 .. 3
MCValue == <<1, 1, 2>>
Addr(a, b, c) == [j \in HF |-> <<a, b, c>>[j + 1]]
MCHashings ==
  {<<Addr(0, 1, 2), Addr(1, 0, 0), Addr(2, 2, 0)>>,
   <<Addr(0, 0, 0), Addr(1, 1, 1), Addr(0, 0, 0)>>}

\* Party 3 has its elements in the other order.
MCEleIndex == [p \in Followers |-> [k \in Key |-> IF p = 3 THEN 10 - k ELSE k]]

(***************************************************************************)
(* Two parties, three elements each, four bins: the check threads get      *)
(* unequal parts, and an eviction can fail or succeed.  In the last one    *)
(* elements 1 and 3 both have their dummy in the bin where the leader may  *)
(* hold element 4.                                                         *)
(***************************************************************************)
MCKeyTwo == 1 .. 4
MCValueTwo == <<1, 1, 2, 3>>
MCHashingsTwo ==
  {<<Addr(0, 1, 2), Addr(1, 0, 3), Addr(2, 2, 0), Addr(3, 1, 1)>>,
   <<Addr(0, 0, 1), Addr(1, 1, 0), Addr(0, 0, 1), Addr(1, 1, 0)>>,
   <<Addr(1, 2, 1), Addr(2, 1, 2), Addr(2, 1, 2), Addr(1, 2, 1)>>,
   <<Addr(1, 1, 2), Addr(0, 2, 3), Addr(1, 1, 0), Addr(0, 1, 3)>>}
=============================================================================
