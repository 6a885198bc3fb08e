------------------------------- MODULE Places -------------------------------
(***************************************************************************)
(* Sequences described by the places of their elements: what Python's      *)
(* sorted, slices and comprehensions with a condition make of a list.      *)
(* What SequencesExt has for this is defined by recursion or choice of a   *)
(* whole sequence, which leaves proofs nothing to go by.                   *)
(***************************************************************************)
EXTENDS Integers, FiniteSets, SequencesExt

\* The first k elements, or all.
First(s, k) == SubSeq(s, 1, IF Len(s) < k THEN Len(s) ELSE k)

\* The elements of S, the heaviest first, in their own order where none is heavier.
Sorted(S, weight) ==
  LET Before(x, y) == weight[x] > weight[y] \/ (weight[x] = weight[y] /\ x < y)
  IN  [n \in 1..Cardinality(S) |-> CHOOSE x \in S : Cardinality({y \in S : Before(y, x)}) = n - 1]

\* All in their own order.
InOrder(S) == Sorted(S, [n \in S |-> 0])

\* What is at some of the places of s; where it passes a test.
At(s, places) == LET order == InOrder(places) IN [n \in DOMAIN order |-> s[order[n]]]
Where(s, Test(_)) == At(s, {n \in DOMAIN s : Test(s[n])})
=============================================================================
