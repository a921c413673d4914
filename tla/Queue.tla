---------------------------------- MODULE Queue -------------------------------
(***************************************************************************)
(* A queue, first in, first out: what the comments in ArrayQueue.java      *)
(* promise, those of its earlier text (5-7, 19-21, 31-34: dequeue returns  *)
(* a[0]) and those of the two searches (182-183, 203-204); and distinct,   *)
(* which leaves the first of equal elements.  The comments of the          *)
(* interface, Queue.java:11-18, make dequeue return the last element       *)
(* instead: no implementation does (Data!DequeueAsDocumented).             *)
(***************************************************************************)
EXTENDS Integers, Sequences, FiniteSetsExt

CONSTANT Elements

VARIABLES q, result    \* result: what dequeue returned, or an index, or NoIndex

NoIndex == -1
Indices(e) == {i \in DOMAIN q : q[i] = e}

enqueue(e) == q' = Append(q, e) /\ UNCHANGED result
dequeue    == q # <<>> /\ result' = Head(q) /\ q' = Tail(q)
clear      == q' = <<>> /\ UNCHANGED result

\* the smallest and the largest k with a[k] = e, counted from 0
indexIf(e)     == UNCHANGED q /\ result' = IF Indices(e) = {} THEN NoIndex ELSE Min(Indices(e)) - 1
lastIndexIf(e) == UNCHANGED q /\ result' = IF Indices(e) = {} THEN NoIndex ELSE Max(Indices(e)) - 1

\* the first of equal elements stay, in their order
distinct ==
  LET firsts == {i \in DOMAIN q : \A j \in 1 .. i - 1 : q[j] # q[i]}
  IN  /\ q' \in Seq(Elements) /\ Len(q') = Cardinality(firsts)
      /\ \A i \in firsts : q'[Cardinality(firsts \intersect (1 .. i))] = q[i]
      /\ UNCHANGED result

Init == q = <<>> /\ result = 0
Next == dequeue \/ clear \/ distinct \/ \E e \in Elements : enqueue(e) \/ indexIf(e) \/ lastIndexIf(e)
===============================================================================
