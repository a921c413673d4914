------------------------------- MODULE ArrayQueue -----------------------------
(***************************************************************************)
(* java-solutions/queue: AbstractQueue over the circular array of          *)
(* ArrayQueue, which doubles when it is full.  ArrayQueueADT and           *)
(* ArrayQueueModule are the same code without distinct.                    *)
(***************************************************************************)
EXTENDS Integers, FiniteSets

CONSTANTS
  Elements, Null,
  MaxSize        \* bound: elements in the queue

VARIABLES
  elements,      \* the array: a function from 0 .. length - 1
  size, front, last,
  result         \* what dequeue returned, or an index, NoIndex for -1

queuevars == <<elements, size, front, last, result>>
NoIndex == -1

QueueInit ==
  /\ elements = [i \in {0} |-> Null]
  /\ size = 0 /\ front = 0 /\ last = -1 /\ result = 0

\* The four fields, so that distinct can call the operations in a loop
Fields == [a |-> elements, size |-> size, front |-> front, last |-> last]
Length(f) == Cardinality(DOMAIN f.a)
Become(f) == elements' = f.a /\ size' = f.size /\ front' = f.front /\ last' = f.last

Grow_FrontOnly(f) ==                \* mutant: the part before front is not copied
  LET n == Length(f)
  IN  [f EXCEPT !.a = [i \in 0 .. 2 * n - 1 |-> IF i < n - f.front THEN f.a[f.front + i] ELSE Null],
                !.front = 0, !.last = f.size - 1]

\* two calls of arraycopy: from front to the end, then tale elements from 0
ensureCapacity(f) ==
  LET n == Length(f)
      t == f.size - n + f.front
      tale == IF t < 0 THEN 0 ELSE t
      head == n - f.front
  IN  [f EXCEPT !.a = [i \in 0 .. 2 * n - 1 |->
                         IF i < head THEN f.a[f.front + i]
                         ELSE IF i < head + tale THEN f.a[i - head] ELSE Null],
                !.front = 0, !.last = f.size - 1]

Enqueued(f, e) ==
  LET g == IF f.size = Length(f) THEN ensureCapacity(f) ELSE f
      at == (g.last + 1) % Length(g)
  IN  [g EXCEPT !.a[at] = e, !.last = at, !.size = @ + 1]
Dequeued(f) == [f EXCEPT !.a[f.front] = Null, !.front = (@ + 1) % Length(f), !.size = @ - 1]

enqueue(e) == size < MaxSize /\ Become(Enqueued(Fields, e)) /\ UNCHANGED result
dequeue == size > 0 /\ result' = elements[front] /\ Become(Dequeued(Fields))
clear == Become([a |-> [i \in {0} |-> Null], size |-> 0, front |-> 0, last |-> -1]) /\ UNCHANGED result

\* One round of distinct's loop: dequeue, and enqueue of a value that is not
\* in the set yet
round(s) ==
  LET e == s.f.a[s.f.front]
  IN  IF e \in s.set THEN [s EXCEPT !.f = Dequeued(s.f)]
      ELSE [f |-> Enqueued(Dequeued(s.f), e), set |-> s.set \union {e}]

\* the fields and the set after i rounds
rounds[i \in 0 .. size] == IF i = 0 THEN [f |-> Fields, set |-> {}] ELSE round(rounds[i - 1])

distinct == Become(rounds[size].f) /\ UNCHANGED result

\* indexIf and lastIndexIf walk from front to newEnd, with a predicate "= e"
Matches(e) ==
  LET newEnd == IF last < front THEN size + front - 1 ELSE last
  IN  {i \in front .. newEnd : elements[i % Length(Fields)] # Null /\ elements[i % Length(Fields)] = e}
Found(S, best) == result' = IF S = {} THEN NoIndex ELSE best - front
indexIf(e)     == Found(Matches(e), CHOOSE i \in Matches(e) : \A j \in Matches(e) : i <= j) /\ UNCHANGED <<elements, size, front, last>>
lastIndexIf(e) == Found(Matches(e), CHOOSE i \in Matches(e) : \A j \in Matches(e) : i >= j) /\ UNCHANGED <<elements, size, front, last>>

QueueNext == dequeue \/ clear \/ distinct \/ \E e \in Elements : enqueue(e) \/ indexIf(e) \/ lastIndexIf(e)

\* a[1] .. a[n]
Contents == [i \in 1 .. size |-> elements[(front + i - 1) % Length(Fields)]]
===============================================================================
