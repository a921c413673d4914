----------------------------------- MODULE LRU --------------------------------
(***************************************************************************)
(* What lrucache promises: a map of at most capacity keys that forgets the *)
(* key whose last Get or Set is the oldest.                                *)
(***************************************************************************)
EXTENDS Naturals, Sequences

CONSTANTS Keys, Values

VARIABLES
  capacity,
  order,     \* the entries [key, value], the longest unused first
  reply      \* what the last Get returned: <<value, ok>>

Has(k) == \E i \in DOMAIN order : order[i].key = k
Place(k) == CHOOSE i \in DOMAIN order : order[i].key = k
ValueOf(k) == order[Place(k)].value
Without(k) ==
  IF Has(k) THEN SubSeq(order, 1, Place(k) - 1) \o SubSeq(order, Place(k) + 1, Len(order)) ELSE order

Get(k) ==
  /\ reply' = IF Has(k) THEN <<ValueOf(k), TRUE>> ELSE <<0, FALSE>>
  /\ order' = IF Has(k) THEN Append(Without(k), [key |-> k, value |-> ValueOf(k)]) ELSE order

Set(k, v) ==
  LET longer == Append(Without(k), [key |-> k, value |-> v])
  IN  /\ order' = IF Len(longer) > capacity THEN Tail(longer) ELSE longer
      /\ UNCHANGED reply

Clear == order' = <<>> /\ UNCHANGED reply

Init == order = <<>> /\ reply = <<0, FALSE>>
Next ==
  /\ UNCHANGED capacity
  /\ Clear \/ \E k \in Keys : Get(k) \/ \E v \in Values : Set(k, v)
===============================================================================
