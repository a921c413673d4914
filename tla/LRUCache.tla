-------------------------------- MODULE LRUCache ------------------------------
(***************************************************************************)
(* lrucache: a list of elements, the longest unused in front, a map from   *)
(* the keys to them, and a pool the pairs of evicted keys go back to, to   *)
(* be filled anew.  Range calls f, which may call the cache again: it      *)
(* stands on an element, which f may move, evict or clear away.            *)
(***************************************************************************)
EXTENDS Naturals, Sequences, SequencesExt

CONSTANTS
  Keys, Values,
  Capacities,
  MaxCalls       \* bound: calls of Get, Set and Clear

VARIABLES
  capacity,
  list,          \* linkedList: its elements, which are numbers
  holds,         \* element -> its pair, a number; elements outside the list have theirs too
  heap,          \* pair -> [key, value]
  pairs,         \* key -> element
  pool,          \* the pairs in the pool
  cursor,        \* the element Range stands on, or 0
  stale,         \* the list Range walks along if it is not the cache's any more
  shown,         \* history: the pairs f was called with
  quiet,         \* history: f has not called the cache
  reply, calls

cachevars == <<capacity, list, holds, heap, pairs, pool, cursor, stale, shown, quiet, reply, calls>>
ranging == <<cursor, stale, shown>>

CacheInit ==
  /\ capacity \in Capacities
  /\ list = <<>> /\ holds = <<>> /\ heap = <<>> /\ pairs = [k \in {} |-> 0] /\ pool = {}
  /\ cursor = 0 /\ stale = <<>> /\ shown = <<>> /\ quiet = TRUE
  /\ reply = <<0, FALSE>> /\ calls = 0

Call == calls < MaxCalls /\ calls' = calls + 1 /\ quiet' = (quiet /\ cursor = 0) /\ UNCHANGED capacity
MoveToBack_Stays(e) == list      \* mutant: Get and Set leave the element where it is
MoveToBack(e) == Append(RemoveFirst(list, e), e)
Pair(e) == heap[holds[e]]

Get(k) ==
  /\ Call
  /\ reply' = IF k \in DOMAIN pairs THEN <<Pair(pairs[k]).value, TRUE>> ELSE <<0, FALSE>>
  /\ list' = IF k \in DOMAIN pairs THEN MoveToBack(pairs[k]) ELSE list
  /\ UNCHANGED <<holds, heap, pairs, pool, ranging>>

\* Set of a key that is there
Renew(k, v) ==
  /\ k \in DOMAIN pairs
  /\ heap' = [heap EXCEPT ![holds[pairs[k]]].value = v]
  /\ list' = MoveToBack(pairs[k])
  /\ UNCHANGED <<holds, pairs, pool>>

Evict_NoRemove(longer) ==        \* mutant: the oldest element stays in the list
  IF Len(longer) > capacity THEN [list |-> longer, gone |-> {longer[1]}] ELSE [list |-> longer, gone |-> {}]
\* the list after a PushBack, and the elements that are evicted
Evict(longer) ==
  IF Len(longer) > capacity THEN [list |-> Tail(longer), gone |-> {longer[1]}] ELSE [list |-> longer, gone |-> {}]

\* pool.Get gives any pair of the pool, or a new one: the pool may lose pairs
Insert(k, v) ==
  /\ k \notin DOMAIN pairs
  /\ \E p \in pool \union {Len(heap) + 1} :
       LET e == Len(holds) + 1
           after == Evict(Append(list, e))
           cells == [q \in 1 .. (IF p > Len(heap) THEN p ELSE Len(heap)) |-> IF q = p THEN [key |-> k, value |-> v] ELSE heap[q]]
           given == Append(holds, p)
           all == [j \in DOMAIN pairs \union {k} |-> IF j = k THEN e ELSE pairs[j]]
       IN  /\ heap' = cells /\ holds' = given /\ list' = after.list
           /\ pairs' = [j \in DOMAIN all \ {cells[given[x]].key : x \in after.gone} |-> all[j]]
           /\ pool' = (pool \ {p}) \union {given[x] : x \in after.gone}

Set(k, v) == Call /\ (Renew(k, v) \/ Insert(k, v)) /\ UNCHANGED <<reply, ranging>>

\* A new list: Range stays on the old one.
Clear ==
  /\ Call
  /\ pool' = pool \union {holds[e] : e \in ToSet(list)}
  /\ list' = <<>> /\ pairs' = [k \in {} |-> 0]
  /\ stale' = IF cursor # 0 /\ stale = <<>> THEN list ELSE stale
  /\ UNCHANGED <<holds, heap, cursor, shown, reply>>

StandOn(e) ==
  /\ cursor' = e
  /\ shown' = IF e = 0 THEN shown ELSE Append(shown, Pair(e))
  /\ UNCHANGED <<capacity, list, holds, heap, pairs, pool, reply, calls>>

\* An element that was removed has no next one.
After(e, l) == LET i == SelectInSeq(l, LAMBDA x : x = e) IN IF i = 0 \/ i = Len(l) THEN 0 ELSE l[i + 1]

RangeStart ==
  /\ cursor = 0 /\ list # <<>>
  /\ StandOn(list[1])
  /\ UNCHANGED <<stale, quiet>>

\* f has returned true
RangeNext ==
  /\ cursor # 0
  /\ LET e == After(cursor, IF stale = <<>> THEN list ELSE stale)
     IN  e # 0 /\ StandOn(e) /\ UNCHANGED <<stale, quiet>>

\* there is no next element, or f has returned false
RangeEnd ==
  /\ cursor # 0
  /\ cursor' = 0 /\ stale' = <<>> /\ shown' = <<>> /\ quiet' = TRUE
  /\ UNCHANGED <<capacity, list, holds, heap, pairs, pool, reply, calls>>

CacheNext == (\E k \in Keys : Get(k) \/ \E v \in Values : Set(k, v)) \/ Clear \/ RangeStart \/ RangeNext \/ RangeEnd

-------------------------------------------------------------------------------
\* the cache as the map and the order its interface speaks of
Order == [i \in DOMAIN list |-> Pair(list[i])]

(* A pair of the pool is not used by an element of the list, no two elements *)
(* share one, the map leads to the list and back, and the capacity holds;    *)
(* while f does not call the cache it sees the cache in its order.           *)
CacheSound ==
  /\ IsInjective(list) /\ Len(list) <= capacity
  /\ IsInjective([i \in DOMAIN list |-> holds[list[i]]])
  /\ pool \intersect {holds[e] : e \in ToSet(list)} = {}
  /\ DOMAIN pairs = {Pair(e).key : e \in ToSet(list)} /\ \A k \in DOMAIN pairs : Pair(pairs[k]).key = k
  /\ quiet => IsPrefix(shown, Order)

(* The next pair f is called with is one the cache has, unless f clears it.  *)
ShowsLive == cursor' \notin {0, cursor} /\ stale' = <<>> => \E k \in DOMAIN pairs : pairs[k] = cursor'
===============================================================================
