---------------------------------- MODULE Memo --------------------------------
(***************************************************************************)
(* lectures/05-concurrency/memo1 .. memo4 and synconce: five caches of a   *)
(* slow function f.  memo1 is for one goroutine; memo2 holds its mutex     *)
(* while f runs; memo3 gives it back; memo4 puts an entry into the map     *)
(* first and lets the others wait for its ready channel; synconce puts an  *)
(* entry with a sync.Once into a sync.Map.  A result is the number of the  *)
(* call of f that made it.                                                 *)
(***************************************************************************)
EXTENDS Naturals, FiniteSets

CONSTANTS Getters, Keys, NoGetter

Versions == {"memo1", "memo2", "memo3", "memo4", "synconce"}

VARIABLES
  memo,     \* the version
  get,      \* goroutine -> where its Get is
  wants,    \* goroutine -> the key it asks for
  mu,       \* who holds the mutex while f runs (memo2)
  entries,  \* key -> "none", "made" (an entry without result) or "ready"
  cached,   \* key -> the result in the map
  calls,    \* how often f was called, for each key
  got       \* goroutine -> its result, 0 before it has one

memovars == <<memo, get, wants, mu, entries, cached, calls, got>>

MemoInit ==
  /\ memo \in Versions
  /\ wants \in [Getters -> Keys]
  /\ get = [g \in Getters |-> "look"]
  /\ mu = NoGetter
  /\ entries = [k \in Keys |-> "none"]
  /\ cached = [k \in Keys |-> 0] /\ calls = [k \in Keys |-> 0]
  /\ got = [g \in Getters |-> 0]

Step(g, from, to) == get[g] = from /\ get' = [get EXCEPT ![g] = to]

\* f(key) starts; it is slow
Call(g) == calls' = [calls EXCEPT ![wants[g]] = @ + 1]
\* the number this call of f has, kept in got until it is stored
Compute(g) == got' = [got EXCEPT ![g] = calls[wants[g]]]

\* memo1 is not for concurrent use: the next Get starts after the last
Alone(g) == \A h \in Getters \ {g} : get[h] \in {"look", "ended"}

\* memo1, memo2, memo3: the map holds the result
Hit(g) ==
  /\ memo \in {"memo1", "memo2", "memo3"} /\ mu = NoGetter
  /\ memo = "memo1" => Alone(g)
  /\ entries[wants[g]] = "ready" /\ Step(g, "look", "ended")
  /\ got' = [got EXCEPT ![g] = cached[wants[g]]]
  /\ UNCHANGED <<memo, wants, mu, entries, cached, calls>>

\* ... or not: f is called, by memo2 with the mutex
Miss(g) ==
  /\ memo \in {"memo1", "memo2", "memo3"} /\ mu = NoGetter
  /\ memo = "memo1" => Alone(g)
  /\ entries[wants[g]] = "none" /\ Step(g, "look", "f")
  /\ mu' = IF memo = "memo2" THEN g ELSE mu
  /\ Call(g) /\ got' = [got EXCEPT ![g] = calls'[wants[g]]]
  /\ UNCHANGED <<memo, wants, entries, cached>>

\* f has returned: the result goes into the map; memo3 takes the mutex again
Store(g) ==
  /\ memo \in {"memo1", "memo2", "memo3"} /\ mu \in {NoGetter, g}
  /\ Step(g, "f", "ended")
  /\ mu' = NoGetter
  /\ entries' = [entries EXCEPT ![wants[g]] = "ready"]
  /\ cached' = [cached EXCEPT ![wants[g]] = got[g]]
  /\ UNCHANGED <<memo, wants, calls, got>>

\* memo4, under the mutex: the first request makes the entry and calls f
Enter4(g) ==
  /\ memo = "memo4"
  /\ IF entries[wants[g]] = "none"
     THEN /\ Step(g, "look", "f") /\ Call(g)
          /\ entries' = [entries EXCEPT ![wants[g]] = "made"]
     ELSE Step(g, "look", "wait") /\ UNCHANGED <<entries, calls>>
  /\ UNCHANGED <<memo, wants, mu, cached, got>>

\* synconce: LoadOrStore leaves one entry per key, whoever comes first
LoadOrStore(g) ==
  /\ memo = "synconce" /\ Step(g, "look", "once")
  /\ entries' = [entries EXCEPT ![wants[g]] = IF @ = "none" THEN "made" ELSE @]
  /\ UNCHANGED <<memo, wants, mu, cached, calls, got>>

\* Do: the first to get here, not always the one that stored the entry
OnceDo(g) ==
  /\ memo = "synconce"
  /\ IF calls[wants[g]] = 0 THEN Step(g, "once", "f") /\ Call(g)
     ELSE Step(g, "once", "wait") /\ UNCHANGED calls
  /\ UNCHANGED <<memo, wants, mu, entries, cached, got>>

Ready_Never(g) ==                   \* mutant: close(e.ready) is missing
  /\ memo \in {"memo4", "synconce"} /\ Step(g, "f", "ended") /\ Compute(g)
  /\ cached' = [cached EXCEPT ![wants[g]] = calls[wants[g]]]
  /\ UNCHANGED <<memo, wants, mu, entries, calls>>

\* f returns: e.res is set and ready closed, or the Once done
Ready(g) ==
  /\ memo \in {"memo4", "synconce"} /\ Step(g, "f", "ended") /\ Compute(g)
  /\ cached' = [cached EXCEPT ![wants[g]] = calls[wants[g]]]
  /\ entries' = [entries EXCEPT ![wants[g]] = "ready"]
  /\ UNCHANGED <<memo, wants, mu, calls>>

\* <-e.ready, or Do that waits for the one that runs f
Await(g) ==
  /\ entries[wants[g]] = "ready" /\ Step(g, "wait", "ended")
  /\ got' = [got EXCEPT ![g] = cached[wants[g]]]
  /\ UNCHANGED <<memo, wants, mu, entries, cached, calls>>

GetMap(g) == Hit(g) \/ Miss(g) \/ Store(g)
Get4(g) == Enter4(g) \/ Ready(g) \/ Await(g)
GetOnce(g) == LoadOrStore(g) \/ OnceDo(g)
MemoNext == \E g \in Getters : GetMap(g) \/ Get4(g) \/ GetOnce(g)

-------------------------------------------------------------------------------
(* Every Get that has ended has a result f computed for its key; f runs once *)
(* per key, except in memo3, whose comment says that concurrent requests for *)
(* the same key duplicate the work; memo2 serialises all calls of f.         *)
MemoOnce ==
  /\ \A g \in Getters : get[g] = "ended" => got[g] \in 1 .. calls[wants[g]]
  /\ memo # "memo3" => \A k \in Keys : calls[k] <= 1
  /\ memo = "memo2" => Cardinality({g \in Getters : get[g] = "f"}) <= 1

(* Every Get returns.                                                        *)
MemoEnds == \A g \in Getters : get[g] = "ended"
===============================================================================
