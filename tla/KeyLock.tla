-------------------------------- MODULE KeyLock -------------------------------
(***************************************************************************)
(* keylock.KeyLock: a map from the locked keys to channels, guarded by a   *)
(* mutex.  A call of LockKeys locks all of its keys or none; if one is     *)
(* taken it collects the channels of the taken ones, waits until all of    *)
(* them are closed, or until it is cancelled, and starts over.             *)
(*                                                                         *)
(* A channel is made when its key enters the map and closed when the key   *)
(* leaves it, both under the mutex, so the open channel of a key is named   *)
(* by the key: locks is the domain of the map, and waits[g] has the keys   *)
(* whose channel g collected and nobody has closed since.  What happens    *)
(* under the mutex is one action.  A list of keys is the set of its        *)
(* members: a repeated key is locked, waited for and unlocked once.        *)
(***************************************************************************)
EXTENDS Naturals

CONSTANTS
  Goroutines,   \* the callers
  Keys,         \* the strings that are locked
  KeySets       \* the sets of keys a caller may ask for

ASSUME KeySetsType == KeySets \subseteq SUBSET Keys

VARIABLES
  locks,    \* the keys of l.locks
  pc,       \* goroutine -> "idle", "try", "wait" or "held"
  keys,     \* goroutine -> the keys it passed
  cancel,   \* goroutine -> its cancel channel: "nil", "open" or "closed"
  waits     \* goroutine -> the collected channels that are still open

vars == <<locks, pc, keys, cancel, waits>>

Go(g, from, to) == pc[g] = from /\ pc' = [pc EXCEPT ![g] = to]

Init ==
  /\ locks = {}
  /\ pc = [g \in Goroutines |-> "idle"]
  /\ keys = [g \in Goroutines |-> {}]
  /\ cancel = [g \in Goroutines |-> "nil"]
  /\ waits = [g \in Goroutines |-> {}]

\* The cancel channel may be nil, or closed before the call.
CallLockKeys(g) ==
  /\ Go(g, "idle", "try")
  /\ \E ks \in KeySets, ch \in {"nil", "open", "closed"} :
       /\ keys' = [keys EXCEPT ![g] = ks]
       /\ cancel' = [cancel EXCEPT ![g] = ch]
  /\ UNCHANGED <<locks, waits>>

\* The caller's side closes the cancel channel while the call runs.
CloseCancel(g) ==
  /\ pc[g] \in {"try", "wait"}
  /\ cancel[g] = "open"
  /\ cancel' = [cancel EXCEPT ![g] = "closed"]
  /\ UNCHANGED <<locks, pc, keys, waits>>

AllFree_One(g) == ~(keys[g] \subseteq locks)   \* mutant: one free key is enough
AllFree(g) == keys[g] \intersect locks = {}

LockAll(g) ==
  /\ Go(g, "try", "held")
  /\ AllFree(g)
  /\ locks' = locks \union keys[g]
  /\ UNCHANGED <<keys, cancel, waits>>

Collect_NilToo(g) ==                \* mutant: the nil channels of free keys, too
  /\ Go(g, "try", "wait")
  /\ ~AllFree(g)
  /\ waits' = [waits EXCEPT ![g] = keys[g]]
  /\ UNCHANGED <<locks, keys, cancel>>

Collect(g) ==
  /\ Go(g, "try", "wait")
  /\ ~AllFree(g)
  /\ waits' = [waits EXCEPT ![g] = keys[g] \intersect locks]
  /\ UNCHANGED <<locks, keys, cancel>>

\* The goroutines of waitFunc, one per channel, are done and out is closed.
AllClosed(g) == waits[g] = {}

\* <-waitFunc(waitChans), and the recursive call
Retry(g) ==
  /\ Go(g, "wait", "try")
  /\ AllClosed(g)
  /\ UNCHANGED <<locks, keys, cancel, waits>>

Return(g) ==
  /\ keys' = [keys EXCEPT ![g] = {}]
  /\ cancel' = [cancel EXCEPT ![g] = "nil"]

GiveUp_Never(g) ==                  \* mutant: no case <-cancel
  /\ FALSE
  /\ UNCHANGED vars

\* <-cancel
GiveUp(g) ==
  /\ Go(g, "wait", "idle")
  /\ cancel[g] = "closed"
  /\ Return(g)
  /\ waits' = [waits EXCEPT ![g] = {}]
  /\ UNCHANGED locks

Unlock_NoClose(g) ==                \* mutant: delete without close
  /\ Go(g, "held", "idle")
  /\ locks' = locks \ keys[g]
  /\ Return(g)
  /\ UNCHANGED waits

Unlock_OneKey(g) ==                 \* mutant: return after the first key
  /\ Go(g, "held", "idle")
  /\ LET ks == IF keys[g] = {} THEN {} ELSE {CHOOSE k \in keys[g] : TRUE}
     IN  /\ locks' = locks \ ks
         /\ waits' = [h \in Goroutines |-> waits[h] \ ks]
  /\ Return(g)

\* the holder calls the function LockKeys returned
Unlock(g) ==
  /\ Go(g, "held", "idle")
  /\ locks' = locks \ keys[g]
  /\ waits' = [h \in Goroutines |-> waits[h] \ keys[g]]
  /\ Return(g)

Step(g) == LockAll(g) \/ Collect(g) \/ Retry(g) \/ GiveUp(g) \/ Unlock(g)

Next == \E g \in Goroutines : CallLockKeys(g) \/ CloseCancel(g) \/ Step(g)

(***************************************************************************)
(* A runnable goroutine is scheduled, the mutex is fair enough that nobody  *)
(* waits for it for ever, and a holder unlocks.  A select with several     *)
(* ready cases picks one at random, so a case that is ready again and      *)
(* again is picked in the end (strong fairness of GiveUp).                 *)
(***************************************************************************)
Fairness == \A g \in Goroutines : WF_vars(Step(g)) /\ SF_vars(GiveUp(g))

Spec == Init /\ [][Next]_vars
FairSpec == Spec /\ Fairness

-------------------------------------------------------------------------------
Holders == {g \in Goroutines : pc[g] = "held"}

TypeOK ==
  /\ locks \subseteq Keys
  /\ pc \in [Goroutines -> {"idle", "try", "wait", "held"}]
  /\ keys \in [Goroutines -> SUBSET Keys]
  /\ cancel \in [Goroutines -> {"nil", "open", "closed"}]
  /\ waits \in [Goroutines -> SUBSET Keys]

(* README: the sets of keys of the goroutines in the critical section are    *)
(* pairwise disjoint.                                                        *)
HoldersDisjoint ==
  \A g, h \in Holders : g # h => keys[g] \intersect keys[h] = {}

(* All or nothing: a key is in the map exactly when a holder asked for it.   *)
(* A call that waits, gave up or was unlocked has left no key behind.        *)
LockedMeansHeld == locks = UNION {keys[g] : g \in Holders}

(* No lost wakeup: a call waits only for channels of keys that somebody      *)
(* holds now, so each of them will be closed by an unlock.                   *)
WaitsForHolders ==
  \A g \in Goroutines : waits[g] \subseteq locks /\ waits[g] \subseteq keys[g]

(* README example and TestKeyLock_Progress: a call is made to wait only by   *)
(* a holder with a common key.                                               *)
BlockedOnlyByHolder ==
  [][\A g \in Goroutines :
       pc[g] = "try" /\ pc'[g] = "wait" =>
         \E h \in Holders : keys[h] \intersect keys[g] # {}]_vars

(* TestKeyLock_DeadlockFree: calls with overlapping keys, in whatever order, *)
(* all return once no new calls are made (while they are, a call for several *)
(* keys can be overtaken again and again).                                   *)
CallsStop == <>[][\A g \in Goroutines : ~CallLockKeys(g)]_vars
CallsReturn ==
  CallsStop => \A g \in Goroutines : pc[g] \in {"try", "wait"} ~> pc[g] \in {"idle", "held"}

(* README: a cancelled call does not wait for ever, even if the others go on *)
(* locking and unlocking its keys.                                           *)
CancelReturns ==
  \A g \in Goroutines :
    pc[g] \in {"try", "wait"} /\ cancel[g] = "closed" ~> pc[g] \in {"idle", "held"}

(* The comment on LockKeys in the README: "If cancel channel is closed,      *)
(* function stops trying to lock received keys".                             *)
NoLockAfterCancel ==
  [][\A g \in Goroutines :
       pc[g] = "try" /\ cancel[g] = "closed" => pc'[g] # "held"]_vars
===============================================================================
