----------------------------- MODULE KeyLockProofs ----------------------------
(***************************************************************************)
(* Theorems about KeyLock for any goroutines, keys and sets of keys.        *)
(***************************************************************************)
EXTENDS KeyLock, TLAPS

(***************************************************************************)
(* HoldersDisjoint needs that every holder's keys are in the map (or a      *)
(* second call would find them free) and that every key of the map has a   *)
(* holder only for the two other properties; the three together are        *)
(* inductive once a call is known to have no open channel while it tries.  *)
(***************************************************************************)
WaitsWhileWaiting == \A g \in Goroutines : pc[g] # "wait" => waits[g] = {}
IInv ==
  /\ TypeOK
  /\ HoldersDisjoint
  /\ LockedMeansHeld
  /\ WaitsForHolders
  /\ WaitsWhileWaiting

LEMMA InitIInv == Init => IInv
BY DEF Init, IInv, TypeOK, HoldersDisjoint, LockedMeansHeld, Holders,
                 WaitsForHolders, WaitsWhileWaiting

(* An unlock leaves the keys of the other holders locked.                   *)
LEMMA UnlockKeepsOthers ==
  ASSUME IInv, NEW g \in Holders, NEW h \in Holders, g # h
  PROVE  keys[h] \subseteq locks \ keys[g]
BY DEF IInv, HoldersDisjoint, LockedMeansHeld

LEMMA NextIInv == IInv /\ [Next]_vars => IInv'
<1> SUFFICES ASSUME IInv, [Next]_vars PROVE IInv'
  OBVIOUS
<1> USE DEF IInv, TypeOK, Go
<1>1. ASSUME NEW g \in Goroutines, CallLockKeys(g) PROVE IInv'
  <2>1. TypeOK'
    BY <1>1, KeySetsType DEF CallLockKeys
  <2>2. Holders' = Holders /\ \A h \in Holders : keys'[h] = keys[h]
    BY <1>1 DEF CallLockKeys, Holders
  <2>3. HoldersDisjoint' /\ LockedMeansHeld'
    BY <1>1, <2>2 DEF CallLockKeys, HoldersDisjoint, LockedMeansHeld
  <2>4. WaitsForHolders' /\ WaitsWhileWaiting'
    BY <1>1 DEF CallLockKeys, WaitsForHolders, WaitsWhileWaiting
  <2> QED BY <2>1, <2>3, <2>4
<1>2. ASSUME NEW g \in Goroutines, CloseCancel(g) PROVE IInv'
  BY <1>2 DEF CloseCancel, HoldersDisjoint, LockedMeansHeld, Holders, WaitsForHolders, WaitsWhileWaiting
<1>3. ASSUME NEW g \in Goroutines, LockAll(g) PROVE IInv'
  <2>1. TypeOK'
    BY <1>3 DEF LockAll
  <2>2. Holders' = Holders \union {g} /\ g \notin Holders /\ keys' = keys
    BY <1>3 DEF LockAll, Holders
  <2>3. locks' = locks \union keys[g] /\ keys[g] \intersect locks = {}
    BY <1>3 DEF LockAll, AllFree
  <2>4. LockedMeansHeld'
    BY <2>2, <2>3 DEF LockedMeansHeld
  <2>5. \A h \in Holders : keys[h] \intersect keys[g] = {}
    BY <2>3 DEF LockedMeansHeld
  <2>6. HoldersDisjoint'
    BY <2>2, <2>5 DEF HoldersDisjoint
  <2>7. WaitsForHolders' /\ WaitsWhileWaiting'
    BY <1>3 DEF LockAll, WaitsForHolders, WaitsWhileWaiting
  <2> QED BY <2>1, <2>4, <2>6, <2>7
<1>4. ASSUME NEW g \in Goroutines, Collect(g) \/ Retry(g) PROVE IInv'
  <2>1. Holders' = Holders /\ keys' = keys /\ locks' = locks
    BY <1>4 DEF Collect, Retry, Holders
  <2>2. HoldersDisjoint' /\ LockedMeansHeld'
    BY <2>1 DEF HoldersDisjoint, LockedMeansHeld
  <2>3. TypeOK' /\ WaitsForHolders' /\ WaitsWhileWaiting'
    BY <1>4 DEF Collect, Retry, AllClosed, WaitsForHolders, WaitsWhileWaiting
  <2> QED BY <2>2, <2>3
<1>5. ASSUME NEW g \in Goroutines, GiveUp(g) PROVE IInv'
  <2>1. Holders' = Holders /\ \A h \in Holders : keys'[h] = keys[h]
    BY <1>5 DEF GiveUp, Return, Holders
  <2>2. HoldersDisjoint' /\ LockedMeansHeld'
    BY <1>5, <2>1 DEF GiveUp, HoldersDisjoint, LockedMeansHeld
  <2>3. TypeOK' /\ WaitsForHolders' /\ WaitsWhileWaiting'
    BY <1>5 DEF GiveUp, Return, WaitsForHolders, WaitsWhileWaiting
  <2> QED BY <2>2, <2>3
<1>6. ASSUME NEW g \in Goroutines, Unlock(g) PROVE IInv'
  <2>1. TypeOK'
    BY <1>6 DEF Unlock, Return
  <2>2. g \in Holders /\ Holders' = Holders \ {g} /\ \A h \in Holders' : keys'[h] = keys[h]
    BY <1>6 DEF Unlock, Return, Holders
  <2>3. HoldersDisjoint'
    BY <2>2 DEF HoldersDisjoint
  <2>4. locks' = locks \ keys[g]
    BY <1>6 DEF Unlock
  <2>5. LockedMeansHeld'
    <3>1. \A k : k \in locks' <=> \E h \in Holders' : k \in keys'[h]
      BY <2>2, <2>4, UnlockKeepsOthers DEF LockedMeansHeld
    <3> QED BY <3>1 DEF LockedMeansHeld
  <2>6. WaitsForHolders' /\ WaitsWhileWaiting'
    <3>1. g \notin {h \in Goroutines : pc[h] = "wait"} /\ waits[g] = {}
      BY <1>6 DEF Unlock, WaitsWhileWaiting
    <3> QED BY <1>6, <3>1 DEF Unlock, Return, WaitsForHolders, WaitsWhileWaiting
  <2> QED BY <2>1, <2>3, <2>5, <2>6
<1>7. CASE UNCHANGED vars
  BY <1>7 DEF vars, HoldersDisjoint, LockedMeansHeld, Holders, WaitsForHolders, WaitsWhileWaiting
<1> QED BY <1>1, <1>2, <1>3, <1>4, <1>5, <1>6, <1>7 DEF Next, Step

LEMMA Invariance == Spec => []IInv
BY InitIInv, NextIInv, PTL DEF Spec

-------------------------------------------------------------------------------
(* The state keeps its type.                                                *)
THEOREM TypeCorrect == Spec => []TypeOK
<1>1. IInv => TypeOK
  BY DEF IInv
<1> QED BY <1>1, Invariance, PTL

(* Two goroutines in the critical section never have a key in common.       *)
THEOREM MutualExclusion == Spec => []HoldersDisjoint
<1>1. IInv => HoldersDisjoint
  BY DEF IInv
<1> QED BY <1>1, Invariance, PTL

(* The map has exactly the keys of the holders: locking is all or nothing.  *)
THEOREM AllOrNothing == Spec => []LockedMeansHeld
<1>1. IInv => LockedMeansHeld
  BY DEF IInv
<1> QED BY <1>1, Invariance, PTL

(* Every open channel a call waits for belongs to a key somebody holds.     *)
THEOREM NoLostWakeup == Spec => []WaitsForHolders
<1>1. IInv => WaitsForHolders
  BY DEF IInv
<1> QED BY <1>1, Invariance, PTL

(* A call is made to wait only by a holder with a common key.               *)
THEOREM BlockedByHolder == Spec => BlockedOnlyByHolder
<1>1. ASSUME IInv, [Next]_vars, NEW g \in Goroutines, pc[g] = "try", pc'[g] = "wait"
      PROVE  \E h \in Holders : keys[h] \intersect keys[g] # {}
  <2> USE <1>1 DEF IInv, TypeOK, Go
  <2>1. ASSUME NEW h \in Goroutines, Collect(h) PROVE ~AllFree(g)
    BY <2>1 DEF Collect
  <2>2. ASSUME NEW h \in Goroutines, CallLockKeys(h) \/ CloseCancel(h) \/ LockAll(h)
                                     \/ Retry(h) \/ GiveUp(h) \/ Unlock(h)
        PROVE  FALSE
    BY <2>2 DEF CallLockKeys, CloseCancel, LockAll, Retry, GiveUp, Unlock
  <2>3. ~AllFree(g)
    BY <2>1, <2>2 DEF Next, Step, vars
  <2> QED BY <2>3 DEF AllFree, LockedMeansHeld
<1>2. IInv /\ [Next]_vars => [\A g \in Goroutines :
                                pc[g] = "try" /\ pc'[g] = "wait" =>
                                  \E h \in Holders : keys[h] \intersect keys[g] # {}]_vars
  BY <1>1
<1> QED BY <1>2, Invariance, PTL DEF Spec, BlockedOnlyByHolder
===============================================================================
