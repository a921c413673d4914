---------------------------- MODULE WaitGroupProofs ---------------------------
(***************************************************************************)
(* Theorems about WaitGroup for any goroutines, deltas and number of calls. *)
(***************************************************************************)
EXTENDS WaitGroup, TLAPS

(***************************************************************************)
(* WaitSawZero needs what happens before the channel is copied: a Wait in  *)
(* progress while the counter is zero has seen it, and a copied channel    *)
(* that is not wg.wait was closed at a zero this Wait has seen.  That a new *)
(* channel is open needs that no channel of a later number is closed.      *)
(***************************************************************************)
SeenNow == \A g \in Goroutines : pc[g] \in WaitLocs /\ counter = 0 => sawZero[g]
Copied ==
  \A g \in Goroutines :
    pc[g] \in {"waitexit", "blocked"} => copy[g] \in 0 .. wait /\ (copy[g] # wait => sawZero[g])
Numbered == \A ch \in closed : ch <= wait
IInv == TypeOK /\ ChannelsMatchCounter /\ Numbered /\ SeenNow /\ Copied

LEMMA InitIInv == Init => IInv
<1> SUFFICES ASSUME Init PROVE IInv
  OBVIOUS
<1>1. TypeOK
  BY MaxOpsNat DEF Init, TypeOK, Locations
<1>2. ChannelsMatchCounter /\ Numbered
  BY DEF Init, ChannelsMatchCounter, Numbered
<1>3. SeenNow /\ Copied
  BY DEF Init, SeenNow, Copied, WaitLocs
<1> QED BY <1>1, <1>2, <1>3 DEF IInv

LEMMA NextIInv == IInv /\ [Next]_vars => IInv'
<1> SUFFICES ASSUME IInv, [Next]_vars PROVE IInv'
  OBVIOUS
<1> USE DEF IInv, Go, Locations, AddLocs, WaitLocs
<1>1. ASSUME NEW g \in Goroutines, CallAdd(g) PROVE IInv'
  <2>1. TypeOK'
    BY <1>1, DeltasInt DEF CallAdd, Spend, TypeOK
  <2> QED BY <1>1, <2>1 DEF CallAdd, TypeOK, ChannelsMatchCounter, Numbered, SeenNow, Copied
<1>2. ASSUME NEW g \in Goroutines, AddTake(g) \/ AddExit(g) \/ WaitTake(g) \/ WaitGive(g)
      PROVE  IInv'
  <2> USE DEF TakeMu, GiveMu, TypeOK, ChannelsMatchCounter, Numbered, SeenNow, Copied
  <2>1. CASE AddTake(g)
    BY <2>1 DEF AddTake
  <2>2. CASE AddExit(g)
    BY <2>2 DEF AddExit
  <2>3. CASE WaitTake(g)
    BY <2>3 DEF WaitTake
  <2>4. CASE WaitGive(g)
    BY <2>4 DEF WaitGive
  <2> QED BY <1>2, <2>1, <2>2, <2>3, <2>4
<1>3. ASSUME NEW g \in Goroutines, AddPanics(g) PROVE IInv'
  BY <1>3 DEF AddPanics, TypeOK, ChannelsMatchCounter, Numbered, SeenNow, Copied
<1>4. ASSUME NEW g \in Goroutines, AddCounts(g) PROVE IInv'
  <2>0. /\ counter \in Nat /\ counter' \in Nat /\ wait \in Nat /\ closed \subseteq Nat
        /\ \/ counter = 0 /\ counter' > 0 /\ wait' = wait + 1 /\ closed' = closed
           \/ counter > 0 /\ counter' = 0 /\ wait' = wait /\ closed' = closed \union {wait}
           \/ (counter = 0 <=> counter' = 0) /\ wait' = wait /\ closed' = closed
    <3>1. counter \in Nat /\ counter' \in Nat
      BY <1>4 DEF AddCounts, TypeOK
    <3>2. NewChannel(counter, counter')
      BY <1>4 DEF AddCounts
    <3> QED BY <3>1, <3>2 DEF NewChannel, TypeOK
  <2>1. TypeOK'
    <3>1. sawZero' \in [Goroutines -> BOOLEAN]
      BY <1>4, Zenon DEF AddCounts, TypeOK
    <3>2. wait' \in Nat
      BY <2>0
    <3>3. closed' \subseteq closed \union {wait}
      BY <2>0
    <3>4. closed' \subseteq Nat
      BY <2>0, <3>3
    <3> QED BY <1>4, <2>0, <3>1, <3>2, <3>4 DEF AddCounts, TypeOK
  <2>2. ChannelsMatchCounter' /\ Numbered'
    <3>1. CASE counter = 0 /\ counter' > 0 /\ wait' = wait + 1 /\ closed' = closed
      <4>1. wait \in closed /\ wait + 1 \notin closed
        BY <2>0, <3>1 DEF ChannelsMatchCounter, Numbered
      <4> QED BY <2>0, <3>1, <4>1 DEF ChannelsMatchCounter, Numbered
    <3>2. CASE counter > 0 /\ counter' = 0 /\ wait' = wait /\ closed' = closed \union {wait}
      BY <2>0, <3>2 DEF ChannelsMatchCounter, Numbered
    <3>3. CASE (counter = 0 <=> counter' = 0) /\ wait' = wait /\ closed' = closed
      BY <2>0, <3>3 DEF ChannelsMatchCounter, Numbered
    <3> QED BY <2>0, <3>1, <3>2, <3>3
  <2>3. SeenNow'
    BY <1>4 DEF AddCounts, TypeOK, SeenNow
  <2>4. Copied'
    BY <1>4, <2>0 DEF AddCounts, TypeOK, SeenNow, Copied
  <2> QED BY <2>1, <2>2, <2>3, <2>4
<1>5. ASSUME NEW g \in Goroutines, CallWait(g) PROVE IInv'
  <2>1. sawZero' \in [Goroutines -> BOOLEAN]
    BY <1>5, Zenon DEF CallWait, TypeOK
  <2>2. TypeOK'
    BY <1>5, <2>1 DEF CallWait, Spend, TypeOK
  <2>3. SeenNow' /\ Copied'
    BY <1>5 DEF CallWait, TypeOK, SeenNow, Copied
  <2> QED BY <1>5, <2>2, <2>3 DEF CallWait, ChannelsMatchCounter, Numbered
<1>6. ASSUME NEW g \in Goroutines, WaitCopy(g) PROVE IInv'
  BY <1>6 DEF WaitCopy, TypeOK, ChannelsMatchCounter, Numbered, SeenNow, Copied
<1>7. ASSUME NEW g \in Goroutines, WaitReturns(g) PROVE IInv'
  BY <1>7 DEF WaitReturns, TypeOK, ChannelsMatchCounter, Numbered, SeenNow, Copied
<1>8. CASE UNCHANGED vars
  BY <1>8 DEF vars, TypeOK, ChannelsMatchCounter, Numbered, SeenNow, Copied
<1> QED BY <1>1, <1>2, <1>3, <1>4, <1>5, <1>6, <1>7, <1>8 DEF Next, Step

LEMMA Invariance == Spec => []IInv
BY InitIInv, NextIInv, PTL DEF Spec

-------------------------------------------------------------------------------
(* The state keeps its type; the counter is a natural number.               *)
THEOREM TypeCorrect == Spec => []TypeOK
<1>1. IInv => TypeOK
  BY DEF IInv
<1> QED BY <1>1, Invariance, PTL

(* wg.wait is open exactly while the counter is positive, and no older      *)
(* channel is open.                                                         *)
THEOREM ChannelPerGeneration == Spec => []ChannelsMatchCounter
<1>1. IInv => ChannelsMatchCounter
  BY DEF IInv
<1> QED BY <1>1, Invariance, PTL

(* A Wait that may return has been in progress while the counter was zero.  *)
THEOREM NoSpuriousWakeup == Spec => []WaitSawZero
<1>1. IInv => WaitSawZero
  BY DEF IInv, TypeOK, ChannelsMatchCounter, Numbered, SeenNow, Copied, WaitSawZero, WaitLocs
<1> QED BY <1>1, Invariance, PTL
===============================================================================
