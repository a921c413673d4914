----------------------------- MODULE RWMutexProofs -----------------------------
(***************************************************************************)
(* Theorems about RWMutex for any finite set of goroutines.  TLC checks the *)
(* same properties for three (RWMutex.cfg).                                 *)
(***************************************************************************)
EXTENDS RWMutex, FiniteSetTheorems, TLAPS

(***************************************************************************)
(* The inductive invariant.  TokensAccounted alone is not inductive: that  *)
(* the receive of RUnlock takes the group's token needs count = 0 there,   *)
(* and that the gate holder is alone needs the two sets to be singletons.  *)
(***************************************************************************)
OneAt(S) == \A g, h \in S : g = h
GateToken == OneAt(GateHolders) /\ (readMutex = 1 <=> GateHolders # {})
ZeroWhere == \A g \in Goroutines : pc[g] \in {"rsend", "urecv"} => count = 0
IInv ==
  /\ TypeOK
  /\ GateToken
  /\ CountAccounted
  /\ OneAt(WriteHolders)
  /\ WriteAccounted
  /\ ZeroWhere

-------------------------------------------------------------------------------
LEMMA InitIInv == Init => IInv
<1> SUFFICES ASSUME Init PROVE IInv
  OBVIOUS
<1>1. Counted = {} /\ GateHolders = {} /\ WriteHolders = {}
  BY DEF Init, Counted, GateHolders, WriteHolders, AtAny, ReadGated, UnreadGated
<1>2. CountAccounted
  BY <1>1, FS_EmptySet DEF CountAccounted, Init
<1>3. TypeOK
  BY DEF Init, TypeOK, Locations
<1>4. WriteAccounted /\ ZeroWhere /\ GateToken /\ OneAt(WriteHolders)
  BY <1>1 DEF Init, WriteAccounted, GroupOwns, AtAny, ZeroWhere, GateToken, OneAt
<1> QED BY <1>2, <1>3, <1>4 DEF IInv

(* Counted is a set of goroutines, so it has a size. *)
LEMMA CountedFinite == IsFiniteSet(Counted) /\ Cardinality(Counted) \in Nat
<1>1. Counted \subseteq Goroutines
  BY DEF Counted, AtAny
<1> QED BY <1>1, GoroutinesFinite, FS_Subset, FS_CardinalityType

(* count is a natural number, positive exactly when a reader is counted.   *)
LEMMA CountFacts ==
  ASSUME TypeOK, CountAccounted
  PROVE  /\ count \in Nat
         /\ count > 0 <=> Counted # {}
<1>1. count \in Nat
  BY CountedFinite DEF CountAccounted
<1>2. count = 0 <=> Counted = {}
  BY CountedFinite, FS_EmptySet DEF CountAccounted
<1> QED BY <1>1, <1>2

(* The properties the lock is about follow from the inductive invariant.   *)
LEMMA IInvSafe ==
  IInv => WriterExcludesAll /\ ReadersAdmitReaders /\ ReleaseNeverBlocks
<1> SUFFICES ASSUME IInv
             PROVE  WriterExcludesAll /\ ReadersAdmitReaders /\ ReleaseNeverBlocks
  OBVIOUS
<1>1. count \in Nat /\ (count > 0 <=> Counted # {})
  BY CountFacts DEF IInv
<1>2. ReadHolders \subseteq Counted
  BY DEF ReadHolders, Counted, AtAny
<1>3. WriterExcludesAll
  BY <1>1, <1>2 DEF IInv, WriterExcludesAll, WriteAccounted, GroupOwns, OneAt
<1>4. ReadersAdmitReaders
  BY <1>1, <1>2 DEF IInv, ReadersAdmitReaders, ZeroWhere, AtAny
<1>5. ReleaseNeverBlocks
  <2> SUFFICES ASSUME NEW g \in Goroutines
               PROVE  /\ pc[g] \in {"writing", "urecv"} => writeMutex = 1
                      /\ pc[g] \in {"rleave", "uleave"} => readMutex = 1
    BY DEF ReleaseNeverBlocks, CanRecv
  <2>1. pc[g] = "writing" => writeMutex = 1
    BY DEF IInv, WriteAccounted, WriteHolders, AtAny
  <2>2. pc[g] = "urecv" => writeMutex = 1
    BY DEF IInv, WriteAccounted, GroupOwns, AtAny
  <2>3. pc[g] \in {"rleave", "uleave"} => readMutex = 1
    BY DEF IInv, GateToken, GateHolders, ReadGated, UnreadGated, AtAny
  <2> QED BY <2>1, <2>2, <2>3
<1> QED BY <1>3, <1>4, <1>5

-------------------------------------------------------------------------------
(* Preservation, one lemma per part of IInv.                               *)
LEMMA NextTypeOK == IInv /\ [Next]_vars => TypeOK'
<1> SUFFICES ASSUME IInv, [Next]_vars PROVE TypeOK'
  OBVIOUS
<1> USE DEF IInv, TypeOK, Go, Locations, ReadGated, UnreadGated, CanSend, CanRecv
<1>1. ASSUME NEW g \in Goroutines, CallLock(g) \/ CallRLock(g) PROVE TypeOK'
  BY <1>1 DEF CallLock, CallRLock, Call
<1>2. ASSUME NEW g \in Goroutines, Lock(g) \/ Unlock(g) PROVE TypeOK'
  BY <1>2 DEF Lock, Unlock
<1>3. ASSUME NEW g \in Goroutines,
             RLockGate(g) \/ RLockTest(g) \/ RLockTakeWrite(g) \/ RLockCount(g) \/ RLockLeave(g)
      PROVE  TypeOK'
  BY <1>3 DEF RLockGate, RLockTest, RLockTakeWrite, RLockCount, RLockLeave
<1>4. ASSUME NEW g \in Goroutines,
             CallRUnlock(g) \/ RUnlockGate(g) \/ RUnlockCount(g) \/ RUnlockTest(g)
             \/ RUnlockGiveWrite(g) \/ RUnlockLeave(g)
      PROVE  TypeOK'
  BY <1>4 DEF CallRUnlock, RUnlockGate, RUnlockCount, RUnlockTest, RUnlockGiveWrite, RUnlockLeave
<1>5. CASE UNCHANGED vars
  BY <1>5 DEF vars
<1> QED BY <1>1, <1>2, <1>3, <1>4, <1>5 DEF Next, Step

LEMMA NextGateToken == IInv /\ [Next]_vars => GateToken'
<1> SUFFICES ASSUME IInv, [Next]_vars PROVE GateToken'
  OBVIOUS
<1> USE DEF IInv, GateToken, OneAt, GateHolders, AtAny, Go, TypeOK, ReadGated, UnreadGated,
            CanSend, CanRecv
<1>1. ASSUME NEW g \in Goroutines, RLockGate(g) \/ RUnlockGate(g) PROVE GateToken'
  BY <1>1 DEF RLockGate, RUnlockGate
<1>2. ASSUME NEW g \in Goroutines, RLockLeave(g) \/ RUnlockLeave(g) PROVE GateToken'
  BY <1>2 DEF RLockLeave, RUnlockLeave
<1>3. ASSUME NEW g \in Goroutines,
             RLockTest(g) \/ RLockTakeWrite(g) \/ RLockCount(g)
             \/ RUnlockCount(g) \/ RUnlockTest(g) \/ RUnlockGiveWrite(g)
      PROVE  GateToken'
  BY <1>3 DEF RLockTest, RLockTakeWrite, RLockCount, RUnlockCount, RUnlockTest, RUnlockGiveWrite
<1>4. ASSUME NEW g \in Goroutines,
             CallLock(g) \/ CallRLock(g) \/ Lock(g) \/ Unlock(g) \/ CallRUnlock(g)
      PROVE  GateToken'
  BY <1>4 DEF CallLock, CallRLock, Call, Lock, Unlock, CallRUnlock
<1>5. CASE UNCHANGED vars
  BY <1>5 DEF vars
<1> QED BY <1>1, <1>2, <1>3, <1>4, <1>5 DEF Next, Step

LEMMA NextCountAccounted == IInv /\ [Next]_vars => CountAccounted'
<1> SUFFICES ASSUME IInv, [Next]_vars PROVE CountAccounted'
  OBVIOUS
<1>1. ASSUME NEW g \in Goroutines, RLockCount(g) PROVE CountAccounted'
  <2>1. Counted' = Counted \union {g} /\ g \notin Counted
    BY <1>1 DEF RLockCount, Go, Counted, AtAny, IInv, TypeOK
  <2> QED BY <2>1, <1>1, CountedFinite, FS_AddElement DEF CountAccounted, RLockCount, IInv
<1>2. ASSUME NEW g \in Goroutines, RUnlockCount(g) PROVE CountAccounted'
  <2>1. Counted' = Counted \ {g} /\ g \in Counted
    BY <1>2 DEF RUnlockCount, Go, Counted, AtAny, IInv, TypeOK
  <2> QED BY <2>1, <1>2, CountedFinite, FS_RemoveElement DEF CountAccounted, RUnlockCount, IInv
<1>3. ASSUME Counted' = Counted, count' = count PROVE CountAccounted'
  BY <1>3 DEF CountAccounted, IInv
<1> USE DEF IInv, TypeOK, Counted, AtAny, Go
<1>4. ASSUME NEW g \in Goroutines,
             CallLock(g) \/ CallRLock(g) \/ Lock(g) \/ Unlock(g)
      PROVE  Counted' = Counted /\ count' = count
  BY <1>4 DEF CallLock, CallRLock, Call, Lock, Unlock
<1>5. ASSUME NEW g \in Goroutines,
             RLockGate(g) \/ RLockTest(g) \/ RLockTakeWrite(g) \/ RLockLeave(g)
      PROVE  Counted' = Counted /\ count' = count
  BY <1>5 DEF RLockGate, RLockTest, RLockTakeWrite, RLockLeave
<1>6. ASSUME NEW g \in Goroutines,
             CallRUnlock(g) \/ RUnlockGate(g) \/ RUnlockTest(g)
             \/ RUnlockGiveWrite(g) \/ RUnlockLeave(g)
      PROVE  Counted' = Counted /\ count' = count
  BY <1>6 DEF CallRUnlock, RUnlockGate, RUnlockTest, RUnlockGiveWrite, RUnlockLeave
<1>7. CASE UNCHANGED vars
  BY <1>7, <1>3 DEF vars
<1> QED BY <1>1, <1>2, <1>3, <1>4, <1>5, <1>6, <1>7 DEF Next, Step

(***************************************************************************)
(* The write token.  The steps that touch it are Lock, Unlock,             *)
(* RLockTakeWrite and RUnlockGiveWrite; the steps that move a reader into   *)
(* or out of the group are RLockTest, RLockCount, RUnlockCount and         *)
(* RUnlockTest.                                                            *)
(***************************************************************************)
WriteInv == OneAt(WriteHolders) /\ WriteAccounted /\ ZeroWhere

LEMMA NextWriteInv == IInv /\ [Next]_vars => WriteInv'
<1> SUFFICES ASSUME IInv, [Next]_vars PROVE WriteInv'
  OBVIOUS
<1>0. count \in Nat /\ (count > 0 <=> Counted # {})
  BY CountFacts DEF IInv
<1> USE <1>0 DEF IInv, WriteInv, OneAt, WriteAccounted, GroupOwns, ZeroWhere, WriteHolders,
                 GateToken, GateHolders, ReadGated, UnreadGated, AtAny, Go, TypeOK, CanSend, CanRecv
<1>1. ASSUME NEW g \in Goroutines, Lock(g) PROVE WriteInv'
  BY <1>1 DEF Lock
<1>2. ASSUME NEW g \in Goroutines, Unlock(g) PROVE WriteInv'
  BY <1>2 DEF Unlock
<1>3. ASSUME NEW g \in Goroutines, RLockTest(g) PROVE WriteInv'
  BY <1>3 DEF RLockTest
<1>4. ASSUME NEW g \in Goroutines, RLockTakeWrite(g) PROVE WriteInv'
  BY <1>4 DEF RLockTakeWrite
<1>5. ASSUME NEW g \in Goroutines, RLockCount(g) PROVE WriteInv'
  BY <1>5 DEF RLockCount
<1>6. ASSUME NEW g \in Goroutines, RUnlockCount(g) PROVE WriteInv'
  BY <1>6 DEF RUnlockCount, Counted
<1>7. ASSUME NEW g \in Goroutines, RUnlockTest(g) PROVE WriteInv'
  BY <1>7 DEF RUnlockTest
<1>8. ASSUME NEW g \in Goroutines, RUnlockGiveWrite(g) PROVE WriteInv'
  BY <1>8 DEF RUnlockGiveWrite
<1>9. ASSUME NEW g \in Goroutines, CallLock(g) \/ CallRLock(g) \/ CallRUnlock(g) PROVE WriteInv'
  BY <1>9 DEF CallLock, CallRLock, Call, CallRUnlock
<1>10. ASSUME NEW g \in Goroutines,
              RLockGate(g) \/ RLockLeave(g) \/ RUnlockGate(g) \/ RUnlockLeave(g)
       PROVE  WriteInv'
  BY <1>10 DEF RLockGate, RLockLeave, RUnlockGate, RUnlockLeave
<1>11. CASE UNCHANGED vars
  BY <1>11 DEF vars
<1> QED BY <1>1, <1>2, <1>3, <1>4, <1>5, <1>6, <1>7, <1>8, <1>9, <1>10, <1>11
        DEF Next, Step

LEMMA Invariance == Spec => []IInv
<1>1. IInv /\ [Next]_vars => IInv'
  BY NextTypeOK, NextGateToken, NextCountAccounted, NextWriteInv DEF IInv, WriteInv
<1> QED BY <1>1, InitIInv, PTL DEF Spec

-------------------------------------------------------------------------------
(* Every variable keeps its type; in particular neither channel of capacity *)
(* one ever holds a second token.                                           *)
THEOREM TypeCorrect == Spec => []TypeOK
<1>1. IInv => TypeOK
  BY DEF IInv
<1> QED BY <1>1, Invariance, PTL

(* A writer excludes every other writer and every reader.                   *)
THEOREM MutualExclusion == Spec => []WriterExcludesAll
BY Invariance, IInvSafe, PTL

(* A reader never waits for the write token while another reader reads.     *)
THEOREM SharedReading == Spec => []ReadersAdmitReaders
BY Invariance, IInvSafe, PTL

(* No receive of an unlock path ever blocks.                                *)
THEOREM ReleasesDoNotBlock == Spec => []ReleaseNeverBlocks
BY Invariance, IInvSafe, PTL

(* Gate token, counter and write token are accounted for in every state.    *)
THEOREM TokenAccounting == Spec => []TokensAccounted
<1>1. ASSUME IInv PROVE GateAccounted
  <2> USE <1>1
  <2>1. CASE GateHolders = {}
    BY <2>1, FS_EmptySet DEF IInv, GateToken, GateAccounted, TypeOK
  <2>2. CASE GateHolders # {}
    <3>1. PICK g \in GateHolders : TRUE
      BY <2>2
    <3>2. GateHolders = {g}
      BY <3>1 DEF IInv, GateToken, OneAt
    <3>3. Cardinality({g}) = 1
      BY FS_Singleton
    <3> QED BY <2>2, <3>2, <3>3 DEF IInv, GateToken, GateAccounted
  <2> QED BY <2>1, <2>2
<1>2. IInv => TokensAccounted
  BY <1>1 DEF IInv, TokensAccounted
<1> QED BY <1>2, Invariance, PTL

-------------------------------------------------------------------------------
(* Every step is a step of the abstract lock or leaves its state alone.     *)
LEMMA StepRefines == IInv /\ [Next]_vars => [Abstract!Next]_Abstract!vars
<1> SUFFICES ASSUME IInv, [Next]_vars PROVE [Abstract!Next]_Abstract!vars
  OBVIOUS
<1>0. count \in Nat /\ (count > 0 <=> Counted # {})
  BY CountFacts DEF IInv
<1> USE DEF IInv, TypeOK, ReadHolders, WriteHolders, AtAny, Go
<1>1. ASSUME NEW g \in Goroutines, Lock(g) PROVE Abstract!Write(g)
  <2>1. WriteHolders = {} /\ ~GroupOwns
    BY <1>1 DEF Lock, CanSend, WriteAccounted
  <2>2. ReadHolders = {}
    BY <2>1, <1>0 DEF GroupOwns, Counted
  <2>3. WriteHolders' = {g} /\ ReadHolders' = ReadHolders
    BY <1>1, <2>1 DEF Lock
  <2> QED BY <2>1, <2>2, <2>3 DEF Abstract!Write
<1>2. ASSUME NEW g \in Goroutines, Unlock(g) PROVE Abstract!WriteDone(g)
  BY <1>2 DEF Unlock, Abstract!WriteDone
<1>3. ASSUME NEW g \in Goroutines, RLockLeave(g) PROVE Abstract!Read(g)
  <2>1. WriteHolders = {}
    BY <1>0, <1>3 DEF RLockLeave, Counted, GroupOwns, WriteAccounted
  <2>2. g \notin ReadHolders /\ ReadHolders' = ReadHolders \union {g} /\ WriteHolders' = WriteHolders
    BY <1>3 DEF RLockLeave
  <2> QED BY <2>1, <2>2 DEF Abstract!Read
<1>4. ASSUME NEW g \in Goroutines, CallRUnlock(g) PROVE Abstract!ReadDone(g)
  BY <1>4 DEF CallRUnlock, Abstract!ReadDone
<1>5. ASSUME NEW g \in Goroutines, CallLock(g) \/ CallRLock(g) PROVE UNCHANGED Abstract!vars
  BY <1>5 DEF CallLock, CallRLock, Call, Abstract!vars
<1>6. ASSUME NEW g \in Goroutines,
             RLockGate(g) \/ RLockTest(g) \/ RLockTakeWrite(g) \/ RLockCount(g)
      PROVE  UNCHANGED Abstract!vars
  BY <1>6 DEF RLockGate, RLockTest, RLockTakeWrite, RLockCount, Abstract!vars
<1>7. ASSUME NEW g \in Goroutines,
             RUnlockGate(g) \/ RUnlockCount(g) \/ RUnlockTest(g)
             \/ RUnlockGiveWrite(g) \/ RUnlockLeave(g)
      PROVE  UNCHANGED Abstract!vars
  BY <1>7 DEF RUnlockGate, RUnlockCount, RUnlockTest, RUnlockGiveWrite, RUnlockLeave, Abstract!vars
<1>8. CASE UNCHANGED vars
  BY <1>8 DEF vars, Abstract!vars
<1> QED BY <1>1, <1>2, <1>3, <1>4, <1>5, <1>6, <1>7, <1>8
        DEF Next, Step, Abstract!Next

(* RWMutex implements the abstract reader/writer lock.                      *)
THEOREM Refinement == Spec => ImplementsRWLock
<1>1. Init => Abstract!Init
  BY DEF Init, Abstract!Init, ReadHolders, WriteHolders, AtAny
<1> QED BY <1>1, StepRefines, Invariance, PTL DEF Spec, ImplementsRWLock, Abstract!Spec
===============================================================================
