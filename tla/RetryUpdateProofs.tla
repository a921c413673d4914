--------------------------- MODULE RetryUpdateProofs ---------------------------
(***************************************************************************)
(* Theorems about RetryUpdate for any set of clients and any numbers of     *)
(* lost replies and removals.                                              *)
(***************************************************************************)
EXTENDS RetryUpdate, TLAPS

(***************************************************************************)
(* The inductive invariant.  While no reply has been lost, a version that   *)
(* is a client's belongs to a call that has returned; so the version a      *)
(* client is about to write is new to the service and to every other        *)
(* client, and a version that still matches vouches for the value.          *)
(***************************************************************************)
OwnVersionWritten == store.version \in Clients => writes[store.version] > 0
NoKeyIsEmpty == store.version = Zero => store = NoKey
VersionsOfReturned ==
  /\ store.version \in Clients => pc[store.version] = "ok"
  /\ \A c \in Clients : vers[c] \in Clients => pc[vers[c]] = "ok"
ValueOfVersion ==
  \A c \in Clients : pc[c] = "set" =>
    /\ vers[c] = store.version => newValue[c] = Append(store.value, c)
    /\ vers[c] = Zero => newValue[c] = <<c>>

Lossless == VersionsOfReturned /\ ValueOfVersion
IInv ==
  /\ TypeOK
  /\ OwnVersionWritten
  /\ NoKeyIsEmpty
  /\ AppliedWhenNil
  /\ lost = 0 => Lossless

-------------------------------------------------------------------------------
(* Appending to no value gives a value of one update. *)
LEMMA AppendEmpty == \A c : Append(<<>>, c) = <<c>>
OBVIOUS

LEMMA NoKeyFacts == /\ NoKey.value = <<>> /\ NoKey.version = Zero
                    /\ NoKey \in [value: Values, version: Versions]
BY DEF NoKey, Values, Versions

LEMMA InitIInv == Init => IInv
<1> SUFFICES ASSUME Init PROVE IInv
  OBVIOUS
<1>1. store.value = <<>> /\ store.version \in {Zero, First} /\ NoKeyIsEmpty
  BY VersionsDiffer DEF Init, NoKey, NoKeyIsEmpty
<1>2. store \in [value: Values, version: Versions]
  BY NoKeyFacts DEF Init, Values, Versions
<1>3. TypeOK
  BY <1>2 DEF Init, TypeOK, Values, Versions
<1>4. OwnVersionWritten /\ Lossless
  BY <1>1, VersionsDiffer DEF Init, OwnVersionWritten, Lossless, VersionsOfReturned, ValueOfVersion
<1>5. AppliedWhenNil
  BY DEF Init, AppliedWhenNil
<1> QED BY <1>1, <1>3, <1>4, <1>5 DEF IInv

(* What Prepare computes from a value of the right type. *)
LEMMA PrepareFacts ==
  ASSUME TypeOK, NEW c \in Clients, NEW old \in [value: Values, version: Versions], Prepare(c, old)
  PROVE  /\ newValue' \in [Clients -> Values] /\ vers' \in [Clients -> Versions]
         /\ newValue'[c] = Append(old.value, c) /\ vers'[c] = old.version
         /\ \A d \in Clients \ {c} : newValue'[d] = newValue[d] /\ vers'[d] = vers[d]
<1>1. Append(old.value, c) \in Values
  BY DEF Values
<1> QED BY <1>1 DEF Prepare, TypeOK

LEMMA NextTypeOK == IInv /\ [Next]_vars => TypeOK'
<1> SUFFICES ASSUME IInv, [Next]_vars PROVE TypeOK'
  OBVIOUS
<1> USE DEF IInv, TypeOK, Go
<1>1. ASSUME NEW c \in Clients, Get(c) PROVE TypeOK'
  BY <1>1, PrepareFacts DEF Get
<1>2. ASSUME NEW c \in Clients, SetStored(c) \/ SetReplyLost(c) PROVE TypeOK'
  BY <1>2 DEF SetStored, SetReplyLost, Store, Versions
<1>3. ASSUME NEW c \in Clients, SetNoKey(c) PROVE TypeOK'
  BY <1>3, PrepareFacts, NoKeyFacts DEF SetNoKey
<1>4. ASSUME NEW c \in Clients, SetConflictOwn(c) \/ SetConflict(c) PROVE TypeOK'
  BY <1>4 DEF SetConflictOwn, SetConflict
<1>5. ASSUME NEW c \in Clients, GetFails(c) \/ SetFails(c) PROVE TypeOK'
  BY <1>5 DEF GetFails, SetFails, Fail
<1>6. ASSUME Remove PROVE TypeOK'
  BY <1>6, NoKeyFacts DEF Remove
<1>7. CASE UNCHANGED vars
  BY <1>7 DEF vars
<1> QED BY <1>1, <1>2, <1>3, <1>4, <1>5, <1>6, <1>7 DEF Next, Answered, Finished

LEMMA NextStore == IInv /\ [Next]_vars => (OwnVersionWritten /\ NoKeyIsEmpty)'
<1> SUFFICES ASSUME IInv, [Next]_vars PROVE (OwnVersionWritten /\ NoKeyIsEmpty)'
  OBVIOUS
<1> USE VersionsDiffer DEF IInv, TypeOK, OwnVersionWritten, NoKeyIsEmpty
<1>1. ASSUME NEW c \in Clients, SetStored(c) \/ SetReplyLost(c)
      PROVE  (OwnVersionWritten /\ NoKeyIsEmpty)'
  <2>1. store'.version = c /\ writes'[c] = writes[c] + 1
    BY <1>1 DEF SetStored, SetReplyLost, Store
  <2> QED BY <2>1
<1>2. ASSUME Remove PROVE (OwnVersionWritten /\ NoKeyIsEmpty)'
  BY <1>2, NoKeyFacts DEF Remove
<1>3. ASSUME UNCHANGED <<store, writes>> PROVE (OwnVersionWritten /\ NoKeyIsEmpty)'
  BY <1>3
<1> QED BY <1>1, <1>2, <1>3 DEF Next, Answered, Finished, vars, Get, GetFails, SetFails, Fail,
           SetNoKey, SetConflictOwn, SetConflict

LEMMA NextApplied == IInv /\ [Next]_vars => AppliedWhenNil'
<1> SUFFICES ASSUME IInv, [Next]_vars PROVE AppliedWhenNil'
  OBVIOUS
<1> USE DEF IInv, TypeOK, AppliedWhenNil, Go
<1>1. ASSUME NEW c \in Clients, SetStored(c) PROVE AppliedWhenNil'
  BY <1>1 DEF SetStored, Store
<1>2. ASSUME NEW c \in Clients, SetReplyLost(c) PROVE AppliedWhenNil'
  BY <1>2 DEF SetReplyLost, Store
<1>3. ASSUME NEW c \in Clients, SetConflictOwn(c) PROVE AppliedWhenNil'
  <2>1. writes[c] > 0 /\ lost # 0
    BY <1>3 DEF SetConflictOwn, OwnVersionWritten, Lossless, VersionsOfReturned
  <2> QED BY <1>3, <2>1 DEF SetConflictOwn
<1>4. ASSUME NEW c \in Clients,
             Get(c) \/ SetNoKey(c) \/ SetConflict(c) \/ GetFails(c) \/ SetFails(c)
      PROVE  AppliedWhenNil'
  BY <1>4 DEF Get, SetNoKey, SetConflict, GetFails, SetFails, Fail
<1>5. ASSUME Remove PROVE AppliedWhenNil'
  BY <1>5 DEF Remove
<1>6. CASE UNCHANGED vars
  BY <1>6 DEF vars
<1> QED BY <1>1, <1>2, <1>3, <1>4, <1>5, <1>6 DEF Next, Answered, Finished

LEMMA NextLossless == IInv /\ [Next]_vars => (lost' = 0 => Lossless')
<1> SUFFICES ASSUME IInv, [Next]_vars, lost' = 0 PROVE Lossless'
  OBVIOUS
<1>0. lost = 0 /\ \A c \in Clients : ~SetReplyLost(c)
  BY DEF IInv, TypeOK, Next, Answered, Finished, vars, Get, GetFails, SetFails, Fail, SetStored,
         SetReplyLost, SetNoKey, SetConflictOwn, SetConflict, Remove
<1> USE <1>0, VersionsDiffer, NoKeyFacts, AppendEmpty
        DEF IInv, TypeOK, Lossless, VersionsOfReturned, ValueOfVersion, Go
<1>1. ASSUME NEW c \in Clients, Get(c) PROVE Lossless'
  <2>1. /\ newValue'[c] = Append(store.value, c) /\ vers'[c] = store.version
        /\ \A d \in Clients \ {c} : newValue'[d] = newValue[d] /\ vers'[d] = vers[d]
    BY <1>1, PrepareFacts DEF Get
  <2>2. store.version = Zero => store.value = <<>>
    BY DEF NoKeyIsEmpty
  <2>3. pc[c] = "get" /\ pc' = [pc EXCEPT ![c] = "set"] /\ store' = store
    BY <1>1 DEF Get
  <2>4. VersionsOfReturned'
    BY <2>1, <2>3
  <2>5. ValueOfVersion'
    BY <2>1, <2>2, <2>3
  <2> QED BY <2>4, <2>5
<1>2. ASSUME NEW c \in Clients, SetStored(c) PROVE Lossless'
  <2>1. /\ store'.version = c /\ store'.value = newValue[c]
        /\ pc[c] = "set" /\ pc' = [pc EXCEPT ![c] = "ok"]
        /\ UNCHANGED <<newValue, vers>>
    BY <1>2 DEF SetStored, Store
  <2>2. \A d \in Clients : vers[d] # c
    BY <2>1
  <2>3. VersionsOfReturned'
    BY <2>1
  <2>4. ValueOfVersion'
    <3> SUFFICES ASSUME NEW d \in Clients, pc'[d] = "set"
                 PROVE  /\ vers[d] # c
                        /\ vers[d] = Zero => newValue[d] = <<d>>
      BY <2>1
    <3> QED BY <2>1, <2>2
  <2> QED BY <2>3, <2>4
<1>3. ASSUME NEW c \in Clients, SetNoKey(c) PROVE Lossless'
  <2>1. /\ newValue'[c] = <<c>> /\ vers'[c] = Zero
        /\ \A d \in Clients \ {c} : newValue'[d] = newValue[d] /\ vers'[d] = vers[d]
    BY <1>3, PrepareFacts DEF SetNoKey
  <2>2. store = NoKey /\ UNCHANGED <<store, pc>>
    BY <1>3 DEF SetNoKey
  <2>3. VersionsOfReturned'
    BY <2>1, <2>2
  <2>4. ValueOfVersion'
    <3> SUFFICES ASSUME NEW d \in Clients, pc[d] = "set"
                 PROVE  /\ vers'[d] = store.version => newValue'[d] = Append(store.value, d)
                        /\ vers'[d] = Zero => newValue'[d] = <<d>>
      BY <2>2
    <3>1. store.value = <<>> /\ store.version = Zero
      BY <2>2
    <3> QED BY <2>1, <3>1, SMTT(60)
  <2> QED BY <2>3, <2>4
<1>4. ASSUME NEW c \in Clients, SetConflictOwn(c) PROVE Lossless'
  BY <1>4 DEF SetConflictOwn
<1>5. ASSUME NEW c \in Clients, SetConflict(c) PROVE Lossless'
  BY <1>5 DEF SetConflict
<1>6. ASSUME NEW c \in Clients, GetFails(c) \/ SetFails(c) PROVE Lossless'
  BY <1>6 DEF GetFails, SetFails, Fail
<1>7. ASSUME Remove PROVE Lossless'
  <2>1. store' = NoKey /\ UNCHANGED <<pc, newValue, vers>>
    BY <1>7 DEF Remove
  <2>2. VersionsOfReturned'
    BY <2>1
  <2>3. store'.value = <<>> /\ store'.version = Zero
    BY <2>1
  <2>4. ASSUME NEW d \in Clients, pc'[d] = "set", vers'[d] = Zero
        PROVE  newValue'[d] = <<d>> /\ newValue'[d] = Append(store'.value, d)
    <3>1. pc[d] = "set" /\ vers[d] = Zero /\ newValue'[d] = newValue[d]
      BY <2>1, <2>4
    <3>2. newValue[d] = <<d>>
      BY <3>1
    <3>3. Append(store'.value, d) = <<d>>
      BY <2>3
    <3> QED BY <3>1, <3>2, <3>3
  <2>5. ValueOfVersion'
    BY <2>3, <2>4
  <2> QED BY <2>2, <2>5
<1>8. CASE UNCHANGED vars
  BY <1>8 DEF vars
<1> QED BY <1>1, <1>2, <1>3, <1>4, <1>5, <1>6, <1>7, <1>8 DEF Next, Answered, Finished

LEMMA Invariance == Spec => []IInv
<1>1. IInv /\ [Next]_vars => IInv'
  BY NextTypeOK, NextStore, NextApplied, NextLossless DEF IInv
<1> QED BY <1>1, InitIInv, PTL DEF Spec

-------------------------------------------------------------------------------
(* Every variable keeps its type. *)
THEOREM TypeCorrect == Spec => []TypeOK
<1>1. IInv => TypeOK
  BY DEF IInv
<1> QED BY <1>1, Invariance, PTL

(* UpdateValue returns nil only after its update took effect, and without   *)
(* lost replies it takes effect exactly once.                               *)
THEOREM ExactlyOnce == Spec => []AppliedWhenNil
<1>1. IInv => AppliedWhenNil
  BY DEF IInv
<1> QED BY <1>1, Invariance, PTL

(* Without lost replies no update is lost: every write extends the value    *)
(* that it replaces.                                                        *)
THEOREM NoLostUpdate == Spec => BuildsOnLatest
<1>1. ASSUME IInv, [Next]_vars, lost' = 0, NEW c \in Clients, writes'[c] > writes[c]
      PROVE  store'.value = Append(store.value, c)
  <2>1. ASSUME NEW d \in Clients, SetStored(d)
        PROVE  store'.value = Append(store.value, c)
    <3>1. d = c
      BY <1>1, <2>1 DEF SetStored, Store, IInv, TypeOK
    <3>2. pc[c] = "set" /\ vers[c] = store.version /\ store'.value = newValue[c] /\ lost = 0
      BY <1>1, <2>1, <3>1 DEF SetStored, Store, Matches, Go
    <3> QED BY <1>1, <3>2 DEF IInv, Lossless, ValueOfVersion
  <2>2. ASSUME NEW d \in Clients, SetReplyLost(d) PROVE FALSE
    BY <1>1, <2>2 DEF SetReplyLost, IInv, TypeOK
  <2>3. ASSUME UNCHANGED writes PROVE FALSE
    BY <1>1, <2>3 DEF IInv, TypeOK
  <2> QED BY <1>1, <2>1, <2>2, <2>3 DEF Next, Answered, Finished, vars, Get, GetFails, SetFails,
             Fail, SetNoKey, SetConflictOwn, SetConflict, Remove
<1>2. IInv /\ [Next]_vars =>
        [lost' = 0 => \A c \in Clients : writes'[c] > writes[c] =>
                        store'.value = Append(store.value, c)]_vars
  BY <1>1
<1> QED BY <1>2, Invariance, PTL DEF Spec, BuildsOnLatest
===============================================================================
