------------------------------ MODULE RetryUpdate -----------------------------
(***************************************************************************)
(* retryupdate.UpdateValue: read a key, compute a new value, write it if    *)
(* the version is still the one read, and retry on conflicts and faults.    *)
(* Every client calls it once, on the same key, with an updateFn that adds  *)
(* the client's mark to the value; so a value is the sequence of updates    *)
(* it contains.                                                             *)
(*                                                                         *)
(* A call makes one random version, newVers, and uses it for all of its     *)
(* writes; it is named by the client.  The service is external: Get and Set *)
(* as kvapi describes them, faults without effect, replies of a Set that    *)
(* are lost after it took effect, and somebody who removes the key.         *)
(***************************************************************************)
EXTENDS Naturals, Sequences

CONSTANTS
  Clients,      \* the clients, and their versions
  Zero,         \* the zero UUID
  First,        \* the version of the value there is at the start
  MaxLost,      \* bound: replies of Set that are lost
  MaxRemovals   \* bound: how often the key is removed

ASSUME VersionsDiffer == Zero \notin Clients /\ First \notin Clients /\ Zero # First
ASSUME MaxLostNat == MaxLost \in Nat
ASSUME MaxRemovalsNat == MaxRemovals \in Nat

VARIABLES
  store,     \* the value and version of the key; version Zero: there is no key
  pc,        \* client -> "get", "set", "ok" (returned nil) or "err"
  newValue,  \* client -> its variable newValue
  vers,      \* client -> its variable vers
  writes,    \* history: client -> how often a Set of it took effect
  lost,      \* replies lost so far
  removals   \* removals so far

vars == <<store, pc, newValue, vers, writes, lost, removals>>

Versions == Clients \union {Zero, First}
Values   == Seq(Clients)
NoKey    == [value |-> <<>>, version |-> Zero]

Go(c, from, to) == pc[c] = from /\ pc' = [pc EXCEPT ![c] = to]

Init ==
  /\ store \in {NoKey, [value |-> <<>>, version |-> First]}
  /\ pc = [c \in Clients |-> "get"]
  /\ newValue = [c \in Clients |-> <<>>]
  /\ vers = [c \in Clients |-> Zero]
  /\ writes = [c \in Clients |-> 0]
  /\ lost = 0 /\ removals = 0

\* newValue, err = updateFn(old value); vers = its version, Zero for no key
Prepare(c, old) ==
  /\ newValue' = [newValue EXCEPT ![c] = Append(old.value, c)]
  /\ vers' = [vers EXCEPT ![c] = old.version]

\* updateFn, or the check of the client's rights, fails: return err
Fail(c, from) ==
  /\ Go(c, from, "err")
  /\ UNCHANGED <<store, newValue, vers, writes, lost, removals>>

-------------------------------------------------------------------------------
(* Get, in either of the two loops that repeat it until it answers.        *)

Get(c) ==
  /\ Go(c, "get", "set")
  /\ Prepare(c, store)
  /\ UNCHANGED <<store, writes, lost, removals>>

GetFails(c) == Fail(c, "get")

-------------------------------------------------------------------------------
(* Set: the service compares the version it holds with OldVersion.         *)

Matches_Always(c) == TRUE           \* mutant: the version is not compared
Matches(c) == store.version = vers[c]

Store(c) ==
  /\ Matches(c)
  /\ store' = [value |-> newValue[c], version |-> c]
  /\ writes' = [writes EXCEPT ![c] = @ + 1]

SetStored(c) ==
  /\ Go(c, "set", "ok")
  /\ Store(c)
  /\ UNCHANGED <<newValue, vers, lost, removals>>

\* Set takes effect, the client sees some other error and sends it again.
SetReplyLost(c) ==
  /\ pc[c] = "set"
  /\ Store(c)
  /\ lost < MaxLost /\ lost' = lost + 1
  /\ UNCHANGED <<pc, newValue, vers, removals>>

SetNoKey_KeepVersion(c) ==          \* mutant: vers keeps the version of the lost key
  /\ pc[c] = "set"
  /\ ~Matches(c) /\ store = NoKey
  /\ newValue' = [newValue EXCEPT ![c] = <<c>>]
  /\ UNCHANGED <<store, pc, vers, writes, lost, removals>>

\* ErrKeyNotFound: start from no value, without another Get
SetNoKey(c) ==
  /\ pc[c] = "set"
  /\ ~Matches(c) /\ store = NoKey
  /\ Prepare(c, NoKey)
  /\ UNCHANGED <<store, pc, writes, lost, removals>>

Conflict(c) == ~Matches(c) /\ store # NoKey

\* ConflictError that expects newVers: an earlier Set took effect
SetConflictOwn(c) ==
  /\ Go(c, "set", "ok")
  /\ Conflict(c) /\ store.version = c
  /\ UNCHANGED <<store, newValue, vers, writes, lost, removals>>

SetConflict_GivesUp(c) ==           \* mutant: every conflict is taken for one's own
  /\ Go(c, "set", "ok")
  /\ Conflict(c) /\ store.version # c
  /\ UNCHANGED <<store, newValue, vers, writes, lost, removals>>

SetConflict_SameValue(c) ==         \* mutant: the new version, but the old newValue
  /\ pc[c] = "set"
  /\ Conflict(c) /\ store.version # c
  /\ vers' = [vers EXCEPT ![c] = store.version]
  /\ UNCHANGED <<store, pc, newValue, writes, lost, removals>>

SetConflict(c) ==
  /\ Go(c, "set", "get")
  /\ Conflict(c) /\ store.version # c
  /\ UNCHANGED <<store, newValue, vers, writes, lost, removals>>

SetFails(c) == Fail(c, "set")

-------------------------------------------------------------------------------
\* Somebody else removes the key.
Remove ==
  /\ store # NoKey
  /\ removals < MaxRemovals /\ removals' = removals + 1
  /\ store' = NoKey
  /\ UNCHANGED <<pc, newValue, vers, writes, lost>>

\* A request that reaches the service and is answered.
Answered(c) ==
  Get(c) \/ SetStored(c) \/ SetNoKey(c) \/ SetConflictOwn(c) \/ SetConflict(c)

Finished ==
  /\ \A c \in Clients : pc[c] \in {"ok", "err"}
  /\ UNCHANGED vars

Next ==
  \/ \E c \in Clients : Answered(c) \/ SetReplyLost(c) \/ GetFails(c) \/ SetFails(c)
  \/ Remove
  \/ Finished

\* The service does not stay unavailable for ever.
Fairness == \A c \in Clients : WF_vars(Answered(c))

Spec == Init /\ [][Next]_vars
FairSpec == Spec /\ Fairness

-------------------------------------------------------------------------------
TypeOK ==
  /\ store \in [value: Values, version: Versions]
  /\ pc \in [Clients -> {"get", "set", "ok", "err"}]
  /\ newValue \in [Clients -> Values]
  /\ vers \in [Clients -> Versions]
  /\ writes \in [Clients -> Nat]
  /\ lost \in Nat /\ removals \in Nat

(* UpdateValue returns nil only if its update took effect.  As long as no    *)
(* reply is lost an update takes effect exactly once when nil is returned,   *)
(* and never otherwise, through all conflicts, retries and removals.         *)
AppliedWhenNil ==
  \A c \in Clients :
    /\ pc[c] = "ok" => writes[c] > 0
    /\ lost = 0 => writes[c] = IF pc[c] = "ok" THEN 1 ELSE 0

(* No lost update: as long as no reply is lost, a Set replaces the value     *)
(* that is there by that value with the client's update, whatever the client *)
(* read before.                                                              *)
BuildsOnLatest ==
  [][lost' = 0 =>
       \A c \in Clients : writes'[c] > writes[c] => store'.value = Append(store.value, c)]_vars

(* README: conflicts and faults are retried without end.  Every call         *)
(* returns: a conflict means that another call made progress.                *)
Returns == \A c \in Clients : <>(pc[c] \in {"ok", "err"})

(* README line 6: a version is a unique identifier, made by the client: it   *)
(* is stored with one value, by one write.                                   *)
VersionsUnique == \A c \in Clients : writes[c] <= 1
===============================================================================
