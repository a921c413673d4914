------------------------------- MODULE RWMutex --------------------------------
(***************************************************************************)
(* rwmutex.RWMutex: a reader/writer lock made of two channels of capacity  *)
(* one and a counter.  A channel of struct{} carries no data, so its state *)
(* is the number of tokens in its buffer.  Each goroutine calls            *)
(* Lock/Unlock or RLock/RUnlock in pairs; pc[g] is the channel operation   *)
(* or statement it executes next.                                          *)
(***************************************************************************)
EXTENDS Integers, FiniteSets

CONSTANT Goroutines   \* the goroutines that share the lock

ASSUME GoroutinesFinite == IsFiniteSet(Goroutines)

VARIABLES
  writeMutex,   \* tokens in rw.writeMutex
  readMutex,    \* tokens in rw.readMutex
  count,        \* rw.count
  pc            \* goroutine -> where it is

vars == <<writeMutex, readMutex, count, pc>>

ReadGated   == {"rtest", "rsend", "rinc", "rleave"}      \* RLock, gate held
UnreadGated == {"udec", "utest", "urecv", "uleave"}      \* RUnlock, gate held
Locations == {"idle", "wsend", "writing", "rgate", "reading", "ugate"}
             \union ReadGated \union UnreadGated

Go(g, from, to) == pc[g] = from /\ pc' = [pc EXCEPT ![g] = to]

\* ch <- struct{}{} and <-ch on a channel of capacity one
CanSend(ch) == ch < 1
CanRecv(ch) == ch > 0

Init ==
  /\ writeMutex = 0 /\ readMutex = 0 /\ count = 0
  /\ pc = [g \in Goroutines |-> "idle"]

\* A goroutine calls Lock or RLock.
Call(g, to) ==
  /\ Go(g, "idle", to)
  /\ UNCHANGED <<writeMutex, readMutex, count>>

CallLock(g)  == Call(g, "wsend")
CallRLock(g) == Call(g, "rgate")

-------------------------------------------------------------------------------
(* Lock and Unlock *)

Lock(g) ==
  /\ Go(g, "wsend", "writing")
  /\ CanSend(writeMutex)
  /\ writeMutex' = writeMutex + 1
  /\ UNCHANGED <<readMutex, count>>

Unlock(g) ==
  /\ Go(g, "writing", "idle")
  /\ CanRecv(writeMutex)
  /\ writeMutex' = writeMutex - 1
  /\ UNCHANGED <<readMutex, count>>

-------------------------------------------------------------------------------
(* RLock: the gate, the test, the write token for the first reader, the    *)
(* increment, the release of the gate.                                     *)

RLockGate(g) ==
  /\ Go(g, "rgate", "rtest")
  /\ CanSend(readMutex)
  /\ readMutex' = readMutex + 1
  /\ UNCHANGED <<writeMutex, count>>

RLockTest_Always(g) ==              \* mutant: every reader takes the write token
  /\ Go(g, "rtest", "rsend")
  /\ UNCHANGED <<writeMutex, readMutex, count>>

RLockTest_Skip(g) ==                \* mutant: no reader takes the write token
  /\ Go(g, "rtest", "rinc")
  /\ UNCHANGED <<writeMutex, readMutex, count>>

RLockTest(g) ==
  /\ Go(g, "rtest", IF count = 0 THEN "rsend" ELSE "rinc")
  /\ UNCHANGED <<writeMutex, readMutex, count>>

RLockTakeWrite(g) ==
  /\ Go(g, "rsend", "rinc")
  /\ CanSend(writeMutex)
  /\ writeMutex' = writeMutex + 1
  /\ UNCHANGED <<readMutex, count>>

RLockCount(g) ==
  /\ Go(g, "rinc", "rleave")
  /\ count' = count + 1
  /\ UNCHANGED <<writeMutex, readMutex>>

RLockLeave(g) ==
  /\ Go(g, "rleave", "reading")
  /\ CanRecv(readMutex)
  /\ readMutex' = readMutex - 1
  /\ UNCHANGED <<writeMutex, count>>

-------------------------------------------------------------------------------
(* RUnlock: a reader leaves its critical section when it makes the call.   *)

CallRUnlock(g) ==
  /\ Go(g, "reading", "ugate")
  /\ UNCHANGED <<writeMutex, readMutex, count>>

RUnlockGate_Open(g) ==              \* mutant: RUnlock enters without the gate
  /\ Go(g, "ugate", "udec")
  /\ readMutex' = readMutex + 1
  /\ UNCHANGED <<writeMutex, count>>

RUnlockGate(g) ==
  /\ Go(g, "ugate", "udec")
  /\ CanSend(readMutex)
  /\ readMutex' = readMutex + 1
  /\ UNCHANGED <<writeMutex, count>>

RUnlockCount(g) ==
  /\ Go(g, "udec", "utest")
  /\ count' = count - 1
  /\ UNCHANGED <<writeMutex, readMutex>>

RUnlockTest_OneEarly(g) ==          \* mutant: count <= 1 instead of count == 0
  /\ Go(g, "utest", IF count <= 1 THEN "urecv" ELSE "uleave")
  /\ UNCHANGED <<writeMutex, readMutex, count>>

RUnlockTest(g) ==
  /\ Go(g, "utest", IF count = 0 THEN "urecv" ELSE "uleave")
  /\ UNCHANGED <<writeMutex, readMutex, count>>

RUnlockGiveWrite(g) ==
  /\ Go(g, "urecv", "uleave")
  /\ CanRecv(writeMutex)
  /\ writeMutex' = writeMutex - 1
  /\ UNCHANGED <<readMutex, count>>

RUnlockLeave(g) ==
  /\ Go(g, "uleave", "idle")
  /\ CanRecv(readMutex)
  /\ readMutex' = readMutex - 1
  /\ UNCHANGED <<writeMutex, count>>

-------------------------------------------------------------------------------
\* The steps a goroutine takes inside a call; it may stay in "idle" for ever.
Step(g) ==
  \/ Lock(g) \/ Unlock(g)
  \/ RLockGate(g) \/ RLockTest(g) \/ RLockTakeWrite(g) \/ RLockCount(g) \/ RLockLeave(g)
  \/ CallRUnlock(g)
  \/ RUnlockGate(g) \/ RUnlockCount(g) \/ RUnlockTest(g)
  \/ RUnlockGiveWrite(g) \/ RUnlockLeave(g)

Next == \E g \in Goroutines : CallLock(g) \/ CallRLock(g) \/ Step(g)

(***************************************************************************)
(* Strong fairness of a goroutine's steps inside its calls.  A runnable     *)
(* goroutine is scheduled and a holder eventually unlocks, which is weak    *)
(* fairness; the only steps that others can disable are the sends, and Go   *)
(* serves the senders blocked on a channel first in, first out, so one that *)
(* could proceed again and again is not passed over for ever.               *)
(***************************************************************************)
Fairness == \A g \in Goroutines : SF_vars(Step(g))

Spec == Init /\ [][Next]_vars
FairSpec == Spec /\ Fairness

-------------------------------------------------------------------------------
(* Who owns what.                                                          *)

AtAny(locs) == {g \in Goroutines : pc[g] \in locs}

WriteHolders == AtAny({"writing"})
ReadHolders  == AtAny({"reading"})
GateHolders  == AtAny(ReadGated \union UnreadGated)
\* readers that rw.count counts
Counted      == AtAny({"rleave", "reading", "ugate", "udec"})
(* Every variable has its type: the two channels hold at most one token.   *)
TypeOK ==
  /\ writeMutex \in {0, 1}
  /\ readMutex \in {0, 1}
  /\ count \in Int
  /\ pc \in [Goroutines -> Locations]

(* README property 2 and "if there is a writer there are no readers": while *)
(* a goroutine is between Lock and Unlock no other is between Lock and      *)
(* Unlock or between RLock and RUnlock.                                     *)
WriterExcludesAll ==
  \A w \in WriteHolders : WriteHolders = {w} /\ ReadHolders = {}

(* README property 3, second sentence: while some goroutine holds the read  *)
(* lock no reader in RLock is waiting for the write token, so only the      *)
(* short gate section separates it from entering.                           *)
ReadersAdmitReaders ==
  ReadHolders # {} => AtAny({"rsend"}) = {}

(* Whatever the interleaving: the gate token is in readMutex exactly while   *)
(* one goroutine is between its gate send and its gate receive (so rw.count  *)
(* is never accessed by two at once), rw.count is the number of readers that *)
(* entered and have not left, and the write token is in writeMutex exactly   *)
(* while a writer or the group of readers owns it.                           *)
GateAccounted  == readMutex = Cardinality(GateHolders)
CountAccounted == count = Cardinality(Counted)
GroupOwns == count > 0 \/ AtAny({"rinc", "utest", "urecv"}) # {}
WriteAccounted ==
  /\ WriteHolders # {} => writeMutex = 1 /\ ~GroupOwns
  /\ GroupOwns => writeMutex = 1
  /\ writeMutex = 1 => WriteHolders # {} \/ GroupOwns
TokensAccounted == GateAccounted /\ CountAccounted /\ WriteAccounted

(* A goroutine's Unlock and the receives of RUnlock never block: the token  *)
(* that line receives is there when it gets to it.                          *)
ReleaseNeverBlocks ==
  \A g \in Goroutines :
    /\ pc[g] \in {"writing", "urecv"} => CanRecv(writeMutex)
    /\ pc[g] \in {"rleave", "uleave"} => CanRecv(readMutex)

(* The lock implements the abstract reader/writer lock.                     *)
Abstract == INSTANCE RWLock WITH readers <- ReadHolders, writers <- WriteHolders
ImplementsRWLock == Abstract!Spec

(* No reader starves: a goroutine in RLock gets in, even when the others    *)
(* lock and unlock for ever.                                                *)
ReaderGetsIn ==
  \A g \in Goroutines : (pc[g] \in {"rgate"} \union ReadGated) ~> pc[g] = "reading"

(* A writer waits while overlapping readers renew their group; once RLock    *)
(* calls stop, as in HammerRWMutex and TestWriteWriteReadDeadlock, every     *)
(* Lock gets the lock, however the other writers go on.                      *)
ReadersStop == <>[][\A g \in Goroutines : ~CallRLock(g)]_vars
WriterGetsIn ==
  ReadersStop => \A g \in Goroutines : pc[g] = "wsend" ~> pc[g] = "writing"

(* Nobody waits for ever for the lock: no reader, and no writer unless the   *)
(* readers never stop coming.                                                *)
EverybodyGetsIn == ReaderGetsIn /\ WriterGetsIn
===============================================================================
