------------------------------- MODULE WaitGroup ------------------------------
(***************************************************************************)
(* waitgroup.WaitGroup: a counter, the channel that the present Wait calls *)
(* receive from, and a token channel that serves as the mutex.  Channels   *)
(* are numbered in the order they are made: wait is the number of          *)
(* wg.wait and closed the set of those that were closed.  Locals go back   *)
(* to their initial value when the code no longer reads them.              *)
(***************************************************************************)
EXTENDS Integers, FiniteSets

CONSTANTS
  Goroutines,   \* the goroutines that share the group
  Increments,   \* the deltas passed to Add,
  Decrements,   \* and the opposites of the negative ones; Done is Add(-1)
  MaxOps        \* bound: calls per goroutine

Deltas == Increments \union {-d : d \in Decrements}

ASSUME DeltasInt == Deltas \subseteq Int
ASSUME MaxOpsNat == MaxOps \in Nat

VARIABLES
  counter,   \* wg.counter
  wait,      \* the number of the channel wg.wait
  closed,    \* the closed channels
  mu,        \* tokens in wg.mu
  pc,        \* goroutine -> where it is
  delta,     \* goroutine -> the delta of its Add
  copy,      \* goroutine -> Wait's local variable wait
  sawZero,   \* history: was the counter zero at some point of g's Wait?
  left       \* goroutine -> calls it may still make

vars == <<counter, wait, closed, mu, pc, delta, copy, sawZero, left>>

AddLocs  == {"add", "addbody", "addexit"}
WaitLocs == {"wait", "waitcopy", "waitexit", "blocked"}
MuLocs   == {"addbody", "addexit", "waitcopy", "waitexit"}
Locations == {"idle"} \union AddLocs \union WaitLocs

Go(g, from, to) == pc[g] = from /\ pc' = [pc EXCEPT ![g] = to]

Init ==
  /\ counter = 0 /\ wait = 0 /\ closed = {0} /\ mu = 1
  /\ pc = [g \in Goroutines |-> "idle"]
  /\ delta = [g \in Goroutines |-> 0]
  /\ copy = [g \in Goroutines |-> 0]
  /\ sawZero = [g \in Goroutines |-> FALSE]
  /\ left = [g \in Goroutines |-> MaxOps]

Spend(g) == left[g] > 0 /\ left' = [left EXCEPT ![g] = @ - 1]

\* <-wg.mu
TakeMu(g, from, to) ==
  /\ Go(g, from, to)
  /\ mu = 1 /\ mu' = 0
  /\ UNCHANGED <<counter, wait, closed, delta, copy, sawZero, left>>

\* wg.mu <- struct{}{}
GiveMu(g, from, to) ==
  /\ Go(g, from, to)
  /\ mu = 0 /\ mu' = 1
  /\ UNCHANGED <<counter, wait, closed, delta, copy, sawZero, left>>

-------------------------------------------------------------------------------
CallAdd(g) ==
  /\ Go(g, "idle", "add")
  /\ \E d \in Deltas : delta' = [delta EXCEPT ![g] = d]
  /\ Spend(g)
  /\ UNCHANGED <<counter, wait, closed, mu, copy, sawZero>>

AddTake(g) == TakeMu(g, "add", "addbody")

\* The panic of a negative counter leaves the fields as they are.
AddPanics_KeepsMu(g) ==             \* mutant: no defer, the panic keeps wg.mu
  /\ Go(g, "addbody", "idle")
  /\ counter + delta[g] < 0
  /\ UNCHANGED <<counter, wait, closed, mu, delta, copy, sawZero, left>>

AddPanics(g) ==
  /\ Go(g, "addbody", "addexit")
  /\ counter + delta[g] < 0
  /\ delta' = [delta EXCEPT ![g] = 0]
  /\ UNCHANGED <<counter, wait, closed, mu, copy, sawZero, left>>

NewChannel_Always(old, new) ==      \* mutant: a new channel on every Add
  IF new > 0 THEN wait' = wait + 1 /\ UNCHANGED closed
  ELSE IF old > 0 /\ new = 0 THEN closed' = closed \union {wait} /\ UNCHANGED wait
  ELSE UNCHANGED <<wait, closed>>

NewChannel_Never(old, new) ==       \* mutant: the closed channel is used again
  /\ closed' = IF old > 0 /\ new = 0 THEN closed \union {wait} ELSE closed
  /\ UNCHANGED wait

NewChannel(old, new) ==
  IF old = 0 /\ new > 0 THEN wait' = wait + 1 /\ UNCHANGED closed
  ELSE IF old > 0 /\ new = 0 THEN closed' = closed \union {wait} /\ UNCHANGED wait
  ELSE UNCHANGED <<wait, closed>>

AddCounts(g) ==
  /\ Go(g, "addbody", "addexit")
  /\ counter + delta[g] >= 0
  /\ counter' = counter + delta[g]
  /\ NewChannel(counter, counter')
  /\ sawZero' = [h \in Goroutines |-> sawZero[h] \/ (counter' = 0 /\ pc[h] \in WaitLocs)]
  /\ delta' = [delta EXCEPT ![g] = 0]
  /\ UNCHANGED <<mu, copy, left>>

\* the deferred send: Add returns, or its panic goes on to the caller
AddExit(g) == GiveMu(g, "addexit", "idle")

-------------------------------------------------------------------------------
CallWait(g) ==
  /\ Go(g, "idle", "wait")
  /\ Spend(g)
  /\ sawZero' = [sawZero EXCEPT ![g] = (counter = 0)]
  /\ UNCHANGED <<counter, wait, closed, mu, delta, copy>>

WaitTake(g) == TakeMu(g, "wait", "waitcopy")

WaitCopy(g) ==
  /\ Go(g, "waitcopy", "waitexit")
  /\ copy' = [copy EXCEPT ![g] = wait]
  /\ UNCHANGED <<counter, wait, closed, mu, delta, sawZero, left>>

WaitGive(g) == GiveMu(g, "waitexit", "blocked")

\* <-wait on the closed channel
WaitReturns(g) ==
  /\ Go(g, "blocked", "idle")
  /\ copy[g] \in closed
  /\ copy' = [copy EXCEPT ![g] = 0]
  /\ sawZero' = [sawZero EXCEPT ![g] = FALSE]
  /\ UNCHANGED <<counter, wait, closed, mu, delta, left>>

-------------------------------------------------------------------------------
Step(g) ==
  \/ AddTake(g) \/ AddPanics(g) \/ AddCounts(g) \/ AddExit(g)
  \/ WaitTake(g) \/ WaitCopy(g) \/ WaitGive(g) \/ WaitReturns(g)

Next == \E g \in Goroutines : CallAdd(g) \/ CallWait(g) \/ Step(g)

\* A runnable goroutine is scheduled; receivers blocked on wg.mu are served
\* first in, first out, so none is passed over for ever (strong fairness).
Fairness == \A g \in Goroutines : SF_vars(Step(g))

Spec == Init /\ [][Next]_vars
FairSpec == Spec /\ Fairness

-------------------------------------------------------------------------------
(* Every variable has its type; so the counter is never negative.            *)
TypeOK ==
  /\ counter \in Nat
  /\ wait \in Nat /\ closed \subseteq Nat
  /\ mu \in {0, 1}
  /\ pc \in [Goroutines -> Locations]
  /\ delta \in [Goroutines -> Int]
  /\ copy \in [Goroutines -> Nat]
  /\ sawZero \in [Goroutines -> BOOLEAN]
  /\ left \in [Goroutines -> Nat]

(* wg.wait is open exactly while the counter is positive, and every channel  *)
(* it was before is closed.  So Wait at zero is a no-op, Add never closes a  *)
(* closed channel (which would panic), and no goroutine is left behind on a  *)
(* channel nobody will close.                                                *)
ChannelsMatchCounter ==
  /\ wait \in closed <=> counter = 0
  /\ \A ch \in 0 .. (wait - 1) : ch \in closed

(* README: Wait blocks until the number is zero.  A Wait can return only     *)
(* when the counter was zero at some moment of this very call, however often *)
(* the group is used again in between.                                       *)
WaitSawZero ==
  \A g \in Goroutines : pc[g] = "blocked" /\ copy[g] \in closed => sawZero[g]

(* A Wait that is blocked when the counter reaches zero returns, even when   *)
(* the next Add raises the counter before it is scheduled.                   *)
WakesAtZero ==
  \A g \in Goroutines : pc[g] = "blocked" /\ counter = 0 ~> pc[g] = "idle"

(* Every Add and Done returns or panics, also after a panic of another: the  *)
(* panic gives wg.mu back.                                                   *)
AddReturns == \A g \in Goroutines : pc[g] = "add" ~> pc[g] = "idle"
===============================================================================
