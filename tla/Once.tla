--------------------------------- MODULE Once ---------------------------------
(***************************************************************************)
(* once.Once: a channel of capacity one that New fills with a token.  The  *)
(* Do that receives the token calls its f and closes the channel in a      *)
(* defer; every other Do receives from the empty, then closed, channel.    *)
(***************************************************************************)
EXTENDS Naturals

CONSTANTS
  Goroutines,   \* the goroutines that call Do
  Bodies        \* how a caller's f may go: a subset of AllBodies

AllBodies == {"return", "panic", "reenter"}   \* "reenter": f itself calls Do

VARIABLES
  c,         \* o.c: "token", "empty" or "closed"
  pc,        \* goroutine -> where it is
  inner,     \* goroutines whose f has called Do
  calls,     \* history: how many times Do has called an f
  ended      \* history: has the call of an f ended, by return or by panic?

vars == <<c, pc, inner, calls, ended>>

Locations == {"idle", "receive", "calling", "exit"}

Go(g, from, to) == pc[g] = from /\ pc' = [pc EXCEPT ![g] = to]

Init ==
  /\ c = "token"
  /\ pc = [g \in Goroutines |-> "idle"]
  /\ inner = {}
  /\ calls = 0 /\ ended = FALSE

CallDo(g) ==
  /\ Go(g, "idle", "receive")
  /\ UNCHANGED <<c, inner, calls, ended>>

TakeToken_Keep(g) ==                \* mutant: the token stays in the channel
  /\ Go(g, "receive", "calling")
  /\ c = "token"
  /\ calls' = calls + 1
  /\ UNCHANGED <<c, inner, ended>>

\* <-o.c yields the token, ok is true: f is called
TakeToken(g) ==
  /\ Go(g, "receive", "calling")
  /\ c = "token"
  /\ c' = "empty"
  /\ calls' = calls + 1
  /\ UNCHANGED <<inner, ended>>

SkipCall_NoWait(g) ==               \* mutant: a select with a default
  /\ Go(g, "receive", IF g \in inner THEN "calling" ELSE "idle")
  /\ c # "token"
  /\ UNCHANGED <<c, inner, calls, ended>>

\* <-o.c on the closed channel, ok is false: Do returns, to f if f called it
SkipCall(g) ==
  /\ Go(g, "receive", IF g \in inner THEN "calling" ELSE "idle")
  /\ c = "closed"
  /\ UNCHANGED <<c, inner, calls, ended>>

FEnds_PanicLoses(g) ==              \* mutant: close(o.c) after f(), not deferred
  /\ \E b \in Bodies \ {"reenter"} :
       Go(g, "calling", IF b = "panic" THEN "idle" ELSE "exit")
  /\ ended' = TRUE
  /\ UNCHANGED <<c, inner, calls>>

\* f returns or panics; the deferred close is next either way
FEnds(g) ==
  /\ Bodies \ {"reenter"} # {}
  /\ Go(g, "calling", "exit")
  /\ ended' = TRUE
  /\ UNCHANGED <<c, inner, calls>>

FReenters(g) ==
  /\ "reenter" \in Bodies
  /\ Go(g, "calling", "receive")
  /\ inner' = inner \union {g}
  /\ UNCHANGED <<c, calls, ended>>

\* close(o.c) and out of Do; a panic of f goes on to the caller, who recovers
CloseAndReturn(g) ==
  /\ Go(g, "exit", "idle")
  /\ c' = "closed"
  /\ inner' = inner \ {g}
  /\ UNCHANGED <<calls, ended>>

Step(g) ==
  \/ TakeToken(g) \/ SkipCall(g)
  \/ FEnds(g) \/ FReenters(g)
  \/ CloseAndReturn(g)

Next == \E g \in Goroutines : CallDo(g) \/ Step(g)

-------------------------------------------------------------------------------
Returns(g) == pc[g] # "idle" /\ pc'[g] = "idle"

(* The doc comment of Do, lines 22 and 31: however many Do race, and also    *)
(* when f panics, f is called at most once for this Once.                    *)
CalledOnce == calls <= 1

(* Line 28: no Do returns until the one call to f has ended.                 *)
NoReturnBeforeF == \A g \in Goroutines : Returns(g) => ended

(* Lines 28-29: once f has called Do, neither that call nor any other Do     *)
(* ever returns.                                                             *)
ReentryDeadlocks == inner # {} => \A g \in Goroutines : ~Returns(g)
===============================================================================
