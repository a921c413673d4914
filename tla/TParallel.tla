------------------------------- MODULE TParallel ------------------------------
(***************************************************************************)
(* tparallel: Run starts top-level tests one by one; a test may run        *)
(* subtests, and may call Parallel, which parks it until the function of   *)
(* its parent has ended.  Every test is a goroutine (helper); Root stands  *)
(* for the goroutine of the package's Run and its gigaParent.              *)
(*                                                                         *)
(* The channels end are unbuffered: a send and a receive on x.end are one  *)
(* joint step.  What a test function does, as far as the package sees it,  *)
(* is a script: a sequence of subtests to run and of calls of Parallel.    *)
(***************************************************************************)
EXTENDS Naturals, Sequences

CONSTANTS
  Root,       \* the gigaParent of Run
  Tests,      \* the tests
  Programs,   \* the sets of test functions Run may be called with:
              \* functions from Tests and Root to scripts
  Parallel    \* the script entry that stands for t.Parallel()

Nodes == Tests \union {Root}


VARIABLES
  script,      \* the program that runs
  pc,          \* node -> where its goroutine is
  ip,          \* node -> the entry of its script it is at
  start,       \* the tests whose field start is set
  childrens,   \* node -> its field childrens
  barrier,     \* the nodes whose channel barrier is closed
  joined       \* node -> how many children its loop over childrens received from

vars == <<script, pc, ip, start, childrens, barrier, joined>>

Locations ==
  {"unborn", "body", "run", "park", "parked", "collect", "tell", "finish", "ended"}

Go(t, from, to) == pc[t] = from /\ pc' = [pc EXCEPT ![t] = to]

Entries(t) == {script[t][i] : i \in DOMAIN script[t]}
ParentOf(t) == CHOOSE p \in Nodes : t \in Entries(p)
\* the tests of the program that runs
Used == (UNION {Entries(p) : p \in Nodes}) \ {Parallel}

Init ==
  /\ script \in Programs
  /\ pc = [t \in Nodes |-> IF t = Root THEN "body" ELSE "unborn"]
  /\ ip = [t \in Nodes |-> 1]
  /\ start = {} /\ barrier = {}
  /\ childrens = [t \in Nodes |-> <<>>]
  /\ joined = [t \in Nodes |-> 0]

AtEntry(t) == pc[t] = "body" /\ ip[t] \in DOMAIN script[t]
Entry(t) == script[t][ip[t]]

-------------------------------------------------------------------------------
\* t.Run(subtest): newT, the child's goroutine starts, t waits for its end
RunChild(t) ==
  /\ AtEntry(t) /\ Entry(t) # Parallel
  /\ pc' = [pc EXCEPT ![t] = "run", ![Entry(t)] = "body"]
  /\ UNCHANGED <<script, ip, start, childrens, barrier, joined>>

\* t.Parallel(), up to the send on t.end
CallParallel(t) ==
  /\ AtEntry(t) /\ Entry(t) = Parallel
  /\ pc' = [pc EXCEPT ![t] = "park"]
  /\ start' = start \union {t}
  /\ childrens' = [childrens EXCEPT ![ParentOf(t)] = Append(@, t)]
  /\ UNCHANGED <<script, ip, barrier, joined>>

Unpark_AnyTime(t) ==                \* mutant: the barrier is not waited for
  /\ Go(t, "parked", "body")
  /\ ip' = [ip EXCEPT ![t] = @ + 1]
  /\ UNCHANGED <<script, start, childrens, barrier, joined>>

\* <-t.parent.barrier, the end of Parallel
Unpark(t) ==
  /\ Go(t, "parked", "body")
  /\ ParentOf(t) \in barrier
  /\ ip' = [ip EXCEPT ![t] = @ + 1]
  /\ UNCHANGED <<script, start, childrens, barrier, joined>>

\* The test function has returned.  A test with parallel subtests closes its
\* barrier and collects them; Root always closes it, and receives once.
BodyEnds(t) ==
  /\ pc[t] = "body" /\ ~AtEntry(t)
  /\ pc' = [pc EXCEPT ![t] = IF childrens[t] # <<>> THEN "collect"
                             ELSE IF t = Root THEN "ended"
                             ELSE IF t \in start THEN "tell" ELSE "finish"]
  /\ barrier' = IF childrens[t] # <<>> \/ t = Root THEN barrier \union {t} ELSE barrier
  /\ UNCHANGED <<script, ip, start, childrens, joined>>

-------------------------------------------------------------------------------
(* Sends and receives on x.end                                             *)

\* <-childrens.end in Run, <-v.end in helper, <-gigaParent.end in Run
Receives(r, x) ==
  \/ pc[r] = "run" /\ Entry(r) = x
  \/ pc[r] = "collect" /\ r # Root /\ childrens[r][joined[r] + 1] = x
  \/ pc[r] = "collect" /\ r = Root /\ x = Root

\* t.end <- in Parallel, t.parent.end <- and t.end <- in helper
Sends(s, x) ==
  \/ pc[s] \in {"park", "finish"} /\ x = s
  \/ pc[s] = "tell" /\ x = ParentOf(s)

AfterSend(s) == CASE pc[s] = "park" -> "parked"
                  [] pc[s] = "tell" -> "finish"
                  [] pc[s] = "finish" -> "ended"

AfterReceive(r) ==
  IF pc[r] = "run" THEN "body"
  ELSE IF r = Root THEN "ended"
  ELSE IF joined[r] + 1 < Len(childrens[r]) THEN "collect"
  ELSE IF r \in start THEN "tell" ELSE "finish"

Sync(s, r) ==
  /\ \E x \in Nodes : Sends(s, x) /\ Receives(r, x)
  /\ pc' = [pc EXCEPT ![s] = AfterSend(s), ![r] = AfterReceive(r)]
  /\ IF pc[r] = "run"
     THEN ip' = [ip EXCEPT ![r] = @ + 1] /\ UNCHANGED joined
     ELSE joined' = [joined EXCEPT ![r] = @ + 1] /\ UNCHANGED ip
  /\ UNCHANGED <<script, start, childrens, barrier>>

-------------------------------------------------------------------------------
Step(t) == RunChild(t) \/ CallParallel(t) \/ Unpark(t) \/ BodyEnds(t)

Next ==
  \/ \E t \in Nodes : Step(t)
  \/ \E s \in Tests, r \in Nodes : Sync(s, r)

Spec == Init /\ [][Next]_vars

-------------------------------------------------------------------------------
BodyDone(t) == pc[t] \in {"collect", "tell", "finish", "ended"}

(* README lines 13 and 21-23: a parallel test goes on only when the function *)
(* of its parent (for a top-level test: the sequence of top-level tests) has  *)
(* ended.                                                                     *)
ParallelAfterParent ==
  \A t \in Used : pc[t] = "parked" /\ pc'[t] = "body" => BodyDone(ParentOf(t))

(* README lines 10-11: a test starts only when every earlier test of the     *)
(* same function has returned from its function or is blocked in Parallel.   *)
StartsInOrder ==
  \A t \in Used :
    pc[t] = "unborn" /\ pc'[t] = "body" =>
      \A i \in 1 .. (ip[ParentOf(t)] - 1) :
        LET u == script[ParentOf(t)][i] IN u # Parallel => BodyDone(u) \/ pc[u] = "parked"

\* A parallel test runs a parallel subtest.
NestedParallel ==
  \E t, u \in Used : u \in Entries(t) /\ Parallel \in Entries(t) /\ Parallel \in Entries(u)

(* Run returns, for every program in which no parallel test has a parallel   *)
(* subtest: whoever sends on an end meets a receiver.                        *)
RunEnded == pc[Root] = "ended"

(* README lines 16 and 18: Run returns when every test has finished: its     *)
(* function and all of its subtests.                                         *)
RunWaitsForAll == pc[Root] = "ended" => \A t \in Used : BodyDone(t)
===============================================================================
