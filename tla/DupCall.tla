-------------------------------- MODULE DupCall -------------------------------
(***************************************************************************)
(* dupcall.Call: concurrent calls of Do share one run of a callback.  The  *)
(* first Do makes a group and starts a goroutine, the group's runner, that *)
(* runs cb with the context of that Do, closes the group's channel and     *)
(* clears o.group; a Do that finds a group waits for it.  Groups are       *)
(* numbered as they are made.  The mutex guards one read or write of       *)
(* o.group at a time, so each critical section is one action.              *)
(***************************************************************************)
EXTENDS Naturals, Sequences

CONSTANTS
  Callers,   \* the goroutines that call Do
  MaxCalls   \* bound: calls of Do, over all callers

VARIABLES
  group,    \* the number of o.group, 0 for nil
  groups,   \* the groups made so far: where the runner is, who started it
  pc,       \* caller -> "idle", "do" or "select"
  ctx,      \* caller -> its context: "live" or "cancelled"
  mine,     \* caller -> the group g of its Do, 0 before it has one
  left      \* calls of Do that may still be made

vars == <<group, groups, pc, ctx, mine, left>>

\* The runner runs cb, closes g.done, takes the mutex to clear o.group, ends.
RunnerLocs == {"cb", "close", "clear", "ended"}

Group == [runner: RunnerLocs, starter: Callers, ctx: {"live", "cancelled"}, done: BOOLEAN]

Go(c, from, to) == pc[c] = from /\ pc' = [pc EXCEPT ![c] = to]

Init ==
  /\ group = 0 /\ groups = <<>>
  /\ pc = [c \in Callers |-> "idle"]
  /\ ctx = [c \in Callers |-> "live"]
  /\ mine = [c \in Callers |-> 0]
  /\ left = MaxCalls

CallDo(c) ==
  /\ Go(c, "idle", "do")
  /\ left > 0 /\ left' = left - 1
  /\ UNCHANGED <<group, groups, ctx, mine>>

\* Somebody cancels the context of c's call.  cb runs with the context of the
\* Do that made its group, so this cancels cb when c is that Do.
Cancel(c) ==
  /\ pc[c] \in {"do", "select"}
  /\ ctx[c] = "live"
  /\ ctx' = [ctx EXCEPT ![c] = "cancelled"]
  /\ groups' = [i \in DOMAIN groups |->
                  IF i = mine[c] /\ groups[i].starter = c
                  THEN [groups[i] EXCEPT !.ctx = "cancelled"] ELSE groups[i]]
  /\ UNCHANGED <<group, pc, mine, left>>

-------------------------------------------------------------------------------
(* The caller                                                              *)

NewGroup(c) == [runner |-> "cb", starter |-> c, ctx |-> ctx[c], done |-> FALSE]

Start_Late(c) ==                    \* mutant: o.group is set only if it is still nil,
  /\ Go(c, "do", "select")          \* the test made before the mutex was taken
  /\ groups' = Append(groups, NewGroup(c))
  /\ group' = Len(groups')
  /\ mine' = [mine EXCEPT ![c] = Len(groups')]
  /\ UNCHANGED <<ctx, left>>

\* o.group is nil: make a group, start its runner
Start(c) ==
  /\ Go(c, "do", "select")
  /\ group = 0
  /\ groups' = Append(groups, NewGroup(c))
  /\ group' = Len(groups')
  /\ mine' = [mine EXCEPT ![c] = Len(groups')]
  /\ UNCHANGED <<ctx, left>>

\* o.group is not nil: wait for that group
Join(c) ==
  /\ Go(c, "do", "select")
  /\ group # 0
  /\ mine' = [mine EXCEPT ![c] = group]
  /\ UNCHANGED <<group, groups, ctx, left>>

Return(c) ==
  /\ Go(c, "select", "idle")
  /\ ctx' = [ctx EXCEPT ![c] = "live"]
  /\ mine' = [mine EXCEPT ![c] = 0]
  /\ UNCHANGED <<group, groups, left>>

\* case <-g.done: the fields the runner wrote
ReturnResult(c) ==
  /\ mine[c] # 0
  /\ groups[mine[c]].done
  /\ Return(c)

\* case <-ctx.Done()
ReturnCancelled(c) ==
  /\ ctx[c] = "cancelled"
  /\ Return(c)

-------------------------------------------------------------------------------
(* The runner of group i                                                   *)

RunnerAt(i, from) == groups[i].runner = from

\* cb returns, with a value, an error, or because its context is cancelled;
\* its result goes to the fields of the group
CbReturns(i) ==
  /\ RunnerAt(i, "cb")
  /\ groups' = [groups EXCEPT ![i].runner = "close"]
  /\ UNCHANGED <<group, pc, ctx, mine, left>>

CloseDone_Never(i) ==               \* mutant: the runner forgets close(g.done)
  /\ RunnerAt(i, "close")
  /\ groups' = [groups EXCEPT ![i].runner = "clear"]
  /\ UNCHANGED <<group, pc, ctx, mine, left>>

CloseDone(i) ==
  /\ RunnerAt(i, "close")
  /\ groups' = [groups EXCEPT ![i].runner = "clear", ![i].done = TRUE]
  /\ UNCHANGED <<group, pc, ctx, mine, left>>

ClearGroup(i) ==
  /\ RunnerAt(i, "clear")
  /\ groups' = [groups EXCEPT ![i].runner = "ended"]
  /\ group' = 0
  /\ UNCHANGED <<pc, ctx, mine, left>>

-------------------------------------------------------------------------------
CallerStep(c) == Start(c) \/ Join(c) \/ ReturnResult(c) \/ ReturnCancelled(c)
RunnerStep(i) == CloseDone(i) \/ ClearGroup(i)

Finished ==
  /\ left = 0 /\ \A c \in Callers : pc[c] = "idle"
  /\ \A i \in DOMAIN groups : RunnerAt(i, "ended")
  /\ UNCHANGED vars

Next ==
  \/ \E c \in Callers : CallDo(c) \/ Cancel(c) \/ CallerStep(c)
  \/ \E i \in DOMAIN groups : CbReturns(i) \/ RunnerStep(i)
  \/ Finished

Spec == Init /\ [][Next]_vars

-------------------------------------------------------------------------------
Waiting(i) == {c \in Callers : pc[c] = "select" /\ mine[c] = i}

(* README: at any moment one callback runs.  A group whose runner has not    *)
(* cleared o.group is the one o.group points to, so no runner ever clears    *)
(* the group of another and no second callback starts beside it.             *)
OneActiveGroup ==
  \A i \in DOMAIN groups : ~RunnerAt(i, "ended") => group = i

(* README and TestCall_FullCancel: when every Do that waits for a running    *)
(* callback has been cancelled, so has the callback.                         *)
AbandonedCbIsCancelled ==
  \A i \in DOMAIN groups :
    RunnerAt(i, "cb") /\ (\A c \in Waiting(i) : ctx[c] = "cancelled") =>
      groups[i].ctx = "cancelled"

(* README: a cancelled Do returns at once; it does not wait for cb.          *)
MustReturn(c) == pc[c] \in {"do", "select"} /\ ctx[c] = "cancelled"
CbRuns == \E i \in DOMAIN groups : RunnerAt(i, "cb")
===============================================================================
