--------------------------------- MODULE Ledger --------------------------------
(***************************************************************************)
(* ledger.Ledger over Postgres.  A call of Deposit, Withdraw or Transfer is *)
(* a transaction of a few statements; the database is external: each        *)
(* statement sees the rows committed before it (read committed), SELECT FOR *)
(* UPDATE and UPDATE lock the row until the transaction ends, wait for a    *)
(* row another one holds, and then go on with its latest balance.  The      *)
(* table's CHECK and the width of BIGINT make an UPDATE fail.               *)
(*                                                                         *)
(* CreateAccount is one statement.  GetBalance, and calls with an amount of *)
(* at most zero or two equal accounts, change nothing and are left out.     *)
(***************************************************************************)
EXTENDS Integers

CONSTANTS
  Calls,      \* the concurrent callers
  Accounts,   \* the account ids, in their order
  Amounts,    \* the amounts that are passed
  MaxMoney,   \* the largest BIGINT
  None,       \* the balance of an account that does not exist
  Nobody      \* the holder of a row that is not locked

ASSUME AccountsOrdered == Accounts \subseteq Nat
ASSUME AmountsPositive == Amounts \subseteq Nat \ {0}
ASSUME MoneyType == MaxMoney \in Nat /\ None \notin Int
ASSUME NobodyType == Nobody \notin Calls

VARIABLES
  balance,   \* account -> committed balance, or None
  holder,    \* account -> the call that locks its row, or Nobody
  pc,        \* call -> its next statement
  op,        \* call -> what it was called with
  pend,      \* call -> account -> what its UPDATEs added so far
  missed,    \* history: call -> accounts its locking SELECT did not find
  cash       \* history: deposits less withdrawals that were committed

vars == <<balance, holder, pc, op, pend, missed, cash>>

Money == 0 .. MaxMoney

\* A transfer is between two accounts, the others name one.
Ops == {o \in [kind: {"deposit", "withdraw", "transfer"},
               from: Accounts, to: Accounts, amount: Amounts] :
          o.kind = "transfer" <=> o.from # o.to}
NoOp == [kind |-> "none"]

Statements == {"exists", "lockfrom", "lock1", "lock2", "checkfrom", "checkto", "sub", "add", "commit"}

NoChange == [a \in Accounts |-> 0]

Go(t, from, to) == pc[t] = from /\ pc' = [pc EXCEPT ![t] = to]

Init ==
  /\ balance = [a \in Accounts |-> None]
  /\ holder = [a \in Accounts |-> Nobody]
  /\ pc = [t \in Calls |-> "idle"]
  /\ op = [t \in Calls |-> NoOp]
  /\ pend = [t \in Calls |-> NoChange]
  /\ missed = [t \in Calls |-> {}]
  /\ cash = 0

Exists(a) == balance[a] # None
CanLock(t, a) == holder[a] \in {Nobody, t}

\* INSERT ... ON CONFLICT DO NOTHING, for an account that is not there
CreateAccount(a) ==
  /\ ~Exists(a)
  /\ balance' = [balance EXCEPT ![a] = 0]
  /\ UNCHANGED <<holder, pc, op, pend, missed, cash>>

\* The checks of the arguments (Ops holds what passes them) and BeginTx; the
\* three methods begin alike.  The first statement is next.
Begin(t) ==
  /\ pc[t] = "idle"
  /\ \E o \in Ops :
       /\ op' = [op EXCEPT ![t] = o]
       /\ pc' = [pc EXCEPT ![t] = CASE o.kind = "deposit" -> "exists"
                                    [] o.kind = "withdraw" -> "lockfrom"
                                    [] o.kind = "transfer" -> "lock1"]
  /\ UNCHANGED <<balance, holder, pend, missed, cash>>

\* The transaction ends and the call returns.
EndTx(t) ==
  /\ pc' = [pc EXCEPT ![t] = "idle"]
  /\ op' = [op EXCEPT ![t] = NoOp]
  /\ holder' = [a \in Accounts |-> IF holder[a] = t THEN Nobody ELSE holder[a]]
  /\ pend' = [pend EXCEPT ![t] = NoChange]
  /\ missed' = [missed EXCEPT ![t] = {}]

Rollback_Leaks(t) ==                \* mutant: no deferred Rollback
  /\ pc' = [pc EXCEPT ![t] = "idle"]
  /\ op' = [op EXCEPT ![t] = NoOp]
  /\ UNCHANGED <<balance, holder, pend, missed, cash>>

\* return of an error: the deferred Rollback
Rollback(t) == EndTx(t) /\ UNCHANGED <<balance, cash>>

-------------------------------------------------------------------------------
(* Statements                                                              *)

LockRow_NotLocked(t, a, from, to) ==   \* mutant: without FOR UPDATE
  /\ Go(t, from, to)
  /\ UNCHANGED <<balance, holder, op, pend, missed, cash>>

\* SELECT ... FOR UPDATE whose result is ignored: no row, no lock
LockRow(t, a, from, to) ==
  /\ Go(t, from, to)
  /\ IF Exists(a)
     THEN /\ CanLock(t, a) /\ holder' = [holder EXCEPT ![a] = t]
          /\ UNCHANGED missed
     ELSE missed' = [missed EXCEPT ![t] = @ \union {a}] /\ UNCHANGED holder
  /\ UNCHANGED <<balance, op, pend, cash>>

\* UPDATE: takes the row, adds to its latest balance, and checks the result
Update(t, a, amount, from, to) ==
  /\ pc[t] = from
  /\ CanLock(t, a)
  /\ IF balance[a] + pend[t][a] + amount \in Money
     THEN /\ Go(t, from, to)
          /\ pend' = [pend EXCEPT ![t][a] = @ + amount]
          /\ holder' = [holder EXCEPT ![a] = t]
          /\ UNCHANGED <<balance, op, missed, cash>>
     ELSE Rollback(t)

\* SELECT EXISTS, of Deposit and of Transfer
CheckExists(t, from, to) ==
  /\ pc[t] = from
  /\ IF Exists(op[t].to)
     THEN Go(t, from, to) /\ UNCHANGED <<balance, holder, op, pend, missed, cash>>
     ELSE Rollback(t)

DepositExists(t) == CheckExists(t, "exists", "add")

HasMoney(t) == Exists(op[t].from) /\ balance[op[t].from] >= op[t].amount

\* SELECT balance ... FOR UPDATE of Withdraw, and the comparison
WithdrawCheck(t) ==
  /\ pc[t] = "lockfrom"
  /\ Exists(op[t].from) => CanLock(t, op[t].from)
  /\ IF HasMoney(t)
     THEN /\ Go(t, "lockfrom", "sub")
          /\ holder' = [holder EXCEPT ![op[t].from] = t]
          /\ UNCHANGED <<balance, op, pend, missed, cash>>
     ELSE Rollback(t)

FirstOf_From(o) == o.from           \* mutant: the locks in the order of the call
\* first and second, ordered
FirstOf(o)  == IF o.from < o.to THEN o.from ELSE o.to
SecondOf(o) == IF FirstOf(o) = o.from THEN o.to ELSE o.from

Lock1(t) == pc[t] = "lock1" /\ LockRow(t, FirstOf(op[t]), "lock1", "lock2")
Lock2(t) == pc[t] = "lock2" /\ LockRow(t, SecondOf(op[t]), "lock2", "checkfrom")

TransferCheckFrom(t) ==
  /\ pc[t] = "checkfrom"
  /\ IF HasMoney(t)
     THEN Go(t, "checkfrom", "checkto") /\ UNCHANGED <<balance, holder, op, pend, missed, cash>>
     ELSE Rollback(t)

TransferCheckTo(t) == CheckExists(t, "checkto", "sub")

Sub_OutsideTx(t) ==                 \* mutant: l.db.ExecContext for tx.ExecContext
  /\ Go(t, "sub", IF op[t].kind = "transfer" THEN "add" ELSE "commit")
  /\ balance[op[t].from] - op[t].amount \in Money
  /\ balance' = [balance EXCEPT ![op[t].from] = @ - op[t].amount]
  /\ UNCHANGED <<holder, op, pend, missed, cash>>

Sub(t) ==
  /\ pc[t] = "sub"
  /\ Update(t, op[t].from, -op[t].amount, "sub",
            IF op[t].kind = "transfer" THEN "add" ELSE "commit")

Add(t) == pc[t] = "add" /\ Update(t, op[t].to, op[t].amount, "add", "commit")

Commit(t) ==
  /\ pc[t] = "commit"
  /\ balance' = [a \in Accounts |-> IF Exists(a) THEN balance[a] + pend[t][a] ELSE None]
  /\ cash' = cash + (CASE op[t].kind = "deposit"  -> op[t].amount
                       [] op[t].kind = "withdraw" -> -op[t].amount
                       [] op[t].kind = "transfer" -> 0)
  /\ EndTx(t)

Statement(t) ==
  \/ DepositExists(t) \/ WithdrawCheck(t)
  \/ Lock1(t) \/ Lock2(t) \/ TransferCheckFrom(t) \/ TransferCheckTo(t)
  \/ Sub(t) \/ Add(t) \/ Commit(t)

-------------------------------------------------------------------------------
(* The database                                                            *)

\* The row that t's next statement locks.
Wants(t) ==
  CASE pc[t] \in {"lockfrom", "sub"} -> {op[t].from}
    [] pc[t] = "lock1" -> {FirstOf(op[t])}
    [] pc[t] = "lock2" -> {SecondOf(op[t])}
    [] pc[t] = "add"   -> {op[t].to}
    [] OTHER           -> {}

WaitsFor(t, u) == t # u /\ \E a \in Wants(t) : Exists(a) /\ holder[a] = u

Deadlocked(S) ==
  /\ S # {}
  /\ \A t \in S : (\E u \in S : WaitsFor(t, u)) /\ (\E u \in S : WaitsFor(u, t))

\* The database aborts a transaction of a deadlock.
Victim(t) ==
  /\ \E S \in SUBSET Calls : t \in S /\ Deadlocked(S)
  /\ Rollback(t)

\* The context is cancelled, or the connection is lost.
Cancel(t) == pc[t] # "idle" /\ Rollback(t)

Next ==
  \/ \E a \in Accounts : CreateAccount(a)
  \/ \E t \in Calls : Begin(t) \/ Statement(t) \/ Victim(t) \/ Cancel(t)

\* Statements run, a row goes to its waiters in turn (so none is passed over
\* for ever: strong fairness), and the database resolves deadlocks.
Fairness == \A t \in Calls : SF_vars(Statement(t)) /\ WF_vars(Victim(t))

Spec == Init /\ [][Next]_vars
FairSpec == Spec /\ Fairness

-------------------------------------------------------------------------------
TypeOK ==
  /\ balance \in [Accounts -> Money \union {None}]
  /\ holder \in [Accounts -> Calls \union {Nobody}]
  /\ pc \in [Calls -> Statements \union {"idle"}]
  /\ op \in [Calls -> Ops \union {NoOp}]
  /\ pend \in [Calls -> [Accounts -> Int]]
  /\ missed \in [Calls -> SUBSET Accounts]
  /\ cash \in Int

(* README: all operations are atomic, and no balance goes below zero.  The   *)
(* ledger implements the bank whose operations are single steps.             *)
Atomic == INSTANCE Bank
ImplementsBank == Atomic!Spec

(* README: a withdrawal or transfer without the money returns ErrNoMoney.    *)
(* The UPDATE that takes the money finds it there, and does not fail on the  *)
(* CHECK of the table, unless the account was opened during the call.        *)
MoneyStaysThere ==
  \A t \in Calls :
    pc[t] = "sub" /\ op[t].from \notin missed[t] => balance[op[t].from] >= op[t].amount

(* README: no deadlocks in the database.  Transactions wait for each other   *)
(* in a circle only if an account was opened after one of them had tried to  *)
(* lock its row.                                                             *)
DeadlockNeedsNewAccount ==
  \A S \in SUBSET Calls : Deadlocked(S) => \E t \in S : missed[t] # {}

(* Every call returns.                                                       *)
Returns == \A t \in Calls : pc[t] # "idle" ~> pc[t] = "idle"

(* README, as it stands: the implementation creates no deadlocks.            *)
NoDeadlock == \A S \in SUBSET Calls : ~Deadlocked(S)
===============================================================================
