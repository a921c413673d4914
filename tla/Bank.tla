--------------------------------- MODULE Bank ---------------------------------
(***************************************************************************)
(* What the ledger promises: accounts that are opened, and deposits,        *)
(* withdrawals and transfers that happen at once and as a whole, or not at  *)
(* all.  A balance is a number of 0 .. MaxMoney, or None for no account;    *)
(* cash is what was paid in and not withdrawn.  Ledger.tla implements it.   *)
(***************************************************************************)
EXTENDS Integers

CONSTANTS Accounts, Amounts, MaxMoney, None

VARIABLES balance, cash

vars == <<balance, cash>>

Money == 0 .. MaxMoney

Init == balance = [a \in Accounts |-> None] /\ cash = 0

Open(a) ==
  /\ balance[a] = None
  /\ balance' = [balance EXCEPT ![a] = 0]
  /\ UNCHANGED cash

Deposit(a, m) ==
  /\ balance[a] # None /\ balance[a] + m \in Money
  /\ balance' = [balance EXCEPT ![a] = @ + m]
  /\ cash' = cash + m

Withdraw(a, m) ==
  /\ balance[a] # None /\ balance[a] - m \in Money
  /\ balance' = [balance EXCEPT ![a] = @ - m]
  /\ cash' = cash - m

Transfer(a, b, m) ==
  /\ a # b
  /\ balance[a] # None /\ balance[a] - m \in Money
  /\ balance[b] # None /\ balance[b] + m \in Money
  /\ balance' = [balance EXCEPT ![a] = @ - m, ![b] = @ + m]
  /\ UNCHANGED cash

Next ==
  \E a \in Accounts :
    \/ Open(a)
    \/ \E m \in Amounts :
         \/ Deposit(a, m) \/ Withdraw(a, m)
         \/ \E b \in Accounts : Transfer(a, b, m)

Spec == Init /\ [][Next]_vars
===============================================================================
