------------------------------ MODULE LedgerProofs -----------------------------
(***************************************************************************)
(* Theorems about Ledger, for any set of callers, any accounts, any amounts *)
(* and any limit of a balance.                                             *)
(***************************************************************************)
EXTENDS Ledger, WellFoundedInduction, TLAPS

(***************************************************************************)
(* The inductive invariant.  A locked row exists.  What a transaction has   *)
(* changed is in rows it holds, and leaves a legal balance there (Booked).  *)
(* Phase(t) is what t's statements so far have established: which rows it   *)
(* holds or has missed, which it knows to exist, and what it has booked.    *)
(***************************************************************************)
Held(t) == {a \in Accounts : holder[a] = t}
Secured(t, a) == holder[a] = t \/ a \in missed[t]

Booked(t) ==
  \A a \in Accounts : pend[t][a] # 0 =>
    holder[a] = t /\ Exists(a) /\ balance[a] + pend[t][a] \in Money

Free(t) == Held(t) = {} /\ pend[t] = NoChange /\ missed[t] = {}
Kind(t, kinds) == op[t] \in Ops /\ op[t].kind \in kinds
BothSecured(t) == Secured(t, op[t].from) /\ Secured(t, op[t].to)

Funded(t) ==
  /\ Exists(op[t].from)
  /\ op[t].from \notin missed[t] => balance[op[t].from] >= op[t].amount

\* What the UPDATEs of an operation add.
Taken(o) == [NoChange EXCEPT ![o.from] = -o.amount]
Given(o, f) == [f EXCEPT ![o.to] = o.amount]
Net(o) == CASE o.kind = "deposit"  -> Given(o, NoChange)
            [] o.kind = "withdraw" -> Taken(o)
            [] o.kind = "transfer" -> Given(o, Taken(o))

Phase(t) ==
  /\ pc[t] = "idle"     => Free(t)
  /\ pc[t] = "exists"   => Free(t) /\ Kind(t, {"deposit"})
  /\ pc[t] = "lockfrom" => Free(t) /\ Kind(t, {"withdraw"})
  /\ pc[t] = "lock1"    => Free(t) /\ Kind(t, {"transfer"})
  /\ pc[t] = "lock2"    => /\ Kind(t, {"transfer"}) /\ pend[t] = NoChange
                           /\ Held(t) \subseteq {FirstOf(op[t])} /\ Secured(t, FirstOf(op[t]))
  /\ pc[t] \in {"checkfrom", "checkto"} =>
       Kind(t, {"transfer"}) /\ pend[t] = NoChange /\ BothSecured(t)
  /\ pc[t] = "checkto" => Funded(t)
  /\ pc[t] = "sub" => /\ Kind(t, {"withdraw", "transfer"}) /\ pend[t] = NoChange
                      /\ BothSecured(t) /\ Funded(t) /\ Exists(op[t].to)
  /\ pc[t] = "add" => /\ Kind(t, {"deposit", "transfer"}) /\ Exists(op[t].to)
                      /\ op[t].kind = "deposit" => Free(t)
                      /\ op[t].kind = "transfer" => pend[t] = Taken(op[t]) /\ BothSecured(t)
  /\ pc[t] = "commit" => Kind(t, {"deposit", "withdraw", "transfer"}) /\ pend[t] = Net(op[t])

IInv ==
  /\ TypeOK
  /\ \A a \in Accounts : holder[a] # Nobody => Exists(a)
  /\ \A t \in Calls : Booked(t) /\ Phase(t)

-------------------------------------------------------------------------------
(* What a step of another call leaves as it is. *)
Frame(t) ==
  /\ pc'[t] = pc[t] /\ op'[t] = op[t] /\ pend'[t] = pend[t] /\ missed'[t] = missed[t]
  /\ \A a \in Accounts : /\ holder'[a] = t <=> holder[a] = t
                         /\ Exists(a) => Exists(a)'
                         /\ holder[a] = t => balance'[a] = balance[a]

LEMMA OpFields ==
  ASSUME NEW o \in Ops
  PROVE  /\ o.from \in Accounts /\ o.to \in Accounts /\ o.amount \in Nat /\ o.amount > 0
         /\ o.kind \in {"deposit", "withdraw", "transfer"}
         /\ (o.kind = "transfer") <=> (o.from # o.to)
<1>1. /\ o \in [kind: {"deposit", "withdraw", "transfer"},
                 from: Accounts, to: Accounts, amount: Amounts]
      /\ (o.kind = "transfer") <=> (o.from # o.to)
  BY Zenon DEF Ops
<1>2. o.from \in Accounts /\ o.to \in Accounts /\ o.amount \in Amounts
      /\ o.kind \in {"deposit", "withdraw", "transfer"}
  BY <1>1
<1>3. o.amount \in Nat /\ o.amount > 0
  <2>1. o.amount \in Nat \ {0}
    BY <1>2, AmountsPositive, Zenon
  <2> QED BY <2>1
<1> QED BY <1>1, <1>2, <1>3

LEMMA FirstSecond ==
  ASSUME NEW o \in Ops
  PROVE  /\ FirstOf(o) \in Accounts /\ SecondOf(o) \in Accounts
         /\ {FirstOf(o), SecondOf(o)} = {o.from, o.to}
         /\ o.kind = "transfer" => FirstOf(o) < SecondOf(o)
<1>1. o.from \in Nat /\ o.to \in Nat /\ o.from \in Accounts /\ o.to \in Accounts
  BY OpFields, AccountsOrdered
<1>2. o.kind = "transfer" => o.from # o.to
  BY OpFields
<1>3. CASE o.from < o.to
  BY <1>1, <1>2, <1>3 DEF FirstOf, SecondOf
<1>4. CASE ~(o.from < o.to)
  BY <1>1, <1>2, <1>4 DEF FirstOf, SecondOf
<1> QED BY <1>3, <1>4

LEMMA FrameHeld ==
  ASSUME NEW t \in Calls, Frame(t)
  PROVE  Held(t)' = Held(t)
BY DEF Frame, Held

(* A row of a call that has neither been missed nor lost keeps its balance, *)
(* so what a call knows survives the steps of the others.                   *)
LEMMA FrameKeeps ==
  ASSUME IInv, NEW t \in Calls, Frame(t)
  PROVE  (Booked(t) /\ Phase(t))'
<1> USE DEF IInv
<1>1. Booked(t)'
  BY DEF Booked, Frame
<1>2. Free(t) => Free(t)'
  BY FrameHeld DEF Free, Frame
<1>3. ASSUME NEW kinds, Kind(t, kinds) PROVE Kind(t, kinds)'
  BY <1>3 DEF Kind, Frame
<1>4. ASSUME NEW a \in Accounts, Secured(t, a) PROVE Secured(t, a)'
  BY <1>4 DEF Secured, Frame
<1>5. Kind(t, {"deposit", "withdraw", "transfer"}) /\ BothSecured(t) => BothSecured(t)'
  <2>1. op[t] \in Ops => op[t].from \in Accounts /\ op[t].to \in Accounts
    BY OpFields
  <2>2. op'[t] = op[t]
    BY DEF Frame
  <2> QED BY <1>4, <2>1, <2>2 DEF BothSecured, Kind, Secured, Frame
<1>6. Kind(t, {"deposit", "withdraw", "transfer"}) /\ BothSecured(t) /\ Funded(t) => Funded(t)'
  <2>1. op[t] \in Ops => op[t].from \in Accounts /\ op[t].to \in Accounts
    BY OpFields
  <2>2. op'[t] = op[t]
    BY DEF Frame
  <2> QED BY <2>1, <2>2 DEF BothSecured, Funded, Kind, Secured, Frame
<1>7. op[t] \in Ops /\ Exists(op[t].to) => Exists(op[t].to)'
  BY OpFields DEF Frame
<1>8. op[t] \in Ops => FirstOf(op[t]) \in Accounts
  BY FirstSecond
<1>9. pc'[t] = pc[t] /\ pend'[t] = pend[t] /\ op'[t] = op[t] /\ Held(t)' = Held(t)
  BY FrameHeld DEF Frame
<1>10. Phase(t)'
  <2>1. CASE pc[t] \in {"idle", "exists", "lockfrom", "lock1"}
    BY <2>1, <1>2, <1>3, <1>9 DEF Phase
  <2>2. CASE pc[t] = "lock2"
    BY <2>2, <1>3, <1>4, <1>8, <1>9 DEF Phase, Kind
  <2>3. CASE pc[t] \in {"checkfrom", "checkto"}
    <3>1. Kind(t, {"deposit", "withdraw", "transfer"})
      BY <2>3 DEF Phase, Kind
    <3> QED BY <2>3, <3>1, <1>3, <1>5, <1>6, <1>9 DEF Phase
  <2>4. CASE pc[t] = "sub"
    <3>1. Kind(t, {"deposit", "withdraw", "transfer"})
      BY <2>4 DEF Phase, Kind
    <3> QED BY <2>4, <3>1, <1>3, <1>5, <1>6, <1>7, <1>9 DEF Phase, Kind
  <2>5. CASE pc[t] = "add"
    <3>1. Kind(t, {"deposit", "withdraw", "transfer"})
      BY <2>5 DEF Phase, Kind
    <3> QED BY <2>5, <3>1, <1>2, <1>3, <1>5, <1>7, <1>9 DEF Phase, Kind
  <2>6. CASE pc[t] = "commit"
    BY <2>6, <1>3, <1>9 DEF Phase
  <2> QED BY <2>1, <2>2, <2>3, <2>4, <2>5, <2>6 DEF TypeOK, Statements
<1> QED BY <1>1, <1>10

-------------------------------------------------------------------------------
(* What a step of a call has to do to keep the invariant. *)
RowsExist == \A a \in Accounts : holder[a] # Nobody => Exists(a)
Keeps(t) ==
  /\ TypeOK' /\ RowsExist'
  /\ Booked(t)' /\ Phase(t)'
  /\ \A u \in Calls \ {t} : Frame(u)

LEMMA KeepsIInv == ASSUME IInv, NEW t \in Calls, Keeps(t) PROVE IInv'
<1>1. ASSUME NEW u \in Calls PROVE (Booked(u) /\ Phase(u))'
  <2>1. CASE u = t
    BY <2>1 DEF Keeps
  <2>2. CASE u # t
    BY <2>2, FrameKeeps DEF Keeps
  <2> QED BY <2>1, <2>2
<1> QED BY <1>1 DEF Keeps, RowsExist, IInv

LEMMA NoChangeFacts ==
  /\ NoChange \in [Accounts -> Int]
  /\ \A a \in Accounts : NoChange[a] = 0
BY DEF NoChange

LEMMA TypesNext ==
  ASSUME TypeOK, UNCHANGED <<balance, cash>>, NEW t \in Calls,
         NEW p \in Statements \union {"idle"}, pc' = [pc EXCEPT ![t] = p],
         holder' \in [Accounts -> Calls \union {Nobody}],
         op' \in [Calls -> Ops \union {NoOp}],
         pend' \in [Calls -> [Accounts -> Int]],
         missed' \in [Calls -> SUBSET Accounts]
  PROVE  TypeOK'
BY DEF TypeOK

(* The end of a transaction. *)
LEMMA Ended ==
  ASSUME TypeOK, NEW t \in Calls, EndTx(t)
  PROVE  /\ Booked(t)' /\ Phase(t)'
         /\ holder' \in [Accounts -> Calls \union {Nobody}]
         /\ pc' \in [Calls -> Statements \union {"idle"}]
         /\ op' \in [Calls -> Ops \union {NoOp}]
         /\ pend' \in [Calls -> [Accounts -> Int]]
         /\ missed' \in [Calls -> SUBSET Accounts]
         /\ \A a \in Accounts : holder'[a] \in {holder[a], Nobody}
         /\ \A u \in Calls \ {t} :
              /\ pc'[u] = pc[u] /\ op'[u] = op[u] /\ pend'[u] = pend[u] /\ missed'[u] = missed[u]
              /\ \A a \in Accounts : holder'[a] = u <=> holder[a] = u
<1> USE NobodyType, NoChangeFacts DEF TypeOK, EndTx
<1>1. pc'[t] = "idle" /\ op'[t] = NoOp /\ pend'[t] = NoChange /\ missed'[t] = {}
  OBVIOUS
<1>2. \A a \in Accounts : holder'[a] # t
  OBVIOUS
<1>3. Booked(t)'
  BY <1>1 DEF Booked
<1>4. Free(t)'
  BY <1>1, <1>2 DEF Free, Held
<1>5. Phase(t)'
  BY <1>1, <1>4 DEF Phase
<1>6. holder' \in [Accounts -> Calls \union {Nobody}]
  OBVIOUS
<1>7. /\ pc' \in [Calls -> Statements \union {"idle"}] /\ op' \in [Calls -> Ops \union {NoOp}]
      /\ pend' \in [Calls -> [Accounts -> Int]] /\ missed' \in [Calls -> SUBSET Accounts]
  OBVIOUS
<1>8. \A a \in Accounts : holder'[a] \in {holder[a], Nobody}
  OBVIOUS
<1>9. ASSUME NEW u \in Calls \ {t}
      PROVE  /\ pc'[u] = pc[u] /\ op'[u] = op[u] /\ pend'[u] = pend[u] /\ missed'[u] = missed[u]
             /\ \A a \in Accounts : holder'[a] = u <=> holder[a] = u
  OBVIOUS
<1> QED BY <1>3, <1>5, <1>6, <1>7, <1>8, <1>9

LEMMA RollbackKeeps == ASSUME IInv, NEW t \in Calls, Rollback(t) PROVE Keeps(t)
<1> USE DEF IInv, Rollback
<1>1. TypeOK'
  BY Ended DEF TypeOK
<1>2. RowsExist'
  BY Ended, NobodyType DEF RowsExist, Exists
<1>3. ASSUME NEW u \in Calls \ {t} PROVE Frame(u)
  BY Ended DEF Frame, Exists
<1> QED BY <1>1, <1>2, <1>3, Ended DEF Keeps

(* A step that touches no row, of a call that knows what the next statement *)
(* needs.                                                                  *)
LEMMA GoKeeps ==
  ASSUME IInv, NEW t \in Calls, NEW p \in Statements, pc' = [pc EXCEPT ![t] = p],
         UNCHANGED <<balance, holder, op, pend, missed, cash>>, Phase(t)'
  PROVE  Keeps(t)
<1>1. TypeOK'
  BY TypesNext DEF IInv, TypeOK
<1>2. RowsExist' /\ Booked(t)'
  BY DEF IInv, RowsExist, Exists, Booked
<1>3. ASSUME NEW u \in Calls \ {t} PROVE Frame(u)
  BY DEF Frame, Exists, IInv, TypeOK
<1> QED BY <1>1, <1>2, <1>3 DEF Keeps

-------------------------------------------------------------------------------
(* The steps, one by one. *)

LEMMA BeginKeeps == ASSUME IInv, NEW t \in Calls, Begin(t) PROVE Keeps(t)
<1> USE DEF IInv, TypeOK
<1>1. PICK o \in Ops :
        /\ op' = [op EXCEPT ![t] = o]
        /\ pc' = [pc EXCEPT ![t] = CASE o.kind = "deposit" -> "exists"
                                     [] o.kind = "withdraw" -> "lockfrom"
                                     [] o.kind = "transfer" -> "lock1"]
        /\ UNCHANGED <<balance, holder, pend, missed, cash>>
  BY DEF Begin
<1>2. Free(t)' /\ op'[t] = o /\ Booked(t)'
  BY <1>1, NoChangeFacts DEF Begin, Phase, Free, Held, Booked, Exists
<1>3. o.kind \in {"deposit", "withdraw", "transfer"}
  BY OpFields
<1>4. \/ o.kind = "deposit" /\ pc'[t] = "exists"
      \/ o.kind = "withdraw" /\ pc'[t] = "lockfrom"
      \/ o.kind = "transfer" /\ pc'[t] = "lock1"
  BY <1>1, <1>3
<1>5. Phase(t)'
  BY <1>2, <1>4 DEF Phase, Kind
<1>6. /\ pc' = [pc EXCEPT ![t] = pc'[t]] /\ pc'[t] \in Statements
      /\ op' \in [Calls -> Ops \union {NoOp}]
  BY <1>1, <1>4 DEF Statements
<1>7. TypeOK'
  BY <1>1, <1>6, TypesNext
<1>8. RowsExist'
  BY <1>1 DEF RowsExist, Exists
<1>9. ASSUME NEW u \in Calls \ {t} PROVE Frame(u)
  BY <1>1 DEF Frame, Exists
<1> QED BY <1>2, <1>5, <1>7, <1>8, <1>9 DEF Keeps

LEMMA DepositExistsKeeps == ASSUME IInv, NEW t \in Calls, DepositExists(t) PROVE Keeps(t)
<1>1. CASE ~Exists(op[t].to)
  BY <1>1, RollbackKeeps DEF DepositExists, CheckExists
<1>2. CASE Exists(op[t].to)
  <2>1. pc[t] = "exists" /\ pc' = [pc EXCEPT ![t] = "add"]
        /\ UNCHANGED <<balance, holder, op, pend, missed, cash>>
    BY <1>2 DEF DepositExists, CheckExists, Go
  <2>2. Free(t)' /\ Kind(t, {"deposit"})' /\ Exists(op[t].to)' /\ pc'[t] = "add"
    BY <1>2, <2>1 DEF IInv, TypeOK, Phase, Free, Held, Kind, Exists
  <2>3. Phase(t)'
    BY <2>2 DEF Phase, Kind
  <2> QED BY <2>1, <2>3, GoKeeps DEF Statements
<1> QED BY <1>1, <1>2

LEMMA TransferChecksKeep ==
  ASSUME IInv, NEW t \in Calls, TransferCheckFrom(t) \/ TransferCheckTo(t) PROVE Keeps(t)
<1>1. CASE TransferCheckFrom(t) /\ HasMoney(t)
  <2>1. pc[t] = "checkfrom" /\ pc' = [pc EXCEPT ![t] = "checkto"]
        /\ UNCHANGED <<balance, holder, op, pend, missed, cash>>
    BY <1>1 DEF TransferCheckFrom, Go
  <2>2. pc'[t] = "checkto" /\ Kind(t, {"transfer"})' /\ pend'[t] = NoChange /\ BothSecured(t)'
    BY <2>1 DEF IInv, TypeOK, Phase, Kind, BothSecured, Secured
  <2>3. Funded(t)'
    BY <1>1, <2>1 DEF HasMoney, Funded, Exists
  <2>4. Phase(t)'
    BY <2>2, <2>3 DEF Phase
  <2> QED BY <2>1, <2>4, GoKeeps DEF Statements
<1>2. CASE TransferCheckTo(t) /\ Exists(op[t].to)
  <2>1. pc[t] = "checkto" /\ pc' = [pc EXCEPT ![t] = "sub"]
        /\ UNCHANGED <<balance, holder, op, pend, missed, cash>>
    BY <1>2 DEF TransferCheckTo, CheckExists, Go
  <2>2. pc'[t] = "sub" /\ Kind(t, {"withdraw", "transfer"})' /\ pend'[t] = NoChange /\ BothSecured(t)'
    BY <2>1 DEF IInv, TypeOK, Phase, Kind, BothSecured, Secured
  <2>3. Funded(t)' /\ Exists(op[t].to)'
    BY <1>2, <2>1 DEF IInv, Phase, Funded, Exists
  <2>4. Phase(t)'
    BY <2>2, <2>3 DEF Phase
  <2> QED BY <2>1, <2>4, GoKeeps DEF Statements
<1>3. CASE ~(TransferCheckFrom(t) /\ HasMoney(t)) /\ ~(TransferCheckTo(t) /\ Exists(op[t].to))
  BY <1>3, RollbackKeeps DEF TransferCheckFrom, TransferCheckTo, CheckExists
<1> QED BY <1>1, <1>2, <1>3

(* A statement that locks at most the row a, which nobody else holds. *)
LEMMA LockKeeps ==
  ASSUME IInv, NEW t \in Calls, NEW a \in Accounts, NEW p \in Statements,
         pc' = [pc EXCEPT ![t] = p],
         \/ holder' = holder
         \/ Exists(a) /\ CanLock(t, a) /\ holder' = [holder EXCEPT ![a] = t],
         pend' \in [Calls -> [Accounts -> Int]], missed' \in [Calls -> SUBSET Accounts],
         \A u \in Calls \ {t} : pend'[u] = pend[u] /\ missed'[u] = missed[u],
         UNCHANGED <<balance, op, cash>>, Booked(t)', Phase(t)'
  PROVE  Keeps(t)
<1> USE DEF IInv, TypeOK
<1>1. holder' \in [Accounts -> Calls \union {Nobody}]
  OBVIOUS
<1>2. TypeOK'
  BY <1>1, TypesNext
<1>3. RowsExist'
  BY DEF RowsExist, Exists
<1>4. ASSUME NEW u \in Calls \ {t} PROVE Frame(u)
  <2>1. ASSUME NEW b \in Accounts PROVE holder'[b] = u <=> holder[b] = u
    BY NobodyType DEF CanLock
  <2>2. pc'[u] = pc[u] /\ op'[u] = op[u]
    OBVIOUS
  <2> QED BY <2>1, <2>2 DEF Frame, Exists
<1> QED BY <1>2, <1>3, <1>4 DEF Keeps

LEMMA WithdrawCheckKeeps == ASSUME IInv, NEW t \in Calls, WithdrawCheck(t) PROVE Keeps(t)
<1>1. CASE ~HasMoney(t)
  BY <1>1, RollbackKeeps DEF WithdrawCheck
<1>2. CASE HasMoney(t)
  <2> DEFINE a == op[t].from
  <2>1. /\ pc[t] = "lockfrom" /\ pc' = [pc EXCEPT ![t] = "sub"]
        /\ CanLock(t, a) /\ holder' = [holder EXCEPT ![a] = t]
        /\ UNCHANGED <<balance, op, pend, missed, cash>>
    BY <1>2 DEF WithdrawCheck, Go, HasMoney
  <2>2. Free(t) /\ op[t] \in Ops /\ op[t].kind = "withdraw"
    BY <2>1 DEF IInv, Phase, Kind
  <2>3. a \in Accounts /\ a = op[t].to
    BY <2>2, OpFields
  <2>4. pc'[t] = "sub" /\ holder'[a] = t /\ op'[t] = op[t] /\ pend'[t] = NoChange
    BY <2>1, <2>2, <2>3 DEF IInv, TypeOK, Free
  <2>5. Exists(op[t].from)' /\ Exists(op[t].to)' /\ balance'[op'[t].from] >= op'[t].amount
    BY <1>2, <2>1, <2>3 DEF HasMoney, Exists
  <2>6. BothSecured(t)' /\ Funded(t)'
    BY <2>3, <2>4, <2>5 DEF BothSecured, Secured, Funded
  <2>7. Phase(t)'
    BY <2>2, <2>4, <2>5, <2>6 DEF Phase, Kind
  <2>8. Booked(t)'
    BY <2>4, NoChangeFacts DEF Booked
  <2>9. Exists(a)
    BY <1>2 DEF HasMoney
  <2>10. /\ pend' \in [Calls -> [Accounts -> Int]] /\ missed' \in [Calls -> SUBSET Accounts]
         /\ \A u \in Calls \ {t} : pend'[u] = pend[u] /\ missed'[u] = missed[u]
    BY <2>1 DEF IInv, TypeOK
  <2> QED BY <2>1, <2>3, <2>7, <2>8, <2>9, <2>10, LockKeeps DEF Statements
<1> QED BY <1>1, <1>2

(* A SELECT FOR UPDATE leaves its row locked, or not found. *)
LEMMA LockRowFacts ==
  ASSUME IInv, NEW t \in Calls, NEW a \in Accounts, NEW p \in Statements, NEW q \in Statements,
         LockRow(t, a, p, q)
  PROVE  /\ pc[t] = p /\ pc' = [pc EXCEPT ![t] = q] /\ UNCHANGED <<balance, op, pend, cash>>
         /\ \/ holder' = holder
            \/ Exists(a) /\ CanLock(t, a) /\ holder' = [holder EXCEPT ![a] = t]
         /\ missed' \in [Calls -> SUBSET Accounts]
         /\ \A u \in Calls \ {t} : missed'[u] = missed[u]
         /\ Secured(t, a)'
         /\ \A b \in Accounts : Secured(t, b) => Secured(t, b)'
         /\ Held(t)' \subseteq Held(t) \union {a}
<1> USE DEF IInv, TypeOK, LockRow, Go
<1>1. CASE Exists(a)
  <2>1. /\ pc[t] = p /\ pc' = [pc EXCEPT ![t] = q] /\ UNCHANGED <<balance, op, pend, cash>>
        /\ CanLock(t, a) /\ holder' = [holder EXCEPT ![a] = t] /\ UNCHANGED missed
    BY <1>1
  <2> QED BY <1>1, <2>1 DEF Secured, Held
<1>2. CASE ~Exists(a)
  <2>1. /\ pc[t] = p /\ pc' = [pc EXCEPT ![t] = q] /\ UNCHANGED <<balance, op, pend, cash, holder>>
        /\ missed' = [missed EXCEPT ![t] = @ \union {a}]
    BY <1>2
  <2> QED BY <1>2, <2>1 DEF Secured, Held
<1> QED BY <1>1, <1>2

LEMMA Lock1Keeps == ASSUME IInv, NEW t \in Calls, Lock1(t) PROVE Keeps(t)
<1>1. pc[t] = "lock1" /\ LockRow(t, FirstOf(op[t]), "lock1", "lock2")
  BY DEF Lock1
<1>2. Free(t) /\ op[t] \in Ops /\ op[t].kind = "transfer" /\ FirstOf(op[t]) \in Accounts
  BY <1>1, FirstSecond DEF IInv, Phase, Kind
<1>3. "lock1" \in Statements /\ "lock2" \in Statements
  BY DEF Statements
<1> PICK a \in Accounts : a = FirstOf(op[t])
  BY <1>2
<1>4. /\ pc' = [pc EXCEPT ![t] = "lock2"] /\ UNCHANGED <<balance, op, pend, cash>>
      /\ \/ holder' = holder
         \/ Exists(a) /\ CanLock(t, a) /\ holder' = [holder EXCEPT ![a] = t]
      /\ missed' \in [Calls -> SUBSET Accounts]
      /\ \A u \in Calls \ {t} : missed'[u] = missed[u]
      /\ Secured(t, a)' /\ Held(t)' \subseteq Held(t) \union {a}
  BY <1>1, <1>2, <1>3, LockRowFacts
<1>5. pc'[t] = "lock2" /\ op'[t] = op[t] /\ pend'[t] = NoChange
  BY <1>2, <1>4 DEF IInv, TypeOK, Free
<1>6. Held(t)' \subseteq {FirstOf(op'[t])} /\ Secured(t, FirstOf(op[t]))'
  BY <1>2, <1>4, <1>5 DEF Free
<1>7. Kind(t, {"transfer"})'
  BY <1>2, <1>5 DEF Kind
<1>8. Phase(t)' /\ Booked(t)'
  BY <1>5, <1>6, <1>7, NoChangeFacts DEF Phase, Booked
<1>9. /\ pend' \in [Calls -> [Accounts -> Int]]
      /\ \A u \in Calls \ {t} : pend'[u] = pend[u] /\ missed'[u] = missed[u]
  BY <1>4 DEF IInv, TypeOK
<1> QED BY <1>2, <1>3, <1>4, <1>8, <1>9, LockKeeps

LEMMA Lock2Keeps == ASSUME IInv, NEW t \in Calls, Lock2(t) PROVE Keeps(t)
<1> DEFINE a == SecondOf(op[t])
           b == FirstOf(op[t])
<1>1. pc[t] = "lock2" /\ LockRow(t, a, "lock2", "checkfrom")
  BY DEF Lock2
<1>2. /\ op[t] \in Ops /\ op[t].kind = "transfer" /\ pend[t] = NoChange /\ Secured(t, b)
      /\ a \in Accounts /\ b \in Accounts /\ {a, b} = {op[t].from, op[t].to}
  BY <1>1, FirstSecond DEF IInv, Phase, Kind
<1>3. "lock2" \in Statements /\ "checkfrom" \in Statements
  BY DEF Statements
<1> HIDE DEF a, b
<1>4. /\ pc' = [pc EXCEPT ![t] = "checkfrom"] /\ UNCHANGED <<balance, op, pend, cash>>
      /\ \/ holder' = holder
         \/ Exists(a) /\ CanLock(t, a) /\ holder' = [holder EXCEPT ![a] = t]
      /\ missed' \in [Calls -> SUBSET Accounts]
      /\ \A u \in Calls \ {t} : missed'[u] = missed[u]
      /\ \A d \in {a, b} : Secured(t, d)'
  BY <1>1, <1>2, <1>3, LockRowFacts
<1>5. pc'[t] = "checkfrom" /\ op'[t] = op[t] /\ pend'[t] = NoChange
  BY <1>2, <1>4 DEF IInv, TypeOK
<1>6. BothSecured(t)' /\ Kind(t, {"transfer"})'
  BY <1>2, <1>4, <1>5 DEF BothSecured, Secured, Kind
<1>7. Phase(t)' /\ Booked(t)'
  BY <1>5, <1>6, NoChangeFacts DEF Phase, Booked
<1>8. /\ pend' \in [Calls -> [Accounts -> Int]]
      /\ \A u \in Calls \ {t} : pend'[u] = pend[u] /\ missed'[u] = missed[u]
  BY <1>4 DEF IInv, TypeOK
<1> QED BY <1>2, <1>3, <1>4, <1>7, <1>8, LockKeeps

(* An UPDATE of a row that the call has not changed yet: it fails, or books *)
(* the amount on the row and keeps the lock.                               *)
LEMMA UpdateFacts ==
  ASSUME IInv, NEW t \in Calls, NEW a \in Accounts, NEW m \in Int, Exists(a), pend[t][a] = 0,
         NEW p \in Statements, NEW q \in Statements, Update(t, a, m, p, q), ~Rollback(t)
  PROVE  /\ pc[t] = p /\ pc' = [pc EXCEPT ![t] = q] /\ UNCHANGED <<balance, op, missed, cash>>
         /\ Exists(a) /\ CanLock(t, a) /\ holder' = [holder EXCEPT ![a] = t]
         /\ pend' \in [Calls -> [Accounts -> Int]] /\ missed' \in [Calls -> SUBSET Accounts]
         /\ \A u \in Calls \ {t} : pend'[u] = pend[u] /\ missed'[u] = missed[u]
         /\ pend'[t] = [pend[t] EXCEPT ![a] = m]
         /\ \A b \in Accounts : Secured(t, b) => Secured(t, b)'
         /\ Booked(t)'
<1> USE DEF IInv, TypeOK
<1>1. /\ balance[a] + pend[t][a] + m \in Money /\ CanLock(t, a) /\ pc[t] = p
      /\ pc' = [pc EXCEPT ![t] = q] /\ holder' = [holder EXCEPT ![a] = t]
      /\ pend' = [pend EXCEPT ![t][a] = @ + m]
      /\ UNCHANGED <<balance, op, missed, cash>>
  BY DEF Update, Go
<1>2. balance[a] \in Int
  BY DEF Exists, Money
<1>3. pend'[t] = [pend[t] EXCEPT ![a] = m] /\ balance[a] + m \in Money
  BY <1>1, <1>2
<1>4. pend' \in [Calls -> [Accounts -> Int]] /\ missed' \in [Calls -> SUBSET Accounts]
  BY <1>1
<1>5. \A u \in Calls \ {t} : pend'[u] = pend[u] /\ missed'[u] = missed[u]
  BY <1>1
<1>6. \A b \in Accounts : Secured(t, b) => Secured(t, b)'
  BY <1>1 DEF Secured
<1>7. ASSUME NEW b \in Accounts, pend'[t][b] # 0
      PROVE  holder'[b] = t /\ Exists(b)' /\ balance'[b] + pend'[t][b] \in Money
  <2>1. CASE b = a
    BY <1>1, <1>3, <2>1 DEF Exists
  <2>2. CASE b # a
    BY <1>1, <1>3, <1>7, <2>2 DEF Booked, Exists
  <2> QED BY <2>1, <2>2
<1>8. Booked(t)'
  BY <1>7 DEF Booked
<1> QED BY <1>1, <1>3, <1>4, <1>5, <1>6, <1>8

LEMMA SubKeeps == ASSUME IInv, NEW t \in Calls, Sub(t) PROVE Keeps(t)
<1> SUFFICES ASSUME ~Rollback(t) PROVE Keeps(t)
  BY RollbackKeeps
<1> PICK q \in {"add", "commit"} : q = IF op[t].kind = "transfer" THEN "add" ELSE "commit"
  OBVIOUS
<1>1. pc[t] = "sub" /\ Update(t, op[t].from, -op[t].amount, "sub", q)
  BY DEF Sub
<1>2. /\ op[t] \in Ops /\ op[t].kind \in {"withdraw", "transfer"} /\ pend[t] = NoChange
      /\ BothSecured(t) /\ Funded(t) /\ Exists(op[t].to)
  BY <1>1 DEF IInv, Phase, Kind
<1> PICK a \in Accounts, m \in Int : a = op[t].from /\ m = -op[t].amount
  BY <1>2, OpFields
<1>3. Exists(a) /\ pend[t][a] = 0 /\ "sub" \in Statements /\ q \in Statements
  BY <1>2, NoChangeFacts DEF Funded, Statements
<1>4. /\ pc' = [pc EXCEPT ![t] = q] /\ UNCHANGED <<balance, op, missed, cash>>
      /\ Exists(a) /\ CanLock(t, a) /\ holder' = [holder EXCEPT ![a] = t]
      /\ pend' \in [Calls -> [Accounts -> Int]] /\ missed' \in [Calls -> SUBSET Accounts]
      /\ \A u \in Calls \ {t} : pend'[u] = pend[u] /\ missed'[u] = missed[u]
      /\ pend'[t] = [pend[t] EXCEPT ![a] = m]
      /\ \A b \in Accounts : Secured(t, b) => Secured(t, b)'
      /\ Booked(t)'
  BY <1>1, <1>3, UpdateFacts
<1>5. pend'[t] = Taken(op[t])
  BY <1>2, <1>4 DEF Taken
<1>6. pc'[t] = q /\ op'[t] = op[t] /\ Exists(op[t].to)'
  BY <1>2, <1>4 DEF IInv, TypeOK, Exists
<1>7. BothSecured(t)'
  BY <1>2, <1>4, OpFields DEF BothSecured, Secured
<1>8. CASE op[t].kind = "transfer"
  <2>1. pc'[t] = "add" /\ Kind(t, {"deposit", "transfer"})' /\ pend'[t] = Taken(op'[t])
    BY <1>2, <1>5, <1>6, <1>8 DEF Kind
  <2>2. Phase(t)'
    BY <1>6, <1>7, <1>8, <2>1 DEF Phase
  <2> QED BY <1>3, <1>4, <2>2, LockKeeps
<1>9. CASE op[t].kind = "withdraw"
  <2>1. pc'[t] = "commit" /\ Kind(t, {"deposit", "withdraw", "transfer"})' /\ pend'[t] = Net(op'[t])
    BY <1>2, <1>5, <1>6, <1>9 DEF Kind, Net
  <2>2. Phase(t)'
    BY <2>1 DEF Phase
  <2> QED BY <1>3, <1>4, <2>2, LockKeeps
<1> QED BY <1>2, <1>8, <1>9

LEMMA AddKeeps == ASSUME IInv, NEW t \in Calls, Add(t) PROVE Keeps(t)
<1> SUFFICES ASSUME ~Rollback(t) PROVE Keeps(t)
  BY RollbackKeeps
<1>1. pc[t] = "add" /\ Update(t, op[t].to, op[t].amount, "add", "commit")
  BY DEF Add
<1>2. /\ op[t] \in Ops /\ op[t].kind \in {"deposit", "transfer"} /\ Exists(op[t].to)
      /\ op[t].kind = "deposit" => pend[t] = NoChange
      /\ op[t].kind = "transfer" => pend[t] = Taken(op[t])
  BY <1>1 DEF IInv, Phase, Kind, Free
<1> PICK a \in Accounts, m \in Int : a = op[t].to /\ m = op[t].amount
  BY <1>2, OpFields
<1>3. pend[t][a] = 0
  <2>1. CASE op[t].kind = "deposit"
    BY <1>2, <2>1, NoChangeFacts
  <2>2. CASE op[t].kind = "transfer"
    <3>1. op[t].from # a
      BY <1>2, <2>2, OpFields
    <3> QED BY <1>2, <2>2, <3>1, NoChangeFacts DEF Taken
  <2> QED BY <1>2, <2>1, <2>2
<1>4. Exists(a) /\ "add" \in Statements /\ "commit" \in Statements
  BY <1>2 DEF Statements
<1>5. /\ pc' = [pc EXCEPT ![t] = "commit"] /\ UNCHANGED <<balance, op, missed, cash>>
      /\ Exists(a) /\ CanLock(t, a) /\ holder' = [holder EXCEPT ![a] = t]
      /\ pend' \in [Calls -> [Accounts -> Int]] /\ missed' \in [Calls -> SUBSET Accounts]
      /\ \A u \in Calls \ {t} : pend'[u] = pend[u] /\ missed'[u] = missed[u]
      /\ pend'[t] = [pend[t] EXCEPT ![a] = m]
      /\ Booked(t)'
  BY <1>1, <1>3, <1>4, UpdateFacts
<1>6. pend'[t] = Net(op[t])
  BY <1>2, <1>5 DEF Net, Given
<1>7. pc'[t] = "commit" /\ op'[t] = op[t] /\ Kind(t, {"deposit", "withdraw", "transfer"})'
  BY <1>2, <1>5 DEF IInv, TypeOK, Kind
<1>8. Phase(t)'
  BY <1>6, <1>7 DEF Phase
<1> QED BY <1>4, <1>5, <1>8, LockKeeps

(* The rows a call has changed are its own, so the others see them change   *)
(* only while they do not hold them.                                       *)
LEMMA CommitKeeps == ASSUME IInv, NEW t \in Calls, Commit(t) PROVE Keeps(t)
<1> USE DEF IInv
<1>1. EndTx(t) /\ TypeOK
  BY DEF Commit
<1>2. ASSUME NEW a \in Accounts
      PROVE  /\ Exists(a) => balance'[a] = balance[a] + pend[t][a]
             /\ ~Exists(a) => balance'[a] = None
             /\ balance'[a] \in Money \union {None}
             /\ Exists(a) <=> Exists(a)'
             /\ holder[a] # t => balance'[a] = balance[a]
  <2>1. balance'[a] = IF Exists(a) THEN balance[a] + pend[t][a] ELSE None
    BY DEF Commit
  <2>2. pend[t][a] # 0 => holder[a] = t /\ Exists(a) /\ balance[a] + pend[t][a] \in Money
    BY DEF Booked
  <2>3. balance[a] \in Money \union {None} /\ pend[t][a] \in Int
    BY DEF TypeOK
  <2>4. CASE ~Exists(a)
    BY <2>1, <2>2, <2>4 DEF Exists
  <2>5. CASE Exists(a)
    <3>1. balance[a] + pend[t][a] \in Money
      BY <2>2, <2>3, <2>5 DEF Exists, Money
    <3>2. balance[a] + pend[t][a] # None
      BY <3>1, MoneyType DEF Money
    <3>3. holder[a] # t => balance[a] + pend[t][a] = balance[a]
      BY <2>2, <2>3, <2>5 DEF Exists, Money
    <3> QED BY <2>1, <2>5, <3>1, <3>2, <3>3 DEF Exists
  <2> QED BY <2>4, <2>5
<1>3. balance' \in [Accounts -> Money \union {None}]
  <2>1. balance' = [a \in Accounts |-> balance'[a]]
    BY DEF Commit
  <2> QED BY <1>2, <2>1
<1>4. cash' \in Int
  <2>1. op[t] \in Ops /\ op[t].amount \in Int /\ op[t].kind \in {"deposit", "withdraw", "transfer"}
    BY OpFields DEF Commit, Phase, Kind
  <2>2. \/ cash' = cash + op[t].amount \/ cash' = cash + (-op[t].amount) \/ cash' = cash + 0
    BY <2>1 DEF Commit
  <2> QED BY <2>1, <2>2 DEF TypeOK
<1>5. TypeOK'
  BY <1>1, <1>3, <1>4, Ended DEF TypeOK
<1>6. RowsExist'
  BY <1>1, <1>2, Ended, NobodyType DEF RowsExist
<1>7. ASSUME NEW u \in Calls \ {t} PROVE Frame(u)
  BY <1>1, <1>2, Ended DEF Frame
<1> QED BY <1>1, <1>5, <1>6, <1>7, Ended DEF Keeps

LEMMA CreateKeeps == ASSUME IInv, NEW b \in Accounts, CreateAccount(b) PROVE IInv'
<1> USE MoneyType DEF IInv
<1>1. /\ ~Exists(b) /\ balance' = [balance EXCEPT ![b] = 0]
      /\ UNCHANGED <<holder, pc, op, pend, missed, cash>>
  BY DEF CreateAccount
<1>2. 0 \in Money /\ 0 # None
  BY DEF Money
<1>3. TypeOK'
  BY <1>1, <1>2 DEF TypeOK
<1>4. ASSUME NEW t \in Calls PROVE Frame(t)
  BY <1>1, <1>2, NobodyType DEF Frame, Exists, TypeOK
<1>5. ASSUME NEW a \in Accounts, holder'[a] # Nobody PROVE Exists(a)'
  BY <1>1, <1>2, <1>5 DEF Exists, TypeOK
<1> QED BY <1>3, <1>4, <1>5, FrameKeeps

-------------------------------------------------------------------------------
LEMMA InitIInv == Init => IInv
<1> SUFFICES ASSUME Init PROVE IInv
  OBVIOUS
<1> USE NobodyType, NoChangeFacts DEF Init
<1>1. TypeOK
  BY DEF TypeOK
<1>2. ASSUME NEW t \in Calls PROVE Booked(t) /\ Phase(t)
  <2>1. Free(t)
    BY DEF Free, Held
  <2>2. Booked(t)
    BY DEF Booked
  <2> QED BY <2>1, <2>2 DEF Phase
<1> QED BY <1>1, <1>2 DEF IInv

LEMMA NextIInv == IInv /\ [Next]_vars => IInv'
<1> SUFFICES ASSUME IInv, [Next]_vars PROVE IInv'
  OBVIOUS
<1>1. ASSUME NEW a \in Accounts, CreateAccount(a) PROVE IInv'
  BY <1>1, CreateKeeps
<1>2. ASSUME NEW t \in Calls, Begin(t) PROVE IInv'
  BY <1>2, BeginKeeps, KeepsIInv
<1>3. ASSUME NEW t \in Calls, Statement(t) PROVE IInv'
  <2>1. Keeps(t)
    BY <1>3, DepositExistsKeeps, WithdrawCheckKeeps, Lock1Keeps, Lock2Keeps,
       TransferChecksKeep, SubKeeps, AddKeeps, CommitKeeps DEF Statement
  <2> QED BY <2>1, KeepsIInv
<1>4. ASSUME NEW t \in Calls, Victim(t) \/ Cancel(t) PROVE IInv'
  BY <1>4, RollbackKeeps, KeepsIInv DEF Victim, Cancel
<1>5. CASE UNCHANGED vars
  BY <1>5 DEF vars, IInv, TypeOK, Exists, Booked, Phase, Free, Held, Kind, Secured, BothSecured, Funded
<1> QED BY <1>1, <1>2, <1>3, <1>4, <1>5 DEF Next

LEMMA Invariance == Spec => []IInv
BY InitIInv, NextIInv, PTL DEF Spec

-------------------------------------------------------------------------------
(* The variables have their types. *)
THEOREM TypeCorrect == Spec => []TypeOK
<1>1. IInv => TypeOK
  BY DEF IInv
<1> QED BY <1>1, Invariance, PTL

(* Money that a withdrawal or a transfer was shown under the lock is there  *)
(* when its UPDATE takes it.                                               *)
THEOREM MoneyIsSafe == Spec => []MoneyStaysThere
<1>1. IInv => MoneyStaysThere
  BY DEF IInv, Phase, Funded, MoneyStaysThere
<1> QED BY <1>1, Invariance, PTL

-------------------------------------------------------------------------------
(***************************************************************************)
(* Deadlock.  If nobody in a circle has missed a row, they all wait for the *)
(* second row of a transfer while they hold the first: other calls hold     *)
(* nothing, or want what they hold.  The one with the smallest first row    *)
(* has that row waited for by a transfer whose first row is smaller yet.    *)
(***************************************************************************)
LEMMA WaiterIsAtLock2 ==
  ASSUME IInv, NEW t \in Calls, NEW u \in Calls, NEW w \in Calls,
         WaitsFor(t, u), WaitsFor(w, t), missed[t] = {}
  PROVE  /\ op[t] \in Ops /\ op[t].kind = "transfer" /\ Held(t) = {FirstOf(op[t])}
         /\ pc[t] = "lock2"
<1> USE DEF IInv
<1>1. Held(t) # {}
  <2>1. \A o \in Ops : o.from \in Accounts /\ o.to \in Accounts
                       /\ FirstOf(o) \in Accounts /\ SecondOf(o) \in Accounts
    BY OpFields, FirstSecond
  <2>2. pc[w] \in {"lockfrom", "sub", "lock1", "lock2", "add"} => op[w] \in Ops
    BY DEF Phase, Kind
  <2>3. PICK a : a \in Wants(w) /\ holder[a] = t
    BY DEF WaitsFor
  <2>4. a \in Accounts
    BY <2>1, <2>2, <2>3 DEF Wants
  <2> QED BY <2>3, <2>4 DEF Held
<1>2. ~Free(t)
  BY <1>1 DEF Free
<1>3. PICK a : a \in Wants(t) /\ holder[a] = u /\ t # u
  BY DEF WaitsFor
<1>4. pc[t] \notin {"lockfrom", "lock1"}
  BY <1>2 DEF Phase
<1>5. pc[t] # "sub"
  BY <1>3 DEF Phase, BothSecured, Secured, Wants
<1>6. pc[t] # "add"
  BY <1>2, <1>3 DEF Phase, Kind, BothSecured, Secured, Wants
<1>7. pc[t] = "lock2"
  BY <1>3, <1>4, <1>5, <1>6 DEF Wants
<1>8. Kind(t, {"transfer"}) /\ Held(t) \subseteq {FirstOf(op[t])}
  BY <1>7 DEF Phase
<1> QED BY <1>1, <1>7, <1>8 DEF Kind

(* Below any caller of the circle is another one. *)
LEMMA CircleDescends ==
  ASSUME IInv, NEW S \in SUBSET Calls, Deadlocked(S), \A t \in S : missed[t] = {}, NEW t \in S
  PROVE  /\ FirstOf(op[t]) \in Nat
         /\ \E u \in S : FirstOf(op[u]) < FirstOf(op[t])
<1>1. ASSUME NEW v \in S
      PROVE  /\ op[v] \in Ops /\ op[v].kind = "transfer" /\ Held(v) = {FirstOf(op[v])}
             /\ pc[v] = "lock2" /\ FirstOf(op[v]) \in Nat
             /\ FirstOf(op[v]) < SecondOf(op[v]) /\ SecondOf(op[v]) \in Accounts
  <2>1. PICK u \in S, w \in S : WaitsFor(v, u) /\ WaitsFor(w, v)
    BY DEF Deadlocked
  <2>2. /\ op[v] \in Ops /\ op[v].kind = "transfer" /\ Held(v) = {FirstOf(op[v])}
        /\ pc[v] = "lock2"
    BY <2>1, WaiterIsAtLock2
  <2> QED BY <2>2, FirstSecond, AccountsOrdered
<1>2. PICK u \in S : WaitsFor(u, t)
  BY DEF Deadlocked
<1>3. holder[SecondOf(op[u])] = t
  BY <1>1, <1>2 DEF WaitsFor, Wants
<1>4. SecondOf(op[u]) = FirstOf(op[t])
  BY <1>1, <1>3 DEF Held
<1>5. FirstOf(op[u]) < FirstOf(op[t])
  BY <1>1, <1>4
<1> QED BY <1>1, <1>5

(* A set of numbers with no smallest one is empty. *)
LEMMA NoDescent ==
  ASSUME NEW T \in SUBSET Nat, \A n \in T : \E m \in T : m < n
  PROVE  T = {}
<1> SUFFICES ASSUME T # {} PROVE FALSE
  OBVIOUS
<1>1. PICK n \in T : \A m \in T : ~(<<m, n>> \in OpToRel(<, Nat))
  BY NatLessThanWellFounded, WFMin
<1>2. PICK m \in T : m < n
  OBVIOUS
<1>3. <<m, n>> \in OpToRel(<, Nat)
  BY <1>2 DEF OpToRel
<1> QED BY <1>1, <1>3

(* README of the package: no deadlocks in the database; but for accounts    *)
(* opened while a transfer runs.                                           *)
THEOREM OrderedLocks == Spec => []DeadlockNeedsNewAccount
<1>1. IInv => DeadlockNeedsNewAccount
  <2> SUFFICES ASSUME IInv, NEW S \in SUBSET Calls, Deadlocked(S), \A t \in S : missed[t] = {}
               PROVE  FALSE
    BY DEF DeadlockNeedsNewAccount
  <2> DEFINE T == {FirstOf(op[t]) : t \in S}
  <2>1. T \in SUBSET Nat /\ \A n \in T : \E m \in T : m < n
    BY CircleDescends
  <2>2. T # {}
    BY DEF Deadlocked
  <2> HIDE DEF T
  <2> QED BY <2>1, <2>2, NoDescent
<1> QED BY <1>1, Invariance, PTL

-------------------------------------------------------------------------------
(* Refinement: a commit is a step of the bank, everything else but the      *)
(* opening of an account stutters.                                         *)

(* A commit adds what the call has booked to its rows, and leaves the rest. *)
LEMMA CommitFacts ==
  ASSUME IInv, NEW t \in Calls, Commit(t)
  PROVE  /\ op[t] \in Ops /\ pend[t] = Net(op[t])
         /\ balance' = [a \in Accounts |-> balance'[a]]
         /\ \A a \in Accounts :
              /\ balance'[a] = IF pend[t][a] = 0 THEN balance[a] ELSE balance[a] + pend[t][a]
              /\ pend[t][a] # 0 => Exists(a) /\ balance[a] + pend[t][a] \in Money
<1> USE DEF IInv
<1>1. op[t] \in Ops /\ pend[t] = Net(op[t])
  BY DEF Commit, Phase, Kind
<1>2. balance' = [a \in Accounts |-> balance'[a]]
  BY DEF Commit
<1>3. ASSUME NEW a \in Accounts
      PROVE  /\ balance'[a] = IF pend[t][a] = 0 THEN balance[a] ELSE balance[a] + pend[t][a]
             /\ pend[t][a] # 0 => Exists(a) /\ balance[a] + pend[t][a] \in Money
  <2>1. balance'[a] = IF Exists(a) THEN balance[a] + pend[t][a] ELSE None
    BY DEF Commit
  <2>2. pend[t][a] # 0 => Exists(a) /\ balance[a] + pend[t][a] \in Money
    BY DEF Booked
  <2>3. Exists(a) => balance[a] \in Int
    BY DEF TypeOK, Exists, Money
  <2>4. ~Exists(a) => balance[a] = None
    BY DEF Exists
  <2> QED BY <2>1, <2>2, <2>3, <2>4
<1> QED BY <1>1, <1>2, <1>3

LEMMA CommitIsAtomic == ASSUME IInv, NEW t \in Calls, Commit(t) PROVE Atomic!Next
<1> DEFINE m == op[t].amount
<1>1. /\ op[t] \in Ops /\ op[t].from \in Accounts /\ op[t].to \in Accounts
      /\ m \in Nat /\ m > 0 /\ m \in Amounts
      /\ op[t].kind \in {"deposit", "withdraw", "transfer"}
  BY CommitFacts, OpFields DEF Ops
<1> PICK a \in Accounts, b \in Accounts : a = op[t].from /\ b = op[t].to
  BY <1>1
<1>2. balance \in [Accounts -> Money \union {None}]
  BY DEF IInv, TypeOK
<1>3. ASSUME NEW d \in Accounts, Exists(d) PROVE balance[d] \in Int
  BY <1>2, <1>3 DEF Exists, Money
<1>4. CASE op[t].kind = "deposit"
  <2>1. \A d \in Accounts : pend[t][d] = IF d = b THEN m ELSE 0
    BY <1>1, <1>4, CommitFacts, NoChangeFacts DEF Net, Given
  <2>2. Exists(b) /\ balance[b] + m \in Money
    BY <1>1, <2>1, CommitFacts
  <2>3. balance' = [balance EXCEPT ![b] = @ + m]
    BY <1>1, <1>2, <2>1, CommitFacts
  <2>4. cash' = cash + m
    BY <1>4 DEF Commit
  <2>5. Atomic!Deposit(b, m)
    BY <2>2, <2>3, <2>4 DEF Atomic!Deposit, Atomic!Money, Money, Exists
  <2> QED BY <1>1, <2>5 DEF Atomic!Next
<1>5. CASE op[t].kind = "withdraw"
  <2>1. \A d \in Accounts : pend[t][d] = IF d = a THEN -m ELSE 0
    BY <1>1, <1>5, CommitFacts, NoChangeFacts DEF Net, Taken
  <2>2. Exists(a) /\ balance[a] + (-m) \in Money
    BY <1>1, <2>1, CommitFacts
  <2>3. balance' = [balance EXCEPT ![a] = @ + (-m)]
    BY <1>1, <1>2, <2>1, CommitFacts
  <2>4. cash' = cash + (-m) /\ cash \in Int
    BY <1>5 DEF Commit, IInv, TypeOK
  <2>5. balance[a] + (-m) = balance[a] - m /\ cash + (-m) = cash - m
    BY <1>1, <1>3, <2>2, <2>4
  <2>6. Atomic!Withdraw(a, m)
    BY <2>2, <2>3, <2>4, <2>5 DEF Atomic!Withdraw, Atomic!Money, Money, Exists
  <2> QED BY <1>1, <2>6 DEF Atomic!Next
<1>6. CASE op[t].kind = "transfer"
  <2>1. a # b
    BY <1>1, <1>6, OpFields
  <2>2. \A d \in Accounts : pend[t][d] = IF d = b THEN m ELSE IF d = a THEN -m ELSE 0
    BY <1>1, <1>6, CommitFacts, NoChangeFacts DEF Net, Given, Taken
  <2>3. Exists(b) /\ balance[b] + m \in Money
    BY <1>1, <2>2, CommitFacts
  <2>4. Exists(a) /\ balance[a] + (-m) \in Money
    BY <1>1, <2>1, <2>2, CommitFacts
  <2>5. balance' = [balance EXCEPT ![a] = @ + (-m), ![b] = @ + m]
    BY <1>1, <1>2, <2>1, <2>2, CommitFacts
  <2>6. cash' = cash
    BY <1>6 DEF Commit, IInv, TypeOK
  <2>7. balance[a] + (-m) = balance[a] - m
    BY <1>1, <1>3, <2>4
  <2>8. Atomic!Transfer(a, b, m)
    BY <2>1, <2>3, <2>4, <2>5, <2>6, <2>7 DEF Atomic!Transfer, Atomic!Money, Money, Exists
  <2> QED BY <1>1, <2>8 DEF Atomic!Next
<1> QED BY <1>1, <1>4, <1>5, <1>6

(* README of the package: every operation of the ledger is atomic, and no   *)
(* balance is negative or leaves the type.                                  *)
THEOREM Refinement == Spec => ImplementsBank
<1>1. Init => Atomic!Init
  BY DEF Init, Atomic!Init
<1>2. IInv /\ [Next]_vars => [Atomic!Next]_(Atomic!vars)
  <2> SUFFICES ASSUME IInv, [Next]_vars, ~UNCHANGED <<balance, cash>> PROVE Atomic!Next
    BY DEF Atomic!vars
  <2>1. ASSUME NEW a \in Accounts, CreateAccount(a) PROVE Atomic!Next
    <3>1. Atomic!Open(a)
      BY <2>1 DEF CreateAccount, Exists, Atomic!Open
    <3> QED BY <3>1 DEF Atomic!Next
  <2>2. ASSUME NEW t \in Calls, Commit(t) PROVE Atomic!Next
    BY <2>2, CommitIsAtomic
  <2>3. ASSUME NEW t \in Calls, Statement(t), ~Commit(t) PROVE UNCHANGED <<balance, cash>>
    BY <2>3 DEF Statement, DepositExists, WithdrawCheck, Lock1, Lock2, LockRow, TransferCheckFrom,
       TransferCheckTo, CheckExists, Sub, Add, Update, Rollback
  <2>4. ASSUME NEW t \in Calls, Begin(t) \/ Victim(t) \/ Cancel(t) PROVE UNCHANGED <<balance, cash>>
    BY <2>4 DEF Begin, Victim, Cancel, Rollback
  <2>5. ~UNCHANGED vars
    BY DEF vars
  <2> QED BY <2>1, <2>2, <2>3, <2>4, <2>5 DEF Next
<1> QED BY <1>1, <1>2, Invariance, PTL DEF Spec, ImplementsBank, Atomic!Spec
===============================================================================
