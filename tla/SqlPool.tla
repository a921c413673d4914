--------------------------------- MODULE SqlPool ------------------------------
(***************************************************************************)
(* The connection pool of database/sql, and the functions that use it: the *)
(* methods of dao and the examples of the SQL lecture, some of which are   *)
(* there to show how a pool is exhausted.  A function is its steps on the  *)
(* pool, what each does about an error, and what its deferred calls give   *)
(* back.  The database is external: a call of it works, fails, or works    *)
(* and loses its answer.  A cancelled context ends the waits that were     *)
(* given it, and takes back its transactions and open rows, not a Conn.    *)
(***************************************************************************)
EXTENDS Naturals, Sequences, FiniteSets

CONSTANTS
  Callers,
  MaxConns,   \* SetMaxOpenConns
  Ids,        \* bound: the ids the database gives; users begin with the first
  MaxRows     \* bound: rows an example's query finds

VARIABLES
  call,       \* caller -> the function it runs
  step,       \* caller -> the step it is at, or Ended
  held,       \* caller -> the connections it has: [at, kind], at being the step that took it
  cut,        \* the callers whose context is cancelled
  users,      \* the ids in the table
  used,       \* the ids that were ever given
  answer,     \* caller -> [is, ids]: "", "ok" or "error", and the users it was told of
  crashed     \* log.Fatal, or a panic: the process is gone

sqlvars == <<call, step, held, cut, users, used, answer, crashed>>

All == {"conn", "rows", "tx"}
Fn(name, steps, defer) == [name |-> name, steps |-> steps, defer |-> defer]

\* err: "fatal", "return" or "ignore"
Take(kind, err) == [do |-> "take", kind |-> kind, ctx |-> TRUE, err |-> err]
TakeNoCtx(kind, err) == [Take(kind, err) EXCEPT !.ctx = FALSE]
Use(err) == [do |-> "use", err |-> err]
Give == [do |-> "give"]
Stmt(what, id) == [do |-> "stmt", what |-> what, id |-> id, err |-> "return"]
Exit == [do |-> "exit"]

Times(n, steps) == [i \in 1 .. n * Len(steps) |-> steps[((i - 1) % Len(steps)) + 1]]

-------------------------------------------------------------------------------
(* dao: each method is one statement; List reads through rows              *)
Create     == Fn("Create", <<Take("conn", "return"), Stmt("insert", 0), Give>>, All)
Delete(id) == Fn("Delete", <<Take("conn", "return"), Stmt("delete", id), Give>>, All)
Update(id) == Fn("Update", <<Take("conn", "return"), Stmt("update", id), Give>>, All)
Lookup(id) == Fn("Lookup", <<Take("rows", "return"), Stmt("lookup", id), Give>>, All)
List_NoDefer == Fn("List", <<Take("rows", "return"), Stmt("list", 0), Use("return"), Give>>, {})  \* mutant
List       == Fn("List", <<Take("rows", "return"), Stmt("list", 0), Use("return"), Give>>, All)

(* lectures/07-sql; a nil result that is used panics                       *)
Query       == Fn("Query", <<Take("rows", "fatal"), Use("fatal"), Give>>, All)
\* the error of a row that is not there returns, any other is fatal
QueryRow    == Fn("QueryRow", <<Take("rows", "fatal"), Use("return"), Use("fatal"), Give>>, All)
Exec        == Fn("Exec", <<Take("conn", "fatal"), Use("fatal"), Give>>, All)
DoStuff     == Fn("DoStuff", Times(4, Exec.steps), All)   \* four Inserts
Results     == Query
Example     == Query
Begin       == Fn("Begin", <<Take("tx", "fatal"), Use("fatal"), Use("fatal"), Give>>, All)
\* the loop over the ids ends with the error of the one that is not there
Prepare(n)  == Fn("Prepare", Times(n + 1, Query.steps) \o <<Exit>>, {})
\* rdb.Ping returns a command, which is never nil
Redis       == Fn("Redis", <<Exit>>, All)

ConnExhaust == Fn("ConnExhaust", <<Take("conn", "fatal"), Use("ignore")>>, {})
RowsExhaust(n) == Fn("RowsExhaust", <<Take("rows", "fatal")>> \o (IF n = 0 THEN <<Give>> ELSE <<Use("fatal")>>), {})
TxExhaust   == Fn("TxExhaust", <<Take("tx", "return"), Use("return"), Give>>, {})
TxDeadlock  == Fn("TxDeadlock", <<Take("tx", "fatal"), Take("rows", "ignore"), Take("rows", "ignore")>>, {"tx"})
NoContext   == Fn("NoContext", <<Take("conn", "fatal"), TakeNoCtx("conn", "ignore")>>, All)
QueryDeadlock(n) == Fn("QueryDeadlock", <<Take("rows", "fatal")>> \o Times(n, <<Take("rows", "fatal")>>), All)
QueryDeadlockFixOne(n) ==
  Fn("QueryDeadlockFixOne", <<Take("rows", "fatal"), Give>> \o Times(n, <<Take("rows", "ignore"), Give>>), All)
QueryDeadlockFixTwo == Fn("QueryDeadlockFixTwo", <<Take("rows", "fatal"), Give>>, All)

Dao == {Create, Delete(1), Delete(2), Update(2), Lookup(1), List}
Examples ==
  {Query, QueryRow, Exec, DoStuff, Results, Example, Begin, Redis, ConnExhaust, TxExhaust, TxDeadlock, NoContext, QueryDeadlockFixTwo}
    \union UNION {{Prepare(n), RowsExhaust(n), QueryDeadlock(n), QueryDeadlockFixOne(n)} : n \in 0 .. MaxRows}
Calls == Dao \union Examples

Leaky  == {"ConnExhaust", "RowsExhaust", "TxExhaust", "TxDeadlock"}
Nested == {"QueryDeadlock", "TxDeadlock", "NoContext"}

-------------------------------------------------------------------------------
Ended == 0

SqlInit ==
  /\ call \in [Callers -> Calls]
  /\ step = [c \in Callers |-> 1] /\ held = [c \in Callers |-> {}]
  /\ cut = {} /\ users = {1} /\ used = {1}
  /\ answer = [c \in Callers |-> [is |-> "", ids |-> {}]] /\ crashed = FALSE

Now(c) == call[c].steps[step[c]]
Taken == Cardinality(UNION {{c} \X held[c] : c \in Callers})
OfKinds(conns, kinds) == {h \in conns : h.kind \in kinds}
Keep(c, kinds) == [held EXCEPT ![c] = OfKinds(@, kinds)]
Newest(c) == {h \in held[c] : \A g \in held[c] : g.at <= h.at}

\* The function returns, and its deferred calls run.
Return(c, is) ==
  /\ step' = [step EXCEPT ![c] = Ended]
  /\ answer' = [answer EXCEPT ![c].is = is]
  /\ UNCHANGED crashed

\* The next step; after the last the function returns.
Goes(c) ==
  IF step[c] < Len(call[c].steps)
  THEN step' = [step EXCEPT ![c] = @ + 1] /\ UNCHANGED <<answer, crashed>>
  ELSE Return(c, "ok")

Left(c) == IF step'[c] = Ended THEN {k \in All : k \notin call[c].defer} ELSE All

\* What an error does
Fails(c, err) ==
  CASE err = "fatal"  -> crashed' = TRUE /\ UNCHANGED <<step, answer>>
    [] err = "return" -> Return(c, "error")
    [] err = "ignore" -> Goes(c)

TakeConn(c) ==
  /\ Now(c).do = "take"
  /\ \/ /\ Taken < MaxConns /\ ~(Now(c).ctx /\ c \in cut)
        /\ Goes(c)
        /\ held' = [held EXCEPT ![c] = OfKinds(@ \union {[at |-> step[c], kind |-> Now(c).kind]}, Left(c))]
     \/ /\ Taken < MaxConns \/ (Now(c).ctx /\ c \in cut)     \* an error of the driver, or of ctx
        /\ Fails(c, Now(c).err)
        /\ held' = Keep(c, Left(c))
  /\ UNCHANGED <<call, cut, users, used>>

UseConn(c) ==
  /\ Now(c).do = "use"
  /\ Goes(c) \/ Fails(c, Now(c).err)
  /\ held' = Keep(c, Left(c))
  /\ UNCHANGED <<call, cut, users, used>>

\* Close of a Rows, Commit or Rollback, the end of an Exec: the last one taken
GiveConn(c) ==
  /\ Now(c).do = "give" /\ Goes(c)
  /\ held' = [held EXCEPT ![c] = OfKinds(@ \ Newest(c), Left(c))]
  /\ UNCHANGED <<call, cut, users, used>>

\* a log.Fatal that is always reached
ExitNow(c) == Now(c).do = "exit" /\ Fails(c, "fatal") /\ UNCHANGED <<call, held, cut, users, used>>

\* RowsAffected is zero for an id that is not there.
baseRequest(id) == IF id \in users THEN "ok" ELSE "error"

\* The effect of a statement and what it answers; an answer that is lost is an error.
Statement(c) ==
  /\ Now(c).do = "stmt"
  /\ LET i == Now(c) IN
     \/ /\ CASE i.what = "insert" -> /\ \E id \in Ids \ used : users' = users \union {id} /\ used' = used \union {id}
             [] i.what = "delete" -> users' = users \ {i.id} /\ UNCHANGED used
             [] OTHER -> UNCHANGED <<users, used>>
        /\ \/ Fails(c, "return")
           \/ IF i.what \in {"insert", "list"} \/ baseRequest(i.id) = "ok"
              THEN /\ step' = [step EXCEPT ![c] = @ + 1] /\ UNCHANGED crashed
                   /\ answer' = [answer EXCEPT ![c].ids = IF i.what = "list" THEN users
                                                         ELSE IF i.what = "insert" THEN users' \ users ELSE {i.id}]
              ELSE Fails(c, "return")
     \/ Fails(c, "return") /\ UNCHANGED <<users, used>>
  /\ held' = Keep(c, Left(c))
  /\ UNCHANGED <<call, cut>>

Cancel(c) ==
  /\ c \notin cut /\ cut' = cut \union {c}
  /\ held' = Keep(c, {"conn"})
  /\ UNCHANGED <<call, step, users, used, answer, crashed>>

SqlStep(c) ==
  step[c] # Ended /\ (TakeConn(c) \/ UseConn(c) \/ GiveConn(c) \/ Statement(c) \/ ExitNow(c))
SqlNext == ~crashed /\ \E c \in Callers : SqlStep(c) \/ Cancel(c)

-------------------------------------------------------------------------------
(* A function that has returned, with or without an error, has given back    *)
(* what it took; only the three examples named Exhaust and TxDeadlock keep   *)
(* connections, and of those only ConnExhaust keeps one after its context is *)
(* cancelled.                                                                *)
PoolRestored ==
  \A c \in Callers : step[c] = Ended /\ held[c] # {} =>
    /\ call[c].name \in Leaky
    /\ c \in cut => call[c].name = "ConnExhaust"

Alive(c) == step[c] # Ended /\ ~crashed

(* Calls that hold one connection at a time and give it back never wait for  *)
(* ever for each other; and a call whose context is cancelled returns,       *)
(* whoever has exhausted the pool, unless it waits without the context.      *)
PoolEnds == (\A c \in Callers : call[c].name \notin Leaky \union Nested) => \A c \in Callers : ~Alive(c)
MustEnd(c) == c \in cut /\ call[c].name # "NoContext"

(* What a dao method that worked told its caller is true: the id of Create   *)
(* is nobody else's, and an Update, Delete or Lookup was about a user some    *)
(* Create had made.                                                          *)
DaoRight ==
  \A c \in Callers : answer[c].is = "ok" /\ answer[c].ids # {} =>
    /\ answer[c].ids \subseteq used
    /\ call[c].name = "Create" =>
         /\ Cardinality(answer[c].ids) = 1
         /\ \A b \in Callers \ {c} : call[b].name = "Create" => answer[b].ids # answer[c].ids
===============================================================================
