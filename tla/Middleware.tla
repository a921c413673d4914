------------------------------- MODULE Middleware -----------------------------
(***************************************************************************)
(* The three middlewares around one handler, as a router stacks them: the  *)
(* request log outside, the gauge, the authorization, the handler; and the *)
(* gauge's own handler, which prints the metrics.  net/http runs every     *)
(* request in a goroutine and recovers its panics.  A write of a map that  *)
(* somebody iterates over ends the whole process.                          *)
(***************************************************************************)
EXTENDS Naturals, FiniteSets

CONSTANTS
  Requests,   \* one goroutine each
  Loads,      \* what the requests may be: functions from them to kinds, records
              \* [path, token, check, handler]; handler is "ok", "panic" or "metrics"
  UserPaths   \* the paths in which the word user is

VARIABLES
  request,    \* request -> its kind
  at,         \* request -> where it is
  status,     \* request -> the status it answers with, or "panic"; "" before
  user,       \* request -> the value its context has for userString
  metrics,    \* path -> count; a path that was never counted is not there
  lock,       \* who holds mu: a set of readers, or of one writer
  writing,    \* the requests inside a map write
  value,      \* the value a write has read
  keys,       \* metrics request -> the keys it has yet to print
  printed,    \* metrics request -> what it has printed
  before,     \* history: metrics when the metrics request began
  log,        \* the entries of the log: a set of <<request, message, status>>
  dead        \* fatal error: concurrent map iteration and map write

webvars == <<request, at, status, user, metrics, lock, writing, value, keys, printed, before, log, dead>>

\* All paths with a user in them are one.  The path "" is not counted.
Name(k) == IF k.path \in UserPaths THEN "/user/{userID}" ELSE k.path
Names == {Name(request[r]) : r \in Requests}
Empty == [p \in {} |-> 0]
Count(m, p) == IF p \in DOMAIN m THEN m[p] ELSE 0
With(m, p, c) == [q \in DOMAIN m \union {p} |-> IF q = p THEN c ELSE m[q]]

WebInit ==
  /\ request \in Loads
  /\ at = [r \in Requests |-> "new"] /\ status = [r \in Requests |-> ""]
  /\ user = [r \in Requests |-> "absent"]
  /\ metrics = Empty /\ lock = {} /\ writing = {}
  /\ value = [r \in Requests |-> 0]
  /\ keys = [r \in Requests |-> {}] /\ printed = [r \in Requests |-> Empty]
  /\ before = [r \in Requests |-> Empty]
  /\ log = {} /\ dead = FALSE

Is(r, h) == request[r].handler = h
Move(r, from, to) == at[r] = from /\ at' = [at EXCEPT ![r] = to]
gauge == <<metrics, lock, writing, value>>
page == <<keys, printed, before>>

-------------------------------------------------------------------------------
(* requestlog.Log and auth.CheckAuth                                       *)

Started(r) ==
  /\ Move(r, "new", IF Is(r, "metrics") THEN "range" ELSE "auth")
  /\ log' = log \union {<<r, "request started", "">>}
  /\ before' = [before EXCEPT ![r] = metrics]
  /\ UNCHANGED <<request, status, user, gauge, keys, printed, dead>>

\* The header: two words, the first of them Bearer
isValid(token) == token = "Bearer"

\* what CheckAuth answers itself, or "" when it calls the next handler
Refused(k) ==
  IF ~isValid(k.token) THEN "401"
  ELSE CASE k.check = "ok" -> ""
         [] k.check = "ErrInvalidToken" -> "401"
         [] k.check = "error" -> "500"

\* The type assertion of ContextUser fails on a context without a user.
ContextUser(u) == IF u = "absent" THEN "panic" ELSE "ok"

\* The handler asks for the user of its context.
CheckAuth(r) ==
  /\ Move(r, "auth", "count")
  /\ LET refused == Refused(request[r])
         u == IF isValid(request[r].token) /\ request[r].check = "ok" THEN "user" ELSE "absent"
     IN  /\ user' = [user EXCEPT ![r] = IF refused = "" THEN u ELSE @]
         /\ status' = [status EXCEPT ![r] =
              IF refused # "" THEN refused
              ELSE IF ContextUser(u) = "panic" \/ Is(r, "panic") THEN "panic" ELSE "200"]
  /\ UNCHANGED <<request, gauge, page, log, dead>>

\* After the panic of a handler the deferred function logs it and panics on.
Finished(r) ==
  /\ Move(r, "finish", "ended")
  /\ log' = log \union {<<r, IF status[r] = "panic" THEN "request panicked" ELSE "request finished", status[r]>>}
  /\ UNCHANGED <<request, status, user, gauge, page, dead>>

-------------------------------------------------------------------------------
(* httpgauge: the deferred function of Wrap                                *)

Lock(r) ==
  /\ IF Name(request[r]) = "" THEN Move(r, "count", "finish") /\ UNCHANGED lock
     ELSE Move(r, "count", "read") /\ lock = {} /\ lock' = {r}
  /\ UNCHANGED <<request, status, user, metrics, writing, value, page, log, dead>>

\* metrics[s]++: the value is read, then the write begins, then it ends
Read(r) ==
  /\ Move(r, "read", "write")
  /\ value' = [value EXCEPT ![r] = Count(metrics, Name(request[r]))]
  /\ UNCHANGED <<request, status, user, metrics, lock, writing, page, log, dead>>
Write(r) ==
  /\ Move(r, "write", "unlock")
  /\ writing' = writing \union {r}
  /\ metrics' = With(metrics, Name(request[r]), value[r] + 1)
  /\ UNCHANGED <<request, status, user, lock, value, page, log, dead>>
Unlock(r) ==
  /\ Move(r, "unlock", "finish")
  /\ writing' = writing \ {r} /\ lock' = lock \ {r}
  /\ UNCHANGED <<request, status, user, metrics, value, page, log, dead>>

Wrap(r) == Lock(r) \/ Read(r) \/ Write(r) \/ Unlock(r)

(* httpgauge: ServeHTTP                                                    *)

\* The range over the map has no lock: at every key it may meet a write, and
\* it shows or misses what is added meanwhile.
Range(r) ==
  /\ \/ Move(r, "range", "ranging") /\ keys' = [keys EXCEPT ![r] = DOMAIN metrics]
     \/ /\ Move(r, "ranging", "print")
        /\ \E new \in SUBSET (DOMAIN metrics \ keys[r]) : keys' = [keys EXCEPT ![r] = @ \union new]
  /\ dead' = (writing # {})
  /\ UNCHANGED <<request, status, user, gauge, printed, before, log>>

\* A key at a time, each under RLock; sorted, so the order is no matter.
PrintKey(r) ==
  /\ at[r] = "print" /\ lock = {}
  /\ \E k \in keys[r] :
       /\ keys' = [keys EXCEPT ![r] = @ \ {k}]
       /\ printed' = [printed EXCEPT ![r] = With(@, k, metrics[k])]
  /\ UNCHANGED <<request, at, status, user, gauge, before, log, dead>>
Printed(r) ==
  /\ keys[r] = {} /\ Move(r, "print", "finish")
  /\ status' = [status EXCEPT ![r] = "200"]
  /\ UNCHANGED <<request, user, gauge, page, log, dead>>

ServeHTTP(r) == Range(r) \/ PrintKey(r) \/ Printed(r)

WebNext == ~dead /\ \E r \in Requests : Started(r) \/ CheckAuth(r) \/ Wrap(r) \/ ServeHTTP(r) \/ Finished(r)

-------------------------------------------------------------------------------
(* Every request that has gone through Wrap is counted once, whether its     *)
(* handler ended, was refused or panicked; a page of metrics shows for every *)
(* path a count between the one when the page was asked for and the current. *)
GaugeCounts ==
  ~dead =>
    /\ \A p \in Names \ {""} :
         Count(metrics, p) = Cardinality({r \in Requests : at[r] \in {"unlock", "finish", "ended"}
                                            /\ Name(request[r]) = p /\ ~Is(r, "metrics")})
    /\ \A r \in Requests : Is(r, "metrics") /\ at[r] = "ended" =>
         /\ DOMAIN before[r] \subseteq DOMAIN printed[r]
         /\ \A p \in DOMAIN printed[r] :
              printed[r][p] \in Count(before[r], p) .. metrics[p]

(* A handler behind CheckAuth runs with a user if and only if the token is   *)
(* good, and the log tells of every request how it ended.                    *)
AuthAndLog ==
  \A r \in Requests : ~Is(r, "metrics") /\ status[r] # "" =>
    LET good == isValid(request[r].token) /\ request[r].check = "ok"
    IN  /\ status[r] = "200" => good /\ user[r] = "user"
        /\ status[r] = "panic" => good /\ Is(r, "panic")
        /\ at[r] = "ended" =>
             {e \in log : e[1] = r} =
               {<<r, "request started", "">>,
                IF status[r] = "panic" THEN <<r, "request panicked", "panic">>
                ELSE <<r, "request finished", status[r]>>}

WebEnds == dead \/ \A r \in Requests : at[r] = "ended"
===============================================================================
