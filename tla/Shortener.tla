-------------------------------- MODULE Shortener -----------------------------
(***************************************************************************)
(* urlshortener: handlerPost gives a URL a key, handlerGet redirects from  *)
(* it.  Every request is a goroutine; the random key is drawn before the   *)
(* mutex is taken, and may be one that is in use.                          *)
(***************************************************************************)
EXTENDS Naturals, FiniteSets

CONSTANTS Posts, Urls, RandomKeys, Bad   \* Bad: a body that is no JSON

VARIABLES
  post,      \* request -> "new", "drawn", "locked", "answered" or "refused"
  url,       \* request -> the URL it posts, or Bad
  key,       \* request -> its key
  db,        \* key -> URL, for the keys in use
  mutex,     \* the request that holds mu, or 0
  clash      \* history: a key in use was drawn for another URL

shortvars == <<post, url, key, db, mutex, clash>>

ShortInit ==
  /\ post = [r \in Posts |-> "new"]
  /\ url \in [Posts -> Urls \union {Bad}]
  /\ key = [r \in Posts |-> 0]
  /\ db = [k \in {} |-> 0] /\ mutex = 0 /\ clash = FALSE

Goes(r, from, to) == post[r] = from /\ post' = [post EXCEPT ![r] = to]
Holding(u) == {k \in DOMAIN db : db[k] = u}
Put(k, u) == [j \in DOMAIN db \union {k} |-> IF j = k THEN u ELSE db[j]]

\* method, body and JSON are looked at; the key is drawn
Draw(r) ==
  /\ \/ url[r] = Bad /\ Goes(r, "new", "refused") /\ UNCHANGED key
     \/ url[r] # Bad /\ Goes(r, "new", "drawn") /\ \E k \in RandomKeys : key' = [key EXCEPT ![r] = k]
  /\ UNCHANGED <<url, db, mutex, clash>>

Search_Unlocked(r) ==               \* mutant: mu.Lock() comes after the search
  /\ Goes(r, "drawn", "locked")
  /\ key' = [key EXCEPT ![r] = IF Holding(url[r]) = {} THEN @ ELSE CHOOSE k \in Holding(url[r]) : TRUE]
  /\ UNCHANGED <<url, db, mutex, clash>>

\* the lock, and the search for a key the URL has already
Search(r) ==
  /\ mutex = 0 /\ mutex' = r
  /\ Goes(r, "drawn", "locked")
  /\ \E k \in (IF Holding(url[r]) = {} THEN {key[r]} ELSE Holding(url[r])) : key' = [key EXCEPT ![r] = k]
  /\ UNCHANGED <<url, db, clash>>

\* db[key] = url, the unlock, the answer
handlerPost(r) ==
  /\ Goes(r, "locked", "answered")
  /\ mutex' = 0
  /\ clash' = (clash \/ (key[r] \in DOMAIN db /\ db[key[r]] # url[r]))
  /\ db' = Put(key[r], url[r])
  /\ UNCHANGED <<url, key>>

ShortNext == \E r \in Posts : Draw(r) \/ Search(r) \/ handlerPost(r)

-------------------------------------------------------------------------------
\* the Location of /go/<k>, or 404
handlerGet(k) == IF k \in DOMAIN db THEN db[k] ELSE "404"

(* However the requests interleave, a URL has one key; and unless a key in   *)
(* use was drawn for another URL, every key that was answered leads to its   *)
(* URL for ever, and two answers for one URL have the same key.              *)
ShortLinks ==
  /\ \A u \in Urls : Cardinality(Holding(u)) <= 1
  /\ ~clash => \A r \in Posts : post[r] = "answered" =>
       /\ handlerGet(key[r]) = url[r]
       /\ \A q \in Posts : post[q] = "answered" /\ url[q] = url[r] => key[q] = key[r]

ShortEnds == \A r \in Posts : post[r] \in {"answered", "refused"}
===============================================================================
