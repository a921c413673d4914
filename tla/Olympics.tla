-------------------------------- MODULE Olympics ------------------------------
(***************************************************************************)
(* olympics: the three handlers over winners, the records of a JSON file,  *)
(* which nothing changes once it is loaded.  A record is [athlete, country,*)
(* sport, year, medals], medals the four counters gold, silver, bronze and *)
(* total.  Names are numbers, in their order.  A query is [of, key, limit]:*)
(* of is "athlete", "sport" or "year", for the handler, and a parameter is *)
(* a value, Missing or Malformed.                                          *)
(***************************************************************************)
EXTENDS Integers, Sequences, FiniteSets, FiniteSetsExt, Functions

CONSTANTS
  Fold(_),               \* strings.EqualFold: sports with the same Fold are equal
  Missing, Malformed     \* numbers that are no value

NoMedals == [i \in 1 .. 4 |-> 0]
Plus(m, k) == [i \in 1 .. 4 |-> m[i] + k[i]]
NoTable == [x \in {} |-> NoMedals]
Credit(table, key, medals) ==
  [x \in DOMAIN table \union {key} |->
     IF x # key THEN table[x] ELSE Plus(IF key \in DOMAIN table THEN table[key] ELSE NoMedals, medals)]

Picks(q, w) ==
  CASE q.of = "athlete" -> w.athlete = q.key [] q.of = "sport" -> Fold(w.sport) = Fold(q.key) [] OTHER -> w.year = q.key
\* the name a record is counted under
Named(q, w) == IF q.of = "year" THEN w.country ELSE w.athlete

\* an athlete's country is that of the first record counted; of a country
\* only the medals are kept
NewInfo(w) == [country |-> w.country, medals |-> NoMedals, byYear |-> NoTable]
Count(info, w) == [info EXCEPT !.medals = Plus(@, w.medals), !.byYear = Credit(@, w.year, w.medals)]

\* one round of the loop over winners
Enter(stats, x, w) ==
  [y \in DOMAIN stats \union {x} |->
     IF y # x THEN stats[y] ELSE Count(IF x \in DOMAIN stats THEN stats[x] ELSE NewInfo(w), w)]
Stats(winners, q) ==
  LET after[k \in 0 .. Len(winners)] ==
        IF k = 0 THEN [x \in {} |-> NoMedals]
        ELSE IF Picks(q, winners[k]) THEN Enter(after[k - 1], Named(q, winners[k]), winners[k]) ELSE after[k - 1]
  IN  after[Len(winners)]

\* mutant: equals stand as the map gave them
Before_MedalsOnly(r, s) ==
  \E i \in 1 .. 3 : r.medals[i] > s.medals[i] /\ \A j \in 1 .. i - 1 : r.medals[j] = s.medals[j]
\* the less functions of both sort.Slice
Before(r, s) ==
  \/ \E i \in 1 .. 3 : r.medals[i] > s.medals[i] /\ \A j \in 1 .. i - 1 : r.medals[j] = s.medals[j]
  \/ (\A i \in 1 .. 3 : r.medals[i] = s.medals[i]) /\ r.name < s.name
\* what sort.Slice may make of the rows, whatever order the map gave them in
Slices(rows) ==
  {s \in [1 .. Cardinality(rows) -> rows] :
     \A i, j \in 1 .. Cardinality(rows) : i < j => s[i] # s[j] /\ ~Before(s[j], s[i])}

Error(code) == [code |-> code, rows |-> <<>>]
Reply(rows) == [code |-> 200, rows |-> rows]

\* cut at limit, 3 if there is none; a negative limit is a slice out of
\* range, and the panic ends the request
Limit(q) == IF q.limit = Missing THEN 3 ELSE q.limit
Top(q, rows) ==
  IF Limit(q) < 0 THEN {Error(500)}
  ELSE {Reply(SubSeq(s, 1, IF Limit(q) > Cardinality(rows) THEN Cardinality(rows) ELSE Limit(q))) : s \in Slices(rows)}

Refused(q) ==
  \/ q.key = Missing \/ (q.of = "year" /\ q.key = Malformed)
  \/ (q.of # "athlete" /\ q.limit = Malformed)

\* the replies there may be
Handle(winners, q) ==
  LET stats == Stats(winners, q)
      row(x) == [name |-> x, medals |-> stats[x].medals, country |-> stats[x].country, byYear |-> stats[x].byYear]
  IN  IF Refused(q) THEN {Error(400)} ELSE IF DOMAIN stats = {} THEN {Error(404)}
      ELSE IF q.of = "athlete" THEN {Reply(<<row(q.key)>>)} ELSE Top(q, {row(x) : x \in DOMAIN stats})

-------------------------------------------------------------------------------
\* the medals of the first n records, of those numbered in I
Totals(winners, I) ==
  LET upto[n \in 0 .. Len(winners)] ==
        IF n = 0 THEN NoMedals ELSE IF n \in I THEN Plus(upto[n - 1], winners[n].medals) ELSE upto[n - 1]
  IN  upto
Sum(winners, I) == Totals(winners, I)[Len(winners)]

(* Who is shown is shown with all the medals of the records with the name,   *)
(* and an athlete with those of each year.  A ranking has each name once, as *)
(* many as there are or as asked for, best first; who is left out is not     *)
(* better than the last, and equals stand by name, whatever order the map    *)
(* gave.                                                                     *)
ReplyRight(winners, q, reply) ==
  LET I == {i \in DOMAIN winners : Picks(q, winners[i])}
      with(n) == {i \in I : Named(q, winners[i]) = n}
      all == {[name |-> n, medals |-> Sum(winners, with(n))] : n \in {Named(q, winners[i]) : i \in I}}
      shown(r) == [name |-> r.name, medals |-> r.medals]
      better(r, s) == LET diff == {i \in 1 .. 3 : r.medals[i] # s.medals[i]}
                      IN  IF diff = {} THEN r.name < s.name ELSE r.medals[Min(diff)] > s.medals[Min(diff)]
  IN  /\ reply.code = 404 => I = {}
      /\ reply.code = 200 =>
           /\ I # {}
           /\ \A r \in Range(reply.rows) : shown(r) \in all
           /\ Len(reply.rows) = Min({Cardinality(all), Limit(q)})
           /\ \A i, j \in DOMAIN reply.rows : i < j => better(reply.rows[i], reply.rows[j])
           /\ \A a \in all, r \in Range(reply.rows) : better(r, a) \/ \E s \in Range(reply.rows) : shown(s) = a
           /\ q.of # "year" =>
                \A r \in Range(reply.rows) :
                  r.byYear = [y \in {winners[i].year : i \in with(r.name)} |->
                                Sum(winners, {i \in with(r.name) : winners[i].year = y})]
===============================================================================
