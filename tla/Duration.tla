-------------------------------- MODULE Duration ------------------------------
(***************************************************************************)
(* tabletest.ParseDuration: [-+]?([0-9]*(\.[0-9]* )?[a-z]+)+ to a signed   *)
(* integer of Width bits, which is checked for overflow at every place it  *)
(* grows.  A string is a sequence of symbols; float64, used to scale the   *)
(* fraction, is exact here.                                                *)
(***************************************************************************)
EXTENDS Integers, Sequences, SequencesExt, FiniteSetsExt

CONSTANTS
  Width,         \* of the integers: 64 in the code
  Digit,         \* symbol -> its value
  unitMap        \* symbol of a unit -> its nanoseconds

MaxInt == 2 ^ (Width - 1) - 1
Wrap(x) == ((x + MaxInt + 1) % (2 ^ Width)) - MaxInt - 1

Failed == [ok |-> FALSE, d |-> 0]
IsDigit(c) == c \in DOMAIN Digit
\* how many symbols at the beginning of s are all of the kind P
Leading(s, P(_)) == Max({n \in 0 .. Len(s) : \A i \in 1 .. n : P(s[i])})
Rest(s, n) == SubSeq(s, n + 1, Len(s))

\* -1 is errLeadingInt
leadingInt_SignOnly(s) ==           \* mutant: an overflow that gives a positive number
  LET add(x, c) == IF x < 0 \/ Wrap(x * 10 + Digit[c]) < 0 THEN 0 - 1 ELSE Wrap(x * 10 + Digit[c])
  IN  FoldLeft(add, 0, SubSeq(s, 1, Leading(s, IsDigit)))
leadingInt(s) ==
  LET add(x, c) == IF x < 0 \/ x > MaxInt \div 10 \/ Wrap(x * 10 + Digit[c]) < 0 THEN 0 - 1 ELSE x * 10 + Digit[c]
  IN  FoldLeft(add, 0, SubSeq(s, 1, Leading(s, IsDigit)))

\* an overflow ends the counting, not the reading
leadingFraction(s) ==
  LET add(r, c) == IF r.overflow \/ r.x > MaxInt \div 10 \/ Wrap(r.x * 10 + Digit[c]) < 0 THEN [r EXCEPT !.overflow = TRUE]
                   ELSE [r EXCEPT !.x = @ * 10 + Digit[c], !.scale = @ * 10]
  IN  FoldLeft(add, [x |-> 0, scale |-> 1, overflow |-> FALSE], SubSeq(s, 1, Leading(s, IsDigit)))

\* one round of the loop: what it adds, -1 for an error, and what is left of s
Round(s) ==
  LET pre == Leading(s, IsDigit)
      point == pre < Len(s) /\ s[pre + 1] = "."
      v == leadingInt(s)
      after == Rest(s, IF point THEN pre + 1 ELSE pre)
      post == IF point THEN Leading(after, IsDigit) ELSE 0
      f == leadingFraction(SubSeq(after, 1, post))
      named == Rest(after, post)
      i == Leading(named, LAMBDA c : c # "." /\ ~IsDigit(c))
      unit == unitMap[named[1]]
      scaled == v * unit
      sum == IF f.x > 0 THEN Wrap(scaled + (f.x * unit) \div f.scale) ELSE scaled
  IN  [v |-> IF v < 0 \/ pre + post = 0 \/ i # 1 THEN 0 - 1
             ELSE IF named[1] \notin DOMAIN unitMap THEN 0 - 1
             ELSE IF v > MaxInt \div unit \/ sum < 0 THEN 0 - 1 ELSE sum,
       rest |-> Rest(named, i)]

Parts(body) ==
  LET add[s \in Seq(ToSet(body)), d \in Nat] ==
        IF s = <<>> THEN [ok |-> TRUE, d |-> d]
        ELSE LET r == Round(s)
             IN  IF r.v < 0 \/ Wrap(d + r.v) < 0 THEN Failed ELSE add[r.rest, d + r.v]
  IN  add[body, 0]

ParseDuration(s) ==
  LET signed == s # <<>> /\ s[1] \in {"-", "+"}
      body == IF signed THEN Tail(s) ELSE s
      sum == Parts(body)
  IN  IF body = <<"0">> THEN [ok |-> TRUE, d |-> 0] ELSE IF body = <<>> THEN Failed
      ELSE IF signed /\ s[1] = "-" THEN [sum EXCEPT !.d = 0 - @] ELSE sum

-------------------------------------------------------------------------------
(* What the comment above the function says, with integers of any size: the  *)
(* parts of s are cut after each unit, a part is digits with at most one     *)
(* point and a unit.  A string is refused if it has another form or its size *)
(* is above the largest integer (so the smallest one is refused, although it *)
(* would fit); the value is less than one nanosecond a part below the exact  *)
(* one.                                                                      *)
DurationRight(s, reply) ==
  LET body == IF s # <<>> /\ s[1] \in {"-", "+"} THEN Tail(s) ELSE s
      units == {i \in DOMAIN body : body[i] \in DOMAIN unitMap}
      first(u) == Max({0} \union {i \in units : i < u}) + 1
      digits(u) == SelectSeq(SubSeq(body, first(u), u - 1), IsDigit)
      points(u) == {i \in first(u) .. u - 1 : body[i] = "."}
      form == /\ body # <<>> /\ Len(body) \in units
              /\ \A i \in DOMAIN body : IsDigit(body[i]) \/ body[i] = "." \/ i \in units
              /\ \A u \in units : digits(u) # <<>> /\ (points(u) = {} \/ \E p \in points(u) : points(u) = {p})
      \* thousandths: a part has at most three digits after its point
      after(u) == IF points(u) = {} THEN 0 ELSE u - 1 - Max(points(u))
      number(u) == FoldLeft(LAMBDA x, c : x * 10 + Digit[c], 0, digits(u)) * 10 ^ (3 - after(u))
      exact == FoldLeft(LAMBDA x, u : x + number(u) * unitMap[body[u]], 0, SetToSeq(units))
      value == IF s # <<>> /\ s[1] = "-" THEN 0 - reply.d ELSE reply.d
  IN  IF body = <<"0">> THEN reply = [ok |-> TRUE, d |-> 0]
      ELSE IF ~form THEN ~reply.ok
      ELSE IF reply.ok THEN 1000 * value <= exact /\ exact < 1000 * (value + Cardinality(units))
      ELSE exact > 1000 * MaxInt
===============================================================================
