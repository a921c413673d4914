------------------------------- MODULE Algorithms -----------------------------
(***************************************************************************)
(* Functions of the solutions that compute a value from their arguments    *)
(* and keep no state, next to what they should compute: hotelbusiness,     *)
(* java-solutions' search and its checked arithmetic.  A loop is the       *)
(* function of its rounds.                                                 *)
(***************************************************************************)
EXTENDS Integers, Sequences, FiniteSets, FiniteSetsExt, Functions

CONSTANT Width     \* of Java's int: 32 in the code

Pow2[n \in 0 .. Width + 1] == IF n = 0 THEN 1 ELSE 2 * Pow2[n - 1]

MaxInt == Pow2[Width - 1] - 1
MinInt == -MaxInt - 1
Ints   == MinInt .. MaxInt
Wrap(x) == ((x - MinInt) % Pow2[Width]) + MinInt

\* the elements of S in their order
Ordered(S) == CHOOSE s \in [1 .. Cardinality(S) -> S] : \A i, j \in DOMAIN s : i < j => s[i] < s[j]

-------------------------------------------------------------------------------
(* hotelbusiness.ComputeLoad: a guest is [in, out], both days; -1 is the     *)
(* code's "no day yet"                                                       *)

DayChange(guests, d) ==
  Cardinality({i \in DOMAIN guests : guests[i].in = d}) - Cardinality({i \in DOMAIN guests : guests[i].out = d})

Days(guests) == UNION {{guests[i].in, guests[i].out} : i \in DOMAIN guests}

\* one round of the loop over the sorted keys
AddDay(guests, s, d) ==
  [result |-> IF s.prev # -1 /\ d > s.prev /\ DayChange(guests, s.prev) # 0
              THEN Append(s.result, <<s.prev, s.current>>) ELSE s.result,
   current |-> s.current + DayChange(guests, d), prev |-> d]

ComputeLoad(guests) ==
  LET days == Ordered(Days(guests))
      after[k \in 0 .. Len(days)] ==
        IF k = 0 THEN [result |-> <<>>, current |-> 0, prev |-> -1] ELSE AddDay(guests, after[k - 1], days[k])
      end == after[Len(days)]
  IN  IF end.prev = -1 THEN <<>> ELSE Append(end.result, <<end.prev, end.current>>)

(* The load is a step function: on every day the last step says how many     *)
(* guests are in, and no step repeats the one before it unless somebody      *)
(* leaves on the day of coming.                                              *)
LoadRight(guests, load) ==
  /\ \A i, j \in DOMAIN load : i < j => load[i][1] < load[j][1]
  /\ \A i \in 2 .. Len(load) : load[i][2] = load[i - 1][2] => \E g \in Range(guests) : g.in = g.out
  /\ \A d \in Days(guests) :
       LET begun == {i \in DOMAIN load : load[i][1] <= d}
           inside == Cardinality({i \in DOMAIN guests : guests[i].in <= d /\ d < guests[i].out})
       IN  IF begun = {} THEN inside = 0 ELSE load[Max(begun)][2] = inside

-------------------------------------------------------------------------------
(* java-solutions/search: l and r enclose the place of x in a sorted list,   *)
(* whose elements are a.get(0) ..                                            *)

get(a, i) == a[i + 1]
middle(l, r) == (r + l) \div 2

\* what both searches return when l and r have met
Met(a, x, l, r) == IF l >= 0 /\ get(a, l) = x THEN l ELSE r

halve(a, x, isUp, s) ==
  LET m == middle(s.l, s.r)
  IN  IF s.r - s.l <= 1 THEN s
      ELSE IF (~isUp /\ get(a, m) > x) \/ (isUp /\ get(a, m) <= x) THEN [s EXCEPT !.l = m] ELSE [s EXCEPT !.r = m]

\* The loop halves at most Len(a) times.
Bounds(a, x, isUp) ==
  LET after[k \in 0 .. Len(a)] ==
        IF k = 0 THEN [l |-> -1, r |-> Len(a)] ELSE halve(a, x, isUp, after[k - 1])
  IN  after[Len(a)]
binIter(a, x, isUp) == LET s == Bounds(a, x, isUp) IN Met(a, x, s.l, s.r)

recursion(a, x) ==
  LET between[s \in [l : -1 .. Len(a), r : -1 .. Len(a)]] ==
        LET m == middle(s.l, s.r)
        IN  IF s.r - s.l <= 1 THEN Met(a, x, s.l, s.r)
            ELSE between[IF get(a, m) > x THEN [s EXCEPT !.l = m] ELSE [s EXCEPT !.r = m]]
  IN  between[[l |-> -1, r |-> Len(a)]]

\* Math.abs has no positive value for the smallest integer.
MathAbs(x) == Wrap(IF x < 0 THEN -x ELSE x)
leftOrRight(a, x, l, r) ==
  LET delta1 == IF l >= 0 THEN MathAbs(Wrap(get(a, l) - x)) ELSE 0
      delta2 == IF r < Len(a) THEN MathAbs(Wrap(get(a, r) - x)) ELSE 0
  IN  IF delta1 <= delta2 /\ l >= 0 THEN get(a, l)
      ELSE IF r < Len(a) THEN get(a, r)
      ELSE IF a = <<>> THEN 0 ELSE IF x < get(a, 0) THEN get(a, 0) ELSE a[Len(a)]

\* The three searches, in a list that descends and in the same one ascending
Searched(a, x) ==
  LET up == [i \in 1 .. Len(a) |-> a[Len(a) - i + 1]]
      s == Bounds(up, x, TRUE)
  IN  [iter |-> binIter(a, x, FALSE), recur |-> recursion(a, x),
       closest |-> leftOrRight(up, x, s.l, s.r)]

Distance(e, x) == IF e < x THEN x - e ELSE e - x

(* Both searches of a descending list give the first place whose element is  *)
(* not above x; the third gives an element that none is closer to x than, if *)
(* the differences to the neighbours of x are integers.                      *)
SearchRight(a, x, found) ==
  LET below == {e \in Range(a) : e <= x}
      above == {e \in Range(a) : e > x}
      near == (IF below = {} THEN {} ELSE {Max(below)}) \union (IF above = {} THEN {} ELSE {Min(above)})
  IN  /\ found.iter = Cardinality({i \in DOMAIN a : a[i] > x}) /\ found.recur = found.iter
      /\ a # <<>> /\ (\A e \in near : Distance(e, x) <= MaxInt) =>
           found.closest \in Range(a) /\ \A e \in Range(a) : Distance(found.closest, x) <= Distance(e, x)

-------------------------------------------------------------------------------
(* java-solutions/ExceptionExpressionParser: an expression is evaluated with *)
(* one variable, with three or with a list of them, and is checked only in   *)
(* the methods that Checked... overrides.                                    *)

Thrown == [ok |-> FALSE, value |-> 0]
Value(v) == [ok |-> TRUE, value |-> Wrap(v)]

\* Java's division goes towards zero.
Quotient(a, b) ==
  LET q == (IF a < 0 THEN -a ELSE a) \div (IF b < 0 THEN -b ELSE b)
  IN  IF (a < 0) = (b < 0) THEN q ELSE -q

\* CheckedBinaryOperation.evaluate; the quotients in it do not overflow but
\* for the one that is tested for
Overflows(op, a, b) ==
  CASE op = "*" -> \/ a > 0 /\ b > 0 /\ Quotient(MaxInt, a) < b
                   \/ a < 0 /\ b < 0 /\ Quotient(MaxInt, a) > b
                   \/ a < 0 /\ b > 0 /\ Quotient(MinInt, b) > a
                   \/ a > 0 /\ b < 0 /\ Quotient(MinInt, a) > b
    [] op = "/" -> b = 0 \/ (a = MinInt /\ b = -1)
    [] op = "+" -> LET sum == Wrap(a + b)
                   IN  \/ a > 0 /\ b > 0 /\ (sum < a \/ sum < b)
                       \/ a < 0 /\ b < 0 /\ (sum > a \/ sum > b)
    [] op = "-" -> (b > 0 /\ Wrap(MinInt + b) > a) \/ (b < 0 /\ Wrap(MaxInt + b) < a)
Exact(op, a, b) ==
  CASE op = "*" -> a * b [] op = "/" -> Quotient(a, b) [] op = "+" -> a + b [] op = "-" -> a - b
checkedBinary(op, a, b) == IF Overflows(op, a, b) THEN Thrown ELSE Value(Exact(op, a, b))
checkedNegate(a) == IF a = MinInt THEN Thrown ELSE Value(-a)

\* evaluate of one variable, inherited from the operations without checks:
\* Java's own arithmetic
unchecked(op, a, b) == IF op = "/" /\ b = 0 THEN Thrown ELSE Value(Exact(op, a, b))
uncheckedMinus(a) == Value(-a)

\* The loop of pow2 multiplies with evaluate(0), or with that of a list.
doubled(variant, pow) == IF variant = "list" THEN checkedBinary("*", pow, 2) ELSE unchecked("*", pow, 2)
checkedPow(variant, a) ==
  LET pow[i \in 0 .. a] ==
        IF i = 0 THEN Value(1) ELSE IF pow[i - 1].ok THEN doubled(variant, pow[i - 1].value) ELSE Thrown
  IN  IF a < 0 \/ a >= Width - 1 THEN Thrown ELSE pow[a]

\* log2 of three variables tries the exponents below 31, that of one variable
\* and of a list one more, for which pow2 throws.
logExponents(variant) == IF variant = "three" THEN Width - 1 ELSE Width
checkedLog(variant, a) ==
  LET ends == {i \in 0 .. logExponents(variant) - 1 : ~checkedPow(variant, i).ok \/ checkedPow(variant, i).value >= a}
      i == Min(ends)
  IN  IF a <= 0 THEN Thrown
      ELSE IF ends = {} THEN Value(IF variant = "three" THEN Width - 2 ELSE 0)
      ELSE IF ~checkedPow(variant, i).ok THEN Thrown
      ELSE Value(IF checkedPow(variant, i).value = a THEN i ELSE i - 1)

Arithmetic == {"*", "/", "+", "-"}
Evaluated(e) ==
  CASE e.op \in Arithmetic -> IF e.variant = "one" THEN unchecked(e.op, e.a, e.b) ELSE checkedBinary(e.op, e.a, e.b)
    [] e.op = "negate" -> IF e.variant = "one" THEN uncheckedMinus(e.a) ELSE checkedNegate(e.a)
    [] e.op = "pow2" -> checkedPow(e.variant, e.a)
    [] OTHER -> checkedLog(e.variant, e.a)

(* Of three variables or a list an operation gives its exact result, and     *)
(* throws exactly when there is none or it is no int; but log2 of one        *)
(* variable or a list throws also for what is larger than the largest power  *)
(* of two.  Of one variable the four operations and the minus are Java's:    *)
(* they throw only for a division by zero, and an exact result that is no    *)
(* int comes back modulo 2^Width.                                            *)
Wraps(e) == e.variant = "one" /\ e.op \in Arithmetic \union {"negate"}
Results(e) ==
  CASE e.op \in {"*", "+", "-"} -> {Exact(e.op, e.a, e.b)}
    [] e.op = "/" -> {q \in MinInt .. MaxInt + 1 : e.b # 0 /\ \E rest \in Ints :
                        e.a = q * e.b + rest /\ rest * e.a >= 0 /\ Distance(rest, 0) < Distance(e.b, 0)}
    [] e.op = "negate" -> {-e.a}
    [] e.op = "pow2" -> {Pow2[n] : n \in {e.a} \intersect (0 .. Width)}
    [] OTHER -> {n \in 0 .. Width : Pow2[n] <= e.a /\ e.a < Pow2[n + 1] /\ (e.variant = "three" \/ e.a <= Pow2[Width - 2])}
CheckedRight(e, result) ==
  IF Wraps(e)
  THEN /\ result.ok = (Results(e) # {})
       /\ result.ok => result.value \in Ints /\ \E x \in Results(e) : (result.value - x) % Pow2[Width] = 0
  ELSE /\ result.ok = (Results(e) \intersect Ints # {})
       /\ result.ok => result.value \in Results(e) /\ result.value \in Ints
===============================================================================
