------------------------------- MODULE DataProofs -----------------------------
(***************************************************************************)
(* What the data structures keep and promise, and that the functions give  *)
(* the right answers, for every value of the constants.  The cache, the    *)
(* queue, the cipher, the tournament and the course list have an inductive *)
(* invariant each, and a step of Data is a step of the one it is about; a  *)
(* function's loop is proved by the invariant of its rounds.               *)
(***************************************************************************)
EXTENDS Data, FiniteSetTheorems, SequenceTheorems, WellFoundedInduction, TLAPS

(* The instances use the community modules' operators under their own names. *)
LEMMA SameOperators ==
  /\ \A s, e : Cache!RemoveFirst(s, e) = RemoveFirst(s, e) /\ Matches!RemoveFirst(s, e) = RemoveFirst(s, e)
  /\ \A s : Cache!ToSet(s) = ToSet(s) /\ Matches!ToSet(s) = ToSet(s)
  /\ \A s : Cache!IsInjective(s) = IsInjective(s) /\ Matches!IsInjective(s) = IsInjective(s)
BY DEF Cache!RemoveFirst, RemoveFirst, Matches!RemoveFirst, Cache!RemoveAt, RemoveAt, Matches!RemoveAt,
       Cache!SelectInSeq, SelectInSeq, Matches!SelectInSeq, Cache!Min, Min, Matches!Min,
       Cache!ToSet, ToSet, Matches!ToSet, Cache!IsInjective, IsInjective, Matches!IsInjective

(* A sequence without its p-th element, the only one of its value.           *)
Shortened(s, p) == [i \in 1 .. Len(s) - 1 |-> IF i < p THEN s[i] ELSE s[i + 1]]

LEMMA RemovedAt ==
  ASSUME NEW S, NEW s \in Seq(S), NEW p \in DOMAIN s
  PROVE  RemoveAt(s, p) = Shortened(s, p)
<1> DEFINE a == SubSeq(s, 1, p - 1)
           b == SubSeq(s, p + 1, Len(s))
           c == a \o b
<1>1. p \in 1 .. Len(s) /\ Len(s) \in Nat
  OBVIOUS
<1>2. a \in Seq(S) /\ Len(a) = p - 1 /\ \A i \in 1 .. p - 1 : a[i] = s[i]
  BY <1>1, SubSeqProperties
<1>3. b \in Seq(S) /\ Len(b) = Len(s) - p /\ \A i \in 1 .. Len(s) - p : b[i] = s[p + i]
  BY <1>1, SubSeqProperties
<1> HIDE DEF a, b
<1>4. c \in Seq(S) /\ Len(c) = Len(s) - 1
  BY <1>1, <1>2, <1>3
<1>5. \A i \in 1 .. Len(s) - 1 : c[i] = IF i < p THEN s[i] ELSE s[i + 1]
  <2> TAKE i \in 1 .. Len(s) - 1
  <2>1. c[i] = IF i <= Len(a) THEN a[i] ELSE b[i - Len(a)]
    <3>1. a \in Seq(S) /\ b \in Seq(S)
      BY <1>2, <1>3
    <3>2. i \in 1 .. Len(a) + Len(b)
      BY <1>1, <1>2, <1>3
    <3> QED BY <3>1, <3>2
  <2>2. CASE i < p
    BY <1>1, <1>2, <2>1, <2>2
  <2>3. CASE ~(i < p)
    <3>1. i - (p - 1) \in 1 .. Len(s) - p /\ p + (i - (p - 1)) = i + 1 /\ ~(i <= p - 1)
      BY <1>1, <2>3
    <3> QED BY <1>2, <1>3, <2>1, <2>3, <3>1
  <2> QED BY <2>2, <2>3
<1>6. RemoveAt(s, p) = c
  BY DEF RemoveAt, a, b
<1> HIDE DEF c
<1>7. c = [i \in 1 .. Len(s) - 1 |-> c[i]]
  BY <1>4
<1> QED BY <1>5, <1>6, <1>7 DEF Shortened

LEMMA RemovedOnce ==
  ASSUME NEW S, NEW s \in Seq(S), NEW p \in DOMAIN s, \A i \in DOMAIN s : s[i] = s[p] => i = p
  PROVE  RemoveFirst(s, s[p]) = Shortened(s, p)
<1> DEFINE I == {i \in 1 .. Len(s) : s[i] = s[p]}
<1>1. I = {p} /\ p \in 1 .. Len(s) /\ Len(s) \in Nat
  OBVIOUS
<1>2. SelectInSeq(s, LAMBDA v : v = s[p]) = p
  <2>1. SelectInSeq(s, LAMBDA v : v = s[p]) = IF I # {} THEN Min(I) ELSE 0
    BY DEF SelectInSeq
  <2>2. Min({p}) = p
    BY <1>1 DEF Min
  <2> QED BY <2>1, <2>2, <1>1
<1>3. RemoveFirst(s, s[p]) = RemoveAt(s, p)
  <2>1. \E i \in 1 .. Len(s) : s[i] = s[p]
    BY <1>1
  <2> QED BY <1>2, <2>1 DEF RemoveFirst
<1> QED BY <1>3, RemovedAt

LEMMA ShortenedSeq ==
  ASSUME NEW S, NEW s \in Seq(S), NEW p \in DOMAIN s
  PROVE  /\ Shortened(s, p) \in Seq(S) /\ Len(Shortened(s, p)) = Len(s) - 1
         /\ \A i \in 1 .. Len(s) - 1 : Shortened(s, p)[i] = IF i < p THEN s[i] ELSE s[i + 1]
<1>1. Len(s) \in Nat /\ p \in 1 .. Len(s) /\ \A i \in 1 .. Len(s) : s[i] \in S
  OBVIOUS
<1>2. Shortened(s, p) \in [1 .. Len(s) - 1 -> S]
  BY <1>1 DEF Shortened
<1>3. Len(s) - 1 \in Nat
  BY <1>1
<1> QED BY <1>2, <1>3 DEF Shortened

(* A set of numbers with no smallest one is empty, so a set of numbers has   *)
(* a smallest element, and a largest if it is bounded.                       *)
LEMMA NoDescent ==
  ASSUME NEW T \in SUBSET Nat, \A k \in T : \E m \in T : m < k
  PROVE  T = {}
<1> SUFFICES ASSUME T # {} PROVE FALSE
  OBVIOUS
<1>1. PICK k \in T : \A m \in T : ~(<<m, k>> \in OpToRel(<, Nat))
  BY NatLessThanWellFounded, WFMin
<1>2. PICK m \in T : m < k
  OBVIOUS
<1>3. <<m, k>> \in OpToRel(<, Nat)
  BY <1>2 DEF OpToRel
<1> QED BY <1>1, <1>3

LEMMA Ends ==
  ASSUME NEW N \in Nat, NEW T \in SUBSET (0 .. N), T # {}
  PROVE  (\E x \in T : \A y \in T : x <= y) /\ (\E x \in T : \A y \in T : x >= y)
<1>1. \E x \in T : \A y \in T : x <= y
  <2> SUFFICES ASSUME \A x \in T : \E y \in T : ~(x <= y) PROVE FALSE
    OBVIOUS
  <2>1. T \in SUBSET Nat /\ \A k \in T : \E m \in T : m < k
    OBVIOUS
  <2> QED BY <2>1, NoDescent
<1>2. \E x \in T : \A y \in T : x >= y
  <2> SUFFICES ASSUME \A x \in T : \E y \in T : ~(x >= y) PROVE FALSE
    OBVIOUS
  <2> DEFINE D == {N - x : x \in T}
  <2>1. D \in SUBSET Nat
    OBVIOUS
  <2>2. \A k \in D : \E m \in D : m < k
    BY SMTT(60)
  <2>3. D # {}
    OBVIOUS
  <2> HIDE DEF D
  <2> QED BY <2>1, <2>2, <2>3, NoDescent
<1> QED BY <1>1, <1>2

(* A loop whose rounds stay in a set is the function of its rounds.          *)
IsStep(step, S, N) == step \in [S -> [1 .. N -> S]]
IsLoop(g, a, step, S, N) ==
  g \in [0 .. N -> S] /\ g[0] = a /\ \A k \in 1 .. N : g[k] = step[g[k - 1]][k]

LEMMA LoopExists ==
  ASSUME NEW S, NEW a, a \in S, NEW N, N \in Nat, NEW step, IsStep(step, S, N)
  PROVE  \E g : IsLoop(g, a, step, S, N)
<1> DEFINE Upto(n) == \E g \in [0 .. n -> S] : g[0] = a /\ \A k \in 1 .. n : g[k] = step[g[k - 1]][k]
           T == {n \in 0 .. N : ~Upto(n)}
<1> USE DEF IsStep, IsLoop
<1>1. ASSUME NEW n \in T PROVE \E m \in T : m < n
  <2>1. n # 0
    <3>1. [i \in 0 .. 0 |-> a] \in [0 .. 0 -> S] /\ [i \in 0 .. 0 |-> a][0] = a /\ 1 .. 0 = {}
      OBVIOUS
    <3>2. Upto(0)
      BY <3>1
    <3> HIDE DEF Upto
    <3> QED BY <3>2
  <2>2. n \in Nat \ {0} /\ n - 1 \in 0 .. N /\ n \in 1 .. N
    BY <2>1
  <2>3. ASSUME NEW g \in [0 .. n - 1 -> S], g[0] = a, \A k \in 1 .. n - 1 : g[k] = step[g[k - 1]][k]
        PROVE  Upto(n)
    <3> DEFINE h == [i \in 0 .. n |-> IF i = n THEN step[g[n - 1]][n] ELSE g[i]]
    <3>1. step[g[n - 1]][n] \in S /\ \A i \in 0 .. n - 1 : g[i] \in S
      BY <2>2
    <3>2. h \in [0 .. n -> S]
      BY <2>2, <3>1
    <3>3. h[0] = a /\ h[n] = step[g[n - 1]][n] /\ \A i \in 0 .. n - 1 : h[i] = g[i]
      BY <2>2, <2>3
    <3> HIDE DEF h
    <3>4. \A k \in 1 .. n : h[k] = step[h[k - 1]][k]
      <4> SUFFICES ASSUME NEW k \in 1 .. n PROVE h[k] = step[h[k - 1]][k]
        OBVIOUS
      <4>1. k - 1 \in 0 .. n - 1
        BY <2>2
      <4>2. CASE k = n
        BY <3>3, <4>1, <4>2
      <4>3. CASE k # n
        <5>1. k \in 1 .. n - 1 /\ k \in 0 .. n - 1
          BY <2>2, <4>3
        <5> QED BY <2>3, <3>3, <4>1, <5>1
      <4> QED BY <4>2, <4>3
    <3> QED BY <3>2, <3>3, <3>4
  <2>4. ~Upto(n - 1)
    BY <2>3
  <2> HIDE DEF Upto
  <2>5. n - 1 \in T /\ n - 1 < n
    BY <2>2, <2>4
  <2> HIDE DEF T
  <2> QED BY <2>5
<1>2. T \in SUBSET Nat /\ N \in 0 .. N
  OBVIOUS
<1> HIDE DEF T, Upto
<1>3. T = {}
  BY <1>1, <1>2, NoDescent
<1>4. Upto(N)
  BY <1>2, <1>3 DEF T
<1> QED BY <1>4 DEF Upto

-------------------------------------------------------------------------------
(***************************************************************************)
(* otp.  While prng fills what it is asked for, and until a writer has     *)
(* taken less than it was given, as many bytes are drawn as taken.         *)
(***************************************************************************)
Aligned(n) == [i \in 1 .. n |-> <<i, i>>]

CipherIInv ==
  /\ taken \in 0 .. StreamLength /\ drawn \in Nat /\ ended \in BOOLEAN /\ starved \in BOOLEAN
  /\ ~starved /\ ~ended => drawn = taken
  /\ ~starved => came = Aligned(taken)

LEMMA AlignedLonger ==
  ASSUME NEW a \in Nat, NEW n \in Nat
  PROVE  Aligned(a) \o [i \in 1 .. n |-> <<a + i, a + i>>] = Aligned(a + n)
<1> DEFINE S == (1 .. a + n) \X (1 .. a + n)
           s == Aligned(a)
           t == [i \in 1 .. n |-> <<a + i, a + i>>]
           r == s \o t
<1>1. s \in Seq(S) /\ Len(s) = a /\ \A i \in 1 .. a : s[i] = <<i, i>>
  BY DEF Aligned
<1>2. t \in Seq(S) /\ Len(t) = n /\ \A i \in 1 .. n : t[i] = <<a + i, a + i>>
  OBVIOUS
<1> HIDE DEF s, t
<1>3. r \in Seq(S) /\ Len(r) = a + n
  BY <1>1, <1>2
<1>4. \A i \in 1 .. a + n : r[i] = <<i, i>>
  <2> TAKE i \in 1 .. a + n
  <2>1. r[i] = IF i <= a THEN s[i] ELSE t[i - a]
    BY <1>1, <1>2, ConcatProperties, SMTT(60)
  <2>2. CASE i <= a
    BY <2>1, <2>2, <1>1
  <2>3. CASE ~(i <= a)
    <3>1. i - a \in 1 .. n /\ a + (i - a) = i
      BY <2>3
    <3>2. t[i - a] = <<a + (i - a), a + (i - a)>>
      BY <3>1, <1>2
    <3>3. r[i] = t[i - a]
      BY <2>1, <2>3
    <3> QED BY <3>1, <3>2, <3>3
  <2> QED BY <2>2, <2>3
<1> HIDE DEF r, S
<1>5. r = [i \in 1 .. a + n |-> r[i]]
  BY <1>3
<1> QED BY <1>4, <1>5 DEF Aligned, r, s, t

LEMMA CipherInit == Otp!CipherInit => CipherIInv
<1> DEFINE s == Aligned(0)
<1>1. s \in Seq(Nat) /\ Len(s) = 0
  BY DEF Aligned
<1> HIDE DEF s
<1>2. s = <<>>
  BY <1>1
<1>3. Aligned(0) = <<>>
  BY <1>2 DEF s
<1>4. 0 \in 0 .. StreamLength /\ 0 \in Nat
  BY StreamBounds
<1> QED BY <1>3, <1>4 DEF Otp!CipherInit, CipherIInv

(* The most a call of Read can get.                                          *)
LEMMA NoMoreThanRest ==
  ASSUME CipherIInv, NEW p \in Nat, NEW n \in 0 .. Otp!Min({p, StreamLength - taken})
  PROVE  n \in Nat /\ taken + n \in 0 .. StreamLength
<1>1. taken \in Nat /\ StreamLength - taken \in Nat /\ StreamLength \in Nat
  BY StreamBounds DEF CipherIInv
<1>2. \E m \in {p, StreamLength - taken} : \A k \in {p, StreamLength - taken} : m <= k
  BY <1>1
<1>3. Otp!Min({p, StreamLength - taken}) \in {p, StreamLength - taken} /\ Otp!Min({p, StreamLength - taken}) <= StreamLength - taken
  BY <1>2 DEF Otp!Min
<1> QED BY <1>1, <1>3

LEMMA CipherRead ==
  ASSUME CipherIInv, ~ended, NEW p \in 1 .. Buffer, Otp!Read(p)
  PROVE  CipherIInv'
<1>0. p \in Nat
  BY StreamBounds
<1>1. PICK n \in 0 .. Otp!Min({p, StreamLength - taken}), fails \in BOOLEAN :
        IF fails /\ n = 0 THEN ended' = TRUE /\ UNCHANGED <<taken, drawn, came, starved>>
        ELSE \E m \in 0 .. n, prngFails \in BOOLEAN :
               /\ taken' = taken + n /\ drawn' = drawn + m
               /\ came' = came \o Otp!Hidden(m, IF prngFails THEN 0 ELSE m)
               /\ ended' = prngFails
               /\ starved' = (starved \/ m < n \/ prngFails)
  BY DEF Otp!Read
<1>2. CASE fails /\ n = 0
  BY <1>1, <1>2 DEF CipherIInv
<1>3. CASE ~(fails /\ n = 0)
  <2>1. PICK m \in 0 .. n, prngFails \in BOOLEAN :
          /\ taken' = taken + n /\ drawn' = drawn + m
          /\ came' = came \o Otp!Hidden(m, IF prngFails THEN 0 ELSE m)
          /\ ended' = prngFails
          /\ starved' = (starved \/ m < n \/ prngFails)
    BY <1>1, <1>3
  <2>2. n \in Nat /\ taken + n \in 0 .. StreamLength /\ m \in Nat /\ taken \in Nat /\ drawn \in Nat
    BY <1>0, NoMoreThanRest DEF CipherIInv
  <2>3. ASSUME ~starved' PROVE drawn' = taken' /\ came' = Aligned(taken')
    <3>0. ~starved /\ ~(m < n) /\ ~prngFails
      BY <2>1, <2>3
    <3>1. ~starved /\ m = n /\ ~prngFails /\ drawn = taken
      <4>1. m = n
        BY <3>0, <2>2
      <4>2. drawn = taken
        BY <3>0 DEF CipherIInv
      <4> QED BY <3>0, <4>1, <4>2
    <3>2. Otp!Hidden(n, n) = [i \in 1 .. n |-> <<taken + i, taken + i>>]
      BY <2>2, <3>1 DEF Otp!Hidden
    <3>3. came' = Aligned(taken) \o [i \in 1 .. n |-> <<taken + i, taken + i>>]
      BY <2>1, <3>1, <3>2 DEF CipherIInv
    <3>4. came' = Aligned(taken + n)
      BY <3>3, <2>2, AlignedLonger
    <3> QED BY <2>1, <3>1, <3>4
  <2> QED BY <2>1, <2>2, <2>3 DEF CipherIInv
<1> QED BY <1>2, <1>3

LEMMA CipherWrite ==
  ASSUME CipherIInv, ~ended, NEW p \in 1 .. Buffer, Otp!Write(p)
  PROVE  CipherIInv'
<1>1. PICK m \in 0 .. p, k \in 0 .. p :
        /\ taken' = taken + k /\ drawn' = drawn + m
        /\ came' = came \o SubSeq(Otp!Hidden(p, m), 1, k)
        /\ ended' = (k < p)
        /\ starved' = (starved \/ m < p)
  BY DEF Otp!Write
<1>2. p \in Nat /\ p <= StreamLength - taken /\ taken \in Nat /\ drawn \in Nat /\ m \in Nat /\ k \in Nat /\ k <= p /\ m <= p
  BY StreamBounds DEF Otp!Write, CipherIInv
<1>3. taken' \in 0 .. StreamLength
  BY <1>1, <1>2, StreamBounds
<1>4. ASSUME ~starved' PROVE (~ended' => drawn' = taken') /\ came' = Aligned(taken')
  <2>0. ~starved /\ ~(m < p)
    BY <1>1, <1>4
  <2>1. ~starved /\ m = p /\ drawn = taken
    <3>1. m = p
      BY <2>0, <1>2
    <3>2. drawn = taken
      BY <2>0 DEF CipherIInv
    <3> QED BY <2>0, <3>1, <3>2
  <2>2. SubSeq(Otp!Hidden(p, p), 1, k) = [i \in 1 .. k |-> <<taken + i, taken + i>>]
    BY <1>2, <2>1 DEF Otp!Hidden
  <2>3. came' = Aligned(taken) \o [i \in 1 .. k |-> <<taken + i, taken + i>>]
    BY <1>1, <2>1, <2>2 DEF CipherIInv
  <2>4. came' = Aligned(taken + k)
    <3>1. k \in Nat /\ taken \in Nat
      BY <1>2
    <3>2. Aligned(taken) \o [i \in 1 .. k |-> <<taken + i, taken + i>>] = Aligned(taken + k)
      BY <3>1, AlignedLonger
    <3> QED BY <2>3, <3>2
  <2>5. ~ended' => k = p
    <3>1. ~ended' => ~(k < p)
      BY <1>1
    <3> QED BY <3>1, <1>2
  <2>6. ~ended' => drawn' = taken'
    BY <1>1, <2>1, <2>5
  <2> QED BY <1>1, <2>4, <2>6
<1> QED BY <1>1, <1>2, <1>3, <1>4 DEF CipherIInv

LEMMA CipherNextIInv == CipherIInv /\ [Otp!CipherNext]_ciphervars => CipherIInv'
<1>1. CipherIInv /\ UNCHANGED ciphervars => CipherIInv'
  BY DEF CipherIInv, ciphervars
<1> QED BY <1>1, CipherRead, CipherWrite DEF Otp!CipherNext

LEMMA CipherRight == CipherIInv => Otp!CipherAligned
BY DEF CipherIInv, Otp!CipherAligned, Aligned

-------------------------------------------------------------------------------
(***************************************************************************)
(* lrucache.  What its list, map and pool have to do with each other, as a *)
(* predicate on the list li, the pairs ho of the elements, the contents he *)
(* of the pairs, the map pa and the pool po.                               *)
(***************************************************************************)
Entries == [key : CacheKeys, value : CacheValues]

KeptTypes(li, ho, he, po) ==
  he \in Seq(Entries) /\ ho \in Seq(1 .. Len(he)) /\ li \in Seq(1 .. Len(ho)) /\ po \subseteq 1 .. Len(he)
KeptApart(li, ho, po) ==
  /\ \A i, j \in 1 .. Len(li) : ho[li[i]] = ho[li[j]] => i = j
  /\ \A i \in 1 .. Len(li) : ho[li[i]] \notin po
KeptMap(li, ho, he, pa) ==
  /\ \A i \in 1 .. Len(li) : he[ho[li[i]]].key \in DOMAIN pa /\ pa[he[ho[li[i]]].key] = li[i]
  /\ \A k \in DOMAIN pa : \E i \in 1 .. Len(li) : he[ho[li[i]]].key = k
Kept(li, ho, he, pa, po) == KeptTypes(li, ho, he, po) /\ KeptApart(li, ho, po) /\ KeptMap(li, ho, he, pa)

OrderOf(li, ho, he) == [i \in 1 .. Len(li) |-> he[ho[li[i]]]]

LEMMA KeptElements ==
  ASSUME NEW li, NEW ho, NEW he, NEW pa, NEW po, Kept(li, ho, he, pa, po)
  PROVE  /\ Len(li) \in Nat /\ Len(ho) \in Nat /\ Len(he) \in Nat
         /\ \A i \in 1 .. Len(li) : li[i] \in 1 .. Len(ho) /\ ho[li[i]] \in 1 .. Len(he) /\ he[ho[li[i]]] \in Entries
         /\ \A e \in 1 .. Len(ho) : ho[e] \in 1 .. Len(he)
         /\ \A q \in 1 .. Len(he) : he[q] \in Entries
         /\ OrderOf(li, ho, he) \in Seq(Entries) /\ Len(OrderOf(li, ho, he)) = Len(li)
<1>1. Len(li) \in Nat /\ Len(ho) \in Nat /\ Len(he) \in Nat
  BY DEF Kept, KeptTypes
<1>2. \A e \in 1 .. Len(ho) : ho[e] \in 1 .. Len(he)
  BY DEF Kept, KeptTypes
<1>3. \A q \in 1 .. Len(he) : he[q] \in Entries
  BY DEF Kept, KeptTypes
<1>4. \A i \in 1 .. Len(li) : li[i] \in 1 .. Len(ho)
  BY SMTT(60) DEF Kept, KeptTypes
<1>5. OrderOf(li, ho, he) \in [1 .. Len(li) -> Entries]
  BY <1>2, <1>3, <1>4 DEF OrderOf
<1>6. OrderOf(li, ho, he) \in Seq(Entries) /\ Len(OrderOf(li, ho, he)) = Len(li)
  BY <1>1, <1>5
<1> QED BY <1>1, <1>2, <1>3, <1>4, <1>6

(* A key and an element have one place in the list.                          *)
LEMMA KeptOnce ==
  ASSUME NEW li, NEW ho, NEW he, NEW pa, NEW po, Kept(li, ho, he, pa, po),
         NEW i \in 1 .. Len(li), NEW j \in 1 .. Len(li),
         he[ho[li[i]]].key = he[ho[li[j]]].key \/ li[i] = li[j]
  PROVE  i = j
<1>1. li[i] = li[j]
  BY DEF Kept, KeptMap
<1> QED BY <1>1 DEF Kept, KeptApart

(* The list in another order.                                                *)
LEMMA KeptPermuted ==
  ASSUME NEW li, NEW ho, NEW he, NEW pa, NEW po, Kept(li, ho, he, pa, po),
         NEW m \in Seq(1 .. Len(ho)), Len(m) = Len(li),
         NEW q \in [1 .. Len(li) -> 1 .. Len(li)],
         \A a, b \in 1 .. Len(li) : q[a] = q[b] => a = b,
         \A b \in 1 .. Len(li) : \E a \in 1 .. Len(li) : q[a] = b,
         \A a \in 1 .. Len(li) : m[a] = li[q[a]]
  PROVE  Kept(m, ho, he, pa, po)
<1>1. KeptTypes(m, ho, he, po)
  BY DEF Kept, KeptTypes
<1>q. \A a \in 1 .. Len(li) : q[a] \in 1 .. Len(li)
  OBVIOUS
<1>2. KeptApart(m, ho, po)
  <2>1. /\ \A i, j \in 1 .. Len(li) : ho[li[i]] = ho[li[j]] => i = j
        /\ \A i \in 1 .. Len(li) : ho[li[i]] \notin po
    BY DEF Kept, KeptApart
  <2>2. ASSUME NEW a \in 1 .. Len(li) PROVE ho[m[a]] \notin po
    BY <1>q, <2>1
  <2>3. ASSUME NEW a \in 1 .. Len(li), NEW b \in 1 .. Len(li), ho[m[a]] = ho[m[b]] PROVE a = b
    <3> DEFINE x == q[a]
               y == q[b]
    <3>1. x \in 1 .. Len(li) /\ y \in 1 .. Len(li)
      BY <1>q
    <3>2. ho[li[x]] = ho[li[y]]
      BY <2>3
    <3> HIDE DEF x, y
    <3>3. x = y
      BY <3>1, <3>2, <2>1
    <3> USE DEF x, y
    <3> QED BY <3>3
  <2> QED BY <2>2, <2>3 DEF KeptApart
<1>3. KeptMap(m, ho, he, pa)
  <2>1. /\ \A i \in 1 .. Len(li) : he[ho[li[i]]].key \in DOMAIN pa /\ pa[he[ho[li[i]]].key] = li[i]
        /\ \A k \in DOMAIN pa : \E i \in 1 .. Len(li) : he[ho[li[i]]].key = k
    BY DEF Kept, KeptMap
  <2>2. ASSUME NEW a \in 1 .. Len(li) PROVE he[ho[m[a]]].key \in DOMAIN pa /\ pa[he[ho[m[a]]].key] = m[a]
    <3>1. q[a] \in 1 .. Len(li) /\ m[a] = li[q[a]]
      BY <1>q
    <3>2. he[ho[li[q[a]]]].key \in DOMAIN pa /\ pa[he[ho[li[q[a]]]].key] = li[q[a]]
      BY <3>1, <2>1, Zenon
    <3> QED BY <3>1, <3>2, Zenon
  <2>3. ASSUME NEW k \in DOMAIN pa PROVE \E a \in 1 .. Len(li) : he[ho[m[a]]].key = k
    <3>1. PICK i \in 1 .. Len(li) : he[ho[li[i]]].key = k
      BY <2>1
    <3>2. PICK a \in 1 .. Len(li) : q[a] = i
      OBVIOUS
    <3> QED BY <3>1, <3>2
  <2> QED BY <2>2, <2>3 DEF KeptMap
<1> QED BY <1>1, <1>2, <1>3 DEF Kept

(* MoveToBack of the element at place i.                                     *)
Moved(s, i) == Append(Shortened(s, i), s[i])
WasAt(n, i) == [a \in 1 .. n |-> IF a < i THEN a ELSE IF a < n THEN a + 1 ELSE i]

LEMMA MovedAt ==
  ASSUME NEW S, NEW s \in Seq(S), NEW i \in 1 .. Len(s)
  PROVE  /\ Moved(s, i) \in Seq(S) /\ Len(Moved(s, i)) = Len(s)
         /\ WasAt(Len(s), i) \in [1 .. Len(s) -> 1 .. Len(s)]
         /\ \A a \in 1 .. Len(s) : Moved(s, i)[a] = s[WasAt(Len(s), i)[a]]
<1> DEFINE t == Shortened(s, i)
<1>1. Len(s) \in Nat /\ s[i] \in S /\ i \in DOMAIN s
  OBVIOUS
<1>2. t \in Seq(S) /\ Len(t) = Len(s) - 1 /\ \A a \in 1 .. Len(s) - 1 : t[a] = IF a < i THEN s[a] ELSE s[a + 1]
  BY <1>1, ShortenedSeq
<1> HIDE DEF t
<1>3. Append(t, s[i]) \in Seq(S) /\ Len(Append(t, s[i])) = Len(s)
  BY <1>1, <1>2
<1>4. WasAt(Len(s), i) \in [1 .. Len(s) -> 1 .. Len(s)]
  BY <1>1 DEF WasAt
<1>5. \A a \in 1 .. Len(s) : Append(t, s[i])[a] = s[WasAt(Len(s), i)[a]]
  BY <1>1, <1>2 DEF WasAt
<1> QED BY <1>3, <1>4, <1>5 DEF Moved, t

LEMMA WasAtPermutes ==
  ASSUME NEW n \in Nat, NEW i \in 1 .. n
  PROVE  /\ \A a, b \in 1 .. n : WasAt(n, i)[a] = WasAt(n, i)[b] => a = b
         /\ \A b \in 1 .. n : \E a \in 1 .. n : WasAt(n, i)[a] = b
<1>1. \A a, b \in 1 .. n : WasAt(n, i)[a] = WasAt(n, i)[b] => a = b
  BY DEF WasAt
<1>2. ASSUME NEW b \in 1 .. n PROVE \E a \in 1 .. n : WasAt(n, i)[a] = b
  <2>1. CASE b < i
    BY <2>1 DEF WasAt
  <2>2. CASE b = i
    <3>1. n \in 1 .. n /\ WasAt(n, i)[n] = i
      BY DEF WasAt
    <3> QED BY <2>2, <3>1
  <2>3. CASE b > i
    <3>1. b - 1 \in 1 .. n /\ WasAt(n, i)[b - 1] = b
      BY <2>3 DEF WasAt
    <3> QED BY <3>1
  <2> QED BY <2>1, <2>2, <2>3
<1> QED BY <1>1, <1>2

LEMMA KeptMoved ==
  ASSUME NEW li, NEW ho, NEW he, NEW pa, NEW po, Kept(li, ho, he, pa, po), NEW i \in 1 .. Len(li)
  PROVE  Kept(Moved(li, i), ho, he, pa, po) /\ OrderOf(Moved(li, i), ho, he) = Moved(OrderOf(li, ho, he), i)
<1> DEFINE n == Len(li)
           m == Moved(li, i)
           o == OrderOf(li, ho, he)
<1>1. n \in Nat /\ li \in Seq(1 .. Len(ho)) /\ o \in Seq(Entries) /\ Len(o) = n
  BY KeptElements DEF Kept, KeptTypes
<1>2. /\ m \in Seq(1 .. Len(ho)) /\ Len(m) = n /\ WasAt(n, i) \in [1 .. n -> 1 .. n]
      /\ \A a \in 1 .. n : m[a] = li[WasAt(n, i)[a]]
  BY <1>1, MovedAt
<1>3. Kept(m, ho, he, pa, po)
  <2>1. /\ \A a, b \in 1 .. n : WasAt(n, i)[a] = WasAt(n, i)[b] => a = b
        /\ \A b \in 1 .. n : \E a \in 1 .. n : WasAt(n, i)[a] = b
    BY <1>1, WasAtPermutes
  <2> HIDE DEF m
  <2> QED BY <1>2, <2>1, KeptPermuted, ZenonT(60)
<1>4. /\ Moved(o, i) \in Seq(Entries) /\ Len(Moved(o, i)) = n
      /\ \A a \in 1 .. n : Moved(o, i)[a] = o[WasAt(n, i)[a]]
  <2> HIDE DEF o
  <2>1. i \in 1 .. Len(o)
    BY <1>1
  <2> QED BY <1>1, <2>1, MovedAt
<1>5. \A a \in 1 .. n : Moved(o, i)[a] = he[ho[m[a]]]
  BY <1>2, <1>4 DEF OrderOf
<1>6. Moved(o, i) = [a \in 1 .. n |-> Moved(o, i)[a]]
  <2> DEFINE c == Moved(o, i)
  <2>1. c \in Seq(Entries) /\ Len(c) = n
    BY <1>4
  <2> HIDE DEF c
  <2>2. c = [a \in 1 .. n |-> c[a]]
    BY <2>1
  <2> QED BY <2>2 DEF c
<1>7. OrderOf(m, ho, he) = Moved(o, i)
  <2> HIDE DEF m, o
  <2>1. OrderOf(m, ho, he) = [a \in 1 .. n |-> he[ho[m[a]]]]
    BY <1>2 DEF OrderOf
  <2> QED BY <1>5, <1>6, <2>1
<1> QED BY <1>3, <1>7

(* A Set of a key that is there.                                             *)
LEMMA KeptRenewed ==
  ASSUME NEW li, NEW ho, NEW he, NEW pa, NEW po, Kept(li, ho, he, pa, po),
         NEW i \in 1 .. Len(li), NEW v \in CacheValues
  PROVE  LET new == [he EXCEPT ![ho[li[i]]].value = v]
         IN  /\ Kept(li, ho, new, pa, po)
             /\ \A a \in 1 .. Len(li) : new[ho[li[a]]] = IF a = i THEN [key |-> he[ho[li[i]]].key, value |-> v] ELSE he[ho[li[a]]]
<1> DEFINE p == ho[li[i]]
           cell == [key |-> he[p].key, value |-> v]
           new == [he EXCEPT ![p].value = v]
<1>1. p \in 1 .. Len(he) /\ he[p] \in Entries /\ Len(he) \in Nat /\ he \in Seq(Entries) /\ \A a \in 1 .. Len(li) : ho[li[a]] \in 1 .. Len(he)
  BY KeptElements DEF Kept, KeptTypes
<1>2. cell \in Entries /\ [he[p] EXCEPT !.value = v] = cell
  BY <1>1 DEF Entries
<1>3. new = [he EXCEPT ![p] = cell]
  BY <1>2
<1>4. new \in Seq(Entries) /\ Len(new) = Len(he) /\ \A q \in 1 .. Len(he) : new[q] = IF q = p THEN cell ELSE he[q]
  <2> HIDE DEF cell, p, new
  <2> QED BY <1>1, <1>2, <1>3
<1>5. \A a \in 1 .. Len(li) : new[ho[li[a]]] = IF a = i THEN cell ELSE he[ho[li[a]]]
  <2>1. \A a \in 1 .. Len(li) : ho[li[a]] = p <=> a = i
    BY DEF Kept, KeptApart
  <2> HIDE DEF cell, p, new
  <2> QED BY <1>1, <1>4, <2>1
<1>6. \A a \in 1 .. Len(li) : new[ho[li[a]]].key = he[ho[li[a]]].key
  <2>1. cell.key = he[ho[li[i]]].key
    OBVIOUS
  <2> HIDE DEF new, cell
  <2> QED BY <1>5, <2>1
<1>7. KeptTypes(li, ho, new, po)
  <2> HIDE DEF new
  <2> QED BY <1>4 DEF Kept, KeptTypes
<1>8. KeptMap(li, ho, new, pa)
  <2> HIDE DEF new
  <2> QED BY <1>6 DEF Kept, KeptMap
<1>9. Kept(li, ho, new, pa, po)
  BY <1>7, <1>8 DEF Kept
<1> QED BY <1>5, <1>9

(* PushBack of a new element with the pair p, from the pool or new.          *)
Filled(he, p, cell, cells) ==
  /\ cells \in Seq(Entries) /\ p \in 1 .. Len(cells) /\ Len(he) <= Len(cells)
  /\ \A q \in 1 .. Len(cells) : IF q = p THEN cells[q] = cell ELSE q \in 1 .. Len(he) /\ cells[q] = he[q]
Added(pa, k, e, all) == DOMAIN all = DOMAIN pa \union {k} /\ all[k] = e /\ \A j \in DOMAIN pa : all[j] = pa[j]

LEMMA KeptPushed ==
  ASSUME Kept(list, holds, heap, pairs, pool),
         NEW k \in CacheKeys \ DOMAIN pairs, NEW v \in CacheValues, NEW p \in pool \union {Len(heap) + 1},
         NEW cells, Filled(heap, p, [key |-> k, value |-> v], cells), NEW all, Added(pairs, k, Len(holds) + 1, all)
  PROVE  LET e == Len(holds) + 1
         IN  /\ Kept(Append(list, e), Append(holds, p), cells, all, pool \ {p})
             /\ OrderOf(Append(list, e), Append(holds, p), cells) = Append(OrderOf(list, holds, heap), [key |-> k, value |-> v])
<1> DEFINE n == Len(list)
           e == Len(holds) + 1
           cell == [key |-> k, value |-> v]
           N == Len(cells)
           longer == Append(list, e)
           given == Append(holds, p)
<1>1. /\ n \in Nat /\ Len(holds) \in Nat /\ Len(heap) \in Nat
      /\ \A i \in 1 .. n : list[i] \in 1 .. Len(holds) /\ holds[list[i]] \in 1 .. Len(heap)
      /\ \A q \in 1 .. Len(heap) : heap[q] \in Entries
      /\ \A x \in 1 .. Len(holds) : holds[x] \in 1 .. Len(heap)
  BY KeptElements
<1>2. cells \in Seq(Entries) /\ N \in Nat /\ p \in 1 .. N /\ Len(heap) <= N
  BY DEF Filled
<1>3. cell \in Entries
  BY DEF Entries
<1>4. \A q \in 1 .. N : cells[q] = IF q = p THEN cell ELSE heap[q]
  BY DEF Filled
<1>5. given \in Seq(1 .. N) /\ Len(given) = e /\ given[e] = p /\ \A x \in 1 .. Len(holds) : given[x] = holds[x]
  <2>1. holds \in Seq(1 .. N)
    BY <1>1, <1>2 DEF Kept, KeptTypes
  <2> HIDE DEF N
  <2> QED BY <1>1, <1>2, <2>1
<1>6. longer \in Seq(1 .. e) /\ Len(longer) = n + 1 /\ longer[n + 1] = e /\ \A i \in 1 .. n : longer[i] = list[i]
  BY <1>1 DEF Kept, KeptTypes
<1>7. \A i \in 1 .. n : holds[list[i]] # p
  BY <1>1 DEF Kept, KeptApart
<1> HIDE DEF given, longer
<1>8. given[longer[n + 1]] = p /\ cells[given[longer[n + 1]]] = cell
  BY <1>2, <1>4, <1>5, <1>6
<1>9. \A i \in 1 .. n : given[longer[i]] = holds[list[i]] /\ cells[given[longer[i]]] = heap[holds[list[i]]]
  <2> TAKE i \in 1 .. n
  <2>1. given[longer[i]] = holds[list[i]]
    BY <1>1, <1>5, <1>6
  <2>2. holds[list[i]] \in 1 .. N /\ holds[list[i]] # p
    BY <1>1, <1>2, <1>7
  <2> QED BY <1>4, <2>1, <2>2
<1>10. n + 1 \in Nat /\ \A i \in 1 .. n + 1 : i \in 1 .. n \/ i = n + 1
  BY <1>1
<1>11. KeptTypes(longer, given, cells, pool \ {p})
  <2>1. pool \ {p} \subseteq 1 .. N
    BY <1>1, <1>2 DEF Kept, KeptTypes
  <2> HIDE DEF e
  <2> QED BY <1>2, <1>5, <1>6, <2>1 DEF KeptTypes
<1>12. KeptApart(longer, given, pool \ {p})
  <2>1. \A i, j \in 1 .. n : holds[list[i]] = holds[list[j]] => i = j
    BY DEF Kept, KeptApart
  <2>2. \A i \in 1 .. n : holds[list[i]] \notin pool
    BY DEF Kept, KeptApart
  <2>3. ASSUME NEW i \in 1 .. n + 1, NEW j \in 1 .. n + 1, given[longer[i]] = given[longer[j]] PROVE i = j
    BY <1>10, <1>8, <1>9, <1>7, <2>1, <2>3
  <2>4. ASSUME NEW i \in 1 .. n + 1 PROVE given[longer[i]] \notin pool \ {p}
    BY <1>10, <1>8, <1>9, <2>2
  <2> QED BY <1>6, <2>3, <2>4 DEF KeptApart
<1>13. KeptMap(longer, given, cells, all)
  <2>1. \A i \in 1 .. n : heap[holds[list[i]]].key \in DOMAIN pairs /\ pairs[heap[holds[list[i]]].key] = list[i]
    BY DEF Kept, KeptMap
  <2>2. \A j \in DOMAIN pairs : \E i \in 1 .. n : heap[holds[list[i]]].key = j
    BY DEF Kept, KeptMap
  <2>3. DOMAIN all = DOMAIN pairs \union {k} /\ all[k] = Len(holds) + 1 /\ all[k] = e /\ \A j \in DOMAIN pairs : all[j] = pairs[j]
    BY DEF Added
  <2>c. cell.key = k
    OBVIOUS
  <2> HIDE DEF cell
  <2>4. ASSUME NEW i \in 1 .. n + 1 PROVE cells[given[longer[i]]].key \in DOMAIN all /\ all[cells[given[longer[i]]].key] = longer[i]
    <3>1. CASE i \in 1 .. n
      <4> DEFINE x == heap[holds[list[i]]].key
      <4>1. x \in DOMAIN pairs /\ pairs[x] = list[i]
        BY <3>1, <2>1
      <4>2. cells[given[longer[i]]].key = x /\ longer[i] = list[i]
        BY <3>1, <1>6, <1>9
      <4> HIDE DEF x
      <4> QED BY <4>1, <4>2, <2>3
    <3>2. CASE i = n + 1
      BY <3>2, <1>6, <1>8, <2>3, <2>c
    <3> QED BY <1>10, <3>1, <3>2
  <2>5. ASSUME NEW j \in DOMAIN all PROVE \E i \in 1 .. n + 1 : cells[given[longer[i]]].key = j
    <3>1. CASE j = k
      <4>1. n + 1 \in 1 .. n + 1
        BY <1>1
      <4> QED BY <3>1, <4>1, <1>8, <2>c
    <3>2. CASE j \in DOMAIN pairs
      <4>1. PICK i \in 1 .. n : heap[holds[list[i]]].key = j
        BY <3>2, <2>2
      <4>2. i \in 1 .. n + 1
        BY <1>1
      <4> QED BY <4>1, <4>2, <1>9
    <3> QED BY <2>3, <3>1, <3>2
  <2> QED BY <1>6, <2>4, <2>5 DEF KeptMap
<1>14. OrderOf(longer, given, cells) = Append(OrderOf(list, holds, heap), cell)
  <2> DEFINE o == OrderOf(list, holds, heap)
             r == Append(o, cell)
  <2>1. o \in Seq(Entries) /\ Len(o) = n
    BY KeptElements
  <2>2. \A i \in 1 .. n : o[i] = heap[holds[list[i]]]
    BY DEF OrderOf
  <2> HIDE DEF o, cell
  <2>3. r \in Seq(Entries) /\ Len(r) = n + 1 /\ r[n + 1] = cell /\ \A i \in 1 .. n : r[i] = o[i]
    BY <2>1, <1>1, <1>3
  <2> HIDE DEF r
  <2>4. r = [i \in 1 .. n + 1 |-> r[i]]
    BY <2>3
  <2>5. \A i \in 1 .. n + 1 : r[i] = cells[given[longer[i]]]
    <3> TAKE i \in 1 .. n + 1
    <3>1. CASE i \in 1 .. n
      BY <3>1, <1>9, <2>2, <2>3
    <3>2. CASE i = n + 1
      BY <3>2, <1>8, <2>3
    <3> QED BY <1>10, <3>1, <3>2
  <2>6. OrderOf(longer, given, cells) = [i \in 1 .. n + 1 |-> cells[given[longer[i]]]]
    BY <1>6 DEF OrderOf
  <2> QED BY <2>4, <2>5, <2>6 DEF r, o
<1>15. Kept(longer, given, cells, all, pool \ {p})
  BY <1>11, <1>12, <1>13 DEF Kept
<1> QED BY <1>14, <1>15 DEF given, longer

(* The eviction of the element in front.                                     *)
LEMMA KeptEvicted ==
  ASSUME NEW li, NEW ho, NEW he, NEW pa, NEW po, Kept(li, ho, he, pa, po), li # <<>>
  PROVE  /\ Kept(Tail(li), ho, he, [j \in DOMAIN pa \ {he[ho[li[1]]].key} |-> pa[j]], po \union {ho[li[1]]})
         /\ OrderOf(Tail(li), ho, he) = Tail(OrderOf(li, ho, he)) /\ Len(Tail(li)) = Len(li) - 1
<1> DEFINE n == Len(li)
           t == Tail(li)
           key == he[ho[li[1]]].key
           fewer == [j \in DOMAIN pa \ {key} |-> pa[j]]
<1>1. n \in Nat /\ li \in Seq(1 .. Len(ho)) /\ 1 \in 1 .. n /\ n # 0
  BY KeptElements DEF Kept, KeptTypes
<1>2. t \in Seq(1 .. Len(ho)) /\ Len(t) = n - 1 /\ \A i \in 1 .. n - 1 : t[i] = li[i + 1] /\ i + 1 \in 1 .. n /\ i + 1 # 1
  BY <1>1
<1> HIDE DEF t
<1>3. \A i \in 2 .. n : i - 1 \in 1 .. n - 1 /\ t[i - 1] = li[i]
  <2> TAKE i \in 2 .. n
  <2>1. i - 1 \in 1 .. n - 1 /\ (i - 1) + 1 = i
    BY <1>1
  <2> QED BY <1>2, <2>1
<1>4. ho[li[1]] \in 1 .. Len(he)
  BY <1>1, KeptElements
<1>5. KeptTypes(t, ho, he, po \union {ho[li[1]]})
  BY <1>2, <1>4 DEF Kept, KeptTypes
<1>6. KeptApart(t, ho, po \union {ho[li[1]]})
  <2>1. \A i, j \in 1 .. n : ho[li[i]] = ho[li[j]] => i = j
    BY DEF Kept, KeptApart
  <2>2. \A i \in 1 .. n : ho[li[i]] \notin po
    BY DEF Kept, KeptApart
  <2>3. ASSUME NEW i \in 1 .. n - 1, NEW j \in 1 .. n - 1, ho[t[i]] = ho[t[j]] PROVE i = j
    <3>0. t[i] = li[i + 1] /\ t[j] = li[j + 1] /\ i + 1 \in 1 .. n /\ j + 1 \in 1 .. n
      BY <1>2
    <3>1. i + 1 = j + 1
      BY <3>0, <2>1, <2>3, Zenon
    <3> QED BY <3>1, <1>1
  <2>4. ASSUME NEW i \in 1 .. n - 1 PROVE ho[t[i]] \notin po \union {ho[li[1]]}
    <3>1. t[i] = li[i + 1] /\ i + 1 \in 1 .. n /\ i + 1 # 1 /\ 1 \in 1 .. n
      BY <1>1, <1>2
    <3>2. ho[li[i + 1]] \notin po
      BY <2>2, <3>1
    <3>3. ho[li[i + 1]] # ho[li[1]]
      BY <2>1, <3>1
    <3> QED BY <3>1, <3>2, <3>3
  <2> QED BY <1>2, <2>3, <2>4 DEF KeptApart
<1>7. KeptMap(t, ho, he, fewer)
  <2>1. \A i \in 1 .. n : he[ho[li[i]]].key \in DOMAIN pa /\ pa[he[ho[li[i]]].key] = li[i]
    BY DEF Kept, KeptMap
  <2>2. \A j \in DOMAIN pa : \E i \in 1 .. n : he[ho[li[i]]].key = j
    BY DEF Kept, KeptMap
  <2>3. \A i \in 1 .. n - 1 : he[ho[li[i + 1]]].key # key
    <3> TAKE i \in 1 .. n - 1
    <3>1. SUFFICES ASSUME he[ho[li[i + 1]]].key = key PROVE FALSE
      OBVIOUS
    <3>2. i + 1 \in 1 .. n /\ i + 1 # 1
      BY <1>2
    <3>3. i + 1 = 1
      BY <3>1, <3>2, <1>1, KeptOnce
    <3> QED BY <3>2, <3>3
  <2>4. ASSUME NEW i \in 1 .. n - 1 PROVE he[ho[t[i]]].key \in DOMAIN fewer /\ fewer[he[ho[t[i]]].key] = t[i]
    <3>1. t[i] = li[i + 1] /\ i + 1 \in 1 .. n
      BY <1>2
    <3>2. he[ho[t[i]]].key \in DOMAIN pa \ {key} /\ pa[he[ho[t[i]]].key] = t[i]
      <4> HIDE DEF key
      <4> QED BY <3>1, <2>1, <2>3
    <3> HIDE DEF key
    <3> QED BY <3>2
  <2>5. ASSUME NEW j \in DOMAIN fewer PROVE \E i \in 1 .. n - 1 : he[ho[t[i]]].key = j
    <3>1. j \in DOMAIN pa /\ j # key
      OBVIOUS
    <3>2. PICK i \in 1 .. n : he[ho[li[i]]].key = j
      BY <3>1, <2>2
    <3>3. i \in 2 .. n
      BY <3>1, <3>2, <1>1
    <3>4. i - 1 \in 1 .. n - 1 /\ he[ho[t[i - 1]]].key = j
      BY <3>3, <3>2, <1>3
    <3> QED BY <3>4
  <2> HIDE DEF fewer
  <2> QED BY <1>2, <2>4, <2>5 DEF KeptMap
<1>8. OrderOf(t, ho, he) = Tail(OrderOf(li, ho, he))
  <2> DEFINE o == OrderOf(li, ho, he)
             r == Tail(o)
  <2>1. o \in Seq(Entries) /\ Len(o) = n
    BY KeptElements
  <2>2. \A i \in 1 .. n : o[i] = he[ho[li[i]]]
    BY DEF OrderOf
  <2> HIDE DEF o
  <2>3. r \in Seq(Entries) /\ Len(r) = n - 1 /\ \A i \in 1 .. n - 1 : r[i] = o[i + 1]
    BY <2>1, <1>1
  <2> HIDE DEF r
  <2>4. r = [i \in 1 .. n - 1 |-> r[i]]
    BY <2>3
  <2>5. \A i \in 1 .. n - 1 : r[i] = he[ho[t[i]]]
    BY <2>2, <2>3, <1>2
  <2>6. OrderOf(t, ho, he) = [i \in 1 .. n - 1 |-> he[ho[t[i]]]]
    BY <1>2 DEF OrderOf
  <2> QED BY <2>4, <2>5, <2>6 DEF r, o
<1>9. Kept(t, ho, he, fewer, po \union {ho[li[1]]})
  <2> HIDE DEF fewer
  <2> QED BY <1>5, <1>6, <1>7 DEF Kept
<1> QED BY <1>2, <1>8, <1>9 DEF t

-------------------------------------------------------------------------------
(* While f leaves the cache alone, Range stands where it has shown all up to.*)
RangeQuiet ==
  /\ quiet \in BOOLEAN
  /\ cursor = 0 => quiet /\ shown = <<>> /\ stale = <<>>
  /\ quiet /\ cursor # 0 =>
       /\ stale = <<>> /\ shown \in Seq(Entries) /\ Len(shown) \in 1 .. Len(list) /\ cursor = list[Len(shown)]
       /\ \A i \in 1 .. Len(shown) : shown[i] = heap[holds[list[i]]]

LruKept == capacity \in Nat /\ Kept(list, holds, heap, pairs, pool) /\ Len(list) <= capacity
LruIInv == LruKept /\ RangeQuiet

LEMMA OrderIs ==
  /\ LruKept => Cache!Order = OrderOf(list, holds, heap)
  /\ LruKept' => Cache!Order' = OrderOf(list', holds', heap')
<1>1. LruKept => DOMAIN list = 1 .. Len(list)
  BY DEF LruKept, Kept, KeptTypes
<1>2. LruKept' => DOMAIN list' = 1 .. Len(list')
  BY DEF LruKept, Kept, KeptTypes
<1> QED BY <1>1, <1>2 DEF Cache!Order, Cache!Pair, OrderOf

LEMMA LruInit == Cache!CacheInit => LruIInv /\ LRU!Init
<1> SUFFICES ASSUME Cache!CacheInit PROVE LruIInv /\ LRU!Init
  OBVIOUS
<1>1. /\ capacity \in Nat /\ list = <<>> /\ holds = <<>> /\ heap = <<>> /\ DOMAIN pairs = {} /\ pool = {}
      /\ cursor = 0 /\ stale = <<>> /\ shown = <<>> /\ quiet = TRUE /\ reply = <<0, FALSE>>
  BY CacheCapacities DEF Cache!CacheInit
<1>2. Kept(list, holds, heap, pairs, pool) /\ Len(list) = 0
  BY <1>1 DEF Kept, KeptTypes, KeptApart, KeptMap
<1>3. Cache!Order = <<>>
  <2> DEFINE o == OrderOf(list, holds, heap)
  <2>1. o \in Seq(Entries) /\ Len(o) = 0
    BY <1>2, KeptElements
  <2> HIDE DEF o
  <2>2. o = <<>>
    BY <2>1
  <2> QED BY <1>1, <1>2, <2>2, OrderIs DEF LruKept, o
<1>4. LruIInv
  BY <1>1, <1>2 DEF LruIInv, LruKept, RangeQuiet
<1> QED BY <1>1, <1>3, <1>4 DEF LRU!Init

(* What the abstract map does to the order is seen at a key's place.         *)
LEMMA PlaceIs ==
  ASSUME LruKept, NEW i \in 1 .. Len(list)
  PROVE  LET k == heap[holds[list[i]]].key
         IN  /\ LRU!Has(k) /\ LRU!ValueOf(k) = heap[holds[list[i]]].value
             /\ LRU!Without(k) = Shortened(Cache!Order, i)
<1> DEFINE o == Cache!Order
           k == heap[holds[list[i]]].key
<1>1. /\ o \in Seq(Entries) /\ Len(o) = Len(list) /\ \A j \in 1 .. Len(list) : o[j] = heap[holds[list[j]]]
      /\ Len(list) \in Nat /\ DOMAIN o = 1 .. Len(list)
  BY OrderIs, KeptElements, SMTT(60) DEF LruKept, OrderOf
<1>2. \A j \in 1 .. Len(list) : heap[holds[list[j]]].key = k => j = i
  BY KeptOnce DEF LruKept
<1>3. LRU!Place(k) = CHOOSE j \in DOMAIN o : o[j].key = k
  BY DEF LRU!Place
<1>4. LRU!Without(k) = IF LRU!Has(k) THEN RemoveAt(o, LRU!Place(k)) ELSE o
  BY DEF LRU!Without, RemoveAt
<1>5. LRU!Has(k) <=> \E j \in DOMAIN o : o[j].key = k
  BY DEF LRU!Has
<1>6. o[i].key = k
  BY <1>1
<1> HIDE DEF o, k
<1>7. LRU!Place(k) = i /\ LRU!Has(k)
  BY <1>1, <1>2, <1>3, <1>5, <1>6
<1>8. RemoveAt(o, i) = Shortened(o, i)
  BY <1>1, RemovedAt
<1>9. LRU!ValueOf(k) = heap[holds[list[i]]].value
  BY <1>1, <1>7 DEF LRU!ValueOf, o
<1> QED BY <1>4, <1>7, <1>8, <1>9 DEF o, k

LEMMA NoPlace ==
  ASSUME LruKept, NEW k, k \notin DOMAIN pairs
  PROVE  ~LRU!Has(k) /\ LRU!Without(k) = Cache!Order
<1> DEFINE o == Cache!Order
<1>1. Len(o) = Len(list) /\ \A j \in 1 .. Len(list) : o[j] = heap[holds[list[j]]]
  BY OrderIs, KeptElements DEF LruKept, OrderOf
<1>2. \A j \in 1 .. Len(list) : heap[holds[list[j]]].key # k
  BY DEF LruKept, Kept, KeptMap
<1>3. DOMAIN o = 1 .. Len(list)
  BY OrderIs, KeptElements DEF LruKept, OrderOf
<1>4. (LRU!Has(k) <=> \E j \in DOMAIN o : o[j].key = k) /\ LRU!Without(k) = IF LRU!Has(k) THEN LRU!Without(k) ELSE o
  BY DEF LRU!Has, LRU!Without
<1> HIDE DEF o
<1> QED BY <1>1, <1>2, <1>3, <1>4 DEF o

LEMMA MoveToBackIs ==
  ASSUME LruKept, NEW i \in 1 .. Len(list)
  PROVE  Cache!MoveToBack(list[i]) = Moved(list, i)
<1>1. list \in Seq(1 .. Len(holds)) /\ i \in DOMAIN list
  BY DEF LruKept, Kept, KeptTypes
<1>2. \A j \in DOMAIN list : list[j] = list[i] => j = i
  BY <1>1, KeptOnce DEF LruKept
<1>3. RemoveFirst(list, list[i]) = Shortened(list, i)
  BY <1>1, <1>2, RemovedOnce
<1> QED BY <1>3, SameOperators DEF Cache!MoveToBack, Moved

(* The calls, each a step of the map that forgets.                           *)
Forgets == LRU!Next \/ UNCHANGED <<capacity, Cache!Order, reply>>

LEMMA LruGet ==
  ASSUME LruKept, NEW k \in CacheKeys, Cache!Get(k)
  PROVE  LruKept' /\ Forgets
<1>1. UNCHANGED <<capacity, holds, heap, pairs, pool>>
  BY DEF Cache!Get, Cache!Call
<1>2. CASE k \in DOMAIN pairs
  <2>1. PICK i \in 1 .. Len(list) : heap[holds[list[i]]].key = k
    BY <1>2 DEF LruKept, Kept, KeptMap
  <2>2. pairs[k] = list[i]
    BY <2>1 DEF LruKept, Kept, KeptMap
  <2>3. list' = Moved(list, i) /\ reply' = <<heap[holds[list[i]]].value, TRUE>>
    BY <1>2, <2>2, MoveToBackIs DEF Cache!Get, Cache!Pair
  <2>4. Kept(Moved(list, i), holds, heap, pairs, pool) /\ OrderOf(Moved(list, i), holds, heap) = Moved(OrderOf(list, holds, heap), i)
    BY KeptMoved DEF LruKept
  <2>5. Len(Moved(list, i)) = Len(list)
    BY MovedAt DEF LruKept, Kept, KeptTypes
  <2>6. LruKept'
    BY <1>1, <2>3, <2>4, <2>5 DEF LruKept
  <2>7. LRU!Has(k) /\ LRU!ValueOf(k) = heap[holds[list[i]]].value /\ LRU!Without(k) = Shortened(Cache!Order, i)
    BY <2>1, PlaceIs
  <2>8. Cache!Order[i] = [key |-> k, value |-> LRU!ValueOf(k)]
    <3>1. heap[holds[list[i]]] \in Entries
      BY KeptElements DEF LruKept
    <3>2. Cache!Order[i] = heap[holds[list[i]]]
      BY OrderIs DEF OrderOf
    <3> QED BY <2>1, <2>7, <3>1, <3>2 DEF Entries
  <2>9. Cache!Order' = Moved(Cache!Order, i)
    BY <1>1, <2>3, <2>4, <2>6, OrderIs
  <2>10. LRU!Get(k)
    BY <2>3, <2>7, <2>8, <2>9 DEF LRU!Get, Moved
  <2> QED BY <1>1, <2>6, <2>10 DEF Forgets, LRU!Next
<1>3. CASE k \notin DOMAIN pairs
  <2>1. list' = list /\ reply' = <<0, FALSE>>
    BY <1>3 DEF Cache!Get
  <2>2. LruKept'
    BY <1>1, <2>1 DEF LruKept
  <2>3. Cache!Order' = Cache!Order
    BY <1>1, <2>1, <2>2, OrderIs
  <2>4. LRU!Get(k)
    BY <1>3, <2>1, <2>3, NoPlace DEF LRU!Get
  <2> QED BY <1>1, <2>2, <2>4 DEF Forgets, LRU!Next
<1> QED BY <1>2, <1>3

LEMMA LruRenew ==
  ASSUME LruKept, NEW k \in CacheKeys, NEW v \in CacheValues, Cache!Renew(k, v), UNCHANGED <<capacity, reply>>
  PROVE  LruKept' /\ Forgets
<1>1. PICK i \in 1 .. Len(list) : heap[holds[list[i]]].key = k
  BY DEF Cache!Renew, LruKept, Kept, KeptMap
<1>2. pairs[k] = list[i]
  BY <1>1, SMTT(60) DEF LruKept, Kept, KeptMap
<1> DEFINE new == [heap EXCEPT ![holds[list[i]]].value = v]
           o == OrderOf(list, holds, heap)
           n == OrderOf(list, holds, new)
           cell == [key |-> k, value |-> v]
<1>3. heap' = new /\ list' = Moved(list, i) /\ UNCHANGED <<holds, pairs, pool>>
  BY <1>2, MoveToBackIs DEF Cache!Renew
<1>4. /\ Kept(list, holds, new, pairs, pool)
      /\ \A a \in 1 .. Len(list) : new[holds[list[a]]] = IF a = i THEN cell ELSE heap[holds[list[a]]]
  BY <1>1, KeptRenewed DEF LruKept
<1> HIDE DEF new
<1>5. Kept(Moved(list, i), holds, new, pairs, pool) /\ OrderOf(Moved(list, i), holds, new) = Moved(n, i)
  BY <1>4, KeptMoved
<1>6. Len(Moved(list, i)) = Len(list) /\ Len(list) \in Nat
  BY MovedAt DEF LruKept, Kept, KeptTypes
<1>7. LruKept'
  BY <1>3, <1>5, <1>6 DEF LruKept
<1>8. Len(n) = Len(list) /\ Len(o) = Len(list) /\ o \in Seq(Entries) /\ n \in Seq(Entries)
  BY <1>4, KeptElements DEF LruKept
<1>9. /\ n[i] = cell
      /\ \A a \in 1 .. Len(list) : a # i => n[a] = o[a]
  BY <1>4 DEF OrderOf
<1> HIDE DEF o, n
<1>10. Shortened(n, i) = Shortened(o, i)
  <2>1. \A a \in 1 .. Len(list) - 1 : (a < i => a \in 1 .. Len(list) /\ a # i) /\ (~(a < i) => a + 1 \in 1 .. Len(list) /\ a + 1 # i)
    BY <1>6
  <2>2. \A a \in 1 .. Len(list) - 1 : (IF a < i THEN n[a] ELSE n[a + 1]) = (IF a < i THEN o[a] ELSE o[a + 1])
    BY <1>9, <2>1
  <2> QED BY <1>8, <2>2 DEF Shortened
<1>11. Moved(n, i) = Append(Shortened(o, i), cell)
  BY <1>9, <1>10 DEF Moved
<1>12. Cache!Order = o
  BY OrderIs DEF o
<1>13. Cache!Order' = Append(Shortened(Cache!Order, i), cell)
  <2>1. Cache!Order' = OrderOf(Moved(list, i), holds, new)
    BY <1>7, <1>3, OrderIs
  <2> QED BY <2>1, <1>5, <1>11, <1>12
<1>14. LRU!Without(k) = Shortened(Cache!Order, i)
  BY <1>1, PlaceIs
<1>15. ~(Len(Append(Shortened(Cache!Order, i), cell)) > capacity)
  <2>1. i \in DOMAIN o
    BY <1>8
  <2>2. Shortened(o, i) \in Seq(Entries) /\ Len(Shortened(o, i)) = Len(list) - 1
    BY <1>8, <2>1, ShortenedSeq
  <2> HIDE DEF cell
  <2>3. Len(Append(Shortened(o, i), cell)) = Len(list)
    BY <1>6, <2>2
  <2> QED BY <2>3, <1>6, <1>12 DEF LruKept
<1>16. LRU!Set(k, v)
  BY <1>13, <1>14, <1>15 DEF LRU!Set
<1> QED BY <1>7, <1>16 DEF Forgets, LRU!Next

LEMMA LruInsert ==
  ASSUME LruKept, NEW k \in CacheKeys, NEW v \in CacheValues, Cache!Insert(k, v), UNCHANGED <<capacity, reply>>
  PROVE  LruKept' /\ Forgets
<1> DEFINE e == Len(holds) + 1
           longer == Append(list, e)
           cell == [key |-> k, value |-> v]
           all == [j \in DOMAIN pairs \union {k} |-> IF j = k THEN e ELSE pairs[j]]
           Cells(p) == [q \in 1 .. (IF p > Len(heap) THEN p ELSE Len(heap)) |-> IF q = p THEN cell ELSE heap[q]]
           after == Cache!Evict(longer)
<1>1. k \notin DOMAIN pairs
  BY DEF Cache!Insert
<1>2. PICK p \in pool \union {Len(heap) + 1} :
        /\ heap' = Cells(p) /\ holds' = Append(holds, p) /\ list' = after.list
        /\ pairs' = [j \in DOMAIN all \ {Cells(p)[Append(holds, p)[x]].key : x \in after.gone} |-> all[j]]
        /\ pool' = (pool \ {p}) \union {Append(holds, p)[x] : x \in after.gone}
  BY DEF Cache!Insert
<1> DEFINE cells == Cells(p)
           given == Append(holds, p)
<1>3. Kept(longer, given, cells, all, pool \ {p}) /\ OrderOf(longer, given, cells) = Append(OrderOf(list, holds, heap), cell)
  <2>1. Kept(list, holds, heap, pairs, pool) /\ k \in CacheKeys \ DOMAIN pairs
    BY <1>1 DEF LruKept
  <2>2. Len(heap) \in Nat /\ p \in 1 .. Len(heap) + 1 /\ \A q \in 1 .. Len(heap) : heap[q] \in Entries
    BY <2>1, KeptElements DEF Kept, KeptTypes
  <2>3. cell \in Entries
    BY DEF Entries
  <2> DEFINE N == IF p > Len(heap) THEN p ELSE Len(heap)
  <2>4. N \in Nat /\ p \in 1 .. N /\ Len(heap) <= N /\ \A q \in 1 .. N : q = p \/ q \in 1 .. Len(heap)
    BY <2>2
  <2>5. cells = [q \in 1 .. N |-> IF q = p THEN cell ELSE heap[q]]
    OBVIOUS
  <2> HIDE DEF N, cells, cell
  <2>6. cells \in [1 .. N -> Entries]
    BY <2>2, <2>3, <2>4, <2>5
  <2>7. cells \in Seq(Entries) /\ Len(cells) = N
    BY <2>4, <2>6
  <2>8. Filled(heap, p, cell, cells)
    BY <2>4, <2>5, <2>7 DEF Filled
  <2>9. Added(pairs, k, Len(holds) + 1, all)
    BY <1>1 DEF Added
  <2> HIDE DEF all
  <2>10. Filled(heap, p, [key |-> k, value |-> v], cells)
    BY <2>8 DEF cell
  <2>11. /\ Kept(Append(list, Len(holds) + 1), Append(holds, p), cells, all, pool \ {p})
         /\ OrderOf(Append(list, Len(holds) + 1), Append(holds, p), cells) = Append(OrderOf(list, holds, heap), [key |-> k, value |-> v])
    BY <2>1, <2>9, <2>10, KeptPushed
  <2> QED BY <2>11 DEF cell
<1>4. Cache!Order = OrderOf(list, holds, heap) /\ LRU!Without(k) = Cache!Order
  BY <1>1, OrderIs, NoPlace
<1>5. Len(longer) = Len(list) + 1 /\ Len(list) \in Nat /\ longer # <<>>
  <2>1. list \in Seq(1 .. Len(holds))
    BY DEF LruKept, Kept, KeptTypes
  <2>2. list \in Seq(Nat) /\ e \in Nat
    <3>1. Len(holds) \in Nat
      BY KeptElements DEF LruKept
    <3> QED BY <2>1, <3>1
  <2> HIDE DEF e
  <2> QED BY <2>2
<1>6. Len(OrderOf(longer, given, cells)) = Len(longer)
  BY <1>3, KeptElements
<1> HIDE DEF longer, cells, given, all, cell
<1>7. CASE Len(longer) > capacity
  <2>1. after = [list |-> Tail(longer), gone |-> {longer[1]}]
    BY <1>7 DEF Cache!Evict
  <2>2. after.list = Tail(longer) /\ after.gone = {longer[1]}
    BY <2>1, SMTT(60)
  <2> HIDE DEF after
  <2>3. /\ list' = Tail(longer) /\ holds' = given /\ heap' = cells
        /\ pairs' = [j \in DOMAIN all \ {cells[given[longer[1]]].key} |-> all[j]]
        /\ pool' = (pool \ {p}) \union {given[longer[1]]}
    BY <1>2, <2>2, ZenonT(60) DEF cells, given
  <2>4. /\ Kept(Tail(longer), given, cells, [j \in DOMAIN all \ {cells[given[longer[1]]].key} |-> all[j]], (pool \ {p}) \union {given[longer[1]]})
        /\ OrderOf(Tail(longer), given, cells) = Tail(OrderOf(longer, given, cells)) /\ Len(Tail(longer)) = Len(longer) - 1
    BY <1>3, <1>5, KeptEvicted
  <2>5. Kept(list', holds', heap', pairs', pool')
    BY <2>3, <2>4
  <2>6. Len(list') <= capacity
    BY <2>3, <2>4, <1>5 DEF LruKept
  <2>7. LruKept'
    BY <2>5, <2>6 DEF LruKept
  <2>8. Cache!Order' = Tail(Append(Cache!Order, cell))
    BY <2>3, <2>4, <2>7, <1>3, <1>4, OrderIs
  <2>9. LRU!Set(k, v)
    BY <1>3, <1>4, <1>6, <1>7, <2>8 DEF LRU!Set, cell
  <2> QED BY <2>7, <2>9 DEF Forgets, LRU!Next
<1>8. CASE ~(Len(longer) > capacity)
  <2>1. after = [list |-> longer, gone |-> {}]
    BY <1>8 DEF Cache!Evict
  <2>2. after.list = longer /\ after.gone = {}
    BY <2>1
  <2> HIDE DEF after
  <2>3. /\ list' = longer /\ holds' = given /\ heap' = cells /\ pool' = pool \ {p}
        /\ pairs' = [j \in DOMAIN all |-> all[j]]
    BY <1>2, <2>2 DEF cells, given
  <2>4. pairs' = all
    BY <2>3 DEF all
  <2>5. LruKept'
    <3>1. Kept(list', holds', heap', pairs', pool')
      BY <1>3, <2>3, <2>4
    <3>2. Len(list') <= capacity
      BY <1>5, <1>8, <2>3 DEF LruKept
    <3> QED BY <3>1, <3>2 DEF LruKept
  <2>6. Cache!Order' = Append(Cache!Order, cell)
    BY <2>3, <2>5, <1>3, <1>4, OrderIs
  <2>7. LRU!Set(k, v)
    BY <1>3, <1>4, <1>6, <1>8, <2>6 DEF LRU!Set, cell
  <2> QED BY <2>5, <2>7 DEF Forgets, LRU!Next
<1> QED BY <1>7, <1>8

LEMMA LruClear ==
  ASSUME LruKept, Cache!Clear
  PROVE  LruKept' /\ Forgets
<1>1. /\ list' = <<>> /\ pairs' = [k \in {} |-> 0] /\ UNCHANGED <<capacity, holds, heap, reply>>
      /\ pool' = pool \union {holds[e] : e \in ToSet(list)}
  BY SameOperators DEF Cache!Clear, Cache!Call
<1>2. pool' \subseteq 1 .. Len(heap)
  <2>1. \A e \in ToSet(list) : e \in 1 .. Len(holds)
    BY DEF ToSet, LruKept, Kept, KeptTypes
  <2>2. \A e \in ToSet(list) : holds[e] \in 1 .. Len(heap)
    BY <2>1, KeptElements DEF LruKept
  <2>3. pool \subseteq 1 .. Len(heap)
    BY DEF LruKept, Kept, KeptTypes
  <2> QED BY <1>1, <2>2, <2>3
<1>3. Len(list') = 0 /\ DOMAIN pairs' = {}
  BY <1>1
<1>4. Kept(list', holds', heap', pairs', pool')
  <2>1. KeptTypes(list', holds', heap', pool')
    BY <1>1, <1>2 DEF LruKept, Kept, KeptTypes
  <2>2. KeptApart(list', holds', pool') /\ KeptMap(list', holds', heap', pairs')
    BY <1>3 DEF KeptApart, KeptMap
  <2> QED BY <2>1, <2>2 DEF Kept
<1>5. LruKept'
  BY <1>1, <1>3, <1>4 DEF LruKept
<1>6. Cache!Order' = <<>>
  <2> DEFINE o == OrderOf(list', holds', heap')
  <2>1. o \in Seq(Entries) /\ Len(o) = 0
    BY <1>3, <1>4, KeptElements
  <2> HIDE DEF o
  <2>2. o = <<>>
    BY <2>1
  <2> QED BY <1>5, <2>2, OrderIs DEF o
<1> QED BY <1>1, <1>5, <1>6 DEF Forgets, LRU!Next, LRU!Clear

LEMMA LruStill ==
  ASSUME LruKept, UNCHANGED <<capacity, list, holds, heap, pairs, pool, reply>>
  PROVE  LruKept' /\ Forgets
<1>1. LruKept'
  BY DEF LruKept
<1>2. Cache!Order' = Cache!Order
  BY <1>1, OrderIs
<1> QED BY <1>1, <1>2 DEF Forgets

LEMMA LruForgets ==
  ASSUME LruKept, [Cache!CacheNext]_cachevars
  PROVE  LruKept' /\ Forgets
<1>1. CASE UNCHANGED cachevars
  BY <1>1, LruStill DEF cachevars
<1>2. ASSUME NEW k \in CacheKeys, Cache!Get(k) PROVE LruKept' /\ Forgets
  BY <1>2, LruGet
<1>3. ASSUME NEW k \in CacheKeys, NEW v \in CacheValues, Cache!Set(k, v) PROVE LruKept' /\ Forgets
  <2>1. UNCHANGED <<capacity, reply>> /\ (Cache!Renew(k, v) \/ Cache!Insert(k, v))
    BY <1>3 DEF Cache!Set, Cache!Call
  <2>2. CASE Cache!Renew(k, v)
    BY <2>1, <2>2, LruRenew
  <2>3. CASE Cache!Insert(k, v)
    BY <2>1, <2>3, LruInsert
  <2> QED BY <2>1, <2>2, <2>3
<1>4. ASSUME Cache!Clear PROVE LruKept' /\ Forgets
  BY <1>4, LruClear
<1>5. ASSUME Cache!RangeStart \/ Cache!RangeNext \/ Cache!RangeEnd PROVE LruKept' /\ Forgets
  <2>1. UNCHANGED <<capacity, list, holds, heap, pairs, pool, reply>>
    BY <1>5 DEF Cache!RangeStart, Cache!RangeNext, Cache!RangeEnd, Cache!StandOn
  <2> QED BY <2>1, LruStill
<1> QED BY <1>1, <1>2, <1>3, <1>4, <1>5 DEF Cache!CacheNext

(* The element after the one at place n.                                     *)
LEMMA AfterIs ==
  ASSUME LruKept, NEW n \in 1 .. Len(list)
  PROVE  Cache!After(list[n], list) = IF n = Len(list) THEN 0 ELSE list[n + 1]
<1> DEFINE I == {i \in 1 .. Len(list) : list[i] = list[n]}
<1>1. \A i \in 1 .. Len(list) : list[i] = list[n] => i = n
  BY KeptOnce DEF LruKept
<1>2. I = {n} /\ Len(list) \in Nat
  BY <1>1, KeptElements DEF LruKept
<1>3. Cache!SelectInSeq(list, LAMBDA x : x = list[n]) = IF I # {} THEN Cache!Min(I) ELSE 0
  BY DEF Cache!SelectInSeq
<1>4. Cache!Min({n}) = n
  BY <1>2 DEF Cache!Min
<1>5. Cache!SelectInSeq(list, LAMBDA x : x = list[n]) = n
  BY <1>2, <1>3, <1>4
<1>6. n # 0
  OBVIOUS
<1> QED BY <1>5, <1>6 DEF Cache!After

LEMMA RangeStandsRight ==
  ASSUME LruIInv, Cache!CacheNext
  PROVE  RangeQuiet'
<1>0. LruKept /\ RangeQuiet
  BY DEF LruIInv
<1>1. ASSUME NEW k \in CacheKeys, Cache!Get(k) \/ (\E v \in CacheValues : Cache!Set(k, v)) PROVE RangeQuiet'
  <2>1. quiet' = (quiet /\ cursor = 0) /\ UNCHANGED <<cursor, stale, shown>>
    BY <1>1 DEF Cache!Get, Cache!Set, Cache!Call, Cache!ranging
  <2>2. CASE cursor = 0
    BY <2>1, <2>2, <1>0 DEF RangeQuiet
  <2>3. CASE cursor # 0
    BY <2>1, <2>3 DEF RangeQuiet
  <2> QED BY <2>2, <2>3
<1>2. ASSUME Cache!Clear PROVE RangeQuiet'
  <2>1. quiet' = (quiet /\ cursor = 0) /\ UNCHANGED <<cursor, shown>> /\ (cursor = 0 => stale' = stale)
    BY <1>2 DEF Cache!Clear, Cache!Call
  <2>2. CASE cursor = 0
    BY <2>1, <2>2, <1>0 DEF RangeQuiet
  <2>3. CASE cursor # 0
    BY <2>1, <2>3 DEF RangeQuiet
  <2> QED BY <2>2, <2>3
<1>3. ASSUME Cache!RangeStart PROVE RangeQuiet'
  <2>1. cursor = 0 /\ list # <<>> /\ cursor' = list[1] /\ UNCHANGED <<list, holds, heap, stale, quiet>>
    BY <1>3 DEF Cache!RangeStart, Cache!StandOn
  <2>2. quiet /\ shown = <<>> /\ stale = <<>>
    BY <2>1, <1>0 DEF RangeQuiet
  <2>3. 1 \in 1 .. Len(list) /\ list[1] \in 1 .. Len(holds) /\ heap[holds[list[1]]] \in Entries
    <3>1. list \in Seq(1 .. Len(holds))
      BY <1>0 DEF LruKept, Kept, KeptTypes
    <3>2. 1 \in 1 .. Len(list)
      BY <2>1, <3>1
    <3> QED BY <1>0, <3>2, KeptElements DEF LruKept
  <2>4. cursor' # 0
    BY <2>1, <2>3
  <2>5. shown' = <<heap[holds[list[1]]]>>
    <3>1. list[1] # 0
      BY <2>1, <2>4
    <3>2. shown' = Append(shown, heap[holds[list[1]]])
      BY <1>3, <3>1 DEF Cache!RangeStart, Cache!StandOn, Cache!Pair
    <3> QED BY <2>2, <3>2
  <2>6. shown' \in Seq(Entries) /\ Len(shown') = 1 /\ shown'[1] = heap[holds[list[1]]]
    BY <2>3, <2>5
  <2> QED BY <2>1, <2>2, <2>3, <2>4, <2>6 DEF RangeQuiet
<1>4. ASSUME Cache!RangeNext PROVE RangeQuiet'
  <2> DEFINE e == Cache!After(cursor, IF stale = <<>> THEN list ELSE stale)
  <2>1. /\ cursor # 0 /\ e # 0 /\ cursor' = e /\ shown' = Append(shown, heap[holds[e]])
        /\ UNCHANGED <<list, holds, heap, stale, quiet>>
    BY <1>4 DEF Cache!RangeNext, Cache!StandOn, Cache!Pair
  <2> HIDE DEF e
  <2>2. CASE ~quiet
    BY <2>1, <2>2, <1>0 DEF RangeQuiet
  <2>3. CASE quiet
    <3> DEFINE n == Len(shown)
    <3>1. /\ stale = <<>> /\ shown \in Seq(Entries) /\ n \in 1 .. Len(list) /\ cursor = list[n]
          /\ \A i \in 1 .. n : shown[i] = heap[holds[list[i]]]
      BY <2>1, <2>3, <1>0 DEF RangeQuiet
    <3>2. e = IF n = Len(list) THEN 0 ELSE list[n + 1]
      BY <3>1, <1>0, AfterIs DEF e
    <3>3. n # Len(list) /\ e = list[n + 1] /\ Len(list) \in Nat
      BY <2>1, <3>2, <1>0, KeptElements DEF LruKept
    <3>4. n + 1 \in 1 .. Len(list) /\ heap[holds[e]] \in Entries
      <4>1. n + 1 \in 1 .. Len(list)
        BY <3>1, <3>3
      <4> QED BY <4>1, <3>3, <1>0, KeptElements DEF LruKept
    <3>5. /\ shown' \in Seq(Entries) /\ Len(shown') = n + 1 /\ shown'[n + 1] = heap[holds[e]]
          /\ \A i \in 1 .. n : shown'[i] = shown[i]
      <4> DEFINE x == heap[holds[e]]
      <4>1. x \in Entries /\ shown' = Append(shown, x)
        BY <2>1, <3>4
      <4> HIDE DEF x
      <4>2. /\ shown' \in Seq(Entries) /\ Len(shown') = n + 1 /\ shown'[n + 1] = x
            /\ \A i \in 1 .. n : shown'[i] = shown[i]
        BY <3>1, <4>1
      <4> QED BY <4>2 DEF x
    <3>6. \A i \in 1 .. n + 1 : shown'[i] = heap[holds[list[i]]]
      <4> TAKE i \in 1 .. n + 1
      <4>1. i \in 1 .. n \/ i = n + 1
        BY <3>1
      <4>2. CASE i \in 1 .. n
        BY <4>2, <3>1, <3>5
      <4>3. CASE i = n + 1
        BY <4>3, <3>3, <3>5
      <4> QED BY <4>1, <4>2, <4>3
    <3>7. cursor' = list'[n + 1]
      BY <2>1, <3>3
    <3> HIDE DEF n
    <3> QED BY <2>1, <2>3, <3>1, <3>4, <3>5, <3>6, <3>7 DEF RangeQuiet
  <2> QED BY <2>2, <2>3
<1>5. ASSUME Cache!RangeEnd PROVE RangeQuiet'
  BY <1>5 DEF Cache!RangeEnd, RangeQuiet
<1> QED BY <1>1, <1>2, <1>3, <1>4, <1>5 DEF Cache!CacheNext

LEMMA LruNext == LruIInv /\ [Cache!CacheNext]_cachevars => LruIInv'
<1> SUFFICES ASSUME LruIInv, [Cache!CacheNext]_cachevars PROVE LruIInv'
  OBVIOUS
<1>1. LruKept'
  BY LruForgets DEF LruIInv
<1>2. CASE UNCHANGED cachevars
  BY <1>1, <1>2 DEF LruIInv, RangeQuiet, cachevars
<1>3. CASE Cache!CacheNext
  BY <1>1, <1>3, RangeStandsRight DEF LruIInv
<1> QED BY <1>2, <1>3

LEMMA LruSound == LruIInv => Cache!CacheSound
<1> SUFFICES ASSUME LruIInv PROVE Cache!CacheSound
  OBVIOUS
<1>0. Kept(list, holds, heap, pairs, pool) /\ LruKept /\ RangeQuiet /\ Len(list) <= capacity
  BY DEF LruIInv, LruKept
<1>1. DOMAIN list = 1 .. Len(list) /\ Len(list) \in Nat
  BY <1>0, KeptElements DEF Kept, KeptTypes
<1>2. Cache!IsInjective(list)
  <2>1. \A i, j \in DOMAIN list : list[i] = list[j] => i = j
    BY <1>0, <1>1, KeptOnce
  <2> QED BY <2>1 DEF Cache!IsInjective
<1>3. Cache!IsInjective([i \in DOMAIN list |-> holds[list[i]]])
  <2>1. \A i, j \in DOMAIN list : holds[list[i]] = holds[list[j]] => i = j
    BY <1>0, <1>1 DEF Kept, KeptApart
  <2> QED BY <2>1 DEF Cache!IsInjective
<1>4. pool \intersect {holds[e] : e \in Cache!ToSet(list)} = {}
  <2>1. \A i \in DOMAIN list : holds[list[i]] \notin pool
    BY <1>0, <1>1 DEF Kept, KeptApart
  <2> QED BY <2>1 DEF Cache!ToSet
<1>5. DOMAIN pairs = {Cache!Pair(e).key : e \in Cache!ToSet(list)}
  <2>1. \A i \in DOMAIN list : heap[holds[list[i]]].key \in DOMAIN pairs
    BY <1>0, <1>1 DEF Kept, KeptMap
  <2>2. \A k \in DOMAIN pairs : \E i \in DOMAIN list : heap[holds[list[i]]].key = k
    BY <1>0, <1>1 DEF Kept, KeptMap
  <2> QED BY <2>1, <2>2 DEF Cache!ToSet, Cache!Pair
<1>6. \A k \in DOMAIN pairs : Cache!Pair(pairs[k]).key = k
  <2> TAKE k \in DOMAIN pairs
  <2>1. PICK i \in 1 .. Len(list) : heap[holds[list[i]]].key = k
    BY <1>0 DEF Kept, KeptMap
  <2>2. pairs[k] = list[i]
    BY <1>0, <2>1 DEF Kept, KeptMap
  <2> QED BY <2>1, <2>2 DEF Cache!Pair
<1>7. quiet => Cache!IsPrefix(shown, Cache!Order)
  <2> DEFINE o == Cache!Order
  <2>1. o \in Seq(Entries) /\ Len(o) = Len(list) /\ \A i \in 1 .. Len(list) : o[i] = heap[holds[list[i]]]
    BY <1>0, OrderIs, KeptElements DEF OrderOf
  <2> HIDE DEF o
  <2>2. ASSUME quiet PROVE shown \in Seq(Entries) /\ Len(shown) <= Len(o) /\ \A i \in 1 .. Len(shown) : shown[i] = o[i]
    <3>1. CASE cursor = 0
      <4>1. shown = <<>>
        BY <1>0, <3>1 DEF RangeQuiet
      <4> QED BY <4>1, <2>1, <1>1
    <3>2. CASE cursor # 0
      <4>1. /\ shown \in Seq(Entries) /\ Len(shown) \in 1 .. Len(list)
            /\ \A i \in 1 .. Len(shown) : shown[i] = heap[holds[list[i]]]
        BY <1>0, <2>2, <3>2 DEF RangeQuiet
      <4>2. \A i \in 1 .. Len(shown) : i \in 1 .. Len(list)
        BY <4>1, <1>1
      <4> QED BY <4>1, <4>2, <2>1
    <3> QED BY <3>1, <3>2
  <2>3. ASSUME quiet PROVE SubSeq(shown, 1, Len(shown)) = SubSeq(o, 1, Len(shown))
    BY <2>1, <2>2, <2>3
  <2> QED BY <2>2, <2>3 DEF Cache!IsPrefix, o
<1> QED BY <1>0, <1>2, <1>3, <1>4, <1>5, <1>6, <1>7 DEF Cache!CacheSound

LEMMA LruLive == LruIInv /\ [Cache!CacheNext]_cachevars => Cache!ShowsLive
<1> SUFFICES ASSUME LruIInv, [Cache!CacheNext]_cachevars, cursor' # 0, cursor' # cursor, stale' = <<>>
             PROVE  \E k \in DOMAIN pairs : pairs[k] = cursor'
  BY DEF Cache!ShowsLive
<1>0. LruKept
  BY DEF LruIInv
<1>1. Cache!RangeStart \/ Cache!RangeNext
  BY DEF Cache!CacheNext, Cache!Get, Cache!Set, Cache!Clear, Cache!RangeEnd, Cache!ranging, cachevars
<1>2. PICK i \in 1 .. Len(list) : cursor' = list[i]
  <2>1. list \in Seq(1 .. Len(holds))
    BY <1>0 DEF LruKept, Kept, KeptTypes
  <2>2. CASE Cache!RangeStart
    <3>1. list # <<>> /\ cursor' = list[1]
      BY <2>2 DEF Cache!RangeStart, Cache!StandOn
    <3>2. 1 \in 1 .. Len(list)
      BY <2>1, <3>1
    <3> QED BY <3>1, <3>2
  <2>3. CASE Cache!RangeNext
    <3> DEFINE j == Cache!SelectInSeq(list, LAMBDA x : x = cursor)
               I == {a \in 1 .. Len(list) : list[a] = cursor}
    <3>1. cursor' = Cache!After(cursor, list) /\ cursor' # 0
      BY <2>3 DEF Cache!RangeNext, Cache!StandOn
    <3>2. j # 0 /\ j # Len(list) /\ cursor' = list[j + 1]
      BY <3>1 DEF Cache!After
    <3>3. j = IF I # {} THEN Cache!Min(I) ELSE 0
      BY DEF Cache!SelectInSeq
    <3>4. j \in I
      <4>1. I # {} /\ j = Cache!Min(I)
        BY <3>2, <3>3
      <4>2. I \subseteq Nat
        BY <2>1
      <4>3. \E a \in I : \A b \in I : a <= b
        <5>1. PICK a \in I : a = cursor \/ TRUE
          BY <4>1
        <5>2. \A b \in I : b = a
          BY <1>0, KeptOnce DEF LruKept
        <5> QED BY <5>1, <5>2, <4>2
      <4> HIDE DEF I, j
      <4> QED BY <4>1, <4>3 DEF Cache!Min
    <3> HIDE DEF j
    <3>5. j + 1 \in 1 .. Len(list)
      BY <2>1, <3>2, <3>4
    <3> QED BY <3>2, <3>5
  <2> QED BY <1>1, <2>2, <2>3
<1>3. heap[holds[list[i]]].key \in DOMAIN pairs /\ pairs[heap[holds[list[i]]].key] = list[i]
  BY <1>0 DEF LruKept, Kept, KeptMap
<1> QED BY <1>2, <1>3

-------------------------------------------------------------------------------
(***************************************************************************)
(* java's tournament.  A player is in temp or out; until turnir is temp,   *)
(* who has yet to play of turnir is in temp.                               *)
(***************************************************************************)
Players == 1 .. count
Has(s, x) == \E i \in 1 .. Len(s) : s[i] = x

GameTypes == count \in Nat /\ temp \in Seq(Players) /\ turnir \in Seq(Players) /\ res \in Seq(SUBSET Players) /\ thisPlayers \in Nat \ {0}
GameOnce ==
  /\ \A i, j \in 1 .. Len(temp) : temp[i] = temp[j] => i = j
  /\ \A i, j \in 1 .. Len(turnir) : turnir[i] = turnir[j] => i = j
GameInOrOut ==
  /\ \A i, j \in 1 .. Len(res) : i # j => res[i] \intersect res[j] = {}
  /\ \A p \in Players : Has(temp, p) <=> \A i \in 1 .. Len(res) : p \notin res[i]
GamePairs ==
  /\ aliased \in BOOLEAN /\ over \in BOOLEAN
  /\ aliased => turnir = temp
  /\ ~aliased => \A i \in thisPlayers .. Len(turnir) : Has(temp, turnir[i])
  /\ over <=> Len(temp) <= 1
  /\ ~over => thisPlayers < Len(turnir)
GameMiddle == \A p \in robbed : \E no \in Players : 2 * no = count + 1 /\ p # no
GameIInv == GameTypes /\ GameOnce /\ GameInOrOut /\ GamePairs /\ GameMiddle

(* Without the q-th: the others, each once.                                  *)
LEMMA ShortenedHas ==
  ASSUME NEW S, NEW s \in Seq(S), \A i, j \in 1 .. Len(s) : s[i] = s[j] => i = j, NEW q \in 1 .. Len(s)
  PROVE  /\ \A i, j \in 1 .. Len(s) - 1 : Shortened(s, q)[i] = Shortened(s, q)[j] => i = j
         /\ \A x : (\E i \in 1 .. Len(s) - 1 : Shortened(s, q)[i] = x) <=> Has(s, x) /\ x # s[q]
<1> DEFINE r == Shortened(s, q)
<1>1. Len(s) \in Nat /\ \A i \in 1 .. Len(s) - 1 : r[i] = IF i < q THEN s[i] ELSE s[i + 1]
  <2>1. q \in DOMAIN s /\ Len(s) \in Nat
    OBVIOUS
  <2>2. \A i \in 1 .. Len(s) - 1 : Shortened(s, q)[i] = IF i < q THEN s[i] ELSE s[i + 1]
    BY <2>1, ShortenedSeq
  <2> QED BY <2>1, <2>2
<1> HIDE DEF r
<1>2. ASSUME NEW i \in 1 .. Len(s) - 1, NEW j \in 1 .. Len(s) - 1, r[i] = r[j] PROVE i = j
  <2>1. i \in 1 .. Len(s) /\ i + 1 \in 1 .. Len(s) /\ j \in 1 .. Len(s) /\ j + 1 \in 1 .. Len(s)
    BY <1>1
  <2>2. CASE i < q /\ j < q
    BY <1>1, <1>2, <2>1, <2>2
  <2>3. CASE i < q /\ ~(j < q)
    <3>1. s[i] = s[j + 1]
      BY <1>1, <1>2, <2>3
    <3>2. i = j + 1
      BY <2>1, <3>1
    <3> QED BY <2>3, <3>2
  <2>4. CASE ~(i < q) /\ j < q
    <3>1. s[i + 1] = s[j]
      BY <1>1, <1>2, <2>4
    <3>2. i + 1 = j
      BY <2>1, <3>1
    <3> QED BY <2>4, <3>2
  <2>5. CASE ~(i < q) /\ ~(j < q)
    <3>1. s[i + 1] = s[j + 1]
      BY <1>1, <1>2, <2>5
    <3>2. i + 1 = j + 1
      BY <2>1, <3>1
    <3> QED BY <3>2
  <2> QED BY <2>2, <2>3, <2>4, <2>5
<1>3. ASSUME NEW x, NEW i \in 1 .. Len(s) - 1, r[i] = x PROVE Has(s, x) /\ x # s[q]
  <2>1. PICK a \in 1 .. Len(s) : a # q /\ s[a] = x
    <3>1. CASE i < q
      BY <1>1, <1>3, <3>1
    <3>2. CASE ~(i < q)
      <4>1. i + 1 \in 1 .. Len(s) /\ i + 1 # q /\ s[i + 1] = x
        BY <1>1, <1>3, <3>2
      <4> QED BY <4>1
    <3> QED BY <3>1, <3>2
  <2> QED BY <2>1 DEF Has
<1>4. ASSUME NEW x, Has(s, x), x # s[q] PROVE \E i \in 1 .. Len(s) - 1 : r[i] = x
  <2>1. PICK a \in 1 .. Len(s) : s[a] = x
    BY <1>4 DEF Has
  <2>2. a # q
    BY <2>1, <1>4
  <2>3. CASE a < q
    <3>1. a \in 1 .. Len(s) - 1 /\ r[a] = x
      BY <1>1, <2>1, <2>3
    <3> QED BY <3>1
  <2>4. CASE a > q
    <3>1. a - 1 \in 1 .. Len(s) - 1 /\ ~(a - 1 < q) /\ (a - 1) + 1 = a
      BY <1>1, <2>4
    <3>2. r[a - 1] = x
      BY <1>1, <2>1, <3>1
    <3> QED BY <3>1, <3>2
  <2> QED BY <2>2, <2>3, <2>4
<1> QED BY <1>2, <1>3, <1>4 DEF r

LEMMA GameInit == Matches!GameInit => GameIInv
<1> SUFFICES ASSUME Matches!GameInit PROVE GameIInv
  OBVIOUS
<1>1. /\ count \in Nat /\ temp = turnir /\ aliased = FALSE /\ thisPlayers = 1 /\ res = <<>> /\ robbed = {}
      /\ over = (Len(turnir) < 2)
  BY PlayerCounts DEF Matches!GameInit
<1>2. IsFiniteSet(Players) /\ Cardinality(Players) = count
  BY <1>1, FS_Interval, SMTT(60) DEF Players
<1>3. turnir \in [Players -> Players] /\ \A i, j \in Players : i # j => turnir[i] # turnir[j]
  <2>1. turnir \in {f \in [1 .. Cardinality(Players) -> Players] : \A i, j \in 1 .. Cardinality(Players) : i # j => f[i] # f[j]}
    <3>1. turnir \in Matches!SetToSeqs(Players)
      BY DEF Matches!GameInit, Players
    <3>2. Matches!Cardinality(Players) = Cardinality(Players)
      BY DEF Matches!Cardinality, Cardinality
    <3> QED BY <3>1, <3>2 DEF Matches!SetToSeqs
  <2> QED BY <1>2, <2>1 DEF Players
<1>4. turnir \in Injection(Players, Players)
  BY <1>3 DEF Injection, IsInjective
<1>5. turnir \in Surjection(Players, Players)
  BY <1>2, <1>4, FS_Injection
<1>6. turnir \in Seq(Players) /\ Len(turnir) = count
  BY <1>1, <1>3 DEF Players
<1>7. \A p \in Players : Has(turnir, p)
  BY <1>5, <1>6 DEF Has, Surjection, Players
<1>8. GameTypes
  BY <1>1, <1>6 DEF GameTypes
<1>9. GameOnce
  BY <1>1, <1>3, <1>6 DEF GameOnce, Players
<1>10. GameInOrOut
  BY <1>1, <1>7 DEF GameInOrOut
<1>11. GamePairs
  <2>1. \A i \in 1 .. Len(turnir) : Has(temp, turnir[i])
    BY <1>1 DEF Has
  <2>2. (Len(turnir) < 2) <=> Len(turnir) <= 1
    BY <1>1, <1>6
  <2>3. over \in BOOLEAN /\ (over <=> Len(temp) <= 1)
    <3>1. over \in BOOLEAN /\ (over <=> Len(turnir) < 2)
      <4> DEFINE N == Len(turnir)
      <4>1. over = (N < 2) /\ N \in Nat
        BY <1>1, <1>6
      <4> DEFINE c == N < 2
      <4>2. over = c /\ c \in BOOLEAN
        BY <4>1
      <4> HIDE DEF c
      <4>3. over \in BOOLEAN /\ (over <=> c)
        BY <4>2
      <4> QED BY <4>3 DEF c, N
    <3>2. over <=> Len(turnir) <= 1
      BY <3>1, <2>2, Zenon
    <3> QED BY <3>1, <3>2, <1>1
  <2>4. ~over => 1 < Len(turnir)
    BY <1>1, <1>6, <2>3
  <2> QED BY <1>1, <2>1, <2>3, <2>4 DEF GamePairs
<1>12. GameMiddle
  BY <1>1 DEF GameMiddle
<1> QED BY <1>8, <1>9, <1>10, <1>11, <1>12 DEF GameIInv

(* Who loses is one of the two; after a wrong move of no it is the other     *)
(* only if no has the middle number.                                         *)
LEMMA LosersAre ==
  ASSUME count \in Nat, NEW no \in Players, NEW other \in Players, no # other, NEW how \in {"WIN", "LOSE", "DRAW"}
  PROVE  /\ Matches!Losers(no, other, how) \in {{}, {no}, {other}}
         /\ how = "LOSE" /\ Matches!Losers(no, other, how) \ {no} # {} =>
              2 * no = count + 1 /\ Matches!Losers(no, other, how) \ {no} = {other}
<1> DEFINE l == Matches!Losers(no, other, how)
           r == Matches!move(no, how)
<1>1. l = IF r = 0 THEN {} ELSE IF r = no THEN {other} ELSE {no}
  BY DEF Matches!Losers
<1>2. how = "LOSE" => r = count + 1 - no
  BY DEF Matches!move
<1> HIDE DEF l, r
<1>3. l \in {{}, {no}, {other}}
  BY <1>1
<1>4. ASSUME how = "LOSE", l \ {no} # {} PROVE 2 * no = count + 1 /\ l \ {no} = {other}
  <2>1. l = {other} /\ r = no
    BY <1>1, <1>4
  <2>2. no = count + 1 - no
    BY <1>2, <1>4, <2>1
  <2> QED BY <2>1, <2>2 DEF Players
<1> QED BY <1>3, <1>4 DEF l

LEMMA GamePlay == GameIInv /\ Matches!play => GameIInv'
<1> SUFFICES ASSUME GameIInv, Matches!play PROVE GameIInv'
  OBVIOUS
<1>0. GameTypes /\ GameOnce /\ GameInOrOut /\ GamePairs /\ GameMiddle
  BY DEF GameIInv
<1> DEFINE tp == thisPlayers
           a == turnir[tp]
           b == turnir[tp + 1]
<1>1. PICK s \in {0, 1}, how \in {"WIN", "LOSE", "DRAW"} :
        LET losers == Matches!Losers(turnir[tp + s], turnir[tp + 1 - s], how)
        IN  /\ res' = Append(res, losers)
            /\ robbed' = robbed \union (IF how = "LOSE" THEN losers \ {turnir[tp + s]} ELSE {})
            /\ Matches!endOfStep(IF losers = {} THEN temp ELSE Matches!RemoveFirst(temp, CHOOSE p \in losers : TRUE))
  BY ZenonT(60) DEF Matches!play
<1> DEFINE no == turnir[tp + s]
           other == turnir[tp + 1 - s]
           losers == Matches!Losers(no, other, how)
           loser == CHOOSE p \in losers : TRUE
           rest == IF losers = {} THEN temp ELSE Matches!RemoveFirst(temp, loser)
<1>2. ~over /\ tp < Len(turnir) /\ count' = count
  BY DEF Matches!play
<1>3. tp \in Nat \ {0} /\ tp \in 1 .. Len(turnir) /\ tp + 1 \in 1 .. Len(turnir) /\ tp + 0 = tp /\ tp + 1 - 0 = tp + 1 /\ tp + 1 - 1 = tp
  BY <1>0, <1>2 DEF GameTypes
<1>4. a \in Players /\ b \in Players /\ a # b
  <2>1. a # b
    BY <1>0, <1>3 DEF GameOnce
  <2> QED BY <1>0, <1>3, <2>1 DEF GameTypes
<1>5. Has(temp, a) /\ Has(temp, b)
  <2>1. CASE aliased
    BY <2>1, <1>0, <1>3 DEF GamePairs, Has
  <2>2. CASE ~aliased
    BY <2>2, <1>0, <1>3 DEF GamePairs
  <2> QED BY <2>1, <2>2, <1>0 DEF GamePairs
<1>6. (no = a /\ other = b) \/ (no = b /\ other = a)
  <2>1. CASE s = 0
    BY <2>1, <1>3
  <2>2. CASE s = 1
    BY <2>2, <1>3
  <2> QED BY <2>1, <2>2
<1> HIDE DEF no, other, a, b
<1>7. losers \in {{}, {a}, {b}}
  BY <1>0, <1>4, <1>6, LosersAre DEF GameTypes
<1>8. how = "LOSE" => \A p \in losers \ {no} : \E m \in Players : 2 * m = count + 1 /\ p # m
  <2> SUFFICES ASSUME how = "LOSE", NEW p \in losers \ {no} PROVE 2 * no = count + 1 /\ p # no /\ no \in Players
    OBVIOUS
  <2> QED BY <1>0, <1>4, <1>6, LosersAre DEF GameTypes
<1>9. /\ res' = Append(res, losers)
      /\ robbed' = robbed \union (IF how = "LOSE" THEN losers \ {no} ELSE {})
      /\ Matches!endOfStep(rest)
  BY <1>1 DEF no, other
<1> HIDE DEF losers
<1>10. /\ rest \in Seq(Players) /\ Len(rest) >= 1
       /\ \A i, j \in 1 .. Len(rest) : rest[i] = rest[j] => i = j
       /\ \A x : Has(rest, x) <=> Has(temp, x) /\ x \notin losers
  <2>1. /\ temp \in Seq(Players) /\ \A i, j \in 1 .. Len(temp) : temp[i] = temp[j] => i = j
        /\ Len(temp) \in Nat
    BY <1>0 DEF GameTypes, GameOnce
  <2>2. Len(temp) >= 2
    BY <1>0, <1>2, <2>1 DEF GamePairs
  <2>3. CASE losers = {}
    BY <2>1, <2>2, <2>3
  <2>4. CASE losers # {}
    <3>1. losers = {loser} /\ (loser = a \/ loser = b)
      BY <1>7, <2>4
    <3>2. PICK q \in 1 .. Len(temp) : temp[q] = loser
      BY <1>5, <3>1 DEF Has
    <3>3. q \in DOMAIN temp /\ \A i \in DOMAIN temp : temp[i] = temp[q] => i = q
      BY <2>1
    <3>4. rest = Shortened(temp, q)
      BY <2>1, <2>4, <3>2, <3>3, RemovedOnce, SameOperators
    <3>5. rest \in Seq(Players) /\ Len(rest) = Len(temp) - 1
      BY <2>1, <3>3, <3>4, ShortenedSeq
    <3>6. /\ \A i, j \in 1 .. Len(temp) - 1 : rest[i] = rest[j] => i = j
          /\ \A x : (\E i \in 1 .. Len(temp) - 1 : rest[i] = x) <=> Has(temp, x) /\ x # loser
      <4>1. /\ \A i, j \in 1 .. Len(temp) - 1 : Shortened(temp, q)[i] = Shortened(temp, q)[j] => i = j
            /\ \A x : (\E i \in 1 .. Len(temp) - 1 : Shortened(temp, q)[i] = x) <=> Has(temp, x) /\ x # temp[q]
        BY <2>1, ShortenedHas
      <4> HIDE DEF rest, loser
      <4> QED BY <4>1, <3>2, <3>4
    <3> HIDE DEF rest, loser
    <3> QED BY <2>1, <2>2, <3>1, <3>5, <3>6 DEF Has
  <2> QED BY <2>3, <2>4
<1> HIDE DEF rest
<1> DEFINE ls == IF aliased THEN rest ELSE turnir
           wrap == tp + 2 >= Len(ls)
           next == IF wrap THEN rest ELSE ls
<1>11. /\ temp' = rest /\ turnir' = next /\ aliased' = (aliased \/ wrap)
       /\ thisPlayers' = (IF wrap THEN 1 ELSE tp + 2) /\ over' = (Len(next) = 1)
  BY <1>9 DEF Matches!endOfStep
<1>12. Players' = Players
  BY <1>2 DEF Players
<1>13. GameTypes'
  <2>1. res' \in Seq(SUBSET Players)
    BY <1>0, <1>4, <1>7, <1>9 DEF GameTypes
  <2>2. next \in Seq(Players)
    BY <1>0, <1>10 DEF GameTypes
  <2>3. thisPlayers' \in Nat \ {0}
    BY <1>3, <1>11
  <2> HIDE DEF next
  <2> QED BY <1>0, <1>2, <1>10, <1>11, <1>12, <2>1, <2>2, <2>3 DEF GameTypes
<1>14. GameOnce'
  <2>1. \A i, j \in 1 .. Len(next) : next[i] = next[j] => i = j
    <3>1. CASE next = rest
      BY <3>1, <1>10
    <3>2. CASE next = turnir
      BY <3>2, <1>0 DEF GameOnce
    <3> QED BY <3>1, <3>2
  <2> HIDE DEF next
  <2> QED BY <1>10, <1>11, <2>1 DEF GameOnce
<1>15. GameInOrOut'
  <2> DEFINE n == Len(res)
  <2>1. n \in Nat /\ Len(res') = n + 1 /\ res'[n + 1] = losers /\ \A i \in 1 .. n : res'[i] = res[i]
    BY <1>0, <1>4, <1>7, <1>9 DEF GameTypes
  <2>2. \A p \in losers : p \in Players /\ Has(temp, p)
    BY <1>4, <1>5, <1>7
  <2>3. \A i \in 1 .. n : res[i] \intersect losers = {}
    BY <1>0, <2>2 DEF GameInOrOut
  <2> HIDE DEF n
  <2>4. \A i \in 1 .. n + 1 : i \in 1 .. n \/ i = n + 1
    BY <2>1
  <2>5. \A i \in 1 .. n : i \in 1 .. n + 1
    BY <2>1
  <2>6. n + 1 \in 1 .. n + 1
    BY <2>1
  <2>7. ASSUME NEW i \in 1 .. n + 1, NEW j \in 1 .. n + 1, i # j PROVE res'[i] \intersect res'[j] = {}
    <3>1. \A x, y \in 1 .. n : x # y => res[x] \intersect res[y] = {}
      BY <1>0 DEF GameInOrOut, n
    <3>2. CASE i \in 1 .. n /\ j \in 1 .. n
      BY <2>1, <2>7, <3>1, <3>2
    <3>3. CASE i = n + 1 /\ j \in 1 .. n
      BY <2>1, <2>3, <3>3
    <3>4. CASE i \in 1 .. n /\ j = n + 1
      BY <2>1, <2>3, <3>4
    <3> QED BY <2>4, <2>7, <3>2, <3>3, <3>4
  <2>8. ASSUME NEW p \in Players PROVE Has(rest, p) <=> \A i \in 1 .. n + 1 : p \notin res'[i]
    <3>1. Has(temp, p) <=> \A i \in 1 .. n : p \notin res[i]
      BY <1>0 DEF GameInOrOut, n
    <3>2. (\A i \in 1 .. n + 1 : p \notin res'[i]) <=> (\A i \in 1 .. n : p \notin res[i]) /\ p \notin losers
      BY <2>1, <2>4, <2>5, <2>6
    <3> QED BY <1>10, <3>1, <3>2
  <2> QED BY <1>11, <1>12, <2>1, <2>7, <2>8 DEF GameInOrOut
<1>16. GamePairs'
  <2> DEFINE same == next = rest
  <2>1. next = rest \/ (~aliased /\ ~wrap /\ next = turnir)
    OBVIOUS
  <2>2. Len(rest) \in Nat /\ Len(turnir) \in Nat /\ Len(ls) \in Nat
    BY <1>0, <1>10 DEF GameTypes
  <2>3. aliased' \in BOOLEAN /\ over' \in BOOLEAN
    BY <1>11
  <2>4. aliased' => next = rest
    BY <1>11
  <2>5. ASSUME ~aliased' PROVE next = turnir /\ tp + 2 < Len(turnir) /\ thisPlayers' = tp + 2
    <3>1. ~aliased /\ ~wrap
      BY <1>11, <2>5
    <3>2. ls = turnir
      BY <3>1
    <3>3. ~(tp + 2 >= Len(turnir))
      BY <3>1, <3>2
    <3>4. next = turnir /\ thisPlayers' = tp + 2
      BY <3>1, <1>11
    <3> QED BY <3>3, <3>4, <2>2, <1>3
  <2>6. ASSUME ~aliased', NEW i \in tp + 2 .. Len(turnir) PROVE Has(rest, turnir[i])
    <3>1. i \in 1 .. Len(turnir) /\ i # tp /\ i # tp + 1 /\ i \in tp .. Len(turnir)
      BY <1>3, <2>2
    <3>2. turnir[i] # a /\ turnir[i] # b
      BY <1>0, <1>3, <3>1 DEF GameOnce, a, b
    <3>3. ~aliased
      BY <1>11, <2>6
    <3>4. Has(temp, turnir[i])
      BY <1>0, <3>1, <3>3 DEF GamePairs
    <3> QED BY <1>7, <1>10, <3>2, <3>4
  <2> HIDE DEF next, wrap, ls
  <2>7. ASSUME ~aliased' PROVE Len(rest) >= 2 /\ Len(next) # 1
    <3>1. tp + 2 < Len(turnir) /\ next = turnir
      BY <2>5, <2>7
    <3>2. tp + 2 \in tp + 2 .. Len(turnir) /\ tp + 3 \in tp + 2 .. Len(turnir)
      BY <1>3, <2>2, <3>1
    <3>3. Has(rest, turnir[tp + 2]) /\ Has(rest, turnir[tp + 3])
      BY <2>6, <2>7, <3>2
    <3>4. PICK x \in 1 .. Len(rest), y \in 1 .. Len(rest) : rest[x] = turnir[tp + 2] /\ rest[y] = turnir[tp + 3]
      BY <3>3 DEF Has
    <3>5. turnir[tp + 2] # turnir[tp + 3]
      <4>1. tp + 2 \in 1 .. Len(turnir) /\ tp + 3 \in 1 .. Len(turnir) /\ tp + 2 # tp + 3
        BY <1>3, <2>2, <3>1
      <4> QED BY <4>1, <1>0 DEF GameOnce
    <3>6. x # y
      BY <3>4, <3>5
    <3>7. Len(rest) >= 2
      BY <2>2, <3>6
    <3>8. Len(turnir) # 1
      <4> DEFINE N == Len(turnir)
      <4>1. tp \in Nat /\ N \in Nat /\ tp + 2 < N
        BY <1>3, <2>2, <3>1
      <4> HIDE DEF tp, N
      <4>2. N # 1
        BY <4>1
      <4> QED BY <4>2 DEF N
    <3> QED BY <3>1, <3>7, <3>8
  <2>8. over' <=> Len(rest) <= 1
    <3>1. over' <=> Len(next) = 1
      BY <1>11
    <3>2. CASE aliased'
      <4>1. Len(next) = 1 <=> Len(rest) <= 1
        <5>1. next = rest /\ Len(rest) >= 1
          BY <3>2, <2>4, <1>10
        <5> QED BY <5>1, <2>2
      <4> QED BY <3>1, <4>1, Zenon
    <3>3. CASE ~aliased'
      <4>1. Len(next) # 1 /\ ~(Len(rest) <= 1)
        BY <3>3, <2>2, <2>7
      <4> QED BY <3>1, <4>1, Zenon
    <3> QED BY <3>2, <3>3
  <2>9. ASSUME ~over' PROVE thisPlayers' < Len(next)
    <3>1. CASE ~aliased'
      BY <3>1, <2>5
    <3>2. CASE aliased'
      <4>1. Len(rest) >= 2 /\ next = rest
        BY <2>2, <2>4, <2>8, <2>9, <3>2
      <4>2. CASE wrap
        BY <4>1, <4>2, <1>11, <2>2
      <4>3. CASE ~wrap
        <5>1. next = ls
          BY <4>3 DEF next
        <5>2. tp + 2 < Len(ls)
          BY <4>3, <1>3, <2>2 DEF wrap
        <5> QED BY <4>3, <5>1, <5>2, <1>11
      <4> QED BY <4>2, <4>3
    <3> QED BY <3>1, <3>2
  <2>10. ~aliased' => \A i \in thisPlayers' .. Len(turnir') : Has(rest, turnir'[i])
    <3> SUFFICES ASSUME ~aliased' PROVE \A i \in thisPlayers' .. Len(turnir') : Has(rest, turnir'[i])
      OBVIOUS
    <3>1. turnir' = turnir /\ thisPlayers' = tp + 2
      BY <1>11, <2>5
    <3> QED BY <3>1, <2>6
  <2> QED BY <1>11, <2>3, <2>4, <2>8, <2>9, <2>10 DEF GamePairs
<1>17. GameMiddle'
  <2>1. \A p \in robbed' : \E m \in Players : 2 * m = count + 1 /\ p # m
    BY <1>0, <1>8, <1>9 DEF GameMiddle
  <2> QED BY <1>2, <1>12, <2>1 DEF GameMiddle
<1> QED BY <1>13, <1>14, <1>15, <1>16, <1>17 DEF GameIInv

LEMMA GameNextIInv == GameIInv /\ [Matches!GameNext]_gamevars => GameIInv'
<1>1. GameIInv /\ UNCHANGED gamevars => GameIInv'
  BY DEF GameIInv, GameTypes, GameOnce, GameInOrOut, GamePairs, GameMiddle, Players, gamevars
<1> QED BY <1>1, GamePlay DEF Matches!GameNext

LEMMA GameSound == GameIInv => Matches!TournamentSound
<1> SUFFICES ASSUME GameIInv PROVE Matches!TournamentSound
  OBVIOUS
<1>0. GameTypes /\ GameOnce /\ GameInOrOut /\ GamePairs /\ GameMiddle
  BY DEF GameIInv
<1>1. DOMAIN res = 1 .. Len(res) /\ DOMAIN temp = 1 .. Len(temp) /\ \A i \in 1 .. Len(temp) : temp[i] \in Players
  BY <1>0 DEF GameTypes
<1>2. \A i \in 1 .. Len(res) : res[i] \subseteq Players
  BY <1>0 DEF GameTypes
<1>3. \A i, j \in DOMAIN res : i # j => res[i] \intersect res[j] = {}
  BY <1>0, <1>1 DEF GameInOrOut
<1>4. Matches!IsInjective(temp)
  BY <1>0, <1>1 DEF GameOnce, Matches!IsInjective
<1>5. \A p : p \in Matches!Out <=> \E i \in 1 .. Len(res) : p \in res[i]
  BY <1>1 DEF Matches!Out, Matches!ToSet
<1>6. \A p : p \in Matches!ToSet(temp) <=> Has(temp, p)
  BY <1>1 DEF Has, Matches!ToSet
<1>7. \A p : Has(temp, p) => p \in Players
  BY <1>1 DEF Has
<1>8. \A p \in Players : Has(temp, p) <=> \A i \in 1 .. Len(res) : p \notin res[i]
  BY <1>0 DEF GameInOrOut
<1>9. Matches!Out \intersect Matches!ToSet(temp) = {} /\ Matches!Out \union Matches!ToSet(temp) = Players
  BY <1>2, <1>5, <1>6, <1>7, <1>8
<1>10. ~over => thisPlayers < Len(turnir) /\ {turnir[thisPlayers], turnir[thisPlayers + 1]} \subseteq Matches!ToSet(temp)
  <2> SUFFICES ASSUME ~over PROVE thisPlayers < Len(turnir) /\ Has(temp, turnir[thisPlayers]) /\ Has(temp, turnir[thisPlayers + 1])
    BY <1>6
  <2>1. thisPlayers < Len(turnir)
    BY <1>0 DEF GamePairs
  <2>2. thisPlayers \in 1 .. Len(turnir) /\ thisPlayers + 1 \in 1 .. Len(turnir) /\ thisPlayers \in thisPlayers .. Len(turnir) /\ thisPlayers + 1 \in thisPlayers .. Len(turnir)
    BY <2>1, <1>0 DEF GameTypes
  <2>3. CASE aliased
    BY <2>1, <2>2, <2>3, <1>0 DEF GamePairs, Has
  <2>4. CASE ~aliased
    BY <2>1, <2>2, <2>4, <1>0 DEF GamePairs
  <2> QED BY <2>3, <2>4
<1>11. over <=> Len(temp) <= 1
  BY <1>0 DEF GamePairs
<1> QED BY <1>0, <1>3, <1>4, <1>9, <1>10, <1>11 DEF Matches!TournamentSound, GameMiddle, Players

-------------------------------------------------------------------------------
(***************************************************************************)
(* java's ArrayQueue.  Its fields are good if the slots from front on hold *)
(* the size elements and all the others null, and last is the slot before  *)
(* the next free one.  Item(f, i) is the i-th element, counted from 0.     *)
(***************************************************************************)
Slots(f)    == Array!Length(f)
Wrap(f, i)  == IF i < Slots(f) THEN i ELSE i - Slots(f)
Place(f, i) == Wrap(f, f.front + i)
Item(f, i)  == f.a[Place(f, i)]

FieldsType(f) ==
  /\ f = [a |-> f.a, size |-> f.size, front |-> f.front, last |-> f.last]
  /\ Slots(f) \in Nat \ {0} /\ f.a = [i \in 0 .. Slots(f) - 1 |-> f.a[i]]
  /\ f.size \in 0 .. Slots(f) /\ f.front \in 0 .. Slots(f) - 1 /\ f.last \in -1 .. Slots(f) - 1
FieldsGood(f) ==
  /\ FieldsType(f)
  /\ Wrap(f, f.last + 1) = Place(f, f.size) /\ (f.size > 0 => f.last >= 0)
  /\ \A i \in 0 .. Slots(f) - 1 : IF i < f.size THEN Item(f, i) \in Elements ELSE Item(f, i) = Null

QueueIInv == FieldsGood(Array!Fields)

LEMMA Wraps == ASSUME NEW n \in Nat \ {0}, NEW x \in 0 .. 2 * n - 1 PROVE x % n = IF x < n THEN x ELSE x - n
<1>1. CASE x < n
  BY <1>1
<1>2. CASE ~(x < n)
  BY <1>2
<1> QED BY <1>1, <1>2

LEMMA SlotCount ==
  ASSUME NEW f, NEW n \in Nat \ {0}, DOMAIN f.a = 0 .. n - 1
  PROVE  Slots(f) = n
<1>1. Cardinality(0 .. n - 1) = n
  BY FS_Interval
<1> QED BY <1>1 DEF Slots, Array!Length, Array!Cardinality, Cardinality

(* A full array is copied so that front is at 0, with as many free slots.    *)
LEMMA Grown ==
  ASSUME NEW f, FieldsGood(f), f.size = Slots(f),
         NEW g, g = Array!ensureCapacity(f)
  PROVE  FieldsGood(g) /\ g.size = f.size /\ Slots(g) = 2 * Slots(f) /\ \A i \in 0 .. f.size - 1 : Item(g, i) = Item(f, i)
<1> DEFINE n == Slots(f)
           b == [i \in 0 .. 2 * n - 1 |->
                   IF i < n - f.front THEN f.a[f.front + i]
                   ELSE IF i < n - f.front + f.front THEN f.a[i - (n - f.front)] ELSE Null]
<1>0. n \in Nat \ {0} /\ f.size = n /\ f.front \in 0 .. n - 1
  BY DEF FieldsGood, FieldsType
<1>1. g = [a |-> b, size |-> n, front |-> 0, last |-> n - 1]
  <2>1. f.size - n + f.front = f.front /\ ~(f.front < 0)
    BY <1>0
  <2>2. g = [f EXCEPT !.a = b, !.front = 0, !.last = n - 1]
    BY <1>0, <2>1 DEF Array!ensureCapacity, Slots
  <2>3. f = [a |-> f.a, size |-> f.size, front |-> f.front, last |-> f.last]
    BY DEF FieldsGood, FieldsType
  <2> HIDE DEF b
  <2> QED BY <1>0, <2>2, <2>3
<1>a. g.a = b /\ g.size = n /\ g.front = 0 /\ g.last = n - 1 /\ g = [a |-> g.a, size |-> g.size, front |-> g.front, last |-> g.last]
  <2> HIDE DEF b
  <2> QED BY <1>1
<1>b. DOMAIN g.a = 0 .. 2 * n - 1 /\ 2 * n \in Nat \ {0}
  BY <1>0, <1>a
<1>c. g.a = [i \in 0 .. 2 * n - 1 |-> g.a[i]]
  BY <1>a
<1>2. Slots(g) = 2 * n
  BY <1>b, SlotCount
<1>3. \A i \in 0 .. 2 * n - 1 : Item(g, i) = b[i]
  <2> HIDE DEF b
  <2> QED BY <1>0, <1>a, <1>2 DEF Item, Place, Wrap
<1>4. \A i \in 0 .. n - 1 : b[i] = Item(f, i)
  BY <1>0 DEF Item, Place, Wrap
<1>5. \A i \in n .. 2 * n - 1 : b[i] = Null
  BY <1>0
<1>6. \A i \in 0 .. n - 1 : Item(f, i) \in Elements
  BY <1>0 DEF FieldsGood
<1> HIDE DEF n, b
<1>7. FieldsType(g)
  BY <1>0, <1>a, <1>b, <1>c, <1>2 DEF FieldsType
<1>8. Wrap(g, g.last + 1) = Place(g, g.size) /\ (g.size > 0 => g.last >= 0)
  BY <1>0, <1>a, <1>2 DEF Wrap, Place
<1>9. \A i \in 0 .. 2 * n - 1 : IF i < n THEN Item(g, i) \in Elements ELSE Item(g, i) = Null
  <2> SUFFICES ASSUME NEW i \in 0 .. 2 * n - 1 PROVE IF i < n THEN Item(g, i) \in Elements ELSE Item(g, i) = Null
    OBVIOUS
  <2>1. CASE i < n
    <3>1. i \in 0 .. n - 1
      BY <1>0, <2>1
    <3> QED BY <1>3, <1>4, <1>6, <2>1, <3>1
  <2>2. CASE ~(i < n)
    <3>1. i \in n .. 2 * n - 1
      BY <1>0, <2>2
    <3> QED BY <1>3, <1>5, <2>2, <3>1
  <2> QED BY <2>1, <2>2
<1>10. FieldsGood(g)
  BY <1>a, <1>2, <1>7, <1>8, <1>9 DEF FieldsGood
<1>11. \A i \in 0 .. f.size - 1 : Item(g, i) = Item(f, i)
  <2> SUFFICES ASSUME NEW i \in 0 .. n - 1 PROVE Item(g, i) = Item(f, i)
    BY <1>0
  <2>1. i \in 0 .. 2 * n - 1
    BY <1>0
  <2> QED BY <1>3, <1>4, <2>1
<1>12. g.size = f.size
  BY <1>0, <1>a
<1> QED BY <1>2, <1>10, <1>11, <1>12 DEF n

LEMMA EnqueuedIs ==
  ASSUME NEW f, FieldsGood(f), NEW e \in Elements,
         NEW g, g = Array!Enqueued(f, e)
  PROVE  FieldsGood(g) /\ g.size = f.size + 1 /\ Item(g, f.size) = e /\ \A i \in 0 .. f.size - 1 : Item(g, i) = Item(f, i)
<1> DEFINE h == IF f.size = Slots(f) THEN Array!ensureCapacity(f) ELSE f
           n == Slots(h)
           at == Wrap(h, h.last + 1)
<1>1. FieldsGood(h) /\ h.size = f.size /\ h.size < n /\ \A i \in 0 .. f.size - 1 : Item(h, i) = Item(f, i)
  <2>1. f.size \in 0 .. Slots(f) /\ Slots(f) \in Nat \ {0}
    BY DEF FieldsGood, FieldsType
  <2>2. CASE f.size = Slots(f)
    <3>1. h = Array!ensureCapacity(f)
      BY <2>2
    <3> HIDE DEF h
    <3>2. FieldsGood(h) /\ h.size = f.size /\ n = 2 * Slots(f) /\ \A i \in 0 .. f.size - 1 : Item(h, i) = Item(f, i)
      BY <2>2, <3>1, Grown
    <3> QED BY <2>1, <2>2, <3>2
  <2>3. CASE f.size # Slots(f)
    <3>1. h = f
      BY <2>3
    <3> HIDE DEF h
    <3> QED BY <2>1, <2>3, <3>1
  <2> QED BY <2>2, <2>3
<1>2. g = [h EXCEPT !.a[(h.last + 1) % n] = e, !.last = (h.last + 1) % n, !.size = @ + 1]
  BY DEF Array!Enqueued, Slots
<1> HIDE DEF h
<1>a. /\ h = [a |-> h.a, size |-> h.size, front |-> h.front, last |-> h.last]
      /\ n \in Nat \ {0} /\ h.front \in 0 .. n - 1 /\ h.size \in 0 .. n - 1 /\ at = Place(h, h.size) /\ h.last \in -1 .. n - 1
      /\ h.a = [i \in 0 .. n - 1 |-> h.a[i]]
  BY <1>1 DEF FieldsGood, FieldsType
<1> HIDE DEF n
<1>b. at \in 0 .. n - 1
  BY <1>a DEF Place, Wrap, n
<1>c. (h.last + 1) % n = at
  <2>1. h.last + 1 \in 0 .. 2 * n - 1
    BY <1>a
  <2> QED BY <1>a, <2>1, Wraps DEF Wrap, n
<1> HIDE DEF at
<1>3. g.a = [h.a EXCEPT ![at] = e] /\ g.size = h.size + 1 /\ g.front = h.front /\ g.last = at
      /\ g = [a |-> g.a, size |-> g.size, front |-> g.front, last |-> g.last]
  BY <1>2, <1>a, <1>c
<1>d. DOMAIN g.a = 0 .. n - 1 /\ g.a = [i \in 0 .. n - 1 |-> g.a[i]]
  <2> DEFINE A == h.a
  <2>1. A = [i \in 0 .. n - 1 |-> A[i]] /\ g.a = [A EXCEPT ![at] = e]
    BY <1>3, <1>a
  <2> HIDE DEF A
  <2> QED BY <2>1
<1>4. Slots(g) = n
  BY <1>a, <1>d, SlotCount
<1>5. \A i \in 0 .. n : Place(g, i) = Place(h, i)
  BY <1>3, <1>4 DEF Place, Wrap, n
<1>6. \A i \in 0 .. n - 1 : Item(g, i) = IF i = h.size THEN e ELSE Item(h, i)
  <2> SUFFICES ASSUME NEW i \in 0 .. n - 1 PROVE Item(g, i) = IF i = h.size THEN e ELSE Item(h, i)
    OBVIOUS
  <2>1. Place(h, i) \in 0 .. n - 1 /\ (Place(h, i) = at <=> i = h.size)
    BY <1>a DEF Place, Wrap, n
  <2>2. DOMAIN h.a = 0 .. n - 1 /\ Item(g, i) = g.a[Place(h, i)]
    BY <1>a, <1>5 DEF Item
  <2>3. g.a[Place(h, i)] = IF Place(h, i) = at THEN e ELSE h.a[Place(h, i)]
    BY <1>3, <2>1, <2>2
  <2> QED BY <2>1, <2>2, <2>3 DEF Item
<1>7. FieldsType(g)
  <2>1. g.size \in 0 .. n /\ g.front \in 0 .. n - 1 /\ g.last \in -1 .. n - 1
    BY <1>a, <1>b, <1>3
  <2> QED BY <1>a, <1>3, <1>4, <1>d, <2>1 DEF FieldsType
<1>8. Wrap(g, g.last + 1) = Place(g, g.size) /\ (g.size > 0 => g.last >= 0)
  <2>1. at = IF h.front + h.size < n THEN h.front + h.size ELSE h.front + h.size - n
    BY <1>a DEF Place, Wrap, n
  <2>2. Wrap(g, g.last + 1) = IF at + 1 < n THEN at + 1 ELSE at + 1 - n
    <3>1. g.last = at
      BY <1>3
    <3> QED BY <1>4, <3>1, <1>a, <1>b DEF Wrap
  <2>3. Place(g, g.size) = IF h.front + (h.size + 1) < n THEN h.front + (h.size + 1) ELSE h.front + (h.size + 1) - n
    <3>1. g.front = h.front /\ g.size = h.size + 1
      BY <1>3
    <3> QED BY <1>4, <3>1, <1>a DEF Place, Wrap
  <2> QED BY <1>a, <1>b, <1>3, <2>1, <2>2, <2>3, SMTT(60)
<1>9. \A i \in 0 .. n - 1 : IF i < h.size + 1 THEN Item(g, i) \in Elements ELSE Item(g, i) = Null
  <2>1. \A i \in 0 .. n - 1 : IF i < h.size THEN Item(h, i) \in Elements ELSE Item(h, i) = Null
    BY <1>1 DEF FieldsGood, n
  <2> QED BY <1>a, <1>6, <2>1
<1>10. FieldsGood(g)
  BY <1>3, <1>4, <1>7, <1>8, <1>9 DEF FieldsGood
<1>11. Item(g, h.size) = e /\ \A i \in 0 .. h.size - 1 : Item(g, i) = Item(h, i)
  BY <1>a, <1>6
<1> QED BY <1>1, <1>3, <1>10, <1>11

LEMMA DequeuedIs ==
  ASSUME NEW f, FieldsGood(f), f.size > 0,
         NEW g, g = Array!Dequeued(f)
  PROVE  FieldsGood(g) /\ g.size = f.size - 1 /\ \A i \in 0 .. f.size - 2 : Item(g, i) = Item(f, i + 1)
<1> DEFINE n == Slots(f)
           next == Wrap(f, f.front + 1)
<1>1. /\ n \in Nat \ {0} /\ f.front \in 0 .. n - 1 /\ f.size \in 1 .. n
      /\ f.a = [i \in 0 .. n - 1 |-> f.a[i]] /\ f.last \in 0 .. n - 1 /\ Wrap(f, f.last + 1) = Place(f, f.size)
      /\ f = [a |-> f.a, size |-> f.size, front |-> f.front, last |-> f.last]
  BY DEF FieldsGood, FieldsType
<1>2. g = [f EXCEPT !.a[f.front] = Null, !.front = (@ + 1) % n, !.size = @ - 1]
  BY DEF Array!Dequeued, Slots
<1>0. \A i \in 0 .. n - 1 : IF i < f.size THEN Item(f, i) \in Elements ELSE Item(f, i) = Null
  BY DEF FieldsGood
<1> HIDE DEF n
<1>a. next \in 0 .. n - 1 /\ next = IF f.front + 1 < n THEN f.front + 1 ELSE f.front + 1 - n
  BY <1>1 DEF Wrap, n
<1>b. (f.front + 1) % n = next
  <2>1. f.front + 1 \in 0 .. 2 * n - 1
    BY <1>1
  <2> QED BY <1>1, <2>1, Wraps DEF Wrap, n
<1> HIDE DEF next
<1>3. g.a = [f.a EXCEPT ![f.front] = Null] /\ g.size = f.size - 1 /\ g.front = next /\ g.last = f.last
      /\ g = [a |-> g.a, size |-> g.size, front |-> g.front, last |-> g.last]
  BY <1>1, <1>2, <1>b
<1>c. DOMAIN g.a = 0 .. n - 1 /\ g.a = [i \in 0 .. n - 1 |-> g.a[i]] /\ DOMAIN f.a = 0 .. n - 1
  <2> DEFINE A == f.a
  <2>1. A = [i \in 0 .. n - 1 |-> A[i]] /\ g.a = [A EXCEPT ![f.front] = Null]
    BY <1>1, <1>3
  <2> HIDE DEF A
  <2>2. DOMAIN A = 0 .. n - 1
    BY <2>1
  <2>3. DOMAIN g.a = 0 .. n - 1 /\ g.a = [i \in 0 .. n - 1 |-> g.a[i]]
    BY <2>1
  <2> QED BY <2>2, <2>3 DEF A
<1>d. Slots(g) = n
  BY <1>1, <1>c, SlotCount
<1>e. \A i \in 0 .. n : Place(f, i) = IF f.front + i < n THEN f.front + i ELSE f.front + i - n
  <2> SUFFICES ASSUME NEW i \in 0 .. n PROVE Place(f, i) = IF f.front + i < n THEN f.front + i ELSE f.front + i - n
    OBVIOUS
  <2> QED BY <1>1 DEF Place, Wrap, n
<1>f. \A i \in 0 .. n : Place(g, i) = IF next + i < n THEN next + i ELSE next + i - n
  <2>1. g.front = next
    BY <1>3
  <2> SUFFICES ASSUME NEW i \in 0 .. n PROVE Place(g, i) = IF next + i < n THEN next + i ELSE next + i - n
    OBVIOUS
  <2> QED BY <1>1, <1>a, <1>d, <2>1, SMTT(60) DEF Place, Wrap
<1>g. n \in Nat \ {0} /\ f.front \in 0 .. n - 1
  BY <1>1
<1>5. \A i \in 0 .. n - 1 : Item(g, i) = IF i = n - 1 THEN Null ELSE Item(f, i + 1)
  <2> SUFFICES ASSUME NEW i \in 0 .. n - 1 PROVE Item(g, i) = IF i = n - 1 THEN Null ELSE Item(f, i + 1)
    OBVIOUS
  <2>1. CASE i = n - 1
    <3>1. Place(g, i) = f.front
      <4>1. i \in 0 .. n /\ Place(g, i) = IF next + i < n THEN next + i ELSE next + i - n
        BY <1>1, <1>f
      <4> QED BY <1>g, <1>a, <2>1, <4>1
    <3> QED BY <1>1, <1>3, <1>c, <2>1, <3>1 DEF Item
  <2>2. CASE i # n - 1
    <3>1. Place(g, i) = Place(f, i + 1) /\ Place(f, i + 1) \in 0 .. n - 1 /\ Place(f, i + 1) # f.front
      <4>1. i + 1 \in 0 .. n /\ i \in 0 .. n
        BY <1>1, <2>2
      <4>2. Place(g, i) = IF next + i < n THEN next + i ELSE next + i - n
        BY <1>f, <4>1
      <4>3. Place(f, i + 1) = IF f.front + (i + 1) < n THEN f.front + (i + 1) ELSE f.front + (i + 1) - n
        BY <1>e, <4>1
      <4> QED BY <1>g, <1>a, <2>2, <4>2, <4>3
    <3>2. g.a[Place(f, i + 1)] = f.a[Place(f, i + 1)]
      BY <1>3, <1>c, <3>1
    <3> QED BY <2>2, <3>1, <3>2 DEF Item
  <2> QED BY <2>1, <2>2
<1>6. FieldsType(g)
  <2>1. g.size \in 0 .. n /\ g.front \in 0 .. n - 1 /\ g.last \in -1 .. n - 1
    BY <1>1, <1>a, <1>3
  <2> QED BY <1>1, <1>3, <1>d, <1>c, <2>1 DEF FieldsType
<1>7. Wrap(g, g.last + 1) = Place(g, g.size) /\ (g.size > 0 => g.last >= 0)
  <2>1. Wrap(g, g.last + 1) = Wrap(f, f.last + 1)
    BY <1>3, <1>d DEF Wrap, n
  <2>2. f.size \in 0 .. n /\ g.size \in 0 .. n
    BY <1>1, <1>3
  <2>3. Place(f, f.size) = IF f.front + f.size < n THEN f.front + f.size ELSE f.front + f.size - n
    BY <1>e, <2>2
  <2>4. Place(g, g.size) = IF next + g.size < n THEN next + g.size ELSE next + g.size - n
    BY <1>f, <2>2
  <2>5. Place(g, g.size) = Place(f, f.size)
    BY <1>1, <1>a, <1>3, <2>3, <2>4, SMTT(60)
  <2> QED BY <1>1, <1>3, <2>1, <2>5
<1>8. \A i \in 0 .. n - 1 : IF i < f.size - 1 THEN Item(g, i) \in Elements ELSE Item(g, i) = Null
  <2> SUFFICES ASSUME NEW i \in 0 .. n - 1 PROVE IF i < f.size - 1 THEN Item(g, i) \in Elements ELSE Item(g, i) = Null
    OBVIOUS
  <2>1. CASE i = n - 1
    BY <1>1, <1>5, <2>1
  <2>2. CASE i # n - 1
    <3>1. i + 1 \in 0 .. n - 1 /\ (i + 1 < f.size <=> i < f.size - 1) /\ Item(g, i) = Item(f, i + 1)
      BY <1>1, <1>5, <2>2, SMTT(60)
    <3> QED BY <1>0, <3>1
  <2> QED BY <2>1, <2>2
<1>9. FieldsGood(g)
  BY <1>3, <1>d, <1>6, <1>7, <1>8 DEF FieldsGood
<1>10. \A i \in 0 .. f.size - 2 : Item(g, i) = Item(f, i + 1)
  BY <1>1, <1>5
<1> QED BY <1>3, <1>9, <1>10

(* The fields of a new queue.                                                *)
LEMMA EmptyGood ==
  ASSUME NEW f, f = [a |-> [i \in {0} |-> Null], size |-> 0, front |-> 0, last |-> -1]
  PROVE  FieldsGood(f)
<1>1. f.a = [i \in {0} |-> Null] /\ f.size = 0 /\ f.front = 0 /\ f.last = -1
      /\ f = [a |-> f.a, size |-> f.size, front |-> f.front, last |-> f.last]
  OBVIOUS
<1>2. 0 .. 0 = {0}
  OBVIOUS
<1>3. Slots(f) = 1
  <2>1. DOMAIN f.a = 0 .. 1 - 1 /\ 1 \in Nat \ {0}
    BY <1>1, <1>2
  <2> QED BY <2>1, SlotCount
<1>4. f.a = [i \in 0 .. 1 - 1 |-> f.a[i]]
  BY <1>1, <1>2
<1>5. Item(f, 0) = Null
  BY <1>1, <1>3 DEF Item, Place, Wrap
<1>6. Wrap(f, f.last + 1) = Place(f, f.size)
  BY <1>1, <1>3 DEF Place, Wrap
<1>7. FieldsType(f)
  BY <1>1, <1>3, <1>4 DEF FieldsType
<1>8. \A i \in 0 .. Slots(f) - 1 : IF i < f.size THEN Item(f, i) \in Elements ELSE Item(f, i) = Null
  BY <1>1, <1>3, <1>5
<1> QED BY <1>1, <1>6, <1>7, <1>8 DEF FieldsGood

(* The elements of the queue, as its interface counts them: a[1] .. a[n].    *)
Listing(f) == [i \in 1 .. f.size |-> Item(f, i - 1)]

LEMMA ListingType ==
  ASSUME NEW f, FieldsGood(f)
  PROVE  /\ f.size \in Nat /\ Listing(f) \in Seq(Elements) /\ Len(Listing(f)) = f.size
         /\ \A i \in 1 .. f.size : Listing(f)[i] = Item(f, i - 1) /\ Listing(f)[i] \in Elements
<1>1. f.size \in Nat /\ Slots(f) \in Nat /\ f.size <= Slots(f)
  BY DEF FieldsGood, FieldsType
<1>2. \A i \in 1 .. f.size : Item(f, i - 1) \in Elements
  <2> SUFFICES ASSUME NEW i \in 1 .. f.size PROVE Item(f, i - 1) \in Elements
    OBVIOUS
  <2>1. i - 1 \in 0 .. Slots(f) - 1 /\ i - 1 < f.size
    BY <1>1
  <2> QED BY <2>1 DEF FieldsGood
<1>3. Listing(f) \in [1 .. f.size -> Elements]
  BY <1>2 DEF Listing
<1> QED BY <1>1, <1>2, <1>3 DEF Listing

LEMMA EnqueuedListing ==
  ASSUME NEW f, FieldsGood(f), NEW e \in Elements, NEW g, g = Array!Enqueued(f, e)
  PROVE  FieldsGood(g) /\ Listing(g) = Append(Listing(f), e)
<1>1. FieldsGood(g) /\ g.size = f.size + 1 /\ Item(g, f.size) = e /\ \A i \in 0 .. f.size - 1 : Item(g, i) = Item(f, i)
  BY EnqueuedIs
<1> DEFINE s == Listing(f)
           t == Listing(g)
           u == Append(s, e)
<1>2. s \in Seq(Elements) /\ Len(s) = f.size /\ f.size \in Nat /\ \A i \in 1 .. f.size : s[i] = Item(f, i - 1)
  BY ListingType
<1>3. t \in Seq(Elements) /\ Len(t) = f.size + 1 /\ \A i \in 1 .. f.size + 1 : t[i] = Item(g, i - 1)
  BY <1>1, ListingType
<1> HIDE DEF s, t
<1>4. u \in Seq(Elements) /\ Len(u) = f.size + 1 /\ u[f.size + 1] = e /\ \A i \in 1 .. f.size : u[i] = s[i]
  BY <1>2, AppendProperties
<1> HIDE DEF u
<1>5. \A i \in 1 .. Len(t) : t[i] = u[i]
  <2> SUFFICES ASSUME NEW i \in 1 .. f.size + 1 PROVE t[i] = u[i]
    BY <1>3
  <2>1. CASE i = f.size + 1
    BY <1>1, <1>2, <1>3, <1>4, <2>1
  <2>2. CASE i # f.size + 1
    <3>1. i \in 1 .. f.size /\ i - 1 \in 0 .. f.size - 1
      BY <1>2, <2>2
    <3> QED BY <1>1, <1>2, <1>3, <1>4, <3>1
  <2> QED BY <2>1, <2>2
<1>6. t = u
  BY <1>3, <1>4, <1>5, SeqEqual
<1> QED BY <1>1, <1>6 DEF s, t, u

LEMMA DequeuedListing ==
  ASSUME NEW f, FieldsGood(f), f.size > 0, NEW g, g = Array!Dequeued(f)
  PROVE  /\ FieldsGood(g) /\ Listing(f) # <<>> /\ Listing(g) = Tail(Listing(f))
         /\ f.a[f.front] = Head(Listing(f)) /\ f.a[f.front] = Item(f, 0) /\ Item(f, 0) \in Elements
<1>1. FieldsGood(g) /\ g.size = f.size - 1 /\ \A i \in 0 .. f.size - 2 : Item(g, i) = Item(f, i + 1)
  BY DequeuedIs
<1> DEFINE s == Listing(f)
           t == Listing(g)
           u == Tail(s)
<1>2. s \in Seq(Elements) /\ Len(s) = f.size /\ f.size \in Nat \ {0} /\ \A i \in 1 .. f.size : s[i] = Item(f, i - 1) /\ s[i] \in Elements
  BY ListingType
<1>3. t \in Seq(Elements) /\ Len(t) = f.size - 1 /\ \A i \in 1 .. f.size - 1 : t[i] = Item(g, i - 1)
  BY <1>1, ListingType
<1> HIDE DEF s, t
<1>4. s # <<>> /\ Head(s) = s[1] /\ s[1] = Item(f, 0) /\ s[1] \in Elements
  BY <1>2
<1>5. u \in Seq(Elements) /\ Len(u) = f.size - 1 /\ \A i \in 1 .. f.size - 1 : u[i] = s[i + 1]
  BY <1>2, <1>4, HeadTailProperties
<1> HIDE DEF u
<1>6. \A i \in 1 .. Len(t) : t[i] = u[i]
  <2> SUFFICES ASSUME NEW i \in 1 .. f.size - 1 PROVE t[i] = u[i]
    BY <1>3
  <2>1. i - 1 \in 0 .. f.size - 2 /\ i + 1 \in 1 .. f.size /\ (i - 1) + 1 = i /\ (i + 1) - 1 = i
    BY <1>2
  <2> QED BY <1>1, <1>2, <1>3, <1>5, <2>1
<1>7. t = u
  BY <1>3, <1>5, <1>6, SeqEqual
<1>8. f.a[f.front] = Item(f, 0)
  <2>1. f.front \in 0 .. Slots(f) - 1 /\ Slots(f) \in Nat
    BY DEF FieldsGood, FieldsType
  <2> QED BY <2>1 DEF Item, Place, Wrap
<1> QED BY <1>1, <1>4, <1>7, <1>8 DEF s, t, u

(* The rounds of distinct's loop.                                            *)
IsRounds(g, f, N) ==
  g = [i \in 0 .. N |-> IF i = 0 THEN [f |-> f, set |-> {}] ELSE Array!round(g[i - 1])]

LEMMA RoundsExist == ASSUME NEW f, NEW N \in Nat PROVE \E g : IsRounds(g, f, N)
<1> DEFINE T == {k \in Nat : ~\E g : IsRounds(g, f, k)}
<1>1. ASSUME NEW k \in T PROVE \E m \in T : m < k
  <2>1. k # 0
    <3> DEFINE g == [i \in 0 .. 0 |-> [f |-> f, set |-> {}]]
    <3>1. g = [i \in 0 .. 0 |-> IF i = 0 THEN [f |-> f, set |-> {}] ELSE Array!round(g[i - 1])]
      OBVIOUS
    <3> HIDE DEF g
    <3>2. IsRounds(g, f, 0)
      BY <3>1 DEF IsRounds
    <3> QED BY <3>2
  <2>2. k - 1 \in Nat
    BY <2>1
  <2>3. ASSUME NEW g, IsRounds(g, f, k - 1) PROVE FALSE
    <3> DEFINE h == [i \in 0 .. k |-> IF i = k THEN Array!round(g[k - 1]) ELSE g[i]]
    <3>1. \A i \in 0 .. k - 1 : g[i] = IF i = 0 THEN [f |-> f, set |-> {}] ELSE Array!round(g[i - 1])
      BY <2>3 DEF IsRounds
    <3>2. \A i \in 0 .. k : h[i] = IF i = 0 THEN [f |-> f, set |-> {}] ELSE Array!round(h[i - 1])
      <4> SUFFICES ASSUME NEW i \in 0 .. k PROVE h[i] = IF i = 0 THEN [f |-> f, set |-> {}] ELSE Array!round(h[i - 1])
        OBVIOUS
      <4>1. CASE i = k
        <5>1. h[i] = Array!round(g[k - 1]) /\ h[i - 1] = g[k - 1]
          BY <2>1, <2>2, <4>1
        <5> HIDE DEF h
        <5> QED BY <2>1, <4>1, <5>1
      <4>2. CASE i # k
        <5>1. i \in 0 .. k - 1 /\ h[i] = g[i] /\ (i # 0 => h[i - 1] = g[i - 1])
          BY <2>1, <2>2, <4>2
        <5> HIDE DEF h
        <5> QED BY <3>1, <5>1
      <4> QED BY <4>1, <4>2
    <3>3. h = [i \in 0 .. k |-> h[i]]
      OBVIOUS
    <3> HIDE DEF h
    <3>4. h = [i \in 0 .. k |-> IF i = 0 THEN [f |-> f, set |-> {}] ELSE Array!round(h[i - 1])]
      BY <3>2, <3>3
    <3>5. IsRounds(h, f, k)
      BY <3>4 DEF IsRounds
    <3> QED BY <3>5
  <2>4. k - 1 \in T /\ k - 1 < k
    BY <2>2, <2>3
  <2> QED BY <2>4
<1>2. T \in SUBSET Nat
  OBVIOUS
<1> HIDE DEF T
<1>3. T = {}
  BY <1>1, <1>2, NoDescent
<1> QED BY <1>3 DEF T

LEMMA RoundsAre == ASSUME size \in Nat PROVE IsRounds(Array!rounds, Array!Fields, size)
<1>1. \E g : g = [i \in 0 .. size |-> IF i = 0 THEN [f |-> Array!Fields, set |-> {}] ELSE Array!round(g[i - 1])]
  BY RoundsExist DEF IsRounds
<1>2. Array!rounds = [i \in 0 .. size |-> IF i = 0 THEN [f |-> Array!Fields, set |-> {}] ELSE Array!round(Array!rounds[i - 1])]
  BY <1>1 DEF Array!rounds
<1> QED BY <1>2 DEF IsRounds

(* Of the first i elements of s, those that no earlier one equals, and their *)
(* number: the place of the last of them among what distinct leaves.         *)
Firsts(s)  == {i \in DOMAIN s : \A j \in 1 .. i - 1 : s[j] # s[i]}
Rank(s, i) == Cardinality(Firsts(s) \intersect (1 .. i))

LEMMA Ranks ==
  ASSUME NEW s \in Seq(Elements)
  PROVE  /\ Rank(s, 0) = 0 /\ Rank(s, Len(s)) = Cardinality(Firsts(s))
         /\ \A i \in 0 .. Len(s) : Rank(s, i) \in Nat
         /\ \A i \in 0 .. Len(s) - 1 : Rank(s, i + 1) = IF i + 1 \in Firsts(s) THEN Rank(s, i) + 1 ELSE Rank(s, i)
         /\ \A i \in 0 .. Len(s) : \A k \in Firsts(s) \intersect (1 .. i) : Rank(s, k) \in 1 .. Rank(s, i)
<1> DEFINE F == Firsts(s)
           N == Len(s)
<1>1. N \in Nat /\ F \subseteq 1 .. N
  BY DEF Firsts
<1> HIDE DEF F, N
<1>2. \A i \in 0 .. N : IsFiniteSet(F \intersect (1 .. i)) /\ Cardinality(F \intersect (1 .. i)) \in Nat
  <2> SUFFICES ASSUME NEW i \in 0 .. N PROVE IsFiniteSet(F \intersect (1 .. i)) /\ Cardinality(F \intersect (1 .. i)) \in Nat
    OBVIOUS
  <2>1. IsFiniteSet(1 .. i)
    BY <1>1, FS_Interval
  <2>2. IsFiniteSet(F \intersect (1 .. i))
    BY <2>1, FS_Subset
  <2> QED BY <2>2, FS_CardinalityType
<1>3. F \intersect (1 .. 0) = {} /\ F \intersect (1 .. N) = F
  <2>1. 1 .. 0 = {}
    OBVIOUS
  <2>2. F \intersect (1 .. N) = F
    BY <1>1
  <2> QED BY <2>1, <2>2
<1>4. \A i \in 0 .. N - 1 : F \intersect (1 .. i + 1) = IF i + 1 \in F THEN (F \intersect (1 .. i)) \union {i + 1} ELSE F \intersect (1 .. i)
  BY <1>1
<1>5. \A i \in 0 .. N - 1 : Rank(s, i + 1) = IF i + 1 \in F THEN Rank(s, i) + 1 ELSE Rank(s, i)
  <2> SUFFICES ASSUME NEW i \in 0 .. N - 1 PROVE Rank(s, i + 1) = IF i + 1 \in F THEN Rank(s, i) + 1 ELSE Rank(s, i)
    OBVIOUS
  <2> DEFINE A == F \intersect (1 .. i)
  <2>1. IsFiniteSet(A) /\ i + 1 \notin A
    BY <1>1, <1>2
  <2>2. Rank(s, i) = Cardinality(A) /\ Rank(s, i + 1) = Cardinality(F \intersect (1 .. i + 1))
    BY DEF Rank, F
  <2>3. F \intersect (1 .. i + 1) = IF i + 1 \in F THEN A \union {i + 1} ELSE A
    BY <1>4
  <2> HIDE DEF A
  <2>4. Cardinality(A \union {i + 1}) = Cardinality(A) + 1
    BY <2>1, FS_AddElement
  <2> QED BY <2>2, <2>3, <2>4
<1>6. \A i \in 0 .. N : \A k \in F \intersect (1 .. i) : Rank(s, k) \in 1 .. Rank(s, i)
  <2> SUFFICES ASSUME NEW i \in 0 .. N, NEW k \in F \intersect (1 .. i) PROVE Rank(s, k) \in 1 .. Rank(s, i)
    OBVIOUS
  <2> DEFINE A == F \intersect (1 .. i)
             B == F \intersect (1 .. k)
  <2>1. IsFiniteSet(A) /\ IsFiniteSet(B) /\ Cardinality(A) \in Nat /\ Cardinality(B) \in Nat 
    <3>1. i \in 0 .. N /\ k \in 0 .. N
      BY <1>1
    <3> QED BY <1>2, <3>1
  <2>a. B \subseteq A /\ k \in B
    BY <1>1
  <2>2. Rank(s, i) = Cardinality(A) /\ Rank(s, k) = Cardinality(B)
    BY DEF Rank, F
  <2> HIDE DEF A, B
  <2>3. Cardinality(B) <= Cardinality(A) /\ Cardinality(B) # 0
    BY <2>1, <2>a, FS_Subset, FS_EmptySet
  <2> QED BY <2>1, <2>2, <2>3
<1> QED BY <1>2, <1>3, <1>5, <1>6, FS_EmptySet DEF Rank, F, N

(* After i rounds the elements to come are first, then the first of equal    *)
(* ones among those that are done, which are the set's.                      *)
RoundGood(r, s, i) ==
  /\ FieldsGood(r.f) /\ r = [f |-> r.f, set |-> r.set]
  /\ r.f.size = Len(s) - i + Rank(s, i)
  /\ \A j \in 0 .. Len(s) - i - 1 : Item(r.f, j) = s[i + j + 1]
  /\ \A k \in Firsts(s) \intersect (1 .. i) : Item(r.f, Len(s) - i + Rank(s, k) - 1) = s[k]
  /\ r.set = {s[k] : k \in 1 .. i}

LEMMA RoundNext ==
  ASSUME NEW s \in Seq(Elements), NEW i \in 0 .. Len(s) - 1, NEW r, RoundGood(r, s, i), NEW t, t = Array!round(r)
  PROVE  RoundGood(t, s, i + 1)
<1> DEFINE N == Len(s)
           F == Firsts(s)
           d == Array!Dequeued(r.f)
           e == r.f.a[r.f.front]
           q == Array!Enqueued(d, e)
<1>1. N \in Nat /\ i \in 0 .. N - 1 /\ \A k \in 1 .. N : s[k] \in Elements
  OBVIOUS
<1>2. /\ FieldsGood(r.f) /\ r = [f |-> r.f, set |-> r.set] /\ r.f.size = N - i + Rank(s, i)
      /\ \A j \in 0 .. N - i - 1 : Item(r.f, j) = s[i + j + 1]
      /\ \A k \in F \intersect (1 .. i) : Item(r.f, N - i + Rank(s, k) - 1) = s[k]
      /\ r.set = {s[k] : k \in 1 .. i}
  BY DEF RoundGood
<1>3. /\ Rank(s, i) \in Nat
      /\ Rank(s, i + 1) = IF i + 1 \in F THEN Rank(s, i) + 1 ELSE Rank(s, i)
      /\ \A k \in F \intersect (1 .. i) : Rank(s, k) \in 1 .. Rank(s, i)
  BY <1>1, Ranks
<1>4. i + 1 \in F <=> s[i + 1] \notin {s[k] : k \in 1 .. i}
  BY <1>1 DEF Firsts
<1>5. F \intersect (1 .. i + 1) = IF i + 1 \in F THEN (F \intersect (1 .. i)) \union {i + 1} ELSE F \intersect (1 .. i)
  BY <1>1
<1>t. t = IF e \in r.set THEN [r EXCEPT !.f = d] ELSE [f |-> q, set |-> r.set \union {e}]
  BY DEF Array!round
<1> HIDE DEF N, F, d, q
<1>6. r.f.size > 0
  BY <1>1, <1>2, <1>3
<1>7. e = s[i + 1] /\ e \in Elements
  <2>1. e = Item(r.f, 0) /\ e \in Elements
    BY <1>2, <1>6, DequeuedListing
  <2>2. Item(r.f, 0) = s[i + 1]
    <3>1. 0 \in 0 .. N - i - 1 /\ i + 0 + 1 = i + 1
      BY <1>1
    <3> QED BY <1>2, <3>1
  <2> QED BY <2>1, <2>2
<1> HIDE DEF e
<1>8. FieldsGood(d) /\ d.size = r.f.size - 1 /\ \A j \in 0 .. r.f.size - 2 : Item(d, j) = Item(r.f, j + 1)
  BY <1>2, <1>6, DequeuedIs DEF d
<1>s. r.f.size = N - i + Rank(s, i) /\ d.size = N - i + Rank(s, i) - 1 /\ Rank(s, i) \in Nat
  <2>1. r.f.size = N - i + Rank(s, i)
    BY <1>2
  <2>2. d.size = r.f.size - 1
    BY <1>8
  <2>3. Rank(s, i) \in Nat
    BY <1>3
  <2> QED BY <1>1, <2>1, <2>2, <2>3
<1>r. Rank(s, i + 1) = IF i + 1 \in F THEN Rank(s, i) + 1 ELSE Rank(s, i)
  BY <1>3
<1>9. \A j \in 0 .. N - (i + 1) - 1 : j \in 0 .. d.size - 1 /\ Item(d, j) = s[(i + 1) + j + 1]
  <2> SUFFICES ASSUME NEW j \in 0 .. N - (i + 1) - 1 PROVE j \in 0 .. d.size - 1 /\ Item(d, j) = s[(i + 1) + j + 1]
    OBVIOUS
  <2>a. j \in Nat /\ j <= N - i - 2
    BY <1>1
  <2>b. j + 1 \in 0 .. N - i - 1 /\ i + (j + 1) + 1 = (i + 1) + j + 1
    BY <1>1, <2>a
  <2>1. j \in 0 .. r.f.size - 2 /\ j \in 0 .. d.size - 1
    BY <1>1, <1>s, <2>a
  <2>2. Item(d, j) = Item(r.f, j + 1)
    BY <1>8, <2>1
  <2>3. Item(r.f, j + 1) = s[i + (j + 1) + 1]
    BY <1>2, <2>b
  <2> QED BY <2>1, <2>2, <2>3, <2>b
<1>10. \A k \in F \intersect (1 .. i) : N - (i + 1) + Rank(s, k) - 1 \in 0 .. d.size - 1 /\ Item(d, N - (i + 1) + Rank(s, k) - 1) = s[k]
  <2> SUFFICES ASSUME NEW k \in F \intersect (1 .. i)
               PROVE  N - (i + 1) + Rank(s, k) - 1 \in 0 .. d.size - 1 /\ Item(d, N - (i + 1) + Rank(s, k) - 1) = s[k]
    OBVIOUS
  <2>1. Rank(s, k) \in 1 .. Rank(s, i)
    BY <1>3
  <2>2. PICK j : j = N - (i + 1) + Rank(s, k) - 1
    OBVIOUS
  <2>3. j \in 0 .. r.f.size - 2 /\ j \in 0 .. d.size - 1 /\ j + 1 = N - i + Rank(s, k) - 1
    BY <1>1, <1>s, <2>1, <2>2, SMTT(60)
  <2>4. Item(d, j) = Item(r.f, j + 1)
    BY <1>8, <2>3
  <2>5. Item(r.f, j + 1) = s[k]
    BY <1>2, <2>3
  <2> QED BY <2>2, <2>3, <2>4, <2>5
<1>11. {s[k] : k \in 1 .. i + 1} = r.set \union {e}
  <2>1. 1 .. i + 1 = (1 .. i) \union {i + 1}
    BY <1>1
  <2> QED BY <1>2, <1>7, <2>1
<1>12. CASE i + 1 \notin F
  <2>1. e \in r.set
    BY <1>2, <1>4, <1>7, <1>12
  <2>2. t = [r EXCEPT !.f = d]
    BY <1>t, <2>1
  <2>3. t.f = d /\ t.set = r.set /\ t = [f |-> t.f, set |-> t.set]
    BY <1>2, <2>2
  <2>4. t.set = {s[k] : k \in 1 .. i + 1}
    BY <1>11, <2>1, <2>3
  <2>5. t.f.size = N - (i + 1) + Rank(s, i + 1)
    <3>1. t.f.size = d.size
      BY <2>3
    <3> QED BY <1>1, <1>s, <1>r, <1>12, <3>1
  <2>6. F \intersect (1 .. i + 1) = F \intersect (1 .. i)
    BY <1>5, <1>12
  <2>7. \A k \in F \intersect (1 .. i + 1) : Item(t.f, N - (i + 1) + Rank(s, k) - 1) = s[k]
    BY <1>10, <2>3, <2>6
  <2>8. \A j \in 0 .. N - (i + 1) - 1 : Item(t.f, j) = s[(i + 1) + j + 1]
    BY <1>9, <2>3
  <2>9. FieldsGood(t.f)
    BY <1>8, <2>3
  <2> QED BY <2>3, <2>4, <2>5, <2>7, <2>8, <2>9 DEF RoundGood, N, F
<1>13. CASE i + 1 \in F
  <2>1. e \notin r.set
    BY <1>2, <1>4, <1>7, <1>13
  <2>2. t = [f |-> q, set |-> r.set \union {e}]
    BY <1>t, <2>1
  <2>3. t.f = q /\ t.set = r.set \union {e} /\ t = [f |-> t.f, set |-> t.set]
    BY <2>2
  <2>4. FieldsGood(q) /\ q.size = d.size + 1 /\ Item(q, d.size) = e /\ \A j \in 0 .. d.size - 1 : Item(q, j) = Item(d, j)
    BY <1>7, <1>8, EnqueuedIs DEF q
  <2>5. t.f.size = N - (i + 1) + Rank(s, i + 1)
    <3>1. q.size = N - (i + 1) + Rank(s, i + 1)
      <4>1. q.size = d.size + 1
        BY <2>4
      <4> QED BY <1>1, <1>s, <1>r, <1>13, <4>1
    <3> QED BY <2>3, <3>1
  <2>6. F \intersect (1 .. i + 1) = (F \intersect (1 .. i)) \union {i + 1}
    BY <1>5, <1>13
  <2>7. \A k \in F \intersect (1 .. i + 1) : Item(t.f, N - (i + 1) + Rank(s, k) - 1) = s[k]
    <3>1. N - (i + 1) + Rank(s, i + 1) - 1 = d.size
      BY <1>1, <1>s, <1>r, <1>13
    <3> SUFFICES ASSUME NEW k \in F \intersect (1 .. i + 1) PROVE Item(q, N - (i + 1) + Rank(s, k) - 1) = s[k]
      BY <2>3
    <3>2. CASE k = i + 1
      BY <1>7, <2>4, <3>1, <3>2
    <3>3. CASE k # i + 1
      <4>1. k \in F \intersect (1 .. i)
        BY <2>6, <3>3
      <4> QED BY <1>10, <2>4, <4>1
    <3> QED BY <3>2, <3>3
  <2>8. \A j \in 0 .. N - (i + 1) - 1 : Item(t.f, j) = s[(i + 1) + j + 1]
    BY <1>9, <2>3, <2>4
  <2>9. FieldsGood(t.f)
    BY <2>3, <2>4
  <2>10. t.set = {s[k] : k \in 1 .. i + 1}
    BY <1>11, <2>3
  <2> QED BY <2>3, <2>5, <2>7, <2>8, <2>9, <2>10 DEF RoundGood, N, F
<1> QED BY <1>12, <1>13

LEMMA DistinctListing ==
  ASSUME NEW f, FieldsGood(f), NEW g, IsRounds(g, f, f.size), NEW h, h = g[f.size].f
  PROVE  /\ FieldsGood(h) /\ Len(Listing(h)) = Cardinality(Firsts(Listing(f)))
         /\ \A k \in Firsts(Listing(f)) : Listing(h)[Rank(Listing(f), k)] = Listing(f)[k]
<1> DEFINE s == Listing(f)
           N == Len(s)
           T == {i \in 0 .. N : ~RoundGood(g[i], s, i)}
<1>1. s \in Seq(Elements) /\ N = f.size /\ N \in Nat /\ \A i \in 1 .. N : s[i] = Item(f, i - 1)
  BY ListingType
<1>2. \A i \in 0 .. N : g[i] = IF i = 0 THEN [f |-> f, set |-> {}] ELSE Array!round(g[i - 1])
  BY <1>1 DEF IsRounds
<1> HIDE DEF s
<1>3. RoundGood(g[0], s, 0)
  <2>1. g[0] = [f |-> f, set |-> {}]
    <3>1. 0 \in 0 .. N
      BY <1>1
    <3> QED BY <1>2, <3>1
  <2>2. g[0].f = f /\ g[0].set = {} /\ g[0] = [f |-> g[0].f, set |-> g[0].set]
    BY <2>1
  <2>3. Rank(s, 0) = 0
    BY <1>1, Ranks
  <2>4. \A j \in 0 .. N - 0 - 1 : Item(f, j) = s[0 + j + 1]
    <3> SUFFICES ASSUME NEW j \in 0 .. N - 1 PROVE Item(f, j) = s[0 + j + 1]
      BY <1>1
    <3>1. j + 1 \in 1 .. N /\ 0 + j + 1 = j + 1 /\ (j + 1) - 1 = j
      BY <1>1
    <3> QED BY <1>1, <3>1
  <2>5. f.size = N - 0 + Rank(s, 0)
    BY <1>1, <2>3
  <2>6. 1 .. 0 = {}
    OBVIOUS
  <2> QED BY <2>2, <2>4, <2>5, <2>6 DEF RoundGood
<1>4. ASSUME NEW k \in T PROVE \E m \in T : m < k
  <2>1. k # 0 /\ k \in 0 .. N
    BY <1>3
  <2>2. k - 1 \in 0 .. N - 1 /\ k - 1 \in 0 .. N /\ (k - 1) + 1 = k /\ k - 1 < k
    BY <1>1, <2>1
  <2>3. g[k] = Array!round(g[k - 1])
    BY <1>2, <2>1
  <2>4. ~RoundGood(g[k - 1], s, k - 1)
    BY <1>1, <1>4, <2>2, <2>3, RoundNext
  <2> QED BY <2>2, <2>4
<1>5. T \in SUBSET Nat
  OBVIOUS
<1>6. T = {}
  <2> HIDE DEF T
  <2> QED BY <1>4, <1>5, NoDescent
<1>7. RoundGood(g[N], s, N)
  BY <1>1, <1>6
<1>8. h = g[N].f
  BY <1>1
<1>9. /\ FieldsGood(h) /\ h.size = N - N + Rank(s, N)
      /\ \A k \in Firsts(s) \intersect (1 .. N) : Item(h, N - N + Rank(s, k) - 1) = s[k]
  BY <1>7, <1>8 DEF RoundGood
<1>10. Rank(s, N) = Cardinality(Firsts(s)) /\ Rank(s, N) \in Nat /\ \A k \in Firsts(s) \intersect (1 .. N) : Rank(s, k) \in 1 .. Rank(s, N)
  BY <1>1, Ranks
<1>11. Len(Listing(h)) = Rank(s, N) /\ h.size = Rank(s, N) /\ \A i \in 1 .. Rank(s, N) : Listing(h)[i] = Item(h, i - 1)
  <2>1. h.size = Rank(s, N)
    BY <1>1, <1>9, <1>10
  <2> QED BY <1>9, <2>1, ListingType
<1>12. \A k \in Firsts(s) : Listing(h)[Rank(s, k)] = s[k]
  <2> SUFFICES ASSUME NEW k \in Firsts(s) PROVE Listing(h)[Rank(s, k)] = s[k]
    OBVIOUS
  <2>1. k \in Firsts(s) \intersect (1 .. N)
    BY <1>1 DEF Firsts
  <2>2. Rank(s, k) \in 1 .. Rank(s, N) /\ N - N + Rank(s, k) - 1 = Rank(s, k) - 1
    BY <1>1, <1>10, <2>1
  <2> QED BY <1>9, <1>11, <2>1, <2>2
<1> QED BY <1>9, <1>10, <1>11, <1>12 DEF s

LEMMA ContentsAre ==
  ASSUME NEW a, NEW n, NEW m, NEW l, NEW f, f = [a |-> a, size |-> n, front |-> m, last |-> l], FieldsGood(f)
  PROVE  \A i \in 1 .. n : a[(m + i - 1) % Slots(f)] = Item(f, i - 1)
<1>1. f.a = a /\ f.size = n /\ f.front = m
  OBVIOUS
<1>2. Slots(f) \in Nat \ {0} /\ n \in 0 .. Slots(f) /\ m \in 0 .. Slots(f) - 1
  BY <1>1 DEF FieldsGood, FieldsType
<1> SUFFICES ASSUME NEW i \in 1 .. n PROVE a[(m + i - 1) % Slots(f)] = Item(f, i - 1)
  OBVIOUS
<1>3. m + i - 1 \in 0 .. 2 * Slots(f) - 1 /\ m + i - 1 = m + (i - 1)
  BY <1>2
<1>4. (m + i - 1) % Slots(f) = Place(f, i - 1)
  BY <1>1, <1>2, <1>3, Wraps DEF Place, Wrap
<1> QED BY <1>1, <1>4 DEF Item

LEMMA ContentsOf == QueueIInv => Array!Contents = Listing(Array!Fields)
<1> SUFFICES ASSUME QueueIInv PROVE Array!Contents = Listing(Array!Fields)
  OBVIOUS
<1>1. \A i \in 1 .. size : elements[(front + i - 1) % Slots(Array!Fields)] = Item(Array!Fields, i - 1)
  BY ContentsAre DEF QueueIInv, Array!Fields
<1>2. Array!Fields.size = size
  BY DEF Array!Fields
<1> QED BY <1>1, <1>2 DEF Array!Contents, Listing, Slots

(* The fields become those of f.                                             *)
LEMMA Became ==
  ASSUME NEW f, FieldsGood(f), Array!Become(f)
  PROVE  QueueIInv' /\ Array!Contents' = Listing(f)
<1>1. Array!Fields' = f
  <2>1. f = [a |-> f.a, size |-> f.size, front |-> f.front, last |-> f.last]
    BY DEF FieldsGood, FieldsType
  <2> QED BY <2>1 DEF Array!Fields, Array!Become
<1>2. \A i \in 1 .. size' : elements'[(front' + i - 1) % Slots(f)] = Item(f, i - 1)
  BY <1>1, ContentsAre DEF Array!Fields
<1>3. f.size = size'
  BY DEF Array!Become
<1>4. Array!Contents' = Listing(f)
  BY <1>1, <1>2, <1>3 DEF Array!Contents, Listing, Slots
<1> QED BY <1>1, <1>4 DEF QueueIInv

LEMMA QueueInit == Array!QueueInit => QueueIInv /\ Fifo!Init
<1> SUFFICES ASSUME Array!QueueInit PROVE QueueIInv /\ Fifo!Init
  OBVIOUS
<1> DEFINE f == Array!Fields
<1>1. f = [a |-> [i \in {0} |-> Null], size |-> 0, front |-> 0, last |-> -1]
  BY DEF Array!QueueInit, Array!Fields
<1>2. FieldsGood(f)
  BY <1>1, EmptyGood
<1>3. f.size = 0
  BY <1>1
<1>4. Listing(f) = <<>>
  BY <1>2, <1>3, ListingType
<1> QED BY <1>2, <1>4, ContentsOf DEF QueueIInv, Fifo!Init, Array!QueueInit

(* indexIf and lastIndexIf walk over the elements and perhaps over free      *)
(* slots, whose null they leave out.                                         *)
LEMMA MatchesAre ==
  ASSUME QueueIInv, NEW e \in Elements
  PROVE  /\ front \in Nat /\ size \in Nat
         /\ Array!Matches(e) = {front + j - 1 : j \in {i \in 1 .. size : Listing(Array!Fields)[i] = e}}
<1> DEFINE f == Array!Fields
           n == Slots(f)
           newEnd == IF last < front THEN size + front - 1 ELSE last
           S == {j \in 1 .. size : Listing(f)[j] = e}
<1>1. f.a = elements /\ f.size = size /\ f.front = front /\ f.last = last
  BY DEF Array!Fields
<1>2. n \in Nat \ {0} /\ size \in 0 .. n /\ front \in 0 .. n - 1 /\ last \in -1 .. n - 1
  BY <1>1 DEF QueueIInv, FieldsGood, FieldsType
<1>3. \A i \in 0 .. n - 1 : IF i < size THEN Item(f, i) \in Elements ELSE Item(f, i) = Null
  BY <1>1 DEF QueueIInv, FieldsGood
<1>4. newEnd \in front + size - 1 .. front + n - 1
  <2>1. Wrap(f, last + 1) = Place(f, size) /\ (size > 0 => last >= 0)
    BY <1>1 DEF QueueIInv, FieldsGood
  <2>2. Wrap(f, last + 1) = IF last + 1 < n THEN last + 1 ELSE last + 1 - n
    BY <1>2 DEF Wrap
  <2>3. Place(f, size) = IF front + size < n THEN front + size ELSE front + size - n
    BY <1>1, <1>2 DEF Place, Wrap
  <2> QED BY <1>2, <2>1, <2>2, <2>3
<1>5. \A i \in 1 .. size : Listing(f)[i] = Item(f, i - 1)
  BY <1>1, ListingType DEF QueueIInv
<1>6. Array!Matches(e) = {i \in front .. newEnd : elements[i % n] # Null /\ elements[i % n] = e}
  BY DEF Array!Matches, Slots
<1> HIDE DEF f, n, newEnd
<1>7. \A i \in front .. newEnd : i - front \in 0 .. n - 1 /\ elements[i % n] = Item(f, i - front)
  <2> SUFFICES ASSUME NEW i \in front .. newEnd PROVE i - front \in 0 .. n - 1 /\ elements[i % n] = Item(f, i - front)
    OBVIOUS
  <2>1. i \in 0 .. 2 * n - 1 /\ i - front \in 0 .. n - 1 /\ front + (i - front) = i
    BY <1>2, <1>4
  <2>2. i % n = Wrap(f, i)
    BY <1>2, <2>1, Wraps DEF Wrap, n
  <2> QED BY <1>1, <2>1, <2>2 DEF Item, Place
<1>8. ASSUME NEW i \in Array!Matches(e) PROVE i \in {front + j - 1 : j \in S}
  <2>1. i \in front .. newEnd /\ elements[i % n] = e /\ e # Null
    BY <1>6, NullIsNone
  <2>2. i - front \in 0 .. n - 1 /\ Item(f, i - front) = e
    BY <1>7, <2>1
  <2>3. i - front < size
    BY <1>3, <2>1, <2>2
  <2>4. i - front + 1 \in 1 .. size /\ (i - front + 1) - 1 = i - front /\ front + (i - front + 1) - 1 = i
    BY <1>2, <1>4, <2>1, <2>2, <2>3
  <2>5. Listing(f)[i - front + 1] = e
    BY <1>5, <2>2, <2>4
  <2> QED BY <2>4, <2>5
<1>9. ASSUME NEW j \in S PROVE front + j - 1 \in Array!Matches(e)
  <2>1. j \in 1 .. size /\ Item(f, j - 1) = e
    BY <1>5
  <2>2. front + j - 1 \in front .. newEnd /\ (front + j - 1) - front = j - 1
    BY <1>2, <1>4, <2>1
  <2>3. elements[(front + j - 1) % n] = e
    BY <1>7, <2>1, <2>2
  <2> QED BY <1>6, <2>2, <2>3, NullIsNone
<1> QED BY <1>2, <1>8, <1>9 DEF f

LEMMA Indexed ==
  ASSUME QueueIInv, NEW e \in Elements
  PROVE  /\ Array!indexIf(e) => Fifo!indexIf(e)
         /\ Array!lastIndexIf(e) => Fifo!lastIndexIf(e)
<1> DEFINE s == Listing(Array!Fields)
           S == {i \in 1 .. size : s[i] = e}
           M == Array!Matches(e)
           lo == CHOOSE i \in M : \A j \in M : i <= j
           hi == CHOOSE i \in M : \A j \in M : i >= j
           min == CHOOSE x \in S : \A y \in S : x <= y
           max == CHOOSE x \in S : \A y \in S : x >= y
<1>1. front \in Nat /\ size \in Nat /\ M = {front + j - 1 : j \in S}
  BY MatchesAre
<1>2. Array!Contents = s /\ DOMAIN s = 1 .. size
  <2>1. Array!Fields.size = size
    BY DEF Array!Fields
  <2> QED BY <2>1, ContentsOf DEF Listing
<1>3. Fifo!Indices(e) = S
  BY <1>2 DEF Fifo!Indices
<1>4. Fifo!Min(S) = min /\ Fifo!Max(S) = max
  BY DEF Fifo!Min, Fifo!Max
<1>5. S \in SUBSET (0 .. size)
  BY <1>1
<1> HIDE DEF s, S
<1>6. ASSUME S # {} PROVE lo - front = min - 1 /\ hi - front = max - 1
  <2>1. min \in S /\ (\A y \in S : min <= y) /\ max \in S /\ (\A y \in S : max >= y)
    BY <1>1, <1>5, <1>6, Ends
  <2> HIDE DEF min, max
  <2>2. min \in 0 .. size /\ max \in 0 .. size
    BY <1>5, <2>1
  <2>3. (front + min - 1) \in M /\ \A j \in M : front + min - 1 <= j
    BY <1>1, <1>5, <2>1, <2>2
  <2>4. (front + max - 1) \in M /\ \A j \in M : front + max - 1 >= j
    BY <1>1, <1>5, <2>1, <2>2
  <2>5. M \subseteq Int
    BY <1>1, <1>5
  <2> HIDE DEF M
  <2>6. lo = front + min - 1
    BY <1>1, <2>2, <2>3, <2>5
  <2>7. hi = front + max - 1
    <3>1. hi \in M /\ \A j \in M : hi >= j
      BY <2>4
    <3> HIDE DEF hi
    <3>2. hi >= front + max - 1 /\ front + max - 1 >= hi
      BY <2>4, <3>1
    <3> QED BY <1>1, <2>2, <2>5, <3>1, <3>2
  <2> HIDE DEF lo, hi
  <2> QED BY <1>1, <2>2, <2>6, <2>7
<1>7. M = {} <=> S = {}
  BY <1>1
<1>8. ASSUME UNCHANGED <<elements, size, front, last>> PROVE UNCHANGED Array!Contents
  BY <1>8 DEF Array!Contents, Array!Fields
<1> HIDE DEF M, lo, hi, min, max
<1>9. ASSUME Array!indexIf(e) PROVE Fifo!indexIf(e)
  <2>1. UNCHANGED <<elements, size, front, last>> /\ result' = IF M = {} THEN -1 ELSE lo - front
    BY <1>9 DEF Array!indexIf, Array!Found, Array!NoIndex, M, lo
  <2> QED BY <1>3, <1>4, <1>6, <1>7, <1>8, <2>1 DEF Fifo!indexIf, Fifo!NoIndex
<1>10. ASSUME Array!lastIndexIf(e) PROVE Fifo!lastIndexIf(e)
  <2>1. UNCHANGED <<elements, size, front, last>> /\ result' = IF M = {} THEN -1 ELSE hi - front
    BY <1>10 DEF Array!lastIndexIf, Array!Found, Array!NoIndex, M, hi
  <2> QED BY <1>3, <1>4, <1>6, <1>7, <1>8, <2>1 DEF Fifo!lastIndexIf, Fifo!NoIndex
<1> QED BY <1>9, <1>10

LEMMA QueueNextIInv == QueueIInv /\ [Array!QueueNext]_queuevars => QueueIInv' /\ [Fifo!Next]_queuevars
<1> SUFFICES ASSUME QueueIInv, [Array!QueueNext]_queuevars PROVE QueueIInv' /\ [Fifo!Next]_queuevars
  OBVIOUS
<1> DEFINE f == Array!Fields
           s == Listing(f)
<1>1. FieldsGood(f) /\ Array!Contents = s
  BY ContentsOf DEF QueueIInv
<1>2. f.a = elements /\ f.size = size /\ f.front = front /\ size \in Nat
  <2>1. f.a = elements /\ f.size = size /\ f.front = front
    BY DEF Array!Fields
  <2> QED BY <1>1, <2>1, ListingType
<1>3. s \in Seq(Elements) /\ Len(s) = size
  BY <1>1, <1>2, ListingType
<1>4. ASSUME UNCHANGED <<elements, size, front, last>> PROVE QueueIInv'
  BY <1>4, SMTT(60) DEF QueueIInv, Array!Fields, FieldsGood, FieldsType, Slots, Wrap, Place, Item
<1>5. CASE UNCHANGED queuevars
  BY <1>4, <1>5 DEF queuevars
<1>6. CASE Array!dequeue
  <2>1. PICK g : g = Array!Dequeued(f)
    OBVIOUS
  <2>2. size > 0 /\ result' = elements[front] /\ Array!Become(g)
    BY <1>6, <2>1 DEF Array!dequeue
  <2>3. FieldsGood(g) /\ s # <<>> /\ Listing(g) = Tail(s) /\ elements[front] = Head(s)
    BY <1>1, <1>2, <2>1, <2>2, DequeuedListing
  <2>4. QueueIInv' /\ Array!Contents' = Listing(g)
    BY <2>2, <2>3, Became
  <2>5. Fifo!dequeue
    BY <1>1, <2>2, <2>3, <2>4 DEF Fifo!dequeue
  <2> QED BY <2>4, <2>5 DEF Fifo!Next
<1>7. CASE Array!clear
  <2>1. PICK g : g = [a |-> [i \in {0} |-> Null], size |-> 0, front |-> 0, last |-> -1]
    OBVIOUS
  <2>2. Array!Become(g) /\ UNCHANGED result
    BY <1>7, <2>1 DEF Array!clear
  <2>3. FieldsGood(g) /\ g.size = 0
    BY <2>1, EmptyGood
  <2>4. Listing(g) = <<>>
    BY <2>3, ListingType
  <2>5. QueueIInv' /\ Array!Contents' = Listing(g)
    BY <2>2, <2>3, Became
  <2>6. Fifo!clear
    BY <2>2, <2>4, <2>5 DEF Fifo!clear
  <2> QED BY <2>5, <2>6 DEF Fifo!Next
<1>8. CASE Array!distinct
  <2>1. PICK g : g = Array!rounds[f.size].f
    OBVIOUS
  <2>2. Array!Become(g) /\ UNCHANGED result
    BY <1>2, <1>8, <2>1 DEF Array!distinct
  <2>3. IsRounds(Array!rounds, f, f.size)
    BY <1>2, RoundsAre
  <2>4. /\ FieldsGood(g) /\ Len(Listing(g)) = Cardinality(Firsts(s))
        /\ \A k \in Firsts(s) : Listing(g)[Rank(s, k)] = s[k]
    BY <1>1, <2>1, <2>3, DistinctListing, ZenonT(60)
  <2>5. QueueIInv' /\ Array!Contents' = Listing(g)
    BY <2>2, <2>4, Became
  <2>6. Listing(g) \in Seq(Elements)
    BY <2>4, ListingType
  <2>7. Fifo!distinct
    <3>1. \A S : Fifo!Cardinality(S) = Cardinality(S)
      BY DEF Fifo!Cardinality, Cardinality
    <3>2. Firsts(s) = {i \in DOMAIN Array!Contents : \A j \in 1 .. i - 1 : Array!Contents[j] # Array!Contents[i]}
      BY <1>1 DEF Firsts
    <3>3. \A k \in Firsts(s) : (Array!Contents')[Fifo!Cardinality(Firsts(s) \intersect (1 .. k))] = Array!Contents[k]
      BY <1>1, <2>4, <2>5, <3>1 DEF Rank
    <3>4. Array!Contents' \in Seq(Elements) /\ Len(Array!Contents') = Fifo!Cardinality(Firsts(s)) /\ UNCHANGED result
      BY <2>2, <2>4, <2>5, <2>6, <3>1
    <3> HIDE DEF s, f
    <3> QED BY <3>2, <3>3, <3>4 DEF Fifo!distinct
  <2> QED BY <2>5, <2>7 DEF Fifo!Next
<1>9. ASSUME NEW e \in Elements, Array!enqueue(e) PROVE QueueIInv' /\ Fifo!Next
  <2>1. PICK g : g = Array!Enqueued(f, e)
    OBVIOUS
  <2>2. Array!Become(g) /\ UNCHANGED result
    BY <1>9, <2>1 DEF Array!enqueue
  <2>3. FieldsGood(g) /\ Listing(g) = Append(s, e)
    BY <1>1, <2>1, EnqueuedListing
  <2>4. QueueIInv' /\ Array!Contents' = Listing(g)
    BY <2>2, <2>3, Became
  <2>5. Fifo!enqueue(e)
    BY <1>1, <2>2, <2>3, <2>4 DEF Fifo!enqueue
  <2> QED BY <2>4, <2>5 DEF Fifo!Next
<1>10. ASSUME NEW e \in Elements, Array!indexIf(e) \/ Array!lastIndexIf(e) PROVE QueueIInv' /\ Fifo!Next
  <2>1. UNCHANGED <<elements, size, front, last>>
    BY <1>10 DEF Array!indexIf, Array!lastIndexIf
  <2>2. Fifo!indexIf(e) \/ Fifo!lastIndexIf(e)
    BY <1>10, Indexed
  <2> QED BY <1>4, <2>1, <2>2 DEF Fifo!Next
<1> QED BY <1>5, <1>6, <1>7, <1>8, <1>9, <1>10 DEF Array!QueueNext

-------------------------------------------------------------------------------
(***************************************************************************)
(* Java's int of any width.                                                *)
(***************************************************************************)
Bits == 0 .. IntWidth + 1

LEMMA Pow2Is ==
  /\ Functions!Pow2[0] = 1
  /\ \A i \in Bits : i # 0 => Functions!Pow2[i] = 2 * Functions!Pow2[i - 1]
<1> DEFINE p == Functions!Pow2
           N == IntWidth + 1
           twice == [x \in Nat |-> [k \in 1 .. N |-> 2 * x]]
<1>1. N \in Nat /\ 1 \in Nat
  BY IntWidths
<1>2. IsStep(twice, Nat, N) /\ \A x \in Nat, k \in 1 .. N : twice[x][k] = 2 * x
  BY DEF IsStep
<1> HIDE DEF twice, N
<1>3. PICK g : IsLoop(g, 1, twice, Nat, N)
  BY <1>1, <1>2, LoopExists
<1>l. g \in [0 .. N -> Nat] /\ g[0] = 1 /\ \A k \in 1 .. N : g[k] = twice[g[k - 1]][k]
  BY <1>3 DEF IsLoop
<1>4. g = [i \in 0 .. N |-> IF i = 0 THEN 1 ELSE 2 * g[i - 1]]
  <2>1. ASSUME NEW i \in 0 .. N PROVE g[i] = IF i = 0 THEN 1 ELSE 2 * g[i - 1]
    <3>1. CASE i = 0
      BY <1>l, <3>1
    <3>2. CASE i # 0
      <4>1. i \in 1 .. N /\ i - 1 \in 0 .. N
        BY <1>1, <3>2
      <4>2. g[i - 1] \in Nat /\ g[i] = twice[g[i - 1]][i]
        BY <1>l, <4>1
      <4>3. g[i] = 2 * g[i - 1]
        BY <1>2, <4>1, <4>2
      <4> QED BY <3>2, <4>3
    <3> QED BY <3>1, <3>2
  <2>2. g = [i \in 0 .. N |-> g[i]]
    BY <1>l
  <2> QED BY <2>1, <2>2
<1>5. p = [i \in 0 .. N |-> IF i = 0 THEN 1 ELSE 2 * p[i - 1]]
  BY <1>4 DEF N, Functions!Pow2
<1> HIDE DEF p
<1>6. p[0] = 1 /\ \A i \in Bits : i # 0 => p[i] = 2 * p[i - 1]
  BY <1>1, <1>5 DEF Bits, N
<1> QED BY <1>6 DEF p

(* They are numbers that grow, each larger than its exponent.                *)
LEMMA Pow2Grows ==
  /\ \A i \in Bits : Functions!Pow2[i] \in Nat /\ Functions!Pow2[i] > i
  /\ \A i, j \in Bits : i < j => 2 * Functions!Pow2[i] <= Functions!Pow2[j]
<1> DEFINE p == Functions!Pow2
           T == {k \in Bits : ~(p[k] \in Nat /\ p[k] > k)}
           U == {k \in Bits : ~\A i \in Bits : i < k => 2 * p[i] <= p[k]}
<1>1. p[0] = 1 /\ \A i \in Bits : i # 0 => p[i] = 2 * p[i - 1]
  BY Pow2Is
<1>2. Bits \subseteq Nat /\ \A i \in Bits : i # 0 => i - 1 \in Bits /\ i - 1 < i
  BY IntWidths DEF Bits
<1> HIDE DEF p
<1>3. T = {}
  <2>1. ASSUME NEW k \in T PROVE \E m \in T : m < k
    <3>1. k \in Bits /\ k # 0
      BY <1>1
    <3>2. k - 1 \in Bits /\ p[k] = 2 * p[k - 1] /\ k \in Nat /\ k - 1 \in Nat
      BY <1>1, <1>2, <3>1
    <3>3. ~(p[k - 1] \in Nat /\ p[k - 1] > k - 1)
      BY <3>2
    <3> QED BY <1>2, <3>1, <3>2, <3>3
  <2> HIDE DEF T
  <2>2. T \in SUBSET Nat
    BY <1>2 DEF T
  <2> QED BY <2>1, <2>2, NoDescent
<1>4. \A i \in Bits : p[i] \in Nat /\ p[i] > i
  BY <1>3
<1>5. U = {}
  <2>1. ASSUME NEW k \in U PROVE \E m \in U : m < k
    <3>1. PICK i \in Bits : i < k /\ ~(2 * p[i] <= p[k])
      OBVIOUS
    <3>2. k # 0 /\ k \in Bits /\ i \in Nat /\ k \in Nat
      BY <1>2, <3>1
    <3>3. k - 1 \in Bits /\ p[k] = 2 * p[k - 1] /\ p[k - 1] \in Nat /\ p[i] \in Nat
      BY <1>1, <1>2, <1>4, <3>2
    <3>4. i # k - 1
      BY <3>1, <3>3
    <3>5. i < k - 1 /\ ~(2 * p[i] <= p[k - 1])
      BY <3>1, <3>2, <3>3, <3>4
    <3> QED BY <3>2, <3>3, <3>5
  <2> HIDE DEF U
  <2>2. U \in SUBSET Nat
    BY <1>2 DEF U
  <2> QED BY <2>1, <2>2, NoDescent
<1>6. \A i, j \in Bits : i < j => 2 * p[i] <= p[j]
  BY <1>5
<1> QED BY <1>4, <1>6 DEF p

LEMMA IntsAre ==
  /\ Functions!MaxInt \in Nat \ {0} /\ Functions!MinInt = -Functions!MaxInt - 1
  /\ Functions!Ints = Functions!MinInt .. Functions!MaxInt
  /\ Functions!Pow2[IntWidth] = 2 * (Functions!MaxInt + 1)
<1>1. IntWidth - 1 \in Bits /\ IntWidth \in Bits /\ IntWidth # 0 /\ IntWidth - 1 >= 1 /\ IntWidth \in Nat
  BY IntWidths DEF Bits
<1>2. Functions!Pow2[IntWidth] = 2 * Functions!Pow2[IntWidth - 1]
  BY <1>1, Pow2Is
<1>3. Functions!Pow2[IntWidth - 1] \in Nat /\ Functions!Pow2[IntWidth - 1] > IntWidth - 1
  BY <1>1, Pow2Grows
<1>4. Functions!MaxInt = Functions!Pow2[IntWidth - 1] - 1
  BY DEF Functions!MaxInt
<1> QED BY <1>1, <1>2, <1>3, <1>4 DEF Functions!MinInt, Functions!Ints

(* A value that wraps once around, or not at all.                            *)
LEMMA WrapIs ==
  ASSUME NEW x \in Int, -3 * (Functions!MaxInt + 1) <= x, x < 3 * (Functions!MaxInt + 1)
  PROVE  Functions!Wrap(x) = IF x > Functions!MaxInt THEN x - 2 * (Functions!MaxInt + 1)
                             ELSE IF x < Functions!MinInt THEN x + 2 * (Functions!MaxInt + 1) ELSE x
<1> DEFINE m == 2 * (Functions!MaxInt + 1)
           y == x - Functions!MinInt
<1>1. PICK h \in Nat \ {0} : Functions!MaxInt + 1 = h /\ Functions!MinInt = -h /\ m = 2 * h
  BY IntsAre
<1>2. m \in Nat \ {0} /\ y \in Int /\ y = x + h
  BY <1>1
<1>3. Functions!Wrap(x) = (y % m) + Functions!MinInt
  BY IntsAre DEF Functions!Wrap
<1> HIDE DEF m, y
<1>4. y % m = IF y >= m THEN y - m ELSE IF y < 0 THEN y + m ELSE y
  <2>1. y >= -m /\ y < 2 * m /\ m \in Nat \ {0} /\ y \in Int
    BY <1>1, <1>2
  <2>2. y >= m => y % m = y - m
    BY <2>1
  <2>3. y < 0 => y % m = y + m
    BY <2>1
  <2>4. y >= 0 /\ y < m => y % m = y
    BY <2>1
  <2> QED BY <2>1, <2>2, <2>3, <2>4
<1>5. x > Functions!MaxInt <=> y >= m
  <2>1. Functions!MaxInt = h - 1
    BY <1>1, IntsAre
  <2> QED BY <1>1, <1>2, <2>1
<1>6. x < Functions!MinInt <=> y < 0
  BY <1>1, <1>2
<1>7. (y % m) + Functions!MinInt = IF y >= m THEN x - m ELSE IF y < 0 THEN x + m ELSE x
  <2>1. y - h = x
    BY <1>1, <1>2
  <2> QED BY <1>1, <1>2, <1>4, <2>1
<1>8. m = 2 * (Functions!MaxInt + 1)
  BY <1>1
<1> QED BY <1>3, <1>5, <1>6, <1>7, <1>8

LEMMA WrapKeeps == ASSUME NEW x \in Functions!Ints PROVE Functions!Wrap(x) = x
BY IntsAre, WrapIs

(* Division rounds down, so that comparing a quotient is comparing products. *)
LEMMA ProductsKeepOrder ==
  ASSUME NEW x \in Int, NEW y \in Int, NEW d \in Nat, x <= y
  PROVE  x * d <= y * d
<1>1. (y - x) * d >= 0
  <2>1. y - x \in Nat
    OBVIOUS
  <2> QED BY <2>1
<1>2. (y - x) * d = y * d - x * d
  OBVIOUS
<1> QED BY <1>1, <1>2

LEMMA DivIs ==
  ASSUME NEW n \in Nat, NEW d \in Nat \ {0}
  PROVE  /\ n \div d \in Nat
         /\ (n \div d) * d <= n /\ n < (n \div d) * d + d
         /\ n \div d <= n
<1>1. n \div d \in Int /\ n = d * (n \div d) + (n % d) /\ n % d \in 0 .. d - 1
  OBVIOUS
<1>2. n \div d >= 0
  <2> SUFFICES ASSUME n \div d <= -1 PROVE FALSE
    BY <1>1
  <2>1. (n \div d) * d <= (-1) * d
    BY <1>1, ProductsKeepOrder
  <2> QED BY <1>1, <2>1
<1>3. 1 * (n \div d) <= d * (n \div d)
  BY <1>1, <1>2, ProductsKeepOrder
<1> QED BY <1>1, <1>2, <1>3

LEMMA DivLess ==
  ASSUME NEW n \in Nat, NEW d \in Nat \ {0}, NEW b \in Int
  PROVE  n \div d < b <=> n < b * d
<1> DEFINE q == n \div d
<1>1. q \in Nat /\ q * d <= n /\ n < q * d + d
  BY DivIs
<1> HIDE DEF q
<1>2. CASE q < b
  <2>1. (q + 1) * d <= b * d
    BY <1>1, <1>2, ProductsKeepOrder
  <2>2. (q + 1) * d = q * d + d
    BY <1>1
  <2> QED BY <1>1, <1>2, <2>1, <2>2 DEF q
<1>3. CASE q >= b
  <2>1. b * d <= q * d
    BY <1>1, <1>3, ProductsKeepOrder
  <2> QED BY <1>1, <1>3, <2>1 DEF q
<1> QED BY <1>1, <1>2, <1>3

(* Every integer wraps to an int, and differs from it by a multiple of 2^w.  *)
LEMMA MultiplesLeaveNothing ==
  ASSUME NEW c \in Int, NEW m \in Nat \ {0}
  PROVE  (c * m) % m = 0
<1> DEFINE q == (c * m) \div m
           r == (c * m) % m
<1>1. c * m \in Int /\ q \in Int /\ r \in 0 .. m - 1 /\ c * m = m * q + r
  OBVIOUS
<1> HIDE DEF q, r
<1>2. (c - q) * m = r
  BY <1>1
<1>3. CASE c - q >= 1
  <2>1. 1 * m <= (c - q) * m
    BY <1>1, <1>3, ProductsKeepOrder
  <2> QED BY <1>1, <1>2, <2>1
<1>4. CASE c - q <= -1
  <2>1. (c - q) * m <= (-1) * m
    BY <1>1, <1>4, ProductsKeepOrder
  <2> QED BY <1>1, <1>2, <2>1
<1>5. CASE c - q = 0
  BY <1>2, <1>5 DEF r
<1> QED BY <1>1, <1>3, <1>4, <1>5

LEMMA WrapsAround ==
  ASSUME NEW x \in Int
  PROVE  /\ Functions!Wrap(x) \in Functions!Ints
         /\ (Functions!Wrap(x) - x) % Functions!Pow2[IntWidth] = 0
<1> DEFINE m == Functions!Pow2[IntWidth]
           y == x - Functions!MinInt
           q == y \div m
           r == y % m
<1>1. PICK h \in Nat \ {0} : m = 2 * h /\ Functions!MinInt = -h /\ Functions!MaxInt = h - 1
  BY IntsAre
<1>2. m \in Nat \ {0} /\ y \in Int
  BY <1>1
<1>3. Functions!Wrap(x) = r + Functions!MinInt
  BY DEF Functions!Wrap
<1> HIDE DEF m, y
<1>4. q \in Int /\ r \in 0 .. m - 1 /\ y = m * q + r
  BY <1>2
<1> HIDE DEF q, r
<1>5. Functions!Wrap(x) \in Functions!Ints
  BY <1>1, <1>3, <1>4, IntsAre
<1>6. Functions!Wrap(x) - x = (-q) * m
  <2>1. Functions!Wrap(x) - x = r - y
    BY <1>1, <1>2, <1>3, <1>4 DEF y
  <2>2. r - y = (-q) * m
    BY <1>2, <1>4
  <2> QED BY <2>1, <2>2
<1>7. ((-q) * m) % m = 0
  BY <1>2, <1>4, MultiplesLeaveNothing
<1> QED BY <1>5, <1>6, <1>7 DEF m

(* What java's exact operations are for integers of both signs.              *)
LEMMA QuotientIs ==
  ASSUME NEW a \in Int, NEW b \in Int, b # 0
  PROVE  /\ a >= 0 /\ b > 0 => Functions!Quotient(a, b) = a \div b
         /\ a < 0 /\ b < 0 => Functions!Quotient(a, b) = (-a) \div (-b)
         /\ a >= 0 /\ b < 0 => Functions!Quotient(a, b) = -(a \div (-b))
         /\ a < 0 /\ b > 0 => Functions!Quotient(a, b) = -((-a) \div b)
BY DEF Functions!Quotient

(* The tests of CheckedBinaryOperation find exactly the products that are no *)
(* int.                                                                      *)
LEMMA ProductOverflows ==
  ASSUME NEW a \in Int, NEW b \in Int,
         a \in Functions!Ints, b \in Functions!Ints \/ b \in 0 .. 2
  PROVE  Functions!Overflows("*", a, b) <=> a * b \notin Functions!Ints
<1> DEFINE m == Functions!MaxInt
           k == Functions!MinInt
<1>1. m \in Nat /\ k = -m - 1 /\ k < 0 /\ k \in Int /\ -k \in Nat /\ Functions!Ints = k .. m
  BY IntsAre
<1>2. Functions!Overflows("*", a, b) <=>
        \/ a > 0 /\ b > 0 /\ Functions!Quotient(m, a) < b
        \/ a < 0 /\ b < 0 /\ Functions!Quotient(m, a) > b
        \/ a < 0 /\ b > 0 /\ Functions!Quotient(k, b) > a
        \/ a > 0 /\ b < 0 /\ Functions!Quotient(k, a) > b
  BY DEF Functions!Overflows
<1> HIDE DEF m, k
<1>3. a * b \in Int
  OBVIOUS
<1>4. ASSUME a > 0, b > 0 PROVE (Functions!Quotient(m, a) < b <=> a * b > m) /\ a * b > 0
  <2>1. Functions!Quotient(m, a) = m \div a
    BY <1>1, <1>4, QuotientIs
  <2>2. m \div a < b <=> m < b * a
    BY <1>1, <1>4, DivLess
  <2> QED BY <1>1, <1>3, <1>4, <2>1, <2>2
<1>5. ASSUME a < 0, b < 0 PROVE (Functions!Quotient(m, a) > b <=> a * b > m) /\ a * b > 0
  <2>1. Functions!Quotient(m, a) = -(m \div (-a))
    BY <1>1, <1>5, QuotientIs
  <2>2. m \div (-a) < -b <=> m < (-b) * (-a)
    BY <1>1, <1>5, DivLess
  <2>3. m \div (-a) \in Nat /\ (-b) * (-a) = a * b
    BY <1>1, <1>5, DivIs
  <2>4. a * b > 0
    BY <1>5
  <2> QED BY <1>1, <1>3, <1>5, <2>1, <2>2, <2>3, <2>4
<1>6. ASSUME a < 0, b > 0 PROVE (Functions!Quotient(k, b) > a <=> a * b < k) /\ a * b < 0
  <2>1. Functions!Quotient(k, b) = -((-k) \div b)
    BY <1>1, <1>6, QuotientIs
  <2>2. (-k) \div b < -a <=> -k < (-a) * b
    BY <1>1, <1>6, DivLess
  <2>3. (-k) \div b \in Nat /\ (-a) * b = -(a * b)
    BY <1>1, <1>6, DivIs
  <2>4. a * b < 0
    BY <1>6
  <2> QED BY <1>1, <1>3, <1>6, <2>1, <2>2, <2>3, <2>4
<1>7. ASSUME a > 0, b < 0 PROVE (Functions!Quotient(k, a) > b <=> a * b < k) /\ a * b < 0
  <2>1. Functions!Quotient(k, a) = -((-k) \div a)
    BY <1>1, <1>7, QuotientIs
  <2>2. (-k) \div a < -b <=> -k < (-b) * a
    BY <1>1, <1>7, DivLess
  <2>3. (-k) \div a \in Nat /\ (-b) * a = -(a * b)
    BY <1>1, <1>7, DivIs
  <2>4. a * b < 0
    BY <1>7
  <2> QED BY <1>1, <1>3, <1>7, <2>1, <2>2, <2>3, <2>4
<1>8. ASSUME a = 0 \/ b = 0 PROVE a * b = 0
  BY <1>8
<1>9. a * b \notin Functions!Ints <=> a * b > m \/ a * b < k
  BY <1>1, <1>3
<1>10. CASE a > 0 /\ b > 0
  BY <1>1, <1>2, <1>3, <1>4, <1>9, <1>10
<1>11. CASE a < 0 /\ b < 0
  BY <1>1, <1>2, <1>3, <1>5, <1>9, <1>11
<1>12. CASE a < 0 /\ b > 0
  BY <1>1, <1>2, <1>3, <1>6, <1>9, <1>12
<1>13. CASE a > 0 /\ b < 0
  BY <1>1, <1>2, <1>3, <1>7, <1>9, <1>13
<1>14. CASE a = 0 \/ b = 0
  BY <1>1, <1>2, <1>3, <1>8, <1>9, <1>14
<1> QED BY <1>10, <1>11, <1>12, <1>13, <1>14

LEMMA SumOverflows ==
  ASSUME NEW a \in Functions!Ints, NEW b \in Functions!Ints
  PROVE  /\ Functions!Overflows("+", a, b) <=> a + b \notin Functions!Ints
         /\ Functions!Overflows("-", a, b) <=> a - b \notin Functions!Ints
<1> DEFINE m == Functions!MaxInt
           k == Functions!MinInt
<1>1. m \in Nat /\ k = -m - 1 /\ k \in Int /\ Functions!Ints = k .. m /\ a \in Int /\ b \in Int
  BY IntsAre
<1>2. Functions!Overflows("+", a, b) <=>
        \/ a > 0 /\ b > 0 /\ (Functions!Wrap(a + b) < a \/ Functions!Wrap(a + b) < b)
        \/ a < 0 /\ b < 0 /\ (Functions!Wrap(a + b) > a \/ Functions!Wrap(a + b) > b)
  BY DEF Functions!Overflows
<1>3. Functions!Overflows("-", a, b) <=>
        (b > 0 /\ Functions!Wrap(k + b) > a) \/ (b < 0 /\ Functions!Wrap(m + b) < a)
  BY DEF Functions!Overflows
<1>4. ASSUME NEW x \in Int, -3 * (m + 1) <= x, x < 3 * (m + 1)
      PROVE  Functions!Wrap(x) = IF x > m THEN x - 2 * (m + 1) ELSE IF x < k THEN x + 2 * (m + 1) ELSE x
  BY <1>4, WrapIs
<1> HIDE DEF m, k
<1>5. Functions!Wrap(a + b) = IF a + b > m THEN a + b - 2 * (m + 1) ELSE IF a + b < k THEN a + b + 2 * (m + 1) ELSE a + b
  BY <1>1, <1>4
<1>6. b > 0 => Functions!Wrap(k + b) = k + b
  BY <1>1, <1>4
<1>7. b < 0 => Functions!Wrap(m + b) = m + b
  BY <1>1, <1>4
<1> QED BY <1>1, <1>2, <1>3, <1>5, <1>6, <1>7

(* A quotient of two integers is one, but for that of the smallest and -1.   *)
LEMMA QuotientRight ==
  ASSUME NEW a \in Functions!Ints, NEW b \in Functions!Ints, b # 0, ~(a = Functions!MinInt /\ b = -1)
  PROVE  /\ Functions!Quotient(a, b) \in Functions!Ints
         /\ \E rest \in Functions!Ints :
              /\ a = Functions!Quotient(a, b) * b + rest /\ rest * a >= 0
              /\ Functions!Distance(rest, 0) < Functions!Distance(b, 0)
<1> DEFINE m == Functions!MaxInt
           c == IF a < 0 THEN -a ELSE a
           d == IF b < 0 THEN -b ELSE b
           q == c \div d
           r == c - q * d
           rest == IF a < 0 THEN -r ELSE r
<1>1. m \in Nat /\ Functions!MinInt = -m - 1 /\ Functions!Ints = -m - 1 .. m /\ a \in Int /\ b \in Int
  BY IntsAre
<1>2. c \in Nat /\ d \in Nat \ {0} /\ c <= m + 1 /\ d <= m + 1
  BY <1>1
<1> HIDE DEF m, c, d
<1>3. q \in Nat /\ q * d <= c /\ c < q * d + d /\ q <= c
  BY <1>2, DivIs
<1>4. Functions!Quotient(a, b) = IF (a < 0) = (b < 0) THEN q ELSE -q
  BY DEF Functions!Quotient, c, d
<1> HIDE DEF q
<1>5. q * d \in Nat /\ r \in Nat /\ r < d /\ c = q * d + r
  BY <1>2, <1>3
<1> HIDE DEF r
<1>6. (a < 0) = (b < 0) => q <= m
  <2>1. CASE d = 1 /\ c = m + 1
    BY <1>1, <1>2, <2>1 DEF c, d
  <2>2. CASE d # 1
    <3>1. 2 * q <= d * q
      BY <1>2, <1>3, <2>2, ProductsKeepOrder
    <3>2. d * q = q * d
      BY <1>2, <1>3
    <3> QED BY <1>1, <1>2, <1>3, <1>5, <3>1, <3>2
  <2>3. CASE c # m + 1
    BY <1>1, <1>2, <1>3, <2>3
  <2> QED BY <2>1, <2>2, <2>3
<1>7. Functions!Quotient(a, b) \in Functions!Ints
  BY <1>1, <1>2, <1>3, <1>4, <1>6
<1>8. rest \in Functions!Ints
  BY <1>1, <1>2, <1>5
<1>9. Functions!Distance(rest, 0) = r /\ Functions!Distance(b, 0) = d
  BY <1>1, <1>5 DEF Functions!Distance, d
<1>10. rest * a >= 0
  <2>1. CASE a < 0
    <3>1. rest * a = r * c
      BY <1>1, <1>5, <2>1 DEF c
    <3> QED BY <1>2, <1>5, <3>1
  <2>2. CASE a >= 0
    <3>1. rest * a = r * c
      BY <1>1, <1>5, <2>2 DEF c
    <3> QED BY <1>2, <1>5, <3>1
  <2> QED BY <1>1, <2>1, <2>2
<1>11. a = Functions!Quotient(a, b) * b + rest
  <2>1. Functions!Quotient(a, b) * b = IF a < 0 THEN -(q * d) ELSE q * d
    <3>1. CASE a < 0 /\ b < 0
      BY <1>1, <1>3, <1>4, <3>1 DEF d
    <3>2. CASE a < 0 /\ b >= 0
      BY <1>1, <1>3, <1>4, <3>2 DEF d
    <3>3. CASE a >= 0 /\ b < 0
      BY <1>1, <1>3, <1>4, <3>3 DEF d
    <3>4. CASE a >= 0 /\ b >= 0
      BY <1>1, <1>3, <1>4, <3>4 DEF d
    <3> QED BY <1>1, <3>1, <3>2, <3>3, <3>4
  <2> QED BY <1>1, <1>5, <2>1 DEF c
<1> QED BY <1>5, <1>7, <1>8, <1>9, <1>10, <1>11

(* CheckedPow doubles 1, and finds every power below the largest.            *)
IsPow(variant, g, n) ==
  g = [i \in 0 .. n |-> IF i = 0 THEN Functions!Value(1)
                        ELSE IF g[i - 1].ok THEN Functions!doubled(variant, g[i - 1].value) ELSE Functions!Thrown]

LEMMA PowLoop == ASSUME NEW variant, NEW n \in Nat PROVE \E g : IsPow(variant, g, n)
<1> DEFINE S == [ok : BOOLEAN, value : Int]
           first == Functions!Value(1)
           double(s) == IF s.ok THEN Functions!doubled(variant, s.value) ELSE Functions!Thrown
           step == [s \in S |-> [k \in 1 .. n |-> double(s)]]
<1>1. \A x \in Int : Functions!Value(x) \in S
  <2> SUFFICES ASSUME NEW x \in Int PROVE Functions!Value(x) \in S
    OBVIOUS
  <2>1. Functions!Wrap(x) \in Int
    BY IntsAre DEF Functions!Wrap
  <2> QED BY <2>1 DEF Functions!Value
<1>2. \A s \in S : double(s) \in S
  <2> SUFFICES ASSUME NEW s \in S PROVE double(s) \in S
    OBVIOUS
  <2>1. s.value \in Int /\ s.value * 2 \in Int
    OBVIOUS
  <2>2. Functions!Exact("*", s.value, 2) = s.value * 2
    BY DEF Functions!Exact
  <2>3. Functions!Thrown \in S
    BY DEF Functions!Thrown
  <2> QED BY <1>1, <2>1, <2>2, <2>3 DEF Functions!doubled, Functions!checkedBinary, Functions!unchecked
<1>3. first \in S
  BY <1>1
<1>4. IsStep(step, S, n) /\ \A s \in S, k \in 1 .. n : step[s][k] = double(s)
  BY <1>2 DEF IsStep
<1> HIDE DEF step, S, first
<1>5. PICK g : IsLoop(g, first, step, S, n)
  BY <1>3, <1>4, LoopExists
<1>6. g \in [0 .. n -> S] /\ g[0] = first /\ \A k \in 1 .. n : g[k] = step[g[k - 1]][k]
  BY <1>5 DEF IsLoop
<1>7. \A i \in 0 .. n : g[i] = IF i = 0 THEN first ELSE double(g[i - 1])
  <2> SUFFICES ASSUME NEW i \in 0 .. n PROVE g[i] = IF i = 0 THEN first ELSE double(g[i - 1])
    OBVIOUS
  <2>1. CASE i = 0
    BY <1>6, <2>1
  <2>2. CASE i # 0
    <3>1. i \in 1 .. n /\ i - 1 \in 0 .. n
      BY <2>2
    <3>2. g[i - 1] \in S /\ g[i] = step[g[i - 1]][i]
      BY <1>6, <3>1
    <3>3. g[i] = double(g[i - 1])
      BY <1>4, <3>1, <3>2
    <3> QED BY <2>2, <3>3
  <2> QED BY <2>1, <2>2
<1>8. g = [i \in 0 .. n |-> g[i]]
  BY <1>6
<1> QED BY <1>7, <1>8 DEF IsPow, first

LEMMA PowIs ==
  ASSUME NEW variant, NEW n \in 0 .. IntWidth - 1
  PROVE  Functions!checkedPow(variant, n) = IF n < IntWidth - 1 THEN [ok |-> TRUE, value |-> Functions!Pow2[n]] ELSE Functions!Thrown
<1> DEFINE p == Functions!Pow2
           m == Functions!MaxInt
<1>1. n \in Nat /\ IntWidth \in Nat /\ IntWidth - 1 \in Bits
  BY IntWidths DEF Bits
<1>2. Functions!checkedPow(variant, n) =
        LET pow[i \in 0 .. n] == IF i = 0 THEN Functions!Value(1)
                                 ELSE IF pow[i - 1].ok THEN Functions!doubled(variant, pow[i - 1].value) ELSE Functions!Thrown
        IN  IF n < 0 \/ n >= IntWidth - 1 THEN Functions!Thrown ELSE pow[n]
  BY DEF Functions!checkedPow
<1>3. CASE n >= IntWidth - 1
  BY <1>1, <1>2, <1>3
<1>4. CASE n < IntWidth - 1
  <2> DEFINE pow == CHOOSE g : IsPow(variant, g, n)
             T == {i \in 0 .. n : pow[i] # [ok |-> TRUE, value |-> p[i]]}
  <2>1. IsPow(variant, pow, n)
    BY <1>1, PowLoop
  <2>2. Functions!checkedPow(variant, n) = pow[n]
    BY <1>1, <1>2, <1>4 DEF IsPow
  <2> HIDE DEF pow
  <2>3. m \in Nat /\ m = p[IntWidth - 1] - 1 /\ Functions!MinInt < 0 /\ Functions!MinInt \in Int /\ Functions!Ints = Functions!MinInt .. m
    BY IntsAre DEF Functions!MaxInt
  <2>4. \A i \in 0 .. n : p[i] \in Functions!Ints /\ p[i] \in Nat
    <3> SUFFICES ASSUME NEW i \in 0 .. n PROVE p[i] \in Functions!Ints /\ p[i] \in Nat
      OBVIOUS
    <3>1. i \in Bits /\ i < IntWidth - 1 /\ i \in Nat
      BY <1>1, <1>4 DEF Bits
    <3>2. p[i] \in Nat /\ 2 * p[i] <= p[IntWidth - 1] /\ p[i] > i /\ p[IntWidth - 1] \in Nat
      BY <1>1, <3>1, Pow2Grows
    <3> HIDE DEF p, m
    <3>3. p[i] <= m /\ Functions!MinInt <= p[i]
      BY <2>3, <3>1, <3>2
    <3> QED BY <2>3, <3>2, <3>3
  <2>5. \A i \in 0 .. n : i # 0 => p[i] = 2 * p[i - 1] /\ i - 1 \in 0 .. n
    BY <1>1, <1>4, Pow2Is DEF Bits
  <2>6. p[0] = 1 /\ 0 \in 0 .. n
    BY <1>1, Pow2Is
  <2> HIDE DEF p
  <2>7. ASSUME NEW k \in T PROVE \E i \in T : i < k
    <3>1. k \in 0 .. n /\ k \in Nat /\ k - 1 < k /\ pow[k] # [ok |-> TRUE, value |-> p[k]]
      BY <1>1
    <3>2. pow[k] = IF k = 0 THEN Functions!Value(1)
                   ELSE IF pow[k - 1].ok THEN Functions!doubled(variant, pow[k - 1].value) ELSE Functions!Thrown
      BY <2>1, <3>1 DEF IsPow
    <3>3. \A x \in Functions!Ints : Functions!Value(x) = [ok |-> TRUE, value |-> x]
      BY WrapKeeps DEF Functions!Value
    <3>4. CASE k = 0
      BY <2>4, <2>6, <3>1, <3>2, <3>3, <3>4
    <3>5. ASSUME k # 0, pow[k - 1] = [ok |-> TRUE, value |-> p[k - 1]] PROVE FALSE
      <4>1. p[k - 1] \in Functions!Ints /\ p[k - 1] \in Nat /\ p[k] \in Functions!Ints /\ p[k] = 2 * p[k - 1]
        BY <2>4, <2>5, <3>1, <3>5
      <4>2. p[k - 1] * 2 = p[k] /\ 2 \in 0 .. 2
        BY <4>1
      <4>3. ~Functions!Overflows("*", p[k - 1], 2)
        BY <4>1, <4>2, ProductOverflows
      <4>4. Functions!doubled(variant, p[k - 1]) = Functions!Value(p[k])
        <5>1. Functions!Exact("*", p[k - 1], 2) = p[k - 1] * 2
          BY DEF Functions!Exact
        <5> QED BY <4>2, <4>3, <5>1 DEF Functions!doubled, Functions!checkedBinary, Functions!unchecked
      <4>5. pow[k] = Functions!doubled(variant, p[k - 1])
        BY <3>2, <3>5
      <4> QED BY <3>1, <3>3, <4>1, <4>4, <4>5
    <3>6. CASE k # 0
      <4>1. k - 1 \in T
        BY <2>5, <3>1, <3>5, <3>6
      <4> QED BY <3>1, <4>1
    <3> QED BY <3>4, <3>6
  <2>8. T \in SUBSET Nat
    OBVIOUS
  <2> HIDE DEF T
  <2>9. T = {}
    BY <2>7, <2>8, NoDescent
  <2>10. pow[n] = [ok |-> TRUE, value |-> p[n]]
    BY <1>1, <2>9 DEF T
  <2> QED BY <1>4, <2>2, <2>10 DEF p
<1> QED BY <1>1, <1>3, <1>4

(* log2 looks for the first power that is not below a positive integer.      *)
LEMMA LogIs ==
  ASSUME NEW variant \in {"one", "three", "list"}, NEW a \in Functions!Ints, a > 0
  PROVE  LET p == Functions!Pow2
             log == Functions!checkedLog(variant, a)
         IN  \/ variant # "three" /\ log = Functions!Thrown /\ a > p[IntWidth - 2]
             \/ \E n \in 0 .. IntWidth - 1 :
                  /\ log = [ok |-> TRUE, value |-> n] /\ n \in Functions!Ints
                  /\ p[n] <= a /\ a < p[n + 1]
                  /\ variant # "three" => a <= p[IntWidth - 2]
<1> DEFINE p == Functions!Pow2
           w == IntWidth
           log == Functions!checkedLog(variant, a)
           tries == Functions!logExponents(variant)
           ends == {i \in 0 .. tries - 1 : ~Functions!checkedPow(variant, i).ok \/ Functions!checkedPow(variant, i).value >= a}
           first == Functions!Min(ends)
           found(n) == /\ log = [ok |-> TRUE, value |-> n] /\ n \in Functions!Ints
                       /\ p[n] <= a /\ a < p[n + 1]
                       /\ variant # "three" => a <= p[w - 2]
<1> SUFFICES (variant # "three" /\ log = Functions!Thrown /\ a > p[w - 2]) \/ \E n \in 0 .. w - 1 : found(n)
  OBVIOUS
<1>1. w \in Nat /\ w >= 2 /\ tries = (IF variant = "three" THEN w - 1 ELSE w)
  BY IntWidths DEF Functions!logExponents
<1>2. log = IF ends = {} THEN Functions!Value(IF variant = "three" THEN w - 2 ELSE 0)
            ELSE IF ~Functions!checkedPow(variant, first).ok THEN Functions!Thrown
            ELSE Functions!Value(IF Functions!checkedPow(variant, first).value = a THEN first ELSE first - 1)
  <2>1. ~(a <= 0)
    BY IntsAre
  <2> QED BY <2>1 DEF Functions!checkedLog
<1>3. a \in Int /\ a <= p[w - 1] - 1 /\ p[w - 1] \in Nat
  <2>1. w - 1 \in Bits
    BY <1>1 DEF Bits
  <2> QED BY <2>1, IntsAre, Pow2Grows DEF Functions!MaxInt
<1>4. \A i \in 0 .. w : i \in Bits /\ i + 1 \in Bits /\ p[i] \in Nat /\ p[i] > i /\ p[i + 1] \in Nat
  <2>1. \A i \in 0 .. w : i \in Bits /\ i + 1 \in Bits
    BY <1>1 DEF Bits
  <2> QED BY <2>1, Pow2Grows
<1>5. p[0] = 1
  BY Pow2Is
<1>6. \A i \in 0 .. w - 2 : i \in Functions!Ints /\ Functions!Value(i) = [ok |-> TRUE, value |-> i]
  <2> SUFFICES ASSUME NEW i \in 0 .. w - 2 PROVE i \in Functions!Ints /\ Functions!Value(i) = [ok |-> TRUE, value |-> i]
    OBVIOUS
  <2>1. i \in Nat /\ i \in 0 .. w /\ i < w - 1 /\ w - 1 \in Bits
    BY <1>1 DEF Bits
  <2>2. 2 * p[i] <= p[w - 1] /\ p[i] > i /\ p[i] \in Nat
    BY <1>4, <2>1, Pow2Grows
  <2>3. Functions!MaxInt = p[w - 1] - 1 /\ Functions!Ints = Functions!MinInt .. Functions!MaxInt /\ Functions!MinInt < 0 /\ Functions!MinInt \in Int
    BY IntsAre DEF Functions!MaxInt
  <2> HIDE DEF p
  <2>4. i \in Functions!Ints
    BY <1>3, <2>1, <2>2, <2>3
  <2> QED BY <2>4, WrapKeeps DEF Functions!Value
<1>7. \A i \in 0 .. w - 1 : Functions!checkedPow(variant, i) = IF i < w - 1 THEN [ok |-> TRUE, value |-> p[i]] ELSE Functions!Thrown
  BY PowIs
<1> HIDE DEF p, w, log, ends, tries
<1>8. ends = {i \in 0 .. tries - 1 : i = w - 1 \/ p[i] >= a}
  <2>1. \A i \in 0 .. tries - 1 : i \in 0 .. w - 1 /\ i \in Nat
    BY <1>1
  <2>2. ASSUME NEW i \in 0 .. tries - 1
        PROVE  (~Functions!checkedPow(variant, i).ok \/ Functions!checkedPow(variant, i).value >= a) <=> (i = w - 1 \/ p[i] >= a)
    <3>1. CASE i < w - 1
      BY <1>1, <1>7, <2>1, <3>1
    <3>2. CASE i = w - 1
      BY <1>1, <1>7, <2>1, <3>2 DEF Functions!Thrown
    <3> QED BY <1>1, <2>1, <3>1, <3>2
  <2> QED BY <2>2 DEF ends
<1>9. CASE ends = {}
  <2>1. variant = "three"
    BY <1>1, <1>8, <1>9
  <2>2. w - 2 \in 0 .. w - 2 /\ w - 2 \in 0 .. w /\ w - 2 \in 0 .. tries - 1 /\ w - 2 \in 0 .. w - 1 /\ w - 2 + 1 = w - 1
    BY <1>1, <2>1
  <2>3. ~(p[w - 2] >= a)
    BY <1>1, <1>8, <1>9, <2>2
  <2>4. p[w - 2] <= a /\ a < p[w - 2 + 1]
    BY <1>3, <1>4, <2>2, <2>3
  <2>5. log = [ok |-> TRUE, value |-> w - 2] /\ w - 2 \in Functions!Ints
    BY <1>2, <1>6, <1>9, <2>1, <2>2
  <2> QED BY <2>1, <2>2, <2>4, <2>5
<1>10. CASE ends # {}
  <2>1. first \in ends /\ \A i \in ends : first <= i
    <3>1. ends \in SUBSET (0 .. w) /\ w \in Nat
      BY <1>1, <1>8
    <3>2. \E x \in ends : \A y \in ends : x <= y
      BY <1>10, <3>1, Ends
    <3> QED BY <3>2 DEF Functions!Min
  <2> HIDE DEF first
  <2>2. first \in 0 .. tries - 1 /\ (first = w - 1 \/ p[first] >= a) /\ first \in Nat /\ first \in 0 .. w /\ first \in 0 .. w - 1
    BY <1>1, <1>8, <2>1
  <2>3. \A i \in 0 .. first - 1 : p[i] < a
    <3> SUFFICES ASSUME NEW i \in 0 .. first - 1 PROVE p[i] < a
      OBVIOUS
    <3>1. i \in 0 .. tries - 1 /\ i \in 0 .. w /\ i < first
      BY <1>1, <2>2
    <3>2. i \notin ends
      BY <2>1, <2>2, <3>1
    <3> QED BY <1>3, <1>4, <1>8, <3>1, <3>2
  <2>4. CASE first = w - 1
    <3>1. variant # "three" /\ w - 2 \in 0 .. first - 1
      BY <1>1, <2>2, <2>4
    <3>2. log = Functions!Thrown
      BY <1>2, <1>7, <1>10, <2>2, <2>4 DEF Functions!Thrown
    <3>3. a > p[w - 2]
      BY <1>1, <1>3, <1>4, <2>3, <3>1
    <3> QED BY <3>1, <3>2, <3>3
  <2>5. CASE first # w - 1
    <3>1. first \in 0 .. w - 2 /\ first < w - 1 /\ p[first] >= a
      BY <1>1, <2>2, <2>5
    <3>2. Functions!checkedPow(variant, first) = [ok |-> TRUE, value |-> p[first]]
      BY <1>7, <2>2, <3>1
    <3>3. log = Functions!Value(IF p[first] = a THEN first ELSE first - 1)
      BY <1>2, <1>10, <3>2
    <3>4. p[first] <= p[w - 2] /\ p[first] < p[first + 1]
      <4>1. w - 2 \in 0 .. w /\ w - 2 \in Bits /\ first + 1 \in Bits /\ first \in Bits
        BY <1>1, <1>4, <2>2
      <4>2. first < w - 2 => 2 * p[first] <= p[w - 2]
        BY <4>1, Pow2Grows DEF p
      <4>3. 2 * p[first] <= p[first + 1] /\ p[first] > 0
        BY <1>4, <2>2, <4>1, Pow2Grows DEF p
      <4> QED BY <1>1, <1>4, <2>2, <3>1, <4>1, <4>2, <4>3
    <3>5. a <= p[w - 2]
      BY <1>1, <1>3, <1>4, <2>2, <3>1, <3>4
    <3>6. CASE p[first] = a
      <4>1. log = [ok |-> TRUE, value |-> first] /\ first \in Functions!Ints
        BY <1>6, <3>1, <3>3, <3>6
      <4>2. p[first] <= a /\ a < p[first + 1] /\ first \in 0 .. w - 1
        BY <1>3, <1>4, <2>2, <3>4, <3>6
      <4>3. found(first)
        BY <3>5, <4>1, <4>2
      <4> HIDE DEF found
      <4> QED BY <4>2, <4>3
    <3>7. CASE p[first] # a
      <4>1. first # 0
        BY <1>3, <1>5, <3>1, <3>7
      <4>2. first - 1 \in 0 .. w - 2 /\ first - 1 \in 0 .. first - 1 /\ first - 1 \in 0 .. w - 1 /\ first - 1 + 1 = first /\ first - 1 \in 0 .. w
        BY <1>1, <2>2, <4>1, <3>1
      <4>3. log = [ok |-> TRUE, value |-> first - 1] /\ first - 1 \in Functions!Ints
        BY <1>6, <3>3, <3>7, <4>2
      <4>4. p[first - 1] <= a /\ a < p[first - 1 + 1]
        BY <1>3, <1>4, <2>2, <2>3, <3>1, <3>7, <4>2
      <4> QED BY <3>5, <4>2, <4>3, <4>4
    <3> QED BY <3>6, <3>7
  <2> QED BY <2>4, <2>5
<1> QED BY <1>9, <1>10

(* The operations give their exact result, throw, or wrap.                   *)
LEMMA CheckedResults ==
  ASSUME NEW e \in Expressions
  PROVE  Functions!CheckedRight(e, Functions!Evaluated(e))
<1> DEFINE m == Functions!MaxInt
           k == Functions!MinInt
           I == Functions!Ints
           p == Functions!Pow2
           a == e.a
           b == e.b
           got == Functions!Evaluated(e)
           exact == Functions!Results(e)
           plain == got.ok = (exact \intersect I # {}) /\ (got.ok => got.value \in exact /\ got.value \in I)
           wrapped == /\ got.ok = (exact # {})
                      /\ got.ok => got.value \in I /\ \E x \in exact : (got.value - x) % p[IntWidth] = 0
<1> SUFFICES (Functions!Wraps(e) => wrapped) /\ (~Functions!Wraps(e) => plain)
  BY DEF Functions!CheckedRight
<1>1. m \in Nat /\ k = -m - 1 /\ k \in Int /\ I = k .. m /\ a \in I /\ b \in I
  BY IntsAre DEF Expressions
<1>0. /\ Functions!Wraps(e) <=> e.variant = "one" /\ e.op \in {"*", "/", "+", "-", "negate"}
      /\ e.op \in {"*", "/", "+", "-", "negate", "pow2", "log2"} /\ e.variant \in {"one", "three", "list"}
  BY DEF Expressions, Functions!Wraps, Functions!Arithmetic
<1>2. a \in Int /\ b \in Int /\ a * b \in Int /\ a + b \in Int /\ a - b \in Int /\ -a \in Int
  BY <1>1
<1>3. \A x \in I : Functions!Value(x) = [ok |-> TRUE, value |-> x]
  BY WrapKeeps DEF Functions!Value
<1>4. got = CASE e.op \in {"*", "/", "+", "-"} ->
                   IF e.variant = "one" THEN Functions!unchecked(e.op, a, b) ELSE Functions!checkedBinary(e.op, a, b)
                 [] e.op = "negate" -> IF e.variant = "one" THEN Functions!uncheckedMinus(a) ELSE Functions!checkedNegate(a)
                 [] e.op = "pow2" -> Functions!checkedPow(e.variant, a)
                 [] OTHER -> Functions!checkedLog(e.variant, a)
  BY DEF Functions!Evaluated, Functions!Arithmetic
<1>5. Functions!Thrown.ok = FALSE /\ IntWidth \in Nat /\ IntWidth >= 2
  BY IntWidths DEF Functions!Thrown
<1>6. ASSUME got = Functions!Thrown
      PROVE  /\ exact = {} => wrapped
             /\ exact \intersect I = {} => plain
  <2> HIDE DEF got, exact, I, p
  <2> QED BY <1>5, <1>6
<1>7. ASSUME NEW x \in exact, x \in I, got = Functions!Value(x) PROVE plain
  <2>1. got = [ok |-> TRUE, value |-> x]
    BY <1>3, <1>7
  <2> HIDE DEF got, exact, I
  <2>2. x \in exact \intersect I /\ got.ok = TRUE /\ got.value = x
    BY <1>7, <2>1
  <2>3. got.ok = (exact \intersect I # {})
    BY <2>2
  <2> QED BY <2>2, <2>3
<1>8. ASSUME NEW x \in exact, x \in Int, got = Functions!Value(x) PROVE wrapped
  <2> HIDE DEF got, exact, I, p
  <2>1. got.ok = TRUE /\ got.value = Functions!Wrap(x)
    BY <1>8 DEF Functions!Value
  <2>2. got.value \in I /\ (got.value - x) % p[IntWidth] = 0
    BY <1>8, <2>1, WrapsAround DEF I, p
  <2>3. exact # {} /\ \E y \in exact : (got.value - y) % p[IntWidth] = 0
    BY <1>8, <2>2
  <2>4. got.ok = (exact # {})
    BY <2>1, <2>3
  <2> QED BY <2>2, <2>3, <2>4
<1> HIDE DEF plain, wrapped
<1>9. ASSUME e.op \in {"*", "+", "-"} /\ e.variant # "one"
      PROVE  plain
  <2> DEFINE x == Functions!Exact(e.op, a, b)
  <2>1. exact = {x}
    BY <1>9 DEF Functions!Results
  <2>2. x \in Int /\ (e.op = "*" => x = a * b) /\ (e.op = "+" => x = a + b) /\ (e.op = "-" => x = a - b)
    BY <1>2, <1>9 DEF Functions!Exact
  <2>3. Functions!Overflows(e.op, a, b) <=> x \notin I
    BY <1>1, <1>2, <1>9, <2>2, ProductOverflows, SumOverflows, ZenonT(60)
  <2>4. got = IF x \in I THEN Functions!Value(x) ELSE Functions!Thrown
    BY <1>4, <1>9, <2>3 DEF Functions!checkedBinary
  <2> HIDE DEF got, exact, x, I
  <2> QED BY <1>6, <1>7, <2>1, <2>4
<1>10. ASSUME e.op = "/" /\ e.variant # "one"
      PROVE  plain
  <2> DEFINE q == Functions!Quotient(a, b)
  <2>1. exact = {n \in k .. m + 1 : b # 0 /\ \E rest \in I :
                   a = n * b + rest /\ rest * a >= 0 /\ Functions!Distance(rest, 0) < Functions!Distance(b, 0)}
    BY <1>10 DEF Functions!Results
  <2>2. got = IF b = 0 \/ (a = k /\ b = -1) THEN Functions!Thrown ELSE Functions!Value(q)
    BY <1>4, <1>10 DEF Functions!checkedBinary, Functions!Overflows, Functions!Exact
  <2> HIDE DEF got, exact, q
  <2>3. CASE b = 0
    BY <1>6, <2>1, <2>2, <2>3
  <2>4. CASE a = k /\ b = -1
    <3>1. ASSUME NEW n \in exact PROVE n = m + 1
      <4>1. PICK rest \in I : a = n * b + rest /\ Functions!Distance(rest, 0) < Functions!Distance(b, 0)
        BY <2>1
      <4>2. n \in Int /\ rest \in Int
        BY <1>1, <2>1, <3>1
      <4>3. n * b = -n /\ rest = 0
        BY <2>4, <4>1, <4>2 DEF Functions!Distance
      <4> QED BY <1>1, <2>4, <4>1, <4>2, <4>3
    <3>2. exact \intersect I = {}
      BY <1>1, <3>1
    <3> QED BY <1>6, <2>2, <2>4, <3>2
  <2>5. CASE b # 0 /\ ~(a = k /\ b = -1)
    <3>1. q \in I /\ \E rest \in I : /\ a = q * b + rest /\ rest * a >= 0
                                     /\ Functions!Distance(rest, 0) < Functions!Distance(b, 0)
      BY <1>1, <2>5, QuotientRight DEF q
    <3>2. q \in exact
      <4>1. q \in k .. m + 1
        BY <1>1, <3>1
      <4> QED BY <2>1, <2>5, <3>1, <4>1
    <3>3. got = Functions!Value(q)
      BY <2>2, <2>5
    <3> HIDE DEF I
    <3> QED BY <1>7, <3>1, <3>2, <3>3
  <2> QED BY <2>3, <2>4, <2>5
<1>11. ASSUME e.op = "negate" /\ e.variant # "one"
      PROVE  plain
  <2>1. exact = {-a}
    BY <1>11 DEF Functions!Results
  <2>2. got = IF a = k THEN Functions!Thrown ELSE Functions!Value(-a)
    BY <1>4, <1>11 DEF Functions!checkedNegate
  <2>3. -a \in I <=> a # k
    BY <1>1, <1>2
  <2> HIDE DEF got, exact, I
  <2> QED BY <1>6, <1>7, <2>1, <2>2, <2>3
<1>12. ASSUME e.op = "pow2" PROVE plain
  <2>1. exact = {p[n] : n \in {a} \intersect (0 .. IntWidth)}
    BY <1>12 DEF Functions!Results
  <2>2. got = Functions!checkedPow(e.variant, a)
    BY <1>4, <1>12
  <2> HIDE DEF got, exact
  <2>3. CASE a \in 0 .. IntWidth
    <3>1. exact = {p[a]} /\ p[a] \in Int
      <4>1. a \in Bits
        BY <1>5, <2>3 DEF Bits
      <4> QED BY <2>1, <2>3, <4>1, Pow2Grows
    <3>2. m = p[IntWidth - 1] - 1 /\ IntWidth - 1 \in Bits /\ p[IntWidth - 1] \in Nat
      <4>1. IntWidth - 1 \in Bits
        BY <1>5 DEF Bits
      <4> QED BY <4>1, Pow2Grows DEF Functions!MaxInt
    <3>3. a >= IntWidth - 1 => p[a] >= p[IntWidth - 1]
      <4>1. a \in Bits /\ p[IntWidth - 1] \in Nat
        BY <1>5, <2>3, <3>2 DEF Bits
      <4>2. IntWidth - 1 < a => 2 * p[IntWidth - 1] <= p[a]
        BY <3>2, <4>1, Pow2Grows
      <4> HIDE DEF p
      <4>3. a > IntWidth - 1 => p[a] >= p[IntWidth - 1]
        BY <3>1, <4>1, <4>2
      <4> QED BY <1>2, <1>5, <3>1, <4>1, <4>3
    <3>4. a < IntWidth - 1 => 2 * p[a] <= p[IntWidth - 1] /\ p[a] > a
      <4>1. a \in Bits
        BY <1>5, <2>3 DEF Bits
      <4> QED BY <3>2, <4>1, Pow2Grows
    <3> HIDE DEF p, m
    <3>5. p[a] \in I <=> a < IntWidth - 1
      <4>1. a >= 0 /\ IntWidth - 1 \in Int
        BY <1>2, <1>5, <2>3
      <4>2. CASE a < IntWidth - 1
        <5>1. p[a] <= m /\ k <= p[a]
          <6>1. m \in Nat /\ k = -m - 1 /\ m = p[IntWidth - 1] - 1 /\ p[IntWidth - 1] \in Nat /\ p[a] \in Int /\ a \in Int
            BY <1>1, <1>2, <3>1, <3>2
          <6>2. 2 * p[a] <= p[IntWidth - 1] /\ p[a] > a /\ a >= 0
            BY <3>4, <4>1, <4>2
          <6> QED BY <6>1, <6>2
        <5> QED BY <1>1, <3>1, <4>2, <5>1
      <4>3. CASE a >= IntWidth - 1
        <5>1. m \in Int /\ p[a] \in Int /\ p[a] > m
          <6>1. p[IntWidth - 1] \in Int /\ m = p[IntWidth - 1] - 1 /\ p[a] \in Int
            BY <3>1, <3>2
          <6>2. p[a] >= p[IntWidth - 1]
            BY <3>3, <4>3
          <6> QED BY <6>1, <6>2
        <5>2. p[a] \notin I
          BY <1>1, <5>1
        <5>3. ~(a < IntWidth - 1)
          BY <1>2, <4>1, <4>3
        <5> QED BY <5>2, <5>3
      <4> QED BY <1>2, <4>1, <4>2, <4>3
    <3>6. a < IntWidth - 1 => got = [ok |-> TRUE, value |-> p[a]]
      <4>1. a < IntWidth - 1 => a \in 0 .. IntWidth - 1
        BY <1>5, <2>3
      <4> QED BY <2>2, <4>1, PowIs DEF p
    <3>7. a >= IntWidth - 1 => got = Functions!Thrown
      BY <2>2 DEF Functions!checkedPow
    <3>8. got = IF p[a] \in I THEN Functions!Value(p[a]) ELSE Functions!Thrown
      <4>1. CASE a < IntWidth - 1
        <5>1. p[a] \in I /\ got = [ok |-> TRUE, value |-> p[a]]
          BY <3>5, <3>6, <4>1
        <5> QED BY <1>3, <5>1
      <4>2. CASE ~(a < IntWidth - 1)
        <5>1. p[a] \notin I /\ a >= IntWidth - 1
          BY <1>2, <1>5, <3>5, <4>2
        <5> QED BY <3>7, <5>1
      <4> QED BY <4>1, <4>2
    <3> HIDE DEF I
    <3> QED BY <1>6, <1>7, <3>1, <3>8
  <2>4. CASE a \notin 0 .. IntWidth
    <3>1. exact = {}
      BY <2>1, <2>4
    <3>2. a < 0 \/ a >= IntWidth - 1
      BY <1>2, <1>5, <2>4
    <3>3. got = Functions!Thrown
      BY <2>2, <3>2 DEF Functions!checkedPow
    <3> QED BY <1>6, <3>1, <3>3
  <2> QED BY <2>3, <2>4
<1>13. ASSUME e.op = "log2" PROVE plain
  <2>1. exact = {n \in 0 .. IntWidth : p[n] <= a /\ a < p[n + 1] /\ (e.variant = "three" \/ a <= p[IntWidth - 2])}
    BY <1>13 DEF Functions!Results
  <2>2. got = Functions!checkedLog(e.variant, a)
    BY <1>4, <1>13
  <2> HIDE DEF got, exact
  <2>3. \A n \in 0 .. IntWidth : p[n] \in Nat /\ p[n] > n
    <3>1. \A n \in 0 .. IntWidth : n \in Bits
      BY <1>5 DEF Bits
    <3> QED BY <3>1, Pow2Grows
  <2> HIDE DEF p
  <2>4. CASE a <= 0
    <3>1. got = Functions!Thrown
      BY <2>2, <2>4 DEF Functions!checkedLog
    <3>2. exact = {}
      BY <1>2, <2>1, <2>3, <2>4
    <3> QED BY <1>6, <3>1, <3>2
  <2>5. CASE a > 0
    <3>1. \/ e.variant # "three" /\ got = Functions!Thrown /\ a > p[IntWidth - 2]
          \/ \E n \in 0 .. IntWidth - 1 :
               /\ got = [ok |-> TRUE, value |-> n] /\ n \in I
               /\ p[n] <= a /\ a < p[n + 1]
               /\ e.variant # "three" => a <= p[IntWidth - 2]
      BY <1>0, <1>1, <1>13, <2>2, <2>5, LogIs DEF p
    <3>2. CASE e.variant # "three" /\ got = Functions!Thrown /\ a > p[IntWidth - 2]
      <4>1. IntWidth - 2 \in 0 .. IntWidth
        BY <1>5
      <4>2. exact = {}
        BY <1>2, <2>1, <2>3, <3>2, <4>1
      <4> QED BY <1>6, <3>2, <4>2
    <3>3. ASSUME NEW n \in 0 .. IntWidth - 1, got = [ok |-> TRUE, value |-> n], n \in I,
                 p[n] <= a, a < p[n + 1], e.variant # "three" => a <= p[IntWidth - 2]
          PROVE  plain
      <4>1. n \in 0 .. IntWidth
        BY <1>5
      <4>2. n \in exact
        BY <1>13, <2>1, <3>3, <4>1
      <4>3. got = Functions!Value(n)
        BY <1>3, <3>3
      <4> HIDE DEF I
      <4> QED BY <1>7, <3>3, <4>2, <4>3
    <3> QED BY <3>1, <3>2, <3>3
  <2> QED BY <1>2, <2>4, <2>5
<1>14. ASSUME e.variant = "one" /\ e.op \in {"*", "+", "-"}
       PROVE  wrapped
  <2> DEFINE x == Functions!Exact(e.op, a, b)
  <2>1. exact = {x} /\ x \in Int
    BY <1>2, <1>14 DEF Functions!Exact, Functions!Results
  <2>2. got = Functions!Value(x)
    BY <1>4, <1>14 DEF Functions!unchecked
  <2> HIDE DEF got, exact, x
  <2> QED BY <1>8, <2>1, <2>2
<1>15. ASSUME e.variant = "one" /\ e.op = "negate"
       PROVE  wrapped
  <2>1. exact = {-a} /\ got = Functions!Value(-a)
    BY <1>4, <1>15 DEF Functions!uncheckedMinus, Functions!Results
  <2> HIDE DEF got, exact
  <2> QED BY <1>2, <1>8, <2>1
<1>16. ASSUME e.variant = "one" /\ e.op = "/"
       PROVE  wrapped
  <2> DEFINE q == Functions!Quotient(a, b)
  <2>1. exact = {n \in k .. m + 1 : b # 0 /\ \E rest \in I :
                   a = n * b + rest /\ rest * a >= 0 /\ Functions!Distance(rest, 0) < Functions!Distance(b, 0)}
    BY <1>16 DEF Functions!Results
  <2>2. got = IF b = 0 THEN Functions!Thrown ELSE Functions!Value(q)
    BY <1>4, <1>16 DEF Functions!unchecked, Functions!Exact
  <2> HIDE DEF got, exact, q
  <2>3. CASE b = 0
    BY <1>6, <2>1, <2>2, <2>3
  <2>4. CASE a = k /\ b = -1
    <3>1. q = m + 1
      <4>1. q = (m + 1) \div 1
        BY <1>1, <2>4, QuotientIs DEF q
      <4> HIDE DEF m
      <4> QED BY <1>1, <4>1
    <3>2. 0 \in I /\ a = (m + 1) * b + 0 /\ 0 * a >= 0 /\ m + 1 \in k .. m + 1
      BY <1>1, <1>2, <2>4
    <3>3. Functions!Distance(0, 0) < Functions!Distance(b, 0) /\ b # 0
      BY <2>4 DEF Functions!Distance
    <3>4. q \in exact /\ q \in Int
      BY <1>1, <2>1, <3>1, <3>2, <3>3
    <3> QED BY <1>8, <2>2, <3>3, <3>4
  <2>5. CASE b # 0 /\ ~(a = k /\ b = -1)
    <3>1. q \in I /\ \E rest \in I : /\ a = q * b + rest /\ rest * a >= 0
                                     /\ Functions!Distance(rest, 0) < Functions!Distance(b, 0)
      BY <1>1, <2>5, QuotientRight DEF q
    <3>2. q \in exact /\ q \in Int
      <4>1. q \in k .. m + 1 /\ q \in Int
        BY <1>1, <3>1
      <4> QED BY <2>1, <2>5, <3>1, <4>1
    <3> QED BY <1>8, <2>2, <2>5, <3>2
  <2> QED BY <2>3, <2>4, <2>5
<1> QED BY <1>0, <1>9, <1>10, <1>11, <1>12, <1>13, <1>14, <1>15, <1>16

-------------------------------------------------------------------------------
(***************************************************************************)
(* java's searches in a list of any length.                                *)
(***************************************************************************)
IsList(a, n) == n \in Nat /\ a \in [1 .. n -> Functions!Ints]

\* The loop goes to the right of the elements that come before x.
Before(a, x, isUp, i) ==
  (~isUp /\ Functions!get(a, i) > x) \/ (isUp /\ Functions!get(a, i) <= x)
Encloses(a, n, x, isUp, l, r) ==
  /\ l \in -1 .. n /\ r \in -1 .. n /\ l < r
  /\ l >= 0 => Before(a, x, isUp, l)
  /\ r < n => ~Before(a, x, isUp, r)

LEMMA ListIs ==
  ASSUME NEW a, NEW n, IsList(a, n)
  PROVE  /\ n \in Nat /\ a \in Seq(Functions!Ints) /\ Len(a) = n /\ DOMAIN a = 1 .. n
         /\ \A i \in 1 .. n : a[i] \in Int /\ a[i] \in Functions!Ints
         /\ \A i \in 0 .. n - 1 : Functions!get(a, i) = a[i + 1] /\ a[i + 1] \in Int
<1>1. n \in Nat /\ a \in [1 .. n -> Functions!Ints]
  BY DEF IsList
<1>2. a \in Seq(Functions!Ints) /\ Len(a) = n /\ DOMAIN a = 1 .. n
  BY <1>1
<1>3. \A i \in 1 .. n : a[i] \in Functions!Ints /\ a[i] \in Int
  <2>1. Functions!Ints \subseteq Int
    BY IntsAre
  <2> QED BY <1>1, <2>1
<1>4. \A i \in 0 .. n - 1 : i + 1 \in 1 .. n
  BY <1>1
<1> QED BY <1>1, <1>2, <1>3, <1>4 DEF Functions!get

LEMMA MiddleIs ==
  ASSUME NEW n \in Nat, NEW l \in -1 .. n, NEW r \in -1 .. n
  PROVE  /\ Functions!middle(l, r) \in -1 .. n
         /\ r - l > 1 => l < Functions!middle(l, r) /\ Functions!middle(l, r) < r
BY DEF Functions!middle

(* A round halves what l and r enclose.                                      *)
LEMMA HalveKeeps ==
  ASSUME NEW a, NEW n, IsList(a, n), NEW x \in Int, NEW isUp \in BOOLEAN,
         NEW s \in [l : -1 .. n, r : -1 .. n], Encloses(a, n, x, isUp, s.l, s.r)
  PROVE  LET t == Functions!halve(a, x, isUp, s)
         IN  /\ Encloses(a, n, x, isUp, t.l, t.r)
             /\ t.r - t.l <= 1 \/ t.r - t.l < s.r - s.l
<1> DEFINE m == Functions!middle(s.l, s.r)
           t == Functions!halve(a, x, isUp, s)
<1>1. n \in Nat /\ s.l \in -1 .. n /\ s.r \in -1 .. n /\ s.l < s.r
  BY ListIs DEF Encloses
<1>2. t = IF s.r - s.l <= 1 THEN s ELSE IF Before(a, x, isUp, m) THEN [s EXCEPT !.l = m] ELSE [s EXCEPT !.r = m]
  BY DEF Functions!halve, Before
<1>3. m \in -1 .. n /\ (s.r - s.l > 1 => s.l < m /\ m < s.r)
  BY <1>1, MiddleIs
<1> HIDE DEF m, t
<1>4. CASE s.r - s.l <= 1
  BY <1>2, <1>4 DEF t
<1>5. CASE ~(s.r - s.l <= 1) /\ Before(a, x, isUp, m)
  <2>1. t.l = m /\ t.r = s.r
    BY <1>2, <1>5
  <2>2. s.l < m /\ m < s.r
    BY <1>1, <1>3, <1>5
  <2>3. Encloses(a, n, x, isUp, t.l, t.r)
    BY <1>1, <1>3, <1>5, <2>1, <2>2 DEF Encloses
  <2>4. t.r - t.l < s.r - s.l
    BY <1>1, <1>3, <2>1, <2>2
  <2> QED BY <2>3, <2>4 DEF t
<1>6. CASE ~(s.r - s.l <= 1) /\ ~Before(a, x, isUp, m)
  <2>1. t.l = s.l /\ t.r = m
    BY <1>2, <1>6
  <2>2. s.l < m /\ m < s.r
    BY <1>1, <1>3, <1>6
  <2>3. Encloses(a, n, x, isUp, t.l, t.r)
    BY <1>1, <1>3, <1>6, <2>1, <2>2 DEF Encloses
  <2>4. t.r - t.l < s.r - s.l
    BY <1>1, <1>3, <2>1, <2>2
  <2> QED BY <2>3, <2>4 DEF t
<1> QED BY <1>4, <1>5, <1>6

IsHalving(g, a, x, isUp) ==
  g = [k \in 0 .. Len(a) |-> IF k = 0 THEN [l |-> -1, r |-> Len(a)] ELSE Functions!halve(a, x, isUp, g[k - 1])]

LEMMA HalvingExists ==
  ASSUME NEW a, NEW n, IsList(a, n), NEW x \in Int, NEW isUp \in BOOLEAN
  PROVE  \E g : IsHalving(g, a, x, isUp) /\ \A k \in 0 .. n : g[k] \in [l : -1 .. n, r : -1 .. n]
<1> DEFINE S == [l : -1 .. n, r : -1 .. n]
           first == [l |-> -1, r |-> n]
           h(s) == Functions!halve(a, x, isUp, s)
           step == [s \in S |-> [k \in 1 .. n |-> h(s)]]
<1>1. n \in Nat /\ Len(a) = n
  BY ListIs
<1>2. \A s \in S : h(s) \in S
  <2> SUFFICES ASSUME NEW s \in S PROVE h(s) \in S
    OBVIOUS
  <2>1. Functions!middle(s.l, s.r) \in -1 .. n
    BY <1>1, MiddleIs
  <2> QED BY <2>1 DEF Functions!halve
<1>3. first \in S
  BY <1>1
<1>4. IsStep(step, S, n) /\ \A s \in S, k \in 1 .. n : step[s][k] = h(s)
  BY <1>2 DEF IsStep
<1> HIDE DEF step, S, first, h
<1>5. PICK g : IsLoop(g, first, step, S, n)
  BY <1>1, <1>3, <1>4, LoopExists
<1>6. g \in [0 .. n -> S] /\ g[0] = first /\ \A k \in 1 .. n : g[k] = step[g[k - 1]][k]
  BY <1>5 DEF IsLoop
<1>7. \A i \in 0 .. n : g[i] = IF i = 0 THEN first ELSE h(g[i - 1])
  <2> SUFFICES ASSUME NEW i \in 0 .. n PROVE g[i] = IF i = 0 THEN first ELSE h(g[i - 1])
    OBVIOUS
  <2>1. CASE i = 0
    BY <1>6, <2>1
  <2>2. CASE i # 0
    <3>1. i \in 1 .. n /\ i - 1 \in 0 .. n
      BY <1>1, <2>2
    <3>2. g[i - 1] \in S /\ g[i] = step[g[i - 1]][i]
      BY <1>6, <3>1
    <3>3. g[i] = h(g[i - 1])
      BY <1>4, <3>1, <3>2
    <3> QED BY <2>2, <3>3
  <2> QED BY <2>1, <2>2
<1>8. g = [i \in 0 .. n |-> g[i]]
  BY <1>6
<1>9. IsHalving(g, a, x, isUp)
  BY <1>1, <1>7, <1>8 DEF IsHalving, first, h
<1> QED BY <1>6, <1>9 DEF S

(* After as many rounds as there are elements l and r are neighbours.        *)
LEMMA BoundsMeet ==
  ASSUME NEW a, NEW n, IsList(a, n), NEW x \in Int, NEW isUp \in BOOLEAN
  PROVE  LET s == Functions!Bounds(a, x, isUp)
         IN  s.r = s.l + 1 /\ Encloses(a, n, x, isUp, s.l, s.r)
<1> DEFINE s == Functions!Bounds(a, x, isUp)
           g == CHOOSE f : IsHalving(f, a, x, isUp)
           Bounded(k) == /\ g[k] \in [l : -1 .. n, r : -1 .. n]
                         /\ Encloses(a, n, x, isUp, g[k].l, g[k].r)
                         /\ g[k].r - g[k].l <= 1 \/ g[k].r - g[k].l <= n + 1 - k
           T == {k \in 0 .. n : ~Bounded(k)}
<1>1. n \in Nat /\ Len(a) = n
  BY ListIs
<1>2. s = g[n]
  BY <1>1 DEF Functions!Bounds, IsHalving
<1>3. IsHalving(g, a, x, isUp)
  BY HalvingExists
<1> HIDE DEF g, s
<1>4. \A k \in 0 .. n : g[k] = IF k = 0 THEN [l |-> -1, r |-> n] ELSE Functions!halve(a, x, isUp, g[k - 1])
  BY <1>1, <1>3 DEF IsHalving
<1>5. Bounded(0)
  <2>1. g[0].l = -1 /\ g[0].r = n /\ g[0] \in [l : -1 .. n, r : -1 .. n]
    BY <1>1, <1>4
  <2>2. Encloses(a, n, x, isUp, g[0].l, g[0].r)
    BY <1>1, <2>1 DEF Encloses
  <2> QED BY <1>1, <2>1, <2>2
<1>6. ASSUME NEW k \in 1 .. n, Bounded(k - 1) PROVE Bounded(k)
  <2>1. k - 1 \in 0 .. n /\ k \in 0 .. n /\ k # 0 /\ k \in Nat
    BY <1>1
  <2>2. g[k] = Functions!halve(a, x, isUp, g[k - 1])
    BY <1>4, <2>1
  <2>3. Encloses(a, n, x, isUp, g[k].l, g[k].r) /\ (g[k].r - g[k].l <= 1 \/ g[k].r - g[k].l < g[k - 1].r - g[k - 1].l)
    BY <1>6, <2>2, HalveKeeps
  <2>4. g[k] \in [l : -1 .. n, r : -1 .. n]
    <3>1. Functions!middle(g[k - 1].l, g[k - 1].r) \in -1 .. n
      BY <1>1, <1>6, MiddleIs
    <3> QED BY <1>6, <2>2, <3>1 DEF Functions!halve
  <2>5. g[k].r \in Int /\ g[k].l \in Int /\ g[k - 1].r \in Int /\ g[k - 1].l \in Int
    BY <1>6, <2>4
  <2>6. g[k].r - g[k].l <= 1 \/ g[k].r - g[k].l <= n + 1 - k
    BY <1>1, <1>6, <2>1, <2>3, <2>5, SMTT(60)
  <2> QED BY <2>3, <2>4, <2>6
<1> HIDE DEF Bounded
<1>7. ASSUME NEW k \in T PROVE \E i \in T : i < k
  <2>1. k # 0 /\ k \in 0 .. n /\ k \in 1 .. n /\ k - 1 \in 0 .. n /\ k - 1 < k
    BY <1>1, <1>5
  <2>2. ~Bounded(k - 1)
    BY <1>6, <2>1
  <2> QED BY <2>1, <2>2
<1>8. T \in SUBSET Nat
  OBVIOUS
<1> HIDE DEF T
<1>9. T = {}
  BY <1>7, <1>8, NoDescent
<1>10. Bounded(n)
  <2>1. n \in 0 .. n
    BY <1>1
  <2> QED BY <1>9, <2>1 DEF T
<1>11. Encloses(a, n, x, isUp, s.l, s.r) /\ s.l \in Int /\ s.r \in Int /\ s.r - s.l <= 1
  BY <1>1, <1>2, <1>10 DEF Bounded
<1>12. s.r = s.l + 1
  BY <1>11 DEF Encloses
<1> QED BY <1>11, <1>12 DEF s

(* The recursion on l and r is a function: the calls from one pair are on    *)
(* nearer ones.                                                              *)
IsBetween(f, a, x) ==
  f = [s \in [l : -1 .. Len(a), r : -1 .. Len(a)] |->
         LET m == Functions!middle(s.l, s.r)
         IN  IF s.r - s.l <= 1 THEN Functions!Met(a, x, s.l, s.r)
             ELSE f[IF Functions!get(a, m) > x THEN [s EXCEPT !.l = m] ELSE [s EXCEPT !.r = m]]]

LEMMA BetweenExists ==
  ASSUME NEW a, NEW n, IsList(a, n), NEW x \in Int
  PROVE  \E f : IsBetween(f, a, x)
<1> DEFINE P == [l : -1 .. n, r : -1 .. n]
           S == [P -> Int]
           met(s) == Functions!Met(a, x, s.l, s.r)
           mid(s) == Functions!middle(s.l, s.r)
           next(s) == IF Functions!get(a, mid(s)) > x THEN [s EXCEPT !.l = mid(s)] ELSE [s EXCEPT !.r = mid(s)]
           call(f, s) == IF s.r - s.l <= 1 THEN met(s) ELSE f[next(s)]
           table(f) == [s \in P |-> call(f, s)]
           step == [f \in S |-> [k \in 1 .. n + 2 |-> table(f)]]
           first == [s \in P |-> met(s)]
<1>1. n \in Nat /\ Len(a) = n
  BY ListIs
<1>2. \A s \in P : met(s) \in Int
  BY DEF Functions!Met
<1>3. \A s \in P : s.r - s.l \in Int /\ next(s) \in P /\ (s.r - s.l > 1 => next(s).r - next(s).l < s.r - s.l)
  <2> SUFFICES ASSUME NEW s \in P
               PROVE  s.r - s.l \in Int /\ next(s) \in P /\ (s.r - s.l > 1 => next(s).r - next(s).l < s.r - s.l)
    OBVIOUS
  <2>1. s.l \in -1 .. n /\ s.r \in -1 .. n
    OBVIOUS
  <2>2. mid(s) \in -1 .. n /\ (s.r - s.l > 1 => s.l < mid(s) /\ mid(s) < s.r)
    BY <1>1, <2>1, MiddleIs
  <2> HIDE DEF mid
  <2>3. next(s) \in P
    BY <2>1, <2>2
  <2>4. (next(s).l = mid(s) /\ next(s).r = s.r) \/ (next(s).l = s.l /\ next(s).r = mid(s))
    BY <2>1
  <2> HIDE DEF next, P
  <2>5. s.r - s.l > 1 => next(s).r - next(s).l < s.r - s.l
    BY <1>1, <2>1, <2>2, <2>4
  <2> QED BY <1>1, <2>1, <2>3, <2>5
<1> HIDE DEF met, next
<1>4. \A f \in S, s \in P : call(f, s) \in Int
  BY <1>2, <1>3
<1>5. first \in S /\ \A s \in P : first[s] = met(s)
  BY <1>2
<1> HIDE DEF first, call
<1>6. \A f \in S : table(f) \in S /\ \A s \in P : table(f)[s] = call(f, s)
  BY <1>4
<1> HIDE DEF table
<1>7. IsStep(step, S, n + 2) /\ \A f \in S, k \in 1 .. n + 2 : step[f][k] = table(f)
  BY <1>6 DEF IsStep
<1>8. n + 2 \in Nat
  BY <1>1
<1> HIDE DEF step, S
<1>9. PICK g : IsLoop(g, first, step, S, n + 2)
  BY <1>5, <1>7, <1>8, LoopExists
<1>10. \A k \in 0 .. n + 2 : g[k] \in S
  BY <1>9 DEF IsLoop
<1>11. g[0] = first /\ \A k \in 1 .. n + 2 : g[k] = table(g[k - 1])
  <2>1. g[0] = first /\ \A k \in 1 .. n + 2 : g[k] = step[g[k - 1]][k]
    BY <1>9 DEF IsLoop
  <2>2. ASSUME NEW k \in 1 .. n + 2 PROVE g[k] = table(g[k - 1])
    <3>1. k - 1 \in 0 .. n + 2
      BY <1>1
    <3> QED BY <1>7, <1>10, <2>1, <3>1
  <2> QED BY <2>1, <2>2
<1> DEFINE Same(k) == \A s \in P : s.r - s.l <= k + 1 => g[k][s] = g[k + 1][s]
           T == {k \in 0 .. n + 1 : ~Same(k)}
<1> HIDE DEF P
<1>12. Same(0)
  <2> SUFFICES ASSUME NEW s \in P, s.r - s.l <= 1 PROVE g[0][s] = g[1][s]
    BY <1>3
  <2>1. g[0][s] = met(s)
    BY <1>5, <1>11
  <2>2. g[1] = table(g[0])
    <3>1. 1 \in 1 .. n + 2 /\ 1 - 1 = 0
      BY <1>1
    <3> QED BY <1>11, <3>1
  <2>3. g[1][s] = call(g[0], s)
    BY <1>1, <1>6, <1>10, <2>2
  <2> QED BY <2>1, <2>3 DEF call
<1>13. ASSUME NEW k \in 1 .. n + 1, Same(k - 1) PROVE Same(k)
  <2> SUFFICES ASSUME NEW s \in P, s.r - s.l <= k + 1 PROVE g[k][s] = g[k + 1][s]
    OBVIOUS
  <2>1. k \in Nat /\ k - 1 \in 0 .. n + 2 /\ k \in 1 .. n + 2 /\ k + 1 \in 1 .. n + 2 /\ k \in 0 .. n + 2 /\ k + 1 - 1 = k /\ k - 1 + 1 = k
    BY <1>1
  <2>2. g[k] = table(g[k - 1]) /\ g[k + 1] = table(g[k])
    BY <1>11, <2>1
  <2>3. g[k][s] = call(g[k - 1], s) /\ g[k + 1][s] = call(g[k], s)
    BY <1>6, <1>10, <2>1, <2>2
  <2>4. CASE s.r - s.l <= 1
    BY <2>3, <2>4 DEF call
  <2>5. CASE ~(s.r - s.l <= 1)
    <3>1. next(s) \in P /\ next(s).r - next(s).l < s.r - s.l /\ s.r - s.l \in Int /\ next(s).r - next(s).l \in Int
      BY <1>3, <2>5
    <3>2. next(s).r - next(s).l <= k - 1 + 1
      BY <2>1, <3>1
    <3>3. g[k - 1][next(s)] = g[k][next(s)]
      BY <1>13, <2>1, <3>1, <3>2
    <3> QED BY <2>3, <2>5, <3>3 DEF call
  <2> QED BY <2>4, <2>5
<1> HIDE DEF Same
<1>14. ASSUME NEW k \in T PROVE \E i \in T : i < k
  <2>1. k \in 0 .. n + 1 /\ k # 0 /\ k \in 1 .. n + 1 /\ k - 1 \in 0 .. n + 1 /\ k - 1 < k
    BY <1>1, <1>12
  <2>2. ~Same(k - 1)
    BY <1>13, <2>1
  <2> QED BY <2>1, <2>2
<1>15. T \in SUBSET Nat
  OBVIOUS
<1> HIDE DEF T
<1>16. T = {}
  BY <1>14, <1>15, NoDescent
<1>17. Same(n + 1)
  <2>1. n + 1 \in 0 .. n + 1
    BY <1>1
  <2> QED BY <1>16, <2>1 DEF T
<1>18. g[n + 1] = table(g[n + 1])
  <2>1. n + 1 \in 0 .. n + 2 /\ n + 2 \in 0 .. n + 2 /\ n + 2 \in 1 .. n + 2 /\ n + 2 - 1 = n + 1 /\ n + 1 + 1 = n + 2
    BY <1>1
  <2>2. g[n + 2] = table(g[n + 1])
    BY <1>11, <2>1
  <2>3. \A s \in P : g[n + 1][s] = g[n + 2][s]
    <3>1. \A s \in P : s.r - s.l <= n + 1 + 1
      BY <1>1 DEF P
    <3> QED BY <1>17, <2>1, <3>1 DEF Same
  <2>4. g[n + 1] = g[n + 2]
    <3>1. g[n + 1] \in [P -> Int] /\ g[n + 2] \in [P -> Int]
      BY <1>10, <2>1 DEF S
    <3> QED BY <2>3, <3>1
  <2> QED BY <2>2, <2>4
<1>19. IsBetween(g[n + 1], a, x)
  BY <1>1, <1>18 DEF IsBetween, table, call, mid, met, next, P
<1> QED BY <1>19

(* A list each of whose elements is not above the one before it descends.    *)
Descends(a, n) == IsList(a, n) /\ \A i, j \in 1 .. n : i <= j => a[i] >= a[j]

LEMMA DescendingIs ==
  ASSUME NEW a \in Descending
  PROVE  \E n : Descends(a, n)
<1>1. a \in UNION {[1 .. m -> Functions!Ints] : m \in 0 .. MaxList} /\ \A i \in 2 .. Len(a) : a[i - 1] >= a[i]
  BY DEF Descending, SeqOf
<1>2. PICK n \in Nat : a \in [1 .. n -> Functions!Ints]
  BY <1>1
<1>3. IsList(a, n) /\ Len(a) = n /\ \A i \in 1 .. n : a[i] \in Int
  <2>1. IsList(a, n)
    BY <1>2 DEF IsList
  <2> QED BY <2>1, ListIs
<1> DEFINE T == {d \in Nat : \E i \in 1 .. n : i + d \in 1 .. n /\ ~(a[i] >= a[i + d])}
<1>4. ASSUME NEW d \in T PROVE \E e \in T : e < d
  <2>1. PICK i \in 1 .. n : i + d \in 1 .. n /\ ~(a[i] >= a[i + d])
    OBVIOUS
  <2>2. d # 0 /\ d \in Nat
    BY <1>3, <2>1
  <2>3. i + d - 1 \in 1 .. n /\ i + d \in 2 .. n /\ d - 1 \in Nat /\ i + (d - 1) = i + d - 1
    BY <1>2, <2>1, <2>2
  <2>4. a[i + d - 1] >= a[i + d]
    BY <1>1, <1>3, <2>3
  <2>5. ~(a[i] >= a[i + (d - 1)])
    BY <1>3, <2>1, <2>3, <2>4
  <2>6. d - 1 \in T
    BY <2>3, <2>5
  <2> QED BY <2>2, <2>6
<1>5. T \in SUBSET Nat
  OBVIOUS
<1> HIDE DEF T
<1>6. T = {}
  BY <1>4, <1>5, NoDescent
<1>7. ASSUME NEW i \in 1 .. n, NEW j \in 1 .. n, i <= j PROVE a[i] >= a[j]
  <2>1. j - i \in Nat /\ i + (j - i) = j
    BY <1>2, <1>7
  <2> QED BY <1>6, <2>1 DEF T
<1> QED BY <1>3, <1>7 DEF Descends

FirstPlace(a, x) == Cardinality({i \in DOMAIN a : a[i] > x})

(* The neighbours that enclose x in a descending list are around its place.  *)
LEMMA MetIs ==
  ASSUME NEW a, NEW n, Descends(a, n), NEW x \in Int, NEW l, NEW r,
         r = l + 1, Encloses(a, n, x, FALSE, l, r)
  PROVE  FirstPlace(a, x) = r /\ Functions!Met(a, x, l, r) = r
<1>1. n \in Nat /\ DOMAIN a = 1 .. n /\ \A i \in 1 .. n : a[i] \in Int
  BY ListIs DEF Descends
<1>2. \A i \in 0 .. n - 1 : Functions!get(a, i) = a[i + 1]
  BY ListIs DEF Descends
<1>3. r \in 0 .. n /\ l = r - 1 /\ l \in Int /\ r \in Int
  BY <1>1 DEF Encloses
<1>4. l >= 0 => a[r] > x /\ Functions!get(a, l) = a[r] /\ r \in 1 .. n
  <2>1. l >= 0 => l \in 0 .. n - 1 /\ l + 1 = r /\ Functions!get(a, l) > x
    BY <1>1, <1>3 DEF Encloses, Before
  <2> QED BY <1>1, <1>2, <1>3, <2>1
<1>5. r < n => ~(a[r + 1] > x) /\ r + 1 \in 1 .. n
  <2>1. r < n => r \in 0 .. n - 1 /\ ~(Functions!get(a, r) > x)
    BY <1>1, <1>3 DEF Encloses, Before
  <2> QED BY <1>1, <1>2, <1>3, <2>1
<1>6. {i \in DOMAIN a : a[i] > x} = 1 .. r
  <2>1. ASSUME NEW i \in 1 .. n PROVE a[i] > x <=> i <= r
    <3>1. CASE i <= r
      <4>1. l >= 0 /\ r \in 1 .. n
        BY <1>1, <1>3, <3>1
      <4>2. a[i] >= a[r]
        BY <3>1, <4>1 DEF Descends
      <4> QED BY <1>1, <1>4, <3>1, <4>1, <4>2
    <3>2. CASE i > r
      <4>1. r < n /\ r + 1 \in 1 .. n /\ r + 1 <= i
        BY <1>1, <1>3, <3>2
      <4>2. a[r + 1] >= a[i]
        BY <4>1 DEF Descends
      <4> QED BY <1>1, <1>3, <1>5, <3>2, <4>1, <4>2
    <3> QED BY <1>1, <1>3, <3>1, <3>2
  <2> QED BY <1>1, <1>3, <2>1
<1>7. Cardinality(1 .. r) = r
  BY <1>1, <1>3, FS_Interval
<1>8. Functions!Met(a, x, l, r) = r
  <2>1. l >= 0 => Functions!get(a, l) # x
    BY <1>1, <1>4
  <2> QED BY <2>1 DEF Functions!Met
<1> QED BY <1>6, <1>7, <1>8 DEF FirstPlace

LEMMA IterIs ==
  ASSUME NEW a, NEW n, Descends(a, n), NEW x \in Int
  PROVE  Functions!binIter(a, x, FALSE) = FirstPlace(a, x)
<1>1. IsList(a, n)
  BY DEF Descends
<1>2. Functions!Bounds(a, x, FALSE).r = Functions!Bounds(a, x, FALSE).l + 1
      /\ Encloses(a, n, x, FALSE, Functions!Bounds(a, x, FALSE).l, Functions!Bounds(a, x, FALSE).r)
  BY <1>1, BoundsMeet
<1> QED BY <1>2, MetIs, ZenonT(60) DEF Functions!binIter

LEMMA RecurIs ==
  ASSUME NEW a, NEW n, Descends(a, n), NEW x \in Int
  PROVE  Functions!recursion(a, x) = FirstPlace(a, x)
<1> DEFINE f == CHOOSE g : IsBetween(g, a, x)
           P == [l : -1 .. n, r : -1 .. n]
           T == {d \in Nat : \E s \in P : s.r - s.l = d + 1 /\ Encloses(a, n, x, FALSE, s.l, s.r) /\ f[s] # FirstPlace(a, x)}
<1>1. IsList(a, n) /\ n \in Nat /\ Len(a) = n
  BY ListIs DEF Descends
<1>2. Functions!recursion(a, x) = f[[l |-> -1, r |-> n]]
  BY <1>1 DEF Functions!recursion, IsBetween
<1>3. IsBetween(f, a, x)
  BY <1>1, BetweenExists
<1> HIDE DEF f
<1>4. ASSUME NEW s \in P
      PROVE  f[s] = LET m == Functions!middle(s.l, s.r)
                    IN  IF s.r - s.l <= 1 THEN Functions!Met(a, x, s.l, s.r)
                        ELSE f[IF Functions!get(a, m) > x THEN [s EXCEPT !.l = m] ELSE [s EXCEPT !.r = m]]
  BY <1>1, <1>3 DEF IsBetween
<1>5. ASSUME NEW d \in T PROVE \E e \in T : e < d
  <2>1. PICK s \in P : s.r - s.l = d + 1 /\ Encloses(a, n, x, FALSE, s.l, s.r) /\ f[s] # FirstPlace(a, x)
    OBVIOUS
  <2>2. d \in Nat /\ s.l \in -1 .. n /\ s.r \in -1 .. n /\ s.l \in Int /\ s.r \in Int
    OBVIOUS
  <2>3. CASE s.r - s.l <= 1
    <3>1. f[s] = Functions!Met(a, x, s.l, s.r)
      BY <1>4, <2>3
    <3>2. s.r = s.l + 1
      BY <2>1, <2>2, <2>3
    <3> QED BY <2>1, <3>1, <3>2, MetIs
  <2>4. CASE ~(s.r - s.l <= 1)
    <3> DEFINE m == Functions!middle(s.l, s.r)
               t == IF Functions!get(a, m) > x THEN [s EXCEPT !.l = m] ELSE [s EXCEPT !.r = m]
    <3>1. m \in -1 .. n /\ s.l < m /\ m < s.r
      BY <1>1, <2>2, <2>4, MiddleIs
    <3>2. f[s] = f[t]
      BY <1>4, <2>4
    <3> HIDE DEF m
    <3>3. t \in P /\ (IF Functions!get(a, m) > x THEN t.l = m /\ t.r = s.r ELSE t.l = s.l /\ t.r = m)
      BY <2>2, <3>1
    <3> HIDE DEF t, P
    <3>4. Encloses(a, n, x, FALSE, t.l, t.r)
      BY <1>1, <2>1, <2>2, <3>1, <3>3 DEF Encloses, Before
    <3>5. t.r - t.l - 1 \in Nat /\ t.r - t.l - 1 < d
      BY <1>1, <2>1, <2>2, <3>1, <3>3, SMTT(60)
    <3>6. t.r - t.l = (t.r - t.l - 1) + 1
      BY <2>2, <3>1, <3>3
    <3>7. t.r - t.l - 1 \in T
      BY <2>1, <3>2, <3>3, <3>4, <3>5, <3>6
    <3> QED BY <3>5, <3>7
  <2> QED BY <2>3, <2>4
<1>6. T \in SUBSET Nat
  OBVIOUS
<1> HIDE DEF T
<1>7. T = {}
  BY <1>5, <1>6, NoDescent
<1> DEFINE s == [l |-> -1, r |-> n]
<1>8. s \in P /\ s.l = -1 /\ s.r = n /\ s.r - s.l = n + 1
  BY <1>1
<1>9. Functions!recursion(a, x) = f[s]
  BY <1>2
<1> HIDE DEF s, P
<1>10. Encloses(a, n, x, FALSE, s.l, s.r)
  <2>1. -1 \in -1 .. n /\ n \in -1 .. n /\ -1 < n /\ ~(-1 >= 0) /\ ~(n < n)
    BY <1>1
  <2> QED BY <1>8, <2>1 DEF Encloses
<1> QED BY <1>1, <1>7, <1>8, <1>9, <1>10 DEF T

Reversed(a) == [i \in 1 .. Len(a) |-> a[Len(a) - i + 1]]

LEMMA ReverseIs ==
  ASSUME NEW a, NEW n, Descends(a, n)
  PROVE  LET up == Reversed(a)
         IN  /\ IsList(up, n) /\ Functions!Range(up) = Functions!Range(a)
             /\ \A i, j \in 1 .. n : i <= j => up[i] <= up[j]
<1> DEFINE up == Reversed(a)
<1>1. IsList(a, n) /\ n \in Nat /\ Len(a) = n /\ DOMAIN a = 1 .. n /\ \A i \in 1 .. n : a[i] \in Int /\ a[i] \in Functions!Ints
  BY ListIs DEF Descends
<1>2. up = [i \in 1 .. n |-> a[n - i + 1]]
  BY <1>1 DEF Reversed
<1> HIDE DEF up
<1>3. \A i \in 1 .. n : (n - i) + 1 \in 1 .. n /\ up[i] = a[n - i + 1]
  BY <1>1, <1>2
<1>4. up \in [1 .. n -> Functions!Ints]
  BY <1>1, <1>2, <1>3
<1>5. IsList(up, n)
  BY <1>1, <1>4 DEF IsList
<1>6. Functions!Range(up) = Functions!Range(a)
  <2>1. Functions!Range(a) = {a[i] : i \in 1 .. n} /\ Functions!Range(up) = {up[i] : i \in 1 .. n}
    BY <1>1, <1>4 DEF Functions!Range
  <2>2. \A i \in 1 .. n : (n - ((n - i) + 1)) + 1 = i
    BY <1>1
  <2> QED BY <1>3, <2>1, <2>2
<1>7. ASSUME NEW i \in 1 .. n, NEW j \in 1 .. n, i <= j PROVE up[i] <= up[j]
  <2>1. (n - j) + 1 <= (n - i) + 1 /\ (n - j) + 1 \in 1 .. n /\ (n - i) + 1 \in 1 .. n
    BY <1>1, <1>7
  <2>2. a[(n - j) + 1] >= a[n - i + 1]
    BY <2>1 DEF Descends
  <2> QED BY <1>1, <1>3, <2>1, <2>2
<1> QED BY <1>5, <1>6, <1>7 DEF up

(* A difference of two integers that is not larger than the largest is       *)
(* computed right.                                                           *)
LEMMA DeltaIs ==
  ASSUME NEW y \in Functions!Ints, NEW x \in Functions!Ints, Functions!Distance(y, x) <= Functions!MaxInt
  PROVE  Functions!MathAbs(Functions!Wrap(y - x)) = Functions!Distance(y, x)
<1>1. Functions!MaxInt \in Nat /\ Functions!MinInt = -Functions!MaxInt - 1 /\ Functions!Ints = Functions!MinInt .. Functions!MaxInt
  BY IntsAre
<1>2. y \in Int /\ x \in Int
  BY <1>1
<1>3. Functions!Distance(y, x) = IF y < x THEN x - y ELSE y - x
  BY DEF Functions!Distance
<1>4. y - x \in Functions!Ints
  BY <1>1, <1>2, <1>3
<1>5. Functions!Wrap(y - x) = y - x
  BY <1>4, WrapKeeps
<1>6. (IF y - x < 0 THEN -(y - x) ELSE y - x) = Functions!Distance(y, x)
  BY <1>2, <1>3
<1>7. Functions!Distance(y, x) \in Functions!Ints
  BY <1>1, <1>2, <1>3
<1>8. Functions!Wrap(Functions!Distance(y, x)) = Functions!Distance(y, x)
  BY <1>7, WrapKeeps
<1> QED BY <1>5, <1>6, <1>8 DEF Functions!MathAbs

(* The one of the two neighbours of x that is nearer to it is nearest.       *)
LEMMA ClosestIs ==
  ASSUME NEW up, NEW n, IsList(up, n), n # 0, \A i, j \in 1 .. n : i <= j => up[i] <= up[j],
         NEW x \in Functions!Ints, NEW l, NEW r, r = l + 1, Encloses(up, n, x, TRUE, l, r),
         l >= 0 => Functions!Distance(up[r], x) <= Functions!MaxInt,
         r < n => Functions!Distance(up[r + 1], x) <= Functions!MaxInt
  PROVE  LET c == Functions!leftOrRight(up, x, l, r)
         IN  \E i \in 1 .. n : c = up[i] /\ \A j \in 1 .. n : Functions!Distance(c, x) <= Functions!Distance(up[j], x)
<1> DEFINE c == Functions!leftOrRight(up, x, l, r)
           dist(i) == Functions!Distance(up[i], x)
           delta1 == IF l >= 0 THEN Functions!MathAbs(Functions!Wrap(Functions!get(up, l) - x)) ELSE 0
           delta2 == IF r < n THEN Functions!MathAbs(Functions!Wrap(Functions!get(up, r) - x)) ELSE 0
<1>1. n \in Nat /\ n >= 1 /\ up \in Seq(Functions!Ints) /\ Len(up) = n /\ x \in Int /\ up # <<>>
      /\ \A i \in 1 .. n : up[i] \in Int /\ up[i] \in Functions!Ints
  <2>1. n \in Nat /\ up \in Seq(Functions!Ints) /\ Len(up) = n /\ \A i \in 1 .. n : up[i] \in Int /\ up[i] \in Functions!Ints
    BY ListIs
  <2>2. x \in Int
    BY IntsAre
  <2> QED BY <2>1, <2>2
<1>2. \A i \in 0 .. n - 1 : Functions!get(up, i) = up[i + 1]
  BY ListIs
<1>3. r \in 0 .. n /\ l = r - 1 /\ l \in Int /\ r \in Int
  BY <1>1 DEF Encloses
<1>4. l >= 0 => Functions!get(up, l) = up[r] /\ up[r] <= x /\ r \in 1 .. n
  <2>1. l >= 0 => l \in 0 .. n - 1 /\ l + 1 = r /\ Functions!get(up, l) <= x
    BY <1>1, <1>3 DEF Encloses, Before
  <2> QED BY <1>1, <1>2, <1>3, <2>1
<1>5. r < n => Functions!get(up, r) = up[r + 1] /\ ~(up[r + 1] <= x) /\ r + 1 \in 1 .. n
  <2>1. r < n => r \in 0 .. n - 1 /\ ~(Functions!get(up, r) <= x)
    BY <1>1, <1>3 DEF Encloses, Before
  <2> QED BY <1>1, <1>2, <1>3, <2>1
<1>6. c = IF delta1 <= delta2 /\ l >= 0 THEN Functions!get(up, l)
          ELSE IF r < n THEN Functions!get(up, r)
          ELSE IF x < Functions!get(up, 0) THEN Functions!get(up, 0) ELSE up[n]
  BY <1>1 DEF Functions!leftOrRight
<1>7. delta1 = (IF l >= 0 THEN dist(r) ELSE 0) /\ delta2 = (IF r < n THEN dist(r + 1) ELSE 0)
  <2>1. l >= 0 => Functions!MathAbs(Functions!Wrap(Functions!get(up, l) - x)) = dist(r)
    BY <1>1, <1>4, DeltaIs
  <2>2. r < n => Functions!MathAbs(Functions!Wrap(Functions!get(up, r) - x)) = dist(r + 1)
    BY <1>1, <1>5, DeltaIs
  <2> QED BY <2>1, <2>2
<1> HIDE DEF c, delta1, delta2
<1>8. \A i \in 1 .. n : dist(i) = IF up[i] < x THEN x - up[i] ELSE up[i] - x
  BY DEF Functions!Distance
<1> HIDE DEF dist
<1>9. ASSUME NEW j \in 1 .. n, j <= r PROVE l >= 0 /\ dist(r) <= dist(j)
  <2>1. l >= 0 /\ r \in 1 .. n
    BY <1>1, <1>3, <1>9
  <2>2. up[j] <= up[r]
    BY <1>9, <2>1
  <2> QED BY <1>1, <1>4, <1>8, <2>1, <2>2
<1>10. ASSUME NEW j \in 1 .. n, ~(j <= r) PROVE r < n /\ dist(r + 1) <= dist(j)
  <2>1. r < n /\ r + 1 \in 1 .. n /\ r + 1 <= j
    BY <1>1, <1>3, <1>10
  <2>2. up[r + 1] <= up[j]
    BY <1>10, <2>1
  <2> QED BY <1>1, <1>5, <1>8, <2>1, <2>2, SMTT(60)
<1>11. \A i \in 1 .. n : dist(i) \in Nat
  BY <1>1, <1>8, SMTT(60)
<1>12. CASE delta1 <= delta2 /\ l >= 0
  <2>1. c = up[r] /\ r \in 1 .. n
    BY <1>4, <1>6, <1>12
  <2>2. ASSUME NEW j \in 1 .. n PROVE dist(r) <= dist(j)
    <3>1. CASE j <= r
      BY <1>9, <3>1
    <3>2. CASE ~(j <= r)
      <4>1. r < n /\ dist(r + 1) <= dist(j) /\ r + 1 \in 1 .. n
        BY <1>5, <1>10, <3>2
      <4>2. dist(r) <= dist(r + 1)
        BY <1>7, <1>12, <4>1
      <4>3. dist(r) \in Nat /\ dist(r + 1) \in Nat /\ dist(j) \in Nat
        BY <1>11, <2>1, <4>1
      <4> QED BY <4>1, <4>2, <4>3
    <3> QED BY <3>1, <3>2
  <2> QED BY <2>1, <2>2 DEF c, dist
<1>13. CASE ~(delta1 <= delta2 /\ l >= 0) /\ r < n
  <2>1. c = up[r + 1] /\ r + 1 \in 1 .. n
    BY <1>5, <1>6, <1>13
  <2>2. ASSUME NEW j \in 1 .. n PROVE dist(r + 1) <= dist(j)
    <3>1. CASE j <= r
      <4>1. l >= 0 /\ dist(r) <= dist(j) /\ r \in 1 .. n
        BY <1>4, <1>9, <3>1
      <4>2. ~(dist(r) <= dist(r + 1))
        BY <1>7, <1>13, <4>1
      <4>3. dist(r) \in Nat /\ dist(r + 1) \in Nat /\ dist(j) \in Nat
        BY <1>11, <2>1, <4>1
      <4> QED BY <4>1, <4>2, <4>3
    <3>2. CASE ~(j <= r)
      BY <1>10, <3>2
    <3> QED BY <3>1, <3>2
  <2> QED BY <2>1, <2>2 DEF c, dist
<1>14. CASE ~(delta1 <= delta2 /\ l >= 0) /\ ~(r < n)
  <2>1. r = n /\ l >= 0 /\ r \in 1 .. n
    BY <1>1, <1>3, <1>14
  <2>2. c = up[n]
    <3>1. Functions!get(up, 0) = up[1] /\ up[1] <= up[n] /\ up[1] \in Int /\ up[n] \in Int
      <4>1. 0 \in 0 .. n - 1 /\ 1 \in 1 .. n /\ n \in 1 .. n /\ 1 <= n /\ 0 + 1 = 1
        BY <1>1
      <4>2. Functions!get(up, 0) = up[1]
        BY <1>2, <4>1
      <4> QED BY <1>1, <4>1, <4>2
    <3>2. up[n] <= x
      BY <1>4, <2>1
    <3>3. ~(x < up[1])
      BY <1>1, <3>1, <3>2
    <3> QED BY <1>6, <1>14, <3>1, <3>3
  <2>3. \A j \in 1 .. n : dist(n) <= dist(j)
    <3>1. \A j \in 1 .. n : j <= r
      BY <2>1
    <3> QED BY <1>9, <2>1, <3>1
  <2> QED BY <2>1, <2>2, <2>3 DEF c, dist
<1> QED BY <1>12, <1>13, <1>14

(* The three searches of a list that descends.                               *)
LEMMA SearchResults ==
  ASSUME NEW a \in Descending, NEW x \in Functions!Ints
  PROVE  Functions!SearchRight(a, x, Functions!Searched(a, x))
<1> DEFINE found == Functions!Searched(a, x)
           up == Reversed(a)
           s == Functions!Bounds(up, x, TRUE)
           E == Functions!Range(a)
           below == {e \in E : e <= x}
           above == {e \in E : e > x}
           near == (IF below = {} THEN {} ELSE {Functions!Max(below)}) \union (IF above = {} THEN {} ELSE {Functions!Min(above)})
           Nearest == a # <<>> /\ (\A e \in near : Functions!Distance(e, x) <= Functions!MaxInt) =>
             found.closest \in E /\ \A e \in E : Functions!Distance(found.closest, x) <= Functions!Distance(e, x)
<1> SUFFICES found.iter = FirstPlace(a, x) /\ found.recur = found.iter /\ Nearest
  BY Zenon DEF Functions!SearchRight, FirstPlace, Functions!Cardinality, Cardinality
<1>1. PICK n : Descends(a, n)
  BY DescendingIs
<1>2. x \in Int
  BY IntsAre
<1>3. found.iter = FirstPlace(a, x) /\ found.recur = FirstPlace(a, x) /\ found.closest = Functions!leftOrRight(up, x, s.l, s.r)
  BY <1>1, <1>2, IterIs, RecurIs DEF Functions!Searched, Reversed
<1>4. IsList(up, n) /\ Functions!Range(up) = E /\ \A i, j \in 1 .. n : i <= j => up[i] <= up[j]
  BY <1>1, ReverseIs
<1>5. s.r = s.l + 1 /\ Encloses(up, n, x, TRUE, s.l, s.r)
  BY <1>2, <1>4, BoundsMeet
<1>6. n \in Nat /\ \A i \in 1 .. n : up[i] \in Int
  BY <1>4, ListIs
<1>7. E = {up[i] : i \in 1 .. n}
  <2>1. DOMAIN up = 1 .. n
    BY <1>4, ListIs
  <2> QED BY <1>4, <2>1 DEF Functions!Range
<1>8. \A i \in 0 .. n - 1 : Functions!get(up, i) = up[i + 1]
  BY <1>4, ListIs
<1> HIDE DEF up, s, found
<1>9. s.l \in Int /\ s.r \in Int /\ s.r \in 0 .. n /\ s.l + 1 = s.r
  BY <1>5, <1>6 DEF Encloses
<1>10. ASSUME a # <<>>, \A e \in near : Functions!Distance(e, x) <= Functions!MaxInt
       PROVE  found.closest \in E /\ \A e \in E : Functions!Distance(found.closest, x) <= Functions!Distance(e, x)
  <2>1. n # 0
    <3>1. a \in Seq(Functions!Ints) /\ Len(a) = n
      BY <1>1, ListIs DEF Descends
    <3> QED BY <1>10, <3>1
  <2>2. s.l >= 0 => up[s.r] \in near
    <3> SUFFICES ASSUME s.l >= 0 PROVE up[s.r] \in near
      OBVIOUS
    <3>1. s.l \in 0 .. n - 1 /\ s.r \in 1 .. n /\ up[s.r] <= x
      <4>1. s.l \in 0 .. n - 1 /\ s.r \in 1 .. n
        BY <1>6, <1>9
      <4> QED BY <1>5, <1>8, <1>9, <4>1 DEF Encloses, Before
    <3>2. \A i \in 1 .. n : up[i] <= x => up[i] <= up[s.r]
      <4> SUFFICES ASSUME NEW i \in 1 .. n, up[i] <= x PROVE up[i] <= up[s.r]
        OBVIOUS
      <4>1. CASE i <= s.r
        BY <1>4, <3>1, <4>1
      <4>2. CASE ~(i <= s.r)
        <5>1. s.r < n /\ s.r \in 0 .. n - 1 /\ s.r + 1 \in 1 .. n /\ s.r + 1 <= i
          BY <1>6, <1>9, <4>2
        <5>2. ~(up[s.r + 1] <= x)
          BY <1>5, <1>8, <5>1 DEF Encloses, Before
        <5>3. up[s.r + 1] <= up[i]
          BY <1>4, <5>1
        <5> QED BY <1>2, <1>6, <5>1, <5>2, <5>3
      <4> QED BY <4>1, <4>2
    <3>3. up[s.r] \in below /\ \A e \in below : up[s.r] >= e /\ e \in Int /\ up[s.r] \in Int
      BY <1>6, <1>7, <3>1, <3>2
    <3> HIDE DEF below
    <3>4. Functions!Max(below) = up[s.r]
      <4>1. Functions!Max(below) = CHOOSE e \in below : \A y \in below : e >= y
        BY DEF Functions!Max
      <4>2. \A e \in below : (\A y \in below : e >= y) => e = up[s.r]
        BY <3>3
      <4> QED BY <3>3, <4>1, <4>2
    <3> QED BY <3>3, <3>4
  <2>3. s.r < n => up[s.r + 1] \in near
    <3> SUFFICES ASSUME s.r < n PROVE up[s.r + 1] \in near
      OBVIOUS
    <3>1. s.r \in 0 .. n - 1 /\ s.r + 1 \in 1 .. n /\ ~(up[s.r + 1] <= x)
      <4>1. s.r \in 0 .. n - 1 /\ s.r + 1 \in 1 .. n
        BY <1>6, <1>9
      <4> QED BY <1>5, <1>8, <4>1 DEF Encloses, Before
    <3>2. \A i \in 1 .. n : up[i] > x => up[s.r + 1] <= up[i]
      <4> SUFFICES ASSUME NEW i \in 1 .. n, up[i] > x PROVE up[s.r + 1] <= up[i]
        OBVIOUS
      <4>1. CASE i >= s.r + 1
        BY <1>4, <3>1, <4>1
      <4>2. CASE ~(i >= s.r + 1)
        <5>1. i <= s.r /\ s.l \in 0 .. n - 1 /\ s.l >= 0 /\ s.r \in 1 .. n
          BY <1>6, <1>9, <4>2
        <5>2. up[s.r] <= x
          BY <1>5, <1>8, <1>9, <5>1 DEF Encloses, Before
        <5>3. up[i] <= up[s.r]
          BY <1>4, <5>1
        <5> QED BY <1>2, <1>6, <5>1, <5>2, <5>3
      <4> QED BY <4>1, <4>2
    <3>3. up[s.r + 1] \in above /\ \A e \in above : up[s.r + 1] <= e /\ e \in Int /\ up[s.r + 1] \in Int
      BY <1>2, <1>6, <1>7, <3>1, <3>2
    <3> HIDE DEF above
    <3>4. Functions!Min(above) = up[s.r + 1]
      <4>1. Functions!Min(above) = CHOOSE e \in above : \A y \in above : e <= y
        BY DEF Functions!Min
      <4>2. \A e \in above : (\A y \in above : e <= y) => e = up[s.r + 1]
        BY <3>3
      <4> QED BY <3>3, <4>1, <4>2
    <3> QED BY <3>3, <3>4
  <2> HIDE DEF near
  <2>4. \E i \in 1 .. n : found.closest = up[i]
          /\ \A j \in 1 .. n : Functions!Distance(found.closest, x) <= Functions!Distance(up[j], x)
    <3>1. /\ s.l >= 0 => Functions!Distance(up[s.r], x) <= Functions!MaxInt
          /\ s.r < n => Functions!Distance(up[s.r + 1], x) <= Functions!MaxInt
      BY <1>10, <2>2, <2>3
    <3>2. \E i \in 1 .. n : Functions!leftOrRight(up, x, s.l, s.r) = up[i]
            /\ \A j \in 1 .. n : Functions!Distance(Functions!leftOrRight(up, x, s.l, s.r), x) <= Functions!Distance(up[j], x)
      BY <1>4, <1>5, <2>1, <3>1, ClosestIs
    <3> QED BY <1>3, <3>2
  <2> HIDE DEF E
  <2> QED BY <1>7, <2>4
<1> QED BY <1>3, <1>10

-------------------------------------------------------------------------------
(***************************************************************************)
(* hotelbusiness: the sorted days, and how many guests have come and gone. *)
(***************************************************************************)
LEMMA SameCardinality == \A S : Functions!Cardinality(S) = Cardinality(S)
BY Zenon DEF Functions!Cardinality, Cardinality

Increases(s, n) == \A i, j \in 1 .. n : i < j => s[i] < s[j]

LEMMA SortedExists ==
  ASSUME NEW S \in SUBSET Nat, IsFiniteSet(S)
  PROVE  \E s \in [1 .. Cardinality(S) -> S] : Increases(s, Cardinality(S))
<1> DEFINE Can(U) == \E s \in [1 .. Cardinality(U) -> U] : Increases(s, Cardinality(U))
           T == {c \in Nat : \E U \in SUBSET Nat : IsFiniteSet(U) /\ Cardinality(U) = c /\ ~Can(U)}
<1>1. ASSUME NEW c \in T PROVE \E d \in T : d < c
  <2>1. PICK U \in SUBSET Nat : IsFiniteSet(U) /\ Cardinality(U) = c /\ ~Can(U)
    OBVIOUS
  <2>2. c \in Nat
    OBVIOUS
  <2>3. U # {}
    <3> SUFFICES ASSUME U = {} PROVE FALSE
      OBVIOUS
    <3>1. Cardinality(U) = 0
      BY FS_EmptySet
    <3>2. [i \in 1 .. 0 |-> 0] \in [1 .. 0 -> U] /\ Increases([i \in 1 .. 0 |-> 0], 0)
      BY DEF Increases
    <3>3. Can(U)
      BY <3>1, <3>2
    <3> QED BY <2>1, <3>3
  <2>4. PICK m \in U : \A y \in U : m <= y
    <3> SUFFICES ASSUME \A x \in U : \E y \in U : ~(x <= y) PROVE FALSE
      OBVIOUS
    <3>1. \A x \in U : \E y \in U : y < x
      OBVIOUS
    <3> QED BY <2>3, <3>1, NoDescent
  <2> DEFINE V == U \ {m}
  <2>5. IsFiniteSet(V) /\ Cardinality(V) = c - 1 /\ c - 1 \in Nat
    <3>1. IsFiniteSet(V) /\ Cardinality(V) = c - 1
      BY <2>1, FS_RemoveElement
    <3> QED BY <3>1, FS_CardinalityType
  <2>6. ASSUME NEW s \in [1 .. c - 1 -> V], Increases(s, c - 1) PROVE Can(U)
    <3> DEFINE t == [i \in 1 .. c |-> IF i = 1 THEN m ELSE s[i - 1]]
    <3>1. \A i \in 1 .. c : i # 1 => i - 1 \in 1 .. c - 1 /\ s[i - 1] \in U /\ m < s[i - 1] /\ s[i - 1] \in Nat
      <4> SUFFICES ASSUME NEW i \in 1 .. c, i # 1 PROVE i - 1 \in 1 .. c - 1 /\ s[i - 1] \in U /\ m < s[i - 1] /\ s[i - 1] \in Nat
        OBVIOUS
      <4>1. i - 1 \in 1 .. c - 1
        BY <2>2
      <4>2. s[i - 1] \in V
        BY <4>1
      <4>3. s[i - 1] \in U /\ s[i - 1] # m /\ s[i - 1] \in Nat /\ m \in Nat
        BY <4>2
      <4>4. m <= s[i - 1]
        BY <2>4, <4>3
      <4> QED BY <4>1, <4>3, <4>4
    <3>2. t \in [1 .. c -> U] /\ \A i \in 1 .. c : t[i] = IF i = 1 THEN m ELSE s[i - 1]
      BY <3>1
    <3> HIDE DEF t
    <3>3. Increases(t, c)
      <4> SUFFICES ASSUME NEW i \in 1 .. c, NEW j \in 1 .. c, i < j PROVE t[i] < t[j]
        BY DEF Increases
      <4>1. j # 1 /\ t[j] = s[j - 1] /\ j - 1 \in 1 .. c - 1
        BY <2>2, <3>1, <3>2
      <4>2. CASE i = 1
        BY <3>1, <3>2, <4>1, <4>2
      <4>3. CASE i # 1
        <5>1. t[i] = s[i - 1] /\ i - 1 \in 1 .. c - 1 /\ i - 1 < j - 1
          BY <2>2, <3>1, <3>2, <4>1, <4>3
        <5> QED BY <2>6, <4>1, <5>1 DEF Increases
      <4> QED BY <4>2, <4>3
    <3> QED BY <2>1, <3>2, <3>3
  <2>7. ~Can(V)
    BY <2>1, <2>5, <2>6
  <2> HIDE DEF Can
  <2>8. c - 1 \in T /\ c - 1 < c
    BY <2>2, <2>5, <2>7
  <2> QED BY <2>8
<1>2. T \in SUBSET Nat
  OBVIOUS
<1> HIDE DEF T
<1>3. T = {}
  BY <1>1, <1>2, NoDescent
<1> HIDE DEF Can
<1>4. Cardinality(S) \in Nat
  BY FS_CardinalityType
<1>5. Can(S)
  BY <1>3, <1>4 DEF T
<1> QED BY <1>5 DEF Can

(* Ordered lists every element.                                              *)
LEMMA OrderedIs ==
  ASSUME NEW S \in SUBSET Nat, IsFiniteSet(S)
  PROVE  LET s == Functions!Ordered(S)
             n == Cardinality(S)
         IN  n \in Nat /\ s \in [1 .. n -> S] /\ Len(s) = n /\ Increases(s, n) /\ \A d \in S : \E i \in 1 .. n : s[i] = d
<1> DEFINE n == Cardinality(S)
           s == Functions!Ordered(S)
<1>1. n \in Nat
  BY FS_CardinalityType
<1>2. s = CHOOSE t \in [1 .. n -> S] : \A i, j \in DOMAIN t : i < j => t[i] < t[j]
  BY SameCardinality DEF Functions!Ordered
<1>3. \E t \in [1 .. n -> S] : \A i, j \in DOMAIN t : i < j => t[i] < t[j]
  <2>1. PICK t \in [1 .. n -> S] : Increases(t, n)
    BY SortedExists
  <2> QED BY <2>1 DEF Increases
<1> HIDE DEF s
<1>4. s \in [1 .. n -> S] /\ \A i, j \in DOMAIN s : i < j => s[i] < s[j]
  BY <1>2, <1>3
<1>5. Increases(s, n)
  BY <1>4 DEF Increases
<1>6. Len(s) = n
  BY <1>1, <1>4
<1>7. s \in Injection(1 .. n, S)
  <2> HIDE DEF n
  <2>1. ASSUME NEW i \in 1 .. n, NEW j \in 1 .. n, s[i] = s[j] PROVE i = j
    <3>1. s[i] \in Nat /\ s[j] \in Nat
      BY <1>4
    <3>2. ~(i < j) /\ ~(j < i)
      BY <1>5, <2>1, <3>1 DEF Increases
    <3> QED BY <1>1, <3>2
  <2> QED BY <1>4, <2>1 DEF Injection, IsInjective
<1>8. Cardinality(1 .. n) = n
  BY <1>1, FS_Interval
<1>9. s \in Surjection(1 .. n, S)
  BY <1>7, <1>8, FS_Injection
<1> QED BY <1>1, <1>4, <1>5, <1>6, <1>9 DEF Surjection, s

IsStay(guests, n) ==
  n \in Nat /\ DOMAIN guests = 1 .. n /\ \A i \in 1 .. n : guests[i].in \in Nat /\ guests[i].out \in Nat /\ guests[i].in <= guests[i].out

Came(guests, d) == {i \in DOMAIN guests : guests[i].in <= d}
Gone(guests, d) == {i \in DOMAIN guests : guests[i].out <= d}
ComesOn(guests, d) == {i \in DOMAIN guests : guests[i].in = d}
GoesOn(guests, d) == {i \in DOMAIN guests : guests[i].out = d}
Inside(guests, d) == Cardinality({i \in DOMAIN guests : guests[i].in <= d /\ d < guests[i].out})

LEMMA DaysAre ==
  ASSUME NEW guests, NEW n, IsStay(guests, n)
  PROVE  /\ Functions!Days(guests) \in SUBSET Nat /\ IsFiniteSet(Functions!Days(guests))
         /\ \A d : d \in Functions!Days(guests) <=> \E i \in 1 .. n : guests[i].in = d \/ guests[i].out = d
<1> DEFINE A == {guests[i].in : i \in 1 .. n}
           B == {guests[i].out : i \in 1 .. n}
           f == [i \in 1 .. n |-> guests[i].in]
           g == [i \in 1 .. n |-> guests[i].out]
<1>1. n \in Nat /\ DOMAIN guests = 1 .. n /\ \A i \in 1 .. n : guests[i].in \in Nat /\ guests[i].out \in Nat
  BY DEF IsStay
<1>2. Functions!Days(guests) = UNION {{guests[i].in, guests[i].out} : i \in 1 .. n}
  BY <1>1 DEF Functions!Days
<1>3. IsFiniteSet(1 .. n)
  BY <1>1, FS_Interval
<1>4. f \in Surjection(1 .. n, A) /\ g \in Surjection(1 .. n, B)
  BY DEF Surjection
<1> HIDE DEF f, g
<1>5. IsFiniteSet(A) /\ IsFiniteSet(B)
  <2> HIDE DEF A, B
  <2> QED BY <1>3, <1>4, FS_Surjection
<1>6. Functions!Days(guests) = A \union B
  BY <1>2
<1>7. IsFiniteSet(A \union B)
  <2> HIDE DEF A, B
  <2> QED BY <1>5, FS_Union
<1> QED BY <1>1, <1>6, <1>7

LEMMA CountsAre ==
  ASSUME NEW guests, NEW n, IsStay(guests, n), NEW d \in Int
  PROVE  /\ Inside(guests, d) = Cardinality(Came(guests, d)) - Cardinality(Gone(guests, d))
         /\ Functions!DayChange(guests, d) = Cardinality(ComesOn(guests, d)) - Cardinality(GoesOn(guests, d))
         /\ \A S \in {Came(guests, d), Gone(guests, d), ComesOn(guests, d), GoesOn(guests, d)} : IsFiniteSet(S) /\ Cardinality(S) \in Nat
         /\ Inside(guests, d) \in Nat
<1>1. n \in Nat /\ DOMAIN guests = 1 .. n
      /\ \A i \in 1 .. n : guests[i].in \in Nat /\ guests[i].out \in Nat /\ guests[i].in <= guests[i].out
  BY DEF IsStay
<1>2. IsFiniteSet(1 .. n)
  BY <1>1, FS_Interval
<1>3. ASSUME NEW S \in SUBSET (1 .. n) PROVE IsFiniteSet(S) /\ Cardinality(S) \in Nat
  BY <1>2, FS_Subset, FS_CardinalityType
<1>4. Came(guests, d) \in SUBSET (1 .. n) /\ Gone(guests, d) \in SUBSET (1 .. n) /\ ComesOn(guests, d) \in SUBSET (1 .. n)
      /\ GoesOn(guests, d) \in SUBSET (1 .. n)
  BY <1>1 DEF Came, Gone, ComesOn, GoesOn
<1>5. Functions!DayChange(guests, d) = Cardinality(ComesOn(guests, d)) - Cardinality(GoesOn(guests, d))
  BY SameCardinality DEF Functions!DayChange, ComesOn, GoesOn
<1>6. Came(guests, d) \intersect Gone(guests, d) = Gone(guests, d)
  BY <1>1 DEF Came, Gone
<1>7. {i \in DOMAIN guests : guests[i].in <= d /\ d < guests[i].out} = Came(guests, d) \ Gone(guests, d)
  BY <1>1 DEF Came, Gone
<1>8. Cardinality(Came(guests, d) \ Gone(guests, d)) = Cardinality(Came(guests, d)) - Cardinality(Gone(guests, d))
  BY <1>3, <1>4, <1>6, FS_Difference
<1>9. Inside(guests, d) \in Nat
  BY <1>3, <1>4, <1>7 DEF Inside
<1> QED BY <1>3, <1>4, <1>5, <1>7, <1>8, <1>9 DEF Inside

(* From one day to the next the guests inside change by what that day counts. *)
LEMMA InsideChanges ==
  ASSUME NEW guests, NEW n, IsStay(guests, n), NEW c \in Int, NEW d \in Int, c < d,
         \A e \in Functions!Days(guests) : e <= c \/ e >= d
  PROVE  Inside(guests, d) = Inside(guests, c) + Functions!DayChange(guests, d)
<1>1. n \in Nat /\ DOMAIN guests = 1 .. n
      /\ \A i \in 1 .. n : guests[i].in \in Nat /\ guests[i].out \in Nat
  BY DEF IsStay
<1>2. \A i \in 1 .. n : (guests[i].in <= c \/ guests[i].in >= d) /\ (guests[i].out <= c \/ guests[i].out >= d)
  BY DaysAre
<1>3. Came(guests, d) = Came(guests, c) \union ComesOn(guests, d) /\ Came(guests, c) \intersect ComesOn(guests, d) = {}
  BY <1>1, <1>2 DEF Came, ComesOn
<1>4. Gone(guests, d) = Gone(guests, c) \union GoesOn(guests, d) /\ Gone(guests, c) \intersect GoesOn(guests, d) = {}
  BY <1>1, <1>2 DEF Gone, GoesOn
<1>5. /\ IsFiniteSet(Came(guests, c)) /\ IsFiniteSet(ComesOn(guests, d)) /\ IsFiniteSet(Gone(guests, c)) /\ IsFiniteSet(GoesOn(guests, d))
      /\ Cardinality(Came(guests, c)) \in Nat /\ Cardinality(ComesOn(guests, d)) \in Nat
      /\ Cardinality(Gone(guests, c)) \in Nat /\ Cardinality(GoesOn(guests, d)) \in Nat
  BY CountsAre
<1>6. Cardinality(Came(guests, d)) = Cardinality(Came(guests, c)) + Cardinality(ComesOn(guests, d))
  <2>1. Cardinality(Came(guests, c) \union ComesOn(guests, d)) =
          Cardinality(Came(guests, c)) + Cardinality(ComesOn(guests, d)) - Cardinality(Came(guests, c) \intersect ComesOn(guests, d))
    BY <1>5, FS_Union
  <2>2. Cardinality({}) = 0
    BY FS_EmptySet
  <2>3. Cardinality(Came(guests, d)) = Cardinality(Came(guests, c) \union ComesOn(guests, d))
        /\ Cardinality(Came(guests, c) \intersect ComesOn(guests, d)) = 0
    BY <1>3, <2>2
  <2> QED BY <1>5, <2>1, <2>3
<1>7. Cardinality(Gone(guests, d)) = Cardinality(Gone(guests, c)) + Cardinality(GoesOn(guests, d))
  <2>1. Cardinality(Gone(guests, c) \union GoesOn(guests, d)) =
          Cardinality(Gone(guests, c)) + Cardinality(GoesOn(guests, d)) - Cardinality(Gone(guests, c) \intersect GoesOn(guests, d))
    BY <1>5, FS_Union
  <2>2. Cardinality({}) = 0
    BY FS_EmptySet
  <2>3. Cardinality(Gone(guests, d)) = Cardinality(Gone(guests, c) \union GoesOn(guests, d))
        /\ Cardinality(Gone(guests, c) \intersect GoesOn(guests, d)) = 0
    BY <1>4, <2>2
  <2> QED BY <1>5, <2>1, <2>3
<1>8. /\ Inside(guests, d) = Cardinality(Came(guests, d)) - Cardinality(Gone(guests, d))
      /\ Inside(guests, c) = Cardinality(Came(guests, c)) - Cardinality(Gone(guests, c))
      /\ Functions!DayChange(guests, d) = Cardinality(ComesOn(guests, d)) - Cardinality(GoesOn(guests, d))
  BY CountsAre
<1> QED BY <1>5, <1>6, <1>7, <1>8

(* What the load tells of the days before d: a step says how many guests are *)
(* in from its day on, and no two in a row say the same.                     *)
Shown(load, e, v) ==
  \/ \E i \in 1 .. Len(load) : load[i][1] <= e /\ load[i][2] = v /\ \A j \in 1 .. Len(load) : load[j][1] <= e => j <= i
  \/ (\A j \in 1 .. Len(load) : load[j][1] > e) /\ v = 0
Level(load) == IF Len(load) = 0 THEN 0 ELSE load[Len(load)][2]
Steps(guests, load, d) ==
  /\ load \in Seq(Int \X Int)
  /\ \A i \in 1 .. Len(load) : load[i][1] < d /\ load[i][2] = Inside(guests, load[i][1])
  /\ \A i, j \in 1 .. Len(load) : i < j => load[i][1] < load[j][1]
  /\ \A e \in Functions!Days(guests) : e < d => Shown(load, e, Inside(guests, e))
Changing(load) == \A i \in 2 .. Len(load) : load[i][2] # load[i - 1][2]

LEMMA StepAppended ==
  ASSUME NEW guests, NEW n, IsStay(guests, n), NEW load, NEW p \in Nat, Steps(guests, load, p),
         NEW d \in Int, p < d, \A e \in Functions!Days(guests) : e <= p \/ e >= d
  PROVE  LET more == Append(load, <<p, Inside(guests, p)>>)
         IN  /\ Steps(guests, more, d) /\ Level(more) = Inside(guests, p) /\ Len(more) = Len(load) + 1
             /\ \A i \in 2 .. Len(load) : more[i][2] = load[i][2] /\ more[i - 1][2] = load[i - 1][2]
             /\ Len(load) # 0 => more[Len(load)][2] = Level(load)
             /\ more[Len(load) + 1][2] = Inside(guests, p)
<1> DEFINE v == Inside(guests, p)
           more == Append(load, <<p, v>>)
           m == Len(load)
<1>1. v \in Nat /\ load \in Seq(Int \X Int) /\ m \in Nat
  <2>1. p \in Int
    OBVIOUS
  <2>2. Inside(guests, p) \in Nat
    BY <2>1, CountsAre
  <2> QED BY <2>2 DEF Steps
<1> HIDE DEF v
<1>2. <<p, v>> \in Int \X Int
  BY <1>1
<1>3. more \in Seq(Int \X Int) /\ Len(more) = m + 1 /\ (\A i \in 1 .. m : more[i] = load[i]) /\ more[m + 1] = <<p, v>>
  BY <1>1, <1>2
<1> HIDE DEF more
<1>4. more[m + 1][1] = p /\ more[m + 1][2] = v
  BY <1>3
<1>5. \A i \in 1 .. m : load[i] \in Int \X Int /\ load[i][1] \in Int /\ load[i][1] < p /\ load[i][2] = Inside(guests, load[i][1])
  BY <1>1 DEF Steps
<1> HIDE DEF m
<1>6. \A i \in 1 .. m + 1 : i \in 1 .. m \/ i = m + 1
  BY <1>1
<1>7. \A i \in 1 .. m + 1 : more[i][1] < d /\ more[i][2] = Inside(guests, more[i][1]) /\ more[i][1] \in Int
  <2> SUFFICES ASSUME NEW i \in 1 .. m + 1 PROVE more[i][1] < d /\ more[i][2] = Inside(guests, more[i][1]) /\ more[i][1] \in Int
    OBVIOUS
  <2>1. CASE i = m + 1
    BY <1>4, <2>1 DEF v
  <2>2. CASE i \in 1 .. m
    <3>1. more[i] = load[i] /\ load[i][1] \in Int /\ load[i][1] < p /\ load[i][2] = Inside(guests, load[i][1])
      BY <1>3, <1>5, <2>2
    <3> QED BY <3>1
  <2> QED BY <1>6, <2>1, <2>2
<1>8. ASSUME NEW i \in 1 .. m + 1, NEW j \in 1 .. m + 1, i < j PROVE more[i][1] < more[j][1]
  <2>1. i \in 1 .. m
    BY <1>1, <1>8
  <2>2. more[i] = load[i] /\ load[i][1] < p
    BY <1>3, <1>5, <2>1
  <2>3. CASE j = m + 1
    BY <1>4, <2>2, <2>3
  <2>4. CASE j \in 1 .. m
    <3>1. load[i][1] < load[j][1] /\ more[j] = load[j]
      BY <1>3, <1>8, <2>1, <2>4 DEF Steps, m
    <3> QED BY <2>2, <3>1
  <2> QED BY <1>6, <2>3, <2>4
<1>9. ASSUME NEW e \in Functions!Days(guests), e < d PROVE Shown(more, e, Inside(guests, e))
  <2>1. e \in Nat /\ e <= p
    BY <1>9, DaysAre
  <2>2. CASE e = p
    <3>1. m + 1 \in 1 .. m + 1 /\ more[m + 1][1] <= e /\ more[m + 1][2] = Inside(guests, e)
      BY <1>1, <1>4, <2>2 DEF v
    <3>2. \A j \in 1 .. m + 1 : j <= m + 1
      BY <1>1
    <3> QED BY <1>3, <3>1, <3>2 DEF Shown, m
  <2>3. CASE e < p
    <3>1. Shown(load, e, Inside(guests, e))
      BY <2>3 DEF Steps
    <3>2. ~(more[m + 1][1] <= e)
      BY <1>4, <2>1, <2>3
    <3>3. CASE (\A j \in 1 .. m : load[j][1] > e) /\ Inside(guests, e) = 0
      <4>1. \A j \in 1 .. m + 1 : more[j][1] > e
        <5> SUFFICES ASSUME NEW j \in 1 .. m + 1 PROVE more[j][1] > e
          OBVIOUS
        <5>1. CASE j = m + 1
          BY <1>4, <2>1, <2>3, <5>1
        <5>2. CASE j \in 1 .. m
          BY <1>3, <3>3, <5>2
        <5> QED BY <1>6, <5>1, <5>2
      <4> QED BY <1>3, <3>3, <4>1 DEF Shown, m
    <3>4. ASSUME NEW i \in 1 .. m, load[i][1] <= e, load[i][2] = Inside(guests, e), \A j \in 1 .. m : load[j][1] <= e => j <= i
          PROVE  Shown(more, e, Inside(guests, e))
      <4>1. i \in 1 .. m + 1 /\ more[i][1] <= e /\ more[i][2] = Inside(guests, e)
        <5>1. more[i] = load[i]
          BY <1>3
        <5>2. i \in 1 .. m + 1
          BY <1>1
        <5> QED BY <3>4, <5>1, <5>2
      <4>2. \A j \in 1 .. m + 1 : more[j][1] <= e => j <= i
        <5> SUFFICES ASSUME NEW j \in 1 .. m + 1, more[j][1] <= e PROVE j <= i
          OBVIOUS
        <5>1. j # m + 1
          BY <3>2
        <5>2. j \in 1 .. m /\ more[j] = load[j]
          BY <1>3, <1>6, <5>1
        <5> QED BY <3>4, <5>2
      <4> QED BY <1>3, <4>1, <4>2 DEF Shown, m
    <3> QED BY <3>1, <3>3, <3>4 DEF Shown, m
  <2> QED BY <2>1, <2>2, <2>3
<1>10. Steps(guests, more, d)
  <2>1. Len(more) = m + 1
    BY <1>3
  <2> QED BY <1>3, <1>7, <1>8, <1>9, <2>1 DEF Steps
<1>11. Level(more) = v
  <2>1. Len(more) # 0
    BY <1>1, <1>3
  <2> QED BY <1>3, <1>4, <2>1 DEF Level
<1>12. \A i \in 2 .. m : more[i][2] = load[i][2] /\ more[i - 1][2] = load[i - 1][2]
  <2> SUFFICES ASSUME NEW i \in 2 .. m PROVE more[i][2] = load[i][2] /\ more[i - 1][2] = load[i - 1][2]
    OBVIOUS
  <2>1. i \in 1 .. m /\ i - 1 \in 1 .. m
    BY <1>1
  <2> QED BY <1>3, <2>1
<1>13. m # 0 => more[m][2] = Level(load)
  <2>1. m # 0 => m \in 1 .. m
    BY <1>1
  <2> QED BY <1>3, <2>1 DEF Level, m
<1>14. more[m + 1][2] = v
  BY <1>4
<1> QED BY <1>3, <1>10, <1>11, <1>12, <1>13, <1>14 DEF v, more, m

(* A day on which as many come as go needs no step.                          *)
LEMMA StepSpared ==
  ASSUME NEW guests, NEW n, IsStay(guests, n), NEW load, NEW p \in Nat, Steps(guests, load, p),
         Inside(guests, p) = Level(load),
         NEW d \in Int, p < d, \A e \in Functions!Days(guests) : e <= p \/ e >= d
  PROVE  Steps(guests, load, d)
<1> DEFINE m == Len(load)
<1>1. load \in Seq(Int \X Int) /\ m \in Nat
  BY DEF Steps
<1>2. \A i \in 1 .. m : load[i] \in Int \X Int /\ load[i][1] \in Int /\ load[i][1] < p /\ load[i][2] = Inside(guests, load[i][1])
  BY <1>1 DEF Steps
<1>3. \A i \in 1 .. m : load[i][1] < d
  BY <1>2
<1>4. ASSUME NEW e \in Functions!Days(guests), e < d PROVE Shown(load, e, Inside(guests, e))
  <2>1. e \in Nat /\ e <= p
    BY <1>4, DaysAre
  <2>2. CASE e < p
    BY <2>2 DEF Steps
  <2>3. CASE e = p
    <3> HIDE DEF m
    <3>1. CASE m = 0
      <4>1. \A j \in 1 .. m : load[j][1] > e
        BY <3>1
      <4>2. Inside(guests, e) = 0
        BY <2>3, <3>1 DEF Level, m
      <4> QED BY <4>1, <4>2 DEF Shown, m
    <3>2. CASE m # 0
      <4>1. m \in 1 .. m /\ \A j \in 1 .. m : j <= m
        BY <1>1, <3>2
      <4>2. load[m][1] <= e
        BY <1>2, <2>3, <4>1
      <4>3. load[m][2] = Inside(guests, e)
        BY <2>3, <3>2 DEF Level, m
      <4> QED BY <4>1, <4>2, <4>3 DEF Shown, m
    <3> QED BY <3>1, <3>2
  <2> QED BY <2>1, <2>2, <2>3
<1> QED BY <1>1, <1>2, <1>3, <1>4 DEF Steps

IsLoad(g, guests, days) ==
  g = [k \in 0 .. Len(days) |->
         IF k = 0 THEN [result |-> <<>>, current |-> 0, prev |-> -1] ELSE Functions!AddDay(guests, g[k - 1], days[k])]

LEMMA LoadExists ==
  ASSUME NEW guests, NEW n, IsStay(guests, n), NEW days, NEW N \in Nat, days \in [1 .. N -> Int], Len(days) = N
  PROVE  \E g : IsLoad(g, guests, days) /\ \A k \in 0 .. N : g[k] \in [result : Seq(Int \X Int), current : Int, prev : Int]
<1> DEFINE S == [result : Seq(Int \X Int), current : Int, prev : Int]
           first == [result |-> <<>>, current |-> 0, prev |-> -1]
           add(s, d) == Functions!AddDay(guests, s, d)
           step == [s \in S |-> [k \in 1 .. N |-> add(s, days[k])]]
<1>c. \A d \in Int : Functions!DayChange(guests, d) \in Int
  <2> HIDE DEF S, first, add, step
  <2> QED BY CountsAre, SMTT(60)
<1>1. first \in S
  OBVIOUS
<1>2. ASSUME NEW s \in S, NEW d \in Int PROVE add(s, d) \in S
  <2>1. Functions!DayChange(guests, d) \in Int
    BY <1>c
  <2>2. s.result \in Seq(Int \X Int) /\ <<s.prev, s.current>> \in Int \X Int /\ s.current + Functions!DayChange(guests, d) \in Int
    BY <2>1
  <2>3. Append(s.result, <<s.prev, s.current>>) \in Seq(Int \X Int)
    BY <2>2
  <2> QED BY <2>2, <2>3 DEF Functions!AddDay
<1> HIDE DEF S, add
<1>3. IsStep(step, S, N) /\ \A s \in S, k \in 1 .. N : step[s][k] = add(s, days[k])
  BY <1>2 DEF IsStep
<1> HIDE DEF step, first
<1>4. PICK g : IsLoop(g, first, step, S, N)
  BY <1>1, <1>3, LoopExists
<1>5. g \in [0 .. N -> S] /\ g[0] = first /\ \A k \in 1 .. N : g[k] = step[g[k - 1]][k]
  BY <1>4 DEF IsLoop
<1>6. \A i \in 0 .. N : g[i] = IF i = 0 THEN first ELSE add(g[i - 1], days[i])
  <2> SUFFICES ASSUME NEW i \in 0 .. N PROVE g[i] = IF i = 0 THEN first ELSE add(g[i - 1], days[i])
    OBVIOUS
  <2>1. CASE i = 0
    BY <1>5, <2>1
  <2>2. CASE i # 0
    <3>1. i \in 1 .. N /\ i - 1 \in 0 .. N
      BY <2>2
    <3>2. g[i - 1] \in S /\ g[i] = step[g[i - 1]][i]
      BY <1>5, <3>1
    <3>3. g[i] = add(g[i - 1], days[i])
      BY <1>3, <3>1, <3>2
    <3> QED BY <2>2, <3>3
  <2> QED BY <2>1, <2>2
<1>7. g = [i \in 0 .. N |-> g[i]]
  BY <1>5
<1>8. IsLoad(g, guests, days)
  BY <1>6, <1>7 DEF IsLoad, first, add
<1> QED BY <1>5, <1>8 DEF S

(* After the round of a day the load shows the days before it.               *)
Rounded(guests, t, d) ==
  /\ t.prev = d /\ t.current = Inside(guests, d)
  /\ Steps(guests, t.result, d) /\ Changing(t.result)
  /\ Inside(guests, d) = Level(t.result) + Functions!DayChange(guests, d)

LEMMA FirstRound ==
  ASSUME NEW guests, NEW n, IsStay(guests, n), NEW d \in Nat, \A e \in Functions!Days(guests) : e >= d
  PROVE  Rounded(guests, Functions!AddDay(guests, [result |-> <<>>, current |-> 0, prev |-> -1], d), d)
<1> DEFINE t == Functions!AddDay(guests, [result |-> <<>>, current |-> 0, prev |-> -1], d)
<1>1. t.prev = d /\ t.result = <<>> /\ t.current = 0 + Functions!DayChange(guests, d)
  BY DEF Functions!AddDay
<1> HIDE DEF t
<1>2. Inside(guests, -1) = 0
  <2>1. {i \in DOMAIN guests : guests[i].in <= -1 /\ -1 < guests[i].out} = {}
    BY DEF IsStay
  <2> QED BY <2>1, FS_EmptySet DEF Inside
<1>3. Inside(guests, d) = Inside(guests, -1) + Functions!DayChange(guests, d)
  <2>1. -1 \in Int /\ d \in Int /\ -1 < d
    OBVIOUS
  <2> QED BY <2>1, InsideChanges
<1>4. Functions!DayChange(guests, d) \in Int
  BY CountsAre
<1>5. t.result \in Seq(Int \X Int) /\ Len(t.result) = 0
  BY <1>1
<1>6. \A e \in Functions!Days(guests) : ~(e < d)
  BY DaysAre
<1>7. Steps(guests, t.result, d) /\ Changing(t.result)
  BY <1>5, <1>6 DEF Steps, Changing
<1>8. Level(t.result) = 0
  BY <1>5 DEF Level
<1>9. t.current = Inside(guests, d) /\ Inside(guests, d) = Level(t.result) + Functions!DayChange(guests, d)
  BY <1>1, <1>2, <1>3, <1>4, <1>8
<1> QED BY <1>1, <1>7, <1>9 DEF Rounded, t

LEMMA NextRound ==
  ASSUME NEW guests, NEW n, IsStay(guests, n), NEW s, NEW p \in Nat, Rounded(guests, s, p),
         NEW d \in Nat, p < d, \A e \in Functions!Days(guests) : e <= p \/ e >= d
  PROVE  Rounded(guests, Functions!AddDay(guests, s, d), d)
<1> DEFINE t == Functions!AddDay(guests, s, d)
           v == Inside(guests, p)
           w == Inside(guests, d)
           c == Functions!DayChange(guests, p)
           x == Functions!DayChange(guests, d)
<1>1. s.prev = p /\ s.current = v /\ Steps(guests, s.result, p) /\ Changing(s.result) /\ v = Level(s.result) + c
  BY DEF Rounded
<1>2. t.prev = d /\ t.current = v + x
      /\ t.result = IF c # 0 THEN Append(s.result, <<p, v>>) ELSE s.result
  <2>1. p # -1
    OBVIOUS
  <2> QED BY <1>1, <2>1 DEF Functions!AddDay
<1>3. w = v + x
  BY InsideChanges
<1>4. v \in Nat /\ w \in Nat /\ c \in Int /\ x \in Int
  BY CountsAre
<1>5. s.result \in Seq(Int \X Int) /\ Len(s.result) \in Nat
  BY <1>1 DEF Steps
<1>6. Level(s.result) \in Int
  <2>1. CASE Len(s.result) = 0
    BY <2>1 DEF Level
  <2>2. CASE Len(s.result) # 0
    <3>1. Len(s.result) \in 1 .. Len(s.result)
      BY <1>5, <2>2
    <3>2. s.result[Len(s.result)] \in Int \X Int
      BY <1>5, <3>1
    <3> QED BY <2>2, <3>2 DEF Level
  <2> QED BY <2>1, <2>2
<1> HIDE DEF t, v, w, c, x
<1>7. CASE c # 0
  <2> DEFINE more == Append(s.result, <<p, v>>)
             m == Len(s.result)
  <2>1. /\ Steps(guests, more, d) /\ Level(more) = v /\ Len(more) = m + 1
        /\ \A i \in 2 .. m : more[i][2] = s.result[i][2] /\ more[i - 1][2] = s.result[i - 1][2]
        /\ m # 0 => more[m][2] = Level(s.result)
        /\ more[m + 1][2] = v
    BY <1>1, StepAppended DEF v
  <2> HIDE DEF more
  <2>2. Changing(more)
    <3> SUFFICES ASSUME NEW i \in 2 .. m + 1 PROVE more[i][2] # more[i - 1][2]
      BY <2>1 DEF Changing
    <3>1. CASE i \in 2 .. m
      BY <1>1, <2>1, <3>1 DEF Changing
    <3>2. CASE i = m + 1
      <4>1. m # 0 /\ i - 1 = m
        BY <1>5, <3>2
      <4>2. more[i][2] = v /\ more[i - 1][2] = Level(s.result)
        BY <2>1, <3>2, <4>1
      <4>3. v # Level(s.result)
        BY <1>1, <1>4, <1>6, <1>7
      <4> QED BY <4>2, <4>3
    <3> QED BY <1>5, <3>1, <3>2
  <2>3. t.result = more
    BY <1>2, <1>7 DEF more
  <2> QED BY <1>2, <1>3, <2>1, <2>2, <2>3 DEF Rounded, t, w, x
<1>8. CASE c = 0
  <2>1. t.result = s.result
    BY <1>2, <1>8
  <2>2. v = Level(s.result)
    BY <1>1, <1>4, <1>6, <1>8
  <2>3. Steps(guests, s.result, d)
    BY <1>1, <2>2, StepSpared DEF v
  <2> QED BY <1>1, <1>2, <1>3, <2>1, <2>2, <2>3 DEF Rounded, t, w, x
<1> QED BY <1>7, <1>8

LEMMA GuestsAre == ASSUME NEW guests \in SeqOf(Guests, MaxGuests) PROVE \E n : IsStay(guests, n)
<1>1. PICK n \in Nat : guests \in [1 .. n -> Guests]
  BY DEF SeqOf
<1>2. \A i \in 1 .. n : guests[i].in \in Nat /\ guests[i].out \in Nat /\ guests[i].in <= guests[i].out
  BY <1>1 DEF Guests
<1> QED BY <1>1, <1>2 DEF IsStay

(* The last day's step is there also when as many come as go, who then have  *)
(* come and gone on that day.                                                *)
LEMMA LastDay ==
  ASSUME NEW guests, NEW n, IsStay(guests, n), NEW d \in Functions!Days(guests), \A e \in Functions!Days(guests) : e <= d,
         Functions!DayChange(guests, d) = 0
  PROVE  \E g \in Functions!Range(guests) : g.in = g.out
<1>1. n \in Nat /\ DOMAIN guests = 1 .. n
      /\ \A i \in 1 .. n : guests[i].in \in Nat /\ guests[i].out \in Nat /\ guests[i].in <= guests[i].out
  BY DEF IsStay
<1>2. d \in Nat /\ d \in Int
  BY DaysAre
<1>3. \E i \in 1 .. n : guests[i].in = d
  <2> SUFFICES ASSUME \A i \in 1 .. n : guests[i].in # d PROVE FALSE
    OBVIOUS
  <2>1. ComesOn(guests, d) = {}
    BY <1>1 DEF ComesOn
  <2>2. Cardinality(ComesOn(guests, d)) = 0
    BY <2>1, FS_EmptySet
  <2>3. Functions!DayChange(guests, d) = Cardinality(ComesOn(guests, d)) - Cardinality(GoesOn(guests, d))
        /\ IsFiniteSet(GoesOn(guests, d)) /\ Cardinality(GoesOn(guests, d)) \in Nat
    BY <1>2, CountsAre
  <2>4. Cardinality(GoesOn(guests, d)) = 0
    BY <2>2, <2>3
  <2>5. GoesOn(guests, d) = {}
    BY <2>3, <2>4, FS_EmptySet
  <2>6. PICK i \in 1 .. n : guests[i].in = d \/ guests[i].out = d
    BY DaysAre
  <2> QED BY <1>1, <2>5, <2>6 DEF GoesOn
<1>4. PICK i \in 1 .. n : guests[i].in = d
  BY <1>3
<1>5. guests[i].out \in Functions!Days(guests)
  BY DaysAre
<1>6. guests[i].out <= d
  BY <1>5
<1>7. guests[i].in = guests[i].out
  BY <1>1, <1>2, <1>4, <1>6
<1> QED BY <1>1, <1>7 DEF Functions!Range

\* The last of the steps begun on day e is the highest of their places.
LEMMA ShownIs ==
  ASSUME NEW load \in Seq(Int \X Int), NEW e \in Int, NEW v \in Int, Shown(load, e, v)
  PROVE  LET begun == {i \in DOMAIN load : load[i][1] <= e}
         IN  IF begun = {} THEN v = 0 ELSE load[Functions!Max(begun)][2] = v
<1> DEFINE begun == {i \in DOMAIN load : load[i][1] <= e}
           m == Len(load)
<1>1. m \in Nat /\ DOMAIN load = 1 .. m
  OBVIOUS
<1>2. ASSUME (\A j \in 1 .. m : load[j][1] > e) /\ v = 0 PROVE begun = {} /\ v = 0
  <2>1. \A j \in 1 .. m : load[j] \in Int \X Int /\ load[j][1] \in Int
    OBVIOUS
  <2>2. begun = {}
    BY <1>1, <1>2, <2>1
  <2> QED BY <1>2, <2>2
<1>3. ASSUME NEW i \in 1 .. m, load[i][1] <= e, load[i][2] = v, \A j \in 1 .. m : load[j][1] <= e => j <= i
      PROVE  begun # {} /\ load[Functions!Max(begun)][2] = v
  <2>1. i \in begun /\ \A j \in begun : i >= j /\ j \in Int /\ i \in Int
    BY <1>1, <1>3
  <2> HIDE DEF begun
  <2>2. Functions!Max(begun) = CHOOSE k \in begun : \A y \in begun : k >= y
    BY DEF Functions!Max
  <2>3. \A k \in begun : (\A y \in begun : k >= y) => k = i
    BY <2>1
  <2>4. Functions!Max(begun) = i
    BY <2>1, <2>2, <2>3
  <2> QED BY <1>3, <2>1, <2>4
<1> HIDE DEF begun
<1>4. IF begun = {} THEN v = 0 ELSE load[Functions!Max(begun)][2] = v
  BY <1>2, <1>3 DEF Shown
<1> QED BY <1>4 DEF begun

(* ComputeLoad is right on every day for any guests who leave after coming.  *)
LEMMA LoadResults ==
  ASSUME NEW guests \in SeqOf(Guests, MaxGuests)
  PROVE  Functions!LoadRight(guests, Functions!ComputeLoad(guests))
<1> DEFINE D == Functions!Days(guests)
           days == Functions!Ordered(D)
           N == Cardinality(D)
           g == CHOOSE f : IsLoad(f, guests, days)
           load == Functions!ComputeLoad(guests)
           Good == /\ load \in Seq(Int \X Int)
                   /\ \A i, j \in 1 .. Len(load) : i < j => load[i][1] < load[j][1]
                   /\ \A i \in 2 .. Len(load) : load[i][2] = load[i - 1][2] => \E h \in Functions!Range(guests) : h.in = h.out
                   /\ \A d \in D : d \in Int /\ Inside(guests, d) \in Int /\ Shown(load, d, Inside(guests, d))
<1>1. PICK n : IsStay(guests, n)
  BY GuestsAre
<1>2. D \in SUBSET Nat /\ IsFiniteSet(D)
  BY <1>1, DaysAre
<1> HIDE DEF D, g, load, Good
<1>3. N \in Nat /\ days \in [1 .. N -> D] /\ Len(days) = N /\ Increases(days, N) /\ \A d \in D : \E i \in 1 .. N : days[i] = d
  BY <1>2, OrderedIs
<1> HIDE DEF days, N
<1>4. \E f : IsLoad(f, guests, days)
  <2>1. days \in [1 .. N -> Int]
    <3>1. D \subseteq Int
      BY <1>2
    <3>2. days \in [1 .. N -> D]
      BY <1>3
    <3> QED BY <3>1, <3>2
  <2> QED BY <1>1, <1>3, <2>1, LoadExists
<1>5. IsLoad(g, guests, days)
  BY <1>4 DEF g
<1>6. load = IF g[N].prev = -1 THEN <<>> ELSE Append(g[N].result, <<g[N].prev, g[N].current>>)
  BY <1>3 DEF Functions!ComputeLoad, IsLoad, days, D, load, g
<1>7. \A k \in 0 .. N : g[k] = IF k = 0 THEN [result |-> <<>>, current |-> 0, prev |-> -1]
                                ELSE Functions!AddDay(guests, g[k - 1], days[k])
  BY <1>3, <1>5 DEF IsLoad
<1> DEFINE T == {k \in 1 .. N : ~Rounded(guests, g[k], days[k])}
<1>8. \A k \in 1 .. N : days[k] \in Nat /\ days[k] \in D
  BY <1>2, <1>3
<1>9. ASSUME NEW k \in T PROVE \E i \in T : i < k
  <2>1. k \in 1 .. N /\ k \in 0 .. N /\ k # 0 /\ k \in Nat /\ N \in Nat
    BY <1>3
  <2>2. g[k] = Functions!AddDay(guests, g[k - 1], days[k])
    BY <1>7, <2>1
  <2>3. CASE k = 1
    <3>1. g[k - 1] = [result |-> <<>>, current |-> 0, prev |-> -1]
      BY <1>7, <2>1, <2>3
    <3>2. ASSUME NEW e \in D PROVE e >= days[1]
      <4>1. PICK i \in 1 .. N : days[i] = e
        BY <1>3
      <4>2. 1 \in 1 .. N /\ (i = 1 \/ 1 < i)
        BY <2>1
      <4>3. days[1] \in Nat /\ days[i] \in Nat
        BY <1>8, <4>2
      <4> QED BY <1>3, <4>1, <4>2, <4>3 DEF Increases
    <3>3. Rounded(guests, g[k], days[k])
      BY <1>1, <1>8, <2>1, <2>2, <2>3, <3>1, <3>2, FirstRound DEF D
    <3> QED BY <3>3
  <2>4. CASE k # 1
    <3>1. k - 1 \in 1 .. N /\ k - 1 < k
      BY <2>1, <2>4
    <3>2. ASSUME NEW e \in D PROVE e <= days[k - 1] \/ e >= days[k]
      <4>1. PICK i \in 1 .. N : days[i] = e
        BY <1>3
      <4>2. i < k - 1 \/ i = k - 1 \/ i = k \/ k < i
        BY <2>1
      <4>3. days[k - 1] \in Nat /\ days[k] \in Nat /\ days[i] \in Nat
        BY <1>8, <2>1, <3>1
      <4> QED BY <1>3, <2>1, <3>1, <4>1, <4>2, <4>3 DEF Increases
    <3>3. days[k - 1] < days[k] /\ days[k - 1] \in Nat /\ days[k] \in Nat
      BY <1>3, <1>8, <2>1, <3>1 DEF Increases
    <3>4. Rounded(guests, g[k - 1], days[k - 1]) => Rounded(guests, g[k], days[k])
      BY <1>1, <2>2, <3>2, <3>3, NextRound DEF D
    <3>5. k - 1 \in T
      BY <3>1, <3>4
    <3> QED BY <3>1, <3>5
  <2> QED BY <2>3, <2>4
<1>10. T \in SUBSET Nat
  OBVIOUS
<1> HIDE DEF T
<1>11. T = {}
  BY <1>9, <1>10, NoDescent
<1>12. ASSUME N = 0 PROVE Good
  <2>1. g[N].prev = -1
    BY <1>3, <1>7, <1>12
  <2>2. load = <<>> /\ D = {}
    BY <1>3, <1>6, <1>12, <2>1
  <2>3. load \in Seq(Int \X Int) /\ Len(load) = 0
    BY <2>2
  <2>4. Good
    BY <2>2, <2>3 DEF Good
  <2> QED BY <2>4
<1>13. ASSUME N # 0 PROVE Good
  <2> DEFINE p == days[N]
             s == g[N]
             m == Len(s.result)
  <2>1. N \in 1 .. N
    BY <1>3, <1>13
  <2>2. Rounded(guests, s, p) /\ p \in Nat /\ p \in D
    BY <1>8, <1>11, <2>1 DEF T
  <2>3. \A e \in D : e <= p
    <3> SUFFICES ASSUME NEW e \in D PROVE e <= p
      OBVIOUS
    <3>1. PICK i \in 1 .. N : days[i] = e
      BY <1>3
    <3>2. i = N \/ i < N
      BY <1>3
    <3>3. days[i] \in Nat
      BY <1>8
    <3> QED BY <1>3, <2>1, <2>2, <3>1, <3>2, <3>3 DEF Increases
  <2> HIDE DEF p, s
  <2>4. s.prev = p /\ s.current = Inside(guests, p) /\ Steps(guests, s.result, p) /\ Changing(s.result)
        /\ Inside(guests, p) = Level(s.result) + Functions!DayChange(guests, p)
    BY <2>2 DEF Rounded
  <2>5. load = Append(s.result, <<p, Inside(guests, p)>>)
    <3>1. p # -1
      BY <2>2
    <3> QED BY <1>6, <2>4, <3>1 DEF s
  <2>6. \A e \in D : e <= p \/ e >= p + 1
    BY <2>3
  <2>7. /\ Steps(guests, load, p + 1) /\ Len(load) = m + 1
        /\ \A i \in 2 .. m : load[i][2] = s.result[i][2] /\ load[i - 1][2] = s.result[i - 1][2]
        /\ m # 0 => load[m][2] = Level(s.result)
        /\ load[m + 1][2] = Inside(guests, p)
    <3>1. p + 1 \in Int /\ p < p + 1
      BY <2>2
    <3> QED BY <1>1, <2>2, <2>4, <2>5, <2>6, <3>1, StepAppended, SMTT(60) DEF D
  <2>8. m \in Nat
    BY <2>4 DEF Steps
  <2> HIDE DEF m
  <2>9. ASSUME NEW i \in 2 .. m + 1, load[i][2] = load[i - 1][2] PROVE \E h \in Functions!Range(guests) : h.in = h.out
    <3>1. i = m + 1
      <4>1. i \notin 2 .. m
        BY <2>4, <2>7, <2>9 DEF Changing, m
      <4> QED BY <2>8, <4>1
    <3>2. m # 0 /\ i - 1 = m
      BY <2>8, <3>1
    <3>3. Inside(guests, p) = Level(s.result)
      BY <2>7, <2>9, <3>1, <3>2
    <3>4. Functions!DayChange(guests, p) \in Int /\ Inside(guests, p) \in Int
      <4>1. p \in Int
        BY <2>2
      <4>2. Inside(guests, p) \in Nat
        BY <1>1, <4>1, CountsAre
      <4>3. /\ Functions!DayChange(guests, p) = Cardinality(ComesOn(guests, p)) - Cardinality(GoesOn(guests, p))
            /\ Cardinality(ComesOn(guests, p)) \in Nat /\ Cardinality(GoesOn(guests, p)) \in Nat
        BY <1>1, <4>1, CountsAre
      <4> QED BY <4>2, <4>3
    <3>5. Functions!DayChange(guests, p) = 0
      BY <2>4, <3>3, <3>4
    <3> QED BY <1>1, <2>2, <2>3, <3>5, LastDay DEF D
  <2>10. ASSUME NEW d \in D PROVE d \in Int /\ Inside(guests, d) \in Int /\ Shown(load, d, Inside(guests, d))
    <3>1. d \in Nat /\ d < p + 1
      BY <1>2, <2>2, <2>3
    <3>2. d \in Int
      BY <3>1
    <3>3. Inside(guests, d) \in Nat
      BY <1>1, <3>2, CountsAre
    <3> QED BY <2>7, <3>1, <3>3 DEF Steps, D
  <2>11. load \in Seq(Int \X Int) /\ \A i, j \in 1 .. Len(load) : i < j => load[i][1] < load[j][1]
    BY <2>7 DEF Steps
  <2>12. Good
    BY <2>7, <2>9, <2>10, <2>11 DEF Good
  <2> QED BY <2>12
<1>14. Good
  BY <1>12, <1>13
<1>15. DOMAIN load = 1 .. Len(load)
  BY <1>14 DEF Good
<1>16. ASSUME NEW d \in D
       PROVE  LET begun == {i \in DOMAIN load : load[i][1] <= d}
              IN  IF begun = {} THEN Inside(guests, d) = 0 ELSE load[Functions!Max(begun)][2] = Inside(guests, d)
  BY <1>14, ShownIs DEF Good
<1>17. \A d : Functions!Cardinality({i \in DOMAIN guests : guests[i].in <= d /\ d < guests[i].out}) = Inside(guests, d)
  BY SameCardinality DEF Inside
<1> QED BY <1>14, <1>15, <1>16, <1>17 DEF Functions!LoadRight, D, load, Good

-------------------------------------------------------------------------------
(***************************************************************************)
(* hogwarts.  The courses dfs is in are a path of needs; those it has left *)
(* are the answer, in an order in which every need comes first.  A need    *)
(* that is on the path closes a cycle, and a set of courses that need one  *)
(* another has no first one in the answer.                                 *)
(***************************************************************************)
Frame == [course : CourseNames, todo : SUBSET CourseNames]

CourseType ==
  /\ \E C \in SUBSET CourseNames : prereqs \in [C -> SUBSET CourseNames]
  /\ roots \subseteq DOMAIN prereqs
  /\ frames \in Seq(Frame) /\ answer \in Seq(CourseNames)
  /\ colors \in [CourseNames -> 0 .. 2] /\ panicked \in BOOLEAN

CoursePath ==
  /\ \A i, j \in 1 .. Len(frames) : frames[i].course = frames[j].course => i = j
  /\ \A i \in 1 .. Len(frames) - 1 : frames[i + 1].course \in Hogwarts!Needs(frames[i].course)
  /\ \A i \in 1 .. Len(frames) : frames[i].todo \subseteq Hogwarts!Needs(frames[i].course)
  /\ \A c \in CourseNames : colors[c] = 1 <=> \E i \in 1 .. Len(frames) : frames[i].course = c
  /\ \A i \in 1 .. Len(frames) : frames[i].course \in Hogwarts!Courses

CourseDone ==
  /\ \A c \in CourseNames : colors[c] = 2 <=> \E i \in 1 .. Len(answer) : answer[i] = c
  /\ \A i, j \in 1 .. Len(answer) : answer[i] = answer[j] => i = j
  /\ \A i \in 1 .. Len(answer) :
       answer[i] \in Hogwarts!Courses /\ \A c \in Hogwarts!Needs(answer[i]) : \E j \in 1 .. i - 1 : answer[j] = c
  /\ \A c \in DOMAIN prereqs \ roots : colors[c] # 0

\* what a call has gone through it has left, but for the need it is in
CourseTried ==
  ~panicked =>
    \A i \in 1 .. Len(frames) : \A c \in Hogwarts!Needs(frames[i].course) \ frames[i].todo :
      colors[c] = 2 \/ (i < Len(frames) /\ frames[i + 1].course = c)

CourseCycle == panicked => frames # <<>> /\ Hogwarts!Cyclic

CourseIInv == CourseType /\ CoursePath /\ CourseDone /\ CourseTried /\ CourseCycle

LEMMA CourseInitIInv == Hogwarts!CourseInit => CourseIInv
<1> SUFFICES ASSUME Hogwarts!CourseInit PROVE CourseIInv
  OBVIOUS
<1>1. frames = <<>> /\ answer = <<>> /\ panicked = FALSE /\ roots = DOMAIN prereqs /\ colors = [c \in CourseNames |-> 0]
      /\ \E C \in SUBSET CourseNames : prereqs \in [C -> SUBSET CourseNames]
  BY DEF Hogwarts!CourseInit
<1>2. Len(frames) = 0 /\ Len(answer) = 0 /\ frames \in Seq(Frame) /\ answer \in Seq(CourseNames)
  BY <1>1
<1>3. CourseType
  <2>1. colors \in [CourseNames -> 0 .. 2]
    <3>1. [c \in CourseNames |-> 0] \in [CourseNames -> 0 .. 2]
      OBVIOUS
    <3> QED BY <1>1, <3>1, Zenon
  <2>2. panicked \in BOOLEAN /\ roots \subseteq DOMAIN prereqs
    BY <1>1, Zenon
  <2> QED BY <1>1, <1>2, <2>1, <2>2, Zenon DEF CourseType
<1>4. CoursePath
  BY <1>1, <1>2 DEF CoursePath
<1>5. CourseDone
  BY <1>1, <1>2 DEF CourseDone
<1>6. CourseTried /\ CourseCycle
  BY <1>1, <1>2 DEF CourseTried, CourseCycle
<1> QED BY <1>3, <1>4, <1>5, <1>6 DEF CourseIInv

LEMMA NeedsAre ==
  ASSUME CourseType
  PROVE  /\ \A c \in CourseNames : Hogwarts!Needs(c) \subseteq Hogwarts!Courses /\ Hogwarts!Needs(c) \subseteq CourseNames
         /\ DOMAIN prereqs \subseteq Hogwarts!Courses /\ Hogwarts!Courses \subseteq CourseNames
         /\ \A c \in Hogwarts!Courses : c \in DOMAIN prereqs \/ \E d \in DOMAIN prereqs : c \in Hogwarts!Needs(d)
<1>1. PICK C \in SUBSET CourseNames : prereqs \in [C -> SUBSET CourseNames]
  BY DEF CourseType
<1>2. DOMAIN prereqs = C /\ \A c \in C : prereqs[c] \in SUBSET CourseNames
  BY <1>1
<1>3. Hogwarts!Courses = C \union UNION {prereqs[c] : c \in C}
  BY <1>2 DEF Hogwarts!Courses, Hogwarts!Range, Range
<1>4. \A c : Hogwarts!Needs(c) = IF c \in C THEN prereqs[c] ELSE {}
  BY <1>2 DEF Hogwarts!Needs
<1> QED BY <1>2, <1>3, <1>4

LEMMA Called ==
  ASSUME CourseType, NEW c \in CourseNames
  PROVE  /\ Hogwarts!Call(c) \in Frame /\ Hogwarts!Call(c).course = c /\ Hogwarts!Call(c).todo = Hogwarts!Needs(c)
BY NeedsAre DEF Hogwarts!Call, Frame

LEMMA DoneKept ==
  ASSUME CourseDone, prereqs' = prereqs, answer' = answer, colors' = colors, \A c \in DOMAIN prereqs \ roots' : colors[c] # 0
  PROVE  CourseDone'
<1>1. \A c : Hogwarts!Needs(c)' = Hogwarts!Needs(c)
  BY DEF Hogwarts!Needs
<1>2. Hogwarts!Courses' = Hogwarts!Courses
  BY DEF Hogwarts!Courses, Hogwarts!Range
<1>3. /\ \A c \in CourseNames : colors'[c] = 2 <=> \E i \in 1 .. Len(answer') : answer'[i] = c
      /\ \A i, j \in 1 .. Len(answer') : answer'[i] = answer'[j] => i = j
  BY DEF CourseDone
<1>4. \A i \in 1 .. Len(answer') :
        answer'[i] \in Hogwarts!Courses /\ \A c \in Hogwarts!Needs(answer'[i]) : \E j \in 1 .. i - 1 : answer'[j] = c
  <2>1. answer' = answer
    OBVIOUS
  <2>2. \A i \in 1 .. Len(answer) :
          answer[i] \in Hogwarts!Courses /\ \A c \in Hogwarts!Needs(answer[i]) : \E j \in 1 .. i - 1 : answer[j] = c
    BY DEF CourseDone
  <2> HIDE DEF CourseDone
  <2> QED BY <2>1, <2>2, Zenon
<1>5. \A c \in DOMAIN prereqs' \ roots' : colors'[c] # 0
  OBVIOUS
<1> QED BY <1>1, <1>2, <1>3, <1>4, <1>5 DEF CourseDone

LEMMA CourseRoot ==
  ASSUME CourseIInv, NEW k \in CourseNames, Hogwarts!Root(k)
  PROVE  CourseIInv'
<1>1. /\ ~panicked /\ frames = <<>> /\ k \in roots /\ roots' = roots \ {k} /\ prereqs' = prereqs /\ answer' = answer
      /\ panicked' = panicked
      /\ frames' = (IF colors[k] = 0 THEN <<Hogwarts!Call(k)>> ELSE frames)
      /\ colors' = (IF colors[k] = 0 THEN [colors EXCEPT ![k] = 1] ELSE colors)
  BY DEF Hogwarts!Root
<1>2. CourseType /\ CoursePath /\ CourseDone /\ CourseTried /\ CourseCycle
  BY DEF CourseIInv
<1>3. \A c : Hogwarts!Needs(c)' = Hogwarts!Needs(c)
  BY <1>1 DEF Hogwarts!Needs
<1>4. Hogwarts!Courses' = Hogwarts!Courses
  BY <1>1 DEF Hogwarts!Courses, Hogwarts!Range
<1>5. CourseCycle'
  BY <1>1 DEF CourseCycle
<1>6. colors \in [CourseNames -> 0 .. 2] /\ Len(frames) = 0 /\ answer \in Seq(CourseNames) /\ Len(answer) \in Nat
  BY <1>1, <1>2 DEF CourseType
<1>7. CASE colors[k] = 0
  <2>1. colors' \in [CourseNames -> 0 .. 2] /\ colors'[k] = 1 /\ \A c \in CourseNames : c # k => colors'[c] = colors[c]
    BY <1>1, <1>6, <1>7
  <2>2. frames' \in Seq(Frame) /\ Len(frames') = 1 /\ frames'[1].course = k /\ frames'[1].todo = Hogwarts!Needs(k)
    BY <1>1, <1>2, <1>7, Called
  <2>3. 1 .. Len(frames') = {1} /\ 1 .. Len(frames') - 1 = {}
    BY <2>2
  <2>4. CourseType'
    BY <1>1, <1>2, <2>1, <2>2 DEF CourseType
  <2>5. CoursePath'
    <3>1. k \in Hogwarts!Courses
      BY <1>1, <1>2, NeedsAre DEF CourseType
    <3>2. \A c \in CourseNames : colors'[c] = 1 <=> c = k
      <4>1. \A c \in CourseNames : colors[c] # 1
        BY <1>2, <1>6 DEF CoursePath
      <4> QED BY <2>1, <4>1
    <3> QED BY <1>3, <1>4, <2>2, <2>3, <3>1, <3>2 DEF CoursePath
  <2>6. CourseDone'
    <3>1. \A c \in CourseNames : colors'[c] = 2 <=> colors[c] = 2
      BY <1>7, <2>1
    <3>2. \A c \in DOMAIN prereqs \ (roots \ {k}) : colors'[c] # 0
      <4>1. DOMAIN prereqs \subseteq CourseNames
        BY <1>2, NeedsAre
      <4> QED BY <1>2, <2>1, <4>1 DEF CourseDone
    <3>3. answer' = answer /\ DOMAIN prereqs' \ roots' = DOMAIN prereqs \ (roots \ {k})
      BY <1>1
    <3> QED BY <1>2, <1>3, <1>4, <3>1, <3>2, <3>3 DEF CourseDone
  <2>7. CourseTried'
    BY <1>3, <2>2, <2>3 DEF CourseTried
  <2> QED BY <1>5, <2>4, <2>5, <2>6, <2>7 DEF CourseIInv
<1>8. CASE colors[k] # 0
  <2>1. frames' = frames /\ colors' = colors
    BY <1>1, <1>8
  <2>2. CourseType'
    BY <1>1, <1>2, <2>1 DEF CourseType
  <2>3. CoursePath'
    BY <1>2, <1>3, <1>4, <2>1 DEF CoursePath
  <2>4. CourseDone'
    <3>1. \A c \in DOMAIN prereqs \ (roots \ {k}) : colors[c] # 0
      BY <1>2, <1>8 DEF CourseDone
    <3> QED BY <1>1, <1>2, <2>1, <3>1, DoneKept
  <2>5. CourseTried'
    BY <1>1, <1>2, <1>3, <2>1 DEF CourseTried
  <2> QED BY <1>5, <2>2, <2>3, <2>4, <2>5 DEF CourseIInv
<1> QED BY <1>7, <1>8

LEMMA CourseReturn ==
  ASSUME CourseIInv, Hogwarts!Return
  PROVE  CourseIInv'
<1> DEFINE n == Len(frames)
           v == frames[n].course
           m == Len(answer)
<1>1. CourseType /\ CoursePath /\ CourseDone /\ CourseTried /\ CourseCycle
  BY DEF CourseIInv
<1>2. frames \in Seq(Frame) /\ n \in Nat /\ answer \in Seq(CourseNames) /\ m \in Nat /\ colors \in [CourseNames -> 0 .. 2]
  BY <1>1 DEF CourseType
<1>3. /\ ~panicked /\ frames # <<>> /\ frames[n].todo = {} /\ roots' = roots /\ prereqs' = prereqs /\ panicked' = panicked
      /\ colors' = [colors EXCEPT ![v] = 2] /\ answer' = Append(answer, v) /\ frames' = SubSeq(frames, 1, n - 1)
  BY DEF Hogwarts!Return, Hogwarts!dfs
<1>4. n \in 1 .. n /\ frames[n] \in Frame /\ v \in CourseNames
  <2>1. n # 0
    BY <1>2, <1>3
  <2>2. n \in 1 .. n
    BY <1>2, <2>1
  <2>3. frames[n] \in Frame
    BY <1>2, <2>2
  <2> QED BY <2>2, <2>3 DEF Frame
<1>5. frames' \in Seq(Frame) /\ Len(frames') = n - 1 /\ \A i \in 1 .. n - 1 : frames'[i] = frames[i]
  <2>2. n - 1 \in Nat
    BY <1>2, <1>4
  <2>3. /\ SubSeq(frames, 1, n - 1) \in Seq(Frame) /\ Len(SubSeq(frames, 1, n - 1)) = n - 1
        /\ \A i \in 1 .. n - 1 : SubSeq(frames, 1, n - 1)[i] = frames[i]
    <3>1. \A i \in 1 .. n - 1 : frames[i] \in Frame
      BY <1>2
    <3> HIDE DEF n
    <3>2. 1 \in Int /\ n - 1 \in Int /\ (n - 1) - 1 + 1 = n - 1 /\ n \in Nat /\ 1 <= n
      BY <1>2, <1>4
    <3>3. /\ SubSeq(frames, 1, n - 1) \in Seq(Frame)
          /\ Len(SubSeq(frames, 1, n - 1)) = IF 1 <= n - 1 THEN (n - 1) - 1 + 1 ELSE 0
          /\ \A i \in 1 .. (n - 1) - 1 + 1 : SubSeq(frames, 1, n - 1)[i] = frames[1 + i - 1]
      BY <3>1, <3>2, SubSeqProperties
    <3> QED BY <3>2, <3>3
  <2> QED BY <1>3, <2>3
<1>6. answer' \in Seq(CourseNames) /\ Len(answer') = m + 1 /\ answer'[m + 1] = v /\ \A i \in 1 .. m : answer'[i] = answer[i]
  BY <1>2, <1>3, <1>4
<1> HIDE DEF v
<1>7. colors' \in [CourseNames -> 0 .. 2] /\ colors'[v] = 2 /\ \A c \in CourseNames : c # v => colors'[c] = colors[c]
  BY <1>2, <1>3, <1>4
<1> HIDE DEF n, m
<1>8. \A c : Hogwarts!Needs(c)' = Hogwarts!Needs(c)
  BY <1>3 DEF Hogwarts!Needs
<1>9. Hogwarts!Courses' = Hogwarts!Courses
  BY <1>3 DEF Hogwarts!Courses, Hogwarts!Range
<1>10. /\ \A i, j \in 1 .. n : frames[i].course = frames[j].course => i = j
       /\ \A i \in 1 .. n - 1 : frames[i + 1].course \in Hogwarts!Needs(frames[i].course)
       /\ \A i \in 1 .. n : frames[i].todo \subseteq Hogwarts!Needs(frames[i].course) /\ frames[i].course \in Hogwarts!Courses
       /\ \A c \in CourseNames : colors[c] = 1 <=> \E i \in 1 .. n : frames[i].course = c
  BY <1>1 DEF CoursePath, n
<1>11. v = frames[n].course /\ colors[v] = 1 /\ v \in Hogwarts!Courses
  BY <1>4, <1>10 DEF v
<1>12. \A i \in 1 .. n - 1 : i \in 1 .. n /\ i # n /\ frames[i].course # v
  BY <1>2, <1>4, <1>10, <1>11
<1>13. CourseType'
  BY <1>1, <1>3, <1>5, <1>6, <1>7 DEF CourseType
<1>14. CoursePath'
  <2>1. \A i, j \in 1 .. n - 1 : frames'[i].course = frames'[j].course => i = j
    BY <1>5, <1>10, <1>12
  <2>2. \A i \in 1 .. n - 1 - 1 : frames'[i + 1].course \in Hogwarts!Needs(frames'[i].course)
    <3> SUFFICES ASSUME NEW i \in 1 .. n - 1 - 1 PROVE frames'[i + 1].course \in Hogwarts!Needs(frames'[i].course)
      OBVIOUS
    <3>1. i \in 1 .. n - 1 /\ i + 1 \in 1 .. n - 1
      BY <1>2
    <3> QED BY <1>5, <1>10, <3>1
  <2>3. \A i \in 1 .. n - 1 : frames'[i].todo \subseteq Hogwarts!Needs(frames'[i].course) /\ frames'[i].course \in Hogwarts!Courses
    BY <1>5, <1>10, <1>12
  <2>4. \A c \in CourseNames : colors'[c] = 1 <=> \E i \in 1 .. n - 1 : frames'[i].course = c
    <3> SUFFICES ASSUME NEW c \in CourseNames PROVE colors'[c] = 1 <=> \E i \in 1 .. n - 1 : frames[i].course = c
      BY <1>5
    <3>1. CASE c = v
      BY <1>7, <1>12, <3>1
    <3>2. CASE c # v
      <4>1. colors'[c] = colors[c]
        BY <1>7, <3>2
      <4>2. ASSUME NEW i \in 1 .. n, frames[i].course = c PROVE i \in 1 .. n - 1
        BY <1>2, <1>11, <3>2, <4>2
      <4> QED BY <1>10, <1>12, <4>1, <4>2
    <3> QED BY <3>1, <3>2
  <2> QED BY <1>5, <1>8, <1>9, <2>1, <2>2, <2>3, <2>4 DEF CoursePath
<1>15. CourseDone'
  <2>1. /\ \A c \in CourseNames : colors[c] = 2 <=> \E i \in 1 .. m : answer[i] = c
        /\ \A i, j \in 1 .. m : answer[i] = answer[j] => i = j
        /\ \A i \in 1 .. m :
             answer[i] \in Hogwarts!Courses /\ \A c \in Hogwarts!Needs(answer[i]) : \E j \in 1 .. i - 1 : answer[j] = c
        /\ \A c \in DOMAIN prereqs \ roots : colors[c] # 0
    BY <1>1 DEF CourseDone, m
  <2>2. \A i \in 1 .. m + 1 : i \in 1 .. m \/ i = m + 1
    BY <1>2
  <2>3. 1 .. m \subseteq 1 .. m + 1 /\ m + 1 \in 1 .. m + 1 /\ m + 1 \notin 1 .. m /\ m + 1 - 1 = m
    BY <1>2
  <2>4. \A i \in 1 .. m : answer[i] # v
    BY <1>4, <1>11, <2>1
  <2>5. \A c \in CourseNames : colors'[c] = 2 <=> \E i \in 1 .. m + 1 : answer'[i] = c
    <3> SUFFICES ASSUME NEW c \in CourseNames PROVE colors'[c] = 2 <=> \E i \in 1 .. m + 1 : answer'[i] = c
      OBVIOUS
    <3>1. CASE c = v
      BY <1>6, <1>7, <2>3, <3>1
    <3>2. CASE c # v
      <4>1. colors'[c] = colors[c]
        BY <1>7, <3>2
      <4>2. (\E i \in 1 .. m + 1 : answer'[i] = c) <=> \E i \in 1 .. m : answer[i] = c
        BY <1>6, <2>2, <2>3, <3>2
      <4> QED BY <2>1, <4>1, <4>2
    <3> QED BY <3>1, <3>2
  <2>6. \A i, j \in 1 .. m + 1 : answer'[i] = answer'[j] => i = j
    BY <1>6, <2>1, <2>2, <2>4
  <2>7. ASSUME NEW i \in 1 .. m + 1
        PROVE  answer'[i] \in Hogwarts!Courses /\ \A c \in Hogwarts!Needs(answer'[i]) : \E j \in 1 .. i - 1 : answer'[j] = c
    <3>1. CASE i = m + 1
      <4>0. i - 1 = m
        <5>1. m \in Nat
          BY <1>2
        <5> QED BY <5>1, <3>1
      <4>1. answer'[i] = v /\ 1 .. i - 1 = 1 .. m
        BY <1>6, <3>1, <4>0
      <4>2. ASSUME NEW c \in Hogwarts!Needs(v) PROVE \E j \in 1 .. m : answer'[j] = c
        <5>1. frames[n].todo = {} /\ c \in CourseNames
          BY <1>1, <1>3, <1>4, NeedsAre DEF n
        <5>2. colors[c] = 2 \/ (n < n /\ frames[n + 1].course = c)
          <6>1. c \in Hogwarts!Needs(frames[n].course) \ frames[n].todo
            BY <1>11, <5>1
          <6> QED BY <1>1, <1>3, <1>4, <6>1 DEF CourseTried, n
        <5>3. colors[c] = 2
          BY <1>2, <5>2
        <5> QED BY <1>6, <2>1, <5>1, <5>3
      <4> QED BY <1>11, <4>1, <4>2
    <3>2. CASE i \in 1 .. m
      <4>1. answer'[i] = answer[i] /\ \A j \in 1 .. i - 1 : j \in 1 .. m /\ answer'[j] = answer[j]
        BY <1>2, <1>6, <3>2
      <4> QED BY <2>1, <3>2, <4>1
    <3> QED BY <2>2, <3>1, <3>2
  <2>8. \A c \in DOMAIN prereqs \ roots : colors'[c] # 0
    <3>1. DOMAIN prereqs \subseteq CourseNames
      BY <1>1, NeedsAre
    <3> QED BY <1>7, <2>1, <3>1
  <2> QED BY <1>3, <1>6, <1>8, <1>9, <2>5, <2>6, <2>7, <2>8, ZenonT(60) DEF CourseDone
<1>16. CourseTried'
  <2> SUFFICES ASSUME NEW i \in 1 .. n - 1, NEW c \in Hogwarts!Needs(frames[i].course) \ frames[i].todo
               PROVE  colors'[c] = 2 \/ (i < n - 1 /\ frames'[i + 1].course = c)
    BY <1>5, <1>8 DEF CourseTried
  <2>1. i \in 1 .. n /\ i < n /\ frames[i] \in Frame
    BY <1>2, <1>12 DEF n
  <2>2. c \in CourseNames
    BY <1>1, <2>1, NeedsAre DEF Frame
  <2>3. colors[c] = 2 \/ frames[i + 1].course = c
    BY <1>1, <1>3, <2>1 DEF CourseTried, n
  <2>4. CASE colors[c] = 2
    BY <1>7, <2>2, <2>4
  <2>5. CASE frames[i + 1].course = c
    <3>1. CASE i + 1 = n
      BY <1>7, <1>11, <2>5, <3>1
    <3>2. CASE i + 1 # n
      <4>1. i + 1 \in 1 .. n - 1 /\ i < n - 1
        BY <1>2, <2>1, <3>2
      <4> QED BY <1>5, <2>5, <4>1
    <3> QED BY <3>1, <3>2
  <2> QED BY <2>3, <2>4, <2>5
<1>17. CourseCycle'
  BY <1>3 DEF CourseCycle
<1> QED BY <1>13, <1>14, <1>15, <1>16, <1>17 DEF CourseIInv

LEMMA NeedOnPath ==
  ASSUME CourseIInv, ~panicked, frames # <<>>, NEW x \in frames[Len(frames)].todo, colors[x] = 1
  PROVE  Hogwarts!Cyclic
<1> DEFINE n == Len(frames)
<1>1. CourseType /\ CoursePath
  BY DEF CourseIInv
<1>2. frames \in Seq(Frame) /\ n \in Nat
  BY <1>1 DEF CourseType
<1>3. n \in 1 .. n
  BY <1>2
<1> HIDE DEF n
<1>4. \A i \in 1 .. n : frames[i].course \in CourseNames
  <2>1. \A i \in 1 .. n : frames[i] \in Frame
    BY <1>2 DEF n
  <2> QED BY <2>1 DEF Frame
<1>5. /\ \A i \in 1 .. n - 1 : frames[i + 1].course \in Hogwarts!Needs(frames[i].course)
      /\ \A i \in 1 .. n : frames[i].todo \subseteq Hogwarts!Needs(frames[i].course) /\ frames[i].course \in Hogwarts!Courses
      /\ \A c \in CourseNames : colors[c] = 1 <=> \E i \in 1 .. n : frames[i].course = c
  BY <1>1 DEF CoursePath, n
<1>6. x \in Hogwarts!Needs(frames[n].course) /\ x \in CourseNames
  BY <1>1, <1>3, <1>4, <1>5, NeedsAre DEF n
<1>7. PICK p \in 1 .. n : frames[p].course = x
  BY <1>5, <1>6
<1> DEFINE S == {frames[i].course : i \in p .. n}
<1>8. \A i \in p .. n : i \in 1 .. n
  BY <1>2
<1>9. S \subseteq Hogwarts!Courses /\ x \in S
  <2>1. p \in p .. n
    BY <1>2
  <2> QED BY <1>5, <1>7, <1>8, <2>1
<1>10. ASSUME NEW i \in p .. n PROVE \E d \in S : d \in Hogwarts!Needs(frames[i].course)
  <2>1. CASE i = n
    BY <1>6, <1>9, <2>1
  <2>2. CASE i # n
    <3>1. i \in 1 .. n - 1 /\ i + 1 \in p .. n
      BY <1>2, <2>2
    <3> QED BY <1>5, <3>1
  <2> QED BY <2>1, <2>2
<1>11. \A c \in S : Hogwarts!Needs(c) \intersect S # {}
  BY <1>10
<1> HIDE DEF S
<1> QED BY <1>9, <1>11 DEF Hogwarts!Cyclic

LEMMA CourseNeighbour ==
  ASSUME CourseIInv, NEW x \in CourseNames, Hogwarts!Neighbour(x)
  PROVE  CourseIInv'
<1> DEFINE n == Len(frames)
           top == [course |-> frames[n].course, todo |-> frames[n].todo \ {x}]
           rest == [frames EXCEPT ![n] = top]
<1>1. CourseType /\ CoursePath /\ CourseDone /\ CourseTried
  BY DEF CourseIInv
<1>2. frames \in Seq(Frame) /\ n \in Nat /\ answer \in Seq(CourseNames) /\ colors \in [CourseNames -> 0 .. 2]
  BY <1>1 DEF CourseType
<1>3. /\ ~panicked /\ frames # <<>> /\ x \in frames[n].todo
      /\ roots' = roots /\ prereqs' = prereqs /\ answer' = answer
      /\ frames' = (IF colors[x] = 0 THEN Append(rest, Hogwarts!Call(x)) ELSE rest)
      /\ colors' = (IF colors[x] = 0 THEN [colors EXCEPT ![x] = 1] ELSE colors)
  BY DEF Hogwarts!Neighbour, Hogwarts!dfs
<1>4. panicked' = (colors[x] = 1)
  BY Zenon DEF Hogwarts!Neighbour
<1>5. n \in 1 .. n /\ frames[n] \in Frame
  <2>1. n \in 1 .. n
    BY <1>2, <1>3
  <2> QED BY <1>2, <2>1
<1>6. top \in Frame /\ top.course = frames[n].course /\ top.todo = frames[n].todo \ {x}
  BY <1>5 DEF Frame
<1> HIDE DEF top
<1>7. rest \in Seq(Frame) /\ Len(rest) = n /\ rest[n] = top /\ \A i \in 1 .. n : i # n => rest[i] = frames[i]
  BY <1>2, <1>5, <1>6
<1> HIDE DEF n, rest
<1>8. \A i \in 1 .. n : rest[i].course = frames[i].course
  BY <1>6, <1>7
<1>9. \A c : Hogwarts!Needs(c)' = Hogwarts!Needs(c)
  BY <1>3 DEF Hogwarts!Needs
<1>10. Hogwarts!Courses' = Hogwarts!Courses
  BY <1>3 DEF Hogwarts!Courses, Hogwarts!Range
<1>11. /\ \A i, j \in 1 .. n : frames[i].course = frames[j].course => i = j
       /\ \A i \in 1 .. n - 1 : frames[i + 1].course \in Hogwarts!Needs(frames[i].course)
       /\ \A i \in 1 .. n : frames[i].todo \subseteq Hogwarts!Needs(frames[i].course)
       /\ \A c \in CourseNames : colors[c] = 1 <=> \E i \in 1 .. n : frames[i].course = c
       /\ \A i \in 1 .. n : frames[i].course \in Hogwarts!Courses
  BY <1>1 DEF CoursePath, n
<1>12. /\ \A i, j \in 1 .. n : rest[i].course = rest[j].course => i = j
       /\ \A i \in 1 .. n - 1 : rest[i + 1].course \in Hogwarts!Needs(rest[i].course)
       /\ \A i \in 1 .. n : rest[i].todo \subseteq Hogwarts!Needs(rest[i].course)
       /\ \A c \in CourseNames : colors[c] = 1 <=> \E i \in 1 .. n : rest[i].course = c
       /\ \A i \in 1 .. n : rest[i].course \in Hogwarts!Courses
  <2>1. \A i \in 1 .. n - 1 : i \in 1 .. n /\ i + 1 \in 1 .. n
    BY <1>2
  <2>2. \A i \in 1 .. n : rest[i].todo \subseteq Hogwarts!Needs(rest[i].course)
    BY <1>6, <1>7, <1>8, <1>11
  <2> QED BY <1>8, <1>11, <2>1, <2>2
<1>13. x \in Hogwarts!Needs(frames[n].course) /\ x \in Hogwarts!Courses
  <2>1. frames[n].course \in CourseNames
    BY <1>5 DEF Frame
  <2> QED BY <1>1, <1>3, <1>5, <1>11, <2>1, NeedsAre
<1>14. ASSUME NEW i \in 1 .. n, NEW c \in Hogwarts!Needs(rest[i].course) \ rest[i].todo
       PROVE  c \in CourseNames /\ (colors[c] = 2 \/ (i < n /\ rest[i + 1].course = c) \/ (i = n /\ c = x))
  <2>1. frames[i] \in Frame /\ rest[i].course = frames[i].course
    BY <1>2, <1>8 DEF n
  <2>2. c \in CourseNames
    BY <1>1, <2>1, NeedsAre DEF Frame
  <2>3. CASE i = n /\ c = x
    BY <2>2, <2>3
  <2>4. CASE ~(i = n /\ c = x)
    <3>1. c \in Hogwarts!Needs(frames[i].course) \ frames[i].todo
      BY <1>6, <1>7, <2>1, <2>4
    <3>2. colors[c] = 2 \/ (i < n /\ frames[i + 1].course = c)
      BY <1>1, <1>3, <3>1 DEF CourseTried, n
    <3>3. i < n => i + 1 \in 1 .. n
      BY <1>2
    <3> QED BY <1>8, <2>2, <3>2, <3>3
  <2> QED BY <2>3, <2>4
<1>15. CASE colors[x] # 0
  <2>1. frames' = rest /\ colors' = colors
    BY <1>3, <1>15
  <2>2. CourseType'
    <3>1. panicked' \in BOOLEAN
      BY <1>4, Zenon
    <3> QED BY <1>1, <1>3, <1>7, <2>1, <3>1 DEF CourseType
  <2>3. CoursePath'
    BY <1>7, <1>9, <1>10, <1>12, <2>1 DEF CoursePath
  <2>4. CourseDone'
    <3>1. \A c \in DOMAIN prereqs \ roots' : colors[c] # 0
      BY <1>1, <1>3 DEF CourseDone
    <3> QED BY <1>1, <1>3, <2>1, <3>1, DoneKept
  <2>5. CASE colors[x] = 1
    <3>1. panicked'
      BY <1>4, <2>5, Zenon
    <3>2. CourseTried'
      BY <3>1 DEF CourseTried
    <3>3. Hogwarts!Cyclic
      BY <1>3, <2>5, NeedOnPath DEF n
    <3>4. Hogwarts!Cyclic'
      BY <1>9, <1>10, <3>3 DEF Hogwarts!Cyclic
    <3>5. frames' # <<>>
      BY <1>5, <1>7, <2>1
    <3> QED BY <2>2, <2>3, <2>4, <3>2, <3>4, <3>5 DEF CourseIInv, CourseCycle
  <2>6. CASE colors[x] = 2
    <3>1. ~panicked'
      <4>1. colors[x] # 1
        BY <2>6
      <4> QED BY <1>4, <4>1, Zenon
    <3>2. CourseTried'
      <4> SUFFICES ASSUME NEW i \in 1 .. n, NEW c \in Hogwarts!Needs(rest[i].course) \ rest[i].todo
                   PROVE  colors[c] = 2 \/ (i < n /\ rest[i + 1].course = c)
        BY <1>7, <1>9, <2>1 DEF CourseTried
      <4> QED BY <1>14, <2>6
    <3>3. CourseCycle'
      BY <3>1 DEF CourseCycle
    <3> QED BY <2>2, <2>3, <2>4, <3>2, <3>3 DEF CourseIInv
  <2>7. colors[x] \in 0 .. 2
    BY <1>2
  <2> QED BY <1>15, <2>5, <2>6, <2>7
<1>16. CASE colors[x] = 0
  <2>1. /\ frames' = Append(rest, Hogwarts!Call(x)) /\ colors' \in [CourseNames -> 0 .. 2] /\ colors'[x] = 1
        /\ \A c \in CourseNames : c # x => colors'[c] = colors[c]
    BY <1>2, <1>3, <1>16
  <2>2. Hogwarts!Call(x) \in Frame /\ Hogwarts!Call(x).course = x /\ Hogwarts!Call(x).todo = Hogwarts!Needs(x)
    BY <1>1, Called
  <2>3. /\ frames' \in Seq(Frame) /\ Len(frames') = n + 1 /\ frames'[n + 1].course = x /\ frames'[n + 1].todo = Hogwarts!Needs(x)
        /\ \A i \in 1 .. n : frames'[i] = rest[i]
    <3>1. /\ frames' \in Seq(Frame) /\ Len(frames') = n + 1 /\ frames'[n + 1] = Hogwarts!Call(x)
          /\ \A i \in 1 .. n : frames'[i] = rest[i]
      BY <1>2, <1>7, <2>1, <2>2
    <3> QED BY <2>2, <3>1
  <2>4. \A i \in 1 .. n + 1 : i \in 1 .. n \/ i = n + 1
    BY <1>2
  <2>5. 1 .. n \subseteq 1 .. n + 1 /\ n + 1 \in 1 .. n + 1 /\ n + 1 - 1 = n
    BY <1>2
  <2>6. \A i \in 1 .. n : rest[i].course # x
    BY <1>12, <1>16
  <2>7. ~panicked'
    <3>1. colors[x] # 1
      BY <1>16
    <3> QED BY <1>4, <3>1, Zenon
  <2>8. CourseType'
    <3>1. panicked' \in BOOLEAN
      BY <1>4, Zenon
    <3> QED BY <1>1, <1>3, <2>1, <2>3, <3>1 DEF CourseType
  <2>9. CoursePath'
    <3>1. \A i, j \in 1 .. n + 1 : frames'[i].course = frames'[j].course => i = j
      BY <1>12, <2>3, <2>4, <2>6
    <3>2. ASSUME NEW i \in 1 .. n + 1 - 1 PROVE frames'[i + 1].course \in Hogwarts!Needs(frames'[i].course)
      <4>1. i \in 1 .. n
        BY <2>5
      <4>2. CASE i = n
        BY <1>5, <1>8, <1>13, <2>3, <4>1, <4>2
      <4>3. CASE i # n
        <5>1. i \in 1 .. n - 1 /\ i + 1 \in 1 .. n
          BY <1>2, <4>1, <4>3
        <5> QED BY <1>12, <2>3, <4>1, <5>1
      <4> QED BY <4>2, <4>3
    <3>3. \A i \in 1 .. n + 1 : frames'[i].todo \subseteq Hogwarts!Needs(frames'[i].course) /\ frames'[i].course \in Hogwarts!Courses
      BY <1>12, <1>13, <2>3, <2>4
    <3>4. \A c \in CourseNames : colors'[c] = 1 <=> \E i \in 1 .. n + 1 : frames'[i].course = c
      <4> SUFFICES ASSUME NEW c \in CourseNames PROVE colors'[c] = 1 <=> \E i \in 1 .. n + 1 : frames'[i].course = c
        OBVIOUS
      <4>1. CASE c = x
        BY <2>1, <2>3, <2>5, <4>1
      <4>2. CASE c # x
        <5>1. (\E i \in 1 .. n + 1 : frames'[i].course = c) <=> \E i \in 1 .. n : rest[i].course = c
          BY <2>3, <2>4, <2>5, <4>2
        <5> QED BY <1>12, <2>1, <4>2, <5>1
      <4> QED BY <4>1, <4>2
    <3>5. Len(frames') = n + 1
      BY <2>3
    <3>6. \A i, j \in 1 .. Len(frames') : frames'[i].course = frames'[j].course => i = j
      BY <3>1, <3>5
    <3>7. \A i \in 1 .. Len(frames') - 1 : frames'[i + 1].course \in Hogwarts!Needs(frames'[i].course)
      <4>1. Len(frames') - 1 = n + 1 - 1
        BY <1>2, <3>5
      <4> QED BY <3>2, <4>1, Zenon
    <3>8. \A c \in CourseNames : colors'[c] = 1 <=> \E i \in 1 .. Len(frames') : frames'[i].course = c
      BY <3>4, <3>5, Zenon
    <3>9. /\ \A i \in 1 .. Len(frames') : frames'[i].todo \subseteq Hogwarts!Needs(frames'[i].course)
          /\ \A i \in 1 .. Len(frames') : frames'[i].course \in Hogwarts!Courses
      BY <3>3, <3>5
    <3> QED BY <1>9, <1>10, <3>6, <3>7, <3>8, <3>9 DEF CoursePath
  <2>10. CourseDone'
    <3>1. /\ \A c \in CourseNames : colors[c] = 2 <=> \E i \in 1 .. Len(answer) : answer[i] = c
          /\ \A i, j \in 1 .. Len(answer) : answer[i] = answer[j] => i = j
          /\ \A c \in DOMAIN prereqs \ roots : colors[c] # 0
      BY <1>1 DEF CourseDone
    <3>2. \A i \in 1 .. Len(answer) :
            answer[i] \in Hogwarts!Courses /\ \A c \in Hogwarts!Needs(answer[i]) : \E j \in 1 .. i - 1 : answer[j] = c
      BY <1>1 DEF CourseDone
    <3>3. \A c \in CourseNames : colors'[c] = 2 <=> colors[c] = 2
      BY <1>16, <2>1
    <3>4. \A c \in DOMAIN prereqs \ roots : colors'[c] # 0
      <4>1. DOMAIN prereqs \subseteq CourseNames
        BY <1>1, NeedsAre
      <4> QED BY <2>1, <3>1, <4>1
    <3>5. answer' = answer /\ DOMAIN prereqs' \ roots' = DOMAIN prereqs \ roots
      BY <1>3
    <3> QED BY <1>9, <1>10, <3>1, <3>2, <3>3, <3>4, <3>5, SMTT(60) DEF CourseDone
  <2>11. CourseTried'
    <3> SUFFICES ASSUME NEW i \in 1 .. n + 1, NEW c \in Hogwarts!Needs(frames'[i].course) \ frames'[i].todo
                 PROVE  colors'[c] = 2 \/ (i < n + 1 /\ frames'[i + 1].course = c)
      BY <1>9, <2>3 DEF CourseTried
    <3>1. i \in 1 .. n /\ i < n + 1
      <4>1. i # n + 1
        BY <2>3
      <4> QED BY <1>2, <2>4, <4>1
    <3>2. c \in Hogwarts!Needs(rest[i].course) \ rest[i].todo
      BY <2>3, <3>1
    <3>3. c \in CourseNames /\ (colors[c] = 2 \/ (i < n /\ rest[i + 1].course = c) \/ (i = n /\ c = x))
      BY <1>14, <3>1, <3>2
    <3>4. colors[c] = 2 => colors'[c] = 2
      BY <1>16, <2>1, <3>3
    <3>5. i < n => frames'[i + 1] = rest[i + 1]
      BY <1>2, <2>3, <3>1, SMTT(60)
    <3> QED BY <2>3, <3>1, <3>3, <3>4, <3>5
  <2>12. CourseCycle'
    BY <2>7 DEF CourseCycle
  <2> QED BY <2>8, <2>9, <2>10, <2>11, <2>12 DEF CourseIInv
<1> QED BY <1>15, <1>16

LEMMA CourseNextIInv ==
  ASSUME CourseIInv, [Hogwarts!CourseNext]_coursevars
  PROVE  CourseIInv'
<1>1. CASE UNCHANGED coursevars
  <2>1. /\ prereqs' = prereqs /\ roots' = roots /\ frames' = frames /\ colors' = colors /\ answer' = answer
        /\ panicked' = panicked
    BY <1>1 DEF coursevars
  <2>2. \A c : Hogwarts!Needs(c)' = Hogwarts!Needs(c)
    BY <2>1 DEF Hogwarts!Needs
  <2>3. Hogwarts!Courses' = Hogwarts!Courses
    BY <2>1 DEF Hogwarts!Courses, Hogwarts!Range
  <2>4. Hogwarts!Cyclic' = Hogwarts!Cyclic
    BY <2>2, <2>3 DEF Hogwarts!Cyclic
  <2>5. CourseType' /\ CourseCycle'
    BY <2>1, <2>4 DEF CourseIInv, CourseType, CourseCycle
  <2>6. CoursePath'
    BY <2>1, <2>2, <2>3 DEF CourseIInv, CoursePath
  <2>7. CourseDone'
    <3>1. CourseDone /\ \A c \in DOMAIN prereqs \ roots' : colors[c] # 0
      BY <2>1 DEF CourseIInv, CourseDone
    <3> QED BY <2>1, <3>1, DoneKept
  <2>8. CourseTried'
    BY <2>1, <2>2 DEF CourseIInv, CourseTried
  <2> QED BY <2>5, <2>6, <2>7, <2>8 DEF CourseIInv
<1>2. ASSUME NEW c \in CourseNames, Hogwarts!Root(c) \/ Hogwarts!Neighbour(c) PROVE CourseIInv'
  BY <1>2, CourseRoot, CourseNeighbour
<1>3. CASE Hogwarts!Return
  BY <1>3, CourseReturn
<1> QED BY <1>1, <1>2, <1>3 DEF Hogwarts!CourseNext

LEMMA CourseSound ==
  ASSUME CourseIInv
  PROVE  Hogwarts!CoursesRight
<1> DEFINE m == Len(answer)
<1>1. CourseType /\ CoursePath /\ CourseDone /\ CourseTried /\ CourseCycle
  BY DEF CourseIInv
<1>2. answer \in Seq(CourseNames) /\ m \in Nat /\ DOMAIN answer = 1 .. m
  BY <1>1 DEF CourseType
<1>3. /\ \A c \in CourseNames : colors[c] = 2 <=> \E i \in 1 .. m : answer[i] = c
      /\ \A i, j \in 1 .. m : answer[i] = answer[j] => i = j
      /\ \A i \in 1 .. m :
           answer[i] \in Hogwarts!Courses /\ \A c \in Hogwarts!Needs(answer[i]) : \E j \in 1 .. i - 1 : answer[j] = c
      /\ \A c \in DOMAIN prereqs \ roots : colors[c] # 0
  BY <1>1 DEF CourseDone
<1>4. \A i \in 1 .. m : answer[i] \in CourseNames
  BY <1>2
<1>5. Hogwarts!Range(answer) = {answer[i] : i \in 1 .. m}
  BY <1>2 DEF Hogwarts!Range
<1> HIDE DEF m
<1>6. ASSUME Hogwarts!Left PROVE Hogwarts!Range(answer) = Hogwarts!Courses
  <2>1. roots = {} /\ frames = <<>> /\ Len(frames) = 0
    BY <1>6 DEF Hogwarts!Left
  <2>2. \A c \in CourseNames : colors[c] # 1
    BY <1>1, <2>1 DEF CoursePath
  <2>3. ASSUME NEW d \in DOMAIN prereqs PROVE \E i \in 1 .. m : answer[i] = d
    <3>1. d \in CourseNames /\ colors[d] \in 0 .. 2
      BY <1>1, NeedsAre DEF CourseType
    <3>2. colors[d] = 2
      BY <1>3, <2>1, <2>2, <3>1
    <3> QED BY <1>3, <3>1, <3>2
  <2>4. ASSUME NEW c \in Hogwarts!Courses PROVE \E i \in 1 .. m : answer[i] = c
    <3>1. CASE c \in DOMAIN prereqs
      BY <2>3, <3>1
    <3>2. CASE c \notin DOMAIN prereqs
      <4>1. PICK d \in DOMAIN prereqs : c \in Hogwarts!Needs(d)
        BY <1>1, <3>2, NeedsAre
      <4>2. PICK i \in 1 .. m : answer[i] = d
        BY <2>3
      <4>3. PICK j \in 1 .. i - 1 : answer[j] = c
        BY <1>3, <4>1, <4>2
      <4>4. j \in 1 .. m
        BY <1>2
      <4> QED BY <4>3, <4>4
    <3> QED BY <3>1, <3>2
  <2> QED BY <1>3, <1>5, <2>4
<1>7. ASSUME Hogwarts!Left, NEW S \in SUBSET Hogwarts!Courses, S # {}, \A c \in S : Hogwarts!Needs(c) \intersect S # {}
      PROVE  FALSE
  <2> DEFINE T == {i \in 1 .. m : answer[i] \in S}
  <2>1. T # {}
    BY <1>5, <1>6, <1>7
  <2>2. ASSUME NEW k \in T PROVE \E l \in T : l < k
    <3>1. PICK c \in S : c \in Hogwarts!Needs(answer[k])
      BY <1>7
    <3>2. PICK j \in 1 .. k - 1 : answer[j] = c
      BY <1>3, <3>1
    <3>3. j \in 1 .. m /\ j < k
      BY <1>2
    <3> QED BY <3>2, <3>3
  <2>3. T \in SUBSET Nat
    OBVIOUS
  <2> HIDE DEF T
  <2> QED BY <2>1, <2>2, <2>3, NoDescent
<1>8. panicked => Hogwarts!Cyclic
  BY <1>1 DEF CourseCycle
<1>9. Hogwarts!Left => ~Hogwarts!Cyclic
  BY <1>7 DEF Hogwarts!Cyclic
<1>10. \A i \in DOMAIN answer : Hogwarts!Needs(answer[i]) \subseteq {answer[j] : j \in 1 .. i - 1}
  BY <1>2, <1>3
<1>11. Hogwarts!IsInjective(answer)
  BY <1>2, <1>3 DEF Hogwarts!IsInjective
<1> QED BY <1>6, <1>8, <1>9, <1>10, <1>11 DEF Hogwarts!CoursesRight

-------------------------------------------------------------------------------
(***************************************************************************)
(* olympics: sums of medals.  A table that is credited with some of the    *)
(* records in their order has for each name the sum of those records that  *)
(* have the name.                                                          *)
(***************************************************************************)
Medals == [1 .. 4 -> Int]
Winner == [athlete : Int, country : Int, sport : Int, year : Int, medals : Medals]
IsWinners(W, N) == N \in Nat /\ W \in [1 .. N -> Winner] /\ Len(W) = N

LEMMA PlusIs == Games!NoMedals \in Medals /\ \A m \in Medals, k \in Medals : Games!Plus(m, k) \in Medals
BY DEF Games!NoMedals, Games!Plus, Medals

LEMMA MedalsAre ==
  ASSUME NEW W, NEW N, IsWinners(W, N), NEW k \in 1 .. N
  PROVE  W[k] \in Winner /\ W[k].medals \in Medals
BY SMTT(60) DEF IsWinners, Winner

IsTotals(g, W, I) ==
  g = [n \in 0 .. Len(W) |->
         IF n = 0 THEN Games!NoMedals ELSE IF n \in I THEN Games!Plus(g[n - 1], W[n].medals) ELSE g[n - 1]]

LEMMA TotalsExist ==
  ASSUME NEW W, NEW N, IsWinners(W, N), NEW I
  PROVE  \E g : IsTotals(g, W, I)
<1> DEFINE add(m, k) == IF k \in I THEN Games!Plus(m, W[k].medals) ELSE m
           step == [m \in Medals |-> [k \in 1 .. N |-> add(m, k)]]
<1>1. N \in Nat /\ Len(W) = N
  BY DEF IsWinners
<1>2. \A m \in Medals, k \in 1 .. N : add(m, k) \in Medals
  BY MedalsAre, PlusIs
<1> HIDE DEF add
<1>3. IsStep(step, Medals, N) /\ \A m \in Medals, k \in 1 .. N : step[m][k] = add(m, k)
  BY <1>2 DEF IsStep
<1> HIDE DEF step
<1>4. PICK g : IsLoop(g, Games!NoMedals, step, Medals, N)
  BY <1>1, <1>3, PlusIs, LoopExists
<1>5. g \in [0 .. N -> Medals] /\ g[0] = Games!NoMedals /\ \A k \in 1 .. N : g[k] = step[g[k - 1]][k]
  BY <1>4 DEF IsLoop
<1>6. \A n \in 0 .. N : g[n] = IF n = 0 THEN Games!NoMedals ELSE add(g[n - 1], n)
  <2> SUFFICES ASSUME NEW n \in 0 .. N PROVE g[n] = IF n = 0 THEN Games!NoMedals ELSE add(g[n - 1], n)
    OBVIOUS
  <2>1. CASE n = 0
    BY <1>5, <2>1
  <2>2. CASE n # 0
    <3>1. n \in 1 .. N /\ n - 1 \in 0 .. N
      BY <1>1, <2>2, SMTT(60)
    <3>2. g[n - 1] \in Medals /\ g[n] = step[g[n - 1]][n]
      BY <1>5, <3>1
    <3> QED BY <1>3, <2>2, <3>1, <3>2
  <2> QED BY <2>1, <2>2
<1>7. g = [n \in 0 .. N |-> g[n]]
  BY <1>5
<1> QED BY <1>1, <1>6, <1>7 DEF IsTotals, add

LEMMA TotalsAre ==
  ASSUME NEW W, NEW N, IsWinners(W, N), NEW I
  PROVE  /\ Games!Totals(W, I)[0] = Games!NoMedals
         /\ \A k \in 1 .. N : Games!Totals(W, I)[k] = IF k \in I THEN Games!Plus(Games!Totals(W, I)[k - 1], W[k].medals)
                                                     ELSE Games!Totals(W, I)[k - 1]
         /\ \A k \in 0 .. N : Games!Totals(W, I)[k] \in Medals
         /\ Games!Sum(W, I) = Games!Totals(W, I)[N]
<1> DEFINE t == CHOOSE g : IsTotals(g, W, I)
<1>1. N \in Nat /\ Len(W) = N
  BY DEF IsWinners
<1>2. IsTotals(t, W, I)
  BY TotalsExist
<1>3. Games!Totals(W, I) = t
  BY DEF Games!Totals, IsTotals
<1> HIDE DEF t
<1>4. \A n \in 0 .. N : t[n] = IF n = 0 THEN Games!NoMedals ELSE IF n \in I THEN Games!Plus(t[n - 1], W[n].medals) ELSE t[n - 1]
  BY <1>1, <1>2 DEF IsTotals
<1>5. t[0] = Games!NoMedals
  <2>1. 0 \in 0 .. N
    BY <1>1
  <2> QED BY <1>4, <2>1
<1>6. \A k \in 1 .. N : k \in 0 .. N /\ k # 0 /\ k - 1 \in 0 .. N /\ k - 1 < k
  BY <1>1
<1>7. \A k \in 1 .. N : t[k] = IF k \in I THEN Games!Plus(t[k - 1], W[k].medals) ELSE t[k - 1]
  BY <1>4, <1>6
<1> DEFINE T == {k \in 0 .. N : t[k] \notin Medals}
<1>8. ASSUME NEW k \in T PROVE \E m \in T : m < k
  <2>1. k # 0
    BY <1>5, PlusIs
  <2>2. k \in 1 .. N
    BY <1>1, <2>1
  <2>3. t[k - 1] \in Medals => t[k] \in Medals
    BY <1>7, <2>2, MedalsAre, PlusIs
  <2> QED BY <1>6, <2>2, <2>3
<1>9. T = {}
  <2>1. T \in SUBSET Nat
    OBVIOUS
  <2> HIDE DEF T
  <2> QED BY <1>8, <2>1, NoDescent
<1> QED BY <1>1, <1>3, <1>5, <1>7, <1>9 DEF Games!Sum

LEMMA TotalsNone ==
  ASSUME NEW W, NEW N, IsWinners(W, N), NEW I, NEW n \in 0 .. N, \A i \in 1 .. n : i \notin I
  PROVE  Games!Totals(W, I)[n] = Games!NoMedals
<1> DEFINE t == Games!Totals(W, I)
           T == {k \in 0 .. n : t[k] # Games!NoMedals}
<1>1. N \in Nat /\ n \in Nat
  BY DEF IsWinners
<1>2. t[0] = Games!NoMedals /\ \A k \in 1 .. N : t[k] = IF k \in I THEN Games!Plus(t[k - 1], W[k].medals) ELSE t[k - 1]
  BY TotalsAre
<1> HIDE DEF t
<1>3. ASSUME NEW k \in T PROVE \E m \in T : m < k
  <2>1. k # 0
    BY <1>2
  <2>2. k \in 1 .. n /\ k \in 1 .. N /\ k - 1 \in 0 .. n /\ k - 1 < k
    BY <1>1, <2>1
  <2>3. t[k] = t[k - 1]
    BY <1>2, <2>2
  <2> QED BY <2>2, <2>3
<1>4. T = {}
  <2>1. T \in SUBSET Nat
    OBVIOUS
  <2> HIDE DEF T
  <2> QED BY <1>3, <2>1, NoDescent
<1>5. n \in 0 .. n
  BY <1>1
<1> QED BY <1>4, <1>5 DEF t

(* What a table of name[i] has after n records.                              *)
Upto(name, I, n) == {name[i] : i \in {j \in 1 .. n : j \in I}}
With(name, I, x) == {i \in I : name[i] = x}
Table(W, name, I, n) == [x \in Upto(name, I, n) |-> Games!Totals(W, With(name, I, x))[n]]
IsTable(t, W, N, name, I) ==
  /\ t[0] = Games!NoTable
  /\ \A k \in 1 .. N : t[k] = IF k \in I THEN Games!Credit(t[k - 1], name[k], W[k].medals) ELSE t[k - 1]

LEMMA TableIs ==
  ASSUME NEW W, NEW N, IsWinners(W, N), NEW name, NEW I, NEW t, IsTable(t, W, N, name, I), NEW n \in 0 .. N
  PROVE  t[n] = Table(W, name, I, n)
<1> DEFINE T == {k \in 0 .. N : t[k] # Table(W, name, I, k)}
<1>1. N \in Nat
  BY DEF IsWinners
<1>2. t[0] = Table(W, name, I, 0)
  <2>1. Upto(name, I, 0) = {}
    BY DEF Upto
  <2>2. Table(W, name, I, 0) = [x \in {} |-> Games!Totals(W, With(name, I, x))[0]]
    BY <2>1 DEF Table
  <2>3. t[0] = [x \in {} |-> Games!NoMedals]
    BY DEF IsTable, Games!NoTable
  <2> QED BY <2>2, <2>3
<1>3. ASSUME NEW k \in T PROVE \E m \in T : m < k
  <2>1. k # 0
    BY <1>2
  <2>2. k \in 1 .. N /\ k - 1 \in 0 .. N /\ k - 1 < k /\ k \in 0 .. N
    BY <1>1, <2>1
  <2> DEFINE p == k - 1
             D == Upto(name, I, p)
             S(x) == Games!Totals(W, With(name, I, x))
  <2>3. \A x : S(x)[k] = IF k \in With(name, I, x) THEN Games!Plus(S(x)[p], W[k].medals) ELSE S(x)[p]
    BY <2>2, TotalsAre
  <2>4. \A i \in 1 .. k : i \in 1 .. p \/ i = k
    BY <2>2
  <2>5. 1 .. p \subseteq 1 .. k /\ k \in 1 .. k
    BY <2>2
  <2> SUFFICES ASSUME t[p] = Table(W, name, I, p) PROVE FALSE
    BY <2>2
  <2>6. CASE k \notin I
    <3>1. Upto(name, I, k) = D
      BY <2>4, <2>5, <2>6 DEF Upto
    <3>2. \A x : k \notin With(name, I, x)
      BY <2>6 DEF With
    <3>3. \A x : S(x)[k] = S(x)[p]
      BY <2>3, <3>2
    <3>4. t[k] = t[p]
      BY <2>2, <2>6 DEF IsTable
    <3> HIDE DEF p, S
    <3>5. Table(W, name, I, k) = [x \in D |-> S(x)[k]] /\ Table(W, name, I, p) = [x \in D |-> S(x)[p]]
      BY <3>1 DEF Table, S
    <3> QED BY <3>3, <3>4, <3>5
  <2>7. CASE k \in I
    <3> DEFINE c == name[k]
    <3>1. Upto(name, I, k) = D \union {c}
      BY <2>4, <2>5, <2>7 DEF Upto
    <3>2. \A x : k \in With(name, I, x) <=> x = c
      BY <2>7 DEF With
    <3>3. c \notin D => S(c)[p] = Games!NoMedals
      <4> SUFFICES ASSUME c \notin D PROVE S(c)[p] = Games!NoMedals
        OBVIOUS
      <4>1. \A i \in 1 .. p : i \notin With(name, I, c)
        BY DEF Upto, With
      <4> QED BY <2>2, <4>1, TotalsNone
    <3>4. t[k] = Games!Credit(t[p], c, W[k].medals)
      BY <2>2, <2>7 DEF IsTable
    <3> HIDE DEF p, S
    <3>5. Table(W, name, I, k) = [x \in D \union {c} |-> S(x)[k]] /\ Table(W, name, I, p) = [x \in D |-> S(x)[p]]
      BY <3>1 DEF Table, S
    <3>6. DOMAIN t[p] = D /\ \A x \in D : t[p][x] = S(x)[p]
      BY <3>5
    <3> HIDE DEF D, c
    <3>7. t[k] = [x \in D \union {c} |-> IF x # c THEN t[p][x] ELSE Games!Plus(IF c \in D THEN t[p][c] ELSE Games!NoMedals, W[k].medals)]
      BY <3>4, <3>6 DEF Games!Credit
    <3>8. \A x \in D \union {c} : S(x)[k] = IF x # c THEN t[p][x] ELSE Games!Plus(IF c \in D THEN t[p][c] ELSE Games!NoMedals, W[k].medals)
      <4> SUFFICES ASSUME NEW x \in D \union {c}
                   PROVE  S(x)[k] = IF x # c THEN t[p][x] ELSE Games!Plus(IF c \in D THEN t[p][c] ELSE Games!NoMedals, W[k].medals)
        OBVIOUS
      <4>1. CASE x # c
        BY <2>3, <3>2, <3>6, <4>1
      <4>2. CASE x = c
        <5>1. S(c)[k] = Games!Plus(S(c)[p], W[k].medals)
          BY <2>3, <3>2
        <5>2. S(c)[p] = IF c \in D THEN t[p][c] ELSE Games!NoMedals
          BY <3>3, <3>6
        <5> QED BY <4>2, <5>1, <5>2
      <4> QED BY <4>1, <4>2
    <3> QED BY <3>5, <3>7, <3>8
  <2> QED BY <2>6, <2>7
<1>4. T = {}
  <2>1. T \in SUBSET Nat
    OBVIOUS
  <2> HIDE DEF T
  <2> QED BY <1>3, <2>1, NoDescent
<1> QED BY <1>4

-------------------------------------------------------------------------------
(***************************************************************************)
(* olympics: the loop over winners keeps a table of the medals of each     *)
(* name, and for each name a table of its medals of each year.             *)
(***************************************************************************)
Tables == UNION {[Y -> Medals] : Y \in SUBSET Int}
Info == [country : Int, medals : Medals, byYear : Tables]
Infos == UNION {[D -> Info] : D \in SUBSET Int}

LEMMA CreditIs ==
  ASSUME NEW t \in Tables, NEW y \in Int, NEW m \in Medals
  PROVE  Games!Credit(t, y, m) \in Tables
<1>1. PICK Y \in SUBSET Int : t \in [Y -> Medals]
  BY DEF Tables
<1>2. DOMAIN t = Y /\ \A x \in Y : t[x] \in Medals
  BY <1>1
<1>3. Games!Plus(IF y \in Y THEN t[y] ELSE Games!NoMedals, m) \in Medals
  BY <1>2, PlusIs
<1> DEFINE u == [x \in Y \union {y} |-> IF x # y THEN t[x] ELSE Games!Plus(IF y \in Y THEN t[y] ELSE Games!NoMedals, m)]
<1>4. Games!Credit(t, y, m) = u
  BY <1>2 DEF Games!Credit
<1>5. u \in [Y \union {y} -> Medals]
  BY <1>2, <1>3
<1>6. Y \union {y} \in SUBSET Int
  OBVIOUS
<1> HIDE DEF u
<1> QED BY <1>4, <1>5, <1>6 DEF Tables

LEMMA CountIs ==
  ASSUME NEW info \in Info, NEW w \in Winner
  PROVE  /\ Games!Count(info, w) \in Info
         /\ Games!Count(info, w).medals = Games!Plus(info.medals, w.medals)
         /\ Games!Count(info, w).byYear = Games!Credit(info.byYear, w.year, w.medals)
<1>1. info.medals \in Medals /\ info.byYear \in Tables /\ w.year \in Int /\ w.medals \in Medals
  BY DEF Info, Winner
<1>2. Games!Plus(info.medals, w.medals) \in Medals
  BY <1>1, PlusIs
<1>3. Games!Credit(info.byYear, w.year, w.medals) \in Tables
  BY <1>1, CreditIs
<1> QED BY <1>2, <1>3 DEF Games!Count, Info

LEMMA NewInfoIs ==
  ASSUME NEW w \in Winner
  PROVE  /\ Games!NewInfo(w) \in Info
         /\ Games!NewInfo(w).medals = Games!NoMedals /\ Games!NewInfo(w).byYear = Games!NoTable
<1>1. Games!NoTable \in [{} -> Medals]
  BY DEF Games!NoTable
<1>2. Games!NoTable \in Tables
  BY <1>1 DEF Tables
<1>3. w.country \in Int
  BY DEF Winner
<1> QED BY <1>2, <1>3, PlusIs DEF Games!NewInfo, Info

LEMMA EnterIs ==
  ASSUME NEW s \in Infos, NEW x \in Int, NEW w \in Winner
  PROVE  /\ Games!Enter(s, x, w) \in Infos
         /\ DOMAIN Games!Enter(s, x, w) = DOMAIN s \union {x}
         /\ \A y \in DOMAIN s : y # x => Games!Enter(s, x, w)[y] = s[y]
         /\ Games!Enter(s, x, w)[x].medals = Games!Plus(IF x \in DOMAIN s THEN s[x].medals ELSE Games!NoMedals, w.medals)
         /\ Games!Enter(s, x, w)[x].byYear = Games!Credit(IF x \in DOMAIN s THEN s[x].byYear ELSE Games!NoTable, w.year, w.medals)
<1>1. PICK D \in SUBSET Int : s \in [D -> Info]
  BY DEF Infos
<1>2. DOMAIN s = D /\ \A y \in D : s[y] \in Info
  BY <1>1
<1> DEFINE old == IF x \in D THEN s[x] ELSE Games!NewInfo(w)
           c == Games!Count(old, w)
           u == [y \in D \union {x} |-> IF y # x THEN s[y] ELSE c]
<1>3. Games!Enter(s, x, w) = u
  BY <1>2 DEF Games!Enter
<1>4. old \in Info
  BY <1>2, NewInfoIs
<1>5. old.medals = (IF x \in D THEN s[x].medals ELSE Games!NoMedals) /\ old.byYear = (IF x \in D THEN s[x].byYear ELSE Games!NoTable)
  BY NewInfoIs
<1> HIDE DEF old
<1>6. c \in Info /\ c.medals = Games!Plus(old.medals, w.medals) /\ c.byYear = Games!Credit(old.byYear, w.year, w.medals)
  BY <1>4, CountIs
<1> HIDE DEF c
<1>7. u \in [D \union {x} -> Info] /\ D \union {x} \in SUBSET Int
  BY <1>2, <1>6
<1>8. DOMAIN u = D \union {x} /\ u[x] = c /\ \A y \in D : y # x => u[y] = s[y]
  OBVIOUS
<1> HIDE DEF u
<1>9. u \in Infos
  BY <1>7 DEF Infos
<1> QED BY <1>2, <1>3, <1>5, <1>6, <1>8, <1>9

LEMMA NamedIs == ASSUME NEW q, NEW w \in Winner PROVE Games!Named(q, w) \in Int
BY DEF Games!Named, Winner

NoInfos == [x \in {} |-> Games!NoMedals]
IsStats(g, W, q) ==
  g = [k \in 0 .. Len(W) |->
         IF k = 0 THEN NoInfos
         ELSE IF Games!Picks(q, W[k]) THEN Games!Enter(g[k - 1], Games!Named(q, W[k]), W[k]) ELSE g[k - 1]]

LEMMA StatsExist ==
  ASSUME NEW W, NEW N, IsWinners(W, N), NEW q
  PROVE  \E g : IsStats(g, W, q)
<1> DEFINE add(s, k) == IF Games!Picks(q, W[k]) THEN Games!Enter(s, Games!Named(q, W[k]), W[k]) ELSE s
           step == [s \in Infos |-> [k \in 1 .. N |-> add(s, k)]]
<1>1. N \in Nat /\ Len(W) = N
  BY DEF IsWinners
<1>2. \A s \in Infos, k \in 1 .. N : add(s, k) \in Infos
  BY MedalsAre, EnterIs, NamedIs
<1> HIDE DEF add
<1>3. IsStep(step, Infos, N) /\ \A s \in Infos, k \in 1 .. N : step[s][k] = add(s, k)
  BY <1>2 DEF IsStep
<1>4. NoInfos \in Infos
  <2>1. NoInfos \in [{} -> Info]
    BY DEF NoInfos
  <2> QED BY <2>1 DEF Infos
<1> HIDE DEF step
<1>5. PICK g : IsLoop(g, NoInfos, step, Infos, N)
  BY <1>1, <1>3, <1>4, LoopExists
<1>6. g \in [0 .. N -> Infos] /\ g[0] = NoInfos /\ \A k \in 1 .. N : g[k] = step[g[k - 1]][k]
  BY <1>5 DEF IsLoop
<1>7. \A n \in 0 .. N : g[n] = IF n = 0 THEN NoInfos ELSE add(g[n - 1], n)
  <2> SUFFICES ASSUME NEW n \in 0 .. N PROVE g[n] = IF n = 0 THEN NoInfos ELSE add(g[n - 1], n)
    OBVIOUS
  <2>1. CASE n = 0
    BY <1>6, <2>1
  <2>2. CASE n # 0
    <3>1. n \in 1 .. N /\ n - 1 \in 0 .. N
      BY <1>1, <2>2
    <3>2. g[n - 1] \in Infos /\ g[n] = step[g[n - 1]][n]
      BY <1>6, <3>1
    <3> QED BY <1>3, <2>2, <3>1, <3>2
  <2> QED BY <2>1, <2>2
<1>8. g = [n \in 0 .. N |-> g[n]]
  BY <1>6
<1> QED BY <1>1, <1>7, <1>8 DEF IsStats, add

\* the rounds of the loop
LEMMA StatsRounds ==
  ASSUME NEW W, NEW N, IsWinners(W, N), NEW q
  PROVE  \E g : /\ g[0] = NoInfos /\ Games!Stats(W, q) = g[N]
                /\ \A k \in 0 .. N : g[k] \in Infos
                /\ \A k \in 1 .. N : g[k] = IF Games!Picks(q, W[k]) THEN Games!Enter(g[k - 1], Games!Named(q, W[k]), W[k])
                                            ELSE g[k - 1]
<1> DEFINE t == CHOOSE g : IsStats(g, W, q)
<1>1. N \in Nat /\ Len(W) = N
  BY DEF IsWinners
<1>2. IsStats(t, W, q)
  BY StatsExist
<1>3. Games!Stats(W, q) = t[N]
  BY <1>1 DEF Games!Stats, IsStats, NoInfos
<1> HIDE DEF t
<1>4. \A k \in 0 .. N : t[k] = IF k = 0 THEN NoInfos
                               ELSE IF Games!Picks(q, W[k]) THEN Games!Enter(t[k - 1], Games!Named(q, W[k]), W[k]) ELSE t[k - 1]
  BY <1>1, <1>2 DEF IsStats
<1>5. t[0] = NoInfos
  <2>1. 0 \in 0 .. N
    BY <1>1
  <2> QED BY <1>4, <2>1
<1>6. \A k \in 1 .. N : k \in 0 .. N /\ k # 0 /\ k - 1 \in 0 .. N /\ k - 1 < k
  BY <1>1
<1>7. \A k \in 1 .. N : t[k] = IF Games!Picks(q, W[k]) THEN Games!Enter(t[k - 1], Games!Named(q, W[k]), W[k]) ELSE t[k - 1]
  BY <1>4, <1>6
<1> DEFINE T == {k \in 0 .. N : t[k] \notin Infos}
<1>8. ASSUME NEW k \in T PROVE \E m \in T : m < k
  <2>1. k # 0
    <3>1. NoInfos \in [{} -> Info]
      BY DEF NoInfos
    <3> QED BY <1>5, <3>1 DEF Infos
  <2>2. k \in 1 .. N
    BY <1>1, <2>1
  <2>3. t[k - 1] \in Infos => t[k] \in Infos
    <3>1. W[k] \in Winner
      BY <2>2, MedalsAre
    <3>2. \A s \in Infos : Games!Enter(s, Games!Named(q, W[k]), W[k]) \in Infos
      <4>1. Games!Named(q, W[k]) \in Int
        BY <3>1, NamedIs
      <4> DEFINE x == Games!Named(q, W[k])
                 w == W[k]
      <4> HIDE DEF x, w
      <4>2. \A s \in Infos : Games!Enter(s, x, w) \in Infos
        BY <3>1, <4>1, EnterIs DEF x, w
      <4> QED BY <4>2 DEF x, w
    <3> QED BY <1>7, <2>2, <3>2
  <2> QED BY <1>6, <2>2, <2>3
<1>9. T = {}
  <2>1. T \in SUBSET Nat
    OBVIOUS
  <2> HIDE DEF T
  <2> QED BY <1>8, <2>1, NoDescent
<1> QED BY <1>3, <1>5, <1>7, <1>9

Picked(W, q) == {i \in DOMAIN W : Games!Picks(q, W[i])}
NameOf(W, q) == [i \in DOMAIN W |-> Games!Named(q, W[i])]
YearOf(W) == [i \in DOMAIN W |-> W[i].year]

StatsRight(stats, W, name, I) ==
  /\ stats \in Infos /\ DOMAIN stats = {name[i] : i \in I}
  /\ \A x \in DOMAIN stats :
       /\ stats[x].medals = Games!Sum(W, With(name, I, x))
       /\ stats[x].byYear = [y \in {W[i].year : i \in With(name, I, x)} |->
                              Games!Sum(W, {i \in With(name, I, x) : W[i].year = y})]

LEMMA StatsAre ==
  ASSUME NEW W, NEW N, IsWinners(W, N), NEW q
  PROVE  StatsRight(Games!Stats(W, q), W, NameOf(W, q), Picked(W, q))
<1> DEFINE I == Picked(W, q)
           name == NameOf(W, q)
           year == YearOf(W)
           with(x) == With(name, I, x)
<1>1. N \in Nat /\ DOMAIN W = 1 .. N /\ \A k \in 1 .. N : W[k] \in Winner
  BY DEF IsWinners
<1>2. PICK g : /\ g[0] = NoInfos /\ Games!Stats(W, q) = g[N]
               /\ \A k \in 0 .. N : g[k] \in Infos
               /\ \A k \in 1 .. N : g[k] = IF Games!Picks(q, W[k]) THEN Games!Enter(g[k - 1], Games!Named(q, W[k]), W[k])
                                           ELSE g[k - 1]
  BY StatsRounds
<1>3. \A k \in 1 .. N : (k \in I <=> Games!Picks(q, W[k])) /\ name[k] = Games!Named(q, W[k]) /\ year[k] = W[k].year /\ name[k] \in Int
  BY <1>1, NamedIs DEF Picked, NameOf, YearOf
<1>4. I \subseteq 1 .. N
  BY <1>1 DEF Picked
<1> HIDE DEF I, name, year
<1>5. \A k \in 1 .. N : k - 1 \in 0 .. N /\ k \in 0 .. N
  BY <1>1
<1>6. ASSUME NEW k \in 1 .. N, k \notin I PROVE g[k] = g[k - 1]
  BY <1>2, <1>3, <1>6
<1>7. ASSUME NEW k \in 1 .. N, k \in I
      PROVE  /\ DOMAIN g[k] = DOMAIN g[k - 1] \union {name[k]}
             /\ \A y \in DOMAIN g[k - 1] : y # name[k] => g[k][y] = g[k - 1][y]
             /\ g[k][name[k]].medals = Games!Plus(IF name[k] \in DOMAIN g[k - 1] THEN g[k - 1][name[k]].medals ELSE Games!NoMedals, W[k].medals)
             /\ g[k][name[k]].byYear = Games!Credit(IF name[k] \in DOMAIN g[k - 1] THEN g[k - 1][name[k]].byYear ELSE Games!NoTable,
                                                    W[k].year, W[k].medals)
  <2>1. g[k] = Games!Enter(g[k - 1], name[k], W[k])
    BY <1>2, <1>3, <1>7
  <2>2. g[k - 1] \in Infos /\ name[k] \in Int /\ W[k] \in Winner
    BY <1>1, <1>2, <1>3, <1>5
  <2> DEFINE s == g[k - 1]
             x == name[k]
             w == W[k]
  <2> HIDE DEF s, x, w
  <2>3. /\ DOMAIN Games!Enter(s, x, w) = DOMAIN s \union {x}
        /\ \A y \in DOMAIN s : y # x => Games!Enter(s, x, w)[y] = s[y]
        /\ Games!Enter(s, x, w)[x].medals = Games!Plus(IF x \in DOMAIN s THEN s[x].medals ELSE Games!NoMedals, w.medals)
        /\ Games!Enter(s, x, w)[x].byYear = Games!Credit(IF x \in DOMAIN s THEN s[x].byYear ELSE Games!NoTable, w.year, w.medals)
    <3>1. s \in Infos /\ x \in Int /\ w \in Winner
      BY <2>2 DEF s, x, w
    <3> QED BY <3>1, EnterIs, ZenonT(60)
  <2> QED BY <2>1, <2>3 DEF s, x, w
<1>8. DOMAIN g[0] = {}
  BY <1>2 DEF NoInfos
<1>9. N \in 0 .. N /\ \A k \in I : k \in 1 .. N
  BY <1>1, <1>4
<1> DEFINE t == [k \in 0 .. N |-> [x \in DOMAIN g[k] |-> g[k][x].medals]]
<1>10. \A k \in 0 .. N : t[k] = [x \in DOMAIN g[k] |-> g[k][x].medals]
  OBVIOUS
<1> HIDE DEF t
<1>11. IsTable(t, W, N, name, I)
  <2>1. t[0] = Games!NoTable
    <3>1. 0 \in 0 .. N
      BY <1>1
    <3> QED BY <1>8, <1>10, <3>1 DEF Games!NoTable
  <2>2. ASSUME NEW k \in 1 .. N PROVE t[k] = IF k \in I THEN Games!Credit(t[k - 1], name[k], W[k].medals) ELSE t[k - 1]
    <3>1. t[k] = [x \in DOMAIN g[k] |-> g[k][x].medals] /\ t[k - 1] = [x \in DOMAIN g[k - 1] |-> g[k - 1][x].medals]
      BY <1>5, <1>10
    <3>2. CASE k \notin I
      BY <1>6, <3>1, <3>2
    <3>3. CASE k \in I
      <4> DEFINE D == DOMAIN g[k - 1]
                 c == name[k]
                 v == Games!Plus(IF c \in D THEN t[k - 1][c] ELSE Games!NoMedals, W[k].medals)
      <4>1. DOMAIN g[k] = D \union {c} /\ (\A y \in D : y # c => g[k][y] = g[k - 1][y])
        BY <1>7, <3>3
      <4>2. \A y \in D : t[k - 1][y] = g[k - 1][y].medals
        BY <3>1
      <4>3. DOMAIN t[k - 1] = D
        BY <3>1
      <4>4. g[k][c].medals = v
        <5>1. g[k][c].medals = Games!Plus(IF c \in D THEN g[k - 1][c].medals ELSE Games!NoMedals, W[k].medals)
          BY <1>7, <3>3
        <5> QED BY <4>2, <5>1
      <4>5. Games!Credit(t[k - 1], c, W[k].medals) = [x \in D \union {c} |-> IF x # c THEN t[k - 1][x] ELSE v]
        BY <4>3 DEF Games!Credit
      <4> HIDE DEF D, c, v
      <4>6. \A x \in D \union {c} : g[k][x].medals = IF x # c THEN t[k - 1][x] ELSE v
        BY <4>1, <4>2, <4>4
      <4>7. t[k] = [x \in D \union {c} |-> g[k][x].medals]
        BY <3>1, <4>1
      <4>8. t[k] = Games!Credit(t[k - 1], c, W[k].medals)
        BY <4>5, <4>6, <4>7
      <4> QED BY <3>3, <4>8 DEF c
    <3> QED BY <3>2, <3>3
  <2> QED BY <2>1, <2>2 DEF IsTable
<1>12. t[N] = Table(W, name, I, N)
  BY <1>9, <1>11, TableIs
<1>13. Upto(name, I, N) = {name[i] : i \in I}
  BY <1>4 DEF Upto
<1>14. DOMAIN g[N] = {name[i] : i \in I} /\ \A x \in DOMAIN g[N] : g[N][x].medals = Games!Sum(W, with(x))
  <2>1. \A x : Games!Totals(W, with(x))[N] = Games!Sum(W, with(x))
    BY TotalsAre
  <2>2. DOMAIN t[N] = DOMAIN g[N] /\ \A x \in DOMAIN g[N] : t[N][x] = g[N][x].medals
    BY <1>9, <1>10
  <2>3. t[N] = [x \in {name[i] : i \in I} |-> Games!Totals(W, with(x))[N]]
    BY <1>12, <1>13 DEF Table
  <2> HIDE DEF with
  <2> QED BY <2>1, <2>2, <2>3
<1>15. ASSUME NEW x \in DOMAIN g[N]
       PROVE  g[N][x].byYear = [y \in {W[i].year : i \in with(x)} |-> Games!Sum(W, {i \in with(x) : W[i].year = y})]
  <2> DEFINE J == with(x)
             b == [k \in 0 .. N |-> IF x \in DOMAIN g[k] THEN g[k][x].byYear ELSE Games!NoTable]
  <2>1. \A k \in 0 .. N : b[k] = IF x \in DOMAIN g[k] THEN g[k][x].byYear ELSE Games!NoTable
    OBVIOUS
  <2> HIDE DEF b
  <2>2. \A k \in 1 .. N : k \in J <=> k \in I /\ name[k] = x
    BY DEF With
  <2>3. J \subseteq 1 .. N
    BY <1>4 DEF With
  <2> HIDE DEF J
  <2>4. IsTable(b, W, N, year, J)
    <3>1. b[0] = Games!NoTable
      <4>1. 0 \in 0 .. N
        BY <1>1
      <4> QED BY <1>8, <2>1, <4>1
    <3>2. ASSUME NEW k \in 1 .. N PROVE b[k] = IF k \in J THEN Games!Credit(b[k - 1], year[k], W[k].medals) ELSE b[k - 1]
      <4>1. b[k] = (IF x \in DOMAIN g[k] THEN g[k][x].byYear ELSE Games!NoTable)
            /\ b[k - 1] = (IF x \in DOMAIN g[k - 1] THEN g[k - 1][x].byYear ELSE Games!NoTable)
        BY <1>5, <2>1
      <4>2. CASE k \notin I
        BY <1>6, <2>2, <4>1, <4>2
      <4>3. CASE k \in I /\ name[k] # x
        <5>1. (x \in DOMAIN g[k] <=> x \in DOMAIN g[k - 1]) /\ (x \in DOMAIN g[k - 1] => g[k][x] = g[k - 1][x])
          BY <1>7, <4>3
        <5> QED BY <2>2, <4>1, <4>3, <5>1
      <4>4. CASE k \in I /\ name[k] = x
        <5>1. x \in DOMAIN g[k] /\ year[k] = W[k].year
          BY <1>3, <1>7, <4>4
        <5>2. g[k][x].byYear = Games!Credit(IF x \in DOMAIN g[k - 1] THEN g[k - 1][x].byYear ELSE Games!NoTable, W[k].year, W[k].medals)
          BY <1>7, <4>4
        <5>3. b[k] = Games!Credit(b[k - 1], year[k], W[k].medals)
          BY <4>1, <5>1, <5>2
        <5> QED BY <2>2, <4>4, <5>3
      <4> QED BY <4>2, <4>3, <4>4
    <3> QED BY <3>1, <3>2 DEF IsTable
  <2>5. b[N] = Table(W, year, J, N)
    BY <1>9, <2>4, TableIs
  <2>6. Upto(year, J, N) = {W[i].year : i \in J}
    BY <1>3, <2>3 DEF Upto
  <2>7. \A y : With(year, J, y) = {i \in J : W[i].year = y}
    BY <1>3, <2>3 DEF With
  <2>8. \A y : Games!Totals(W, {i \in J : W[i].year = y})[N] = Games!Sum(W, {i \in J : W[i].year = y})
    BY TotalsAre
  <2>9. b[N] = [y \in {W[i].year : i \in J} |-> Games!Totals(W, With(year, J, y))[N]]
    BY <2>5, <2>6 DEF Table
  <2>10. b[N] = g[N][x].byYear
    BY <1>9, <1>15, <2>1
  <2> DEFINE Y == {W[i].year : i \in J}
             of(y) == {i \in J : W[i].year = y}
  <2>11. g[N][x].byYear = [y \in Y |-> Games!Sum(W, of(y))]
    <3>1. \A y : Games!Totals(W, With(year, J, y))[N] = Games!Sum(W, of(y))
      BY <2>7, <2>8
    <3>2. g[N][x].byYear = [y \in Y |-> Games!Totals(W, With(year, J, y))[N]]
      BY <2>9, <2>10
    <3> HIDE DEF Y, of
    <3> QED BY <3>1, <3>2
  <2> QED BY <2>11 DEF J
<1>16. g[N] \in Infos
  BY <1>2, <1>9
<1>17. StatsRight(g[N], W, name, I)
  BY <1>14, <1>15, <1>16 DEF StatsRight
<1> QED BY <1>2, <1>17 DEF I, name

-------------------------------------------------------------------------------
(***************************************************************************)
(* olympics: rows sorted by the less function of sort.Slice, and what is   *)
(* cut from them, are in the order of the ranking.                         *)
(***************************************************************************)
Row == [name : Int, medals : Medals, country : Int, byYear : Tables]
Differ(r, s) == {i \in 1 .. 3 : r.medals[i] # s.medals[i]}
Better(r, s) ==
  IF Differ(r, s) = {} THEN r.name < s.name ELSE r.medals[Games!Min(Differ(r, s))] > s.medals[Games!Min(Differ(r, s))]

LEMMA BetterIs ==
  ASSUME NEW r \in Row, NEW s \in Row, r.name # s.name, ~Games!Before(s, r)
  PROVE  Better(r, s)
<1> DEFINE T == Differ(r, s)
           m == Games!Min(T)
<1>1. r.name \in Int /\ s.name \in Int /\ \A i \in 1 .. 3 : r.medals[i] \in Int /\ s.medals[i] \in Int
  BY DEF Row, Medals
<1>2. T \in SUBSET (1 .. 3) /\ \A i \in 1 .. 3 : i \in T <=> r.medals[i] # s.medals[i]
  BY DEF Differ
<1>3. ASSUME T # {} PROVE m \in T /\ \A i \in T : m <= i
  <2> HIDE DEF T
  <2>1. T \in SUBSET (0 .. 3) /\ 3 \in Nat
    BY <1>2
  <2>2. \E x \in T : \A y \in T : x <= y
    BY <1>3, <2>1, Ends
  <2> QED BY <2>2 DEF Games!Min
<1> HIDE DEF T, m
<1>4. CASE T = {}
  <2>1. \A i \in 1 .. 3 : s.medals[i] = r.medals[i]
    BY <1>2, <1>4
  <2>2. ~(s.name < r.name)
    BY <2>1 DEF Games!Before
  <2>3. r.name < s.name
    BY <1>1, <2>2
  <2> QED BY <1>4, <2>3 DEF Better, T
<1>5. CASE T # {}
  <2>1. m \in 1 .. 3 /\ r.medals[m] # s.medals[m] /\ \A j \in 1 .. m - 1 : s.medals[j] = r.medals[j]
    <3>1. m \in T /\ m \in 1 .. 3
      BY <1>2, <1>3, <1>5
    <3>2. \A j \in 1 .. m - 1 : j \in 1 .. 3 /\ j \notin T
      BY <1>3, <1>5, <3>1
    <3> QED BY <1>2, <3>1, <3>2
  <2>2. ~(s.medals[m] > r.medals[m])
    BY <2>1 DEF Games!Before
  <2>3. r.medals[m] > s.medals[m]
    BY <1>1, <2>1, <2>2
  <2> QED BY <1>5, <2>3 DEF Better, T, m
<1> QED BY <1>4, <1>5

OneEach(s, R, C) == s \in [1 .. C -> R] /\ \A i, j \in 1 .. C : i < j => s[i] # s[j]

LEMMA Onto ==
  ASSUME NEW R, IsFiniteSet(R), NEW C, C = Cardinality(R), NEW s, OneEach(s, R, C), NEW r \in R
  PROVE  \E i \in 1 .. C : s[i] = r
<1>1. C \in Nat
  BY FS_CardinalityType
<1>2. s \in Injection(1 .. C, R)
  <2>1. s \in [1 .. C -> R] /\ \A i, j \in 1 .. C : s[i] = s[j] => i = j
    BY <1>1 DEF OneEach
  <2> QED BY <2>1 DEF Injection, IsInjective
<1>3. IsFiniteSet(1 .. C) /\ Cardinality(1 .. C) = C
  BY <1>1, FS_Interval
<1>4. s \in Surjection(1 .. C, R)
  BY <1>2, <1>3, FS_Injection
<1> QED BY <1>4 DEF Surjection

LEMMA AsMany ==
  ASSUME NEW D, IsFiniteSet(D), NEW f, DOMAIN f = D, \A x, y \in D : f[x] = f[y] => x = y
  PROVE  IsFiniteSet({f[x] : x \in D}) /\ Cardinality({f[x] : x \in D}) = Cardinality(D)
<1> DEFINE T == {f[x] : x \in D}
<1> DEFINE h == [x \in D |-> f[x]]
<1>1. h \in [D -> T] /\ (\A x, y \in D : h[x] = h[y] => x = y) /\ \A t \in T : \E x \in D : h[x] = t
  OBVIOUS
<1> HIDE DEF T, h
<1>2. h \in Surjection(D, T) /\ h \in Injection(D, T)
  BY <1>1 DEF Surjection, Injection, IsInjective
<1>3. IsFiniteSet(T) /\ Cardinality(T) = Cardinality(D)
  BY <1>2, FS_Surjection
<1> QED BY <1>3 DEF T

LEMMA NamesAre ==
  ASSUME NEW W, NEW N, IsWinners(W, N), NEW q
  PROVE  IsFiniteSet({NameOf(W, q)[i] : i \in Picked(W, q)})
<1> DEFINE I == Picked(W, q)
           D == {NameOf(W, q)[i] : i \in I}
           f == [i \in I |-> NameOf(W, q)[i]]
<1>1. N \in Int /\ I \in SUBSET (1 .. N)
  BY DEF IsWinners, Picked
<1> HIDE DEF I
<1>2. IsFiniteSet(1 .. N)
  BY <1>1, FS_Interval
<1>3. IsFiniteSet(I)
  BY <1>1, <1>2, FS_Subset
<1>4. f \in [I -> D] /\ \A t \in D : \E i \in I : f[i] = t
  OBVIOUS
<1> HIDE DEF D, f
<1>5. f \in Surjection(I, D)
  BY <1>4 DEF Surjection
<1>6. IsFiniteSet(D)
  BY <1>3, <1>5, FS_Surjection
<1> QED BY <1>6 DEF D, I

LEMMA LeastOf ==
  ASSUME NEW a \in Int, NEW b \in Int
  PROVE  Games!Min({a, b}) = IF b > a THEN a ELSE b
<1> DEFINE c == IF b > a THEN a ELSE b
<1>1. c \in {a, b} /\ (\A x \in {a, b} : c <= x) /\ \A d \in {a, b} : (\A x \in {a, b} : d <= x) => d = c
  OBVIOUS
<1> HIDE DEF c
<1>2. Games!Min({a, b}) = c
  BY <1>1 DEF Games!Min
<1> QED BY <1>2 DEF c

(* The rows that come back from the slice, at most L of them.                *)
LEMMA TopIs ==
  ASSUME NEW R \in SUBSET Row, IsFiniteSet(R), \A r, s \in R : r.name = s.name => r = s,
         NEW C, C = Cardinality(R), NEW s \in Games!Slices(R), NEW L \in Nat, L <= C
  PROVE  LET cut == SubSeq(s, 1, L)
         IN  /\ Len(cut) = L /\ DOMAIN cut = 1 .. L /\ \A i \in 1 .. L : cut[i] \in R
             /\ \A i, j \in 1 .. L : i < j => Better(cut[i], cut[j])
             /\ \A r \in R, i \in 1 .. L : Better(cut[i], r) \/ \E j \in 1 .. L : cut[j] = r
<1> DEFINE cut == SubSeq(s, 1, L)
<1>1. C \in Nat
  BY FS_CardinalityType
<1>2. Games!Cardinality(R) = C
  BY Zenon DEF Games!Cardinality, Cardinality
<1>3. s \in [1 .. C -> R] /\ \A i, j \in 1 .. C : i < j => s[i] # s[j] /\ ~Games!Before(s[j], s[i])
  BY <1>2 DEF Games!Slices
<1>4. \A i \in 1 .. L : i \in 1 .. C
  BY <1>1
<1>5. cut \in Seq(R) /\ Len(cut) = L /\ \A i \in 1 .. L : cut[i] = s[i]
  <2>1. \A i \in 1 .. L : s[i] \in R
    BY <1>3, <1>4
  <2>2. 1 \in Int /\ L \in Int /\ L - 1 + 1 = L
    OBVIOUS
  <2>3. /\ SubSeq(s, 1, L) \in Seq(R)
        /\ Len(SubSeq(s, 1, L)) = IF 1 <= L THEN L - 1 + 1 ELSE 0
        /\ \A i \in 1 .. L - 1 + 1 : SubSeq(s, 1, L)[i] = s[1 + i - 1]
    BY <2>1, <2>2, SubSeqProperties
  <2> QED BY <2>2, <2>3
<1>6. DOMAIN cut = 1 .. L
  BY <1>5
<1> HIDE DEF cut
<1>7. ASSUME NEW i \in 1 .. C, NEW j \in 1 .. C, i < j PROVE Better(s[i], s[j])
  <2>1. s[i] \in R /\ s[j] \in R /\ s[i] # s[j] /\ ~Games!Before(s[j], s[i])
    BY <1>3, <1>7
  <2>2. s[i].name # s[j].name /\ s[i] \in Row /\ s[j] \in Row
    BY <2>1
  <2> QED BY <2>1, <2>2, BetterIs
<1>8. \A i, j \in 1 .. L : i < j => Better(cut[i], cut[j])
  BY <1>4, <1>5, <1>7
<1>9. ASSUME NEW r \in R, NEW i \in 1 .. L PROVE Better(cut[i], r) \/ \E j \in 1 .. L : cut[j] = r
  <2>1. PICK j \in 1 .. C : s[j] = r
    <3>1. OneEach(s, R, C)
      BY <1>3 DEF OneEach
    <3> QED BY <3>1, Onto
  <2>2. CASE j \in 1 .. L
    BY <1>5, <2>1, <2>2
  <2>3. CASE j \notin 1 .. L
    <3>1. i \in 1 .. C /\ i < j
      BY <1>1, <1>4, <2>3
    <3>2. Better(s[i], s[j])
      BY <1>7, <3>1
    <3> QED BY <1>5, <2>1, <3>2
  <2> QED BY <2>2, <2>3
<1>10. \A i \in 1 .. L : cut[i] \in R
  BY <1>3, <1>4, <1>5
<1> QED BY <1>5, <1>6, <1>8, <1>9, <1>10 DEF cut

(* olympics: every reply to a query, with and without a limit.               *)
IsQuery(q) == q.limit \in Int /\ (q.of = "athlete" => q.limit = 100)

LEMMA LimitIs == ASSUME NEW q, IsQuery(q) PROVE Games!Limit(q) \in Int /\ (q.of = "athlete" => Games!Limit(q) = 3)
BY DEF IsQuery, Games!Limit

(* ReplyRight in the names of this module.                                   *)
ByName(W, q, n) == {i \in Picked(W, q) : Games!Named(q, W[i]) = n}
Names(W, q) == {Games!Named(q, W[i]) : i \in Picked(W, q)}
Total(W, q, n) == [name |-> n, medals |-> Games!Sum(W, ByName(W, q, n))]
Ranked(W, q) == {Total(W, q, n) : n \in Names(W, q)}
Brief(t) == [name |-> t.name, medals |-> t.medals]
ByYear(W, q, n) ==
  [y \in {W[i].year : i \in ByName(W, q, n)} |-> Games!Sum(W, {i \in ByName(W, q, n) : W[i].year = y})]
Ranking(W, q, rows) ==
  /\ Picked(W, q) # {}
  /\ \A t \in Games!Range(rows) : Brief(t) \in Ranked(W, q)
  /\ Len(rows) = Games!Min({Games!Cardinality(Ranked(W, q)), Games!Limit(q)})
  /\ \A i, j \in DOMAIN rows : i < j => Better(rows[i], rows[j])
  /\ \A a \in Ranked(W, q), t \in Games!Range(rows) : Better(t, a) \/ \E s \in Games!Range(rows) : Brief(s) = a
  /\ q.of # "year" => \A t \in Games!Range(rows) : t.byYear = ByYear(W, q, t.name)

LEMMA RankingIsRight ==
  ASSUME NEW W, NEW q, NEW r, r.code = 404 => Picked(W, q) = {}, r.code = 200 => Ranking(W, q, r.rows)
  PROVE  Games!ReplyRight(W, q, r)
BY Zenon DEF Games!ReplyRight, Ranking, Picked, ByName, Names, Total, Ranked, Brief, ByYear, Better, Differ

LEMMA SameBetter ==
  ASSUME NEW u, NEW t, NEW a, t.name = a.name, t.medals = a.medals, Better(u, t)
  PROVE  Better(u, a)
<1>1. Differ(u, t) = Differ(u, a)
  BY DEF Differ
<1> QED BY <1>1 DEF Better

(* The rows of the table, one for each name that some record is counted      *)
(* under.                                                                    *)
RowOf(stats, x) == [name |-> x, medals |-> stats[x].medals, country |-> stats[x].country, byYear |-> stats[x].byYear]
Rows(stats, D) == {RowOf(stats, x) : x \in D}

LEMMA StatsOf ==
  ASSUME NEW W, NEW N, IsWinners(W, N), NEW q
  PROVE  LET stats == Games!Stats(W, q)
         IN  /\ stats \in Infos /\ DOMAIN stats = Names(W, q)
             /\ \A x \in Names(W, q) : stats[x].medals = Games!Sum(W, ByName(W, q, x)) /\ stats[x].byYear = ByYear(W, q, x)
<1> DEFINE I == Picked(W, q)
           name == NameOf(W, q)
           stats == Games!Stats(W, q)
           yearly(A) == [y \in {W[i].year : i \in A} |-> Games!Sum(W, {i \in A : W[i].year = y})]
<1>1. StatsRight(stats, W, name, I)
  BY StatsAre
<1>2. \A x : ByYear(W, q, x) = yearly(ByName(W, q, x))
  BY Zenon DEF ByYear
<1>3. \A i \in I : name[i] = Games!Named(q, W[i])
  BY DEF Picked, NameOf
<1>4. /\ stats \in Infos /\ DOMAIN stats = {name[i] : i \in I}
      /\ \A x \in DOMAIN stats : stats[x].medals = Games!Sum(W, With(name, I, x)) /\ stats[x].byYear = yearly(With(name, I, x))
  BY <1>1, Zenon DEF StatsRight
<1> HIDE DEF stats, I, name, yearly
<1>5. Names(W, q) = {name[i] : i \in I}
  <2>1. Names(W, q) = {Games!Named(q, W[i]) : i \in I}
    BY Zenon DEF Names, I
  <2> QED BY <1>3, <2>1
<1>6. \A x : ByName(W, q, x) = With(name, I, x)
  <2> SUFFICES ASSUME NEW x PROVE ByName(W, q, x) = With(name, I, x)
    OBVIOUS
  <2>1. ByName(W, q, x) = {i \in I : Games!Named(q, W[i]) = x}
    BY Zenon DEF ByName, I
  <2> QED BY <1>3, <2>1 DEF With
<1>7. DOMAIN stats = Names(W, q)
  BY <1>4, <1>5
<1>8. ASSUME NEW x \in Names(W, q)
      PROVE  stats[x].medals = Games!Sum(W, ByName(W, q, x)) /\ stats[x].byYear = ByYear(W, q, x)
  <2>1. stats[x].medals = Games!Sum(W, With(name, I, x)) /\ stats[x].byYear = yearly(With(name, I, x))
    BY <1>4, <1>7, <1>8
  <2>2. ByName(W, q, x) = With(name, I, x) /\ ByYear(W, q, x) = yearly(ByName(W, q, x))
    BY <1>2, <1>6
  <2> QED BY <2>1, <2>2
<1> QED BY <1>4, <1>7, <1>8 DEF stats

LEMMA RowsAre ==
  ASSUME NEW D \in SUBSET Int, IsFiniteSet(D), NEW stats \in [D -> Info]
  PROVE  /\ Rows(stats, D) \in SUBSET Row /\ IsFiniteSet(Rows(stats, D)) /\ Cardinality(Rows(stats, D)) = Cardinality(D)
         /\ \A t, s \in Rows(stats, D) : t.name = s.name => t = s
         /\ \A t \in Rows(stats, D) : /\ t.name \in D /\ t = RowOf(stats, t.name)
                                       /\ t.medals = stats[t.name].medals /\ t.byYear = stats[t.name].byYear
<1>1. ASSUME NEW x \in D
      PROVE  /\ RowOf(stats, x) \in Row /\ RowOf(stats, x).name = x /\ RowOf(stats, x).medals = stats[x].medals
             /\ RowOf(stats, x).byYear = stats[x].byYear
  <2> DEFINE m == stats[x].medals
             c == stats[x].country
             b == stats[x].byYear
  <2>1. m \in Medals /\ c \in Int /\ b \in Tables /\ x \in Int
    <3>1. stats[x] \in Info
      OBVIOUS
    <3> QED BY <3>1 DEF Info
  <2>2. RowOf(stats, x) = [name |-> x, medals |-> m, country |-> c, byYear |-> b]
    BY DEF RowOf
  <2> HIDE DEF m, c, b
  <2>3. RowOf(stats, x) \in Row /\ RowOf(stats, x).name = x /\ RowOf(stats, x).medals = m /\ RowOf(stats, x).byYear = b
    BY <2>1, <2>2 DEF Row
  <2> QED BY <2>3 DEF m, b
<1> DEFINE f == [x \in D |-> RowOf(stats, x)]
           R == Rows(stats, D)
<1>2. DOMAIN f = D /\ (\A x, y \in D : f[x] = f[y] => x = y) /\ {f[x] : x \in D} = R
  BY <1>1 DEF Rows
<1>3. \A t \in R : \E x \in D : t = RowOf(stats, x)
  BY DEF Rows
<1> HIDE DEF f, R
<1>4. IsFiniteSet(R) /\ Cardinality(R) = Cardinality(D)
  <2> DEFINE E == D
  <2>1. IsFiniteSet(E) /\ DOMAIN f = E /\ (\A x, y \in E : f[x] = f[y] => x = y) /\ {f[x] : x \in E} = R
    BY <1>2
  <2>2. Cardinality(E) = Cardinality(D)
    OBVIOUS
  <2> HIDE DEF E
  <2>3. IsFiniteSet({f[x] : x \in E}) /\ Cardinality({f[x] : x \in E}) = Cardinality(E)
    BY <2>1, AsMany
  <2> QED BY <2>1, <2>2, <2>3
<1>5. ASSUME NEW t \in R
      PROVE  /\ t \in Row /\ t.name \in D /\ t = RowOf(stats, t.name)
             /\ t.medals = stats[t.name].medals /\ t.byYear = stats[t.name].byYear
  <2>1. PICK x \in D : t = RowOf(stats, x)
    BY <1>3
  <2> QED BY <1>1, <2>1
<1>6. \A t, s \in R : t.name = s.name => t = s
  BY <1>5
<1>7. R \in SUBSET Row
  BY <1>5
<1> QED BY <1>4, <1>5, <1>6, <1>7 DEF R

(* What Handle replies with.                                                 *)
Replied(r, q, D, stats, R) ==
  /\ r.code = 404 => D = {}
  /\ r.code = 200 =>
       /\ D # {}
       /\ q.of = "athlete" => r.rows = <<RowOf(stats, q.key)>>
       /\ q.of # "athlete" =>
            /\ ~(Games!Limit(q) < 0)
            /\ \E s \in Games!Slices(R) :
                 r.rows = SubSeq(s, 1, IF Games!Limit(q) > Games!Cardinality(R) THEN Games!Cardinality(R) ELSE Games!Limit(q))

LEMMA HandleIs ==
  ASSUME NEW W, NEW q, NEW r \in Games!Handle(W, q)
  PROVE  Replied(r, q, DOMAIN Games!Stats(W, q), Games!Stats(W, q), Rows(Games!Stats(W, q), DOMAIN Games!Stats(W, q)))
<1> DEFINE stats == Games!Stats(W, q)
           D == DOMAIN stats
           R == Rows(stats, DOMAIN stats)
           C == Games!Cardinality(R)
           L == IF Games!Limit(q) > C THEN C ELSE Games!Limit(q)
<1>1. r \in IF Games!Refused(q) THEN {Games!Error(400)} ELSE IF DOMAIN stats = {} THEN {Games!Error(404)}
           ELSE IF q.of = "athlete" THEN {Games!Reply(<<RowOf(stats, q.key)>>)} ELSE Games!Top(q, R)
  BY Zenon DEF Games!Handle, RowOf, Rows
<1>2. Games!Top(q, R) = IF Games!Limit(q) < 0 THEN {Games!Error(500)} ELSE {Games!Reply(SubSeq(s, 1, L)) : s \in Games!Slices(R)}
  BY Zenon DEF Games!Top
<1>3. Games!Error(400).code = 400 /\ Games!Error(404).code = 404 /\ Games!Error(500).code = 500
  BY DEF Games!Error
<1>4. \A x : Games!Reply(x).code = 200 /\ Games!Reply(x).rows = x
  BY DEF Games!Reply
<1> HIDE DEF stats, R, L, C
<1> SUFFICES Replied(r, q, D, stats, R)
  BY Zenon DEF stats, R
<1>5. CASE Games!Refused(q)
  <2>1. r = Games!Error(400)
    BY <1>1, <1>5
  <2>2. r.code # 404 /\ r.code # 200
    BY <1>3, <2>1
  <2> QED BY <2>2 DEF Replied
<1>6. CASE ~Games!Refused(q) /\ DOMAIN stats = {}
  <2>1. r = Games!Error(404)
    BY <1>1, <1>6
  <2>2. r.code # 200
    BY <1>3, <2>1
  <2> QED BY <1>6, <2>2 DEF Replied
<1>7. CASE ~Games!Refused(q) /\ DOMAIN stats # {} /\ q.of = "athlete"
  <2>1. r = Games!Reply(<<RowOf(stats, q.key)>>)
    BY <1>1, <1>7
  <2>2. r.code # 404 /\ r.rows = <<RowOf(stats, q.key)>>
    BY <1>4, <2>1
  <2> QED BY <1>7, <2>2 DEF Replied
<1>8. CASE ~Games!Refused(q) /\ DOMAIN stats # {} /\ q.of # "athlete"
  <2>1. r \in Games!Top(q, R)
    BY <1>1, <1>8
  <2>2. CASE Games!Limit(q) < 0
    <3>1. r = Games!Error(500)
      BY <1>2, <2>1, <2>2
    <3>2. r.code # 404 /\ r.code # 200
      BY <1>3, <3>1
    <3> QED BY <3>2 DEF Replied
  <2>3. CASE ~(Games!Limit(q) < 0)
    <3>1. PICK s \in Games!Slices(R) : r = Games!Reply(SubSeq(s, 1, L))
      BY <1>2, <2>1, <2>3
    <3> DEFINE cut == SubSeq(s, 1, L)
    <3>2. r = Games!Reply(cut)
      BY <3>1
    <3> HIDE DEF cut
    <3>3. r.code # 404 /\ r.rows = cut
      BY <1>4, <3>2
    <3>4. \E p \in Games!Slices(R) : r.rows = SubSeq(p, 1, L)
      BY <3>3, Zenon DEF cut
    <3>5. r.code # 404 /\ DOMAIN stats # {} /\ q.of # "athlete" /\ ~(Games!Limit(q) < 0)
      BY <1>8, <2>3, <3>3
    <3> QED BY <3>4, <3>5, Zenon DEF Replied, L, C
  <2> QED BY <2>2, <2>3
<1> QED BY <1>5, <1>6, <1>7, <1>8

LEMMA CutIs ==
  ASSUME NEW R \in SUBSET Row, IsFiniteSet(R), \A t, p \in R : t.name = p.name => t = p,
         NEW s \in Games!Slices(R), NEW l \in Int, ~(l < 0)
  PROVE  LET C == Games!Cardinality(R)
             cut == SubSeq(s, 1, IF l > C THEN C ELSE l)
         IN  /\ Len(cut) = (IF l > Cardinality(R) THEN Cardinality(R) ELSE l)
             /\ DOMAIN cut = 1 .. Len(cut) /\ \A i \in DOMAIN cut : cut[i] \in R
             /\ \A i, j \in DOMAIN cut : i < j => Better(cut[i], cut[j])
             /\ \A t \in R, i \in DOMAIN cut : Better(cut[i], t) \/ \E j \in DOMAIN cut : cut[j] = t
<1> DEFINE C == Cardinality(R)
           L == IF l > C THEN C ELSE l
           cut == SubSeq(s, 1, L)
<1>1. C = Games!Cardinality(R)
  BY Zenon DEF Games!Cardinality, Cardinality
<1>2. C \in Nat
  BY FS_CardinalityType
<1> HIDE DEF C
<1>3. L \in Nat /\ L <= C
  BY <1>2
<1> HIDE DEF L
<1>4. /\ Len(cut) = L /\ DOMAIN cut = 1 .. L /\ \A i \in 1 .. L : cut[i] \in R
      /\ \A i, j \in 1 .. L : i < j => Better(cut[i], cut[j])
      /\ \A r \in R, i \in 1 .. L : Better(cut[i], r) \/ \E j \in 1 .. L : cut[j] = r
  BY <1>3, TopIs DEF C
<1>5. cut = SubSeq(s, 1, IF l > Games!Cardinality(R) THEN Games!Cardinality(R) ELSE l)
  BY <1>1, Zenon DEF L
<1>6. L = IF l > Cardinality(R) THEN Cardinality(R) ELSE l
  BY Zenon DEF L, C
<1> HIDE DEF cut
<1>7. /\ Len(cut) = (IF l > Cardinality(R) THEN Cardinality(R) ELSE l)
      /\ DOMAIN cut = 1 .. Len(cut) /\ \A i \in DOMAIN cut : cut[i] \in R
      /\ \A i, j \in DOMAIN cut : i < j => Better(cut[i], cut[j])
      /\ \A t \in R, i \in DOMAIN cut : Better(cut[i], t) \/ \E j \in DOMAIN cut : cut[j] = t
  BY <1>4, <1>6
<1> QED BY <1>5, <1>7, Zenon

(* Every reply the olympics handlers may give is right, for any records and  *)
(* any query, in whatever order the map gave the rows to sort.Slice.         *)
THEOREM RepliesAreRight ==
  ASSUME NEW W, NEW N, IsWinners(W, N), NEW q, IsQuery(q), NEW r \in Games!Handle(W, q)
  PROVE  Games!ReplyRight(W, q, r)
<1> DEFINE stats == Games!Stats(W, q)
           D == Names(W, q)
           R == Rows(stats, D)
           A == Ranked(W, q)
           rows == r.rows
<1>1. /\ stats \in Infos /\ DOMAIN stats = D
      /\ \A x \in D : stats[x].medals = Games!Sum(W, ByName(W, q, x)) /\ stats[x].byYear = ByYear(W, q, x)
  BY StatsOf, Zenon
<1>2. D = {} <=> Picked(W, q) = {}
  BY DEF Names
<1>3. IsFiniteSet(D)
  <2>1. \A i \in Picked(W, q) : NameOf(W, q)[i] = Games!Named(q, W[i])
    BY DEF Picked, NameOf
  <2>2. {NameOf(W, q)[i] : i \in Picked(W, q)} = D
    BY <2>1 DEF Names
  <2> QED BY <2>2, NamesAre
<1> HIDE DEF stats, D
<1>4. D \in SUBSET Int /\ stats \in [D -> Info]
  <2>1. PICK E \in SUBSET Int : stats \in [E -> Info]
    BY <1>1 DEF Infos
  <2> QED BY <1>1, <2>1
<1>5. /\ R \in SUBSET Row /\ IsFiniteSet(R) /\ Cardinality(R) = Cardinality(D)
      /\ \A t, s \in R : t.name = s.name => t = s
      /\ \A t \in R : /\ t.name \in D /\ t = RowOf(stats, t.name)
                      /\ t.medals = stats[t.name].medals /\ t.byYear = stats[t.name].byYear
  BY <1>3, <1>4, RowsAre
<1>6. \A x \in D : RowOf(stats, x) \in R
  BY DEF Rows
<1>7. Replied(r, q, D, stats, R)
  <2> DEFINE E == DOMAIN stats
             R0 == Rows(stats, E)
  <2>1. Replied(r, q, E, stats, R0)
    BY HandleIs DEF stats
  <2>2. E = D
    BY <1>1
  <2>3. R0 = R
    BY <2>2
  <2> HIDE DEF E, R0, R
  <2> QED BY <2>1, <2>2, <2>3
<1>8. IsFiniteSet(A) /\ Games!Cardinality(A) = Cardinality(D)
  <2> DEFINE f == [x \in D |-> Total(W, q, x)]
  <2>1. DOMAIN f = D /\ (\A x, y \in D : f[x] = f[y] => x = y)
    BY DEF Total
  <2>2. {f[x] : x \in D} = A
    BY DEF Ranked, D
  <2> HIDE DEF f, A
  <2>3. IsFiniteSet({f[x] : x \in D}) /\ Cardinality({f[x] : x \in D}) = Cardinality(D)
    BY <1>3, <2>1, AsMany
  <2>4. Games!Cardinality(A) = Cardinality(A)
    BY Zenon DEF Games!Cardinality, Cardinality
  <2> QED BY <2>2, <2>3, <2>4
<1>9. \A a \in A : a = Total(W, q, a.name) /\ a.name \in D
  <2>1. \A n : Total(W, q, n).name = n
    BY DEF Total
  <2>2. \A a \in A : \E n \in D : a = Total(W, q, n)
    BY DEF Ranked, D
  <2> HIDE DEF A
  <2> QED BY <2>1, <2>2
<1>10. ASSUME NEW t \in R
       PROVE  Brief(t) = Total(W, q, t.name) /\ Brief(t) \in A /\ t.byYear = ByYear(W, q, t.name)
  <2>1. t.name \in D /\ t.medals = Games!Sum(W, ByName(W, q, t.name)) /\ t.byYear = ByYear(W, q, t.name)
    BY <1>1, <1>5
  <2>2. Brief(t) = Total(W, q, t.name)
    BY <2>1 DEF Brief, Total
  <2>3. \A n \in D : Total(W, q, n) \in A
    BY DEF Ranked, D
  <2> QED BY <2>1, <2>2, <2>3
<1> HIDE DEF R, A
<1>11. ASSUME r.code = 200
       PROVE  /\ DOMAIN rows = 1 .. Len(rows) /\ \A i \in DOMAIN rows : rows[i] \in R
              /\ Len(rows) = Games!Min({Games!Cardinality(A), Games!Limit(q)})
              /\ \A i, j \in DOMAIN rows : i < j => Better(rows[i], rows[j])
              /\ \A t \in R, i \in DOMAIN rows : Better(rows[i], t) \/ \E j \in DOMAIN rows : rows[j] = t
  <2>1. Games!Limit(q) \in Int /\ Cardinality(D) \in Nat
    BY <1>3, LimitIs, FS_CardinalityType
  <2> DEFINE l == Games!Limit(q)
             c == Cardinality(D)
  <2> HIDE DEF l, c
  <2>2. Games!Min({Games!Cardinality(A), Games!Limit(q)}) = IF l > c THEN c ELSE l
    <3>1. l \in Int /\ c \in Int
      BY <2>1 DEF l, c
    <3>2. Games!Min({c, l}) = IF l > c THEN c ELSE l
      BY <3>1, LeastOf
    <3> QED BY <1>8, <3>2 DEF l, c
  <2>3. CASE q.of = "athlete"
    <3> DEFINE one == RowOf(stats, q.key)
    <3>1. D = {q.key}
      <4>1. \A i \in Picked(W, q) : Games!Named(q, W[i]) = q.key
        BY <2>3 DEF Picked, Games!Picks, Games!Named
      <4>2. Picked(W, q) # {}
        BY <1>2, <1>7, <1>11 DEF Replied
      <4> QED BY <4>1, <4>2 DEF D, Names
    <3>2. c = 1 /\ l = 3
      BY <2>3, <3>1, FS_Singleton, LimitIs DEF c, l
    <3>3. rows = <<one>> /\ one \in R
      BY <1>6, <1>7, <1>11, <2>3, <3>1 DEF Replied
    <3>4. \A t \in R : t = one
      BY <1>5, <3>1
    <3> HIDE DEF one, rows
    <3>5. Len(rows) = 1 /\ DOMAIN rows = 1 .. 1 /\ rows[1] = one
      BY <3>3
    <3>6. 1 .. 1 = {1}
      OBVIOUS
    <3> QED BY <2>2, <3>2, <3>3, <3>4, <3>5, <3>6
  <2>4. CASE q.of # "athlete"
    <3>1. ~(l < 0) /\ \E s \in Games!Slices(R) :
                        rows = SubSeq(s, 1, IF l > Games!Cardinality(R) THEN Games!Cardinality(R) ELSE l)
      BY <1>7, <1>11, <2>4, Zenon DEF Replied, l
    <3>2. PICK s \in Games!Slices(R) : rows = SubSeq(s, 1, IF l > Games!Cardinality(R) THEN Games!Cardinality(R) ELSE l)
      BY <3>1, Zenon
    <3>3. l \in Int
      BY <2>1 DEF l
    <3> DEFINE cut == SubSeq(s, 1, IF l > Games!Cardinality(R) THEN Games!Cardinality(R) ELSE l)
    <3>4. /\ Len(cut) = (IF l > Cardinality(R) THEN Cardinality(R) ELSE l)
          /\ DOMAIN cut = 1 .. Len(cut) /\ \A i \in DOMAIN cut : cut[i] \in R
          /\ \A i, j \in DOMAIN cut : i < j => Better(cut[i], cut[j])
          /\ \A t \in R, i \in DOMAIN cut : Better(cut[i], t) \/ \E j \in DOMAIN cut : cut[j] = t
      BY <1>5, <3>1, <3>3, CutIs, Zenon
    <3>5. rows = cut
      BY <3>2
    <3>6. Cardinality(R) = c
      BY <1>5 DEF c
    <3> HIDE DEF cut, rows
    <3> QED BY <2>2, <3>4, <3>5, <3>6
  <2> QED BY <2>3, <2>4
<1>12. ASSUME r.code = 200 PROVE Ranking(W, q, rows)
  <2> HIDE DEF rows
  <2>1. \A t \in Games!Range(rows) : t \in R /\ \E i \in DOMAIN rows : rows[i] = t
    BY <1>11, <1>12 DEF Games!Range
  <2>2. \A i \in DOMAIN rows : rows[i] \in Games!Range(rows)
    BY DEF Games!Range
  <2>3. Picked(W, q) # {}
    BY <1>2, <1>7, <1>12 DEF Replied
  <2>4. \A t \in Games!Range(rows) : Brief(t) \in Ranked(W, q)
    BY <1>10, <2>1 DEF A
  <2>5. Len(rows) = Games!Min({Games!Cardinality(Ranked(W, q)), Games!Limit(q)})
    BY <1>11, <1>12 DEF A
  <2>6. \A i, j \in DOMAIN rows : i < j => Better(rows[i], rows[j])
    BY <1>11, <1>12
  <2>7. ASSUME NEW a \in Ranked(W, q), NEW t \in Games!Range(rows)
        PROVE  Better(t, a) \/ \E s \in Games!Range(rows) : Brief(s) = a
    <3>1. PICK i \in DOMAIN rows : rows[i] = t
      BY <2>1
    <3> DEFINE u == RowOf(stats, a.name)
    <3>2. u \in R
      BY <1>6, <1>9 DEF A
    <3>3. u.name = a.name
      BY DEF RowOf
    <3> HIDE DEF u
    <3>4. Brief(u) = a
      BY <1>9, <1>10, <3>2, <3>3 DEF A
    <3>5. u.medals = a.medals
      BY <3>4 DEF Brief
    <3>6. CASE Better(rows[i], u)
      BY <3>1, <3>3, <3>5, <3>6, SameBetter
    <3>7. CASE \E j \in DOMAIN rows : rows[j] = u
      BY <2>2, <3>4, <3>7
    <3> QED BY <1>11, <1>12, <3>2, <3>6, <3>7
  <2>8. \A t \in Games!Range(rows) : t.byYear = ByYear(W, q, t.name)
    BY <1>10, <2>1
  <2> QED BY <2>3, <2>4, <2>5, <2>6, <2>7, <2>8, Zenon DEF Ranking
<1> QED BY <1>2, <1>7, <1>12, RankingIsRight DEF Replied


-------------------------------------------------------------------------------
(* A step is one of the structure the behaviour is about.                    *)
LEMMA OnlyAbout ==
  ASSUME [Next]_vars
  PROVE  /\ about' = about
         /\ Is("lru") => [Cache!CacheNext]_cachevars
         /\ Is("queue") => [Array!QueueNext]_queuevars
         /\ Is("cipher") => [Otp!CipherNext]_ciphervars
         /\ Is("game") => [Matches!GameNext]_gamevars
         /\ Is("courses") => [Hogwarts!CourseNext]_coursevars
<1>1. CASE UNCHANGED vars
  BY <1>1 DEF vars
<1>2. CASE CacheNext
  BY <1>2 DEF CacheNext, Is
<1>3. CASE QueueNext
  BY <1>3 DEF QueueNext, Is
<1>4. CASE CipherNext
  BY <1>4 DEF CipherNext, Is
<1>5. CASE GameNext
  BY <1>5 DEF GameNext, Is
<1>6. CASE CourseNext
  BY <1>6 DEF CourseNext, Is
<1>7. ASSUME NEW a \in {"hotel", "olympics", "search", "checked", "duration"}, NEW value, Is(a), Return(value)
      PROVE  about' = about /\ about \notin {"lru", "queue", "cipher", "game", "courses"}
  BY <1>7 DEF Is, Return
<1>8. CASE ComputeLoad \/ Handle \/ ParseDuration \/ Search \/ Evaluate
  BY <1>7, <1>8 DEF ComputeLoad, Handle, ParseDuration, Search, Evaluate, Is
<1> QED BY <1>1, <1>2, <1>3, <1>4, <1>5, <1>6, <1>8 DEF Next

(* A call's arguments are those it was made with, and what it has returned   *)
(* is right.                                                                 *)
Asked ==
  /\ Is("hotel") => input \in SeqOf(Guests, MaxGuests)
  /\ Is("olympics") => input \in [winners : SeqOf(Records, 4), query : Queries]
  /\ Is("search") => input \in Lists
  /\ Is("checked") => input \in Expressions
Answered ==
  output # Off =>
    /\ Is("hotel") => Functions!LoadRight(input, output)
    /\ Is("olympics") => Games!ReplyRight(input.winners, input.query, output)
    /\ Is("search") => Functions!SearchRight(input.a, input.x, output)
    /\ Is("checked") => Functions!CheckedRight(input, output)

LEMMA RecordsAre ==
  ASSUME NEW W \in SeqOf(Records, 4)
  PROVE  \E N : IsWinners(W, N)
<1>1. Gold \in Medals /\ Silver \in Medals /\ <<0, 1, 2, 3>> \in Medals
  BY DEF Gold, Silver, Medals
<1>2. \A a, c, s, y \in Int : \A m \in Medals : Record(a, c, s, y, m) \in Winner
  BY DEF Record, Winner
<1>3. Records \subseteq Winner
  BY <1>1, <1>2 DEF Records
<1>4. PICK n \in 0 .. 4 : W \in [1 .. n -> Records]
  BY DEF SeqOf
<1>5. Len(W) = n /\ W \in [1 .. n -> Winner]
  BY <1>3, <1>4
<1> QED BY <1>5 DEF IsWinners

LEMMA QueriesAre == ASSUME NEW q \in Queries PROVE IsQuery(q)
BY DEF Queries, Limits, IsQuery

LEMMA AskedFirst == Init => Asked
<1> SUFFICES ASSUME Init PROVE Asked
  OBVIOUS
<1>1. input \in Inputs
  BY DEF Init
<1>2. ASSUME Is("hotel") PROVE input \in SeqOf(Guests, MaxGuests)
  BY <1>1, <1>2, Zenon DEF Inputs, Is
<1>3. ASSUME Is("olympics") PROVE input \in [winners : SeqOf(Records, 4), query : Queries]
  BY <1>1, <1>3, Zenon DEF Inputs, Is
<1>4. ASSUME Is("search") PROVE input \in Lists
  BY <1>1, <1>4, Zenon DEF Inputs, Is
<1>5. ASSUME Is("checked") PROVE input \in Expressions
  BY <1>1, <1>5, Zenon DEF Inputs, Is
<1> QED BY <1>2, <1>3, <1>4, <1>5 DEF Asked

LEMMA CallNext ==
  ASSUME Asked, Answered, [Next]_vars
  PROVE  Asked' /\ Answered'
<1>1. CASE input' = input /\ output' = output
  BY <1>1, OnlyAbout DEF Asked, Answered, Is
<1>2. CASE CacheNext \/ QueueNext \/ CipherNext \/ GameNext \/ CourseNext \/ UNCHANGED vars
  BY <1>1, <1>2 DEF CacheNext, QueueNext, CipherNext, GameNext, CourseNext, vars, callvars
<1>3. ASSUME NEW value, Return(value) PROVE input' = input /\ about' = about /\ output' = value
  BY <1>3 DEF Return
<1>4. CASE ComputeLoad
  <2>1. Functions!LoadRight(input, Functions!ComputeLoad(input)) /\ Is("hotel")
    BY <1>4, LoadResults DEF ComputeLoad, Asked
  <2>2. input' = input /\ about' = about /\ output' = Functions!ComputeLoad(input)
    BY <1>3, <1>4 DEF ComputeLoad
  <2> QED BY <2>1, <2>2 DEF Asked, Answered, Is
<1>5. CASE Handle
  <2>1. PICK replied \in Games!Handle(input.winners, input.query) : Return(replied)
    BY <1>5 DEF Handle
  <2>2. Is("olympics") /\ input.winners \in SeqOf(Records, 4) /\ input.query \in Queries
    BY <1>5 DEF Handle, Asked
  <2>3. Games!ReplyRight(input.winners, input.query, replied)
    BY <2>1, <2>2, RecordsAre, QueriesAre, RepliesAreRight
  <2>4. input' = input /\ about' = about /\ output' = replied
    BY <1>3, <2>1
  <2> QED BY <2>2, <2>3, <2>4 DEF Asked, Answered, Is
<1>6. CASE Search
  <2>1. Is("search") /\ input.a \in Descending /\ input.x \in Functions!Ints
    BY <1>6 DEF Search, Asked, Lists
  <2>2. Functions!SearchRight(input.a, input.x, Functions!Searched(input.a, input.x))
    BY <2>1, SearchResults
  <2>3. input' = input /\ about' = about /\ output' = Functions!Searched(input.a, input.x)
    BY <1>3, <1>6 DEF Search
  <2> QED BY <2>1, <2>2, <2>3 DEF Asked, Answered, Is
<1>7. CASE Evaluate
  <2>1. Functions!CheckedRight(input, Functions!Evaluated(input)) /\ Is("checked")
    BY <1>7, CheckedResults DEF Evaluate, Asked
  <2>2. input' = input /\ about' = about /\ output' = Functions!Evaluated(input)
    BY <1>3, <1>7 DEF Evaluate
  <2> QED BY <2>1, <2>2 DEF Asked, Answered, Is
<1>8. CASE ParseDuration
  <2>1. Is("duration") /\ input' = input /\ about' = about
    BY <1>3, <1>8 DEF ParseDuration
  <2> QED BY <2>1 DEF Asked, Answered, Is
<1> QED BY <1>2, <1>4, <1>5, <1>6, <1>7, <1>8 DEF Next

DataIInv ==
  /\ Is("lru") => LruIInv
  /\ Is("queue") => QueueIInv
  /\ Is("cipher") => CipherIInv
  /\ Is("game") => GameIInv
  /\ Is("courses") => CourseIInv
  /\ Asked /\ Answered

LEMMA DataInit == Init => DataIInv
<1>1. Init => output = Off
  BY DEF Init
<1> QED BY <1>1, LruInit, QueueInit, CipherInit, GameInit, CourseInitIInv, AskedFirst DEF Init, DataIInv, Answered

LEMMA DataNext == DataIInv /\ [Next]_vars => DataIInv'
<1> SUFFICES ASSUME DataIInv, [Next]_vars PROVE DataIInv'
  OBVIOUS
<1>1. about' = about
  BY OnlyAbout
<1>2. ASSUME Is("lru") PROVE LruIInv'
  BY <1>2, OnlyAbout, LruNext DEF DataIInv
<1>3. ASSUME Is("queue") PROVE QueueIInv'
  BY <1>3, OnlyAbout, QueueNextIInv DEF DataIInv
<1>4. ASSUME Is("cipher") PROVE CipherIInv'
  BY <1>4, OnlyAbout, CipherNextIInv DEF DataIInv
<1>5. ASSUME Is("game") PROVE GameIInv'
  BY <1>5, OnlyAbout, GameNextIInv DEF DataIInv
<1>6. ASSUME Is("courses") PROVE CourseIInv'
  BY <1>6, OnlyAbout, CourseNextIInv DEF DataIInv
<1>7. Asked' /\ Answered'
  BY CallNext DEF DataIInv
<1> QED BY <1>1, <1>2, <1>3, <1>4, <1>5, <1>6, <1>7 DEF DataIInv, Is

LEMMA DataInvariant == Spec => []DataIInv
BY DataInit, DataNext, PTL DEF Spec

(* The list, the map and the pool of lrucache agree, the tournament ends     *)
(* with one player and nobody plays who is out, and otp hides every byte     *)
(* with the random byte of its place.                                        *)
THEOREM StructuresAlwaysSound == Spec => []StructuresSound
<1>1. DataIInv => StructuresSound
  BY LruSound, CipherRight, GameSound DEF DataIInv, StructuresSound
<1> QED BY <1>1, DataInvariant, PTL

(* GetCourseList gives an order or panics exactly for a cycle, whatever     *)
(* course the map gives first; ComputeLoad is right on every day; the        *)
(* olympics handlers sum every record once and rank one way whatever the     *)
(* order of the map; java's binary searches find the first place, and its    *)
(* checked arithmetic throws exactly when the result is no int.              *)
THEOREM AnswersAlwaysRight == Spec => []AnswersRight
<1>1. DataIInv => AnswersRight
  BY CourseSound DEF DataIInv, Answered, AnswersRight
<1> QED BY <1>1, DataInvariant, PTL

(* Range of lrucache goes on to a pair the cache has, whatever f has called. *)
THEOREM RangeAlwaysLive == Spec => RangeShowsLive
<1>1. DataIInv /\ [Next]_vars => [Is("lru") => Cache!ShowsLive]_cachevars
  BY OnlyAbout, LruLive DEF DataIInv
<1> QED BY <1>1, DataInvariant, PTL DEF Spec, RangeShowsLive

(* lrucache implements the map that forgets the key longest unused.          *)
THEOREM TheOldestIsForgotten == Spec => CacheForgets
<1>1. Init => (Is("lru") => LRU!Init)
  BY LruInit DEF Init
<1>2. DataIInv /\ [Next]_vars => [Is("lru") => LRU!Next]_<<capacity, Cache!Order, reply>>
  <2> SUFFICES ASSUME DataIInv, [Next]_vars, Is("lru") PROVE LRU!Next \/ UNCHANGED <<capacity, Cache!Order, reply>>
    OBVIOUS
  <2>1. LruKept /\ [Cache!CacheNext]_cachevars
    BY OnlyAbout DEF DataIInv, LruIInv
  <2> QED BY <2>1, LruForgets DEF Forgets
<1> QED BY <1>1, <1>2, DataInvariant, PTL DEF Spec, CacheForgets

(* The circular array of ArrayQueue implements the first-in first-out        *)
(* sequence of ArrayQueue.java's comments, also when it grows while it is    *)
(* wrapped around and through the rounds of distinct.                        *)
THEOREM TheQueueIsFifo == Spec => QueueIsFifo
<1>1. Init => (Is("queue") => Fifo!Init)
  BY QueueInit DEF Init
<1>2. DataIInv /\ [Next]_vars => [Is("queue") => Fifo!Next]_queuevars
  BY OnlyAbout, QueueNextIInv DEF DataIInv
<1> QED BY <1>1, <1>2, DataInvariant, PTL DEF Spec, QueueIsFifo
===============================================================================
