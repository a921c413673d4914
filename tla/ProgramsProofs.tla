----------------------------- MODULE ProgramsProofs ---------------------------
(***************************************************************************)
(* The invariants of the concurrent programs hold for every value of the   *)
(* constants.  Each program has an inductive invariant of its own, and a   *)
(* step of Programs is a step of the one that runs.                        *)
(***************************************************************************)
EXTENDS Programs, FiniteSetTheorems, WellFoundedInduction, TLAPS

(* The components count with the Cardinality of their instance of FiniteSets. *)
LEMMA Counting ==
  \A S : /\ Walk!Cardinality(S) = Cardinality(S) /\ Cache!Cardinality(S) = Cardinality(S)
         /\ Web!Cardinality(S) = Cardinality(S) /\ Short!Cardinality(S) = Cardinality(S)
         /\ Sql!Cardinality(S) = Cardinality(S) /\ Pipe!Cardinality(S) = Cardinality(S)
BY DEF Walk!Cardinality, Cache!Cardinality, Web!Cardinality, Short!Cardinality, Sql!Cardinality, Pipe!Cardinality, Cardinality

LEMMA AtMostOne == \A S, x : S \subseteq {x} => Cardinality(S) <= 1
<1> SUFFICES ASSUME NEW S, NEW x, S \subseteq {x} PROVE Cardinality(S) <= 1
  OBVIOUS
<1>1. S = {} \/ S = {x}
  OBVIOUS
<1>2. Cardinality({}) = 0 /\ Cardinality({x}) = 1
  BY FS_EmptySet, FS_Singleton
<1> QED BY <1>1, <1>2

(* A set of numbers with no smallest one is empty.                           *)
LEMMA NoDescent ==
  ASSUME NEW T \in SUBSET Nat, \A k \in T : \E m \in T : m < k
  PROVE  T = {}
<1> SUFFICES ASSUME T # {} PROVE FALSE
  OBVIOUS
<1>1. PICK k \in T : \A m \in T : ~(<<m, k>> \in OpToRel(<, Nat))
  BY NatLessThanWellFounded, WFMin
<1>2. PICK m \in T : m < k
  OBVIOUS
<1>3. <<m, k>> \in OpToRel(<, Nat)
  BY <1>2 DEF OpToRel
<1> QED BY <1>1, <1>3

(* One element more or less.                                                 *)
LEMMA OneMore ==
  ASSUME NEW S, IsFiniteSet(S), NEW x
  PROVE  /\ IsFiniteSet(S \union {x}) /\ Cardinality(S) \in Nat
         /\ Cardinality(S \union {x}) = IF x \in S THEN Cardinality(S) ELSE Cardinality(S) + 1
         /\ IsFiniteSet(S \ {x})
         /\ Cardinality(S \ {x}) = IF x \in S THEN Cardinality(S) - 1 ELSE Cardinality(S)
BY FS_AddElement, FS_RemoveElement, FS_CardinalityType

-------------------------------------------------------------------------------
(***************************************************************************)
(* du.  An entry a walker has yet to visit was visited by nobody, so the   *)
(* directories that are walked are counted one by one, by n in du3 and     *)
(* du4; in du1 and du2 every one of them but the roots has a parent that   *)
(* waits for it, so when the roots have ended all have.                    *)
(***************************************************************************)
Unread == {"none", "start", "sema", "open"}
Active == {d \in Walk!Dirs : walk[d] \notin {"none", "ended"}}

DuTypeOK ==
  /\ du \in {"du1", "du2", "du3", "du4"}
  /\ walk \in [Walk!Dirs -> Unread \union {"loop", "ended"}]
  /\ rest = [d \in Walk!Dirs |-> rest[d]] /\ \A d \in Walk!Dirs : rest[d] \subseteq Tree[d]
  /\ closed \in BOOLEAN /\ done \in BOOLEAN /\ missed \in BOOLEAN
  /\ main \in {"select", "drain", "printed", "returned"}
  /\ counted \subseteq Walk!Files

VisitedOnce ==
  \A d \in Walk!Dirs :
    /\ walk[d] # "loop" => rest[d] = {}
    /\ \A e \in rest[d] \intersect Walk!Dirs : walk[e] = "none"
    /\ \A f \in rest[d] \intersect Walk!Files : f \notin counted
    /\ walk[d] \in Unread =>
         /\ \A e \in Tree[d] \intersect Walk!Dirs : walk[e] = "none"
         /\ \A f \in Tree[d] \intersect Walk!Files : f \notin counted

\* what du3 and du4 count, and what the calls of du1 and du2 wait for
WalkersKnown ==
  /\ Walk!Spawning => n = Cardinality(Active)
  /\ ~Walk!Spawning => \A d \in Walk!Dirs : \A e \in Tree[d] \intersect Walk!Dirs : e \in Active => walk[d] = "loop"
  /\ \A r \in Roots : walk[r] # "none"
  /\ closed => Active = {}
  /\ main \in {"printed", "returned"} => closed

Totals ==
  /\ IsFiniteSet(counted) /\ nfiles = Cardinality(counted)
  /\ main = "drain" => done
  /\ ~missed /\ ~done =>
       \A d \in Walk!Dirs : walk[d] \notin Unread =>
         /\ \A e \in Tree[d] \intersect Walk!Dirs : e \in rest[d] \/ walk[e] # "none"
         /\ \A f \in Tree[d] \intersect Walk!Files : f \in rest[d] \/ f \in counted
  /\ Walk!Spawning => Cardinality(Walk!Open) <= MaxOpen

DuIInv == DuTypeOK /\ VisitedOnce /\ WalkersKnown /\ Totals

(* Whoever climbs from a directory to its parent comes to a root.            *)
LEMMA Climb ==
  ASSUME NEW S \in SUBSET Walk!Dirs,
         \A d \in S : \E p \in S : d \in Tree[p]
  PROVE  S = {}
<1>1. PICK depth \in [Walk!Dirs -> Nat] :
        \A p \in Walk!Dirs : \A d \in Tree[p] \intersect Walk!Dirs : depth[p] < depth[d]
  <2>1. PICK N \in Nat : N = Cardinality(Walk!Dirs)
    BY FileTrees, FS_CardinalityType
  <2>2. 0 .. N \subseteq Nat
    OBVIOUS
  <2> QED BY <2>1, <2>2, FileTrees
<1> DEFINE T == {depth[d] : d \in S}
<1>2. T \in SUBSET Nat
  OBVIOUS
<1>3. \A k \in T : \E m \in T : m < k
  BY <1>1
<1> HIDE DEF T
<1>4. T = {}
  BY <1>2, <1>3, NoDescent
<1> QED BY <1>4 DEF T

LEMMA ActiveFinite == DuTypeOK => IsFiniteSet(Active) /\ IsFiniteSet(Walk!Open) /\ Cardinality(Active) \in Nat /\ Cardinality(Walk!Open) \in Nat
<1>1. Active \subseteq Walk!Dirs /\ Walk!Open \subseteq Walk!Dirs
  BY DEF Active, Walk!Open
<1> QED BY <1>1, FileTrees, FS_Subset, FS_CardinalityType

(* The tokens of sema: who stops reading gives one back.                     *)
LEMMA OpenShrinks ==
  ASSUME DuIInv, du' = du, Walk!Open' \subseteq Walk!Open
  PROVE  Walk!Spawning => Cardinality(Walk!Open') <= MaxOpen
<1>1. IsFiniteSet(Walk!Open)
  BY ActiveFinite DEF DuIInv
<1>2. Cardinality(Walk!Open') <= Cardinality(Walk!Open) /\ Cardinality(Walk!Open') \in Nat /\ Cardinality(Walk!Open) \in Nat
  BY <1>1, FS_Subset, FS_CardinalityType
<1> QED BY <1>2, FileTrees DEF DuIInv, Totals

LEMMA DuInitIInv == Walk!DuInit => DuIInv
<1> SUFFICES ASSUME Walk!DuInit PROVE DuIInv
  OBVIOUS
<1>1. Active = Roots /\ Walk!Open = {}
  BY FileTrees DEF Walk!DuInit, Active, Walk!Open, Walk!At
<1>2. Cardinality({}) = 0 /\ IsFiniteSet({})
  BY FS_EmptySet
<1>3. DuTypeOK /\ VisitedOnce
  BY FileTrees DEF Walk!DuInit, DuTypeOK, VisitedOnce, Unread
<1>4. WalkersKnown
  BY <1>1, FileTrees, Counting DEF Walk!DuInit, WalkersKnown, Walk!Spawning
<1>5. Totals
  BY <1>1, <1>2, FileTrees DEF Walk!DuInit, Totals, Unread
<1> QED BY <1>3, <1>4, <1>5 DEF DuIInv

(* A walker that only moves: it gets a token of sema, or is about to.        *)
LEMMA DuMove ==
  ASSUME DuIInv, NEW d \in Walk!Dirs, NEW to \in Unread \ {"none"},
         walk[d] \in Unread \ {"none"}, Walk!Move(d, to),
         to = "open" => Cardinality(Walk!Open) < MaxOpen,
         UNCHANGED <<du, rest, n, closed, done, main, counted, nfiles, missed>>
  PROVE  DuIInv'
<1>1. walk' = [walk EXCEPT ![d] = to]
  BY DEF Walk!Move
<1>2. Active' = Active
  BY <1>1 DEF Active, DuIInv, DuTypeOK, Unread
<1>3. DuTypeOK' /\ VisitedOnce'
  BY <1>1 DEF DuIInv, DuTypeOK, VisitedOnce, Unread
<1>4. WalkersKnown'
  BY <1>1, <1>2 DEF DuIInv, DuTypeOK, WalkersKnown, Walk!Spawning, Unread
<1>5. Cardinality(Walk!Open') <= MaxOpen \/ Cardinality(Walk!Open') <= Cardinality(Walk!Open)
  <2>1. IsFiniteSet(Walk!Open) /\ Cardinality(Walk!Open) \in Nat
    BY ActiveFinite DEF DuIInv
  <2>2. CASE to = "open"
    <3>1. Walk!Open' = Walk!Open \union {d}
      BY <1>1, <2>2 DEF Walk!Open, Walk!At, DuIInv, DuTypeOK
    <3>0. MaxOpen \in Nat
      BY FileTrees
    <3>2. Cardinality(Walk!Open') <= Cardinality(Walk!Open) + 1
      <4>1. Cardinality(Walk!Open \union {d}) <= Cardinality(Walk!Open) + 1
        BY <2>1, OneMore
      <4> QED BY <3>1, <4>1
    <3>3. Cardinality(Walk!Open') \in Nat
      BY <2>1, <3>1, OneMore, FS_CardinalityType
    <3> QED BY <2>1, <2>2, <3>0, <3>2, <3>3
  <2>3. CASE to # "open"
    <3>1. Walk!Open' \subseteq Walk!Open
      BY <1>1, <2>3 DEF Walk!Open, Walk!At, DuIInv, DuTypeOK
    <3> QED BY <2>1, <3>1, FS_Subset
  <2> QED BY <2>2, <2>3
<1>6. Cardinality(Walk!Open') \in Nat
  BY <1>3, ActiveFinite, FileTrees, FS_Subset, FS_CardinalityType DEF Walk!Open
<1>7. Totals'
  <2>1. Walk!Spawning => Cardinality(Walk!Open') <= MaxOpen
    <3>1. Cardinality(Walk!Open) \in Nat /\ MaxOpen \in Nat
      BY ActiveFinite, FileTrees DEF DuIInv
    <3> QED BY <1>5, <1>6, <3>1 DEF DuIInv, Totals
  <2> QED BY <1>1, <2>1 DEF DuIInv, DuTypeOK, Totals, Unread, Walk!Spawning
<1> QED BY <1>3, <1>4, <1>7 DEF DuIInv

(* A walker begins its loop, with the entries it has read, or with none      *)
(* because du4 was cancelled.                                                *)
LEMMA DuLoop ==
  ASSUME DuIInv, NEW d \in Walk!Dirs, walk[d] \in Unread \ {"none"}, Walk!Move(d, "loop"),
         NEW read \in SUBSET Tree[d], rest' = [rest EXCEPT ![d] = read],
         missed' \in BOOLEAN, missed => missed', read # Tree[d] => missed' \/ done,
         UNCHANGED <<du, n, closed, done, main, counted, nfiles>>
  PROVE  DuIInv'
<1>1. walk' = [walk EXCEPT ![d] = "loop"]
  BY DEF Walk!Move
<1>2. Active' = Active
  BY <1>1 DEF Active, DuIInv, DuTypeOK, Unread
<1>3. DuTypeOK'
  BY <1>1 DEF DuIInv, DuTypeOK, Unread
<1>4. VisitedOnce'
  BY <1>1, FileTrees DEF DuIInv, DuTypeOK, VisitedOnce, Unread
<1>5. WalkersKnown'
  BY <1>1, <1>2 DEF DuIInv, DuTypeOK, WalkersKnown, Walk!Spawning, Unread
<1>6. Walk!Spawning => Cardinality(Walk!Open') <= MaxOpen
  BY <1>1, OpenShrinks DEF DuIInv, DuTypeOK, Walk!Open, Walk!At
<1>7. Totals'
  BY <1>1, <1>6 DEF DuIInv, DuTypeOK, Totals, Unread, Walk!Spawning
<1> QED BY <1>3, <1>4, <1>5, <1>7 DEF DuIInv

(* n.Add(1) and the walker of a directory nobody has walked.                 *)
LEMMA DuEnter ==
  ASSUME DuIInv, Walk!EnterDir
  PROVE  DuIInv'
<1>1. PICK d \in Walk!Dirs, e \in Walk!Dirs :
        /\ e \in rest[d] /\ walk[d] = "loop"
        /\ rest' = [rest EXCEPT ![d] = @ \ {e}] /\ walk' = [walk EXCEPT ![e] = "start"]
  BY DEF Walk!EnterDir, Walk!At, Walk!Move
<1>2. /\ n' = (IF Walk!Spawning THEN n + 1 ELSE n)
      /\ UNCHANGED <<du, closed, done, main, counted, nfiles, missed>>
  BY DEF Walk!EnterDir
<1>3. walk[e] = "none" /\ e # d /\ e \in Tree[d] /\ walk[e] \in Unread
  BY <1>1 DEF DuIInv, DuTypeOK, VisitedOnce, Unread
<1>4. Active' = Active \union {e} /\ e \notin Active /\ d \in Active
  BY <1>1, <1>3 DEF Active, DuIInv, DuTypeOK
<1>5. DuTypeOK'
  BY <1>1, <1>2, <1>3 DEF DuIInv, DuTypeOK, Unread
<1>6. VisitedOnce'
  BY <1>1, <1>2, <1>3, FileTrees DEF DuIInv, DuTypeOK, VisitedOnce, Unread
<1>7. WalkersKnown'
  <2>1. Walk!Spawning => n' = Cardinality(Active')
    BY <1>2, <1>4, OneMore, ActiveFinite DEF DuIInv, WalkersKnown
  <2>2. ~Walk!Spawning => \A p \in Walk!Dirs : \A c \in Tree[p] \intersect Walk!Dirs : c \in Active' => walk'[p] = "loop"
    BY <1>1, <1>3, <1>4, FileTrees DEF DuIInv, DuTypeOK, WalkersKnown
  <2> QED BY <1>1, <1>2, <1>3, <1>4, <2>1, <2>2 DEF DuIInv, DuTypeOK, WalkersKnown, Walk!Spawning
<1>8. Walk!Spawning => Cardinality(Walk!Open') <= MaxOpen
  BY <1>1, <1>2, OpenShrinks DEF DuIInv, DuTypeOK, Walk!Open, Walk!At
<1>9. Totals'
  <2>1. ~missed /\ ~done =>
          \A p \in Walk!Dirs : walk'[p] \notin Unread =>
            /\ \A c \in Tree[p] \intersect Walk!Dirs : c \in rest'[p] \/ walk'[c] # "none"
            /\ \A f \in Tree[p] \intersect Walk!Files : f \in rest'[p] \/ f \in counted
    <3> SUFFICES ASSUME ~missed, ~done, NEW p \in Walk!Dirs, walk'[p] \notin Unread
        PROVE  /\ \A c \in Tree[p] \intersect Walk!Dirs : c \in rest'[p] \/ walk'[c] # "none"
               /\ \A f \in Tree[p] \intersect Walk!Files : f \in rest'[p] \/ f \in counted
      OBVIOUS
    <3>1. p # e /\ walk[p] \notin Unread
      BY <1>1 DEF DuIInv, DuTypeOK, Unread
    <3>2. e \notin Walk!Files
      BY <1>1 DEF Walk!Files
    <3> QED BY <1>1, <3>1, <3>2 DEF DuIInv, DuTypeOK, Totals
  <2> QED BY <1>2, <1>8, <2>1 DEF DuIInv, Totals, Walk!Spawning
<1> QED BY <1>5, <1>6, <1>7, <1>9 DEF DuIInv

(* A size is received: counted, or thrown away by the drain.                 *)
LEMMA DuSize ==
  ASSUME DuIInv, Walk!Size
  PROVE  DuIInv'
<1>1. PICK d \in Walk!Dirs, f \in Walk!Files :
        /\ f \in rest[d] /\ walk[d] = "loop" /\ rest' = [rest EXCEPT ![d] = @ \ {f}]
        /\ counted' = IF main = "select" THEN counted \union {f} ELSE counted
  BY DEF Walk!Size, Walk!At
<1>2. /\ nfiles' = (IF main = "select" THEN nfiles + 1 ELSE nfiles) /\ main \in {"select", "drain"}
      /\ UNCHANGED <<du, walk, n, closed, done, main, missed>>
  BY DEF Walk!Size
<1>3. f \notin counted /\ f \in Tree[d] /\ f \notin Walk!Dirs
  <2>1. f \notin Walk!Dirs
    BY <1>1 DEF Walk!Files
  <2> QED BY <1>1, <2>1 DEF DuIInv, DuTypeOK, VisitedOnce
<1>4. DuTypeOK'
  BY <1>1, <1>2 DEF DuIInv, DuTypeOK
<1>5. VisitedOnce'
  BY <1>1, <1>2, <1>3, FileTrees DEF DuIInv, DuTypeOK, VisitedOnce, Unread
<1>6. Active' = Active /\ Walk!Open' = Walk!Open
  BY <1>2 DEF Active, Walk!Open, Walk!At
<1>7. WalkersKnown'
  BY <1>2, <1>6 DEF DuIInv, WalkersKnown, Walk!Spawning
<1>8. Totals'
  <2>1. IsFiniteSet(counted') /\ nfiles' = Cardinality(counted')
    BY <1>1, <1>2, <1>3, OneMore DEF DuIInv, Totals
  <2>2. ~missed /\ ~done =>
          \A p \in Walk!Dirs : walk[p] \notin Unread =>
            /\ \A c \in Tree[p] \intersect Walk!Dirs : c \in rest'[p] \/ walk[c] # "none"
            /\ \A g \in Tree[p] \intersect Walk!Files : g \in rest'[p] \/ g \in counted'
    BY <1>1, <1>2, <1>3 DEF DuIInv, DuTypeOK, Totals
  <2> QED BY <1>2, <1>6, <2>1, <2>2 DEF DuIInv, Totals, Walk!Spawning
<1> QED BY <1>4, <1>5, <1>7, <1>8 DEF DuIInv

(* n.Done(), or the return to the directory above.                           *)
LEMMA DuLeave ==
  ASSUME DuIInv, Walk!Leave
  PROVE  DuIInv'
<1>1. PICK d \in Walk!Dirs :
        walk[d] = "loop" /\ rest[d] = {} /\ Walk!Running(d) /\ walk' = [walk EXCEPT ![d] = "ended"]
  BY DEF Walk!Leave, Walk!At, Walk!Move
<1>2. /\ n' = (IF Walk!Spawning THEN n - 1 ELSE n)
      /\ UNCHANGED <<du, rest, closed, done, main, counted, nfiles, missed>>
  BY DEF Walk!Leave
<1>3. Active' = Active \ {d} /\ d \in Active
  BY <1>1 DEF Active, DuIInv, DuTypeOK
<1>4. DuTypeOK' /\ VisitedOnce'
  BY <1>1, <1>2 DEF DuIInv, DuTypeOK, VisitedOnce, Unread
<1>5. WalkersKnown'
  <2>1. Walk!Spawning => n' = Cardinality(Active')
    <3>1. Cardinality(Active) # 0
      BY <1>3, ActiveFinite, FS_EmptySet DEF DuIInv
    <3> QED BY <1>2, <1>3, <3>1, OneMore, ActiveFinite DEF DuIInv, WalkersKnown
  <2>2. ~Walk!Spawning => \A p \in Walk!Dirs : \A c \in Tree[p] \intersect Walk!Dirs : c \in Active' => walk'[p] = "loop"
    BY <1>1, <1>3 DEF DuIInv, DuTypeOK, WalkersKnown, Walk!Running, Active
  <2> QED BY <1>1, <1>2, <1>3, <2>1, <2>2 DEF DuIInv, DuTypeOK, WalkersKnown, Walk!Spawning
<1>6. Walk!Spawning => Cardinality(Walk!Open') <= MaxOpen
  BY <1>1, <1>2, OpenShrinks DEF DuIInv, DuTypeOK, Walk!Open, Walk!At
<1>7. Totals'
  BY <1>1, <1>2, <1>6 DEF DuIInv, DuTypeOK, Totals, Unread, Walk!Spawning
<1> QED BY <1>4, <1>5, <1>7 DEF DuIInv

(* When fileSizes is closed, n is zero or all roots have ended, and in       *)
(* either case nobody walks.                                                 *)
LEMMA DuClose ==
  ASSUME DuIInv, Walk!Close
  PROVE  DuIInv'
<1>1. /\ closed' = TRUE /\ UNCHANGED <<du, walk, rest, n, done, main, counted, nfiles, missed>>
      /\ IF Walk!Spawning THEN n = 0 ELSE \A r \in Roots : walk[r] = "ended"
  BY DEF Walk!Close, Walk!At
<1>2. Active = {}
  <2>1. CASE Walk!Spawning
    BY <1>1, <2>1, ActiveFinite, FS_EmptySet DEF DuIInv, WalkersKnown
  <2>2. CASE ~Walk!Spawning
    <3>1. \A d \in Active : d \notin Roots
      BY <1>1, <2>2 DEF Active
    <3>2. \A d \in Active : \E p \in Active : d \in Tree[p]
      BY <2>2, <3>1, FileTrees DEF DuIInv, WalkersKnown, Active
    <3> QED BY <3>2, Climb DEF Active
  <2> QED BY <2>1, <2>2
<1>3. Active' = Active /\ Walk!Open' = Walk!Open
  BY <1>1 DEF Active, Walk!Open, Walk!At
<1>4. DuTypeOK' /\ VisitedOnce'
  BY <1>1 DEF DuIInv, DuTypeOK, VisitedOnce
<1>5. WalkersKnown'
  BY <1>1, <1>2, <1>3 DEF DuIInv, WalkersKnown, Walk!Spawning
<1>6. Totals'
  BY <1>1, <1>3 DEF DuIInv, Totals, Walk!Spawning
<1> QED BY <1>4, <1>5, <1>6 DEF DuIInv

LEMMA DuNextIInv == DuIInv /\ [Walk!DuNext]_duvars => DuIInv'
<1> SUFFICES ASSUME DuIInv, [Walk!DuNext]_duvars PROVE DuIInv'
  OBVIOUS
<1>1. ASSUME UNCHANGED <<du, walk, rest, n, counted, nfiles, missed>>, closed' = closed,
             \/ done' = TRUE /\ main' = main
             \/ done' = done /\ main' = main
             \/ done' = done /\ main' = "drain" /\ done
             \/ done' = done /\ main' \in {"printed", "returned"} /\ closed
      PROVE  DuIInv'
  <2>1. Active' = Active /\ Walk!Open' = Walk!Open
    BY <1>1 DEF Active, Walk!Open, Walk!At
  <2>2. DuTypeOK' /\ VisitedOnce'
    BY <1>1 DEF DuIInv, DuTypeOK, VisitedOnce
  <2>3. WalkersKnown'
    BY <1>1, <2>1 DEF DuIInv, WalkersKnown, Walk!Spawning
  <2>4. Totals'
    BY <1>1, <2>1 DEF DuIInv, DuTypeOK, Totals, Walk!Spawning
  <2> QED BY <2>2, <2>3, <2>4 DEF DuIInv
<1>2. CASE UNCHANGED duvars \/ Walk!Cancel \/ Walk!Drain \/ Walk!Closed
  BY <1>1, <1>2 DEF duvars, Walk!Cancel, Walk!Drain, Walk!Closed
<1>3. CASE Walk!Acquire
  <2>1. PICK d \in Walk!Dirs : walk[d] \in {"sema", "start"} /\ Cardinality(Walk!Open) < MaxOpen /\ Walk!Move(d, "open")
    BY <1>3, Counting DEF Walk!Acquire, Walk!At
  <2> QED BY <1>3, <2>1, DuMove DEF Walk!Acquire, Unread
<1>4. ASSUME NEW d \in Walk!Dirs, NEW from \in {"start", "open"}, Walk!Read(d, from) PROVE DuIInv'
  <2>1. PICK read \in SUBSET Tree[d] : rest' = [rest EXCEPT ![d] = read] /\ missed' = (missed \/ read # Tree[d])
    BY <1>4 DEF Walk!Read
  <2>2. /\ walk[d] \in Unread \ {"none"} /\ Walk!Move(d, "loop")
        /\ UNCHANGED <<du, n, closed, done, main, counted, nfiles>>
    BY <1>4 DEF Walk!Read, Walk!At, Unread
  <2> QED BY <2>1, <2>2, DuLoop
<1>5. ASSUME NEW d \in Walk!Dirs, Walk!Check(d) \/ Walk!Abandon(d) PROVE DuIInv'
  <2>1. walk[d] \in {"start", "sema"} /\ UNCHANGED <<du, rest, n, closed, done, main, counted, nfiles, missed>>
    BY <1>5 DEF Walk!Check, Walk!Abandon, Walk!At
  <2>2. Walk!Move(d, "sema") \/ (done /\ Walk!Move(d, "loop"))
    BY <1>5 DEF Walk!Check, Walk!Abandon, Walk!Move, DuIInv, DuTypeOK
  <2>3. CASE Walk!Move(d, "sema")
    BY <2>1, <2>3, DuMove DEF Unread
  <2>4. CASE done /\ Walk!Move(d, "loop")
    <3>1. rest[d] = {} /\ rest' = [rest EXCEPT ![d] = {}] /\ missed \in BOOLEAN
      BY <2>1 DEF DuIInv, DuTypeOK, VisitedOnce
    <3> QED BY <2>1, <2>4, <3>1, DuLoop DEF Unread
  <2> QED BY <2>2, <2>3, <2>4
<1> QED BY <1>2, <1>3, <1>4, <1>5, DuEnter, DuSize, DuLeave, DuClose
        DEF Walk!DuNext, Walk!ReadDir1, Walk!ReadDir

LEMMA DuNoSend == DuIInv => Walk!DuNoSendAfterClose
BY DEF DuIInv, WalkersKnown, Active, Walk!DuNoSendAfterClose

LEMMA DuTotals == DuIInv => Walk!DuTotalsRight
<1> SUFFICES ASSUME DuIInv PROVE Walk!DuTotalsRight
  OBVIOUS
<1>1. ASSUME main = "printed", ~missed, ~done PROVE counted = Walk!Files
  <2> DEFINE unseen == {d \in Walk!Dirs : walk[d] = "none"}
  <2>1. \A d \in Walk!Dirs : walk[d] \in {"none", "ended"}
    BY <1>1 DEF DuIInv, WalkersKnown, Active
  <2>2. \A d \in unseen : \E p \in unseen : d \in Tree[p]
    <3> SUFFICES ASSUME NEW d \in unseen PROVE \E p \in unseen : d \in Tree[p]
      OBVIOUS
    <3>1. PICK p \in Walk!Dirs : d \in Tree[p]
      BY FileTrees DEF DuIInv, WalkersKnown
    <3>2. walk[p] # "ended"
      BY <1>1, <3>1 DEF DuIInv, Totals, VisitedOnce, Unread
    <3> QED BY <2>1, <3>1, <3>2
  <2>3. unseen = {}
    <3> HIDE DEF unseen
    <3>1. unseen \in SUBSET Walk!Dirs
      BY DEF unseen
    <3> QED BY <2>2, <3>1, Climb
  <2>4. \A d \in Walk!Dirs : walk[d] = "ended"
    BY <2>1, <2>3
  <2>5. Walk!Files \subseteq counted
    BY <1>1, <2>4 DEF DuIInv, Totals, VisitedOnce, Unread, Walk!Files
  <2> QED BY <2>5 DEF DuIInv, DuTypeOK
<1> QED BY <1>1, Counting DEF DuIInv, Totals, Walk!DuTotalsRight

-------------------------------------------------------------------------------
(***************************************************************************)
(* memo1 .. memo4 and synconce.  Whatever is stored or returned is the     *)
(* number of a call of f for its key.  Why f runs once differs: memo1 runs *)
(* one Get at a time, in memo2 the one that runs f has the mutex, so an    *)
(* entry that is missing was not called for; memo4 makes the entry before  *)
(* it calls f; synconce asks its Once.                                     *)
(***************************************************************************)
MemoTypeOK ==
  /\ memo \in Cache!Versions
  /\ get \in [Getters -> {"look", "f", "once", "wait", "ended"}]
  /\ wants \in [Getters -> Keys]
  /\ entries \in [Keys -> {"none", "made", "ready"}]
  /\ cached \in [Keys -> Nat] /\ calls \in [Keys -> Nat]
  /\ got \in [Getters -> Nat]

Plain == {"memo1", "memo2", "memo3"}

ResultsComputed ==
  /\ \A k \in Keys : entries[k] = "ready" => cached[k] \in 1 .. calls[k]
  /\ \A g \in Getters :
       /\ get[g] = "ended" => got[g] \in 1 .. calls[wants[g]]
       /\ get[g] = "f" => IF memo \in Plain THEN got[g] \in 1 .. calls[wants[g]] ELSE calls[wants[g]] >= 1

\* nobody else runs f
FAlone ==
  \A g \in Getters : get[g] = "f" =>
    /\ memo = "memo1" => Cache!Alone(g)
    /\ memo = "memo2" => mu = g

ComputedOnce ==
  /\ memo # "memo3" => \A k \in Keys : calls[k] <= 1
  /\ memo \in {"memo1", "memo2"} => \A k \in Keys :
       entries[k] = "none" /\ (\A g \in Getters : get[g] = "f" => wants[g] # k) => calls[k] = 0
  /\ memo = "memo4" => \A k \in Keys : entries[k] = "none" => calls[k] = 0

MemoIInv == MemoTypeOK /\ ResultsComputed /\ FAlone /\ ComputedOnce

LEMMA MemoInitIInv == Cache!MemoInit => MemoIInv
BY DEF Cache!MemoInit, MemoIInv, MemoTypeOK, ResultsComputed, FAlone, ComputedOnce

LEMMA MemoNextIInv == MemoIInv /\ [Cache!MemoNext]_memovars => MemoIInv'
<1> SUFFICES ASSUME MemoIInv, [Cache!MemoNext]_memovars PROVE MemoIInv'
  OBVIOUS
<1> USE DEF MemoIInv, MemoTypeOK, ResultsComputed, FAlone, ComputedOnce, Plain, Cache!Step, Cache!Alone
<1>1. CASE UNCHANGED memovars
  BY <1>1 DEF memovars
<1>2. ASSUME NEW g \in Getters, Cache!Hit(g) PROVE MemoIInv'
  BY <1>2 DEF Cache!Hit
<1>3. ASSUME NEW g \in Getters, Cache!Miss(g) PROVE MemoIInv'
  <2>1. memo \in {"memo1", "memo2"} => calls[wants[g]] = 0 /\ \A h \in Getters : get[h] # "f"
    BY <1>3, NobodyGets DEF Cache!Miss
  <2> QED BY <1>3, <2>1 DEF Cache!Miss, Cache!Call
<1>4. ASSUME NEW g \in Getters, Cache!Store(g) PROVE MemoIInv'
  <2>1. MemoTypeOK' /\ ResultsComputed' /\ FAlone'
    BY <1>4 DEF Cache!Store
  <2>2. ComputedOnce'
    BY <1>4 DEF Cache!Store
  <2> QED BY <2>1, <2>2
<1>5. ASSUME NEW g \in Getters, Cache!Enter4(g) PROVE MemoIInv'
  BY <1>5 DEF Cache!Enter4, Cache!Call
<1>6. ASSUME NEW g \in Getters, Cache!Ready(g) PROVE MemoIInv'
  BY <1>6 DEF Cache!Ready, Cache!Compute
<1>7. ASSUME NEW g \in Getters, Cache!Await(g) PROVE MemoIInv'
  BY <1>7 DEF Cache!Await
<1>8. ASSUME NEW g \in Getters, Cache!GetOnce(g) PROVE MemoIInv'
  BY <1>8 DEF Cache!GetOnce, Cache!LoadOrStore, Cache!OnceDo, Cache!Call
<1> QED BY <1>1, <1>2, <1>3, <1>4, <1>5, <1>6, <1>7, <1>8 DEF Cache!MemoNext, Cache!GetMap, Cache!Get4

LEMMA MemoRight == MemoIInv => Cache!MemoOnce
<1> SUFFICES ASSUME MemoIInv PROVE Cache!MemoOnce
  OBVIOUS
<1> DEFINE running == {g \in Getters : get[g] = "f"}
<1>1. memo = "memo2" => running \subseteq {mu}
  BY DEF MemoIInv, FAlone
<1>2. memo = "memo2" => Cardinality(running) <= 1
  BY <1>1, AtMostOne
<1> QED BY <1>2, Counting DEF MemoIInv, ResultsComputed, ComputedOnce, Cache!MemoOnce

-------------------------------------------------------------------------------
(***************************************************************************)
(* chat.  A client is in the broadcaster's map exactly while its handler   *)
(* is between entering and leaving, and the loop over the map sends to no  *)
(* others; Leave waits for the end of that loop.                           *)
(***************************************************************************)
ChatIInv ==
  /\ handler \in [Conns -> {"none", "hello", "arrived", "enter", "scan", "say", "leave", "left", "ended"}]
  /\ clients \subseteq {c \in Conns : handler[c] \in {"scan", "say", "leave"}}
  /\ pending \subseteq clients
  /\ shut \subseteq {c \in Conns : handler[c] \in {"left", "ended"}}

LEMMA ChatInitIInv == Talk!ChatInit => ChatIInv
BY DEF Talk!ChatInit, ChatIInv

LEMMA ChatNextIInv == ChatIInv /\ [Talk!ChatNext]_chatvars => ChatIInv'
<1> SUFFICES ASSUME ChatIInv, [Talk!ChatNext]_chatvars PROVE ChatIInv'
  OBVIOUS
<1> USE DEF ChatIInv, Talk!Handler
<1>1. CASE UNCHANGED chatvars
  BY <1>1 DEF chatvars
<1>2. ASSUME NEW c \in Conns, Talk!Message(c) PROVE ChatIInv'
  BY <1>2 DEF Talk!Message, Talk!Selecting
<1>3. ASSUME NEW c \in Conns, Talk!Enter(c) PROVE ChatIInv'
  BY <1>3 DEF Talk!Enter, Talk!Selecting
<1>4. ASSUME NEW c \in Conns, Talk!Leave(c) PROVE ChatIInv'
  BY <1>4 DEF Talk!Leave, Talk!Selecting
<1>5. ASSUME NEW c \in Conns, Talk!handleConn(c) PROVE ChatIInv'
  BY <1>5 DEF Talk!handleConn, Talk!Accept, Talk!Hello, Talk!Scan
<1>6. ASSUME NEW c \in Conns, Talk!Deliver(c) \/ Talk!clientWriter(c) PROVE ChatIInv'
  BY <1>6 DEF Talk!Deliver, Talk!clientWriter, Talk!Write, Talk!WriterEnds
<1> QED BY <1>1, <1>2, <1>3, <1>4, <1>5, <1>6 DEF Talk!ChatNext, Talk!broadcaster

LEMMA ChatSafe == ChatIInv => Talk!ChatChannels
BY DEF ChatIInv, Talk!ChatChannels

-------------------------------------------------------------------------------
(***************************************************************************)
(* wscat.  Until main exits ctx is live, so the reader can only have ended *)
(* because the connection has and everything it carried is printed; main   *)
(* cancels only after a signal and its close frame.                        *)
(***************************************************************************)
WscatIInv ==
  /\ cancelled => wmain = "exit"
  /\ wmain = "cancel" => signal /\ link # "open"
  /\ reader = "ended" => inflight = 0 /\ link = "broken"
  /\ Cat!WscatExits

LEMMA WscatInitIInv == Cat!WscatInit => WscatIInv
BY DEF Cat!WscatInit, WscatIInv, Cat!WscatExits

LEMMA WscatNextIInv == WscatIInv /\ [Cat!WscatNext]_wscatvars => WscatIInv'
<1> SUFFICES ASSUME WscatIInv, [Cat!WscatNext]_wscatvars PROVE WscatIInv'
  OBVIOUS
<1> USE DEF WscatIInv, Cat!WscatExits
<1>1. CASE UNCHANGED wscatvars
  BY <1>1 DEF wscatvars
<1>2. CASE Cat!WscatNext
  <2>0. wmain \notin {"exit", "dead"} /\ ~cancelled
    BY <1>2 DEF Cat!WscatNext
  <2>1. CASE Cat!Dial
    BY <2>0, <2>1 DEF Cat!Dial
  <2>2. CASE Cat!Reader
    BY <2>0, <2>2 DEF Cat!Reader
  <2>3. CASE Cat!Sender
    BY <2>0, <2>3 DEF Cat!Sender
  <2>4. CASE Cat!Outside
    BY <2>0, <2>4 DEF Cat!Outside
  <2>5. CASE Cat!Stop
    BY <2>0, <2>5 DEF Cat!Stop
  <2>6. CASE Cat!Timeout \/ Cat!Done \/ Cat!Clash
    BY <2>0, <2>6 DEF Cat!Timeout, Cat!Done, Cat!Clash
  <2> QED BY <1>2, <2>1, <2>2, <2>3, <2>4, <2>5, <2>6 DEF Cat!WscatNext
<1> QED BY <1>1, <1>2

-------------------------------------------------------------------------------
(***************************************************************************)
(* The middlewares.  The path's count is read and written under the lock,  *)
(* so it is the number of the requests that have been through; a page has  *)
(* every path there was when it was asked for, and counts only grow.       *)
(***************************************************************************)
Behind == {"new", "auth", "count", "read", "write", "unlock", "finish", "ended"}
Paged  == {"new", "range", "ranging", "print", "finish", "ended"}
Wrapped(p) == {r \in Requests : at[r] \in {"unlock", "finish", "ended"}
                                  /\ Web!Name(request[r]) = p /\ ~Web!Is(r, "metrics")}
Good(r) == Web!isValid(request[r].token) /\ request[r].check = "ok"
Began(r) == <<r, "request started", "">>
Ended(r) == IF status[r] = "panic" THEN <<r, "request panicked", "panic">>
            ELSE <<r, "request finished", status[r]>>

WebTypeOK ==
  /\ request \in Loads
  /\ DOMAIN at = Requests /\ DOMAIN status = Requests /\ DOMAIN user = Requests
  /\ value \in [Requests -> Nat] /\ DOMAIN keys = Requests /\ DOMAIN printed = Requests /\ DOMAIN before = Requests
  /\ \A r \in Requests : at[r] \in IF Web!Is(r, "metrics") THEN Paged ELSE Behind
  /\ \A p \in DOMAIN metrics : metrics[p] \in Nat
  /\ \A r \in Requests : \A p \in DOMAIN before[r] : before[r][p] \in Nat

\* the mutex, and what its holder has read
Locked ==
  \A r \in Requests : at[r] \in {"read", "write", "unlock"} =>
    /\ lock = {r} /\ Web!Name(request[r]) # ""
    /\ at[r] = "write" => value[r] = Web!Count(metrics, Web!Name(request[r]))

Counted == \A p \in Web!Names \ {""} : Web!Count(metrics, p) = Cardinality(Wrapped(p))

Pages ==
  \A r \in Requests :
    /\ DOMAIN before[r] \subseteq DOMAIN metrics
    /\ \A p \in DOMAIN before[r] : before[r][p] <= metrics[p]
    /\ keys[r] \subseteq DOMAIN metrics /\ DOMAIN printed[r] \subseteq DOMAIN metrics
    /\ \A p \in DOMAIN printed[r] : printed[r][p] \in Web!Count(before[r], p) .. metrics[p]
    /\ at[r] \in {"new", "range"} => DOMAIN printed[r] = {}
    /\ at[r] \in {"ranging", "print"} => DOMAIN before[r] \subseteq keys[r] \union DOMAIN printed[r]
    /\ Web!Is(r, "metrics") /\ at[r] \in {"finish", "ended"} => DOMAIN before[r] \subseteq DOMAIN printed[r]

Answered ==
  \A r \in Requests : ~Web!Is(r, "metrics") =>
    /\ at[r] \in {"new", "auth"} => status[r] = ""
    /\ status[r] = "200" => Good(r) /\ user[r] = "user"
    /\ status[r] = "panic" => Good(r) /\ Web!Is(r, "panic")

LogOf(r) == {e \in log : e[1] = r}
Logged ==
  \A r \in Requests :
    LogOf(r) =
      CASE at[r] = "new" -> {} [] at[r] = "ended" -> {Began(r), Ended(r)} [] OTHER -> {Began(r)}

WebIInv == WebTypeOK /\ Locked /\ Counted /\ Pages /\ Answered /\ Logged

LEMMA WebInitIInv == Web!WebInit => WebIInv
<1> SUFFICES ASSUME Web!WebInit PROVE WebIInv
  OBVIOUS
<1>1. WebTypeOK
  BY DEF Web!WebInit, WebTypeOK, Web!Empty, Paged, Behind
<1>2. Locked /\ Pages /\ Answered /\ Logged
  BY DEF Web!WebInit, Web!Empty, Locked, Pages, Answered, Logged, LogOf
<1>3. Counted
  <2>1. \A p : Wrapped(p) = {} /\ Web!Count(metrics, p) = 0
    BY DEF Web!WebInit, Web!Empty, Web!Count, Wrapped
  <2> QED BY <2>1, FS_EmptySet DEF Counted
<1> QED BY <1>1, <1>2, <1>3 DEF WebIInv

LEMMA WebNextIInv == WebIInv /\ [Web!WebNext]_webvars => WebIInv'
<1> SUFFICES ASSUME WebIInv, [Web!WebNext]_webvars PROVE WebIInv'
  OBVIOUS
<1> USE DEF Web!Move, Web!gauge, Web!page
<1>0. ASSUME UNCHANGED <<request, metrics>>, \A p \in Web!Names \ {""} : Wrapped(p)' = Wrapped(p)
      PROVE  Counted'
  BY <1>0 DEF WebIInv, Counted, Web!Names
<1>N. /\ \A p \in DOMAIN metrics : metrics[p] \in Nat /\ metrics[p] <= metrics[p]
      /\ \A p : Web!Count(metrics, p) \in Nat
  <2>1. \A p \in DOMAIN metrics : metrics[p] \in Nat
    BY DEF WebIInv, WebTypeOK
  <2> QED BY <2>1 DEF Web!Count
<1>L. ASSUME NEW r \in Requests, NEW m, NEW st, log' = log \union {<<r, m, st>>}
      PROVE  \A q \in Requests : LogOf(q)' = IF q = r THEN LogOf(q) \union {<<r, m, st>>} ELSE LogOf(q)
  BY <1>L DEF LogOf
<1>1. CASE UNCHANGED webvars
  <2>1. \A p \in Web!Names : Wrapped(p)' = Wrapped(p)
    BY <1>1 DEF webvars, Wrapped, Web!Is
  <2> QED BY <1>0, <1>1, <2>1 DEF webvars, WebIInv, WebTypeOK, Locked, Pages, Answered, Logged, LogOf, Web!Is, Good, Began, Ended
<1>2. ASSUME NEW r \in Requests, Web!Started(r) PROVE WebIInv'
  <2> USE <1>2 DEF Web!Started
  <2>1. WebTypeOK'
    BY DEF WebIInv, WebTypeOK, Web!Is, Paged, Behind
  <2>2. Locked'
    BY DEF WebIInv, WebTypeOK, Locked
  <2>3. Pages'
    <3>1. /\ \A q \in Requests \ {r} : before'[q] = before[q] /\ at'[q] = at[q]
          /\ before'[r] = metrics /\ at'[r] \in {"range", "auth"} /\ DOMAIN printed[r] = {}
          /\ UNCHANGED <<request, metrics, keys, printed>>
      BY DEF WebIInv, WebTypeOK, Pages
    <3> QED BY <3>1, <1>N, ZenonT(60) DEF WebIInv, Pages, Web!Is, Web!Count
  <2>4. Counted'
    BY <1>0 DEF WebIInv, WebTypeOK, Wrapped, Web!Is
  <2>5. Answered'
    BY DEF WebIInv, WebTypeOK, Answered, Web!Is, Good
  <2>6. Logged'
    <3>1. /\ LogOf(r)' = {Began(r)} /\ at'[r] \notin {"new", "ended"}
          /\ \A q \in Requests \ {r} : LogOf(q)' = LogOf(q) /\ at'[q] = at[q]
      BY <1>L, ZenonT(60) DEF WebIInv, WebTypeOK, Logged, Began
    <3> QED BY <3>1 DEF WebIInv, Logged, Began, Ended
  <2> QED BY <2>1, <2>2, <2>3, <2>4, <2>5, <2>6 DEF WebIInv
<1>3. ASSUME NEW r \in Requests, Web!CheckAuth(r) PROVE WebIInv'
  <2> USE <1>3 DEF Web!CheckAuth
  <2>0. ~Web!Is(r, "metrics")
    BY DEF WebIInv, WebTypeOK, Paged
  <2>1. WebTypeOK'
    BY <2>0 DEF WebIInv, WebTypeOK, Web!Is, Paged, Behind
  <2>2. Locked'
    BY DEF WebIInv, WebTypeOK, Locked
  <2>3. Pages'
    BY <2>0 DEF WebIInv, WebTypeOK, Pages, Web!Is
  <2>4. Counted'
    BY <1>0 DEF WebIInv, WebTypeOK, Wrapped, Web!Is
  <2>5. Answered'
    BY <2>0, WebLoads, ZenonT(60) DEF WebIInv, WebTypeOK, Answered, Web!Is, Good, Web!Refused, Web!ContextUser
  <2>6. Logged'
    BY DEF WebIInv, WebTypeOK, Logged, LogOf, Began, Ended
  <2> QED BY <2>1, <2>2, <2>3, <2>4, <2>5, <2>6 DEF WebIInv
<1>4. ASSUME NEW r \in Requests, Web!Finished(r) PROVE WebIInv'
  <2> USE <1>4 DEF Web!Finished
  <2>1. WebTypeOK'
    BY DEF WebIInv, WebTypeOK, Web!Is, Paged, Behind
  <2>2. Locked'
    BY DEF WebIInv, WebTypeOK, Locked
  <2>3. Pages'
    BY DEF WebIInv, WebTypeOK, Pages, Web!Is
  <2>4. Counted'
    BY <1>0 DEF WebIInv, WebTypeOK, Wrapped, Web!Is
  <2>5. Answered'
    BY DEF WebIInv, WebTypeOK, Answered, Web!Is, Good
  <2>6. Logged'
    <3>1. Ended(r) = <<r, IF status[r] = "panic" THEN "request panicked" ELSE "request finished", status[r]>>
      BY DEF Ended
    <3>2. LogOf(r) = {Began(r)} /\ at'[r] = "ended" /\ \A q \in Requests \ {r} : at'[q] = at[q]
      BY DEF WebIInv, WebTypeOK, Logged
    <3>3. \A q \in Requests : LogOf(q)' = IF q = r THEN LogOf(q) \union {Ended(r)} ELSE LogOf(q)
      <4>1. PICK m : log' = log \union {<<r, m, status[r]>>} /\ Ended(r) = <<r, m, status[r]>>
        BY <3>1
      <4>2. <<r, m, status[r]>>[1] = r
        OBVIOUS
      <4>3. \A q \in Requests : LogOf(q)' = IF q = r THEN LogOf(q) \union {<<r, m, status[r]>>} ELSE LogOf(q)
        BY <4>1, <4>2 DEF LogOf
      <4> QED BY <4>1, <4>3
    <3>4. LogOf(r)' = {Began(r), Ended(r)}
      BY <3>2, <3>3
    <3> QED BY <3>2, <3>3, <3>4 DEF WebIInv, Logged, Began, Ended
  <2> QED BY <2>1, <2>2, <2>3, <2>4, <2>5, <2>6 DEF WebIInv
<1>5. ASSUME NEW r \in Requests, Web!Lock(r) \/ Web!Read(r) \/ Web!Unlock(r) PROVE WebIInv'
  <2> USE <1>5 DEF Web!Lock, Web!Read, Web!Unlock
  <2>0. ~Web!Is(r, "metrics")
    BY DEF WebIInv, WebTypeOK, Paged
  <2>1. WebTypeOK'
    <3>1. value' \in [Requests -> Nat]
      <4>1. value' = value \/ \E c \in Nat : value' = [value EXCEPT ![r] = c]
        BY <1>N
      <4> QED BY <4>1 DEF WebIInv, WebTypeOK
    <3>2. at' \in {[at EXCEPT ![r] = to] : to \in {"read", "write", "finish"}}
      OBVIOUS
    <3> QED BY <2>0, <3>1, <3>2 DEF WebIInv, WebTypeOK, Web!Is, Behind
  <2>2. Locked'
    BY ZenonT(60) DEF WebIInv, WebTypeOK, Locked
  <2>3. Pages'
    BY <2>0, ZenonT(60) DEF WebIInv, WebTypeOK, Pages, Web!Is
  <2>4. Counted'
    BY <1>0 DEF WebIInv, WebTypeOK, Wrapped, Web!Is
  <2>5. Answered'
    BY ZenonT(60) DEF WebIInv, WebTypeOK, Answered, Web!Is, Good
  <2>6. Logged'
    BY DEF WebIInv, WebTypeOK, Logged, LogOf, Began, Ended
  <2> QED BY <2>1, <2>2, <2>3, <2>4, <2>5, <2>6 DEF WebIInv
<1>6. ASSUME NEW r \in Requests, Web!Write(r) PROVE WebIInv'
  <2> DEFINE s == Web!Name(request[r])
  <2>0. /\ ~Web!Is(r, "metrics") /\ at[r] = "write" /\ at' = [at EXCEPT ![r] = "unlock"]
        /\ UNCHANGED <<request, status, user, lock, value, keys, printed, before, log, dead>>
    BY <1>6 DEF Web!Write, WebIInv, WebTypeOK, Paged
  <2>1. /\ DOMAIN metrics' = DOMAIN metrics \union {s}
        /\ metrics'[s] = Web!Count(metrics, s) + 1
        /\ \A p \in DOMAIN metrics : p # s => metrics'[p] = metrics[p]
        /\ Web!Count(metrics, s) \in Nat
    BY <1>6 DEF Web!Write, Web!With, WebIInv, WebTypeOK, Locked, Web!Count
  <2> HIDE DEF s
  <2>2. WebTypeOK'
    BY <2>0, <2>1 DEF WebIInv, WebTypeOK, Web!Is, Paged, Behind
  <2>3. Locked'
    BY <2>0 DEF WebIInv, WebTypeOK, Locked
  <2>4. \A p \in DOMAIN metrics : metrics'[p] >= metrics[p]
    BY <2>1 DEF WebIInv, WebTypeOK, Web!Count
  <2>5. Pages'
    BY <2>0, <2>1, <2>4 DEF WebIInv, WebTypeOK, Pages, Web!Is, Web!Count
  <2>6. Counted'
    <3>1. r \notin Wrapped(s) /\ Wrapped(s)' = Wrapped(s) \union {r} /\ \A p : p # s => Wrapped(p)' = Wrapped(p)
      BY <2>0 DEF s, WebIInv, WebTypeOK, Wrapped, Web!Is
    <3>2. IsFiniteSet(Wrapped(s))
      BY WebLoads, FS_Subset DEF Wrapped
    <3>3. Cardinality(Wrapped(s) \union {r}) = Cardinality(Wrapped(s)) + 1
      BY <3>1, <3>2, OneMore
    <3>4. Web!Count(metrics', s) = Web!Count(metrics, s) + 1 /\ \A p : p # s => Web!Count(metrics', p) = Web!Count(metrics, p)
      BY <2>0, <2>1 DEF Web!Count, s
    <3>5. \A p \in Web!Names \ {""} : Web!Count(metrics', p) = Cardinality(Wrapped(p)')
      <4> SUFFICES ASSUME NEW p \in Web!Names \ {""} PROVE Web!Count(metrics', p) = Cardinality(Wrapped(p)')
        OBVIOUS
      <4>1. CASE p = s
        <5>1. Web!Count(metrics, s) = Cardinality(Wrapped(s))
          BY <4>1 DEF WebIInv, Counted
        <5>2. Wrapped(p)' = Wrapped(s) \union {r}
          BY <2>0, <4>1 DEF s, WebIInv, WebTypeOK, Wrapped, Web!Is
        <5> QED BY <3>3, <3>4, <4>1, <5>1, <5>2
      <4>2. CASE p # s
        BY <3>1, <3>4, <4>2 DEF WebIInv, Counted
      <4> QED BY <4>1, <4>2
    <3> QED BY <2>0, <3>5 DEF Counted, Web!Names
  <2>7. Answered'
    BY <2>0 DEF WebIInv, WebTypeOK, Answered, Web!Is, Good
  <2>8. Logged'
    BY <2>0 DEF WebIInv, WebTypeOK, Logged, LogOf, Began, Ended
  <2> QED BY <2>2, <2>3, <2>5, <2>6, <2>7, <2>8 DEF WebIInv
<1>7. ASSUME NEW r \in Requests, Web!Range(r) \/ Web!PrintKey(r) \/ Web!Printed(r) PROVE WebIInv'
  <2>0. /\ Web!Is(r, "metrics")
        /\ UNCHANGED <<request, user, metrics, lock, value, before, log>>
        /\ status' \in {status, [status EXCEPT ![r] = "200"]}
    BY <1>7 DEF Web!Range, Web!PrintKey, Web!Printed, WebIInv, WebTypeOK, Behind
  <2>1. PICK to \in {"ranging", "print", "finish"} : at' \in {at, [at EXCEPT ![r] = to]} /\ at[r] \in {"range", "ranging", "print"}
    BY <1>7 DEF Web!Range, Web!PrintKey, Web!Printed
  <2>2. WebTypeOK'
    BY <1>7, <2>0, <2>1 DEF Web!Range, Web!PrintKey, Web!Printed, WebIInv, WebTypeOK, Web!Is, Paged
  <2>3. Locked'
    BY <2>0, <2>1 DEF WebIInv, WebTypeOK, Locked
  <2>4. Pages'
    <3>1. CASE Web!Range(r)
      BY <3>1, <2>0 DEF Web!Range, WebIInv, WebTypeOK, Pages, Web!Is, Web!Count
    <3>2. CASE Web!PrintKey(r)
      <4>1. PICK k \in keys[r] :
              /\ keys' = [keys EXCEPT ![r] = @ \ {k}]
              /\ printed' = [printed EXCEPT ![r] = Web!With(@, k, metrics[k])]
        BY <3>2 DEF Web!PrintKey
      <4>2. /\ DOMAIN printed'[r] = DOMAIN printed[r] \union {k} /\ printed'[r][k] = metrics[k]
            /\ \A p \in DOMAIN printed[r] : p # k => printed'[r][p] = printed[r][p]
            /\ \A q \in Requests \ {r} : printed'[q] = printed[q]
        BY <4>1 DEF WebIInv, WebTypeOK, Web!With
      <4>3. Web!Count(before[r], k) <= metrics[k] /\ metrics[k] \in Nat /\ Web!Count(before[r], k) \in Nat /\ k \in DOMAIN metrics
        BY <4>1 DEF WebIInv, WebTypeOK, Pages, Web!Count
      <4> QED BY <3>2, <2>0, <4>1, <4>2, <4>3 DEF Web!PrintKey, WebIInv, WebTypeOK, Pages, Web!Is
    <3>3. CASE Web!Printed(r)
      BY <3>3, <2>0 DEF Web!Printed, WebIInv, WebTypeOK, Pages, Web!Is
    <3> QED BY <1>7, <3>1, <3>2, <3>3
  <2>5. Counted'
    BY <1>0, <2>0, <2>1 DEF WebIInv, WebTypeOK, Wrapped, Web!Is
  <2>6. Answered'
    BY <2>0, <2>1, ZenonT(60) DEF WebIInv, WebTypeOK, Answered, Web!Is, Good
  <2>7. Logged'
    BY <2>0, <2>1 DEF WebIInv, WebTypeOK, Logged, LogOf, Began, Ended
  <2> QED BY <2>2, <2>3, <2>4, <2>5, <2>6, <2>7 DEF WebIInv
<1> QED BY <1>1, <1>2, <1>3, <1>4, <1>5, <1>6, <1>7 DEF Web!WebNext, Web!Wrap, Web!ServeHTTP

LEMMA WebRight == WebIInv => Web!GaugeCounts /\ Web!AuthAndLog
<1> SUFFICES ASSUME WebIInv PROVE Web!GaugeCounts /\ Web!AuthAndLog
  OBVIOUS
<1>1. Web!GaugeCounts
  BY Counting DEF WebIInv, Counted, Wrapped, Pages, Web!GaugeCounts
<1>2. Web!AuthAndLog
  BY DEF WebIInv, WebTypeOK, Answered, Logged, LogOf, Began, Ended, Good, Web!AuthAndLog
<1> QED BY <1>1, <1>2

-------------------------------------------------------------------------------
(***************************************************************************)
(* urlshortener.  What the search found is still so when the key is        *)
(* stored, as the request holds the mutex all the while: the URL has the   *)
(* key it is about to be given and no other, or it has none.               *)
(***************************************************************************)
ShortTypeOK ==
  /\ post \in [Posts -> {"new", "drawn", "locked", "answered", "refused"}]
  /\ url \in [Posts -> Urls \union {Bad}]
  /\ DOMAIN key = Posts
  /\ db = [k \in DOMAIN db |-> db[k]]
  /\ clash \in BOOLEAN

\* a URL has one key
OneKey == \A j, k \in DOMAIN db : db[j] = db[k] => j = k

\* the request that has the mutex
SearchHolds ==
  \A r \in Posts : post[r] = "locked" =>
    /\ mutex = r
    /\ \A k \in DOMAIN db : db[k] = url[r] => k = key[r]

\* what was answered stays so until two URLs have drawn one key
AnswersHold ==
  ~clash => \A r \in Posts : post[r] = "answered" => key[r] \in DOMAIN db /\ db[key[r]] = url[r]

ShortIInv == ShortTypeOK /\ OneKey /\ SearchHolds /\ AnswersHold

LEMMA ShortInitIInv == Short!ShortInit => ShortIInv
BY DEF Short!ShortInit, ShortIInv, ShortTypeOK, OneKey, SearchHolds, AnswersHold

LEMMA ShortNextIInv == ShortIInv /\ [Short!ShortNext]_shortvars => ShortIInv'
<1> SUFFICES ASSUME ShortIInv, [Short!ShortNext]_shortvars PROVE ShortIInv'
  OBVIOUS
<1> USE DEF ShortIInv, ShortTypeOK, OneKey, SearchHolds, AnswersHold, Short!Goes
<1>1. CASE UNCHANGED shortvars
  BY <1>1 DEF shortvars
<1>2. ASSUME NEW r \in Posts, Short!Draw(r) PROVE ShortIInv'
  BY <1>2 DEF Short!Draw
<1>3. ASSUME NEW r \in Posts, Short!Search(r) PROVE ShortIInv'
  <2>1. PICK k : /\ key' = [key EXCEPT ![r] = k]
                 /\ \A j \in DOMAIN db : db[j] = url[r] => j = k
    <3>1. PICK k \in (IF Short!Holding(url[r]) = {} THEN {key[r]} ELSE Short!Holding(url[r])) :
            key' = [key EXCEPT ![r] = k]
      BY <1>3 DEF Short!Search
    <3>2. UNCHANGED db
      BY <1>3 DEF Short!Search
    <3>3. CASE Short!Holding(url[r]) = {}
      BY <3>1, <3>3 DEF Short!Holding
    <3>4. CASE Short!Holding(url[r]) # {}
      <4>1. k \in Short!Holding(url[r])
        BY <3>1, <3>4
      <4>2. \A j \in DOMAIN db : db[j] = url[r] => j = k
        BY <4>1 DEF Short!Holding
      <4> QED BY <3>1, <4>2
    <3> QED BY <3>3, <3>4
  <2>2. \A q \in Posts : post[q] # "locked"
    BY <1>3, NoPost DEF Short!Search
  <2> QED BY <1>3, <2>1, <2>2 DEF Short!Search
<1>4. ASSUME NEW r \in Posts, Short!handlerPost(r) PROVE ShortIInv'
  <2>1. /\ \A k \in DOMAIN db : db[k] = url[r] => k = key[r]
        /\ \A q \in Posts \ {r} : post[q] # "locked"
    BY <1>4 DEF Short!handlerPost
  <2>2. /\ DOMAIN db' = DOMAIN db \union {key[r]} /\ db' = [k \in DOMAIN db' |-> db'[k]]
        /\ db'[key[r]] = url[r]
        /\ \A k \in DOMAIN db : k # key[r] => db'[k] = db[k]
    BY <1>4 DEF Short!handlerPost, Short!Put
  <2>3. /\ UNCHANGED <<url, key>> /\ post' = [post EXCEPT ![r] = "answered"]
        /\ clash' = (clash \/ (key[r] \in DOMAIN db /\ db[key[r]] # url[r]))
    BY <1>4 DEF Short!handlerPost
  <2>4. ShortTypeOK' /\ OneKey' /\ SearchHolds'
    BY <2>1, <2>2, <2>3
  <2>5. AnswersHold'
    BY <2>2, <2>3
  <2> QED BY <2>4, <2>5
<1> QED BY <1>1, <1>2, <1>3, <1>4 DEF Short!ShortNext

LEMMA ShortRight == ShortIInv => Short!ShortLinks
<1> SUFFICES ASSUME ShortIInv PROVE Short!ShortLinks
  OBVIOUS
<1> USE DEF ShortIInv, ShortTypeOK, OneKey, AnswersHold
<1>1. ASSUME NEW u \in Urls PROVE Cardinality(Short!Holding(u)) <= 1
  <2>1. CASE Short!Holding(u) = {}
    BY <2>1, FS_EmptySet
  <2>2. CASE Short!Holding(u) # {}
    <3>1. PICK k : Short!Holding(u) = {k}
      BY <2>2 DEF Short!Holding
    <3>2. Cardinality({k}) = 1
      BY FS_Singleton
    <3> QED BY <3>1, <3>2
  <2> QED BY <2>1, <2>2
<1>2. ASSUME ~clash, NEW r \in Posts, post[r] = "answered"
      PROVE  /\ Short!handlerGet(key[r]) = url[r]
             /\ \A q \in Posts : post[q] = "answered" /\ url[q] = url[r] => key[q] = key[r]
  BY <1>2 DEF Short!handlerGet
<1> QED BY <1>1, <1>2, Counting DEF Short!ShortLinks

-------------------------------------------------------------------------------
(***************************************************************************)
(* The test fixtures.  The binary a test builds is its own until it is     *)
(* stored, and what is stored is nobody's to build.  A test whose server   *)
(* may run has its cleanup registered, but for pgfixture's between Start   *)
(* and the end of its select: it leaves the select with the cleanup, or    *)
(* because the server has ended.                                           *)
(***************************************************************************)
FixTypeOK ==
  /\ test \in [FixtureTests -> {"binary", "build", "freeport", "start", "select", "ping", "returned", "failed", "ended"}]
  /\ proc \in [FixtureTests -> {"none", "starting", "up", "dead"}]
  /\ builds \in Nat /\ binary \in 0 .. builds /\ path \in [FixtureTests -> 0 .. builds]

BuildsOwn ==
  \A t \in FixtureTests :
    /\ test[t] = "binary" => path[t] = 0
    /\ test[t] = "build" =>
         /\ path[t] # 0 /\ path[t] # binary
         /\ \A u \in FixtureTests \ {t} : path[u] # path[t]
    /\ test[t] \notin {"binary", "build"} => binary # 0

ServerKilled ==
  \A t \in FixtureTests :
    /\ test[t] \in {"binary", "build", "freeport", "start"} => proc[t] = "none"
    /\ test[t] = "select" => t \in cleanup \/ fixture[t] = "pg"
    /\ test[t] = "ping" => t \in cleanup
    /\ test[t] \in {"returned", "failed"} => t \in cleanup \/ proc[t] = "dead"
    /\ test[t] = "ended" => proc[t] = "dead"

FixIInv == FixTypeOK /\ BuildsOwn /\ ServerKilled

LEMMA FixInitIInv == Fix!FixInit => FixIInv
BY DEF Fix!FixInit, FixIInv, FixTypeOK, BuildsOwn, ServerKilled

LEMMA FixNextIInv == FixIInv /\ [Fix!FixNext]_fixvars => FixIInv'
<1> SUFFICES ASSUME FixIInv, [Fix!FixNext]_fixvars PROVE FixIInv'
  OBVIOUS
<1> USE DEF FixIInv, FixTypeOK, BuildsOwn, ServerKilled, Fix!Goes, Fix!server, Fix!waits, Fix!cache
<1>1. CASE UNCHANGED fixvars
  BY <1>1 DEF fixvars
<1>2. ASSUME NEW t \in FixtureTests, Fix!GetBinary(t) PROVE FixIInv'
  BY <1>2 DEF Fix!GetBinary
<1>3. ASSUME NEW t \in FixtureTests, Fix!StoreBinary(t) PROVE FixIInv'
  BY <1>3 DEF Fix!StoreBinary
<1>4. ASSUME NEW t \in FixtureTests, Fix!GetFreePort(t) \/ Fix!Ping(t) PROVE FixIInv'
  BY <1>4 DEF Fix!GetFreePort, Fix!Ping
<1>5. ASSUME NEW t \in FixtureTests, Fix!StartServer(t) PROVE FixIInv'
  BY <1>5 DEF Fix!StartServer
<1>6. ASSUME NEW t \in FixtureTests, Fix!Server(t) PROVE FixIInv'
  BY <1>6 DEF Fix!Server
<1>7. ASSUME NEW t \in FixtureTests, Fix!Late(t) PROVE FixIInv'
  BY <1>7 DEF Fix!Late
<1>8. ASSUME NEW t \in FixtureTests, Fix!Select(t) PROVE FixIInv'
  BY <1>8 DEF Fix!Select, Fix!Fails, Fix!Finished
<1>9. ASSUME NEW t \in FixtureTests, Fix!Cleanup(t) PROVE FixIInv'
  BY <1>9 DEF Fix!Cleanup
<1> QED BY <1>1, <1>2, <1>3, <1>4, <1>5, <1>6, <1>7, <1>8, <1>9 DEF Fix!FixNext, Fix!BinCache, Fix!StartFixture

LEMMA FixRight == FixIInv => Fix!BinaryComplete /\ Fix!NoServerLeft
BY DEF FixIInv, FixTypeOK, BuildsOwn, ServerKilled, Fix!BinaryComplete, Fix!NoServerLeft

-------------------------------------------------------------------------------
(***************************************************************************)
(* The pipelines.  Each program has what its channels carry: the counter   *)
(* is as far as the squares that are out, a URL is out when its fetch has  *)
(* ended, and of each input of MergeChans as many values are out as its    *)
(* feeder has sent, but for the one its worker holds.                      *)
(***************************************************************************)
Merged == UNION {Pipe!ToSet(Inputs[w]) : w \in Pipe!Workers}
Fed(w) == IF go[Feeder[w]].at = "ended" THEN Len(Inputs[w]) ELSE go[Feeder[w]].v
Holds(w) == IF go[w].at = "out" THEN 1 ELSE 0

PipeTypeOK ==
  /\ pipe \in Pipe!Pipes
  /\ go = [p \in Pipe!Procs(pipe) |-> [at |-> go[p].at, v |-> go[p].v]]

SquaresInOrder ==
  pipe \in {"pipeline1", "pipeline2"} =>
    /\ go["counter"].at \in {"begin", "ended"} /\ go["counter"].v \in Nat
    /\ go["squarer"].at \in {"begin", "square", "close", "ended"} /\ go["printer"].at \in {"begin", "ended"}
    /\ out \in Seq(Nat) /\ out = [i \in 1 .. Len(out) |-> (i - 1) * (i - 1)]
    /\ go["squarer"].at = "square" => go["squarer"].v = Len(out)
    /\ go["counter"].at = "begin" => go["counter"].v = Len(out) + IF go["squarer"].at = "square" THEN 1 ELSE 0
    /\ "naturals" \in shutch => go["counter"].at = "ended"
    /\ "squares" \in shutch => go["squarer"].at = "ended"

DoneOnce ==
  pipe \in {"netcat3", "netcat4"} =>
    /\ go["copier"].at \in {"begin", "done", "ended"} /\ go["printer"].at \in {"begin", "copy", "fatal", "wait", "ended"}
    /\ "done" \in shutch => go["copier"].at = "ended"

FetchedOnce ==
  pipe = "fetchall" =>
    /\ \A u \in FetchUrls : go[u].at \in {"begin", "got", "failed", "ended"}
    /\ go["printer"].at \in {"begin", "ended"} /\ shutch = {}
    /\ out \in Seq(FetchUrls) /\ \A i, j \in 1 .. Len(out) : out[i] = out[j] => i = j
    /\ \A i \in 1 .. Len(out) : go[out[i]].at = "ended"

MergedInOrder ==
  pipe = "MergeChans" =>
    /\ out \in Seq(Merged)
    /\ go["closer"].at \in {"begin", "close", "ended"} /\ go["printer"].at \in {"begin", "ended"}
    /\ "out" \in shutch => go["closer"].at = "ended"
    /\ go["closer"].at # "begin" => \A w \in Pipe!Workers : go[w].at = "ended"
    /\ \A w \in Pipe!Workers :
         /\ go[Feeder[w]].at \in {"begin", "ended"} /\ go[w].at \in {"begin", "out", "ended"}
         /\ go[Feeder[w]].at = "begin" => go[Feeder[w]].v \in 0 .. Len(Inputs[w])
         /\ w \in shutch => go[Feeder[w]].at = "ended"
         /\ IsFiniteSet(Pipe!From(w)) /\ Cardinality(Pipe!From(w)) + Holds(w) = Fed(w)
         /\ go[w].at = "out" => go[w].v = Inputs[w][Fed(w)]
         /\ \A i \in Pipe!From(w) : LET k == Cardinality(Pipe!UpTo(w, i)) IN
              k \in 1 .. Len(Inputs[w]) /\ out[i] = Inputs[w][k]

PipeIInv == PipeTypeOK /\ SquaresInOrder /\ DoneOnce /\ FetchedOnce /\ MergedInOrder

LEMMA PipeInitIInv == Pipe!PipeInit => PipeIInv
<1> SUFFICES ASSUME Pipe!PipeInit PROVE PipeIInv
  OBVIOUS
<1> USE PipeNames DEF Pipe!PipeInit
<1>1. PipeTypeOK
  BY DEF PipeTypeOK
<1>2. SquaresInOrder
  BY DEF SquaresInOrder, Pipe!Procs
<1>3. DoneOnce
  BY DEF DoneOnce, Pipe!Procs
<1>4. FetchedOnce
  BY DEF FetchedOnce, Pipe!Procs
<1>5. ASSUME NEW w \in Pipe!Workers PROVE Pipe!From(w) = {}
  BY DEF Pipe!From
<1>6. MergedInOrder
  <2> SUFFICES ASSUME pipe = "MergeChans" PROVE MergedInOrder
    BY DEF MergedInOrder
  <2>1. /\ go["closer"] = [at |-> "begin", v |-> 0] /\ go["printer"] = [at |-> "begin", v |-> 0]
        /\ \A w \in Pipe!Workers : go[w] = [at |-> "begin", v |-> 0] /\ go[Feeder[w]] = [at |-> "begin", v |-> 0]
    BY DEF Pipe!Procs, Pipe!Feeders
  <2>2. \A w \in Pipe!Workers : Len(Inputs[w]) \in Nat
    OBVIOUS
  <2>3. out \in Seq(Merged)
    OBVIOUS
  <2>4. \A w \in Pipe!Workers : IsFiniteSet(Pipe!From(w)) /\ Cardinality(Pipe!From(w)) = 0
    BY <1>5, FS_EmptySet
  <2>5. \A w \in Pipe!Workers : Fed(w) = 0 /\ Holds(w) = 0
    BY <2>1 DEF Fed, Holds
  <2> HIDE DEF Pipe!PipeInit
  <2> QED BY <1>5, <2>1, <2>2, <2>3, <2>4, <2>5 DEF MergedInOrder, Pipe!PipeInit
<1> QED BY <1>1, <1>2, <1>3, <1>4, <1>6 DEF PipeIInv

(* What the goroutines of a program do next.                                 *)
LEMMA CodeOfSquares ==
  ASSUME pipe \in {"pipeline1", "pipeline2"}
  PROVE  /\ Pipe!Code("counter") = Pipe!counter(go["counter"]) /\ Pipe!Code("squarer") = Pipe!squarer(go["squarer"])
         /\ Pipe!Code("printer") = Pipe!reader("squares", go["printer"])
BY PipeNames DEF Pipe!Code

LEMMA CodeOfNetcat ==
  ASSUME pipe \in {"netcat3", "netcat4"}
  PROVE  Pipe!Code("copier") = Pipe!copier(go["copier"]) /\ Pipe!Code("printer") = Pipe!netcat(go["printer"])
BY PipeNames DEF Pipe!Code

LEMMA CodeOfFetchall ==
  ASSUME pipe = "fetchall"
  PROVE  /\ \A u \in FetchUrls : Pipe!Code(u) = Pipe!fetch(u, go[u])
         /\ Pipe!Code("printer") = Pipe!fetchall(go["printer"])
BY PipeNames DEF Pipe!Code

LEMMA CodeOfMerge ==
  ASSUME pipe = "MergeChans"
  PROVE  /\ \A w \in Pipe!Workers :
               /\ Pipe!Code(w) = Pipe!worker(w, go[w])
               /\ Pipe!Code(Feeder[w]) = LET s == go[Feeder[w]] IN
                    IF s.at = "ended" THEN {}
                    ELSE IF s.v < Len(Inputs[w]) THEN {Pipe!Send(w, Inputs[w][s.v + 1], "begin", s.v + 1)}
                    ELSE {Pipe!Close(w, "ended")}
         /\ Pipe!Code("closer") = Pipe!closer(go["closer"]) /\ Pipe!Code("printer") = Pipe!reader("out", go["printer"])
<1>1. Pipe!Code("closer") = Pipe!closer(go["closer"]) /\ Pipe!Code("printer") = Pipe!reader("out", go["printer"])
  BY PipeNames DEF Pipe!Code
<1>2. ASSUME NEW w \in Pipe!Workers PROVE Pipe!Code(w) = Pipe!worker(w, go[w])
  BY PipeNames DEF Pipe!Code
<1>3. ASSUME NEW w \in Pipe!Workers
      PROVE  Pipe!Code(Feeder[w]) = Pipe!feeder(Feeder[w], go[Feeder[w]]) /\ (CHOOSE x \in Pipe!Workers : Feeder[x] = Feeder[w]) = w
  <2>1. Feeder[w] \in Pipe!Feeders
    BY DEF Pipe!Feeders
  <2> QED BY <2>1, PipeNames DEF Pipe!Code
<1> QED BY <1>1, <1>2, <1>3 DEF Pipe!feeder

LEMMA SquaresStep ==
  ASSUME PipeTypeOK, SquaresInOrder, Pipe!PipeNext, pipe \in {"pipeline1", "pipeline2"}
  PROVE  SquaresInOrder'
<1> DEFINE c == go["counter"]  s == go["squarer"]  r == go["printer"]
<1>1. DOMAIN go = {"counter", "squarer", "printer"}
  BY DEF PipeTypeOK, Pipe!Procs
<1>2. /\ Pipe!Code("counter") = Pipe!counter(c) /\ Pipe!Code("squarer") = Pipe!squarer(s)
      /\ Pipe!Code("printer") = Pipe!reader("squares", r)
  BY CodeOfSquares
<1>a. \A i \in Pipe!counter(c) : i.do \in {"send", "close"} /\ i.ch = "naturals"
  BY DEF Pipe!counter, Pipe!Send, Pipe!Close
<1>b. \A i \in Pipe!squarer(s) :
        \/ i.do = "recv" /\ i.ch = "naturals"
        \/ i.do = "close" /\ i.ch = "squares"
        \/ s.at = "square" /\ i = [do |-> "send", ch |-> "squares", val |-> s.v * s.v, to |-> [at |-> "begin", v |-> 0]]
  BY DEF Pipe!squarer, Pipe!Send, Pipe!Recv, Pipe!Close
<1>c. \A i \in Pipe!reader("squares", r) : i = [do |-> "recv", ch |-> "squares", at |-> "begin", eof |-> "ended"]
  BY DEF Pipe!reader, Pipe!Recv
<1> USE PipeNames DEF SquaresInOrder, Pipe!Send, Pipe!Recv, Pipe!Close, Pipe!At
<1>3. CASE Pipe!Alone("counter")
  BY <1>1, <1>2, <1>3, SMTT(60) DEF Pipe!Alone, Pipe!counter
<1>4. CASE Pipe!Alone("squarer")
  BY <1>1, <1>2, <1>4, SMTT(60) DEF Pipe!Alone, Pipe!squarer
<1>5. CASE Pipe!Alone("printer")
  BY <1>1, <1>2, <1>5 DEF Pipe!Alone, Pipe!reader
<1>6. ASSUME NEW p \in DOMAIN go, NEW q \in DOMAIN go, Pipe!Meet(p, q)
      PROVE  (p = "counter" /\ q = "squarer") \/ (p = "squarer" /\ q = "printer")
  <2>1. PICK i \in Pipe!Code(p), j \in Pipe!Code(q) : i.do = "send" /\ j.do = "recv" /\ i.ch = j.ch
    BY <1>6 DEF Pipe!Meet
  <2>2. (i.ch = "naturals" /\ p = "counter") \/ (i.ch = "squares" /\ p = "squarer")
    BY <1>1, <1>2, <1>a, <1>b, <1>c, <2>1
  <2>3. (j.ch = "naturals" /\ q = "squarer") \/ (j.ch = "squares" /\ q = "printer")
    BY <1>1, <1>2, <1>a, <1>b, <1>c, <2>1
  <2> QED BY <2>1, <2>2, <2>3
<1>7. CASE Pipe!Meet("counter", "squarer")
  BY <1>1, <1>2, <1>7 DEF Pipe!Meet, Pipe!counter, Pipe!squarer
<1>8. CASE Pipe!Meet("squarer", "printer")
  <2>1. /\ s.at = "square" /\ out' = Append(out, s.v * s.v) /\ UNCHANGED <<pipe, shutch>>
        /\ go' = [go EXCEPT !["squarer"] = [at |-> "begin", v |-> 0], !["printer"] = [at |-> "begin", v |-> 0]]
    <3>1. PICK i \in Pipe!Code("squarer"), j \in Pipe!Code("printer") :
            /\ i.do = "send" /\ j.do = "recv"
            /\ go' = [go EXCEPT !["squarer"] = i.to, !["printer"] = Pipe!At(j.at, 0)]
            /\ out' = IF j.ch # "done" THEN Append(out, i.val) ELSE out
            /\ UNCHANGED <<pipe, shutch>>
      BY <1>8 DEF Pipe!Meet
    <3>2. s.at = "square" /\ i.to = [at |-> "begin", v |-> 0] /\ i.val = s.v * s.v
      BY <1>1, <1>2, <1>b, <3>1, SMTT(60)
    <3>3. j.ch = "squares" /\ j.at = "begin"
      BY <1>1, <1>2, <1>c, <3>1
    <3> QED BY <3>1, <3>2, <3>3 DEF Pipe!At
  <2>2. s.v = Len(out) /\ s.v * s.v \in Nat
    BY <2>1
  <2>3. out' = [i \in 1 .. Len(out') |-> (i - 1) * (i - 1)]
    <3>1. Len(out') = Len(out) + 1 /\ DOMAIN out' = 1 .. Len(out')
      BY <2>1, <2>2
    <3>2. \A i \in 1 .. Len(out) : out'[i] = (i - 1) * (i - 1)
      BY <2>1, <2>2
    <3>3. out'[Len(out')] = (Len(out') - 1) * (Len(out') - 1)
      BY <2>1, <2>2, <3>1
    <3>4. \A i \in 1 .. Len(out') : out'[i] = (i - 1) * (i - 1)
      BY <2>2, <3>1, <3>2, <3>3
    <3> QED BY <2>1, <3>1, <3>4, SMTT(60)
  <2>4. out \in Seq(Nat) /\ out' \in Seq(Nat) /\ Len(out') = Len(out) + 1
    BY <2>1, <2>2
  <2>5. c' = c /\ s'.at = "begin" /\ r'.at = "begin"
    BY <1>1, <2>1
  <2> QED BY <2>1, <2>2, <2>3, <2>4, <2>5
<1> QED BY <1>1, <1>3, <1>4, <1>5, <1>6, <1>7, <1>8 DEF Pipe!PipeNext

LEMMA DoneStep ==
  ASSUME PipeTypeOK, DoneOnce, Pipe!PipeNext, pipe \in {"netcat3", "netcat4"}
  PROVE  DoneOnce'
<1>1. DOMAIN go = {"copier", "printer"}
  BY DEF PipeTypeOK, Pipe!Procs
<1>2. Pipe!Code("copier") = Pipe!copier(go["copier"]) /\ Pipe!Code("printer") = Pipe!netcat(go["printer"])
  BY CodeOfNetcat
<1> USE DEF DoneOnce, Pipe!Send, Pipe!Recv, Pipe!Close, Pipe!Wait, Pipe!At
<1>3. CASE Pipe!Alone("copier")
  BY <1>1, <1>2, <1>3 DEF Pipe!Alone, Pipe!copier
<1>4. CASE Pipe!Alone("printer")
  BY <1>1, <1>2, <1>4 DEF Pipe!Alone, Pipe!netcat
<1>5. ASSUME NEW p \in DOMAIN go, NEW q \in DOMAIN go, Pipe!Meet(p, q) PROVE DoneOnce'
  BY <1>1, <1>2, <1>5 DEF Pipe!Meet, Pipe!copier, Pipe!netcat
<1> QED BY <1>1, <1>3, <1>4, <1>5 DEF Pipe!PipeNext

LEMMA FetchedStep ==
  ASSUME PipeTypeOK, FetchedOnce, Pipe!PipeNext, pipe = "fetchall"
  PROVE  FetchedOnce'
<1>1. DOMAIN go = FetchUrls \union {"printer"} /\ "printer" \notin FetchUrls
  BY PipeNames DEF PipeTypeOK, Pipe!Procs
<1>2. /\ \A u \in FetchUrls : Pipe!Code(u) = Pipe!fetch(u, go[u])
      /\ Pipe!Code("printer") = Pipe!fetchall(go["printer"])
  BY CodeOfFetchall
<1> USE DEF FetchedOnce, Pipe!Send, Pipe!Recv, Pipe!Wait, Pipe!At
<1>3. ASSUME NEW u \in FetchUrls, Pipe!Alone(u) PROVE FetchedOnce'
  BY <1>1, <1>2, <1>3, SMTT(60) DEF Pipe!Alone, Pipe!fetch
<1>4. CASE Pipe!Alone("printer")
  BY <1>1, <1>2, <1>4 DEF Pipe!Alone, Pipe!fetchall
<1>5. ASSUME NEW p \in DOMAIN go, NEW q \in DOMAIN go, Pipe!Meet(p, q) PROVE p \in FetchUrls /\ q = "printer"
  BY <1>1, <1>2, <1>5 DEF Pipe!Meet, Pipe!fetch, Pipe!fetchall
<1>6. ASSUME NEW u \in FetchUrls, Pipe!Meet(u, "printer") PROVE FetchedOnce'
  <2>1. /\ go[u].at \in {"got", "failed"} /\ out' = Append(out, u) /\ UNCHANGED <<pipe, shutch>>
        /\ go' = [go EXCEPT ![u] = [at |-> "ended", v |-> 0], !["printer"] = [at |-> "begin", v |-> 0]]
    <3>1. PICK i \in Pipe!Code(u), j \in Pipe!Code("printer") :
            /\ i.do = "send" /\ j.do = "recv"
            /\ go' = [go EXCEPT ![u] = i.to, !["printer"] = Pipe!At(j.at, 0)]
            /\ out' = IF j.ch # "done" THEN Append(out, i.val) ELSE out
            /\ UNCHANGED <<pipe, shutch>>
      BY <1>6 DEF Pipe!Meet
    <3>2. go[u].at \in {"got", "failed"} /\ i = Pipe!Send("ch", u, "ended", 0)
      BY <1>1, <1>2, <3>1 DEF Pipe!fetch
    <3>3. j = Pipe!Recv("ch", "begin", "ended")
      BY <1>1, <1>2, <3>1 DEF Pipe!fetchall
    <3> QED BY <3>1, <3>2, <3>3
  <2>2. \A i \in 1 .. Len(out) : out[i] # u
    BY <2>1
  <2> QED BY <1>1, <2>1, <2>2, SMTT(60)
<1> QED BY <1>1, <1>3, <1>4, <1>5, <1>6 DEF Pipe!PipeNext

(* A value of w more is out.                                                 *)
LEMMA OneOut ==
  ASSUME NEW w \in Pipe!Workers, NEW val \in Pipe!ToSet(Inputs[w]), NEW last,
         last = Len(out) + 1, out \in Seq(Merged), out' = Append(out, val)
  PROVE  /\ Pipe!From(w)' = Pipe!From(w) \union {last} /\ last \notin Pipe!From(w)
         /\ Pipe!UpTo(w, last)' = Pipe!From(w) \union {last}
         /\ \A i \in Pipe!From(w) : out'[i] = out[i] /\ Pipe!UpTo(w, i)' = Pipe!UpTo(w, i)
         /\ out'[last] = val /\ out' \in Seq(Merged)
         /\ \A x \in Pipe!Workers \ {w} :
              /\ Pipe!From(x)' = Pipe!From(x)
              /\ \A i \in Pipe!From(x) : out'[i] = out[i] /\ Pipe!UpTo(x, i)' = Pipe!UpTo(x, i)
<1>0. val \in Merged
  BY DEF Merged
<1>1. Len(out) \in Nat /\ Len(out') = last /\ out'[last] = val /\ out' \in Seq(Merged)
  BY <1>0
<1>2. \A i \in 1 .. Len(out) : out'[i] = out[i]
  BY <1>0
<1>3. Pipe!From(w)' = Pipe!From(w) \union {last} /\ last \notin Pipe!From(w)
  BY <1>1, <1>2 DEF Pipe!From
<1>4. Pipe!UpTo(w, last)' = Pipe!From(w) \union {last}
  <2>1. Pipe!UpTo(w, last)' = {j \in Pipe!From(w)' : j <= last}
    BY DEF Pipe!UpTo
  <2>2. \A j \in Pipe!From(w)' : j <= last
    BY <1>1 DEF Pipe!From
  <2> QED BY <1>3, <2>1, <2>2
<1>5. \A i \in Pipe!From(w) : out'[i] = out[i] /\ Pipe!UpTo(w, i)' = Pipe!UpTo(w, i)
  <2> SUFFICES ASSUME NEW i \in Pipe!From(w) PROVE out'[i] = out[i] /\ Pipe!UpTo(w, i)' = Pipe!UpTo(w, i)
    OBVIOUS
  <2>1. i \in 1 .. Len(out) /\ Pipe!From(w) \subseteq 1 .. Len(out)
    BY DEF Pipe!From
  <2>2. Pipe!UpTo(w, i)' = {j \in Pipe!From(w)' : j <= i}
    BY DEF Pipe!UpTo
  <2>3. Pipe!UpTo(w, i)' = {j \in Pipe!From(w) : j <= i}
    BY <1>1, <1>3, <2>1, <2>2
  <2> QED BY <1>2, <2>1, <2>3 DEF Pipe!UpTo
<1>6. ASSUME NEW x \in Pipe!Workers \ {w}
      PROVE  /\ Pipe!From(x)' = Pipe!From(x)
             /\ \A i \in Pipe!From(x) : out'[i] = out[i] /\ Pipe!UpTo(x, i)' = Pipe!UpTo(x, i)
  <2>1. val \notin Pipe!ToSet(Inputs[x])
    BY PipeNames
  <2>2. Pipe!From(x)' = Pipe!From(x)
    BY <1>1, <1>2, <2>1 DEF Pipe!From
  <2>3. ASSUME NEW i \in Pipe!From(x) PROVE Pipe!UpTo(x, i)' = {j \in Pipe!From(x)' : j <= i}
    BY DEF Pipe!UpTo
  <2>4. \A i \in Pipe!From(x) : Pipe!UpTo(x, i)' = Pipe!UpTo(x, i)
    BY <2>2, <2>3 DEF Pipe!UpTo
  <2> QED BY <1>2, <2>2, <2>4 DEF Pipe!From
<1> QED BY <1>1, <1>3, <1>4, <1>5, <1>6

(* Nothing more is out.                                                      *)
LEMMA NoneOut ==
  ASSUME UNCHANGED out
  PROVE  \A w \in Pipe!Workers : Pipe!From(w)' = Pipe!From(w) /\ \A i \in Pipe!From(w) : Pipe!UpTo(w, i)' = Pipe!UpTo(w, i)
<1>1. \A w \in Pipe!Workers : Pipe!From(w)' = Pipe!From(w)
  BY DEF Pipe!From
<1>2. ASSUME NEW w \in Pipe!Workers, NEW i \in Pipe!From(w) PROVE Pipe!UpTo(w, i)' = {j \in Pipe!From(w)' : j <= i}
  BY DEF Pipe!UpTo
<1> QED BY <1>1, <1>2 DEF Pipe!UpTo

(* What the goroutines of MergeChans may do, and with whom.                  *)
MergeAlone(p) ==
  \/ \E w \in Pipe!Workers : p = Feeder[w] /\ go[p].at # "ended" /\ ~(go[p].v < Len(Inputs[w]))
       /\ go' = [go EXCEPT ![p] = [at |-> "ended", v |-> 0]] /\ shutch' = shutch \union {w}
  \/ p \in Pipe!Workers /\ go[p].at = "begin" /\ p \in shutch
       /\ go' = [go EXCEPT ![p] = [at |-> "ended", v |-> 0]] /\ UNCHANGED shutch
  \/ p = "closer" /\ go[p].at = "begin" /\ (\A w \in Pipe!Workers : go[w].at = "ended")
       /\ go' = [go EXCEPT ![p] = [at |-> "close", v |-> 0]] /\ UNCHANGED shutch
  \/ p = "closer" /\ go[p].at = "close" /\ go' = [go EXCEPT ![p] = [at |-> "ended", v |-> 0]]
       /\ shutch' = shutch \union {"out"}
  \/ p = "printer" /\ go' = [go EXCEPT ![p] = [at |-> "ended", v |-> 0]] /\ UNCHANGED shutch

LEMMA MergeAlones ==
  ASSUME pipe = "MergeChans", PipeTypeOK, MergedInOrder, NEW p \in DOMAIN go, Pipe!Alone(p)
  PROVE  MergeAlone(p) /\ UNCHANGED <<pipe, out>>
<1>1. DOMAIN go = Pipe!Workers \union Pipe!Feeders \union {"closer", "printer"}
  BY DEF PipeTypeOK, Pipe!Procs
<1>0. PICK i \in Pipe!Code(p) :
        /\ \/ i.do = "close" /\ i.ch \notin shutch /\ go' = [go EXCEPT ![p] = [at |-> i.at, v |-> 0]]
              /\ shutch' = shutch \union {i.ch}
           \/ i.do = "recv" /\ i.ch \in shutch /\ go' = [go EXCEPT ![p] = [at |-> i.eof, v |-> 0]] /\ UNCHANGED shutch
           \/ i.do = "wait" /\ (\A q \in i.for : go[q].at = "ended") /\ go' = [go EXCEPT ![p] = [at |-> i.at, v |-> 0]]
              /\ UNCHANGED shutch
        /\ UNCHANGED <<pipe, out>>
  BY DEF Pipe!Alone, Pipe!At
<1> USE <1>0, CodeOfMerge DEF Pipe!Send, Pipe!Recv, Pipe!Close, Pipe!Wait, MergeAlone
<1>2. CASE p \in Pipe!Workers
  <2>1. (go[p].at = "begin" /\ i = Pipe!Recv(p, "out", "ended")) \/ i.do = "send"
    <3>1. i \in Pipe!worker(p, go[p])
      BY <1>2
    <3> QED BY ONLY <3>1 DEF Pipe!worker, Pipe!Send, Pipe!Recv
  <2> QED BY <1>2, <2>1
<1>3. CASE p \in Pipe!Feeders
  <2>1. PICK w \in Pipe!Workers : p = Feeder[w]
    BY <1>3 DEF Pipe!Feeders
  <2>2. Pipe!Code(p) = IF go[p].at = "ended" THEN {}
                       ELSE IF go[p].v < Len(Inputs[w]) THEN {Pipe!Send(w, Inputs[w][go[p].v + 1], "begin", go[p].v + 1)}
                       ELSE {Pipe!Close(w, "ended")}
    BY <2>1
  <2>3. i.do = "send" \/ (go[p].at # "ended" /\ ~(go[p].v < Len(Inputs[w])) /\ i = Pipe!Close(w, "ended"))
    BY <2>2
  <2> QED BY <2>1, <2>3
<1>4. CASE p = "closer"
  BY <1>4 DEF Pipe!closer
<1>5. CASE p = "printer"
  BY <1>5 DEF Pipe!reader
<1> QED BY <1>1, <1>2, <1>3, <1>4, <1>5

LEMMA MergeNames ==
  /\ \A w \in Pipe!Workers : w \notin {"closer", "printer", "out"} \union Pipe!Feeders /\ Len(Inputs[w]) \in Nat
  /\ \A w \in Pipe!Workers : Feeder[w] \in Pipe!Feeders /\ Feeder[w] \notin {"closer", "printer", "out"}
  /\ \A w, x \in Pipe!Workers : w # x => Feeder[w] # Feeder[x]
BY PipeNames DEF Pipe!Feeders

LEMMA MergeAloneStep ==
  ASSUME pipe = "MergeChans", PipeTypeOK, MergedInOrder, NEW p \in DOMAIN go, Pipe!Alone(p)
  PROVE  MergedInOrder'
<1>1. MergeAlone(p) /\ UNCHANGED <<pipe, out>>
  BY MergeAlones
<1>2. DOMAIN go = Pipe!Workers \union Pipe!Feeders \union {"closer", "printer"}
  BY DEF PipeTypeOK, Pipe!Procs
<1>3. /\ \A w \in Pipe!Workers : w \notin {"closer", "printer", "out"} \union Pipe!Feeders /\ Len(Inputs[w]) \in Nat
      /\ \A w \in Pipe!Workers : Feeder[w] \in Pipe!Feeders /\ Feeder[w] \notin {"closer", "printer", "out"}
      /\ \A w, x \in Pipe!Workers : w # x => Feeder[w] # Feeder[x]
  BY MergeNames
<1>4. \A w \in Pipe!Workers : Pipe!From(w)' = Pipe!From(w) /\ \A i \in Pipe!From(w) : Pipe!UpTo(w, i)' = Pipe!UpTo(w, i)
  BY <1>1, NoneOut
<1> USE <1>1, <1>2, <1>3
<1>5. /\ go'["closer"].at \in {"begin", "close", "ended"} /\ go'["printer"].at \in {"begin", "ended"}
      /\ "out" \in shutch' => go'["closer"].at = "ended"
      /\ go'["closer"].at # "begin" => \A w \in Pipe!Workers : go'[w].at = "ended"
  BY DEF MergedInOrder, MergeAlone
<1>6. ASSUME NEW w \in Pipe!Workers
      PROVE  /\ go'[Feeder[w]].at \in {"begin", "ended"} /\ go'[w].at \in {"begin", "out", "ended"}
             /\ go'[Feeder[w]].at = "begin" => go'[Feeder[w]].v \in 0 .. Len(Inputs[w])
             /\ w \in shutch' => go'[Feeder[w]].at = "ended"
  BY DEF MergedInOrder, MergeAlone
<1>7. ASSUME NEW w \in Pipe!Workers
      PROVE  Holds(w)' = Holds(w) /\ Fed(w)' = Fed(w) /\ (go'[w].at = "out" => go'[w] = go[w] /\ go[w].at = "out")
  <2>1. CASE p = Feeder[w]
    BY <2>1 DEF MergedInOrder, MergeAlone, Holds, Fed
  <2>2. CASE p # Feeder[w]
    BY <2>2 DEF MergedInOrder, MergeAlone, Holds, Fed
  <2> QED BY <2>1, <2>2
<1> QED BY <1>4, <1>5, <1>6, <1>7 DEF MergedInOrder

LEMMA MergeMeets ==
  ASSUME pipe = "MergeChans", PipeTypeOK, MergedInOrder, NEW p \in DOMAIN go, NEW q \in DOMAIN go, Pipe!Meet(p, q)
  PROVE  /\ UNCHANGED <<pipe, shutch>>
         /\ \E w \in Pipe!Workers :
              \/ /\ p = Feeder[w] /\ q = w /\ go[p].at = "begin" /\ go[p].v < Len(Inputs[w]) /\ go[q].at = "begin"
                 /\ go' = [go EXCEPT ![p] = [at |-> "begin", v |-> go[p].v + 1],
                                     ![q] = [at |-> "out", v |-> Inputs[w][go[p].v + 1]]]
                 /\ UNCHANGED out
              \/ /\ p = w /\ q = "printer" /\ go[p].at = "out"
                 /\ go' = [go EXCEPT ![p] = [at |-> "begin", v |-> 0], ![q] = [at |-> "begin", v |-> 0]]
                 /\ out' = Append(out, go[w].v)
<1>1. DOMAIN go = Pipe!Workers \union Pipe!Feeders \union {"closer", "printer"}
  BY DEF PipeTypeOK, Pipe!Procs
<1>2. /\ \A w \in Pipe!Workers : w \notin {"closer", "printer", "out"} \union Pipe!Feeders
      /\ \A w \in Pipe!Workers : Feeder[w] \in Pipe!Feeders /\ Feeder[w] \notin {"closer", "printer", "out"}
      /\ "printer" \notin Pipe!Feeders
  BY PipeNames DEF Pipe!Feeders
<1>3. PICK i \in Pipe!Code(p), j \in Pipe!Code(q) :
        /\ i.do = "send" /\ j.do = "recv" /\ i.ch = j.ch
        /\ go' = [go EXCEPT ![p] = i.to, ![q] = [at |-> j.at, v |-> IF q = "printer" THEN 0 ELSE i.val]]
        /\ out' = IF q = "printer" /\ j.ch # "done" THEN Append(out, i.val) ELSE out
        /\ UNCHANGED <<pipe, shutch>>
  BY DEF Pipe!Meet, Pipe!At
<1>4. \/ \E w \in Pipe!Workers : p = Feeder[w] /\ go[p].at = "begin" /\ go[p].v < Len(Inputs[w])
           /\ i = [do |-> "send", ch |-> w, val |-> Inputs[w][go[p].v + 1], to |-> [at |-> "begin", v |-> go[p].v + 1]]
      \/ p \in Pipe!Workers /\ go[p].at = "out"
           /\ i = [do |-> "send", ch |-> "out", val |-> go[p].v, to |-> [at |-> "begin", v |-> 0]]
  <2>1. CASE p \in Pipe!Workers
    <3>1. i \in Pipe!worker(p, go[p])
      BY <2>1, CodeOfMerge
    <3>2. go[p].at = "out" /\ i = Pipe!Send("out", go[p].v, "begin", 0)
      BY <3>1, <1>3 DEF Pipe!worker, Pipe!Recv
    <3> QED BY <2>1, <3>2 DEF Pipe!Send
  <2>2. CASE p \in Pipe!Feeders
    <3>1. PICK w \in Pipe!Workers : p = Feeder[w]
      BY <2>2 DEF Pipe!Feeders
    <3>2. i \in LET s == go[p] IN
                IF s.at = "ended" THEN {}
                ELSE IF s.v < Len(Inputs[w]) THEN {Pipe!Send(w, Inputs[w][s.v + 1], "begin", s.v + 1)}
                ELSE {Pipe!Close(w, "ended")}
      BY <3>1, CodeOfMerge
    <3>3. go[p].at \in {"begin", "ended"}
      BY <3>1 DEF MergedInOrder
    <3> QED BY <1>3, <3>1, <3>2, <3>3 DEF Pipe!Send, Pipe!Close
  <2>3. CASE p = "closer"
    BY <1>3, <2>3, CodeOfMerge DEF Pipe!closer, Pipe!Wait, Pipe!Close
  <2>4. CASE p = "printer"
    BY <1>3, <2>4, CodeOfMerge DEF Pipe!reader, Pipe!Recv
  <2> QED BY <1>1, <2>1, <2>2, <2>3, <2>4
<1>5. \/ q \in Pipe!Workers /\ go[q].at = "begin" /\ j = [do |-> "recv", ch |-> q, at |-> "out", eof |-> "ended"]
      \/ q = "printer" /\ j = [do |-> "recv", ch |-> "out", at |-> "begin", eof |-> "ended"]
  <2>1. CASE q \in Pipe!Workers
    <3>1. j \in Pipe!worker(q, go[q])
      BY <2>1, CodeOfMerge
    <3>2. go[q].at = "begin" /\ j = Pipe!Recv(q, "out", "ended")
      BY <3>1, <1>3 DEF Pipe!worker, Pipe!Send
    <3> QED BY <2>1, <3>2 DEF Pipe!Recv
  <2>2. CASE q \in Pipe!Feeders
    <3>1. PICK w \in Pipe!Workers : q = Feeder[w]
      BY <2>2 DEF Pipe!Feeders
    <3>2. j \in LET s == go[q] IN
                IF s.at = "ended" THEN {}
                ELSE IF s.v < Len(Inputs[w]) THEN {Pipe!Send(w, Inputs[w][s.v + 1], "begin", s.v + 1)}
                ELSE {Pipe!Close(w, "ended")}
      BY <3>1, CodeOfMerge
    <3> QED BY <1>3, <3>2 DEF Pipe!Send, Pipe!Close
  <2>3. CASE q = "closer"
    BY <1>3, <2>3, CodeOfMerge DEF Pipe!closer, Pipe!Wait, Pipe!Close
  <2>4. CASE q = "printer"
    BY <1>3, <2>4, CodeOfMerge DEF Pipe!reader, Pipe!Recv
  <2> QED BY <1>1, <2>1, <2>2, <2>3, <2>4
<1>6. CASE p \in Pipe!Workers
  <2>1. go[p].at = "out" /\ i = [do |-> "send", ch |-> "out", val |-> go[p].v, to |-> [at |-> "begin", v |-> 0]]
    BY <1>2, <1>4, <1>6
  <2>2. q = "printer" /\ j = [do |-> "recv", ch |-> "out", at |-> "begin", eof |-> "ended"]
    BY <1>2, <1>3, <1>5, <2>1
  <2>3. /\ go' = [go EXCEPT ![p] = [at |-> "begin", v |-> 0], ![q] = [at |-> "begin", v |-> 0]]
        /\ out' = Append(out, go[p].v)
    BY <1>3, <2>1, <2>2
  <2> QED BY <1>3, <1>6, <2>1, <2>2, <2>3
<1>7. CASE p \notin Pipe!Workers
  <2>1. PICK w \in Pipe!Workers : p = Feeder[w] /\ go[p].at = "begin" /\ go[p].v < Len(Inputs[w])
           /\ i = [do |-> "send", ch |-> w, val |-> Inputs[w][go[p].v + 1], to |-> [at |-> "begin", v |-> go[p].v + 1]]
    BY <1>4, <1>7
  <2>2. q = w /\ j = [do |-> "recv", ch |-> q, at |-> "out", eof |-> "ended"] /\ go[q].at = "begin" /\ q # "printer"
    BY <1>2, <1>3, <1>5, <2>1
  <2>3. go' = [go EXCEPT ![p] = [at |-> "begin", v |-> go[p].v + 1], ![q] = [at |-> "out", v |-> Inputs[w][go[p].v + 1]]]
        /\ UNCHANGED out
    BY <1>3, <2>1, <2>2
  <2> QED BY <1>3, <2>1, <2>2, <2>3
<1> QED BY <1>6, <1>7

LEMMA MergeMeetStep ==
  ASSUME pipe = "MergeChans", PipeTypeOK, MergedInOrder, NEW p \in DOMAIN go, NEW q \in DOMAIN go, Pipe!Meet(p, q)
  PROVE  MergedInOrder'
<1>1. DOMAIN go = Pipe!Workers \union Pipe!Feeders \union {"closer", "printer"} /\ UNCHANGED <<pipe, shutch>>
  BY MergeMeets DEF PipeTypeOK, Pipe!Procs
<1>2. /\ \A w \in Pipe!Workers : w \notin {"closer", "printer", "out"} \union Pipe!Feeders /\ Len(Inputs[w]) \in Nat
      /\ \A w \in Pipe!Workers : Feeder[w] \in Pipe!Feeders /\ Feeder[w] \notin {"closer", "printer", "out"}
      /\ \A w, x \in Pipe!Workers : w # x => Feeder[w] # Feeder[x]
  BY MergeNames
<1> USE <1>1, <1>2
<1>3. ASSUME NEW w \in Pipe!Workers, p = Feeder[w], q = w, go[p].at = "begin", go[p].v < Len(Inputs[w]), go[q].at = "begin",
             go' = [go EXCEPT ![p] = [at |-> "begin", v |-> go[p].v + 1], ![q] = [at |-> "out", v |-> Inputs[w][go[p].v + 1]]],
             UNCHANGED out
      PROVE  MergedInOrder'
  <2>1. \A x \in Pipe!Workers : Pipe!From(x)' = Pipe!From(x) /\ \A i \in Pipe!From(x) : Pipe!UpTo(x, i)' = Pipe!UpTo(x, i)
    BY <1>3, NoneOut
  <2>2. go'[p] = [at |-> "begin", v |-> go[p].v + 1] /\ go'[q] = [at |-> "out", v |-> Inputs[w][go[p].v + 1]]
    BY <1>3
  <2>3. \A r \in DOMAIN go \ {p, q} : go'[r] = go[r]
    BY <1>3
  <2>4. go[p].v \in Nat /\ w \notin shutch /\ go["closer"].at = "begin"
    BY <1>3 DEF MergedInOrder
  <2>5. Holds(w) = 0 /\ Holds(w)' = 1 /\ Fed(w) = go[p].v /\ Fed(w)' = go[p].v + 1
    BY <1>3, <2>2 DEF Holds, Fed
  <2>6. \A x \in Pipe!Workers \ {w} : Holds(x)' = Holds(x) /\ Fed(x)' = Fed(x) /\ go'[x] = go[x] /\ go'[Feeder[x]] = go[Feeder[x]]
    BY <1>3, <2>3 DEF Holds, Fed
  <2>7. go'["closer"] = go["closer"] /\ go'["printer"] = go["printer"]
    BY <1>3, <2>3
  <2>8. Cardinality(Pipe!From(w)) = go[p].v
    BY <2>4, <2>5, FS_CardinalityType, <1>3 DEF MergedInOrder
  <2>9. ASSUME NEW x \in Pipe!Workers, x # w
        PROVE  /\ go'[Feeder[x]].at \in {"begin", "ended"} /\ go'[x].at \in {"begin", "out", "ended"}
               /\ go'[Feeder[x]].at = "begin" => go'[Feeder[x]].v \in 0 .. Len(Inputs[x])
               /\ x \in shutch' => go'[Feeder[x]].at = "ended"
               /\ go'[x].at = "out" => go'[x].v = Inputs[x][Fed(x)']
    BY <2>6, <2>9 DEF MergedInOrder
  <2>10. /\ go'[Feeder[w]].at = "begin" /\ go'[w].at = "out" /\ go'[Feeder[w]].v \in 0 .. Len(Inputs[w])
         /\ go'[w].v = Inputs[w][Fed(w)']
    BY <1>3, <2>2, <2>4, <2>5
  <2>11. ASSUME NEW x \in Pipe!Workers
         PROVE  IsFiniteSet(Pipe!From(x)') /\ Cardinality(Pipe!From(x)') + Holds(x)' = Fed(x)'
    <3>1. IsFiniteSet(Pipe!From(x)) /\ Cardinality(Pipe!From(x)) + Holds(x) = Fed(x)
      BY DEF MergedInOrder
    <3> QED BY <2>1, <2>4, <2>5, <2>6, <2>8, <3>1
  <2>12. ASSUME NEW x \in Pipe!Workers, NEW i \in Pipe!From(x)'
         PROVE  Cardinality(Pipe!UpTo(x, i)') \in 1 .. Len(Inputs[x]) /\ out'[i] = Inputs[x][Cardinality(Pipe!UpTo(x, i)')]
    BY <1>3, <2>1 DEF MergedInOrder
  <2>13. go'["closer"].at = "begin" /\ go'["printer"].at \in {"begin", "ended"} /\ "out" \notin shutch' /\ out' \in Seq(Merged)
    BY <1>3, <2>4, <2>7 DEF MergedInOrder
  <2>14. ASSUME NEW x \in Pipe!Workers
         PROVE  /\ go'[Feeder[x]].at \in {"begin", "ended"} /\ go'[x].at \in {"begin", "out", "ended"}
                /\ go'[Feeder[x]].at = "begin" => go'[Feeder[x]].v \in 0 .. Len(Inputs[x])
                /\ x \in shutch' => go'[Feeder[x]].at = "ended"
                /\ go'[x].at = "out" => go'[x].v = Inputs[x][Fed(x)']
    BY <2>4, <2>9, <2>10
  <2> HIDE <1>1, <1>2
  <2> QED BY <2>11, <2>12, <2>13, <2>14 DEF MergedInOrder
<1>4. ASSUME NEW w \in Pipe!Workers, p = w, q = "printer", go[p].at = "out",
             go' = [go EXCEPT ![p] = [at |-> "begin", v |-> 0], ![q] = [at |-> "begin", v |-> 0]],
             out' = Append(out, go[w].v)
      PROVE  MergedInOrder'
  <2>0. PICK last : last = Len(out) + 1
    OBVIOUS
  <2>1. /\ out \in Seq(Merged) /\ IsFiniteSet(Pipe!From(w)) /\ Cardinality(Pipe!From(w)) + 1 = Fed(w) /\ go[w].v = Inputs[w][Fed(w)]
        /\ go["closer"].at = "begin"
    BY <1>4 DEF MergedInOrder, Holds
  <2>2. Fed(w) \in 1 .. Len(Inputs[w]) /\ Cardinality(Pipe!From(w)) \in Nat
    BY <2>1, FS_CardinalityType DEF Fed, MergedInOrder
  <2>3. go[w].v \in Pipe!ToSet(Inputs[w])
    BY <2>1, <2>2, PipeNames DEF Pipe!ToSet
  <2>a. PICK val \in Pipe!ToSet(Inputs[w]) : val = go[w].v
    BY <2>3
  <2>b. out' = Append(out, val)
    BY <1>4, <2>a
  <2>4. /\ Pipe!From(w)' = Pipe!From(w) \union {last} /\ last \notin Pipe!From(w)
        /\ Pipe!UpTo(w, last)' = Pipe!From(w) \union {last}
        /\ \A i \in Pipe!From(w) : out'[i] = out[i] /\ Pipe!UpTo(w, i)' = Pipe!UpTo(w, i)
        /\ out'[last] = go[w].v /\ out' \in Seq(Merged)
        /\ \A x \in Pipe!Workers \ {w} :
              /\ Pipe!From(x)' = Pipe!From(x)
              /\ \A i \in Pipe!From(x) : out'[i] = out[i] /\ Pipe!UpTo(x, i)' = Pipe!UpTo(x, i)
    <3>1. /\ Pipe!From(w)' = Pipe!From(w) \union {last} /\ last \notin Pipe!From(w)
          /\ Pipe!UpTo(w, last)' = Pipe!From(w) \union {last}
          /\ \A i \in Pipe!From(w) : out'[i] = out[i] /\ Pipe!UpTo(w, i)' = Pipe!UpTo(w, i)
          /\ out'[last] = val /\ out' \in Seq(Merged)
          /\ \A x \in Pipe!Workers \ {w} :
                /\ Pipe!From(x)' = Pipe!From(x)
                /\ \A i \in Pipe!From(x) : out'[i] = out[i] /\ Pipe!UpTo(x, i)' = Pipe!UpTo(x, i)
      BY <2>0, <2>1, <2>b, OneOut DEF Pipe!From, Pipe!UpTo
    <3> QED BY <2>a, <3>1
  <2>5. IsFiniteSet(Pipe!From(w)') /\ Cardinality(Pipe!From(w)') = Fed(w)
    BY <2>1, <2>2, <2>4, OneMore
  <2>6. go'[w] = [at |-> "begin", v |-> 0] /\ go'["printer"].at = "begin" /\ \A r \in DOMAIN go \ {w, "printer"} : go'[r] = go[r]
    BY <1>4
  <2>7. Holds(w)' = 0 /\ Fed(w)' = Fed(w)
    BY <2>6 DEF Holds, Fed
  <2>8. \A x \in Pipe!Workers \ {w} : Holds(x)' = Holds(x) /\ Fed(x)' = Fed(x) /\ go'[x] = go[x]
    BY <2>6 DEF Holds, Fed
  <2>9. go'["closer"] = go["closer"] /\ \A x \in Pipe!Workers : go'[Feeder[x]] = go[Feeder[x]]
    BY <2>6
  <2>10. \A i \in Pipe!From(w)' : Cardinality(Pipe!UpTo(w, i)') \in 1 .. Len(Inputs[w])
                                  /\ out'[i] = Inputs[w][Cardinality(Pipe!UpTo(w, i)')]
    <3>1. ASSUME NEW i \in Pipe!From(w) PROVE Cardinality(Pipe!UpTo(w, i)') \in 1 .. Len(Inputs[w])
                                  /\ out'[i] = Inputs[w][Cardinality(Pipe!UpTo(w, i)')]
      BY <2>4, <3>1 DEF MergedInOrder
    <3>2. Pipe!UpTo(w, last)' = Pipe!From(w)'
      BY <2>4
    <3>3. Cardinality(Pipe!UpTo(w, last)') \in 1 .. Len(Inputs[w]) /\ out'[last] = Inputs[w][Cardinality(Pipe!UpTo(w, last)')]
      BY <2>1, <2>2, <2>4, <2>5, <3>2
    <3> QED BY <2>4, <3>1, <3>3
  <2>11. ASSUME NEW x \in Pipe!Workers
         PROVE  /\ go'[Feeder[x]].at \in {"begin", "ended"} /\ go'[x].at \in {"begin", "out", "ended"}
                /\ go'[Feeder[x]].at = "begin" => go'[Feeder[x]].v \in 0 .. Len(Inputs[x])
                /\ x \in shutch' => go'[Feeder[x]].at = "ended"
                /\ go'[x].at = "out" => go'[x].v = Inputs[x][Fed(x)']
    BY <2>6, <2>8, <2>9 DEF MergedInOrder
  <2>12. ASSUME NEW x \in Pipe!Workers
         PROVE  IsFiniteSet(Pipe!From(x)') /\ Cardinality(Pipe!From(x)') + Holds(x)' = Fed(x)'
    <3>1. IsFiniteSet(Pipe!From(x)) /\ Cardinality(Pipe!From(x)) + Holds(x) = Fed(x)
      BY DEF MergedInOrder
    <3>2. CASE x = w
      BY <2>2, <2>5, <2>7, <3>2, <1>2 DEF Fed
    <3>3. CASE x # w
      BY <2>4, <2>8, <3>1, <3>3
    <3> QED BY <3>2, <3>3
  <2>13. ASSUME NEW x \in Pipe!Workers \ {w}, NEW i \in Pipe!From(x)'
         PROVE  Cardinality(Pipe!UpTo(x, i)') \in 1 .. Len(Inputs[x]) /\ out'[i] = Inputs[x][Cardinality(Pipe!UpTo(x, i)')]
    BY <2>4 DEF MergedInOrder
  <2>14. go'["closer"].at = "begin" /\ go'["printer"].at = "begin" /\ "out" \notin shutch'
    BY <2>1, <2>6, <2>9 DEF MergedInOrder
  <2> QED BY <2>4, <2>10, <2>11, <2>12, <2>13, <2>14 DEF MergedInOrder
<1>5. PICK w \in Pipe!Workers :
        \/ /\ p = Feeder[w] /\ q = w /\ go[p].at = "begin" /\ go[p].v < Len(Inputs[w]) /\ go[q].at = "begin"
           /\ go' = [go EXCEPT ![p] = [at |-> "begin", v |-> go[p].v + 1], ![q] = [at |-> "out", v |-> Inputs[w][go[p].v + 1]]]
           /\ UNCHANGED out
        \/ /\ p = w /\ q = "printer" /\ go[p].at = "out"
           /\ go' = [go EXCEPT ![p] = [at |-> "begin", v |-> 0], ![q] = [at |-> "begin", v |-> 0]]
           /\ out' = Append(out, go[w].v)
  BY MergeMeets
<1> QED BY <1>3, <1>4, <1>5

LEMMA PipeTypeStep == PipeTypeOK /\ Pipe!PipeNext => PipeTypeOK' /\ UNCHANGED pipe
<1> SUFFICES ASSUME PipeTypeOK, Pipe!PipeNext PROVE PipeTypeOK' /\ UNCHANGED pipe
  OBVIOUS
<1>1. ASSUME NEW p \in DOMAIN go, NEW place, go' = [go EXCEPT ![p] = [at |-> place, v |-> 0]], UNCHANGED pipe
      PROVE  PipeTypeOK'
  BY <1>1 DEF PipeTypeOK
<1>2. ASSUME NEW p \in DOMAIN go, Pipe!Alone(p) PROVE PipeTypeOK' /\ UNCHANGED pipe
  BY <1>1, <1>2 DEF Pipe!Alone, Pipe!At
<1>3. ASSUME NEW p \in DOMAIN go, NEW q \in DOMAIN go, Pipe!Meet(p, q) PROVE PipeTypeOK' /\ UNCHANGED pipe
  <2>1. PICK i \in Pipe!Code(p), j \in Pipe!Code(q) :
          /\ i.do = "send" /\ go' = [go EXCEPT ![p] = i.to, ![q] = Pipe!At(j.at, IF q = "printer" THEN 0 ELSE i.val)]
          /\ UNCHANGED pipe
    BY <1>3 DEF Pipe!Meet
  <2>2. i.to = [at |-> i.to.at, v |-> i.to.v]
    <3> USE <2>1 DEF Pipe!Send, Pipe!Recv, Pipe!Close, Pipe!Wait
    <3>1. CASE i \in Pipe!counter(go[p])
      BY <3>1 DEF Pipe!counter
    <3>2. CASE i \in Pipe!squarer(go[p])
      BY <3>2 DEF Pipe!squarer
    <3>3. CASE i \in Pipe!copier(go[p])
      BY <3>3 DEF Pipe!copier
    <3>4. CASE i \in Pipe!fetch(p, go[p])
      BY <3>4 DEF Pipe!fetch
    <3>5. CASE i \in Pipe!worker(p, go[p])
      BY <3>5 DEF Pipe!worker
    <3>6. CASE i \in Pipe!closer(go[p])
      BY <3>6 DEF Pipe!closer
    <3>7. CASE i \in Pipe!feeder(p, go[p])
      BY <3>7 DEF Pipe!feeder
    <3>8. CASE p = "printer" /\ i \in Pipe!Code(p)
      BY <3>8, PipeNames DEF Pipe!Code, Pipe!reader, Pipe!fetchall, Pipe!netcat
    <3> QED BY <3>1, <3>2, <3>3, <3>4, <3>5, <3>6, <3>7, <3>8 DEF Pipe!Code
  <2> QED BY <2>1, <2>2 DEF PipeTypeOK, Pipe!At
<1> QED BY <1>2, <1>3 DEF Pipe!PipeNext

LEMMA PipeNextIInv == PipeIInv /\ [Pipe!PipeNext]_pipevars => PipeIInv'
<1> SUFFICES ASSUME PipeIInv, [Pipe!PipeNext]_pipevars PROVE PipeIInv'
  OBVIOUS
<1>1. CASE UNCHANGED pipevars
  <2>1. \A w \in Pipe!Workers : Pipe!From(w)' = Pipe!From(w) /\ \A i \in Pipe!From(w) : Pipe!UpTo(w, i)' = Pipe!UpTo(w, i)
    BY <1>1, NoneOut DEF pipevars
  <2>2. \A w \in Pipe!Workers : Fed(w)' = Fed(w) /\ Holds(w)' = Holds(w)
    BY <1>1 DEF pipevars, Fed, Holds
  <2>3. MergedInOrder'
    BY <1>1, <2>1, <2>2 DEF PipeIInv, MergedInOrder, pipevars
  <2> QED BY <1>1, <2>3 DEF PipeIInv, PipeTypeOK, SquaresInOrder, DoneOnce, FetchedOnce, pipevars
<1>2. CASE Pipe!PipeNext
  <2>1. PipeTypeOK' /\ UNCHANGED pipe
    BY <1>2, PipeTypeStep DEF PipeIInv
  <2>2. CASE pipe = "MergeChans"
    <3>1. MergedInOrder'
      BY <1>2, <2>2, MergeAloneStep, MergeMeetStep DEF PipeIInv, Pipe!PipeNext
    <3> QED BY <2>1, <2>2, <3>1 DEF PipeIInv, SquaresInOrder, DoneOnce, FetchedOnce
  <2>3. CASE pipe = "fetchall"
    BY <1>2, <2>1, <2>3, FetchedStep DEF PipeIInv, SquaresInOrder, DoneOnce, MergedInOrder
  <2>4. CASE pipe \in {"netcat3", "netcat4"}
    BY <1>2, <2>1, <2>4, DoneStep DEF PipeIInv, SquaresInOrder, FetchedOnce, MergedInOrder
  <2>5. CASE pipe \in {"pipeline1", "pipeline2"}
    BY <1>2, <2>1, <2>5, SquaresStep DEF PipeIInv, DoneOnce, FetchedOnce, MergedInOrder
  <2> QED BY <2>2, <2>3, <2>4, <2>5 DEF PipeIInv, PipeTypeOK, Pipe!Pipes
<1> QED BY <1>1, <1>2

LEMMA PipeRight == PipeIInv => Pipe!PipesRight
<1> SUFFICES ASSUME PipeIInv PROVE Pipe!PipesRight
  OBVIOUS
<1> USE DEF PipeIInv
<1>1. ASSUME NEW p \in DOMAIN go, NEW i \in Pipe!Code(p), i.do \in {"send", "close"} PROVE i.ch \notin shutch
  <2> USE <1>1 DEF Pipe!Send, Pipe!Recv, Pipe!Close, Pipe!Wait
  <2>1. CASE pipe \in {"pipeline1", "pipeline2"}
    <3>1. DOMAIN go = {"counter", "squarer", "printer"}
      BY <2>1 DEF PipeTypeOK, Pipe!Procs
    <3>2. CASE p = "counter"
      <4>1. i \in Pipe!counter(go[p])
        BY <2>1, <3>2, CodeOfSquares
      <4> QED BY <2>1, <3>2, <4>1 DEF Pipe!counter, SquaresInOrder
    <3>3. CASE p = "squarer"
      <4>1. i \in Pipe!squarer(go[p])
        BY <2>1, <3>3, CodeOfSquares
      <4>2. i.ch = "squares" /\ go[p].at # "ended"
        BY <4>1 DEF Pipe!squarer
      <4> QED BY <2>1, <3>3, <4>2 DEF SquaresInOrder
    <3>4. CASE p = "printer"
      BY <2>1, <3>4, CodeOfSquares DEF Pipe!reader
    <3> QED BY <3>1, <3>2, <3>3, <3>4
  <2>2. CASE pipe \in {"netcat3", "netcat4"}
    <3>1. DOMAIN go = {"copier", "printer"}
      BY <2>2 DEF PipeTypeOK, Pipe!Procs
    <3> QED BY <2>2, <3>1, CodeOfNetcat DEF Pipe!copier, Pipe!netcat, DoneOnce
  <2>3. CASE pipe = "fetchall"
    BY <2>3 DEF FetchedOnce
  <2>4. CASE pipe = "MergeChans"
    <3>1. DOMAIN go = Pipe!Workers \union Pipe!Feeders \union {"closer", "printer"}
      BY <2>4 DEF PipeTypeOK, Pipe!Procs
    <3>2. CASE p \in Pipe!Workers
      <4>1. i \in Pipe!worker(p, go[p])
        BY <2>4, <3>2, CodeOfMerge
      <4>2. go[p].at = "out" /\ i.ch = "out"
        BY <4>1 DEF Pipe!worker
      <4> QED BY <2>4, <3>2, <4>2 DEF MergedInOrder
    <3>3. CASE p \in Pipe!Feeders
      <4>1. PICK w \in Pipe!Workers : p = Feeder[w]
        BY <3>3 DEF Pipe!Feeders
      <4>2. Pipe!Code(p) = IF go[p].at = "ended" THEN {}
                           ELSE IF go[p].v < Len(Inputs[w]) THEN {Pipe!Send(w, Inputs[w][go[p].v + 1], "begin", go[p].v + 1)}
                           ELSE {Pipe!Close(w, "ended")}
        BY <2>4, <4>1, CodeOfMerge
      <4>3. go[p].at # "ended" /\ i.ch = w
        BY <4>2
      <4> QED BY <2>4, <4>1, <4>3 DEF MergedInOrder
    <3>4. CASE p = "closer"
      BY <2>4, <3>4, CodeOfMerge DEF Pipe!closer, MergedInOrder
    <3>5. CASE p = "printer"
      BY <2>4, <3>5, CodeOfMerge DEF Pipe!reader
    <3> QED BY <3>1, <3>2, <3>3, <3>4, <3>5
  <2> QED BY <2>1, <2>2, <2>3, <2>4 DEF PipeTypeOK, Pipe!Pipes
<1>2. pipe \in {"pipeline1", "pipeline2"} => out = [i \in 1 .. Len(out) |-> (i - 1) * (i - 1)]
  BY DEF SquaresInOrder
<1>3. pipe = "fetchall" => Pipe!IsInjective(out)
  BY DEF FetchedOnce, Pipe!IsInjective
<1>4. pipe = "MergeChans" => \A w \in Pipe!Workers : \A i \in Pipe!From(w) :
       LET k == Pipe!Cardinality(Pipe!UpTo(w, i)) IN k \in DOMAIN Inputs[w] /\ out[i] = Inputs[w][k]
  BY PipeNames, Counting DEF MergedInOrder
<1> QED BY <1>1, <1>2, <1>3, <1>4 DEF Pipe!PipesRight

-------------------------------------------------------------------------------
(***************************************************************************)
(* The pool.  A caller holds connections of the kinds its function takes,  *)
(* after a cancellation Conns only, and when the function has returned     *)
(* none of a kind that it defers to give back.                             *)
(***************************************************************************)
TakesOnly(f, kinds) == \A i \in 1 .. Len(f.steps) : f.steps[i].do = "take" => f.steps[i].kind \in kinds

\* what the proofs use of a function's steps
CallRight(f) ==
  /\ Len(f.steps) \in Nat \ {0}
  /\ TakesOnly(f, IF f.name \in {"RowsExhaust", "TxExhaust", "TxDeadlock"} THEN {"rows", "tx"} ELSE Sql!All)
  /\ \A i \in 1 .. Len(f.steps) : f.steps[i].do = "take" /\ ~f.steps[i].ctx => f.steps[i].kind = "conn"
  /\ \A i \in 1 .. Len(f.steps) : f.steps[i].do \in {"take", "use"} => f.steps[i].err \in {"fatal", "return", "ignore"}
  /\ f.defer # Sql!All => f.name \in Sql!Leaky \union {"Prepare"}
  /\ f.name = "Prepare" =>
       /\ f.steps[Len(f.steps)].do = "exit"
       /\ \A i \in 1 .. Len(f.steps) : f.steps[i].do # "stmt" /\ (f.steps[i].do \in {"take", "use"} => f.steps[i].err = "fatal")
  /\ f.name = "Create" => \A i \in 1 .. Len(f.steps) : f.steps[i].do = "stmt" => f.steps[i].what = "insert"
  /\ f.steps[Len(f.steps)].do # "stmt"

SqlTypeOK ==
  /\ call \in [PoolCallers -> Sql!Calls]
  /\ step \in [PoolCallers -> Nat] /\ \A c \in PoolCallers : step[c] \in 0 .. Len(call[c].steps)
  /\ held = [c \in PoolCallers |-> held[c]]
  /\ answer = [c \in PoolCallers |-> [is |-> answer[c].is, ids |-> answer[c].ids]]

HeldRight ==
  \A c \in PoolCallers :
    /\ \A h \in held[c] :
         /\ h.kind \in IF call[c].name \in {"RowsExhaust", "TxExhaust", "TxDeadlock"} THEN {"rows", "tx"} ELSE Sql!All
         /\ c \in cut => h.kind = "conn"
         /\ step[c] = Sql!Ended => h.kind \notin call[c].defer
    /\ step[c] = Sql!Ended => call[c].name # "Prepare"

ToldRight ==
  /\ users \subseteq used
  /\ \A c \in PoolCallers :
       /\ answer[c].ids \subseteq used
       /\ call[c].name = "Create" =>
            /\ answer[c].ids # {} => \E id \in used : answer[c].ids = {id}
            /\ \A b \in PoolCallers \ {c} : call[b].name = "Create" /\ answer[c].ids # {} => answer[b].ids # answer[c].ids

SqlIInv == SqlTypeOK /\ HeldRight /\ ToldRight

(* The steps of Times are those of the sequence it repeats.                  *)
Repeated == {Sql!Take("conn", "fatal"), Sql!Take("rows", "fatal"), Sql!Take("rows", "ignore"), Sql!Use("fatal"), Sql!Give}

LEMMA TimesRight ==
  ASSUME NEW k \in Nat, NEW s \in Seq(Repeated), Len(s) \in {1, 2, 3}
  PROVE  /\ Sql!Times(k, s) \in Seq(Repeated) /\ Len(Sql!Times(k, s)) = k * Len(s)
         /\ \A i \in 1 .. k * Len(s) : Sql!Times(k, s)[i] \in {s[j] : j \in 1 .. Len(s)}
<1>1. ASSUME NEW i \in 1 .. k * Len(s) PROVE ((i - 1) % Len(s)) + 1 \in 1 .. Len(s)
  <2>1. CASE Len(s) = 1
    BY <2>1
  <2>2. CASE Len(s) = 2
    BY <2>2
  <2>3. CASE Len(s) = 3
    BY <2>3
  <2> QED BY <2>1, <2>2, <2>3
<1>2. k * Len(s) \in Nat
  OBVIOUS
<1>3. Sql!Times(k, s) = [i \in 1 .. k * Len(s) |-> s[((i - 1) % Len(s)) + 1]]
  BY DEF Sql!Times
<1>4. \A i \in 1 .. k * Len(s) : Sql!Times(k, s)[i] \in Repeated
  BY <1>1, <1>3
<1>5. Sql!Times(k, s) \in [1 .. k * Len(s) -> Repeated]
  BY <1>3, <1>4
<1>6. Sql!Times(k, s) \in Seq(Repeated) /\ Len(Sql!Times(k, s)) = k * Len(s)
  BY <1>2, <1>5
<1>7. \A i \in 1 .. k * Len(s) : Sql!Times(k, s)[i] \in {s[j] : j \in 1 .. Len(s)}
  BY <1>1, <1>3
<1> QED BY <1>6, <1>7

(* A function that repeats s, before and after which it does something else. *)
LEMMA Repeats ==
  ASSUME NEW k \in Nat, NEW s \in Seq(Repeated), Len(s) \in {1, 2, 3}, NEW b \in Seq(Repeated \union {Sql!Exit}),
         NEW e \in Seq(Repeated \union {Sql!Exit})
  PROVE  LET t == b \o Sql!Times(k, s) \o e IN
         /\ Len(t) = Len(b) + k * Len(s) + Len(e)
         /\ \A i \in 1 .. Len(t) :
              \/ i <= Len(b) + k * Len(s) /\ t[i] \in {s[j] : j \in 1 .. Len(s)}
              \/ i <= Len(b) /\ t[i] = b[i]
              \/ i > Len(b) + k * Len(s) /\ t[i] = e[i - Len(b) - k * Len(s)]
<1> DEFINE t == b \o Sql!Times(k, s) \o e  m == Sql!Times(k, s)  all == Repeated \union {Sql!Exit}
<1>1. m \in Seq(Repeated) /\ Len(m) = k * Len(s) /\ Len(m) \in Nat /\ \A i \in 1 .. Len(m) : m[i] \in {s[j] : j \in 1 .. Len(s)}
  <2>1. /\ m \in Seq(Repeated) /\ Len(m) = k * Len(s)
        /\ \A i \in 1 .. k * Len(s) : m[i] \in {s[j] : j \in 1 .. Len(s)}
    BY TimesRight
  <2> HIDE DEF m
  <2> QED BY <2>1
<1> HIDE DEF m, all
<1>2. m \in Seq(all) /\ b \in Seq(all) /\ e \in Seq(all)
  BY <1>1 DEF all
<1>3. b \o m \in Seq(all) /\ Len(b \o m) = Len(b) + Len(m)
      /\ \A i \in 1 .. Len(b) + Len(m) : (b \o m)[i] = IF i <= Len(b) THEN b[i] ELSE m[i - Len(b)]
  BY <1>2
<1> DEFINE bm == b \o m
<1> HIDE DEF bm
<1>4. bm \in Seq(all) /\ Len(bm) = Len(b) + Len(m)
      /\ \A i \in 1 .. Len(bm) : bm[i] = IF i <= Len(b) THEN b[i] ELSE m[i - Len(b)]
  BY <1>3 DEF bm
<1>5. t = bm \o e
  BY DEF bm, m
<1> HIDE DEF t
<1>6. Len(t) = Len(bm) + Len(e) /\ \A i \in 1 .. Len(bm) + Len(e) : t[i] = IF i <= Len(bm) THEN bm[i] ELSE e[i - Len(bm)]
  <2>1. bm \in Seq(all) /\ e \in Seq(all)
    BY <1>2, <1>4
  <2> QED BY <2>1, <1>5
<1>7. Len(b) \in Nat /\ Len(e) \in Nat
  OBVIOUS
<1>8. ASSUME NEW i \in 1 .. Len(t)
      PROVE  \/ i <= Len(b) + Len(m) /\ t[i] \in {s[j] : j \in 1 .. Len(s)}
             \/ i <= Len(b) /\ t[i] = b[i]
             \/ i > Len(b) + Len(m) /\ t[i] = e[i - Len(b) - Len(m)]
  <2>1. CASE i <= Len(b)
    BY <1>1, <1>4, <1>6, <1>7, <2>1
  <2>2. CASE Len(b) < i /\ i <= Len(bm)
    <3>1. i - Len(b) \in 1 .. Len(m) /\ t[i] = m[i - Len(b)] /\ i <= Len(b) + Len(m)
      BY <1>1, <1>4, <1>6, <1>7, <2>2
    <3> QED BY <1>1, <3>1
  <2>3. CASE i > Len(bm)
    <3>1. i > Len(b) + Len(m) /\ t[i] = e[i - Len(bm)] /\ i - Len(bm) = i - Len(b) - Len(m)
      BY <1>1, <1>4, <1>6, <1>7, <2>3
    <3> QED BY <3>1
  <2>4. i \in Nat /\ Len(bm) \in Nat /\ Len(b) \in Nat
    BY <1>1, <1>4, <1>6, <1>7
  <2>5. i <= Len(b) \/ (Len(b) < i /\ i <= Len(bm)) \/ i > Len(bm)
    BY <2>4
  <2> QED BY <2>1, <2>2, <2>3, <2>5
<1> QED BY <1>1, <1>4, <1>6, <1>8 DEF t

LEMMA CallsRight == \A f \in Sql!Calls : CallRight(f)
<1> USE DEF Sql!Fn, Sql!Take, Sql!TakeNoCtx, Sql!Use, Sql!Give, Sql!Stmt, Sql!Exit, Sql!All, Sql!Leaky, CallRight, TakesOnly
<1>1. \A id : CallRight(Sql!Delete(id)) /\ CallRight(Sql!Update(id)) /\ CallRight(Sql!Lookup(id))
  BY DEF Sql!Delete, Sql!Update, Sql!Lookup
<1>2. CallRight(Sql!Create) /\ CallRight(Sql!List)
  BY DEF Sql!Create, Sql!List
<1>3. CallRight(Sql!Query) /\ CallRight(Sql!QueryRow) /\ CallRight(Sql!Exec) /\ CallRight(Sql!Begin) /\ CallRight(Sql!Redis)
  BY DEF Sql!Query, Sql!QueryRow, Sql!Exec, Sql!Begin, Sql!Redis
<1>4. CallRight(Sql!ConnExhaust) /\ CallRight(Sql!TxExhaust) /\ CallRight(Sql!TxDeadlock) /\ CallRight(Sql!NoContext) /\ CallRight(Sql!QueryDeadlockFixTwo)
  BY DEF Sql!ConnExhaust, Sql!TxExhaust, Sql!TxDeadlock, Sql!NoContext, Sql!QueryDeadlockFixTwo
<1>5. CallRight(Sql!DoStuff)
  <2> DEFINE s == Sql!Exec.steps
  <2>1. s = <<Sql!Take("conn", "fatal"), Sql!Use("fatal"), Sql!Give>>
    BY DEF Sql!Exec
  <2>2. s \in Seq(Repeated) /\ Len(s) = 3 /\ {s[j] : j \in 1 .. Len(s)} \subseteq {Sql!Take("conn", "fatal"), Sql!Use("fatal"), Sql!Give}
    BY <2>1 DEF Repeated
  <2> HIDE DEF s
  <2>3. Len(Sql!Times(4, s)) = 4 * Len(s) /\ \A i \in 1 .. 4 * Len(s) : Sql!Times(4, s)[i] \in {s[j] : j \in 1 .. Len(s)}
    BY <2>2, TimesRight
  <2>4. Sql!DoStuff.name = "DoStuff" /\ Sql!DoStuff.steps = Sql!Times(4, s) /\ Sql!DoStuff.defer = Sql!All
    BY DEF Sql!DoStuff, s
  <2>5. \A x \in {Sql!Take("conn", "fatal"), Sql!Use("fatal"), Sql!Give} :
          x.do # "stmt" /\ (x.do = "take" => x.kind \in Sql!All /\ x.ctx) /\ (x.do \in {"take", "use"} => x.err = "fatal")
    OBVIOUS
  <2>6. Len(Sql!DoStuff.steps) = 12 /\ \A i \in 1 .. 12 : Sql!DoStuff.steps[i] \in {Sql!Take("conn", "fatal"), Sql!Use("fatal"), Sql!Give}
    BY <2>2, <2>3, <2>4
  <2>7. Len(Sql!DoStuff.steps) \in Nat \ {0}
    BY <2>6
  <2>8. \A i \in 1 .. Len(Sql!DoStuff.steps) : Sql!DoStuff.steps[i].do = "take" => Sql!DoStuff.steps[i].kind \in Sql!All
    BY <2>5, <2>6
  <2>9. \A i \in 1 .. Len(Sql!DoStuff.steps) : Sql!DoStuff.steps[i].do = "take" => Sql!DoStuff.steps[i].ctx
    BY <2>5, <2>6
  <2>10. \A i \in 1 .. Len(Sql!DoStuff.steps) :
           /\ Sql!DoStuff.steps[i].do # "stmt"
           /\ Sql!DoStuff.steps[i].do \in {"take", "use"} => Sql!DoStuff.steps[i].err = "fatal"
    BY <2>5, <2>6
  <2> HIDE DEF Sql!Take, Sql!Use, Sql!Give, Sql!All, Sql!Leaky
  <2> QED BY <2>4, <2>7, <2>8, <2>9, <2>10
<1>6. ASSUME NEW n1 \in Nat PROVE CallRight(Sql!Prepare(n1))
  <2> DEFINE s == Sql!Query.steps  t == Sql!Prepare(n1).steps
  <2>1. s = <<Sql!Take("rows", "fatal"), Sql!Use("fatal"), Sql!Give>>
    BY DEF Sql!Query
  <2>2. s \in Seq(Repeated) /\ Len(s) = 3 /\ {s[j] : j \in 1 .. Len(s)} \subseteq {Sql!Take("rows", "fatal"), Sql!Use("fatal"), Sql!Give}
    BY <2>1 DEF Repeated
  <2>3. Sql!Prepare(n1).name = "Prepare" /\ t = Sql!Times(n1 + 1, s) \o <<Sql!Exit>>
    BY DEF Sql!Prepare
  <2> HIDE DEF s, t
  <2>4. t = <<>> \o Sql!Times(n1 + 1, s) \o <<Sql!Exit>>
    BY <2>2, <2>3, TimesRight
  <2>5. /\ Len(t) = 3 * n1 + 4 /\ t[Len(t)] = Sql!Exit
        /\ \A i \in 1 .. Len(t) : t[i] \in {s[j] : j \in 1 .. Len(s)} \union {Sql!Exit}
    <3> DEFINE e == <<Sql!Exit>>  none == <<>>
    <3>0. PICK m \in Nat : m = n1 + 1
      OBVIOUS
    <3>1. none \in Seq(Repeated \union {Sql!Exit}) /\ e \in Seq(Repeated \union {Sql!Exit})
          /\ Len(none) = 0 /\ Len(e) = 1 /\ e[1] = Sql!Exit
      OBVIOUS
    <3>2. t = none \o Sql!Times(m, s) \o e
      BY <2>4, <3>0
    <3> HIDE DEF e, none
    <3>3. LET r == none \o Sql!Times(m, s) \o e IN
          /\ Len(r) = Len(none) + m * Len(s) + Len(e)
          /\ \A i \in 1 .. Len(r) :
              \/ i <= Len(none) + m * Len(s) /\ r[i] \in {s[j] : j \in 1 .. Len(s)}
              \/ i <= Len(none) /\ r[i] = none[i]
              \/ i > Len(none) + m * Len(s) /\ r[i] = e[i - Len(none) - m * Len(s)]
      BY <2>2, <3>1, Repeats, ZenonT(60)
    <3> HIDE DEF Sql!Take, Sql!Use, Sql!Give, Sql!Exit
    <3>4. Len(t) = 3 * m + 1
      BY <2>2, <3>1, <3>2, <3>3
    <3>5. \A i \in 1 .. 3 * m : t[i] \in {s[j] : j \in 1 .. Len(s)}
      BY <2>2, <3>1, <3>2, <3>3, <3>4
    <3>6. t[3 * m + 1] = e[1]
      <4>1. 3 * m + 1 \in 1 .. Len(t) /\ (3 * m + 1) - 0 - 3 * m = 1
        BY <3>4
      <4>2. ~(3 * m + 1 <= Len(none) + m * Len(s)) /\ ~(3 * m + 1 <= Len(none)) /\ (3 * m + 1) - Len(none) - m * Len(s) = 1
        BY <2>2, <3>1
      <4>3. t[3 * m + 1] = e[(3 * m + 1) - Len(none) - m * Len(s)]
        BY <3>2, <3>3, <4>1, <4>2
      <4> QED BY <4>2, <4>3
    <3>7. t[Len(t)] = Sql!Exit
      BY <3>1, <3>4, <3>6
    <3>8. \A i \in 1 .. Len(t) : i \in 1 .. 3 * m \/ i = Len(t)
      BY <3>4
    <3>9. Len(t) = 3 * n1 + 4
      BY <3>0, <3>4
    <3> QED BY <3>5, <3>7, <3>8, <3>9
  <2>6. \A x \in {Sql!Take("rows", "fatal"), Sql!Use("fatal"), Sql!Give} :
          x.do \notin {"stmt", "exit"} /\ (x.do = "take" => x.kind \in Sql!All /\ x.ctx) /\ (x.do \in {"take", "use"} => x.err = "fatal")
    OBVIOUS
  <2>7. \A i \in 1 .. Len(t) : t[i] \in {Sql!Take("rows", "fatal"), Sql!Use("fatal"), Sql!Give, Sql!Exit}
    BY <2>2, <2>5
  <2>8. Sql!Exit.do = "exit"
    OBVIOUS
  <2>9. \A i \in 1 .. Len(t) : t[i].do = "take" => t[i].kind \in Sql!All
    BY <2>6, <2>7, <2>8
  <2>10. \A i \in 1 .. Len(t) : t[i].do = "take" => t[i].ctx
    BY <2>6, <2>7, <2>8
  <2>11. \A i \in 1 .. Len(t) : t[i].do # "stmt" /\ (t[i].do \in {"take", "use"} => t[i].err = "fatal")
    BY <2>6, <2>7, <2>8
  <2>12. Len(t) \in Nat \ {0} /\ t[Len(t)].do = "exit"
    BY <2>5, <2>8
  <2> HIDE DEF Sql!Take, Sql!Use, Sql!Give, Sql!Exit, Sql!All, Sql!Leaky
  <2> QED BY <2>3, <2>9, <2>10, <2>11, <2>12 DEF t
<1>7. ASSUME NEW n1 \in Nat PROVE CallRight(Sql!RowsExhaust(n1))
  BY DEF Sql!RowsExhaust
<1>8. ASSUME NEW n1 \in Nat PROVE CallRight(Sql!QueryDeadlock(n1))
  <2> DEFINE s == <<Sql!Take("rows", "fatal")>>  t == Sql!QueryDeadlock(n1).steps
  <2>1. s \in Seq(Repeated) /\ Len(s) = 1 /\ {s[j] : j \in 1 .. Len(s)} \subseteq {Sql!Take("rows", "fatal")} /\ s[1] = Sql!Take("rows", "fatal")
    BY DEF Repeated
  <2>2. /\ Sql!QueryDeadlock(n1).name = "QueryDeadlock" /\ Sql!QueryDeadlock(n1).defer = Sql!All
        /\ t = s \o Sql!Times(n1, s)
    BY DEF Sql!QueryDeadlock
  <2> HIDE DEF s, t
  <2>3. t = s \o Sql!Times(n1, s) \o <<>>
    BY <2>1, <2>2, TimesRight
  <2>4. Len(t) = 1 + n1 * Len(s) /\ \A i \in 1 .. Len(t) : t[i] = Sql!Take("rows", "fatal")
    <3> DEFINE b == s  e == <<>>
    <3>1. /\ e \in Seq(Repeated \union {Sql!Exit}) /\ Len(e) = 0 /\ b \in Seq(Repeated \union {Sql!Exit})
          /\ Len(b) = 1 /\ b[1] = s[1]
      BY <2>1
    <3>2. t = b \o Sql!Times(n1, s) \o e
      BY <2>3
    <3> HIDE DEF b, e
    <3>3. LET r == b \o Sql!Times(n1, s) \o e IN
          /\ Len(r) = Len(b) + n1 * Len(s) + Len(e)
          /\ \A i \in 1 .. Len(r) :
              \/ i <= Len(b) + n1 * Len(s) /\ r[i] \in {s[j] : j \in 1 .. Len(s)}
              \/ i <= Len(b) /\ r[i] = b[i]
              \/ i > Len(b) + n1 * Len(s) /\ r[i] = e[i - Len(b) - n1 * Len(s)]
      BY <2>1, <3>1, Repeats, ZenonT(60)
    <3> HIDE DEF Sql!Take
    <3>4. Len(t) = 1 + n1
      BY <2>1, <3>1, <3>2, <3>3
    <3>5. \A i \in 1 .. Len(t) : t[i] \in {s[j] : j \in 1 .. Len(s)} \union {b[1]}
      BY <2>1, <3>1, <3>2, <3>3, <3>4
    <3> QED BY <2>1, <3>1, <3>4, <3>5
  <2> QED BY <2>1, <2>2, <2>4 DEF t
<1>9. ASSUME NEW n1 \in Nat PROVE CallRight(Sql!QueryDeadlockFixOne(n1))
  <2> DEFINE s == <<Sql!Take("rows", "ignore"), Sql!Give>>  b == <<Sql!Take("rows", "fatal"), Sql!Give>>
             t == Sql!QueryDeadlockFixOne(n1).steps  S == {Sql!Take("rows", "fatal"), Sql!Take("rows", "ignore"), Sql!Give}
  <2>1. s \in Seq(Repeated) /\ Len(s) = 2 /\ {s[j] : j \in 1 .. Len(s)} \subseteq S
    BY DEF Repeated
  <2>2. b \in Seq(Repeated) /\ Len(b) = 2 /\ b[1] \in S /\ b[2] \in S
    BY DEF Repeated
  <2>3. /\ Sql!QueryDeadlockFixOne(n1).name = "QueryDeadlockFixOne" /\ Sql!QueryDeadlockFixOne(n1).defer = Sql!All
        /\ t = b \o Sql!Times(n1, s)
    BY DEF Sql!QueryDeadlockFixOne
  <2> HIDE DEF s, t, b
  <2>4. t = b \o Sql!Times(n1, s) \o <<>>
    BY <2>1, <2>2, <2>3, TimesRight
  <2>5. Len(t) = 2 + n1 * Len(s) /\ \A i \in 1 .. Len(t) : t[i] \in S
    <3> DEFINE e == <<>>
    <3>1. e \in Seq(Repeated \union {Sql!Exit}) /\ Len(e) = 0 /\ b \in Seq(Repeated \union {Sql!Exit})
      BY <2>2
    <3>2. t = b \o Sql!Times(n1, s) \o e
      BY <2>4
    <3> HIDE DEF e
    <3>3. LET r == b \o Sql!Times(n1, s) \o e IN
          /\ Len(r) = Len(b) + n1 * Len(s) + Len(e)
          /\ \A i \in 1 .. Len(r) :
              \/ i <= Len(b) + n1 * Len(s) /\ r[i] \in {s[j] : j \in 1 .. Len(s)}
              \/ i <= Len(b) /\ r[i] = b[i]
              \/ i > Len(b) + n1 * Len(s) /\ r[i] = e[i - Len(b) - n1 * Len(s)]
      BY <2>1, <3>1, Repeats, ZenonT(60)
    <3> HIDE DEF S
    <3> QED BY <2>1, <2>2, <3>1, <3>2, <3>3
  <2> USE DEF S
  <2>6. \A x \in S : x.do # "stmt" /\ (x.do = "take" => x.kind \in Sql!All /\ x.ctx)
                       /\ (x.do \in {"take", "use"} => x.err \in {"fatal", "ignore"})
    OBVIOUS
  <2>7. Len(t) \in Nat \ {0}
    BY <2>1, <2>5
  <2>8. \A i \in 1 .. Len(t) : t[i].do = "take" => t[i].kind \in Sql!All
    BY <2>5, <2>6
  <2>9. \A i \in 1 .. Len(t) : t[i].do = "take" => t[i].ctx
    BY <2>5, <2>6
  <2>10. \A i \in 1 .. Len(t) : t[i].do # "stmt" /\ (t[i].do \in {"take", "use"} => t[i].err \in {"fatal", "ignore"})
    BY <2>5, <2>6
  <2> HIDE DEF Sql!Take, Sql!Use, Sql!Give, Sql!All, Sql!Leaky, S
  <2> QED BY <2>3, <2>7, <2>8, <2>9, <2>10, SMTT(60) DEF t
<1> HIDE DEF CallRight
<1> QED BY <1>1, <1>2, <1>3, <1>4, <1>5, <1>6, <1>7, <1>8, <1>9, PoolRows
    DEF Sql!Calls, Sql!Dao, Sql!Examples, Sql!Results, Sql!Example

LEMMA SqlInitIInv == Sql!SqlInit => SqlIInv
<1> SUFFICES ASSUME Sql!SqlInit PROVE SqlIInv
  OBVIOUS
<1>0. /\ call \in [PoolCallers -> Sql!Calls] /\ step = [c \in PoolCallers |-> 1] /\ held = [c \in PoolCallers |-> {}]
      /\ users = {1} /\ used = {1} /\ answer = [c \in PoolCallers |-> [is |-> "", ids |-> {}]]
  BY DEF Sql!SqlInit
<1>1. SqlTypeOK
  <2>1. \A c \in PoolCallers : 1 \in 0 .. Len(call[c].steps)
    <3>1. \A c \in PoolCallers : Len(call[c].steps) \in Nat \ {0}
      BY <1>0, CallsRight DEF CallRight
    <3> QED BY <3>1
  <2>2. held = [c \in PoolCallers |-> held[c]] /\ answer = [c \in PoolCallers |-> [is |-> answer[c].is, ids |-> answer[c].ids]]
    BY <1>0
  <2> QED BY <1>0, <2>1, <2>2 DEF SqlTypeOK
<1>2. HeldRight /\ ToldRight
  <2>1. \A c \in PoolCallers : step[c] = 1 /\ held[c] = {} /\ answer[c].ids = {}
    BY <1>0
  <2>2. HeldRight
    BY <2>1 DEF HeldRight, Sql!Ended
  <2>3. users \subseteq used /\ \A c \in PoolCallers : answer[c].ids \subseteq used /\ ~(answer[c].ids # {})
    BY <1>0, <2>1
  <2>4. ToldRight
    BY <2>3 DEF ToldRight
  <2> QED BY <2>2, <2>4
<1> QED BY <1>1, <1>2 DEF SqlIInv

(* Of what a step keeps there is nothing that the cancelled context, or the  *)
(* return of the function, has taken back.                                   *)
LEMMA SqlKept ==
  ASSUME SqlTypeOK, HeldRight, NEW c \in PoolCallers, step[c] # Sql!Ended, NEW conns,
         \A h \in conns : h \in held[c] \/ (h.kind = Sql!Now(c).kind /\ Sql!Now(c).do = "take" /\ ~(Sql!Now(c).ctx /\ c \in cut)),
         held' = [held EXCEPT ![c] = Sql!OfKinds(conns, Sql!Left(c))],
         \A b \in PoolCallers \ {c} : step'[b] = step[b], UNCHANGED <<call, cut>>,
         step'[c] = Sql!Ended => call[c].name # "Prepare"
  PROVE  HeldRight'
<1>1. CallRight(call[c]) /\ step[c] \in 1 .. Len(call[c].steps) /\ Sql!Now(c) = call[c].steps[step[c]]
  BY CallsRight DEF SqlTypeOK, Sql!Ended, Sql!Now
<1>2. held'[c] = {h \in conns : h.kind \in Sql!Left(c)} /\ \A b \in PoolCallers \ {c} : held'[b] = held[b]
  BY DEF SqlTypeOK, Sql!OfKinds
<1>3. \A h \in held'[c] : h \in held[c] \/ (h.kind = Sql!Now(c).kind /\ Sql!Now(c).do = "take" /\ ~(Sql!Now(c).ctx /\ c \in cut))
  BY <1>2
<1>4. \A h \in held'[c] : step'[c] = Sql!Ended => h.kind \notin call[c].defer
  BY <1>2 DEF Sql!Left
<1>5. \A h \in held'[c] : h.kind \in IF call[c].name \in {"RowsExhaust", "TxExhaust", "TxDeadlock"} THEN {"rows", "tx"} ELSE Sql!All
  BY <1>1, <1>3 DEF HeldRight, CallRight, TakesOnly
<1>6. \A h \in held'[c] : c \in cut => h.kind = "conn"
  BY <1>1, <1>3 DEF HeldRight, CallRight
<1> QED BY <1>2, <1>4, <1>5, <1>6 DEF HeldRight

(* Where a step goes: on, or to the end.                                     *)
Moves(c) ==
  /\ step' \in [PoolCallers -> Nat] /\ step'[c] \in 0 .. Len(call[c].steps)
  /\ \A b \in PoolCallers \ {c} : step'[b] = step[b]
  /\ step'[c] = Sql!Ended => call[c].name # "Prepare"
  /\ answer' = [b \in PoolCallers |-> [is |-> answer'[b].is, ids |-> answer[b].ids]]

LEMMA SqlAnswers ==
  ASSUME SqlTypeOK, NEW c \in PoolCallers, NEW is, answer' = [answer EXCEPT ![c].is = is]
  PROVE  answer' = [b \in PoolCallers |-> [is |-> answer'[b].is, ids |-> answer[b].ids]]
<1>1. DOMAIN answer = PoolCallers /\ \A b \in PoolCallers : answer[b] = [is |-> answer[b].is, ids |-> answer[b].ids]
  BY DEF SqlTypeOK
<1>2. answer'[c] = [is |-> is, ids |-> answer[c].ids] /\ \A b \in PoolCallers \ {c} : answer'[b] = answer[b]
  BY <1>1
<1>3. \A b \in PoolCallers : answer'[b] = [is |-> answer'[b].is, ids |-> answer[b].ids]
  BY <1>1, <1>2
<1>4. answer' = [b \in PoolCallers |-> answer'[b]]
  BY <1>1
<1> QED BY <1>3, <1>4

LEMMA SqlGoes ==
  ASSUME SqlTypeOK, NEW c \in PoolCallers, step[c] # Sql!Ended, Sql!Goes(c), Sql!Now(c).do # "exit"
  PROVE  Moves(c)
<1>1. CallRight(call[c]) /\ step[c] \in 1 .. Len(call[c].steps) /\ Sql!Now(c) = call[c].steps[step[c]]
  BY CallsRight DEF SqlTypeOK, Sql!Ended, Sql!Now
<1>2. CASE step[c] < Len(call[c].steps)
  <2>1. step' = [step EXCEPT ![c] = step[c] + 1] /\ UNCHANGED answer
    BY <1>2 DEF Sql!Goes, SqlTypeOK
  <2> QED BY <1>1, <1>2, <2>1 DEF Moves, SqlTypeOK, Sql!Ended
<1>3. CASE ~(step[c] < Len(call[c].steps))
  <2>1. step[c] = Len(call[c].steps) /\ call[c].name # "Prepare"
    BY <1>1, <1>3 DEF CallRight
  <2>2. step' = [step EXCEPT ![c] = 0] /\ answer' = [answer EXCEPT ![c].is = "ok"]
    BY <1>3 DEF Sql!Goes, Sql!Return, Sql!Ended
  <2>3. answer' = [b \in PoolCallers |-> [is |-> answer'[b].is, ids |-> answer[b].ids]]
    BY <2>2, SqlAnswers
  <2> QED BY <1>1, <2>1, <2>2, <2>3 DEF Moves, SqlTypeOK
<1> QED BY <1>2, <1>3

LEMMA SqlFails ==
  ASSUME SqlTypeOK, NEW c \in PoolCallers, step[c] # Sql!Ended,
         NEW err \in {"fatal", "return", "ignore"}, Sql!Fails(c, err),
         call[c].name = "Prepare" => err = "fatal", Sql!Now(c).do = "exit" => err = "fatal"
  PROVE  Moves(c)
<1>1. CASE err = "fatal"
  BY <1>1 DEF Sql!Fails, Moves, SqlTypeOK, Sql!Ended
<1>2. CASE err = "return"
  <2>1. step' = [step EXCEPT ![c] = 0] /\ answer' = [answer EXCEPT ![c].is = "error"] /\ call[c].name # "Prepare"
    BY <1>2 DEF Sql!Fails, Sql!Return, Sql!Ended
  <2>2. answer' = [b \in PoolCallers |-> [is |-> answer'[b].is, ids |-> answer[b].ids]]
    BY <2>1, SqlAnswers
  <2>3. Len(call[c].steps) \in Nat
    BY CallsRight DEF SqlTypeOK, CallRight
  <2> QED BY <2>1, <2>2, <2>3 DEF Moves, SqlTypeOK
<1>3. CASE err = "ignore"
  BY <1>3, SqlGoes DEF Sql!Fails
<1> QED BY <1>1, <1>2, <1>3

(* A step that gives no id away.                                             *)
LEMMA SqlMoved ==
  ASSUME SqlTypeOK, ToldRight, NEW c \in PoolCallers, Moves(c), NEW conns, held' = [held EXCEPT ![c] = conns],
         UNCHANGED call, users' \subseteq used', used \subseteq used'
  PROVE  SqlTypeOK' /\ ToldRight'
<1>1. SqlTypeOK'
  <2>1. held' = [b \in PoolCallers |-> held'[b]]
    BY DEF SqlTypeOK
  <2>2. answer' = [b \in PoolCallers |-> [is |-> answer'[b].is, ids |-> answer'[b].ids]]
    <3>1. \A b \in PoolCallers : answer'[b].ids = answer[b].ids
      BY DEF Moves
    <3> QED BY <3>1 DEF Moves
  <2> QED BY <2>1, <2>2 DEF SqlTypeOK, Moves
<1>2. \A b \in PoolCallers : answer'[b].ids = answer[b].ids
  BY DEF Moves
<1>3. ToldRight'
  BY <1>2 DEF ToldRight
<1> QED BY <1>1, <1>3

LEMMA SqlNextIInv == SqlIInv /\ [Sql!SqlNext]_sqlvars => SqlIInv'
<1> SUFFICES ASSUME SqlIInv, [Sql!SqlNext]_sqlvars PROVE SqlIInv'
  OBVIOUS
<1>0. SqlTypeOK /\ HeldRight /\ ToldRight
  BY DEF SqlIInv
<1>1. CASE UNCHANGED sqlvars
  BY <1>1 DEF SqlIInv, SqlTypeOK, HeldRight, ToldRight, sqlvars
<1>2. ASSUME NEW c \in PoolCallers, Sql!Cancel(c) PROVE SqlIInv'
  <2>1. SqlTypeOK' /\ ToldRight'
    BY <1>0, <1>2 DEF Sql!Cancel, Sql!Keep, SqlTypeOK, ToldRight
  <2>2. \A b \in PoolCallers : held'[b] \subseteq held[b] /\ (b = c => \A h \in held'[b] : h.kind = "conn")
    BY <1>0, <1>2 DEF Sql!Cancel, Sql!Keep, Sql!OfKinds, SqlTypeOK
  <2>3. HeldRight'
    BY <1>0, <1>2, <2>2 DEF Sql!Cancel, HeldRight
  <2> QED BY <2>1, <2>3 DEF SqlIInv
<1>3. ASSUME NEW c \in PoolCallers, step[c] # Sql!Ended, Sql!SqlStep(c) PROVE SqlIInv'
  <2>1. CallRight(call[c]) /\ step[c] \in 1 .. Len(call[c].steps) /\ Sql!Now(c) = call[c].steps[step[c]]
    BY <1>0, <1>3, CallsRight, SMTT(60) DEF SqlTypeOK, Sql!Ended, Sql!Now
  <2>2. /\ Sql!Now(c).do \in {"take", "use"} => Sql!Now(c).err \in {"fatal", "return", "ignore"}
        /\ call[c].name = "Prepare" => Sql!Now(c).do # "stmt" /\ (Sql!Now(c).do \in {"take", "use"} => Sql!Now(c).err = "fatal")
        /\ call[c].name = "Create" /\ Sql!Now(c).do = "stmt" => Sql!Now(c).what = "insert"
    BY <2>1 DEF CallRight
  <2>3. \A kinds : Sql!Keep(c, kinds) = [held EXCEPT ![c] = Sql!OfKinds(held[c], kinds)]
    BY <1>0 DEF Sql!Keep, SqlTypeOK
  <2>4. CASE Sql!TakeConn(c)
    <3>1. Moves(c)
      BY <1>0, <1>3, <2>2, <2>4, SqlGoes, SqlFails DEF Sql!TakeConn
    <3>2. PICK conns : /\ held' = [held EXCEPT ![c] = Sql!OfKinds(conns, Sql!Left(c))]
                       /\ \A h \in conns : h \in held[c] \/ (h.kind = Sql!Now(c).kind /\ Sql!Now(c).do = "take" /\ ~(Sql!Now(c).ctx /\ c \in cut))
      <4>1. CASE held' = Sql!Keep(c, Sql!Left(c))
        BY <2>3, <4>1
      <4>2. CASE ~(Sql!Now(c).ctx /\ c \in cut) /\ held' = [held EXCEPT ![c] = Sql!OfKinds(held[c] \union {[at |-> step[c], kind |-> Sql!Now(c).kind]}, Sql!Left(c))]
        <5> DEFINE new == [at |-> step[c], kind |-> Sql!Now(c).kind]
        <5>1. new.kind = Sql!Now(c).kind /\ Sql!Now(c).do = "take"
          BY <2>4 DEF Sql!TakeConn
        <5> HIDE DEF new
        <5>2. \A h \in held[c] \union {new} : h \in held[c] \/ (h.kind = Sql!Now(c).kind /\ Sql!Now(c).do = "take" /\ ~(Sql!Now(c).ctx /\ c \in cut))
          BY <4>2, <5>1
        <5>3. held' = [held EXCEPT ![c] = Sql!OfKinds(held[c] \union {new}, Sql!Left(c))]
          BY <4>2 DEF new
        <5> QED BY <5>2, <5>3
      <4> QED BY <2>4, <4>1, <4>2 DEF Sql!TakeConn
    <3>3. HeldRight'
      BY <1>0, <1>3, <2>4, <3>1, <3>2, SqlKept DEF Sql!TakeConn, Moves
    <3>4. SqlTypeOK' /\ ToldRight'
      BY <1>0, <2>4, <3>1, <3>2, SqlMoved DEF Sql!TakeConn, ToldRight
    <3> QED BY <3>3, <3>4 DEF SqlIInv
  <2>5. CASE Sql!UseConn(c)
    <3>1. Moves(c)
      BY <1>0, <1>3, <2>2, <2>5, SqlGoes, SqlFails DEF Sql!UseConn
    <3>2. held' = [held EXCEPT ![c] = Sql!OfKinds(held[c], Sql!Left(c))]
      BY <2>3, <2>5 DEF Sql!UseConn
    <3>3. HeldRight'
      BY <1>0, <1>3, <2>5, <3>1, <3>2, SqlKept DEF Sql!UseConn, Moves
    <3>4. SqlTypeOK' /\ ToldRight'
      BY <1>0, <2>5, <3>1, <3>2, SqlMoved DEF Sql!UseConn, ToldRight
    <3> QED BY <3>3, <3>4 DEF SqlIInv
  <2>6. CASE Sql!GiveConn(c)
    <3>1. Moves(c)
      BY <1>0, <1>3, <2>2, <2>6, SqlGoes DEF Sql!GiveConn
    <3>2. held' = [held EXCEPT ![c] = Sql!OfKinds(held[c] \ Sql!Newest(c), Sql!Left(c))]
      BY <2>6 DEF Sql!GiveConn
    <3>3. HeldRight'
      <4>1. \A h \in held[c] \ Sql!Newest(c) : h \in held[c]
        OBVIOUS
      <4> QED BY <1>0, <1>3, <2>6, <3>1, <3>2, <4>1, SqlKept DEF Sql!GiveConn, Moves
    <3>4. SqlTypeOK' /\ ToldRight'
      BY <1>0, <2>6, <3>1, <3>2, SqlMoved DEF Sql!GiveConn, ToldRight
    <3> QED BY <3>3, <3>4 DEF SqlIInv
  <2>7. CASE Sql!ExitNow(c)
    <3>1. UNCHANGED <<call, step, held, cut, users, used, answer>>
      BY <2>7 DEF Sql!ExitNow, Sql!Fails
    <3> QED BY <1>0, <3>1 DEF SqlIInv, SqlTypeOK, HeldRight, ToldRight
  <2>8. CASE Sql!Statement(c)
    <3>1. held' = [held EXCEPT ![c] = Sql!OfKinds(held[c], Sql!Left(c))] /\ UNCHANGED <<call, cut>> /\ Sql!Now(c).do = "stmt"
      BY <2>3, <2>8 DEF Sql!Statement
    <3>2. /\ users' \subseteq used' /\ used \subseteq used'
          /\ Sql!Now(c).what = "insert" => users' = users \/ \E id \in used' \ used : users' = users \union {id}
      BY <1>0, <2>8 DEF Sql!Statement, ToldRight
    <3>3. CASE Sql!Fails(c, "return")
      <4>1. Moves(c)
        BY <1>0, <1>3, <2>2, <3>1, <3>3, SqlFails
      <4>2. HeldRight'
        BY <1>0, <1>3, <3>1, <4>1, SqlKept DEF Moves
      <4>3. SqlTypeOK' /\ ToldRight'
        BY <1>0, <3>1, <3>2, <4>1, SqlMoved
      <4> QED BY <4>2, <4>3 DEF SqlIInv
    <3>4. ASSUME ~Sql!Fails(c, "return") PROVE SqlIInv'
      <4> DEFINE told == IF Sql!Now(c).what = "list" THEN users
                         ELSE IF Sql!Now(c).what = "insert" THEN users' \ users ELSE {Sql!Now(c).id}
      <4>1. /\ step' = [step EXCEPT ![c] = step[c] + 1] /\ answer' = [answer EXCEPT ![c].ids = told]
            /\ Sql!Now(c).what \in {"insert", "list"} \/ Sql!Now(c).id \in users
            /\ Sql!Now(c).what = "insert" => \E id \in used' \ used : users' = users \union {id}
        BY <1>0, <2>8, <3>4 DEF Sql!Statement, Sql!baseRequest, SqlTypeOK
      <4>2. told \subseteq used' /\ (Sql!Now(c).what = "insert" => \E id \in used' \ used : told = {id})
        BY <1>0, <3>2, <4>1 DEF ToldRight
      <4> HIDE DEF told
      <4>3. step[c] < Len(call[c].steps)
        BY <2>1, <3>1, <4>1 DEF CallRight
      <4>4. SqlTypeOK'
        <5>1. held' = [b \in PoolCallers |-> held'[b]]
          BY <1>0, <3>1 DEF SqlTypeOK
        <5>2. answer' = [b \in PoolCallers |-> [is |-> answer'[b].is, ids |-> answer'[b].ids]]
          BY <1>0, <4>1, SMTT(60) DEF SqlTypeOK
        <5>3. step' \in [PoolCallers -> Nat] /\ \A b \in PoolCallers : step'[b] \in 0 .. Len(call[b].steps)
          BY <1>0, <2>1, <4>1, <4>3 DEF SqlTypeOK
        <5> QED BY <1>0, <3>1, <5>1, <5>2, <5>3 DEF SqlTypeOK
      <4>5. HeldRight'
        <5>1. step'[c] # Sql!Ended /\ \A b \in PoolCallers \ {c} : step'[b] = step[b]
          BY <1>0, <2>1, <4>1 DEF SqlTypeOK, Sql!Ended
        <5> QED BY <1>0, <1>3, <3>1, <5>1, SqlKept
      <4>6. answer'[c].ids = told /\ \A b \in PoolCallers \ {c} : answer'[b].ids = answer[b].ids
        BY <1>0, <4>1 DEF SqlTypeOK
      <4>7. ToldRight'
        BY <1>0, <2>2, <3>1, <3>2, <4>2, <4>6 DEF ToldRight
      <4> QED BY <4>4, <4>5, <4>7 DEF SqlIInv
    <3> QED BY <3>3, <3>4
  <2> QED BY <1>3, <2>4, <2>5, <2>6, <2>7, <2>8 DEF Sql!SqlStep
<1> QED BY <1>1, <1>2, <1>3 DEF Sql!SqlNext, Sql!SqlStep

LEMMA SqlRight == SqlIInv => Sql!PoolRestored /\ Sql!DaoRight
<1> SUFFICES ASSUME SqlIInv PROVE Sql!PoolRestored /\ Sql!DaoRight
  OBVIOUS
<1>1. ASSUME NEW c \in PoolCallers, step[c] = Sql!Ended, NEW h \in held[c]
      PROVE  call[c].name \in Sql!Leaky /\ (c \in cut => call[c].name = "ConnExhaust")
  <2>1. CallRight(call[c])
    BY CallsRight DEF SqlIInv, SqlTypeOK
  <2>2. h.kind \in Sql!All /\ h.kind \notin call[c].defer
    BY <1>1 DEF SqlIInv, HeldRight, Sql!All
  <2>3. call[c].name \in Sql!Leaky
    BY <1>1, <2>1, <2>2 DEF CallRight, SqlIInv, HeldRight
  <2>4. c \in cut => call[c].name \notin {"RowsExhaust", "TxExhaust", "TxDeadlock"}
    BY <1>1 DEF SqlIInv, HeldRight
  <2> QED BY <2>3, <2>4 DEF Sql!Leaky
<1>2. \A id : Sql!Cardinality({id}) = 1
  BY Counting, FS_Singleton
<1>3. Sql!DaoRight
  BY <1>2 DEF SqlIInv, ToldRight, Sql!DaoRight
<1> QED BY <1>1, <1>3 DEF Sql!PoolRestored

-------------------------------------------------------------------------------
DupTypeOK ==
  /\ groups \in Seq(Dup!Group) /\ group \in 0 .. Len(groups)
  /\ dpc \in [DoCallers -> {"idle", "do", "select"}]
  /\ ctx \in [DoCallers -> {"live", "cancelled"}]
  /\ mine \in [DoCallers -> 0 .. Len(groups)]

(***************************************************************************)
(* Dup!OneActiveGroup is inductive with the types: a group is made only where  *)
(* o.group is nil, so all others have ended.  AbandonedCbIsCancelled needs *)
(* to know who holds a callback's context: while that is live, the Do that *)
(* made the group is still in its select, as it can leave only by its own  *)
(* cancellation or by a result there is not yet.                           *)
(***************************************************************************)
DupStarterWaits ==
  \A i \in DOMAIN groups :
    Dup!RunnerAt(i, "cb") =>
      /\ ~groups[i].done
      /\ groups[i].ctx = "live" =>
           LET s == groups[i].starter
           IN  dpc[s] = "select" /\ mine[s] = i /\ ctx[s] = "live"

DupIInv == DupTypeOK /\ Dup!OneActiveGroup /\ DupStarterWaits

LEMMA DupInit == Dup!Init => DupIInv
BY DEF Dup!Init, DupIInv, DupTypeOK, Dup!OneActiveGroup, DupStarterWaits, Dup!RunnerAt

(* The fields of a group.                                                    *)
LEMMA DupGroupFields ==
  ASSUME DupIInv, NEW i \in DOMAIN groups
  PROVE  /\ groups[i] \in Dup!Group
         /\ groups[i].runner \in Dup!RunnerLocs /\ groups[i].starter \in DoCallers
         /\ groups[i].ctx \in {"live", "cancelled"} /\ groups[i].done \in BOOLEAN
<1>1. groups[i] \in Dup!Group
  BY DEF DupIInv, DupTypeOK
<1> QED BY <1>1 DEF Dup!Group

(* What a step of a runner leaves alone, whatever it does to its own group.  *)
LEMMA DupRunnerTypes ==
  ASSUME DupIInv, NEW i \in DOMAIN groups, NEW r \in Dup!Group,
         groups' = [groups EXCEPT ![i] = r], group' \in {group, 0}, UNCHANGED <<dpc, ctx, mine>>
  PROVE  /\ DupTypeOK'
         /\ DOMAIN groups' = DOMAIN groups /\ i \in 1 .. Len(groups)
         /\ groups'[i] = r /\ \A j \in DOMAIN groups : j # i => groups'[j] = groups[j]
<1>1. groups' \in Seq(Dup!Group) /\ Len(groups') = Len(groups)
  BY DEF DupIInv, DupTypeOK
<1> QED BY <1>1 DEF DupIInv, DupTypeOK

(* Dup!Start appends a group to the others and lets o.group point to it.         *)
LEMMA DupStart ==
  ASSUME DupIInv, NEW c \in DoCallers, Dup!Start(c)
  PROVE  DupIInv'
<1> DEFINE k == Len(groups) + 1
<1>1. groups \in Seq(Dup!Group) /\ Len(groups) \in Nat /\ Dup!NewGroup(c) \in Dup!Group
  BY DEF DupIInv, DupTypeOK, Dup!NewGroup, Dup!Group, Dup!RunnerLocs
<1>2. /\ groups' \in Seq(Dup!Group) /\ Len(groups') = k
      /\ groups'[k] = Dup!NewGroup(c)
      /\ \A j \in DOMAIN groups : groups'[j] = groups[j]
      /\ DOMAIN groups' = DOMAIN groups \union {k} /\ k \notin DOMAIN groups
  BY <1>1 DEF Dup!Start
<1>3. group' = k /\ group = 0 /\ ctx' = ctx
  BY <1>2 DEF Dup!Start
<1>4. dpc' = [dpc EXCEPT ![c] = "select"] /\ dpc[c] = "do" /\ mine' = [mine EXCEPT ![c] = k]
  BY <1>2 DEF Dup!Start, Dup!Go
<1>5. DupTypeOK'
  BY <1>1, <1>2, <1>3, <1>4 DEF DupIInv, DupTypeOK
<1>6. \A j \in DOMAIN groups : Dup!RunnerAt(j, "ended")
  BY <1>1, <1>3 DEF DupIInv, Dup!OneActiveGroup
<1>7. Dup!OneActiveGroup'
  BY <1>2, <1>3, <1>6 DEF Dup!OneActiveGroup, Dup!RunnerAt
<1>8. DupStarterWaits'
  <2> SUFFICES ASSUME NEW j \in DOMAIN groups', Dup!RunnerAt(j, "cb")'
      PROVE /\ ~groups'[j].done
            /\ groups'[j].ctx = "live" =>
                 /\ dpc'[groups'[j].starter] = "select" /\ mine'[groups'[j].starter] = j
                 /\ ctx'[groups'[j].starter] = "live"
    BY DEF DupStarterWaits
  <2>1. j = k
    BY <1>2, <1>6 DEF Dup!RunnerAt
  <2> QED BY <2>1, <1>2, <1>3, <1>4 DEF DupIInv, DupTypeOK, Dup!NewGroup
<1> QED BY <1>5, <1>7, <1>8 DEF DupIInv

(* A cancellation reaches the callbacks the caller has started.              *)
LEMMA DupCancel ==
  ASSUME DupIInv, NEW c \in DoCallers, Dup!Cancel(c)
  PROVE  DupIInv'
<1>1. /\ DOMAIN groups' = DOMAIN groups
      /\ \A i \in DOMAIN groups :
           /\ groups'[i] \in Dup!Group
           /\ groups'[i].runner = groups[i].runner /\ groups'[i].done = groups[i].done
           /\ groups'[i].starter = groups[i].starter
           /\ groups'[i].ctx = IF i = mine[c] /\ groups[i].starter = c THEN "cancelled" ELSE groups[i].ctx
  <2>1. groups' = [i \in DOMAIN groups |-> IF i = mine[c] /\ groups[i].starter = c
                     THEN [groups[i] EXCEPT !.ctx = "cancelled"] ELSE groups[i]]
    BY DEF Dup!Cancel
  <2>2. \A i \in DOMAIN groups : groups[i] \in Dup!Group
    BY DEF DupIInv, DupTypeOK
  <2>3. DOMAIN groups' = DOMAIN groups
    BY <2>1
  <2>4. ASSUME NEW i \in DOMAIN groups
        PROVE  /\ groups'[i] \in Dup!Group
               /\ groups'[i].runner = groups[i].runner /\ groups'[i].done = groups[i].done
               /\ groups'[i].starter = groups[i].starter
               /\ groups'[i].ctx = IF i = mine[c] /\ groups[i].starter = c THEN "cancelled" ELSE groups[i].ctx
    <3>1. groups'[i] = IF i = mine[c] /\ groups[i].starter = c
                       THEN [groups[i] EXCEPT !.ctx = "cancelled"] ELSE groups[i]
      BY <2>1
    <3> QED BY <2>2, <3>1 DEF Dup!Group
  <2> QED BY <2>3, <2>4
<1>2. groups' \in Seq(Dup!Group) /\ Len(groups') = Len(groups)
  <2>1. groups \in Seq(Dup!Group) /\ Len(groups) \in Nat /\ DOMAIN groups = 1 .. Len(groups)
    BY DEF DupIInv, DupTypeOK
  <2>2. groups' = [i \in 1 .. Len(groups) |-> groups'[i]]
    BY <2>1 DEF Dup!Cancel
  <2>3. \A i \in 1 .. Len(groups) : groups'[i] \in Dup!Group
    BY <1>1, <2>1
  <2> QED BY <2>1, <2>2, <2>3
<1>3. /\ ctx' = [ctx EXCEPT ![c] = "cancelled"] /\ UNCHANGED <<group, dpc, mine>>
  BY DEF Dup!Cancel
<1>4. DupTypeOK'
  BY <1>2, <1>3 DEF DupIInv, DupTypeOK
<1>5. Dup!OneActiveGroup'
  BY <1>1, <1>3 DEF DupIInv, Dup!OneActiveGroup, Dup!RunnerAt
<1>6. DupStarterWaits'
  <2> SUFFICES ASSUME NEW j \in DOMAIN groups, Dup!RunnerAt(j, "cb")
      PROVE /\ ~groups'[j].done
            /\ groups'[j].ctx = "live" =>
                 /\ dpc[groups[j].starter] = "select" /\ mine[groups[j].starter] = j
                 /\ ctx'[groups[j].starter] = "live"
    BY <1>1, <1>3 DEF DupStarterWaits, Dup!RunnerAt
  <2>1. groups[j].starter \in DoCallers
    BY DupGroupFields
  <2>2. CASE groups[j].starter = c
    BY <2>1, <2>2, <1>1, <1>3 DEF DupIInv, DupStarterWaits
  <2>3. CASE groups[j].starter # c
    BY <2>1, <2>3, <1>1, <1>3 DEF DupIInv, DupTypeOK, DupStarterWaits
  <2> QED BY <2>2, <2>3
<1> QED BY <1>4, <1>5, <1>6 DEF DupIInv

(* Whoever returns leaves no callback with its live context behind.          *)
LEMMA DupReturn ==
  ASSUME DupIInv, NEW c \in DoCallers, Dup!ReturnResult(c) \/ Dup!ReturnCancelled(c)
  PROVE  DupIInv'
<1>1. /\ dpc[c] = "select" /\ dpc' = [dpc EXCEPT ![c] = "idle"] /\ ctx' = [ctx EXCEPT ![c] = "live"]
      /\ mine' = [mine EXCEPT ![c] = 0] /\ UNCHANGED <<group, groups>>
  BY DEF Dup!ReturnResult, Dup!ReturnCancelled, Dup!Return, Dup!Go
<1>2. DupTypeOK' /\ Dup!OneActiveGroup'
  BY <1>1 DEF DupIInv, DupTypeOK, Dup!OneActiveGroup, Dup!RunnerAt
<1>3. \A i \in DOMAIN groups : Dup!RunnerAt(i, "cb") /\ groups[i].ctx = "live" => groups[i].starter # c
  <2> SUFFICES ASSUME NEW i \in DOMAIN groups, Dup!RunnerAt(i, "cb"), groups[i].ctx = "live", groups[i].starter = c
      PROVE FALSE
    OBVIOUS
  <2>1. mine[c] = i /\ ctx[c] = "live" /\ ~groups[i].done
    BY DEF DupIInv, DupStarterWaits
  <2> QED BY <2>1 DEF Dup!ReturnResult, Dup!ReturnCancelled
<1>4. DupStarterWaits'
  BY <1>1, <1>3, DupGroupFields DEF DupIInv, DupTypeOK, DupStarterWaits, Dup!RunnerAt
<1> QED BY <1>2, <1>4 DEF DupIInv

LEMMA DupNextIInv == DupIInv /\ [Dup!Next]_dupvars => DupIInv'
<1> SUFFICES ASSUME DupIInv, [Dup!Next]_dupvars PROVE DupIInv'
  OBVIOUS
<1>1. ASSUME NEW c \in DoCallers, Dup!CallDo(c) \/ Dup!Join(c) PROVE DupIInv'
  <2>1. DupTypeOK' /\ Dup!OneActiveGroup'
    BY <1>1 DEF Dup!CallDo, Dup!Join, Dup!Go, DupIInv, DupTypeOK, Dup!OneActiveGroup, Dup!RunnerAt
  <2>2. \A i \in DOMAIN groups : Dup!RunnerAt(i, "cb") /\ groups[i].ctx = "live" => groups[i].starter # c
    BY <1>1 DEF Dup!CallDo, Dup!Join, Dup!Go, DupIInv, DupStarterWaits
  <2>3. DupStarterWaits'
    BY <1>1, <2>2, DupGroupFields DEF Dup!CallDo, Dup!Join, Dup!Go, DupIInv, DupTypeOK, DupStarterWaits, Dup!RunnerAt
  <2> QED BY <2>1, <2>3 DEF DupIInv
<1>2. ASSUME NEW c \in DoCallers, Dup!Cancel(c) PROVE DupIInv'
  BY <1>2, DupCancel
<1>3. ASSUME NEW c \in DoCallers, Dup!Start(c) PROVE DupIInv'
  BY <1>3, DupStart
<1>4. ASSUME NEW c \in DoCallers, Dup!ReturnResult(c) \/ Dup!ReturnCancelled(c) PROVE DupIInv'
  BY <1>4, DupReturn
<1>5. ASSUME NEW i \in DOMAIN groups, Dup!CbReturns(i) \/ Dup!CloseDone(i) \/ Dup!ClearGroup(i) PROVE DupIInv'
  <2>1. groups[i] \in Dup!Group
    BY DupGroupFields
  <2>2. PICK r \in Dup!Group : /\ groups' = [groups EXCEPT ![i] = r]
                               /\ r.runner # "cb" /\ groups[i].runner # "ended"
                               /\ r.runner = "ended" \/ group' = group
    <3> DEFINE g == groups[i]
               At(loc, d) == [g EXCEPT !.runner = loc, !.done = d]
    <3>1. \A loc \in Dup!RunnerLocs, d \in BOOLEAN : At(loc, d) \in Dup!Group /\ At(loc, d).runner = loc
      BY <2>1 DEF Dup!Group
    <3>2. CASE Dup!CbReturns(i)
      <4>1. groups' = [groups EXCEPT ![i] = At("close", g.done)] /\ group' = group
        BY <2>1, <3>2 DEF Dup!CbReturns, Dup!Group
      <4> QED BY <4>1, <3>1, <3>2, DupGroupFields DEF Dup!CbReturns, Dup!RunnerAt, Dup!RunnerLocs
    <3>3. CASE Dup!CloseDone(i)
      <4>1. groups' = [groups EXCEPT ![i] = At("clear", TRUE)] /\ group' = group
        BY <2>1, <3>3 DEF Dup!CloseDone, Dup!Group
      <4> QED BY <4>1, <3>1, <3>3 DEF Dup!CloseDone, Dup!RunnerAt, Dup!RunnerLocs
    <3>4. CASE Dup!ClearGroup(i)
      <4>1. groups' = [groups EXCEPT ![i] = At("ended", g.done)]
        BY <2>1, <3>4 DEF Dup!ClearGroup, Dup!Group
      <4>2. At("ended", g.done) \in Dup!Group /\ At("ended", g.done).runner = "ended"
        BY <3>1, DupGroupFields DEF Dup!RunnerLocs
      <4>3. groups[i].runner = "clear"
        BY <3>4 DEF Dup!ClearGroup, Dup!RunnerAt
      <4> HIDE DEF g, At
      <4> QED BY <4>1, <4>2, <4>3
    <3> QED BY <1>5, <3>2, <3>3, <3>4
  <2>3. group' \in {group, 0} /\ UNCHANGED <<dpc, ctx, mine>>
    BY <1>5 DEF Dup!CbReturns, Dup!CloseDone, Dup!ClearGroup
  <2>4. /\ DupTypeOK' /\ DOMAIN groups' = DOMAIN groups
        /\ groups'[i] = r /\ \A j \in DOMAIN groups : j # i => groups'[j] = groups[j]
    BY <2>2, <2>3, DupRunnerTypes
  <2>5. \A j \in DOMAIN groups : j # i => Dup!RunnerAt(j, "ended")
    BY <2>2 DEF DupIInv, Dup!OneActiveGroup, Dup!RunnerAt
  <2>6. Dup!OneActiveGroup'
    BY <2>2, <2>4, <2>5 DEF DupIInv, Dup!OneActiveGroup, Dup!RunnerAt
  <2>7. DupStarterWaits'
    BY <2>2, <2>4, <2>5 DEF DupStarterWaits, Dup!RunnerAt
  <2> QED BY <2>4, <2>6, <2>7 DEF DupIInv
<1>6. CASE Dup!Finished \/ UNCHANGED dupvars
  BY <1>6 DEF Dup!Finished, Dup!vars, dupvars, DupIInv, DupTypeOK, Dup!OneActiveGroup, DupStarterWaits, Dup!RunnerAt
<1> QED BY <1>1, <1>2, <1>3, <1>4, <1>5, <1>6 DEF Dup!Next, Dup!CallerStep, Dup!RunnerStep

LEMMA DupRight == DupIInv => Dup!OneActiveGroup /\ Dup!AbandonedCbIsCancelled
<1>1. DupIInv => Dup!AbandonedCbIsCancelled
  <2> SUFFICES ASSUME DupIInv, NEW i \in DOMAIN groups, Dup!RunnerAt(i, "cb"),
                      \A c \in Dup!Waiting(i) : ctx[c] = "cancelled", groups[i].ctx # "cancelled"
      PROVE FALSE
    BY DEF Dup!AbandonedCbIsCancelled
  <2>1. groups[i].ctx = "live" /\ groups[i].starter \in DoCallers
    BY DupGroupFields
  <2>2. groups[i].starter \in Dup!Waiting(i) /\ ctx[groups[i].starter] = "live"
    BY <2>1 DEF DupIInv, DupStarterWaits, Dup!Waiting
  <2> QED BY <2>2
<1> QED BY <1>1 DEF DupIInv

-------------------------------------------------------------------------------
(***************************************************************************)
(* tparallel.  The entries of a script before the one a test is at have    *)
(* started, the ones behind it have not; a test that runs another is at    *)
(* its entry, and one in Parallel at a call of it.  A test of a running    *)
(* function can leave Parallel only when the function has ended, so the    *)
(* ones the function has left behind are still parked, or done.  And a     *)
(* message to the parent is sent only by a test that has left Parallel,    *)
(* when whoever could take it for another test's is done with that one.    *)
(***************************************************************************)
ParTypeOK ==
  /\ script \in TestFunctions
  /\ tpc \in [Par!Nodes -> Par!Locations] /\ ip \in [Par!Nodes -> Nat]
  /\ start \subseteq ParallelTests /\ barrier \subseteq Par!Nodes

Subtests(p) == {k \in DOMAIN script[p] : script[p][k] # Parallel}

ParPlaces ==
  \A p \in Par!Nodes :
    /\ tpc[p] = "unborn" => ip[p] = 1
    /\ tpc[p] \in {"park", "parked"} => ip[p] \in DOMAIN script[p] /\ Par!Entry(p) = Parallel
    /\ \A k \in Subtests(p) :
         tpc[script[p][k]] = "unborn" <=> k > ip[p] \/ (k = ip[p] /\ tpc[p] # "run")

ParBarriers ==
  /\ \A p \in barrier : Par!BodyDone(p)
  /\ \A t \in ParallelTests :
       /\ t \in start /\ tpc[t] \notin {"park", "parked"} => Par!ParentOf(t) \in barrier
       /\ tpc[t] = "tell" => t \in start

ParOrder ==
  \A p \in Par!Nodes : \A k \in Subtests(p) :
    ~Par!BodyDone(p) /\ k < ip[p] =>
      tpc[script[p][k]] = "parked" \/ Par!BodyDone(script[p][k])

ParIInv == ParTypeOK /\ ParPlaces /\ ParBarriers /\ ParOrder


(* A subtest is one of the tests, of one parent, at one entry.               *)
LEMMA ParNames ==
  ASSUME ParTypeOK, NEW p \in Par!Nodes, NEW k \in Subtests(p)
  PROVE  /\ k \in Nat \ {0} /\ script[p][k] \in ParallelTests /\ script[p][k] # Root
         /\ Par!ParentOf(script[p][k]) = p
         /\ \A q \in Par!Nodes : \A j \in Subtests(q) : script[q][j] = script[p][k] => q = p /\ j = k
<1>1. /\ script \in [Par!Nodes -> Seq(ParallelTests \union {Parallel})]
      /\ \A r, q \in Par!Nodes : \A i \in DOMAIN script[r], j \in DOMAIN script[q] :
           script[r][i] = script[q][j] /\ script[r][i] # Parallel => r = q /\ i = j
  BY TestScripts DEF ParTypeOK
<1>2. script[p] \in Seq(ParallelTests \union {Parallel}) /\ k \in DOMAIN script[p] /\ script[p][k] # Parallel
  BY <1>1 DEF Subtests
<1>3. k \in Nat \ {0} /\ script[p][k] \in ParallelTests
  BY <1>2
<1>4. \A q \in Par!Nodes : script[p][k] \in Par!Entries(q) => q = p
  BY <1>1, <1>2 DEF Par!Entries
<1>5. script[p][k] \in Par!Entries(p)
  BY <1>2 DEF Par!Entries
<1>6. Par!ParentOf(script[p][k]) = p
  BY <1>4, <1>5 DEF Par!ParentOf
<1> QED BY <1>1, <1>2, <1>3, <1>6, TestScripts DEF Subtests

(* A script does not change, and neither do its subtests and their parents.  *)
LEMMA ParSameScript ==
  ASSUME UNCHANGED script
  PROVE  /\ \A p : Subtests(p)' = Subtests(p)
         /\ \A t : Par!ParentOf(t)' = Par!ParentOf(t)
<1>1. \A p : Par!Entries(p)' = Par!Entries(p) /\ Subtests(p)' = Subtests(p)
  BY DEF Par!Entries, Subtests
<1> QED BY <1>1 DEF Par!ParentOf

(* The test a running function is about to start has not started yet.        *)
LEMMA ParNextSubtest ==
  ASSUME ParIInv, NEW p \in Par!Nodes, Par!AtEntry(p), Par!Entry(p) # Parallel
  PROVE  /\ ip[p] \in Subtests(p) /\ Par!Entry(p) = script[p][ip[p]]
         /\ tpc[Par!Entry(p)] = "unborn" /\ Par!Entry(p) # p /\ Par!Entry(p) \in ParallelTests
<1>1. ip[p] \in Subtests(p) /\ Par!Entry(p) = script[p][ip[p]] /\ tpc[p] = "body"
  BY DEF Par!AtEntry, Par!Entry, Subtests
<1>2. tpc[Par!Entry(p)] = "unborn"
  BY <1>1 DEF ParIInv, ParPlaces
<1> QED BY <1>1, <1>2, ParNames DEF ParIInv

LEMMA ParInit == Par!Init => ParIInv
<1> SUFFICES ASSUME Par!Init PROVE ParIInv
  OBVIOUS
<1>1. ParTypeOK
  BY DEF Par!Init, ParTypeOK, Par!Locations
<1>2. \A p \in Par!Nodes : \A k \in Subtests(p) : k \in Nat \ {0} /\ script[p][k] \in Par!Nodes \ {Root}
  BY <1>1, ParNames DEF Par!Nodes
<1>3. ParPlaces
  BY <1>2 DEF Par!Init, ParPlaces
<1>4. ParBarriers
  BY TestScripts DEF Par!Init, ParBarriers, Par!Nodes
<1>5. ParOrder
  BY <1>2 DEF Par!Init, ParOrder
<1> QED BY <1>1, <1>3, <1>4, <1>5 DEF ParIInv

(* t.Run: a subtest is born.                                                 *)
LEMMA ParRunChild ==
  ASSUME ParIInv, NEW p \in Par!Nodes, Par!RunChild(p)
  PROVE  ParIInv'
<1> DEFINE c == Par!Entry(p)
<1>1. /\ tpc' = [tpc EXCEPT ![p] = "run", ![c] = "body"]
      /\ UNCHANGED <<script, ip, start, barrier>> /\ tpc[p] = "body"
  BY DEF Par!RunChild, Par!AtEntry
<1>2. /\ ip[p] \in Subtests(p) /\ c = script[p][ip[p]]
      /\ tpc[c] = "unborn" /\ c # p /\ c \in ParallelTests /\ c \in Par!Nodes
  BY ParNextSubtest DEF Par!RunChild, Par!Nodes
<1>0. UNCHANGED <<script, ip, start, barrier>> /\ tpc[p] = "body"
  BY <1>1
<1> HIDE DEF c
<1>3. tpc'[p] = "run" /\ tpc'[c] = "body" /\ \A q \in Par!Nodes \ {p, c} : tpc'[q] = tpc[q]
  BY <1>1, <1>2 DEF ParIInv, ParTypeOK
<1>4. /\ \A q : Subtests(q)' = Subtests(q)
      /\ \A t : Par!ParentOf(t)' = Par!ParentOf(t)
  BY <1>1, ParSameScript
<1>5. /\ \A q \in Par!Nodes : \A k \in Subtests(q) : k \in Nat /\ script[q][k] \in Par!Nodes
      /\ \A q \in Par!Nodes : \A k \in Subtests(q) : script[q][k] = c => q = p /\ k = ip[p]
  BY <1>2, ParNames DEF ParIInv, Par!Nodes
<1>6. ParTypeOK'
  BY <1>1 DEF ParIInv, ParTypeOK, Par!Locations
<1>7. ParPlaces'
  <2> SUFFICES ASSUME NEW q \in Par!Nodes
      PROVE /\ tpc'[q] = "unborn" => ip[q] = 1
            /\ tpc'[q] \in {"park", "parked"} => ip[q] \in DOMAIN script[q] /\ Par!Entry(q) = Parallel
            /\ \A k \in Subtests(q) :
                 tpc'[script[q][k]] = "unborn" <=> k > ip[q] \/ (k = ip[q] /\ tpc'[q] # "run")
    BY <1>0, <1>4 DEF ParPlaces, Par!Entry, Par!Nodes
  <2>1. ip[q] \in Nat
    BY DEF ParIInv, ParTypeOK
  <2>2. /\ tpc[q] = "unborn" => ip[q] = 1
        /\ tpc[q] \in {"park", "parked"} => ip[q] \in DOMAIN script[q] /\ Par!Entry(q) = Parallel
        /\ \A k \in Subtests(q) :
             tpc[script[q][k]] = "unborn" <=> k > ip[q] \/ (k = ip[q] /\ tpc[q] # "run")
    BY DEF ParIInv, ParPlaces
  <2>3. /\ tpc'[q] = "unborn" => ip[q] = 1
        /\ tpc'[q] \in {"park", "parked"} => ip[q] \in DOMAIN script[q] /\ Par!Entry(q) = Parallel
    BY <2>2, <1>3
  <2>4. ASSUME NEW k \in Subtests(q)
        PROVE  tpc'[script[q][k]] = "unborn" <=> k > ip[q] \/ (k = ip[q] /\ tpc'[q] # "run")
    <3>1. CASE script[q][k] = c
      BY <3>1, <2>1, <1>3, <1>5
    <3>2. CASE script[q][k] # c
      <4>1. q = p => k # ip[q]
        BY <3>2, <1>2
      <4>2. tpc'[script[q][k]] = "unborn" <=> tpc[script[q][k]] = "unborn"
        BY <3>2, <1>0, <1>3, <1>5
      <4>3. q # p => (tpc'[q] = "run" <=> tpc[q] = "run")
        BY <1>2, <1>3
      <4> QED BY <4>1, <4>2, <4>3, <2>2
    <3> QED BY <3>1, <3>2
  <2> QED BY <2>3, <2>4
<1>8. ParBarriers'
  <2>1. p \notin barrier /\ c \notin barrier
    BY <1>1, <1>2 DEF ParIInv, ParBarriers, Par!BodyDone
  <2> QED BY <2>1, <1>1, <1>2, <1>3, <1>4 DEF ParIInv, ParTypeOK, ParBarriers, Par!BodyDone, Par!Nodes
<1>9. ParOrder'
  <2> SUFFICES ASSUME NEW q \in Par!Nodes, NEW k \in Subtests(q), ~Par!BodyDone(q)', k < ip[q]
      PROVE  tpc'[script[q][k]] = "parked" \/ Par!BodyDone(script[q][k])'
    BY <1>0, <1>4 DEF ParOrder, Par!BodyDone, Par!Nodes
  <2>1. ~Par!BodyDone(q)
    BY <1>0, <1>2, <1>3 DEF Par!BodyDone
  <2>2. tpc[script[q][k]] = "parked" \/ Par!BodyDone(script[q][k])
    BY <2>1 DEF ParIInv, ParOrder
  <2> QED BY <2>2, <1>0, <1>2, <1>3, <1>5 DEF Par!BodyDone
<1> QED BY <1>6, <1>7, <1>8, <1>9 DEF ParIInv

(* A node that moves on and stays at its entry, without a start or an end of *)
(* a subtest.                                                                *)
LEMMA ParMove ==
  ASSUME ParIInv, NEW p \in Par!Nodes, NEW to \in Par!Locations \ {"unborn", "run"},
         tpc' = [tpc EXCEPT ![p] = to], UNCHANGED <<script, ip>>,
         start' \subseteq ParallelTests, barrier' \subseteq Par!Nodes,
         tpc[p] \notin {"unborn", "run", "parked"},
         Par!BodyDone(p) => Par!BodyDone(p)',
         to \in {"park", "parked"} => ip[p] \in DOMAIN script[p] /\ Par!Entry(p) = Parallel,
         ParBarriers'
  PROVE  ParIInv'
<1>1. tpc'[p] = to /\ \A q \in Par!Nodes \ {p} : tpc'[q] = tpc[q]
  BY DEF ParIInv, ParTypeOK
<1>2. \A q : Subtests(q)' = Subtests(q)
  BY ParSameScript
<1>3. \A q \in Par!Nodes : \A k \in Subtests(q) : k \in Nat /\ script[q][k] \in Par!Nodes
  BY ParNames DEF ParIInv, Par!Nodes
<1>4. ParTypeOK'
  BY DEF ParIInv, ParTypeOK
<1>5. ParPlaces'
  <2> SUFFICES ASSUME NEW q \in Par!Nodes
      PROVE /\ tpc'[q] = "unborn" => ip[q] = 1
            /\ tpc'[q] \in {"park", "parked"} => ip[q] \in DOMAIN script[q] /\ Par!Entry(q) = Parallel
            /\ \A k \in Subtests(q) :
                 tpc'[script[q][k]] = "unborn" <=> k > ip[q] \/ (k = ip[q] /\ tpc'[q] # "run")
    BY <1>2 DEF ParPlaces, Par!Entry, Par!Nodes
  <2> QED BY <1>1, <1>3 DEF ParIInv, ParPlaces
<1>6. ParOrder'
  BY <1>1, <1>2, <1>3 DEF ParIInv, ParOrder, Par!BodyDone, Par!Nodes
<1> QED BY <1>4, <1>5, <1>6 DEF ParIInv

(* t.Parallel, up to the send; Root does not call it.                        *)
LEMMA ParCall ==
  ASSUME ParIInv, NEW p \in Par!Nodes, Par!CallParallel(p)
  PROVE  ParIInv'
<1>1. /\ tpc' = [tpc EXCEPT ![p] = "park"] /\ start' = start \union {p}
      /\ UNCHANGED <<script, ip, barrier>> /\ tpc[p] = "body"
      /\ ip[p] \in DOMAIN script[p] /\ Par!Entry(p) = Parallel
  BY DEF Par!CallParallel, Par!AtEntry
<1>2. p \in ParallelTests
  BY <1>1, TestScripts DEF ParIInv, ParTypeOK, Par!Entry, Par!Nodes
<1>3. tpc'[p] = "park" /\ \A q \in Par!Nodes \ {p} : tpc'[q] = tpc[q]
  BY <1>1 DEF ParIInv, ParTypeOK
<1>4. \A t : Par!ParentOf(t)' = Par!ParentOf(t)
  BY <1>1, ParSameScript
<1>5. p \notin barrier
  BY <1>1 DEF ParIInv, ParBarriers, Par!BodyDone
<1>6. ParBarriers'
  BY <1>1, <1>3, <1>4, <1>5 DEF ParIInv, ParTypeOK, ParBarriers, Par!BodyDone, Par!Nodes
<1>7. start' \subseteq ParallelTests /\ barrier' \subseteq Par!Nodes
  BY <1>1, <1>2 DEF ParIInv, ParTypeOK
<1>8. ~Par!BodyDone(p)
  BY <1>1 DEF Par!BodyDone
<1> QED BY <1>1, <1>6, <1>7, <1>8, ParMove DEF Par!Locations

(* The test function has returned.                                           *)
LEMMA ParBodyEnds ==
  ASSUME ParIInv, NEW p \in Par!Nodes, Par!BodyEnds(p)
  PROVE  ParIInv'
<1>1. PICK to \in {"collect", "ended", "tell", "finish"} :
        tpc' = [tpc EXCEPT ![p] = to] /\ (to = "tell" => p \in start)
  BY DEF Par!BodyEnds
<1>2. /\ tpc[p] = "body" /\ UNCHANGED <<script, ip, start>>
      /\ barrier \subseteq barrier' /\ barrier' \subseteq barrier \union {p}
  BY DEF Par!BodyEnds
<1>3. tpc'[p] = to /\ \A q \in Par!Nodes \ {p} : tpc'[q] = tpc[q]
  BY <1>1 DEF ParIInv, ParTypeOK
<1>4. \A t : Par!ParentOf(t)' = Par!ParentOf(t)
  BY <1>2, ParSameScript
<1>5. ParBarriers'
  BY <1>1, <1>2, <1>3, <1>4 DEF ParIInv, ParTypeOK, ParBarriers, Par!BodyDone, Par!Nodes
<1>6. start' \subseteq ParallelTests /\ barrier' \subseteq Par!Nodes
  BY <1>2 DEF ParIInv, ParTypeOK
<1>7. ~Par!BodyDone(p)
  BY <1>2 DEF Par!BodyDone
<1> QED BY <1>1, <1>2, <1>5, <1>6, <1>7, ParMove DEF Par!Locations

(* The end of Parallel: its parent's barrier is closed.                      *)
LEMMA ParUnpark ==
  ASSUME ParIInv, NEW p \in Par!Nodes, Par!Unpark(p)
  PROVE  ParIInv'
<1>1. /\ tpc' = [tpc EXCEPT ![p] = "body"] /\ ip' = [ip EXCEPT ![p] = @ + 1]
      /\ tpc[p] = "parked" /\ Par!ParentOf(p) \in barrier
      /\ UNCHANGED <<script, start, barrier>>
  BY DEF Par!Unpark, Par!Go
<1>2. /\ tpc'[p] = "body" /\ \A q \in Par!Nodes \ {p} : tpc'[q] = tpc[q]
      /\ ip'[p] = ip[p] + 1 /\ \A q \in Par!Nodes \ {p} : ip'[q] = ip[q]
      /\ ip \in [Par!Nodes -> Nat]
  BY <1>1 DEF ParIInv, ParTypeOK
<1>3. /\ \A q : Subtests(q)' = Subtests(q)
      /\ \A t : Par!ParentOf(t)' = Par!ParentOf(t)
  BY <1>1, ParSameScript
<1>4. ip[p] \notin Subtests(p)
  BY <1>1 DEF ParIInv, ParPlaces, Subtests, Par!Entry
<1>5. \A q \in Par!Nodes : \A k \in Subtests(q) :
        /\ k \in Nat /\ script[q][k] \in Par!Nodes
        /\ script[q][k] = p => Par!BodyDone(q)
  BY <1>1, ParNames DEF ParIInv, ParBarriers, Par!Nodes
<1>6. ParTypeOK'
  BY <1>1, <1>2 DEF ParIInv, ParTypeOK, Par!Locations
<1>7. ParPlaces'
  <2> SUFFICES ASSUME NEW q \in Par!Nodes
      PROVE /\ tpc'[q] = "unborn" => ip'[q] = 1
            /\ tpc'[q] \in {"park", "parked"} => ip'[q] \in DOMAIN script[q] /\ script[q][ip'[q]] = Parallel
            /\ \A k \in Subtests(q) :
                 tpc'[script[q][k]] = "unborn" <=> k > ip'[q] \/ (k = ip'[q] /\ tpc'[q] # "run")
    BY <1>1, <1>3 DEF ParPlaces, Par!Entry, Par!Nodes
  <2> QED BY <1>1, <1>2, <1>4, <1>5 DEF ParIInv, ParPlaces, Par!Entry
<1>8. ParBarriers'
  <2>1. p \notin barrier
    BY <1>1 DEF ParIInv, ParBarriers, Par!BodyDone
  <2> QED BY <2>1, <1>1, <1>2, <1>3 DEF ParIInv, ParTypeOK, ParBarriers, Par!BodyDone, Par!Nodes
<1>9. ParOrder'
  <2> SUFFICES ASSUME NEW q \in Par!Nodes, NEW k \in Subtests(q), ~Par!BodyDone(q)', k < ip'[q]
      PROVE  tpc'[script[q][k]] = "parked" \/ Par!BodyDone(script[q][k])'
    BY <1>1, <1>3 DEF ParOrder, Par!BodyDone, Par!Nodes
  <2>1. k < ip[q] /\ ~Par!BodyDone(q)
    <3>1. CASE q = p
      <4>1. k # ip[p] /\ k < ip[p] + 1 /\ ip[p] \in Nat /\ k \in Nat
        BY <3>1, <1>2, <1>4, <1>5
      <4> QED BY <3>1, <4>1, <1>1 DEF Par!BodyDone
    <3>2. CASE q # p
      BY <3>2, <1>2 DEF Par!BodyDone
    <3> QED BY <3>1, <3>2
  <2>2. script[q][k] # p
    BY <2>1, <1>5
  <2>3. tpc[script[q][k]] = "parked" \/ Par!BodyDone(script[q][k])
    BY <2>1 DEF ParIInv, ParOrder
  <2> QED BY <2>2, <2>3, <1>1, <1>2, <1>5 DEF Par!BodyDone
<1> QED BY <1>6, <1>7, <1>8, <1>9 DEF ParIInv

(* A send and a receive on an end: whoever runs a subtest goes on when that  *)
(* one is parked or done, whosever message it took.                          *)
LEMMA ParSync ==
  ASSUME ParIInv, NEW s \in ParallelTests, NEW r \in Par!Nodes, Par!Sync(s, r)
  PROVE  ParIInv'
<1>1. PICK x \in Par!Nodes : Par!Sends(s, x) /\ Par!Receives(r, x)
  BY DEF Par!Sync
<1>2. /\ tpc[s] \in {"park", "finish", "tell"} /\ tpc[r] \in {"run", "collect"} /\ s # r /\ s \in Par!Nodes
  BY <1>1 DEF Par!Sends, Par!Receives, Par!Nodes
<1>3. /\ tpc'[s] = Par!AfterSend(s) /\ tpc'[r] = Par!AfterReceive(r)
      /\ \A q \in Par!Nodes \ {s, r} : tpc'[q] = tpc[q]
      /\ tpc' \in [Par!Nodes -> Par!Locations]
      /\ UNCHANGED <<script, start, barrier>>
  BY <1>2 DEF Par!Sync, ParIInv, ParTypeOK, Par!AfterSend, Par!AfterReceive, Par!Locations
<1>4. /\ tpc[s] = "park" => tpc'[s] = "parked"
      /\ tpc[s] = "tell" => tpc'[s] = "finish"
      /\ tpc[s] = "finish" => tpc'[s] = "ended"
  BY <1>3 DEF Par!AfterSend
<1>5. /\ tpc[r] = "run" => tpc'[r] = "body"
      /\ tpc[r] # "run" => tpc'[r] \in {"ended", "collect", "tell", "finish"}
      /\ tpc'[r] = "tell" => r \in start /\ tpc[r] # "run"
  BY <1>3 DEF Par!AfterReceive
<1>6. /\ ip' \in [Par!Nodes -> Nat] /\ ip \in [Par!Nodes -> Nat]
      /\ ip'[r] = IF tpc[r] = "run" THEN ip[r] + 1 ELSE ip[r]
      /\ \A q \in Par!Nodes \ {r} : ip'[q] = ip[q]
  BY DEF Par!Sync, ParIInv, ParTypeOK
<1>7. /\ \A q : Subtests(q)' = Subtests(q)
      /\ \A t : Par!ParentOf(t)' = Par!ParentOf(t)
  BY <1>3, ParSameScript
<1>8. \A q \in Par!Nodes : \A k \in Subtests(q) : k \in Nat /\ script[q][k] \in Par!Nodes
  BY ParNames DEF ParIInv, Par!Nodes
<1>9. ParTypeOK'
  BY <1>3, <1>6 DEF ParIInv, ParTypeOK
<1>10. ParPlaces'
  <2> SUFFICES ASSUME NEW q \in Par!Nodes
      PROVE /\ tpc'[q] = "unborn" => ip'[q] = 1
            /\ tpc'[q] \in {"park", "parked"} => ip'[q] \in DOMAIN script[q] /\ script[q][ip'[q]] = Parallel
            /\ \A k \in Subtests(q) :
                 tpc'[script[q][k]] = "unborn" <=> k > ip'[q] \/ (k = ip'[q] /\ tpc'[q] # "run")
    BY <1>3, <1>7 DEF ParPlaces, Par!Entry, Par!Nodes
  <2>1. \A t \in Par!Nodes : (tpc'[t] = "unborn" <=> tpc[t] = "unborn") /\ (tpc'[t] = "run" => tpc[t] = "run")
    BY <1>2, <1>3, <1>4, <1>5
  <2>2. tpc'[q] \in {"park", "parked"} => tpc[q] \in {"park", "parked"} /\ q # r
    BY <1>2, <1>3, <1>4, <1>5
  <2>3. tpc'[q] = "unborn" => tpc[q] = "unborn" /\ q # r
    BY <1>2, <1>3, <1>4, <1>5
  <2>4. /\ tpc'[q] = "unborn" => ip'[q] = 1
        /\ tpc'[q] \in {"park", "parked"} => ip'[q] \in DOMAIN script[q] /\ script[q][ip'[q]] = Parallel
    BY <2>2, <2>3, <1>6 DEF ParIInv, ParPlaces, Par!Entry
  <2>5. ASSUME NEW k \in Subtests(q)
        PROVE  tpc'[script[q][k]] = "unborn" <=> k > ip'[q] \/ (k = ip'[q] /\ tpc'[q] # "run")
    <3>1. tpc[script[q][k]] = "unborn" <=> k > ip[q] \/ (k = ip[q] /\ tpc[q] # "run")
      BY DEF ParIInv, ParPlaces
    <3>2. tpc[q] = "run" => q = r \/ tpc'[q] = "run"
      BY <1>2, <1>3
    <3> QED BY <3>1, <3>2, <2>1, <1>2, <1>5, <1>6, <1>8
  <2> QED BY <2>4, <2>5
<1>11. \A t \in Par!Nodes : Par!BodyDone(t) => tpc'[t] \in {"collect", "tell", "finish", "ended"}
  BY <1>2, <1>3, <1>4, <1>5 DEF Par!BodyDone
<1>12. ParBarriers'
  <2>1. \A p \in barrier' : Par!BodyDone(p)'
    BY <1>3, <1>11 DEF ParIInv, ParTypeOK, ParBarriers, Par!BodyDone
  <2>2. ASSUME NEW t \in ParallelTests
        PROVE  /\ t \in start /\ tpc'[t] \notin {"park", "parked"} => Par!ParentOf(t) \in barrier
               /\ tpc'[t] = "tell" => t \in start
    <3>1. t \in Par!Nodes
      BY DEF Par!Nodes
    <3>2. tpc'[t] \notin {"park", "parked"} => tpc[t] \notin {"park", "parked"}
      BY <3>1, <1>2, <1>3, <1>4
    <3>3. tpc'[t] = "tell" => t \in start
      BY <3>1, <1>2, <1>3, <1>4, <1>5 DEF ParIInv, ParBarriers
    <3> QED BY <3>2, <3>3 DEF ParIInv, ParBarriers
  <2> QED BY <2>1, <2>2, <1>3, <1>7 DEF ParBarriers
<1>13. ParOrder'
  <2> SUFFICES ASSUME NEW q \in Par!Nodes, NEW k \in Subtests(q), ~Par!BodyDone(q)', k < ip'[q]
      PROVE  tpc'[script[q][k]] = "parked" \/ tpc'[script[q][k]] \in {"collect", "tell", "finish", "ended"}
    BY <1>3, <1>7 DEF ParOrder, Par!BodyDone, Par!Nodes
  <2>1. ~Par!BodyDone(q)
    BY <1>11 DEF Par!BodyDone
  <2>2. \A t \in Par!Nodes : tpc[t] = "parked" => tpc'[t] = "parked"
    BY <1>2, <1>3
  <2>3. CASE k < ip[q]
    BY <2>1, <2>2, <2>3, <1>8, <1>11 DEF ParIInv, ParOrder
  <2>4. CASE ~(k < ip[q])
    <3>1. q = r /\ tpc[r] = "run" /\ k = ip[r]
      <4>1. k \in Nat /\ ip[q] \in Nat
        BY <1>6, <1>8
      <4>2. q = r /\ tpc[r] = "run"
        BY <2>4, <1>6
      <4>3. k < ip[q] + 1
        BY <4>2, <1>6
      <4> QED BY <4>1, <4>2, <4>3, <2>4
    <3>2. x = script[q][k]
      BY <3>1, <1>1 DEF Par!Receives, Par!Entry
    <3>3. CASE tpc[s] = "tell"
      <4>1. s \in start /\ x = Par!ParentOf(s) /\ Par!ParentOf(s) \in barrier
        BY <3>3, <1>1 DEF Par!Sends, ParIInv, ParBarriers
      <4>2. Par!BodyDone(x)
        BY <4>1 DEF ParIInv, ParBarriers
      <4> QED BY <4>2, <3>2, <1>11
    <3>4. CASE tpc[s] \in {"park", "finish"}
      <4>1. x = s
        BY <3>4, <1>1 DEF Par!Sends
      <4> QED BY <4>1, <3>2, <3>4, <1>4
    <3> QED BY <3>3, <3>4, <1>2
  <2> QED BY <2>3, <2>4
<1> QED BY <1>9, <1>10, <1>12, <1>13 DEF ParIInv

LEMMA ParNextIInv == ParIInv /\ [Par!Next]_tparvars => ParIInv'
<1> SUFFICES ASSUME ParIInv, [Par!Next]_tparvars PROVE ParIInv'
  OBVIOUS
<1>1. ASSUME NEW t \in Par!Nodes, Par!Step(t) PROVE ParIInv'
  BY <1>1, ParRunChild, ParCall, ParUnpark, ParBodyEnds DEF Par!Step
<1>2. ASSUME NEW s \in ParallelTests, NEW r \in Par!Nodes, Par!Sync(s, r) PROVE ParIInv'
  BY <1>2, ParSync
<1>3. CASE UNCHANGED tparvars
  <2>1. /\ \A q : Subtests(q)' = Subtests(q)
        /\ \A t : Par!ParentOf(t)' = Par!ParentOf(t)
        /\ UNCHANGED <<script, tpc, ip, start, barrier>>
    BY <1>3, ParSameScript DEF tparvars
  <2>2. ParTypeOK' /\ ParPlaces' /\ ParOrder'
    BY <2>1 DEF ParIInv, ParTypeOK, ParPlaces, ParOrder, Par!Entry, Par!BodyDone
  <2>3. ParBarriers'
    BY <2>1 DEF ParIInv, ParBarriers, Par!BodyDone
  <2> QED BY <2>2, <2>3 DEF ParIInv
<1> QED BY <1>1, <1>2, <1>3 DEF Par!Next

(* What a step of tparallel may do: only t.Run starts a test, and only the   *)
(* barrier of its parent lets one leave Parallel.                            *)
LEMMA ParSteps ==
  ASSUME ParIInv, [Par!Next]_tparvars
  PROVE  Par!StartsInOrder /\ Par!ParallelAfterParent
<1>1. ASSUME NEW t \in Par!Nodes, tpc[t] = "unborn", tpc'[t] = "body"
      PROVE  \E p \in Par!Nodes : Par!RunChild(p) /\ t = Par!Entry(p)
  <2>1. ASSUME NEW s \in ParallelTests, NEW r \in Par!Nodes, Par!Sync(s, r) PROVE FALSE
    <3>1. tpc[s] # "unborn" /\ tpc[r] # "unborn"
      BY <2>1 DEF Par!Sync, Par!Sends, Par!Receives
    <3>2. t # s /\ t # r
      BY <3>1, <1>1
    <3>3. tpc'[t] = tpc[t]
      BY <2>1, <3>2 DEF Par!Sync, ParIInv, ParTypeOK
    <3> QED BY <3>3, <1>1
  <2>2. ASSUME NEW p \in Par!Nodes, Par!CallParallel(p) \/ Par!Unpark(p) \/ Par!BodyEnds(p) PROVE FALSE
    <3>1. tpc[p] # "unborn" /\ \E to : tpc' = [tpc EXCEPT ![p] = to]
      BY <2>2 DEF Par!CallParallel, Par!Unpark, Par!BodyEnds, Par!Go, Par!AtEntry
    <3> QED BY <3>1, <1>1 DEF ParIInv, ParTypeOK
  <2>3. ~UNCHANGED tparvars
    BY <1>1 DEF tparvars
  <2>4. PICK p \in Par!Nodes : Par!RunChild(p)
    BY <2>1, <2>2, <2>3 DEF Par!Next, Par!Step
  <2>5. tpc' = [tpc EXCEPT ![p] = "run", ![Par!Entry(p)] = "body"]
    BY <2>4 DEF Par!RunChild
  <2>6. t = p \/ t = Par!Entry(p)
    BY <2>5, <1>1 DEF ParIInv, ParTypeOK
  <2>7. tpc[p] = "body"
    BY <2>4 DEF Par!RunChild, Par!AtEntry
  <2> QED BY <2>4, <2>6, <2>7, <1>1
<1>2. ASSUME NEW t \in Par!Nodes, tpc[t] = "parked", tpc'[t] = "body"
      PROVE  Par!ParentOf(t) \in barrier
  <2>1. ASSUME NEW s \in ParallelTests, NEW r \in Par!Nodes, Par!Sync(s, r) PROVE FALSE
    <3>1. tpc[s] # "parked" /\ tpc[r] # "parked"
      BY <2>1 DEF Par!Sync, Par!Sends, Par!Receives
    <3>2. t # s /\ t # r
      BY <3>1, <1>2
    <3>3. tpc'[t] = tpc[t]
      BY <2>1, <3>2 DEF Par!Sync, ParIInv, ParTypeOK
    <3> QED BY <3>3, <1>2
  <2>2. ASSUME NEW p \in Par!Nodes, Par!CallParallel(p) \/ Par!BodyEnds(p) PROVE FALSE
    <3>1. tpc[p] # "parked" /\ \E to : tpc' = [tpc EXCEPT ![p] = to]
      BY <2>2 DEF Par!CallParallel, Par!BodyEnds, Par!AtEntry
    <3> QED BY <3>1, <1>2 DEF ParIInv, ParTypeOK
  <2>3. ASSUME NEW p \in Par!Nodes, Par!RunChild(p) PROVE FALSE
    <3>1. tpc' = [tpc EXCEPT ![p] = "run", ![Par!Entry(p)] = "body"] /\ tpc[p] = "body"
      BY <2>3 DEF Par!RunChild, Par!AtEntry
    <3>2. tpc[Par!Entry(p)] = "unborn"
      BY <2>3, ParNextSubtest DEF Par!RunChild
    <3> QED BY <3>1, <3>2, <1>2 DEF ParIInv, ParTypeOK
  <2>4. ~UNCHANGED tparvars
    BY <1>2 DEF tparvars
  <2>5. PICK p \in Par!Nodes : Par!Unpark(p)
    BY <2>1, <2>2, <2>3, <2>4 DEF Par!Next, Par!Step
  <2>6. tpc' = [tpc EXCEPT ![p] = "body"] /\ Par!ParentOf(p) \in barrier
    BY <2>5 DEF Par!Unpark, Par!Go
  <2>7. t = p
    BY <2>6, <1>2 DEF ParIInv, ParTypeOK
  <2> QED BY <2>6, <2>7
<1>3. \A t \in Par!Used : t \in Par!Nodes
  <2>1. \A p \in Par!Nodes : script[p] \in Seq(ParallelTests \union {Parallel})
    BY TestScripts DEF ParIInv, ParTypeOK
  <2>2. \A p \in Par!Nodes : Par!Entries(p) \subseteq ParallelTests \union {Parallel}
    BY <2>1 DEF Par!Entries
  <2>3. \A t \in Par!Used : t # Parallel /\ \E p \in Par!Nodes : t \in Par!Entries(p)
    BY DEF Par!Used
  <2> QED BY <2>2, <2>3 DEF Par!Nodes
<1>4. Par!ParallelAfterParent
  <2> SUFFICES ASSUME NEW t \in Par!Used, tpc[t] = "parked", tpc'[t] = "body"
      PROVE  Par!BodyDone(Par!ParentOf(t))
    BY DEF Par!ParallelAfterParent
  <2> QED BY <1>2, <1>3 DEF ParIInv, ParBarriers
<1>5. Par!StartsInOrder
  <2> SUFFICES ASSUME NEW t \in Par!Used, tpc[t] = "unborn", tpc'[t] = "body",
                      NEW i \in 1 .. (ip[Par!ParentOf(t)] - 1), script[Par!ParentOf(t)][i] # Parallel
      PROVE  Par!BodyDone(script[Par!ParentOf(t)][i]) \/ tpc[script[Par!ParentOf(t)][i]] = "parked"
    BY DEF Par!StartsInOrder
  <2>1. PICK p \in Par!Nodes : Par!RunChild(p) /\ t = Par!Entry(p)
    BY <1>1, <1>3
  <2>2. ip[p] \in Subtests(p) /\ t = script[p][ip[p]] /\ tpc[p] = "body"
    BY <2>1, ParNextSubtest DEF Par!RunChild, Par!AtEntry
  <2>3. Par!ParentOf(t) = p
    BY <2>2, ParNames DEF ParIInv
  <2>4. ip[p] \in Nat /\ script[p] \in Seq(ParallelTests \union {Parallel})
    BY TestScripts DEF ParIInv, ParTypeOK
  <2>5. i \in Subtests(p) /\ i < ip[p]
    <3>1. ip[p] \in 1 .. Len(script[p])
      BY <2>2, <2>4 DEF Subtests
    <3> QED BY <3>1, <2>3, <2>4 DEF Subtests
  <2>6. ~Par!BodyDone(p)
    BY <2>2 DEF Par!BodyDone
  <2> QED BY <2>3, <2>5, <2>6 DEF ParIInv, ParOrder
<1> QED BY <1>4, <1>5

-------------------------------------------------------------------------------
(***************************************************************************)
(* once.  CalledOnce is not inductive: it holds because the token is spent *)
(* before f is called and never comes back, and a Do gets past the receive *)
(* only on a channel that the one caller closed after f ended.             *)
(***************************************************************************)
AtF(g) == opc[g] \in {"calling", "exit"} \/ g \in inner

OnceIInv ==
  /\ onec \in {"token", "empty", "closed"} /\ opc \in [Goroutines -> One!Locations]
  /\ inner \subseteq Goroutines /\ fcalls \in Nat /\ fended \in BOOLEAN
  /\ onec = "token" => fcalls = 0 /\ ~fended /\ \A g \in Goroutines : ~AtF(g)
  /\ onec # "token" => fcalls = 1
  /\ onec = "closed" => fended /\ \A g \in Goroutines : ~AtF(g)
  /\ \A g \in Goroutines : opc[g] = "exit" => fended
  /\ \A g \in Goroutines : opc[g] = "calling" => ~fended
  /\ \A g \in inner : opc[g] = "receive"
  /\ inner # {} => ~fended
  /\ \A g, h \in Goroutines : AtF(g) /\ AtF(h) => g = h

LEMMA OnceInit == One!Init => OnceIInv
<1> SUFFICES ASSUME One!Init PROVE OnceIInv
  OBVIOUS
<1>1. opc \in [Goroutines -> One!Locations] /\ \A g \in Goroutines : ~AtF(g) /\ opc[g] = "idle"
  BY DEF One!Init, One!Locations, AtF
<1>2. onec = "token" /\ inner = {} /\ fcalls = 0 /\ ~fended /\ fended \in BOOLEAN
  BY DEF One!Init
<1> QED BY <1>1, <1>2 DEF OnceIInv

LEMMA OnceNextIInv == OnceIInv /\ [One!Next]_oncevars => OnceIInv'
<1> SUFFICES ASSUME OnceIInv, [One!Next]_oncevars PROVE OnceIInv'
  OBVIOUS
<1> USE DEF OnceIInv, One!Locations, AtF, One!Go
<1>1. ASSUME NEW g \in Goroutines, One!CallDo(g) PROVE OnceIInv'
  BY <1>1 DEF One!CallDo
<1>2. ASSUME NEW g \in Goroutines, One!TakeToken(g) PROVE OnceIInv'
  BY <1>2 DEF One!TakeToken
<1>3. ASSUME NEW g \in Goroutines, One!SkipCall(g) PROVE OnceIInv'
  BY <1>3 DEF One!SkipCall
<1>4. ASSUME NEW g \in Goroutines, One!FEnds(g) PROVE OnceIInv'
  BY <1>4 DEF One!FEnds
<1>5. ASSUME NEW g \in Goroutines, One!FReenters(g) PROVE OnceIInv'
  BY <1>5 DEF One!FReenters
<1>6. ASSUME NEW g \in Goroutines, One!CloseAndReturn(g) PROVE OnceIInv'
  BY <1>6 DEF One!CloseAndReturn
<1>7. CASE UNCHANGED oncevars
  BY <1>7 DEF oncevars
<1> QED BY <1>1, <1>2, <1>3, <1>4, <1>5, <1>6, <1>7 DEF One!Next, One!Step

(* A step in which a Do returns is a SkipCall or a CloseAndReturn.           *)
LEMMA OnceReturnSteps ==
  ASSUME OnceIInv, [One!Next]_oncevars, NEW g \in Goroutines, One!Returns(g)
  PROVE  (One!SkipCall(g) \/ One!CloseAndReturn(g)) /\ inner \subseteq {g}
<1> USE DEF OnceIInv, One!Returns, One!Go
<1>1. ASSUME NEW h \in Goroutines, One!CallDo(h) \/ One!TakeToken(h) \/ One!FEnds(h) \/ One!FReenters(h) PROVE FALSE
  BY <1>1 DEF One!CallDo, One!TakeToken, One!FEnds, One!FReenters
<1>2. ASSUME NEW h \in Goroutines, One!SkipCall(h) PROVE h = g /\ inner = {}
  BY <1>2 DEF One!SkipCall, AtF
<1>3. ASSUME NEW h \in Goroutines, One!CloseAndReturn(h) PROVE h = g /\ inner \subseteq {g}
  BY <1>3 DEF One!CloseAndReturn, AtF
<1>4. ~UNCHANGED oncevars
  BY DEF oncevars
<1> QED BY <1>1, <1>2, <1>3, <1>4 DEF One!Next, One!Step

(* No Do returns before the one call of f has ended, and none returns once f *)
(* has called Do.                                                            *)
LEMMA OnceSteps ==
  ASSUME OnceIInv, [One!Next]_oncevars
  PROVE  One!NoReturnBeforeF /\ One!ReentryDeadlocks
<1>1. ASSUME NEW g \in Goroutines, One!Returns(g) PROVE fended /\ inner = {}
  <2>1. (One!SkipCall(g) \/ One!CloseAndReturn(g)) /\ inner \subseteq {g}
    BY <1>1, OnceReturnSteps
  <2>2. g \notin inner
    BY <2>1 DEF OnceIInv, One!SkipCall, One!CloseAndReturn, One!Go, AtF
  <2> QED BY <2>1, <2>2 DEF OnceIInv, One!SkipCall, One!CloseAndReturn, One!Go
<1> QED BY <1>1 DEF One!NoReturnBeforeF, One!ReentryDeadlocks

-------------------------------------------------------------------------------
(* The program that runs starts as its module says, and every step is one of *)
(* that program: what the others say of themselves stays true of it.         *)
Parts ==
  /\ Is("du") => DuIInv
  /\ Is("memo") => MemoIInv
  /\ Is("chat") => ChatIInv
  /\ Is("wscat") => WscatIInv
  /\ Is("middleware") => WebIInv
  /\ Is("shortener") => ShortIInv
  /\ Is("fixtures") => FixIInv
  /\ Is("pipelines") => PipeIInv
  /\ Is("sqlpool") => SqlIInv
  /\ Is("dupcall") => DupIInv
  /\ Is("tparallel") => ParIInv
  /\ Is("once") => OnceIInv

LEMMA OwnInit ==
  ASSUME Init
  PROVE  /\ Is("du") => Walk!DuInit
         /\ Is("memo") => Cache!MemoInit
         /\ Is("chat") => Talk!ChatInit
         /\ Is("wscat") => Cat!WscatInit
         /\ Is("middleware") => Web!WebInit
         /\ Is("shortener") => Short!ShortInit
         /\ Is("fixtures") => Fix!FixInit
         /\ Is("pipelines") => Pipe!PipeInit
         /\ Is("sqlpool") => Sql!SqlInit
         /\ Is("dupcall") => Dup!Init
         /\ Is("tparallel") => Par!Init
         /\ Is("once") => One!Init
BY DEF Init

LEMMA OwnStep ==
  ASSUME [Next]_vars
  PROVE  /\ UNCHANGED program
         /\ Is("du") => [Walk!DuNext]_duvars
         /\ Is("memo") => [Cache!MemoNext]_memovars
         /\ Is("chat") => [Talk!ChatNext]_chatvars
         /\ Is("wscat") => [Cat!WscatNext]_wscatvars
         /\ Is("middleware") => [Web!WebNext]_webvars
         /\ Is("shortener") => [Short!ShortNext]_shortvars
         /\ Is("fixtures") => [Fix!FixNext]_fixvars
         /\ Is("pipelines") => [Pipe!PipeNext]_pipevars
         /\ Is("sqlpool") => [Sql!SqlNext]_sqlvars
         /\ Is("dupcall") => [Dup!Next]_dupvars
         /\ Is("tparallel") => [Par!Next]_tparvars
         /\ Is("once") => [One!Next]_oncevars
<1>1. CASE UNCHANGED vars
  BY <1>1 DEF vars
<1>2. CASE DuNext
  BY <1>2 DEF DuNext, Is
<1>3. CASE MemoNext
  BY <1>3 DEF MemoNext, Is
<1>4. CASE ChatNext
  BY <1>4 DEF ChatNext, Is
<1>5. CASE WscatNext
  BY <1>5 DEF WscatNext, Is
<1>6. CASE WebNext
  BY <1>6 DEF WebNext, Is
<1>7. CASE ShortNext
  BY <1>7 DEF ShortNext, Is
<1>8. CASE FixNext
  BY <1>8 DEF FixNext, Is
<1>9. CASE PipeNext
  BY <1>9 DEF PipeNext, Is
<1>10. CASE SqlNext
  BY <1>10 DEF SqlNext, Is
<1>11. CASE DupNext
  BY <1>11 DEF DupNext, Is, OthersThanDup
<1>12. CASE ParNext
  BY <1>12 DEF ParNext, Is
<1>13. CASE OnceNext
  BY <1>13 DEF OnceNext, Is, OthersThanOnce
<1> QED BY <1>1, <1>2, <1>3, <1>4, <1>5, <1>6, <1>7, <1>8, <1>9, <1>10, <1>11, <1>12, <1>13 DEF Next

LEMMA AlwaysParts == Spec => []Parts
<1>1. Init => Parts
  BY OwnInit, DuInitIInv, MemoInitIInv, ChatInitIInv, WscatInitIInv, WebInitIInv, ShortInitIInv, FixInitIInv, PipeInitIInv, SqlInitIInv, DupInit, ParInit, OnceInit DEF Parts
<1>2. Parts /\ [Next]_vars => Parts'
  <2> SUFFICES ASSUME Parts, [Next]_vars PROVE Parts'
    OBVIOUS
  <2>1. UNCHANGED program
    BY OwnStep
  <2>2. ASSUME Is("du") PROVE DuIInv'
    BY <2>2, OwnStep, DuNextIInv DEF Parts
  <2>3. ASSUME Is("memo") PROVE MemoIInv'
    BY <2>3, OwnStep, MemoNextIInv DEF Parts
  <2>4. ASSUME Is("chat") PROVE ChatIInv'
    BY <2>4, OwnStep, ChatNextIInv DEF Parts
  <2>5. ASSUME Is("wscat") PROVE WscatIInv'
    BY <2>5, OwnStep, WscatNextIInv DEF Parts
  <2>6. ASSUME Is("middleware") PROVE WebIInv'
    BY <2>6, OwnStep, WebNextIInv DEF Parts
  <2>7. ASSUME Is("shortener") PROVE ShortIInv'
    BY <2>7, OwnStep, ShortNextIInv DEF Parts
  <2>8. ASSUME Is("fixtures") PROVE FixIInv'
    BY <2>8, OwnStep, FixNextIInv DEF Parts
  <2>9. ASSUME Is("pipelines") PROVE PipeIInv'
    BY <2>9, OwnStep, PipeNextIInv DEF Parts
  <2>10. ASSUME Is("sqlpool") PROVE SqlIInv'
    BY <2>10, OwnStep, SqlNextIInv DEF Parts
  <2>11. ASSUME Is("dupcall") PROVE DupIInv'
    BY <2>11, OwnStep, DupNextIInv DEF Parts
  <2>12. ASSUME Is("tparallel") PROVE ParIInv'
    BY <2>12, OwnStep, ParNextIInv DEF Parts
  <2>13. ASSUME Is("once") PROVE OnceIInv'
    BY <2>13, OwnStep, OnceNextIInv DEF Parts
  <2> QED BY <2>1, <2>2, <2>3, <2>4, <2>5, <2>6, <2>7, <2>8, <2>9, <2>10, <2>11, <2>12, <2>13 DEF Parts, Is
<1> QED BY <1>1, <1>2, PTL DEF Spec

(* Nobody sends on a channel somebody has closed, or closes one twice, in    *)
(* du, chat and the small pipelines, and what these print is in order        *)
(* (ChannelsSafe).                                                           *)
THEOREM ChannelsAlwaysSafe == Spec => []ChannelsSafe
<1>1. Parts => ChannelsSafe
  BY DuNoSend, ChatSafe, PipeRight DEF Parts, ChannelsSafe
<1> QED BY <1>1, AlwaysParts, PTL

(* What du, memo, wscat, the middlewares, the shortener and the dao answer   *)
(* is right however their goroutines interleave (ResultsRight).              *)
THEOREM ResultsAlwaysRight == Spec => []ResultsRight
<1>1. WscatIInv => Cat!WscatExits
  BY DEF WscatIInv
<1>2. Parts => ResultsRight
  BY <1>1, DuTotals, MemoRight, WebRight, ShortRight, SqlRight DEF Parts, ResultsRight
<1> QED BY <1>2, AlwaysParts, PTL

(* The fixtures leave no server, and the calls over a database no connection *)
(* but for those that are there to leak one (NothingLeft).                   *)
THEOREM NothingEverLeft == Spec => []NothingLeft
<1>1. Parts => NothingLeft
  BY FixRight, SqlRight DEF Parts, NothingLeft
<1> QED BY <1>1, AlwaysParts, PTL

(* once calls f at most once, whoever races and however f ends.  One         *)
(* callback of dupcall runs at a time, and is cancelled when all who wait    *)
(* for it are (CallbacksRight).                                              *)
THEOREM CallbacksAlwaysRight == Spec => []CallbacksRight
<1>1. Parts => CallbacksRight
  BY DupRight DEF Parts, CallbacksRight, OnceIInv, One!CalledOnce
<1> QED BY <1>1, AlwaysParts, PTL

(* A test of tparallel starts when the earlier ones of its function have     *)
(* ended or are parked, and a parked one goes on when the function of its    *)
(* parent has ended, whatever the tests are (TestsInOrder).                  *)
THEOREM TestsAlwaysInOrder == Spec => TestsInOrder
<1>1. ASSUME Parts, [Next]_vars, Is("tparallel") PROVE Par!StartsInOrder /\ Par!ParallelAfterParent
  BY <1>1, OwnStep, ParSteps DEF Parts
<1>2. Parts /\ [Next]_vars => [Is("tparallel") => Par!StartsInOrder /\ Par!ParallelAfterParent]_tparvars
  BY <1>1
<1> QED BY <1>2, AlwaysParts, PTL DEF Spec, TestsInOrder

(* No Do of once returns before the one call of f has ended                  *)
(* (NoReturnBeforeF).                                                        *)
THEOREM WaitsForF == Spec => NoReturnBeforeF
<1>1. ASSUME Parts, [Next]_vars, Is("once") PROVE One!NoReturnBeforeF
  BY <1>1, OwnStep, OnceSteps DEF Parts
<1>2. Parts /\ [Next]_vars => [Is("once") => One!NoReturnBeforeF]_oncevars
  BY <1>1
<1> QED BY <1>2, AlwaysParts, PTL DEF Spec, NoReturnBeforeF

(* When f has called Do no Do returns any more.                              *)
THEOREM Reentry == Spec => [][Is("once") => One!ReentryDeadlocks]_oncevars
<1>1. ASSUME Parts, [Next]_vars, Is("once") PROVE One!ReentryDeadlocks
  BY <1>1, OwnStep, OnceSteps DEF Parts
<1>2. Parts /\ [Next]_vars => [Is("once") => One!ReentryDeadlocks]_oncevars
  BY <1>1
<1> QED BY <1>2, AlwaysParts, PTL DEF Spec
===============================================================================
