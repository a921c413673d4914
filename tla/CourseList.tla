-------------------------------- MODULE CourseList ----------------------------
(***************************************************************************)
(* hogwarts.GetCourseList: depth first over prereqs, a map from a course   *)
(* to the courses it needs, with the calls of dfs in frames.  The order of *)
(* the range over the map is any, as is that of a list of needs.           *)
(***************************************************************************)
EXTENDS Integers, Sequences, Functions

CONSTANT Names

VARIABLES
  prereqs,
  roots,          \* the keys the range has not come to
  frames,         \* the calls that are open: their course, and what todo is left of its needs
  colors,         \* 0, 1 while dfs is in the course, 2 when it has left it
  answer, panicked
coursevars == <<prereqs, roots, frames, colors, answer, panicked>>

Needs(c) == IF c \in DOMAIN prereqs THEN prereqs[c] ELSE {}
Call(v) == [course |-> v, todo |-> Needs(v)]
dfs == frames[Len(frames)]
Left == roots = {} /\ frames = <<>>

CourseInit ==
  /\ prereqs \in UNION {[C -> SUBSET Names] : C \in SUBSET Names}
  /\ roots = DOMAIN prereqs /\ frames = <<>> /\ colors = [c \in Names |-> 0] /\ answer = <<>> /\ panicked = FALSE

Root(k) ==
  /\ ~panicked /\ frames = <<>> /\ k \in roots
  /\ roots' = roots \ {k}
  /\ frames' = (IF colors[k] = 0 THEN <<Call(k)>> ELSE frames)
  /\ colors' = (IF colors[k] = 0 THEN [colors EXCEPT ![k] = 1] ELSE colors)
  /\ UNCHANGED <<prereqs, answer, panicked>>

\* one round of the loop over what the course needs; a cycle ends it all
Neighbour(n) ==
  /\ ~panicked /\ frames # <<>> /\ n \in dfs.todo
  /\ LET rest == [frames EXCEPT ![Len(frames)] = [course |-> dfs.course, todo |-> dfs.todo \ {n}]]
     IN  frames' = IF colors[n] = 0 THEN Append(rest, Call(n)) ELSE rest
  /\ colors' = (IF colors[n] = 0 THEN [colors EXCEPT ![n] = 1] ELSE colors)
  /\ panicked' = (colors[n] = 1)
  /\ UNCHANGED <<prereqs, roots, answer>>

Return ==
  /\ ~panicked /\ frames # <<>> /\ dfs.todo = {}
  /\ colors' = [colors EXCEPT ![dfs.course] = 2]
  /\ answer' = Append(answer, dfs.course)
  /\ frames' = SubSeq(frames, 1, Len(frames) - 1)
  /\ UNCHANGED <<prereqs, roots, panicked>>

CourseNext == \/ \E c \in Names : Root(c) \/ Neighbour(c)
              \/ Return

-------------------------------------------------------------------------------
Courses == DOMAIN prereqs \union UNION Range(prereqs)
\* a cycle: a set of courses each of which needs another of the set
Cyclic == \E S \in SUBSET Courses : S # {} /\ \A c \in S : Needs(c) \intersect S # {}

(* Every course comes once, after all it needs; a cycle, and only that, is   *)
(* a panic, whatever course the map begins with.                             *)
CoursesRight ==
  /\ panicked => Cyclic
  /\ Left => ~Cyclic /\ Range(answer) = Courses
  /\ \A i \in DOMAIN answer : Needs(answer[i]) \subseteq {answer[j] : j \in 1 .. i - 1}
  /\ IsInjective(answer)
===============================================================================
