--------------------------------- MODULE MCTools ------------------------------
(* Small instances of the tools, for TLC.                                    *)
EXTENDS Tools

(* testtool: four tasks: one whose tests are partly private, one that asks   *)
(* for coverage and watches a common directory, one whose test does not      *)
(* parse, one without a private directory.                                   *)
Plain(n) ==
  [name |-> n, go |-> TRUE, test |-> FALSE, main |-> FALSE, proto |-> FALSE, data |-> FALSE,
   pkg |-> "p", need |-> {}, no |-> {}, parses |-> TRUE, comments |-> <<>>, owner |-> "course"]
Test(n, need) == [Plain(n) EXCEPT !.test = TRUE, !.need = need]
Comment(form, words, percent) == [form |-> form, words |-> words, percent |-> percent]
Other(n) == [Plain(n) EXCEPT !.go = FALSE]

MCPrivate ==
  [t \in {"a", "b", "c"} |->
     CASE t = "a" ->
            {Test("a1_test", {}), Test("a2_test", {"private"}), Plain("sol"),
             [Plain("base") EXCEPT !.no = {"change"}], [Other("testdata") EXCEPT !.data = TRUE]}
       [] t = "b" ->
            {[Test("b_test", {}) EXCEPT !.comments = <<Comment(TRUE, 1, 90), Comment(TRUE, 2, 70)>>],
             [Plain("cmd") EXCEPT !.main = TRUE]}
       [] t = "c" -> {[Test("c_test", {}) EXCEPT !.parses = FALSE]}]

OfStudent(fs) == {[f EXCEPT !.owner = "student"] : f \in fs}
MCStudent ==
  [t \in {"a", "b", "c", "d"} |-> OfStudent(
     {Other("go.mod"), Plain("sol"), Test("own_test", {})}
       \union (IF t = "a" THEN {Plain("a1_test"), Plain("base"), Other("testdata")} ELSE {}))]
MCModules == {Other("go.mod"), Other("go.sum")}

TaskOf(n, w) == [name |-> n, watch |-> w]
MCSchedule == << <<TaskOf("a", {}), TaskOf("b", {<<"lib">>})>>, <<TaskOf("c", {<<"lib", "x">>}), TaskOf("d", {})>> >>
MCChanges == {{}, {<<"a", "sol">>}, {<<"a", "sol">>, <<"b", "sol">>}, {<<"library", "x">>}, {<<"c", "sol">>, <<"lib", "x">>}, {<<"d", "sol">>, <<"a", "sol">>}}
MCNameOrder == <<"a", "a1_test", "a2_test", "b", "b_test", "c", "c_test", "d", "own_test">>
MCNamePrefix == {<<"lib", "library">>}

Block(i, n, c) == [id |-> i, stmts |-> n, count |-> c]
MCProfiles == {{Block(1, 3, 1), Block(2, 2, 0)}, {Block(1, 3, 0), Block(2, 2, 2)}, {Block(1, 3, 2), Block(2, 2, 1)}}

(* export: a tree with a file of every kind; the second file needs solution  *)
(* and may be named by .private as well.                                     *)
Tree == {Plain("sol"), [Plain("secret") EXCEPT !.need = {"solution"}], [Plain("pkg") EXCEPT !.no = {"solution"}],
         Test("a2_test", {"private"}), [Other("x.proto") EXCEPT !.proto = TRUE, !.need = {"solution"}], Other(".private")}
MCTrees     == {Tree, {Plain("sol")}}
MCConfigs   == {{}, {".private"}, {"secret"}}
MCPublished == {Plain("old")}

(* gitfame: two authors of three commits, and what git may say of a file.   *)
MCAuthor == [c \in {"c1", "c2", "c3"} |-> IF c = "c3" THEN 2 ELSE 1]

H(c, n) == [commit |-> c, lines |-> n]
Blamed(hunks) == [kind |-> "blame", hunks |-> hunks]

MCOutputs ==
  { Blamed(<<H("c1", 2)>>),
    Blamed(<<H("c3", 1), H("c2", 1)>>),
    Blamed(<<H("c2", 1), H("c2", 1), H("c3", 2)>>),
    [kind |-> "empty", hunks |-> <<H("c1", 0)>>],
    [kind |-> "empty", hunks |-> <<H("c3", 0)>>],
    [kind |-> "failed", hunks |-> <<>>],
    [kind |-> "nolog", hunks |-> <<>>] }
===============================================================================
