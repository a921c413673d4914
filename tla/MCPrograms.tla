------------------------------- MODULE MCPrograms -----------------------------
(* Small instances of the concurrent programs, for TLC.                      *)
EXTENDS Programs

(* du: two directories on the command line, one with a subdirectory          *)
MCTree == [dir \in {"r", "s", "t"} |->
             CASE dir = "r" -> {"s", "f"} [] dir = "s" -> {"g"} [] dir = "t" -> {"h"}]

(* middleware: requests that are served, refused, counted, and that panic    *)
Visit(p, token, check, h) == [path |-> p, token |-> token, check |-> check, handler |-> h]
Fine    == Visit("/a", "Bearer", "ok", "ok")
Panics  == Visit("/a", "Bearer", "ok", "panic")
Invalid == Visit("/user/1", "Bearer", "ErrInvalidToken", "ok")
Errs    == Visit("/user/2", "Bearer", "error", "ok")
Unnamed == Visit("", "Basic", "ok", "ok")
Metrics == Visit("/metrics", "", "", "metrics")
MCLoads == {<<Fine, Panics, Metrics>>, <<Invalid, Errs, Metrics>>, <<Fine, Unnamed, Invalid>>, <<Panics, Metrics, Metrics>>}

(* test fixtures, and the channels MergeChans merges                         *)
MCMixes == {<<"redis", "redis">>, <<"redis", "pg">>, <<"pg", "port">>}
MCInputs == [w \in {"w1", "w2"} |-> IF w = "w1" THEN <<1, 2>> ELSE <<3>>]
MCFeeder == [w \in {"w1", "w2"} |-> IF w = "w1" THEN "f1" ELSE "f2"]

-------------------------------------------------------------------------------
(* tparallel: small programs with the shapes of the package's tests, and     *)
(* programs the README allows and no test has                                *)
P == "P"
TestSet == {"a", "b", "c", "d", "e", "f"}

\* the scripts of Run and of some tests; the others do nothing
Program(root, sub) ==
  [t \in {"Run"} \union TestSet |->
     IF t = "Run" THEN root ELSE IF t \in DOMAIN sub THEN sub[t] ELSE <<>>]

\* TestSequentialExecution, TestSequentialSubTests
Sequences3 == Program(<<"a", "b", "c">>, [d |-> <<>>])
SubTests   == Program(<<"a", "b">>, [a |-> <<"c", "d">>, c |-> <<"e">>])
\* TestParallelExecution
Parallel3 == Program(<<"a", "b", "c">>, [a |-> <<P>>, b |-> <<P>>, c |-> <<P>>])
\* TestTwoParallelSequences
TwoSequences == Program(<<"a", "b">>, [a |-> <<P, "c", "d">>, b |-> <<P, "e", "f">>])
\* TestParallelGroup, with two parallel tests for ten
Group2 == Program(<<"a", "b", "c">>, [b |-> <<"d">>, d |-> <<"e", "f">>, e |-> <<P>>, f |-> <<P>>])
\* one parallel test between sequential ones
OneParallel == Program(<<"a", "b", "c">>, [a |-> <<P, "d">>])
\* a parallel test with parallel subtests
Nested == Program(<<"a">>, [a |-> <<P, "b">>, b |-> <<P>>])

TestPrograms == {Sequences3, SubTests, Parallel3, TwoSequences, Group2, OneParallel}
AllPrograms  == TestPrograms \union {Nested}
===============================================================================
