--------------------------------- MODULE Grader -------------------------------
(***************************************************************************)
(* testtool grade and testtool check-task: find the tasks the last commit  *)
(* touched, test each in a temporary repository made of the student's and  *)
(* the private repository's files, and report the passed ones to the       *)
(* course's server, which may answer, refuse, or lose the answer.          *)
(*                                                                         *)
(* git, go, the linter, rsync and the server are external: each call ends  *)
(* well or badly.  log.Fatal ends the process at once, without deferred    *)
(* calls; a panic runs them.                                               *)
(***************************************************************************)
EXTENDS Naturals, Packages

CONSTANTS
  Schedule,      \* .manytask.yml: a sequence of groups, each a sequence of tasks [name, watch]
  Changes,       \* the sets of paths the last commit may have touched
  NameOrder,     \* the names of tasks and files in the order of sort.Strings
  NamePrefix,    \* the pairs of names of which the first is a proper prefix of the second
  Private,       \* task -> the files of its directory in the private repository, if it has one
  Student,       \* task -> the files of the student's repository, root files included
  Modules,       \* go.mod, go.sum and .golangci.yml of the private repository
  Profiles       \* the coverage profiles a test may write: blocks [id, stmts, count]

VARIABLES
  command,   \* "grade" or "check-task"
  pc,
  changed,   \* the paths git lists
  left,      \* the tasks still to be tested
  task,      \* the one being tested
  tmp,       \* the files of tmpRepo, {} when there is none
  todo,      \* the test packages whose binaries have not run; the current one is pkg
  pkg,
  profiles,  \* coverProfiles, as their contents
  result,    \* what testSubmission returned: "nil", "failed" (TestFailedError) or "error"
  failed,    \* grade's variable
  tries,     \* requests reportTestResults may still make
  reports,   \* task -> how often the server recorded it as solved
  passed,    \* history: the tasks that went through every stage
  tested,    \* history: the tasks testSubmission returned for
  exit       \* how the process ended: "", "ok", "failed", "fatal" or "panic"

grading  == <<command, changed, left, task, failed, tries, reports>>
testing  == <<tmp, todo, pkg, profiles, result, passed, tested>>
vars == <<grading, testing, pc, exit>>

InOrder(names) == SelectSeq(NameOrder, LAMBDA n : n \in names)
Goto(from, to) == pc = from /\ pc' = to

Tasks == UNION {{Schedule[g][i] : i \in DOMAIN Schedule[g]} : g \in DOMAIN Schedule}
Names == DOMAIN Private \union {t.name : t \in Tasks}

Init ==
  /\ \/ command = "grade" /\ pc = "changes" /\ task = ""
     \/ command = "check-task" /\ pc = "student" /\ task \in DOMAIN Private
  /\ left = {} /\ changed = {} /\ failed = FALSE /\ tries = 0
  /\ reports = [t \in Names |-> 0]
  /\ tmp = {} /\ todo = {} /\ pkg = "" /\ profiles = {} /\ result = "nil"
  /\ passed = {} /\ tested = {} /\ exit = ""

Exit(how) == pc' = "ended" /\ exit' = how

\* log.Fatal and os.Exit(1), wherever a step may meet them
Fatal == Exit("fatal") /\ UNCHANGED <<grading, testing>>

-------------------------------------------------------------------------------
(* commands/deadlines.go and git.go: which tasks                           *)

\* strings.HasPrefix(f, path): the last name may go on
HasPrefix(f, path) ==
  LET n == Len(path)
  IN  /\ n <= Len(f)
      /\ \A i \in 1 .. n - 1 : f[i] = path[i]
      /\ f[n] = path[n] \/ <<path[n], f[n]>> \in NamePrefix

FindTask(name) == {t \in Tasks : t.name = name}

findChangedTasks(files) ==
  LET watching(f) == {t \in Tasks : \E path \in t.watch : HasPrefix(f, path)}
  IN  {t.name : t \in UNION {FindTask(f[1]) \union watching(f) : f \in files}}

\* The text after the last newline of git's output is a path of its own.
listChangedFiles ==
  /\ pc = "changes"
  /\ \/ \E files \in Changes : changed' = files \union {<<"">>}
        /\ pc' = "deadlines" /\ UNCHANGED exit
     \/ Exit("failed") /\ UNCHANGED changed
  /\ UNCHANGED <<command, left, task, failed, tries, reports, testing>>

loadDeadlines ==
  /\ pc = "deadlines"
  /\ \/ left' = findChangedTasks(changed) /\ pc' = "next" /\ UNCHANGED exit
     \/ Exit("failed") /\ UNCHANGED left
  /\ UNCHANGED <<command, changed, task, failed, tries, reports, testing>>

\* grade's loop goes over the sorted names.
First(t) == \A i, j \in DOMAIN NameOrder : NameOrder[i] = t /\ NameOrder[j] \in left => i <= j

NextTask ==
  /\ Goto("next", "student")
  /\ \E t \in left : First(t) /\ task' = t /\ left' = left \ {t}
  /\ UNCHANGED <<command, changed, failed, tries, reports, testing, exit>>

-------------------------------------------------------------------------------
(* testSubmission                                                          *)

\* rsync: what is there already is replaced
Copied(files) == {f \in tmp : f.name \notin NameOf(files)} \union files

\* Return err, with the deferred RemoveAll(tmpRepo)
Return(err) ==
  /\ result' = err /\ pc' = "verdict" /\ tmp' = {}
  /\ tested' = tested \union {task}
  /\ passed' = IF err = "nil" THEN passed \union {task} ELSE passed
  /\ UNCHANGED <<grading, todo, pkg, profiles, exit>>

\* The stages before the tests: the temporary repository is filled, the
\* student's files first.
Stage(from, to, files) ==
  \/ Goto(from, to) /\ tmp' = Copied(files)
     /\ UNCHANGED <<grading, todo, pkg, profiles, result, passed, tested, exit>>
  \/ pc = from /\ Fatal

\* Packages are loaded from the task's private directory: without it, Fatal.
Listed(from, to, files) ==
  IF task \in DOMAIN Private THEN Stage(from, to, files) ELSE pc = from /\ Fatal

Data(files) == {f \in files : f.data}

copyContents     == Stage("student", "tests", Student[task])
CopyTests_Public ==                 \* mutant: only the tests without a tag
  Listed("tests", "protected", {f \in listTestFiles(Private[task]) : f.need = {}})
CopyTests        == Listed("tests", "protected", listTestFiles(Private[task]))
CopyProtected    == Listed("protected", "testdata", listProtectedFiles(Private[task]))
copyDir          == Stage("testdata", "modules", Data(Private[task]))
copyFiles        == Stage("modules", "prepare", Modules)

Copy == copyContents \/ CopyTests \/ CopyProtected \/ copyDir \/ copyFiles

\* coverage.go: the first comment of the form "min coverage: <packages> <p>%"
\* with a percentage, 0 if there is none.  A file without f.parses makes
\* searchCoverageComment return nil, and its caller panics.
searchCoverageComment(f) ==
  SelectSeq(f.comments, LAMBDA c : c.form /\ c.words = 2 /\ c.percent \in 0 .. 100)

getCoverageRequirements(files) ==
  LET tests == listTestFiles(files)
      file(n) == CHOOSE f \in tests : f.name = n
      searched == InOrder(NameOf(tests))
      hits == SelectSeq(searched, LAMBDA n : ~file(n).parses \/ searchCoverageComment(file(n)) # <<>>)
  IN  IF hits = <<>> THEN [enabled |-> FALSE, percent |-> 0, panics |-> FALSE]
      ELSE LET f == file(hits[1])
           IN  [enabled |-> TRUE, panics |-> ~f.parses,
                percent |-> IF f.parses THEN searchCoverageComment(f)[1].percent ELSE 0]

Req == getCoverageRequirements(Private[task])

\* runTests: the caches, the requirement, the packages, and their binaries;
\* the packages are the student's when coverage is asked for.
Prepare ==
  /\ pc = "prepare"
  /\ \/ /\ Req.panics                          \* the deferred RemoveAll runs
        /\ Exit("panic") /\ tmp' = {}
        /\ UNCHANGED <<grading, todo, pkg, profiles, result, passed, tested>>
     \/ /\ ~Req.panics
        /\ pc' = "build"
        /\ todo' = listTestsAndBinaries(IF Req.enabled THEN tmp ELSE Private[task]).tests
        /\ profiles' = {}
        /\ UNCHANGED <<grading, tmp, pkg, result, passed, tested, exit>>
     \/ Fatal

Build ==
  /\ pc = "build"
  /\ \/ pc' = "package" /\ UNCHANGED <<grading, testing, exit>>
     \/ Return("error")

NextPackage ==
  /\ pc = "package"
  /\ IF todo = {} THEN pc' = (IF Req.enabled THEN "coverage" ELSE "lint") /\ UNCHANGED <<todo, pkg>>
     ELSE \E p \in todo : pkg' = p /\ todo' = todo \ {p} /\ pc' = "plain"
  /\ UNCHANGED <<grading, tmp, profiles, result, passed, tested, exit>>

\* The tests with their coverage profile, the tests and benchmarks under the
\* race detector, the benchmarks alone.
RunBinary ==
  /\ pc \in {"plain", "race", "bench"}
  /\ \/ /\ \E run \in {<<"plain", "race">>, <<"race", "bench">>,
                      <<"bench", "package">>, <<"bench", "baseline">>} :   \* without, with benchmarks
            Goto(run[1], run[2])
        /\ IF pc = "plain" /\ Req.enabled
           THEN \E p \in Profiles : profiles' = profiles \union {p} ELSE UNCHANGED profiles
        /\ UNCHANGED <<grading, tmp, todo, pkg, result, passed, tested, exit>>
     \/ Return("failed")
     \/ Fatal                                  \* no user nobody for the sandbox

\* The private repository's solution runs the benchmarks too; a mean beyond
\* 1.99 of its mean is an error.
compareToBaseline ==
  /\ pc = "baseline"
  /\ \/ pc' = "package" /\ UNCHANGED <<grading, testing, exit>>
     \/ Return("error")

\* A block counts as covered if some profile has run it.
calCoverage(ps) ==
  LET all == UNION ps
      ids(S) == {b.id : b \in S}
      stmts(S) == MapThenFoldSet(LAMBDA x, y : x + y, 0, LAMBDA i : (CHOOSE b \in all : b.id = i).stmts,
                                 LAMBDA T : CHOOSE i \in T : TRUE, ids(S))
  IN  IF stmts(all) = 0 THEN 0
      ELSE (stmts({b \in all : b.count > 0}) * 100) \div stmts(all)

\* A profile that does not parse is an error, as is too little coverage.
CheckCoverage ==
  /\ pc = "coverage"
  /\ \/ Return("error")
     \/ calCoverage(profiles) >= Req.percent /\ pc' = "lint" /\ UNCHANGED <<grading, testing, exit>>

runLinter == pc = "lint" /\ (Return("error") \/ Return("nil"))

runTests == Prepare \/ Build \/ NextPackage \/ RunBinary \/ compareToBaseline \/ CheckCoverage

testSubmission == Copy \/ runTests \/ runLinter

-------------------------------------------------------------------------------
(* grade and reportTestResults                                             *)
Next_(f) ==
  /\ failed' = f /\ pc' = "next"
  /\ UNCHANGED <<command, changed, left, task, tries, reports, testing, exit>>

Verdict_NoContinue ==               \* mutant: only a TestFailedError keeps a task from the report
  /\ pc = "verdict" /\ command = "grade"
  /\ IF result = "failed" THEN Next_(TRUE)
     ELSE /\ pc' = "report" /\ tries' = 3 /\ failed' = (failed \/ result # "nil")
          /\ UNCHANGED <<command, changed, left, task, reports, testing, exit>>

\* An error that is not a TestFailedError is not reported; neither is, in
\* reportTestResults, one that is.
Verdict ==
  /\ pc = "verdict" /\ command = "grade"
  /\ IF result # "nil" THEN Next_(TRUE)
     ELSE /\ pc' = "report" /\ tries' = 3
          /\ UNCHANGED <<command, changed, left, task, failed, reports, testing, exit>>

Record(n) == reports' = [reports EXCEPT ![task] = @ + n]

PostOk_LostCounts ==                \* mutant: an error of PostForm ends the loop as a success
  /\ pc = "report" /\ tries > 0
  /\ \E n \in {0, 1} : Record(n)
  /\ pc' = "next"
  /\ UNCHANGED <<command, changed, left, task, failed, tries, testing, exit>>

\* One PostForm that is answered with 200
PostOk ==
  /\ pc = "report" /\ tries > 0
  /\ Record(1)
  /\ pc' = "next"
  /\ UNCHANGED <<command, changed, left, task, failed, tries, testing, exit>>

\* refused, never delivered, or recorded with its answer lost
PostFails ==
  /\ pc = "report" /\ tries > 0
  /\ \E n \in {0, 1} : Record(n)
  /\ tries' = tries - 1
  /\ UNCHANGED <<command, pc, changed, left, task, failed, testing, exit>>

\* Three requests have failed: log.Fatal in grade
GiveUp == pc = "report" /\ tries = 0 /\ Fatal

Finish ==
  /\ pc = "next" /\ left = {}
  /\ Exit(IF failed THEN "failed" ELSE "ok")
  /\ UNCHANGED <<grading, testing>>

\* check-task: the error is fatal, and nothing is reported
CheckTask ==
  /\ pc = "verdict" /\ command = "check-task"
  /\ Exit(IF result = "nil" THEN "ok" ELSE "fatal")
  /\ UNCHANGED <<grading, testing>>

reportTestResults == PostOk \/ PostFails \/ GiveUp
grade == listChangedFiles \/ loadDeadlines \/ NextTask \/ Verdict \/ reportTestResults \/ Finish

Next == grade \/ CheckTask \/ testSubmission

-------------------------------------------------------------------------------
(* Whatever failed, was retried or was lost before, the server records a    *)
(* task only if its tests, benchmarks, coverage and linter all ended well,  *)
(* and never more often than there are tries.                               *)
ReportsEarned == \A t \in DOMAIN reports : reports[t] > 0 => t \in passed /\ reports[t] <= 3

(* What is built and run is judged by the private repository: its tests,     *)
(* protected files, test data and module files are there, whatever files of  *)
(* the same names the student has.                                           *)
JudgedByPrivate ==
  pc \in {"build", "package", "plain", "race", "bench", "baseline", "coverage", "lint"} =>
    listTestFiles(Private[task]) \union listProtectedFiles(Private[task])
      \union Data(Private[task]) \union Modules \subseteq tmp

(* The exit status tells: 0 only if every task of the commit has passed and  *)
(* is recorded, 1 from grade's own return only if some task has not.  A task *)
(* that fails does not keep the others from being tested.                    *)
ExitTells ==
 LET all == findChangedTasks(changed)
 IN   command = "grade" /\ changed # {} =>
        /\ exit = "ok" => \A t \in all : t \in passed /\ reports[t] > 0
        /\ exit = "failed" /\ tested # {} => all = tested /\ ~(all \subseteq passed)
===============================================================================
