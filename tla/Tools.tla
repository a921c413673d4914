---------------------------------- MODULE Tools -------------------------------
(***************************************************************************)
(* The command-line programs that work on git repositories: testtool's     *)
(* grade and check-task, testtool export, and gitfame.  A behaviour runs   *)
(* one of them, tool; the variables of the others are Off.                 *)
(***************************************************************************)
EXTENDS Naturals, Sequences, FiniteSets

CONSTANTS
  Which,     \* the programs to run
  Off,
  Schedule, Changes, NameOrder, NamePrefix, Private, Student, Modules, Profiles,     \* Grader
  Trees, Configs, Published,                                                         \* Export
  NumFiles, Commits, Author, Outputs, Blank, Absent                                  \* Gitfame

VARIABLES
  tool,
  command, pc, changed, left, task, tmp, todo, pkg, profiles, result, failed, tries, reports,
    passed, tested, exit,                                                        \* Grader
  epc, head, refs, work, remote, todel, config, push, back,                      \* Export
  blame, order, main, started, count, wg, gpc, at, entry, person, inner, muGrep,
    muBlame, raced, fatal, report                                                \* Gitfame

gradervars  == <<command, pc, changed, left, task, tmp, todo, pkg, profiles, result, failed, tries, reports,
                 passed, tested, exit>>
exportvars  == <<epc, head, refs, work, remote, todel, config, push, back>>
gitfamevars == <<blame, order, main, started, count, wg, gpc, at, entry, person, inner, muGrep, muBlame, raced, fatal, report>>
vars == <<tool, gradervars, exportvars, gitfamevars>>

-------------------------------------------------------------------------------
(* The instances                                                           *)

Judge == INSTANCE Grader

Publish == INSTANCE Export

Fame == INSTANCE Gitfame WITH pc <- gpc

-------------------------------------------------------------------------------
(* What the proofs assume of the constants                                 *)

\* The name of a file is its path: no two files of the private repository share one.
ASSUME Paths ==
  \A t \in DOMAIN Private :
    /\ \A f, g \in Private[t] : f.name = g.name => f = g
    /\ \A f \in Private[t], g \in Modules : f.name # g.name

\* In the course's trees a build constraint that asks for private or solution
\* asks for nothing else, and is one of a Go file or a .proto's solution.
ASSUME PrivateMarks ==
  \A tree \in Trees : \A f \in tree :
    f.need \intersect {"private", "solution"} # {} =>
      \/ f.go /\ f.need \subseteq {"private", "solution"} /\ f.no \intersect {"private", "solution"} = {}
      \/ f.proto /\ f.need = {"solution"}

\* gitfame may have the empty line after git's last one among its files.  Of a
\* file git says a hunk at least, for an empty one its last commit, or nothing.
\* Authors are numbered in the order of their names.
ASSUME Listing == NumFiles \in Nat /\ Blank \in {0, 1}
ASSUME GitSays ==
  /\ IsFiniteSet(Commits) /\ Author \in [Commits -> Nat]
  /\ \A out \in Outputs :
       /\ out.hunks \in Seq([commit : Commits, lines : Nat])
       /\ \/ out.kind = "blame" /\ out.hunks # <<>>
          \/ out.kind = "empty" /\ Len(out.hunks) = 1 /\ out.hunks[1].lines = 0
          \/ out.kind \in {"failed", "nolog"} /\ out.hunks = <<>>
ASSUME NoEntry == Absent \notin [obj : (1 .. NumFiles) \X Nat, lines : Nat]

-------------------------------------------------------------------------------
Is(t) == tool = t

Init ==
  /\ tool \in Which
  /\ IF Is("grader") THEN Judge!Init
     ELSE /\ command = Off /\ pc = Off /\ changed = Off /\ left = Off /\ task = Off /\ tmp = Off /\ todo = Off /\ pkg = Off
          /\ profiles = Off /\ result = Off /\ failed = Off /\ tries = Off /\ reports = Off
          /\ passed = Off /\ tested = Off /\ exit = Off
  /\ IF Is("export") THEN Publish!EInit
     ELSE /\ epc = Off /\ head = Off /\ refs = Off /\ work = Off /\ remote = Off /\ todel = Off
          /\ config = Off /\ push = Off /\ back = Off
  /\ IF Is("gitfame") THEN Fame!Init
     ELSE /\ blame = Off /\ order = Off /\ main = Off /\ started = Off /\ count = Off /\ wg = Off /\ gpc = Off
          /\ at = Off /\ entry = Off /\ person = Off /\ inner = Off /\ muGrep = Off /\ muBlame = Off
          /\ raced = Off /\ fatal = Off /\ report = Off

Grading    == Is("grader") /\ UNCHANGED <<tool, exportvars, gitfamevars>>
Exporting  == Is("export") /\ UNCHANGED <<tool, gradervars, gitfamevars>>
Reporting  == Is("gitfame") /\ UNCHANGED <<tool, gradervars, exportvars>>

GraderNext  == Grading /\ Judge!Next
ExportNext  == Exporting /\ Publish!ENext
GitfameNext == Reporting /\ Fame!Next
Next == GraderNext \/ ExportNext \/ GitfameNext

\* testtool is sequential, and what it calls ends (the tests by their
\* -test.timeout); gitfame's goroutines are scheduled and get their mutexes.
Fairness ==
  /\ WF_vars(GraderNext) /\ WF_vars(ExportNext)
  /\ SF_vars(Reporting /\ Fame!MainStep)
  /\ \A f \in 1 .. NumFiles : SF_vars(Reporting /\ Fame!FileStep(f)) /\ SF_vars(Reporting /\ Fame!Panic(f))
Spec == Init /\ [][Next]_vars /\ Fairness

-------------------------------------------------------------------------------
(* The properties of the components, each of the program that runs         *)

(* testtool: a task the server has recorded as solved went through its       *)
(* tests, benchmarks, coverage and linter, and not more often than it tries. *)
ReportsEarned == Is("grader") => Judge!ReportsEarned

(* testtool: what is built and run is judged by the private tests, protected *)
(* files, test data and module files, whatever the student's are.            *)
JudgedByPrivate == Is("grader") => Judge!JudgedByPrivate

(* testtool: its exit status tells whether every task of the commit passed   *)
(* and was recorded, and a failing task does not keep others from being run. *)
ExitTells == Is("grader") => Judge!ExitTells

(* export: wherever it dies, public and the remote have no private file; if  *)
(* it does not, they have all the others, and the working tree is restored.  *)
ExportRight == Is("export") => Publish!NothingLeaks /\ Publish!ExportComplete

(* gitfame: the report has every author's lines, commits and files, ranked   *)
(* as the flag says, unless goroutines have overlapped in the map; the       *)
(* counters never go below zero, where WaitGroup and progress bar panic.     *)
GitfameRight ==
  Is("gitfame") => Fame!TypeOK /\ Fame!ReportRight /\ Fame!RankingRight /\ Fame!ProgressInRange

(* Every program ends: testtool with a status, export done or dead, gitfame  *)
(* with its report or stopped by the runtime.                                *)
ToolsEnd ==
  <>CASE Is("grader") -> pc = "ended"
      [] Is("export") -> epc \in {"done", "dead"}
      [] Is("gitfame") -> main = "ended" \/ fatal
===============================================================================
