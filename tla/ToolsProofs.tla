------------------------------ MODULE ToolsProofs ----------------------------
(***************************************************************************)
(* What testtool promises holds for every schedule, commit, repository and *)
(* tree, and gitfame reports what git says of any files.                   *)
(***************************************************************************)
EXTENDS Tools, FiniteSetTheorems, TLAPS

(***************************************************************************)
(* testtool grade and check-task.  A task is recorded by the server only   *)
(* while it is reported, which needs its test to have passed, and the      *)
(* tries left and the records made are never more than three.              *)
(***************************************************************************)
Copying == {"student", "tests", "protected", "testdata", "modules", "prepare"}
Running == {"build", "package", "plain", "race", "bench", "baseline", "coverage", "lint"}
Testing == Copying \union Running

GraderTypeOK ==
  /\ command \in {"grade", "check-task"}
  /\ pc \in Testing \union {"changes", "deadlines", "next", "verdict", "report", "ended"}
  /\ left \subseteq Judge!Names /\ failed \in BOOLEAN /\ tries \in 0 .. 3
  /\ pc \in Testing \union {"verdict", "report"} => task \in Judge!Names
  /\ reports \in [Judge!Names -> Nat]

\* Nothing is recorded of a task whose test has not ended.
RecordsPassed ==
  /\ Judge!ReportsEarned
  /\ \A t \in left : reports[t] = 0
  /\ pc \in {"changes", "deadlines"} => \A t \in Judge!Names : reports[t] = 0
  /\ pc \in Testing \union {"verdict"} => reports[task] = 0
  /\ pc \in Testing \union {"verdict", "report"} => task \notin left
  /\ pc = "verdict" /\ result = "nil" => task \in passed
  /\ pc = "report" => task \in passed /\ reports[task] + tries <= 3

RecordsIInv == GraderTypeOK /\ RecordsPassed

LEMMA ChangedAreNamed == ASSUME NEW files PROVE Judge!findChangedTasks(files) \subseteq Judge!Names
BY DEF Judge!findChangedTasks, Judge!FindTask, Judge!Names

LEMMA RecordsInit == Judge!Init => RecordsIInv
<1> SUFFICES ASSUME Judge!Init PROVE RecordsIInv
  OBVIOUS
<1>1. DOMAIN Private \subseteq Judge!Names
  BY DEF Judge!Names
<1>2. reports \in [Judge!Names -> Nat] /\ \A t \in Judge!Names : reports[t] = 0
  BY DEF Judge!Init
<1>3. left = {} /\ tries = 0 /\ failed = FALSE /\ command \in {"grade", "check-task"}
  BY DEF Judge!Init
<1>4. pc = "changes" \/ (pc = "student" /\ task \in Judge!Names)
  BY <1>1 DEF Judge!Init
<1>5. GraderTypeOK
  <2>1. failed \in BOOLEAN
    BY <1>3
  <2>2. pc \in Testing \union {"changes"} /\ (pc \in Testing => task \in Judge!Names)
    BY <1>4 DEF Testing, Copying, Running
  <2>3. left \subseteq Judge!Names /\ tries \in 0 .. 3
    BY <1>3
  <2>4. pc \notin {"verdict", "report"}
    BY <1>4
  <2> QED BY <1>2, <1>3, <2>1, <2>2, <2>3, <2>4 DEF GraderTypeOK
<1>6. RecordsPassed
  <2>1. Judge!ReportsEarned
    BY <1>2 DEF Judge!ReportsEarned
  <2> QED BY <1>2, <1>3, <1>4, <2>1 DEF RecordsPassed, Testing, Copying, Running
<1> QED BY <1>5, <1>6 DEF RecordsIInv

LEMMA RecordsNext == RecordsIInv /\ [Judge!Next]_gradervars => RecordsIInv'
<1> SUFFICES ASSUME RecordsIInv, [Judge!Next]_gradervars PROVE RecordsIInv'
  OBVIOUS
<1> USE DEF RecordsIInv, GraderTypeOK, RecordsPassed, Judge!ReportsEarned, Testing, Copying, Running,
            Judge!grading, Judge!testing, Judge!Exit, Judge!Fatal, Judge!Goto
<1>1. CASE UNCHANGED gradervars
  BY <1>1 DEF gradervars
<1>2. CASE Judge!listChangedFiles
  BY <1>2 DEF Judge!listChangedFiles
<1>3. CASE Judge!loadDeadlines
  BY <1>3, ChangedAreNamed DEF Judge!loadDeadlines
<1>4. CASE Judge!NextTask
  BY <1>4 DEF Judge!NextTask
<1>5. CASE Judge!Copy
  BY <1>5 DEF Judge!Copy, Judge!copyContents, Judge!CopyTests, Judge!CopyProtected, Judge!copyDir, Judge!copyFiles,
              Judge!Stage, Judge!Listed
<1>6. CASE Judge!runTests \/ Judge!runLinter
  <2>1. CASE Judge!Prepare \/ Judge!NextPackage
    BY <2>1 DEF Judge!Prepare, Judge!NextPackage
  <2>2. CASE Judge!Build \/ Judge!compareToBaseline \/ Judge!CheckCoverage \/ Judge!runLinter
    BY <2>2 DEF Judge!Build, Judge!compareToBaseline, Judge!CheckCoverage, Judge!runLinter, Judge!Return
  <2>3. CASE Judge!RunBinary
    BY <2>3 DEF Judge!RunBinary, Judge!Return
  <2> QED BY <1>6, <2>1, <2>2, <2>3 DEF Judge!runTests
<1>7. CASE Judge!Verdict
  <2>1. CASE result # "nil"
    BY <1>7, <2>1 DEF Judge!Verdict, Judge!Next_
  <2>2. CASE result = "nil"
    <3>1. /\ pc = "verdict" /\ pc' = "report" /\ tries' = 3
          /\ UNCHANGED <<command, left, task, failed, reports, passed>>
      BY <1>7, <2>2 DEF Judge!Verdict
    <3> QED BY <2>2, <3>1
  <2> QED BY <2>1, <2>2
<1>8. CASE Judge!reportTestResults
  BY <1>8 DEF Judge!reportTestResults, Judge!PostOk, Judge!PostFails, Judge!GiveUp, Judge!Record
<1>9. CASE Judge!Finish \/ Judge!CheckTask
  BY <1>9 DEF Judge!Finish, Judge!CheckTask
<1> QED BY <1>1, <1>2, <1>3, <1>4, <1>5, <1>6, <1>7, <1>8, <1>9 DEF Judge!Next, Judge!grade, Judge!testSubmission

(***************************************************************************)
(* The temporary repository: what a stage has copied stays, for the files  *)
(* of a later stage with the same name are the same files.                 *)
(***************************************************************************)
Tests(t)     == Judge!listTestFiles(Private[t])
Protected(t) == Judge!listProtectedFiles(Private[t])
TestData(t)  == Judge!Data(Private[t])

CopiedSoFar ==
  /\ pc \in {"protected", "testdata", "modules", "prepare"} \union Running =>
       task \in DOMAIN Private /\ Tests(task) \subseteq tmp
  /\ pc \in {"testdata", "modules", "prepare"} \union Running => Protected(task) \subseteq tmp
  /\ pc \in {"modules", "prepare"} \union Running => TestData(task) \subseteq tmp
  /\ pc \in {"prepare"} \union Running => Modules \subseteq tmp

LEMMA Kept ==
  ASSUME NEW files, NEW copied \in SUBSET tmp,
         \A f \in copied, g \in files : f.name = g.name => f = g
  PROVE  copied \subseteq Judge!Copied(files) /\ files \subseteq Judge!Copied(files)
BY DEF Judge!Copied, Judge!NameOf

LEMMA OfTask ==
  ASSUME NEW t \in DOMAIN Private
  PROVE  /\ Tests(t) \subseteq Private[t] /\ Protected(t) \subseteq Private[t] /\ TestData(t) \subseteq Private[t]
         /\ \A f, g \in Private[t] : f.name = g.name => f = g
         /\ \A f \in Private[t], g \in Modules : f.name # g.name
BY Paths DEF Tests, Protected, TestData, Judge!listTestFiles, Judge!listProtectedFiles, Judge!Data, Judge!getPackageFiles

LEMMA CopiedInit == Judge!Init => CopiedSoFar
BY DEF Judge!Init, CopiedSoFar, Running

LEMMA CopiedNext == CopiedSoFar /\ [Judge!Next]_gradervars => CopiedSoFar'
<1> SUFFICES ASSUME CopiedSoFar, [Judge!Next]_gradervars PROVE CopiedSoFar'
  OBVIOUS
<1> USE DEF CopiedSoFar, Running, Judge!grading, Judge!testing, Judge!Exit, Judge!Fatal, Judge!Goto
<1>1. CASE UNCHANGED gradervars
  BY <1>1 DEF gradervars, Tests, Protected, TestData
<1>2. CASE Judge!listChangedFiles \/ Judge!loadDeadlines \/ Judge!NextTask \/ Judge!Finish \/ Judge!CheckTask
  BY <1>2 DEF Judge!listChangedFiles, Judge!loadDeadlines, Judge!NextTask, Judge!Finish, Judge!CheckTask
<1>3. CASE Judge!Copy
  <2>1. CASE Judge!copyContents
    BY <2>1 DEF Judge!copyContents, Judge!Stage
  <2>2. CASE Judge!CopyTests
    BY <2>2 DEF Judge!CopyTests, Judge!Listed, Judge!Stage, Judge!Copied, Tests
  <2>3. CASE Judge!CopyProtected
    BY <2>3, Kept, OfTask DEF Judge!CopyProtected, Judge!Listed, Judge!Stage, Tests, Protected
  <2>4. CASE Judge!copyDir
    BY <2>4, Kept, OfTask DEF Judge!copyDir, Judge!Stage, Tests, Protected, TestData
  <2>5. CASE Judge!copyFiles
    BY <2>5, Kept, OfTask DEF Judge!copyFiles, Judge!Stage, Tests, Protected, TestData
  <2> QED BY <1>3, <2>1, <2>2, <2>3, <2>4, <2>5 DEF Judge!Copy
<1>4. CASE Judge!runTests \/ Judge!runLinter
  <2>1. CASE Judge!Prepare \/ Judge!NextPackage
    BY <2>1 DEF Judge!Prepare, Judge!NextPackage, Tests, Protected, TestData
  <2>2. CASE Judge!Build \/ Judge!compareToBaseline \/ Judge!CheckCoverage \/ Judge!runLinter
    BY <2>2 DEF Judge!Build, Judge!compareToBaseline, Judge!CheckCoverage, Judge!runLinter, Judge!Return, Tests, Protected, TestData
  <2>3. CASE Judge!RunBinary
    BY <2>3 DEF Judge!RunBinary, Judge!Return, Tests, Protected, TestData
  <2> QED BY <1>4, <2>1, <2>2, <2>3 DEF Judge!runTests
<1>5. CASE Judge!Verdict \/ Judge!reportTestResults
  BY <1>5 DEF Judge!Verdict, Judge!Next_, Judge!reportTestResults, Judge!PostOk, Judge!PostFails, Judge!GiveUp
<1> QED BY <1>1, <1>2, <1>3, <1>4, <1>5 DEF Judge!Next, Judge!grade, Judge!testSubmission

LEMMA CopiedJudges == CopiedSoFar => Judge!JudgedByPrivate
BY DEF CopiedSoFar, Judge!JudgedByPrivate, Running, Tests, Protected, TestData

(***************************************************************************)
(* grade's loop: the tasks of the commit are those tested, the one being   *)
(* tested and those left; failed says whether one of the tested has not    *)
(* passed, and those that have are recorded.                               *)
(***************************************************************************)
Loop(all) ==
  /\ pc = "changes" => changed = {} /\ exit = ""
  /\ pc \in {"changes", "deadlines"} => tested = {} /\ passed = {} /\ failed = FALSE
  /\ passed \subseteq tested
  /\ pc \in {"deadlines", "next", "verdict", "report"} \union Testing => exit = ""
  /\ pc \in {"next", "verdict", "report"} \union Testing => left \intersect tested = {}
  /\ pc = "next" =>
       /\ all = tested \union left
       /\ failed = TRUE <=> tested # passed
       /\ \A t \in passed : reports[t] > 0
  /\ pc \in Testing =>
       /\ all = tested \union left \union {task} /\ task \notin tested
       /\ failed = TRUE <=> tested # passed
       /\ \A t \in passed : reports[t] > 0
  /\ pc \in {"verdict", "report"} =>
       /\ all = tested \union left /\ task \in tested
       /\ failed = TRUE <=> tested \ {task} # passed \ {task}
       /\ \A t \in passed \ {task} : reports[t] > 0
  /\ pc = "verdict" => (result = "nil" <=> task \in passed)

LoopIInv ==
  command = "grade" => Loop(Judge!findChangedTasks(changed)) /\ Judge!ExitTells

LEMMA LoopInit == Judge!Init => LoopIInv
BY DEF Judge!Init, LoopIInv, Loop, Judge!ExitTells, Testing, Copying, Running

LEMMA LoopNext == RecordsIInv /\ LoopIInv /\ [Judge!Next]_gradervars => LoopIInv'
<1> SUFFICES ASSUME RecordsIInv, LoopIInv, [Judge!Next]_gradervars, command' = "grade"
    PROVE Loop(Judge!findChangedTasks(changed))' /\ Judge!ExitTells'
  BY DEF LoopIInv
<1> USE DEF Loop, Judge!ExitTells, Testing, Copying, Running, Judge!grading, Judge!testing, Judge!Exit, Judge!Fatal, Judge!Goto
<1>1. CASE UNCHANGED gradervars
  BY <1>1 DEF gradervars, LoopIInv
<1>2. CASE Judge!listChangedFiles \/ Judge!loadDeadlines
  <2>1. CASE Judge!listChangedFiles
    BY <2>1 DEF LoopIInv, Judge!listChangedFiles
  <2>2. CASE Judge!loadDeadlines
    <3>1. pc = "deadlines" /\ tested = {} /\ passed = {} /\ failed = FALSE /\ exit = ""
      BY <2>2 DEF LoopIInv, Judge!loadDeadlines
    <3>2. UNCHANGED <<changed, tested, passed, failed, reports>>
      BY <2>2 DEF Judge!loadDeadlines
    <3>3. \/ left' = Judge!findChangedTasks(changed) /\ pc' = "next" /\ exit' = ""
          \/ pc' = "ended" /\ exit' = "failed"
      BY <2>2, <3>1 DEF Judge!loadDeadlines
    <3> QED BY <3>1, <3>2, <3>3
  <2> QED BY <1>2, <2>1, <2>2
<1>3. CASE Judge!NextTask
  BY <1>3 DEF LoopIInv, Judge!NextTask
<1>4. CASE Judge!Copy
  BY <1>4 DEF LoopIInv, Judge!Copy, Judge!copyContents, Judge!CopyTests, Judge!CopyProtected, Judge!copyDir, Judge!copyFiles,
              Judge!Stage, Judge!Listed
<1>5. CASE Judge!runTests \/ Judge!runLinter
  <2>1. CASE Judge!Prepare \/ Judge!NextPackage
    BY <2>1 DEF LoopIInv, Judge!Prepare, Judge!NextPackage
  <2>2. ASSUME pc \in Testing, NEW err, Judge!Return(err)
        PROVE  Loop(Judge!findChangedTasks(changed))' /\ Judge!ExitTells'
    BY <2>2, ZenonT(60) DEF LoopIInv, Judge!Return, RecordsIInv, RecordsPassed
  <2>3. CASE Judge!Build \/ Judge!compareToBaseline \/ Judge!CheckCoverage \/ Judge!runLinter
    BY <2>2, <2>3 DEF LoopIInv, Judge!Build, Judge!compareToBaseline, Judge!CheckCoverage, Judge!runLinter
  <2>4. CASE Judge!RunBinary
    <3>1. pc \in Testing
      BY <2>4 DEF Judge!RunBinary
    <3>2. CASE pc' \in Testing /\ UNCHANGED <<command, changed, left, task, failed, reports, passed, tested, exit>>
      BY <3>1, <3>2 DEF LoopIInv
    <3>3. CASE Judge!Fatal
      BY <3>1, <3>3 DEF LoopIInv
    <3>4. CASE Judge!Return("failed")
      BY <3>1, <3>4, <2>2
    <3>5. ASSUME NEW run \in {<<"plain", "race">>, <<"race", "bench">>, <<"bench", "package">>, <<"bench", "baseline">>},
                 Judge!Goto(run[1], run[2])
          PROVE  pc' \in Testing
      BY <3>5
    <3> QED BY <2>4, <3>2, <3>3, <3>4, <3>5 DEF Judge!RunBinary
  <2> QED BY <1>5, <2>1, <2>3, <2>4 DEF Judge!runTests
<1>6. CASE Judge!Verdict
  BY <1>6, ZenonT(60) DEF LoopIInv, Judge!Verdict, Judge!Next_
<1>7. CASE Judge!reportTestResults
  <2>1. CASE Judge!PostOk \/ Judge!PostFails
    <3>1. /\ pc = "report" /\ exit' = exit /\ UNCHANGED <<command, changed, left, task, failed, passed, tested>>
          /\ \/ pc' = "report" \/ (pc' = "next" /\ reports' = [reports EXCEPT ![task] = @ + 1])
          /\ \E k \in {0, 1} : reports' = [reports EXCEPT ![task] = @ + k]
      BY <2>1 DEF Judge!PostOk, Judge!PostFails, Judge!Record
    <3>2. /\ \A t \in Judge!Names : t # task => reports'[t] = reports[t]
          /\ pc' = "next" => reports'[task] > 0
      BY <3>1 DEF RecordsIInv, GraderTypeOK
    <3>3. /\ exit = "" /\ left \intersect tested = {} /\ Judge!findChangedTasks(changed) = tested \union left
          /\ task \in tested /\ task \in passed /\ passed \subseteq tested
          /\ failed = TRUE <=> tested \ {task} # passed \ {task}
          /\ \A t \in passed \ {task} : reports[t] > 0
      BY <3>1 DEF LoopIInv, RecordsIInv, RecordsPassed
    <3>4. \A t \in passed \ {task} : reports'[t] > 0
      BY <3>2, <3>3, ChangedAreNamed
    <3> QED BY <3>1, <3>2, <3>3, <3>4
  <2>2. CASE Judge!GiveUp
    BY <2>2 DEF LoopIInv, Judge!GiveUp
  <2> QED BY <1>7, <2>1, <2>2 DEF Judge!reportTestResults
<1>8. CASE Judge!Finish
  <2>1. /\ pc = "next" /\ left = {} /\ pc' = "ended"
        /\ UNCHANGED <<command, changed, left, task, failed, reports, passed, tested>>
    BY <1>8 DEF Judge!Finish
  <2>2. exit' = IF failed THEN "failed" ELSE "ok"
    BY <1>8 DEF Judge!Finish
  <2>3. CASE failed = TRUE
    BY <2>1, <2>2, <2>3 DEF LoopIInv
  <2>4. CASE failed = FALSE
    BY <2>1, <2>2, <2>4 DEF LoopIInv
  <2> QED BY <2>3, <2>4 DEF RecordsIInv, GraderTypeOK
<1>9. CASE Judge!CheckTask
  BY <1>9 DEF Judge!CheckTask
<1> QED BY <1>1, <1>2, <1>3, <1>4, <1>5, <1>6, <1>7, <1>8, <1>9 DEF Judge!Next, Judge!grade, Judge!testSubmission

-------------------------------------------------------------------------------
(***************************************************************************)
(* testtool export.  The working tree is master's without what has been    *)
(* removed, and every private file still in it is on the list; public has  *)
(* what an earlier export left until the tree without private files is     *)
(* committed.                                                              *)
(***************************************************************************)
Master == refs["master"]
ListedNames(tree) == {d[2] : d \in Publish!listPrivateFiles(tree, config)}
Left   == {f \in Master : f.name \notin Publish!Secret}
Live   == {"branch", "reset", "list", "remove", "checkout", "delete", "add", "commit", "push", "back"}

ExportTypeOK ==
  /\ epc \in Live \union {"done", "dead"}
  /\ Master \in Trees /\ push \in BOOLEAN /\ back \in BOOLEAN
  /\ {"master", "public"} \subseteq DOMAIN refs
  /\ epc \in {"branch", "add", "commit", "push", "back", "done"} => DOMAIN refs = {"master", "public"}
  /\ epc \in {"reset", "list", "remove", "checkout", "delete"} => DOMAIN refs = {"master", "public", Publish!Temp}
  /\ epc \in {"reset", "list", "remove", "checkout"} => head = Publish!Temp
  /\ epc \in {"delete", "add", "commit", "push", "back"} => head = "public"

\* Where the private files still are.
PrivateGone ==
  /\ epc \in {"branch", "reset", "list"} => work = Master
  /\ epc = "remove" =>
       /\ Left \subseteq work /\ work \subseteq Master
       /\ \A f \in work : f \in Left \/ \E d \in todel : d[2] = f.name
       /\ \A d \in todel : d[2] \in Publish!Secret
  /\ epc \in {"checkout", "delete", "add", "commit", "push", "back"} => work = Left

PublicIs ==
  /\ refs["public"] \in {Published, Left} /\ remote \in {Published, Left}
  /\ epc \in {"push", "back", "done"} => refs["public"] = Left
  /\ epc \in {"back", "done"} /\ push => remote = Left

ExportIInv == ExportTypeOK /\ PrivateGone /\ PublicIs /\ Publish!ExportComplete

\* What the code lists is what the marks and .private make private.
LEMMA ListedAreSecret ==
  ASSUME Master \in Trees
  PROVE  /\ ListedNames(Master) \subseteq Publish!Secret
         /\ \A f \in Master : f.name \in Publish!Secret => f.name \in ListedNames(Master)
<1>1. ASSUME NEW n \in ListedNames(Master) PROVE n \in Publish!Secret
  BY <1>1 DEF ListedNames, Publish!listPrivateFiles, Publish!Secret, Publish!getPackageFiles, Publish!NameOf, Master
<1>2. ASSUME NEW f \in Master, f.name \in Publish!Secret PROVE f.name \in ListedNames(Master)
  <2>1. CASE f.name \in config
    <3>1. <<"config", f.name>> \in Publish!listPrivateFiles(Master, config)
      BY <2>1, <1>2 DEF Publish!listPrivateFiles, Publish!NameOf
    <3>2. <<"config", f.name>>[2] = f.name
      OBVIOUS
    <3> QED BY <3>1, <3>2 DEF ListedNames
  <2>2. CASE \E g \in Master : g.name = f.name /\ g.need \intersect {"private", "solution"} # {}
    <3>1. PICK g \in Master : g.name = f.name /\ g.need \intersect {"private", "solution"} # {}
      BY <2>2
    <3>2. \/ g.go /\ g.need \subseteq {"private", "solution"} /\ g.no \intersect {"private", "solution"} = {}
          \/ g.proto /\ g.need = {"solution"}
      BY <3>1, PrivateMarks
    <3>3. CASE g.go /\ g.need \subseteq {"private", "solution"} /\ g.no \intersect {"private", "solution"} = {}
      <4>1. g \in Publish!getPackageFiles(Master, {"private", "solution"}) \ Publish!getPackageFiles(Master, {})
        BY <3>1, <3>3 DEF Publish!getPackageFiles
      <4>2. <<"tagged", f.name>> \in Publish!listPrivateFiles(Master, config)
        BY <4>1, <3>1 DEF Publish!listPrivateFiles, Publish!NameOf
      <4>3. <<"tagged", f.name>>[2] = f.name
        OBVIOUS
      <4> QED BY <4>2, <4>3 DEF ListedNames
    <3>4. CASE g.proto /\ g.need = {"solution"}
      <4>1. <<"proto", f.name>> \in Publish!listPrivateFiles(Master, config)
        BY <3>1, <3>4 DEF Publish!listPrivateFiles, Publish!NameOf
      <4>2. <<"proto", f.name>>[2] = f.name
        OBVIOUS
      <4> QED BY <4>1, <4>2 DEF ListedNames
    <3> QED BY <3>2, <3>3, <3>4
  <2> QED BY <1>2, <2>1, <2>2 DEF Publish!Secret, Master
<1> QED BY <1>1, <1>2

LEMMA ExportInit == Publish!EInit => ExportIInv
BY DEF Publish!EInit, ExportIInv, ExportTypeOK, PrivateGone, PublicIs, Publish!ExportComplete, Master, Live

LEMMA ExportNextIInv == ExportIInv /\ [Publish!ENext]_exportvars => ExportIInv'
<1> SUFFICES ASSUME ExportIInv, [Publish!ENext]_exportvars PROVE ExportIInv'
  OBVIOUS
<1> USE DEF Publish!Git, Publish!flags, Live
<1>1. /\ UNCHANGED <<config, push, back>> /\ refs'["master"] = Master
      /\ Publish!Secret' = Publish!Secret /\ Left' = Left
  <2>1. UNCHANGED <<config, push, back>> /\ refs'["master"] = Master
    <3>1. CASE UNCHANGED exportvars
      BY <3>1 DEF exportvars, Master
    <3>2. CASE UNCHANGED refs /\ UNCHANGED <<config, push, back>>
      BY <3>2 DEF Master
    <3>3. CASE Publish!TempBranch \/ Publish!ResetToPublic \/ Publish!DropTemp \/ Publish!Commit
      BY <3>3 DEF ExportIInv, ExportTypeOK, Publish!TempBranch, Publish!ResetToPublic, Publish!DropTemp, Publish!Commit,
                  Publish!Temp, Master
    <3> QED BY <3>1, <3>2, <3>3 DEF Publish!ENext, Publish!exportCode, Publish!Dies, Publish!ListPrivate, Publish!RemovePrivate,
                                    Publish!ToPublic, Publish!AddAll, Publish!Push, Publish!Back
  <2> QED BY <2>1 DEF Publish!Secret, Left, Master
<1>2. CASE UNCHANGED exportvars
  BY <1>1, <1>2 DEF exportvars, ExportIInv, ExportTypeOK, PrivateGone, PublicIs, Publish!ExportComplete, Master
<1>3. CASE Publish!Dies
  BY <1>1, <1>3 DEF Publish!Dies, ExportIInv, ExportTypeOK, PrivateGone, PublicIs, Publish!ExportComplete, Master
<1>4. CASE Publish!TempBranch \/ Publish!ResetToPublic
  BY <1>1, <1>4 DEF Publish!TempBranch, Publish!ResetToPublic, ExportIInv, ExportTypeOK, PrivateGone, PublicIs,
                    Publish!ExportComplete, Publish!Temp, Master
<1>5. CASE Publish!ListPrivate
  <2>1. work = Master /\ Master \in Trees /\ todel' = Publish!listPrivateFiles(Master, config) /\ work' = Master
    BY <1>5 DEF Publish!ListPrivate, ExportIInv, ExportTypeOK, PrivateGone
  <2>2. \A f \in Master : f \in Left \/ \E d \in todel' : d[2] = f.name
    BY <2>1, ListedAreSecret DEF ListedNames, Left
  <2>3. \A d \in todel' : d[2] \in Publish!Secret
    BY <2>1, ListedAreSecret DEF ListedNames
  <2>4. PrivateGone'
    BY <1>1, <1>5, <2>1, <2>2, <2>3 DEF Publish!ListPrivate, PrivateGone, Left, Master
  <2> QED BY <1>1, <1>5, <2>4 DEF Publish!ListPrivate, ExportIInv, ExportTypeOK, PublicIs, Publish!ExportComplete, Master
<1>6. CASE Publish!RemovePrivate
  <2>1. PrivateGone'
    <3>1. CASE todel = {} /\ epc' = "checkout" /\ UNCHANGED work
      BY <1>1, <1>6, <3>1 DEF Publish!RemovePrivate, ExportIInv, PrivateGone
    <3>2. ASSUME NEW d \in todel, work' = {g \in work : g.name # d[2]}, todel' = todel \ {d}, epc' = epc
          PROVE  PrivateGone'
      <4>1. epc = "remove" /\ Left \subseteq work /\ work \subseteq Master
        BY <1>6 DEF Publish!RemovePrivate, ExportIInv, PrivateGone
      <4>2. Left \subseteq work'
        BY <1>6, <3>2, <4>1 DEF ExportIInv, PrivateGone, Left
      <4>3. \A g \in work' : g \in Left \/ \E e \in todel' : e[2] = g.name
        BY <3>2, <4>1 DEF ExportIInv, PrivateGone
      <4> QED BY <1>1, <3>2, <4>1, <4>2, <4>3 DEF PrivateGone, ExportIInv, Master
    <3> QED BY <1>6, <3>1, <3>2 DEF Publish!RemovePrivate
  <2> QED BY <1>1, <1>6, <2>1 DEF Publish!RemovePrivate, ExportIInv, ExportTypeOK, PublicIs, Publish!ExportComplete, Master
<1>7. CASE Publish!ToPublic \/ Publish!DropTemp \/ Publish!AddAll
  BY <1>1, <1>7 DEF Publish!ToPublic, Publish!DropTemp, Publish!AddAll, ExportIInv, ExportTypeOK, PrivateGone, PublicIs,
                    Publish!ExportComplete, Publish!Temp, Master
<1>8. CASE Publish!Commit
  BY <1>1, <1>8 DEF Publish!Commit, ExportIInv, ExportTypeOK, PrivateGone, PublicIs, Publish!ExportComplete, Publish!Temp, Master
<1>9. CASE Publish!Push
  BY <1>1, <1>9 DEF Publish!Push, ExportIInv, ExportTypeOK, PrivateGone, PublicIs, Publish!ExportComplete, Master
<1>10. CASE Publish!Back
  BY <1>1, <1>10 DEF Publish!Back, ExportIInv, ExportTypeOK, PrivateGone, PublicIs, Publish!ExportComplete, Publish!Temp, Left, Master
<1> QED BY <1>2, <1>3, <1>4, <1>5, <1>6, <1>7, <1>8, <1>9, <1>10 DEF Publish!ENext, Publish!exportCode

LEMMA ExportIs == ExportIInv => Publish!NothingLeaks /\ Publish!ExportComplete
<1> SUFFICES ASSUME ExportIInv PROVE Publish!NothingLeaks
  BY DEF ExportIInv
<1>1. (refs["public"] \union remote) \ Published \subseteq Left
  BY DEF ExportIInv, PublicIs
<1>2. Publish!Secret \intersect Publish!NameOf((refs["public"] \union remote) \ Published) = {}
  BY <1>1 DEF Left, Publish!NameOf
<1> QED BY <1>2 DEF Publish!NothingLeaks, ExportIInv, ExportTypeOK, Master

-------------------------------------------------------------------------------
(***************************************************************************)
(* gitfame.                                                                *)
(***************************************************************************)
Entries  == [obj : Fame!Files \X Fame!People, lines : Nat]
Inners   == [commits : SUBSET Commits, files : SUBSET Fame!Files]
AtHunkPc == {"mark", "store", "fillcommit", "fillfile", "count", "addlines"}
FamePc   == {"none", "git", "progress", "done", "wgdone", "ended"} \union AtHunkPc
FillPc   == {"fillcommit", "fillfile"}
InMapPc  == {"store", "fillcommit", "fillfile", "addlines"}
Who(h)   == Author[Fame!Said(h).commit]

FameTypeOK ==
  /\ blame \in [Fame!Files -> Outputs] /\ order \in {"lines", "commits", "files"}
  /\ main \in {"add", "spawn", "wait", "ended"} /\ started \in 0 .. NumFiles
  /\ gpc \in [Fame!Files -> FamePc]
  /\ at \in [Fame!Files -> Nat]

\* The hunk a goroutine is at, and how far it has marked and counted hunks.
AtHunk ==
  \A f \in Fame!Files :
    /\ gpc[f] \in {"none", "git"} => at[f] = 1
    /\ gpc[f] \in AtHunkPc => at[f] \in DOMAIN blame[f].hunks
    /\ gpc[f] \in {"count", "addlines"} => ~Fame!Empty(f)

\* Goroutines are started in the order of the files.
Started ==
  /\ main = "spawn" => started < NumFiles
  /\ main \in {"wait", "ended"} => started = NumFiles
  /\ \A f \in Fame!Files : gpc[f] = "none" <=> f > started

CursorIInv == FameTypeOK /\ AtHunk /\ Started

LEMMA FameFacts ==
  /\ Fame!Nobody = 0 /\ Fame!Nobody \notin Fame!Files /\ Fame!Files = 1 .. NumFiles /\ NumFiles \in Nat
  /\ Fame!People \subseteq Nat /\ IsFiniteSet(Fame!Files) /\ IsFiniteSet(Commits)
  /\ Absent \notin Entries
<1>1. Fame!People \subseteq Nat
  BY GitSays DEF Fame!People
<1>2. Entries \subseteq [obj : (1 .. NumFiles) \X Nat, lines : Nat]
  BY <1>1 DEF Entries, Fame!Files
<1> QED BY <1>1, <1>2, Listing, GitSays, NoEntry, FS_Interval DEF Fame!Nobody, Fame!Files

LEMMA OfSeq == ASSUME NEW S, NEW s \in Seq(S) PROVE \A i \in DOMAIN s : s[i] \in S
OBVIOUS

LEMMA HunkFacts ==
  ASSUME FameTypeOK, NEW f \in Fame!Files
  PROVE  /\ blame[f].hunks \in Seq([commit : Commits, lines : Nat])
         /\ DOMAIN blame[f].hunks = 1 .. Len(blame[f].hunks) /\ Len(blame[f].hunks) \in Nat
         /\ blame[f].kind = "failed" => Len(blame[f].hunks) = 0
         /\ blame[f].kind \notin {"failed", "nolog"} => Len(blame[f].hunks) > 0
         /\ Fame!Empty(f) => Len(blame[f].hunks) = 1 /\ blame[f].hunks[1].lines = 0
         /\ \A i \in DOMAIN blame[f].hunks :
              /\ blame[f].hunks[i] \in [commit : Commits, lines : Nat]
              /\ Author[blame[f].hunks[i].commit] \in Fame!People
<1>1. blame[f] \in Outputs
  BY DEF FameTypeOK
<1>2. blame[f].hunks \in Seq([commit : Commits, lines : Nat])
  BY <1>1, GitSays
<1>3. \A i \in DOMAIN blame[f].hunks : blame[f].hunks[i] \in [commit : Commits, lines : Nat]
  BY <1>2, OfSeq
<1>4. \A i \in DOMAIN blame[f].hunks : Author[blame[f].hunks[i].commit] \in Fame!People
  BY <1>3 DEF Fame!People
<1>5. \/ blame[f].kind = "blame" /\ blame[f].hunks # <<>>
      \/ blame[f].kind = "empty" /\ Len(blame[f].hunks) = 1 /\ blame[f].hunks[1].lines = 0
      \/ blame[f].kind \in {"failed", "nolog"} /\ blame[f].hunks = <<>>
  BY <1>1, GitSays
<1>6. DOMAIN blame[f].hunks = 1 .. Len(blame[f].hunks) /\ Len(blame[f].hunks) \in Nat
  BY <1>2
<1>7. blame[f].hunks # <<>> => Len(blame[f].hunks) > 0
  BY <1>2
<1> QED BY <1>2, <1>3, <1>4, <1>5, <1>6, <1>7 DEF Fame!Empty

LEMMA AtFacts ==
  ASSUME CursorIInv, NEW f \in Fame!Files, gpc[f] \in AtHunkPc
  PROVE  /\ Fame!PersonOf(f) \in Fame!People /\ Fame!CommitOf(f) \in Commits /\ Fame!Hunk(f).lines \in Nat
         /\ at[f] \in 1 .. Len(blame[f].hunks) /\ Len(blame[f].hunks) \in Nat
BY HunkFacts DEF CursorIInv, AtHunk, Fame!PersonOf, Fame!CommitOf, Fame!Hunk

\* A goroutine that moves, without going to another hunk.
LEMMA Moves ==
  ASSUME CursorIInv, NEW f \in Fame!Files, NEW x \in FamePc, gpc' = [gpc EXCEPT ![f] = x]
  PROVE  gpc' \in [Fame!Files -> FamePc] /\ gpc'[f] = x /\ \A g \in Fame!Files \ {f} : gpc'[g] = gpc[g]
BY DEF CursorIInv, FameTypeOK

LEMMA MovesAtHunk ==
  ASSUME CursorIInv, NEW f \in Fame!Files, NEW x \in FamePc, gpc' = [gpc EXCEPT ![f] = x],
         UNCHANGED <<blame, order, at, main, started>>, gpc[f] # "none", x \notin {"none", "git"},
         x \in AtHunkPc => at[f] \in DOMAIN blame[f].hunks,
         x \in {"count", "addlines"} => ~Fame!Empty(f)
  PROVE  CursorIInv'
<1>1. gpc' \in [Fame!Files -> FamePc] /\ gpc'[f] = x /\ \A g \in Fame!Files \ {f} : gpc'[g] = gpc[g]
  BY Moves
<1>2. Started'
  BY <1>1 DEF CursorIInv, Started
<1>3. AtHunk'
  <2> SUFFICES ASSUME NEW g \in Fame!Files
      PROVE /\ gpc'[g] \in {"none", "git"} => at[g] = 1
            /\ gpc'[g] \in AtHunkPc => at[g] \in DOMAIN blame[g].hunks
            /\ gpc'[g] \in {"count", "addlines"} => ~Fame!Empty(g)
    BY DEF AtHunk, Fame!Empty
  <2> QED BY <1>1 DEF CursorIInv, AtHunk
<1> QED BY <1>1, <1>2, <1>3 DEF CursorIInv, FameTypeOK

LEMMA CursorInit == Fame!Init => CursorIInv
<1> SUFFICES ASSUME Fame!Init PROVE CursorIInv
  OBVIOUS
<1>1. AtHunk
  BY DEF Fame!Init, AtHunk, AtHunkPc
<1>2. Started
  BY FameFacts DEF Fame!Init, Started
<1> QED BY <1>1, <1>2, FameFacts, Listing DEF Fame!Init, CursorIInv, FameTypeOK, FamePc

\* Where a step of a goroutine leads.
LEMMA FileMoves ==
  ASSUME CursorIInv, NEW f \in Fame!Files, Fame!FileStep(f)
  PROVE  /\ UNCHANGED <<blame, order, main, started, report>>
         /\ \E x \in FamePc \ {"none", "git"} : gpc' = [gpc EXCEPT ![f] = x]
         /\ gpc[f] \notin {"none", "ended"}
         /\ Fame!AddLines(f) \/ UNCHANGED at
<1> USE DEF FamePc, AtHunkPc, Fame!inputs, Fame!tracker, Fame!Go, Fame!AfterMark
<1>1. CASE Fame!Git(f)
  <2>1. gpc' = [gpc EXCEPT ![f] = "progress"] \/ gpc' = [gpc EXCEPT ![f] = "mark"]
    BY <1>1 DEF Fame!Git
  <2> QED BY <1>1, <2>1 DEF Fame!Git
<1>2. CASE Fame!SkipMark(f)
  BY <1>2 DEF Fame!SkipMark
<1>3. CASE Fame!Mark(f) \/ Fame!Count(f)
  BY <1>3 DEF Fame!Mark, Fame!Count, Fame!LockAndLook
<1>4. CASE Fame!StoreMark(f) \/ Fame!StoreNew(f)
  BY <1>4 DEF Fame!StoreMark, Fame!StoreNew
<1>5. CASE Fame!FillCommit(f) \/ Fame!FillFile(f)
  BY <1>5 DEF Fame!FillCommit, Fame!FillFile
<1>6. CASE Fame!AddLines(f)
  BY <1>6 DEF Fame!AddLines
<1>7. CASE Fame!Progress(f) \/ Fame!Done(f) \/ Fame!WgDone(f)
  BY <1>7 DEF Fame!Progress, Fame!Done, Fame!WgDone
<1> QED BY <1>1, <1>2, <1>3, <1>4, <1>5, <1>6, <1>7 DEF Fame!FileStep, Fame!Blame

LEMMA CursorNext == CursorIInv /\ [Fame!Next]_gitfamevars => CursorIInv'
<1> SUFFICES ASSUME CursorIInv, [Fame!Next]_gitfamevars PROVE CursorIInv'
  OBVIOUS
<1> USE FameFacts
<1>1. CASE UNCHANGED <<blame, order, main, started, gpc, at>>
  BY <1>1 DEF CursorIInv, FameTypeOK, AtHunk, Started, Fame!Empty
<1>2. CASE UNCHANGED gitfamevars \/ Fame!Fatal
  BY <1>1, <1>2 DEF gitfamevars, Fame!Fatal, Fame!inputs, Fame!tracker
<1>3. CASE Fame!MainStep
  <2> USE DEF Fame!inputs, Fame!tracker
  <2>1. CASE Fame!Add
    BY <2>1 DEF Fame!Add, AtHunk, Started, CursorIInv, FameTypeOK, Fame!Empty
  <2>2. CASE Fame!Spawn
    <3>1. started + 1 \in Fame!Files /\ gpc[started + 1] = "none" /\ main = "spawn"
      BY <2>2 DEF Fame!Spawn, Started, CursorIInv, FameTypeOK
    <3>2. gpc' = [gpc EXCEPT ![started + 1] = "git"] /\ "git" \in FamePc
      BY <2>2 DEF Fame!Spawn, FamePc
    <3>3. gpc' \in [Fame!Files -> FamePc] /\ gpc'[started + 1] = "git" /\ \A g \in Fame!Files \ {started + 1} : gpc'[g] = gpc[g]
      BY <3>1, <3>2, Moves
    <3>4. UNCHANGED <<blame, order, at>> /\ main' = "add" /\ started' = started + 1
      BY <2>2 DEF Fame!Spawn
    <3>5. Started'
      BY <3>1, <3>3, <3>4 DEF Started, CursorIInv, FameTypeOK
    <3>6. AtHunk'
      <4> SUFFICES ASSUME NEW g \in Fame!Files
          PROVE /\ gpc'[g] \in {"none", "git"} => at[g] = 1
                /\ gpc'[g] \in AtHunkPc => at[g] \in DOMAIN blame[g].hunks
                /\ gpc'[g] \in {"count", "addlines"} => ~Fame!Empty(g)
        BY <3>4 DEF AtHunk, Fame!Empty
      <4> QED BY <3>1, <3>3 DEF AtHunk, CursorIInv, AtHunkPc
    <3>7. started + 1 \in 0 .. NumFiles
      BY <3>1
    <3> QED BY <3>3, <3>4, <3>5, <3>6, <3>7 DEF CursorIInv, FameTypeOK
  <2>3. CASE Fame!Printer
    BY <2>3 DEF Fame!Printer, AtHunk, Started, CursorIInv, FameTypeOK, Fame!Empty
  <2> QED BY <1>3, <2>1, <2>2, <2>3 DEF Fame!MainStep, Fame!Main
<1>4. ASSUME NEW f \in Fame!Files, Fame!FileStep(f) PROVE CursorIInv'
  <2>1. /\ UNCHANGED <<blame, order, main, started>> /\ gpc[f] # "none"
        /\ Fame!AddLines(f) \/ UNCHANGED at
    BY <1>4, FileMoves
  <2>2. PICK x \in FamePc \ {"none", "git"} : gpc' = [gpc EXCEPT ![f] = x]
    BY <1>4, FileMoves
  <2>3. gpc'[f] = x
    BY <2>2, Moves
  <2>4. gpc[f] \in AtHunkPc => at[f] \in DOMAIN blame[f].hunks
    BY DEF CursorIInv, AtHunk
  <2>5. CASE Fame!AddLines(f)
    <3>1. at[f] \in 1 .. Len(blame[f].hunks) /\ DOMAIN blame[f].hunks = 1 .. Len(blame[f].hunks) /\ Len(blame[f].hunks) \in Nat
      BY <2>5, AtFacts, HunkFacts DEF Fame!AddLines, Fame!Go, AtHunkPc, CursorIInv
    <3>2. /\ gpc' = [gpc EXCEPT ![f] = IF at[f] < Len(blame[f].hunks) THEN "mark" ELSE "progress"]
          /\ at' = [at EXCEPT ![f] = IF @ < Len(blame[f].hunks) THEN @ + 1 ELSE 1]
      BY <2>5 DEF Fame!AddLines, Fame!Go
    <3>3. /\ gpc'[f] = (IF at[f] < Len(blame[f].hunks) THEN "mark" ELSE "progress")
          /\ \A g \in Fame!Files \ {f} : gpc'[g] = gpc[g] /\ at'[g] = at[g]
          /\ at'[f] = (IF at[f] < Len(blame[f].hunks) THEN at[f] + 1 ELSE 1)
          /\ gpc' \in [Fame!Files -> FamePc] /\ at' \in [Fame!Files -> Nat]
      BY <3>1, <3>2 DEF CursorIInv, FameTypeOK, FamePc, AtHunkPc
    <3>4. AtHunk'
      <4> SUFFICES ASSUME NEW g \in Fame!Files
          PROVE /\ gpc'[g] \in {"none", "git"} => at'[g] = 1
                /\ gpc'[g] \in AtHunkPc => at'[g] \in DOMAIN blame[g].hunks
                /\ gpc'[g] \in {"count", "addlines"} => ~Fame!Empty(g)
        BY <2>1 DEF AtHunk, Fame!Empty
      <4>1. CASE g = f
        BY <3>1, <3>3, <4>1 DEF AtHunkPc
      <4>2. CASE g # f
        BY <3>3, <4>2 DEF AtHunk, CursorIInv
      <4> QED BY <4>1, <4>2
    <3>5. Started'
      BY <2>1, <2>2, <2>3, <3>3 DEF Started, CursorIInv
    <3> QED BY <2>1, <3>3, <3>4, <3>5 DEF CursorIInv, FameTypeOK
  <2>6. CASE UNCHANGED at
    <3>1. x \in AtHunkPc => at[f] \in DOMAIN blame[f].hunks
      <4>1. CASE Fame!Git(f)
        <5>1. gpc[f] = "git" /\ at[f] = 1
          BY <4>1 DEF Fame!Git, Fame!Go, CursorIInv, AtHunk
        <5>2. CASE blame[f].kind = "failed"
          BY <2>3, <4>1, <5>2 DEF Fame!Git, Fame!Go, AtHunkPc, CursorIInv, FameTypeOK
        <5>3. CASE blame[f].kind # "failed"
          <6>1. blame[f].kind \notin {"failed", "nolog"}
            BY <4>1, <5>3 DEF Fame!Git
          <6> QED BY <5>1, <6>1, HunkFacts DEF CursorIInv
        <5> QED BY <5>2, <5>3
      <4>2. CASE gpc[f] \in AtHunkPc
        BY <2>4, <4>2
      <4>3. CASE Fame!Progress(f) \/ Fame!Done(f) \/ Fame!WgDone(f)
        BY <2>3, <4>3 DEF Fame!Progress, Fame!Done, Fame!WgDone, Fame!Go, AtHunkPc, CursorIInv, FameTypeOK
      <4> QED BY <1>4, <4>1, <4>2, <4>3 DEF Fame!FileStep, Fame!Blame, Fame!SkipMark, Fame!Mark, Fame!Count, Fame!LockAndLook, Fame!StoreMark,
                    Fame!StoreNew, Fame!FillCommit, Fame!FillFile, Fame!AddLines, Fame!Go, AtHunkPc
    <3>2. x \in {"count", "addlines"} => ~Fame!Empty(f)
      <4>1. ASSUME Fame!SkipMark(f) PROVE ~Fame!Empty(f)
        BY <4>1, HunkFacts DEF Fame!SkipMark, Fame!SameCommit, Fame!Go, CursorIInv, AtHunk, AtHunkPc
      <4>2. ASSUME Fame!Count(f) PROVE ~Fame!Empty(f)
        BY <4>2 DEF Fame!Count, Fame!LockAndLook, Fame!Go, CursorIInv, AtHunk
      <4>3. ASSUME Fame!AddLines(f) PROVE ~Fame!Empty(f)
        BY <4>3 DEF Fame!AddLines, Fame!Go, CursorIInv, AtHunk
      <4>4. ASSUME Fame!StoreMark(f) \/ Fame!FillFile(f), x = "count" PROVE ~Fame!Empty(f)
        BY <2>3, <4>4 DEF Fame!StoreMark, Fame!FillFile, Fame!Go, Fame!AfterMark, CursorIInv, FameTypeOK
      <4>5. ASSUME Fame!Git(f) \/ Fame!Mark(f) \/ Fame!StoreNew(f) \/ Fame!FillCommit(f) \/ Fame!Progress(f) \/ Fame!Done(f) \/ Fame!WgDone(f)
            PROVE x \notin {"count", "addlines"}
        BY <2>3, <4>5 DEF Fame!Git, Fame!Mark, Fame!LockAndLook, Fame!StoreNew, Fame!FillCommit, Fame!Progress, Fame!Done, Fame!WgDone, Fame!Go,
                          CursorIInv, FameTypeOK
      <4>6. ASSUME Fame!StoreMark(f) \/ Fame!FillFile(f) PROVE x # "addlines"
        BY <2>3, <4>6 DEF Fame!StoreMark, Fame!FillFile, Fame!Go, Fame!AfterMark, CursorIInv, FameTypeOK
      <4> QED BY <1>4, <4>1, <4>2, <4>3, <4>4, <4>5, <4>6 DEF Fame!FileStep, Fame!Blame
    <3> QED BY <2>1, <2>2, <2>6, <3>1, <3>2, MovesAtHunk
  <2> QED BY <2>1, <2>5, <2>6
<1> QED BY <1>2, <1>3, <1>4 DEF Fame!Next

-------------------------------------------------------------------------------
(* The two counters of the tracker count goroutines: wg those that were      *)
(* started and have not come to the WaitGroup, count those that have not     *)
(* decremented it and the one main is about to start.                        *)
InWg    == {f \in Fame!Files : gpc[f] \notin {"none", "ended"}}
InCount == {f \in Fame!Files : gpc[f] \notin {"none", "wgdone", "ended"}}

CountersIInv ==
  /\ wg = Cardinality(InWg)
  /\ count = Cardinality(InCount) + (IF main = "spawn" THEN 1 ELSE 0)
  /\ main = "ended" => \A f \in Fame!Files : gpc[f] = "ended"

LEMMA CountersInit == Fame!Init => CountersIInv
<1> SUFFICES ASSUME Fame!Init PROVE CountersIInv
  OBVIOUS
<1>1. InWg = {} /\ InCount = {}
  BY DEF Fame!Init, InWg, InCount
<1> QED BY <1>1, FS_EmptySet DEF Fame!Init, CountersIInv

LEMMA InSets ==
  /\ IsFiniteSet(InWg) /\ IsFiniteSet(InCount) /\ Cardinality(InWg) \in Nat /\ Cardinality(InCount) \in Nat
  /\ InWg \subseteq Fame!Files /\ InCount \subseteq InWg
<1>1. InWg \subseteq Fame!Files /\ InCount \subseteq InWg
  BY DEF InWg, InCount
<1> QED BY <1>1, FameFacts, FS_Subset, FS_CardinalityType

LEMMA CountersNext == CursorIInv /\ CountersIInv /\ [Fame!Next]_gitfamevars => CountersIInv'
<1> SUFFICES ASSUME CursorIInv, CountersIInv, [Fame!Next]_gitfamevars PROVE CountersIInv'
  OBVIOUS
<1> USE DEF Fame!inputs, Fame!tracker
<1>1. CASE UNCHANGED <<main, gpc, count, wg>>
  BY <1>1 DEF CountersIInv, InWg, InCount
<1>2. CASE UNCHANGED gitfamevars \/ Fame!Fatal
  BY <1>1, <1>2 DEF gitfamevars, Fame!Fatal
<1>3. CASE Fame!MainStep
  <2>1. CASE Fame!Add
    <3>1. UNCHANGED <<gpc, wg>> /\ InWg' = InWg /\ InCount' = InCount
      BY <2>1 DEF Fame!Add, InWg, InCount
    <3> QED BY <2>1, <3>1, InSets DEF Fame!Add, CountersIInv
  <2>2. CASE Fame!Spawn
    <3>1. started + 1 \in Fame!Files /\ gpc[started + 1] = "none" /\ main = "spawn"
      BY <2>2, FameFacts DEF Fame!Spawn, Started, CursorIInv, FameTypeOK
    <3>2. gpc' = [gpc EXCEPT ![started + 1] = "git"]
      BY <2>2 DEF Fame!Spawn
    <3>3. gpc'[started + 1] = "git" /\ \A g \in Fame!Files \ {started + 1} : gpc'[g] = gpc[g]
      BY <3>1, <3>2, Moves DEF FamePc
    <3>4. InWg' = InWg \union {started + 1} /\ InCount' = InCount \union {started + 1}
      BY <3>1, <3>3 DEF InWg, InCount
    <3>5. started + 1 \notin InWg /\ started + 1 \notin InCount
      BY <3>1 DEF InWg, InCount
    <3>6. Cardinality(InWg') = Cardinality(InWg) + 1 /\ Cardinality(InCount') = Cardinality(InCount) + 1
      BY <3>4, <3>5, InSets, FS_AddElement
    <3>7. main' = "add" /\ wg' = wg + 1 /\ count' = count
      BY <2>2 DEF Fame!Spawn
    <3> QED BY <3>1, <3>6, <3>7, InSets DEF CountersIInv
  <2>3. CASE Fame!Printer
    <3>1. InWg = {}
      BY <2>3, InSets, FS_EmptySet DEF Fame!Printer, CountersIInv
    <3>2. \A f \in Fame!Files : gpc[f] # "none"
      BY <2>3, FameFacts DEF Fame!Printer, CursorIInv, Started, FameTypeOK
    <3>3. \A f \in Fame!Files : gpc[f] = "ended"
      BY <3>1, <3>2 DEF InWg
    <3>4. UNCHANGED <<gpc, wg, count>> /\ InWg' = InWg /\ InCount' = InCount
      BY <2>3 DEF Fame!Printer, InWg, InCount
    <3> QED BY <2>3, <3>3, <3>4 DEF Fame!Printer, CountersIInv
  <2> QED BY <1>3, <2>1, <2>2, <2>3 DEF Fame!MainStep, Fame!Main
<1>4. ASSUME NEW f \in Fame!Files, Fame!FileStep(f) PROVE CountersIInv'
  <2>1. UNCHANGED main /\ gpc[f] \notin {"none", "ended"}
    BY <1>4, FileMoves
  <2>2. PICK x \in FamePc \ {"none", "git"} : gpc' = [gpc EXCEPT ![f] = x]
    BY <1>4, FileMoves
  <2>3. gpc'[f] = x /\ \A g \in Fame!Files \ {f} : gpc'[g] = gpc[g]
    BY <2>2, Moves
  <2>4. main # "ended"
    BY <2>1 DEF CountersIInv
  <2>5. CASE Fame!WgDone(f)
    <3>1. gpc[f] = "wgdone" /\ gpc'[f] = "ended" /\ wg' = wg - 1 /\ count' = count
      BY <2>3, <2>5 DEF Fame!WgDone, Fame!Go, CursorIInv, FameTypeOK
    <3>2. InWg' = InWg \ {f} /\ f \in InWg /\ InCount' = InCount
      BY <2>3, <3>1 DEF InWg, InCount
    <3>3. Cardinality(InWg') = Cardinality(InWg) - 1
      BY <3>2, InSets, FS_RemoveElement
    <3> QED BY <2>1, <2>4, <3>1, <3>2, <3>3 DEF CountersIInv
  <2>6. CASE Fame!Done(f)
    <3>1. gpc[f] = "done" /\ gpc'[f] = "wgdone" /\ wg' = wg /\ count' = count - 1
      BY <2>3, <2>6 DEF Fame!Done, Fame!Go, CursorIInv, FameTypeOK
    <3>2. InWg' = InWg /\ f \in InCount /\ InCount' = InCount \ {f}
      BY <2>3, <3>1 DEF InWg, InCount
    <3>3. Cardinality(InCount') = Cardinality(InCount) - 1
      BY <3>2, InSets, FS_RemoveElement
    <3> QED BY <2>1, <2>4, <3>1, <3>2, <3>3, InSets DEF CountersIInv
  <2>7. CASE ~Fame!WgDone(f) /\ ~Fame!Done(f)
    <3>1. /\ UNCHANGED <<count, wg>> /\ gpc[f] \notin {"none", "wgdone", "ended"}
          /\ gpc' # [gpc EXCEPT ![f] = "ended"] /\ gpc' # [gpc EXCEPT ![f] = "wgdone"]
      <4> USE DEF Fame!Go, CursorIInv, FameTypeOK
      <4>1. CASE Fame!Git(f) \/ Fame!SkipMark(f) \/ Fame!Mark(f) \/ Fame!Count(f)
        BY <4>1 DEF Fame!Git, Fame!SkipMark, Fame!Mark, Fame!Count, Fame!LockAndLook
      <4>2. CASE Fame!StoreMark(f) \/ Fame!StoreNew(f)
        BY <4>2 DEF Fame!StoreMark, Fame!StoreNew, Fame!AfterMark
      <4>3. CASE Fame!FillCommit(f) \/ Fame!FillFile(f)
        BY <4>3 DEF Fame!FillCommit, Fame!FillFile, Fame!AfterMark
      <4>4. CASE Fame!AddLines(f) \/ Fame!Progress(f)
        BY <4>4 DEF Fame!AddLines, Fame!Progress
      <4> QED BY <1>4, <2>7, <4>1, <4>2, <4>3, <4>4 DEF Fame!FileStep, Fame!Blame
    <3>2. gpc'[f] \notin {"none", "wgdone", "ended"}
      BY <2>2, <2>3, <3>1
    <3>3. InWg' = InWg /\ InCount' = InCount
      BY <2>3, <3>1, <3>2 DEF InWg, InCount
    <3> QED BY <2>1, <2>4, <3>1, <3>3 DEF CountersIInv
  <2> QED BY <2>5, <2>6, <2>7
<1> QED BY <1>2, <1>3, <1>4 DEF Fame!Next

-------------------------------------------------------------------------------
(* The mutexes: who is in the map holds its own, so while there was no race  *)
(* nobody else is there.                                                     *)
Mine(f) == IF Fame!Empty(f) THEN muBlame ELSE muGrep

LocksIInv ==
  /\ muGrep \in Fame!Files \union {0} /\ muBlame \in Fame!Files \union {0} /\ raced \in BOOLEAN
  /\ \A f \in Fame!Files : gpc[f] \in InMapPc => Mine(f) = f
  /\ raced = FALSE => muGrep = 0 \/ muBlame = 0

LEMMA AloneInMap ==
  ASSUME LocksIInv, raced = FALSE, NEW f \in Fame!Files, NEW g \in Fame!Files, gpc[f] \in InMapPc, gpc[g] \in InMapPc
  PROVE  f = g
BY FameFacts DEF LocksIInv, Mine

LEMMA LocksInit == Fame!Init => LocksIInv
BY FameFacts DEF Fame!Init, LocksIInv, InMapPc

LEMMA LocksNext == CursorIInv /\ LocksIInv /\ [Fame!Next]_gitfamevars => LocksIInv'
<1> SUFFICES ASSUME CursorIInv, LocksIInv, [Fame!Next]_gitfamevars PROVE LocksIInv'
  OBVIOUS
<1> USE FameFacts DEF Fame!inputs, Fame!tracker
<1>1. CASE UNCHANGED <<blame, gpc, muGrep, muBlame, raced>>
  BY <1>1 DEF LocksIInv, Mine, Fame!Empty
<1>2. CASE UNCHANGED gitfamevars \/ Fame!Fatal
  BY <1>1, <1>2 DEF gitfamevars, Fame!Fatal
<1>3. CASE Fame!MainStep
  <2>1. CASE Fame!Add \/ Fame!Printer
    BY <1>1, <2>1 DEF Fame!Add, Fame!Printer
  <2>2. CASE Fame!Spawn
    <3>1. started + 1 \in Fame!Files /\ "git" \in FamePc /\ UNCHANGED <<blame, muGrep, muBlame, raced>>
      BY <2>2 DEF Fame!Spawn, Started, CursorIInv, FameTypeOK, FamePc
    <3>2. gpc' = [gpc EXCEPT ![started + 1] = "git"]
      BY <2>2 DEF Fame!Spawn
    <3>3. gpc'[started + 1] = "git" /\ \A g \in Fame!Files \ {started + 1} : gpc'[g] = gpc[g]
      BY <3>1, <3>2, Moves
    <3> QED BY <3>1, <3>3 DEF LocksIInv, Mine, Fame!Empty, InMapPc
  <2> QED BY <1>3, <2>1, <2>2 DEF Fame!MainStep, Fame!Main
<1>4. ASSUME NEW f \in Fame!Files, Fame!FileStep(f) PROVE LocksIInv'
  <2>1. UNCHANGED blame
    BY <1>4, FileMoves
  <2>2. PICK x \in FamePc \ {"none", "git"} : gpc' = [gpc EXCEPT ![f] = x]
    BY <1>4, FileMoves
  <2>3. gpc'[f] = x /\ \A g \in Fame!Files \ {f} : gpc'[g] = gpc[g]
    BY <2>2, Moves
  <2>4. CASE Fame!Mark(f) \/ Fame!Count(f)
    BY <2>1, <2>3, <2>4 DEF Fame!Mark, Fame!Count, Fame!LockAndLook, Fame!Lock, LocksIInv, Mine, Fame!Empty, Fame!Nobody, InMapPc
  <2>5. CASE Fame!StoreMark(f) \/ Fame!FillFile(f) \/ Fame!AddLines(f)
    <3>1. Fame!Unlock(f) /\ gpc[f] \in InMapPc /\ gpc'[f] \notin InMapPc /\ UNCHANGED raced
      BY <2>2, <2>3, <2>5 DEF Fame!StoreMark, Fame!FillFile, Fame!AddLines, Fame!Go, Fame!AfterMark, InMapPc, CursorIInv, FameTypeOK
    <3> QED BY <2>1, <2>3, <3>1, SMTT(60) DEF Fame!Unlock, LocksIInv, Mine, Fame!Empty, Fame!Nobody, InMapPc
  <2>6. CASE Fame!StoreNew(f) \/ Fame!FillCommit(f)
    BY <2>1, <2>3, <2>6 DEF Fame!StoreNew, Fame!FillCommit, Fame!Go, LocksIInv, Mine, Fame!Empty, InMapPc
  <2>7. CASE Fame!Git(f) \/ Fame!SkipMark(f) \/ Fame!Progress(f) \/ Fame!Done(f) \/ Fame!WgDone(f)
    <3>1. gpc'[f] \notin InMapPc /\ UNCHANGED <<muGrep, muBlame, raced>>
      BY <2>2, <2>3, <2>7 DEF Fame!Git, Fame!SkipMark, Fame!Progress, Fame!Done, Fame!WgDone, Fame!Go, InMapPc, CursorIInv, FameTypeOK
    <3> QED BY <2>1, <2>3, <3>1 DEF LocksIInv, Mine, Fame!Empty
  <2> QED BY <1>4, <2>4, <2>5, <2>6, <2>7 DEF Fame!FileStep, Fame!Blame
<1> QED BY <1>2, <1>3, <1>4 DEF Fame!Next

-------------------------------------------------------------------------------
(* How far the goroutines are: the hunks whose commit and file are noted in  *)
(* the map, and those whose lines are (an empty file has none).              *)
FinishedPc == {"progress", "done", "wgdone", "ended"}

MarkedTo(f) ==
  IF gpc[f] \in FinishedPc THEN Len(blame[f].hunks)
  ELSE IF gpc[f] \in {"count", "addlines"} THEN at[f] ELSE at[f] - 1
CountedTo(f) ==
  IF gpc[f] \in FinishedPc \/ Fame!Empty(f) THEN Len(blame[f].hunks) ELSE at[f] - 1

Marked  == {h \in Fame!AllHunks : h[2] <= MarkedTo(h[1])}
Counted == {h \in Fame!AllHunks : h[2] <= CountedTo(h[1])}
Here(f) == <<f, at[f]>>

LEMMA Hunks ==
  ASSUME CursorIInv
  PROVE  /\ \A h \in Fame!AllHunks : h = <<h[1], h[2]>> /\ h[1] \in Fame!Files /\ h[2] \in DOMAIN blame[h[1]].hunks /\ h[2] \in Nat \ {0}
         /\ \A f \in Fame!Files : \A i \in DOMAIN blame[f].hunks : <<f, i>> \in Fame!AllHunks
         /\ \A h \in Fame!AllHunks : Who(h) \in Fame!People /\ Fame!Said(h).commit \in Commits /\ Fame!Said(h).lines \in Nat
<1>1. \A h \in Fame!AllHunks : \E f \in Fame!Files : h \in {f} \X DOMAIN blame[f].hunks
  BY DEF Fame!AllHunks
<1>2. ASSUME NEW h \in Fame!AllHunks
      PROVE  h = <<h[1], h[2]>> /\ h[1] \in Fame!Files /\ h[2] \in DOMAIN blame[h[1]].hunks
  BY <1>1
<1>3. ASSUME NEW h \in Fame!AllHunks PROVE h[2] \in Nat \ {0}
  BY <1>2, HunkFacts DEF CursorIInv
<1>4. ASSUME NEW f \in Fame!Files, NEW i \in DOMAIN blame[f].hunks PROVE <<f, i>> \in Fame!AllHunks
  <2>1. <<f, i>> \in {f} \X DOMAIN blame[f].hunks
    OBVIOUS
  <2> QED BY <2>1 DEF Fame!AllHunks
<1>5. ASSUME NEW h \in Fame!AllHunks PROVE Who(h) \in Fame!People /\ Fame!Said(h).commit \in Commits /\ Fame!Said(h).lines \in Nat
  BY <1>2, HunkFacts DEF CursorIInv, Who, Fame!Said
<1> QED BY <1>2, <1>3, <1>4, <1>5

LEMMA HereFacts ==
  ASSUME CursorIInv, NEW f \in Fame!Files, gpc[f] \in AtHunkPc
  PROVE  /\ Here(f) \in Fame!AllHunks /\ Here(f)[1] = f /\ Here(f)[2] = at[f] /\ at[f] \in Nat \ {0}
         /\ Who(Here(f)) = Fame!PersonOf(f) /\ Fame!PersonOf(f) \in Fame!People
         /\ Fame!Said(Here(f)) = Fame!Hunk(f) /\ Fame!Said(Here(f)).commit = Fame!CommitOf(f) /\ Fame!CommitOf(f) \in Commits
<1>1. at[f] \in DOMAIN blame[f].hunks
  BY DEF CursorIInv, AtHunk
<1>2. Here(f)[1] = f /\ Here(f)[2] = at[f]
  BY DEF Here
<1>3. Here(f) \in Fame!AllHunks
  BY <1>1, Hunks DEF Here
<1>4. Fame!Said(Here(f)) = Fame!Hunk(f)
  BY <1>2 DEF Fame!Said, Fame!Hunk
<1> QED BY <1>2, <1>3, <1>4, Hunks DEF Who, Fame!PersonOf, Fame!CommitOf

\* What the hunks are does not change.
LEMMA SameHunks ==
  ASSUME UNCHANGED blame
  PROVE  Fame!AllHunks' = Fame!AllHunks /\ (\A h : Fame!Said(h)' = Fame!Said(h) /\ Who(h)' = Who(h))
BY DEF Fame!AllHunks, Fame!Said, Who

LEMMA MarkedSame ==
  ASSUME CursorIInv, UNCHANGED blame, \A f \in Fame!Files : MarkedTo(f)' = MarkedTo(f)
  PROVE  Marked' = Marked
BY SameHunks, Hunks DEF Marked

LEMMA CountedSame ==
  ASSUME CursorIInv, UNCHANGED blame, \A f \in Fame!Files : CountedTo(f)' = CountedTo(f)
  PROVE  Counted' = Counted
BY SameHunks, Hunks DEF Counted

LEMMA MarkedMore ==
  ASSUME CursorIInv, UNCHANGED blame, NEW f \in Fame!Files, \A g \in Fame!Files \ {f} : MarkedTo(g)' = MarkedTo(g),
         Here(f) \in Fame!AllHunks, at[f] \in Nat, MarkedTo(f) = at[f] - 1, MarkedTo(f)' = at[f]
  PROVE  Marked' = Marked \union {Here(f)}
<1>1. ASSUME NEW h \in Fame!AllHunks PROVE h[2] <= MarkedTo(h[1])' <=> h[2] <= MarkedTo(h[1]) \/ h = Here(f)
  <2>1. h = <<h[1], h[2]>> /\ h[1] \in Fame!Files /\ h[2] \in Nat
    BY Hunks
  <2>2. CASE h[1] = f
    BY <2>1, <2>2 DEF Here
  <2>3. CASE h[1] # f
    BY <2>1, <2>3 DEF Here
  <2> QED BY <2>2, <2>3
<1>2. Marked' = {h \in Fame!AllHunks : h[2] <= MarkedTo(h[1])'}
  BY SameHunks DEF Marked
<1> QED BY <1>1, <1>2 DEF Marked

LEMMA CountedMore ==
  ASSUME CursorIInv, UNCHANGED blame, NEW f \in Fame!Files, \A g \in Fame!Files \ {f} : CountedTo(g)' = CountedTo(g),
         Here(f) \in Fame!AllHunks, at[f] \in Nat, CountedTo(f) = at[f] - 1, CountedTo(f)' = at[f]
  PROVE  Counted' = Counted \union {Here(f)} /\ Here(f) \notin Counted
<1>1. ASSUME NEW h \in Fame!AllHunks PROVE h[2] <= CountedTo(h[1])' <=> h[2] <= CountedTo(h[1]) \/ h = Here(f)
  <2>1. h = <<h[1], h[2]>> /\ h[1] \in Fame!Files /\ h[2] \in Nat
    BY Hunks
  <2>2. CASE h[1] = f
    BY <2>1, <2>2 DEF Here
  <2>3. CASE h[1] # f
    BY <2>1, <2>3 DEF Here
  <2> QED BY <2>2, <2>3
<1>2. Counted' = {h \in Fame!AllHunks : h[2] <= CountedTo(h[1])'}
  BY SameHunks DEF Counted
<1>3. Here(f) \notin Counted
  BY DEF Counted, Here
<1> QED BY <1>1, <1>2, <1>3 DEF Counted

LEMMA HowFarMain ==
  ASSUME CursorIInv, Fame!MainStep \/ Fame!Fatal \/ UNCHANGED gitfamevars
  PROVE  Marked' = Marked /\ Counted' = Counted
<1> USE DEF Fame!inputs, Fame!tracker
<1>1. ASSUME UNCHANGED <<blame, at, gpc>> PROVE Marked' = Marked /\ Counted' = Counted
  BY <1>1, MarkedSame, CountedSame DEF MarkedTo, CountedTo, Fame!Empty
<1>2. CASE Fame!Spawn
  <2>1. started + 1 \in Fame!Files /\ gpc[started + 1] = "none" /\ "git" \in FamePc
    BY <1>2, FameFacts DEF Fame!Spawn, Started, CursorIInv, FameTypeOK, FamePc
  <2>2. UNCHANGED <<blame, at>> /\ gpc' = [gpc EXCEPT ![started + 1] = "git"]
    BY <1>2 DEF Fame!Spawn
  <2>3. gpc'[started + 1] = "git" /\ \A g \in Fame!Files \ {started + 1} : gpc'[g] = gpc[g]
    BY <2>1, <2>2, Moves
  <2>4. ASSUME NEW g \in Fame!Files PROVE MarkedTo(g)' = MarkedTo(g) /\ CountedTo(g)' = CountedTo(g)
    BY <2>1, <2>2, <2>3 DEF MarkedTo, CountedTo, FinishedPc, Fame!Empty
  <2> QED BY <2>2, <2>4, MarkedSame, CountedSame
<1>3. CASE UNCHANGED gitfamevars \/ Fame!Fatal \/ Fame!Add \/ Fame!Printer
  BY <1>1, <1>3 DEF gitfamevars, Fame!Fatal, Fame!Add, Fame!Printer
<1> QED BY <1>2, <1>3 DEF Fame!MainStep, Fame!Main

LEMMA HowFarFile ==
  ASSUME CursorIInv, NEW f \in Fame!Files, Fame!FileStep(f)
  PROVE  /\ Fame!SkipMark(f) \/ Fame!StoreMark(f) \/ Fame!FillFile(f) => Marked' = Marked \union {Here(f)}
         /\ ~(Fame!SkipMark(f) \/ Fame!StoreMark(f) \/ Fame!FillFile(f)) => Marked' = Marked
         /\ Fame!AddLines(f) => Counted' = Counted \union {Here(f)} /\ Here(f) \notin Counted
         /\ ~Fame!AddLines(f) => Counted' = Counted
<1>1. UNCHANGED blame /\ (Fame!AddLines(f) \/ UNCHANGED at) /\ Fame!Empty(f)' = Fame!Empty(f)
  BY FileMoves DEF Fame!Empty
<1>2. PICK x \in FamePc \ {"none", "git"} : gpc' = [gpc EXCEPT ![f] = x]
  BY FileMoves
<1>3. gpc'[f] = x /\ \A g \in Fame!Files \ {f} : gpc'[g] = gpc[g]
  BY <1>2, Moves
<1>4. \A g \in Fame!Files \ {f} : at'[g] = at[g]
  BY <1>1 DEF Fame!AddLines, CursorIInv, FameTypeOK
<1>5. ASSUME NEW g \in Fame!Files \ {f} PROVE MarkedTo(g)' = MarkedTo(g) /\ CountedTo(g)' = CountedTo(g)
  BY <1>1, <1>3, <1>4 DEF MarkedTo, CountedTo, Fame!Empty
<1> USE DEF CursorIInv, FameTypeOK, Fame!Go
<1>6. CASE Fame!SkipMark(f)
  <2>1. gpc[f] = "mark" /\ gpc'[f] = "count" /\ at' = at
    BY <1>6 DEF Fame!SkipMark
  <2>2. Here(f) \in Fame!AllHunks /\ at[f] \in Nat
    BY <2>1, HereFacts DEF AtHunkPc
  <2>3. MarkedTo(f) = at[f] - 1 /\ MarkedTo(f)' = at[f] /\ CountedTo(f)' = CountedTo(f)
    BY <1>1, <2>1 DEF MarkedTo, CountedTo, FinishedPc
  <2>4. Marked' = Marked \union {Here(f)}
    BY <1>1, <1>5, <2>2, <2>3, MarkedMore
  <2>5. Counted' = Counted
    BY <1>1, <1>5, <2>3, CountedSame
  <2> QED BY <1>6, <2>1, <2>4, <2>5 DEF Fame!AddLines
<1>7. CASE Fame!StoreMark(f) \/ Fame!FillFile(f)
  <2>1. gpc[f] \in {"store", "fillfile"} /\ at' = at /\ gpc'[f] = (IF Fame!Empty(f) THEN "progress" ELSE "count")
    BY <1>7 DEF Fame!StoreMark, Fame!FillFile, Fame!AfterMark
  <2>2. Here(f) \in Fame!AllHunks /\ at[f] \in Nat /\ at[f] \in DOMAIN blame[f].hunks
    BY <2>1, HereFacts DEF AtHunkPc, AtHunk
  <2>3. MarkedTo(f) = at[f] - 1 /\ CountedTo(f)' = CountedTo(f)
    BY <1>1, <2>1 DEF MarkedTo, CountedTo, FinishedPc
  <2>4. MarkedTo(f)' = at[f]
    <3>1. CASE Fame!Empty(f)
      <4>1. Len(blame[f].hunks) = 1 /\ at[f] = 1
        BY <2>2, <3>1, HunkFacts
      <4> QED BY <1>1, <2>1, <3>1, <4>1 DEF MarkedTo, FinishedPc
    <3>2. CASE ~Fame!Empty(f)
      BY <1>1, <2>1, <3>2 DEF MarkedTo, FinishedPc
    <3> QED BY <3>1, <3>2
  <2>5. Marked' = Marked \union {Here(f)}
    BY <1>1, <1>5, <2>2, <2>3, <2>4, MarkedMore
  <2>6. Counted' = Counted
    BY <1>1, <1>5, <2>3, CountedSame
  <2> QED BY <1>7, <2>1, <2>5, <2>6 DEF Fame!AddLines
<1>8. CASE Fame!AddLines(f)
  <2>1. /\ gpc[f] = "addlines" /\ gpc'[f] = (IF at[f] < Len(blame[f].hunks) THEN "mark" ELSE "progress")
        /\ at'[f] = (IF at[f] < Len(blame[f].hunks) THEN at[f] + 1 ELSE 1)
    BY <1>8 DEF Fame!AddLines
  <2>2. Here(f) \in Fame!AllHunks /\ at[f] \in 1 .. Len(blame[f].hunks) /\ Len(blame[f].hunks) \in Nat /\ ~Fame!Empty(f)
    BY <2>1, HereFacts, AtFacts DEF AtHunkPc, AtHunk
  <2>3. MarkedTo(f) = at[f] /\ MarkedTo(f)' = at[f]
    BY <1>1, <2>1, <2>2 DEF MarkedTo, FinishedPc
  <2>4. CountedTo(f) = at[f] - 1 /\ CountedTo(f)' = at[f]
    BY <1>1, <2>1, <2>2 DEF CountedTo, FinishedPc
  <2>5. Marked' = Marked
    BY <1>1, <1>5, <2>3, MarkedSame
  <2>6. Counted' = Counted \union {Here(f)} /\ Here(f) \notin Counted
    BY <1>1, <1>5, <2>2, <2>4, CountedMore
  <2> QED BY <1>8, <2>1, <2>5, <2>6 DEF Fame!SkipMark, Fame!StoreMark, Fame!FillFile
<1>9. CASE ~Fame!SkipMark(f) /\ ~Fame!StoreMark(f) /\ ~Fame!FillFile(f) /\ ~Fame!AddLines(f)
  <2>1. at' = at
    BY <1>1, <1>9
  <2>2. MarkedTo(f)' = MarkedTo(f) /\ CountedTo(f)' = CountedTo(f)
    <3>1. CASE Fame!Git(f)
      <4>1. gpc[f] = "git" /\ at[f] = 1 /\ gpc'[f] = (IF blame[f].kind = "failed" THEN "progress" ELSE "mark")
        BY <3>1 DEF Fame!Git, AtHunk
      <4>2. blame[f].kind = "failed" => Len(blame[f].hunks) = 0
        BY HunkFacts
      <4>3. CASE blame[f].kind = "failed"
        BY <1>1, <2>1, <4>1, <4>2, <4>3 DEF MarkedTo, CountedTo, FinishedPc
      <4>4. CASE blame[f].kind # "failed"
        BY <1>1, <2>1, <4>1, <4>4 DEF MarkedTo, CountedTo, FinishedPc
      <4> QED BY <4>3, <4>4
    <3>2. CASE Fame!Mark(f) \/ Fame!Count(f)
      BY <1>1, <2>1, <3>2 DEF Fame!Mark, Fame!Count, Fame!LockAndLook, MarkedTo, CountedTo, FinishedPc
    <3>3. CASE Fame!StoreNew(f) \/ Fame!FillCommit(f)
      BY <1>1, <2>1, <3>3 DEF Fame!StoreNew, Fame!FillCommit, MarkedTo, CountedTo, FinishedPc
    <3>4. CASE Fame!Progress(f) \/ Fame!Done(f) \/ Fame!WgDone(f)
      BY <1>1, <2>1, <3>4 DEF Fame!Progress, Fame!Done, Fame!WgDone, MarkedTo, CountedTo, FinishedPc
    <3> QED BY <1>9, <3>1, <3>2, <3>3, <3>4 DEF Fame!FileStep, Fame!Blame
  <2> QED BY <1>1, <1>5, <1>9, <2>2, MarkedSame, CountedSame
<1> QED BY <1>6, <1>7, <1>8, <1>9

-------------------------------------------------------------------------------
(* The map and its entries: a person is in it from the first commit on that  *)
(* is noted of theirs, and its two inner maps are that person's own.         *)
EntriesOf(p) == [obj : Fame!Files \X {p}, lines : Nat]

MapsIInv ==
  /\ DOMAIN person = Fame!People /\ (\A p \in Fame!People : person[p] \in EntriesOf(p) \union {Absent})
  /\ DOMAIN entry = Fame!Files
  /\ \A f \in Fame!Files :
       /\ gpc[f] \in {"store", "addlines"} => entry[f] \in EntriesOf(Fame!PersonOf(f)) \union {Absent}
       /\ gpc[f] = "addlines" => entry[f] # Absent
       /\ gpc[f] \in FillPc => person[Fame!PersonOf(f)] # Absent
  /\ inner \in [Fame!Files \X Fame!People -> Inners]
  /\ \A h \in Marked : person[Who(h)] # Absent

LEMMA EntryFacts ==
  ASSUME NEW p \in Fame!People
  PROVE  /\ EntriesOf(p) \subseteq Entries /\ Absent \notin EntriesOf(p)
         /\ \A e \in EntriesOf(p) : e.obj \in Fame!Files \X Fame!People /\ e.obj[2] = p /\ e.lines \in Nat
<1>1. EntriesOf(p) \subseteq Entries
  BY DEF EntriesOf, Entries
<1>2. \A e \in EntriesOf(p) : e.obj \in Fame!Files \X {p} /\ e.lines \in Nat
  BY DEF EntriesOf
<1>3. \A o \in Fame!Files \X {p} : o \in Fame!Files \X Fame!People /\ o[2] = p
  OBVIOUS
<1> QED BY <1>1, <1>2, <1>3, FameFacts

\* Updates of the inner maps.
LEMMA InnerCommit ==
  ASSUME inner \in [Fame!Files \X Fame!People -> Inners], NEW o \in Fame!Files \X Fame!People, NEW c \in Commits,
         inner' = [inner EXCEPT ![o].commits = @ \union {c}]
  PROVE  /\ inner' \in [Fame!Files \X Fame!People -> Inners]
         /\ inner'[o].commits = inner[o].commits \union {c} /\ inner'[o].files = inner[o].files
         /\ \A q \in Fame!Files \X Fame!People : q # o => inner'[q] = inner[q]
<1>1. inner[o] \in Inners
  OBVIOUS
<1>2. [inner[o] EXCEPT !.commits = @ \union {c}] \in Inners
  BY <1>1 DEF Inners
<1>3. inner'[o] = [inner[o] EXCEPT !.commits = @ \union {c}]
  OBVIOUS
<1> QED BY <1>1, <1>2, <1>3 DEF Inners

LEMMA InnerFile ==
  ASSUME inner \in [Fame!Files \X Fame!People -> Inners], NEW o \in Fame!Files \X Fame!People, NEW f \in Fame!Files,
         inner' = [inner EXCEPT ![o].files = @ \union {f}]
  PROVE  /\ inner' \in [Fame!Files \X Fame!People -> Inners]
         /\ inner'[o].files = inner[o].files \union {f} /\ inner'[o].commits = inner[o].commits
         /\ \A q \in Fame!Files \X Fame!People : q # o => inner'[q] = inner[q]
<1>1. inner[o] \in Inners
  OBVIOUS
<1>2. [inner[o] EXCEPT !.files = @ \union {f}] \in Inners
  BY <1>1 DEF Inners
<1>3. inner'[o] = [inner[o] EXCEPT !.files = @ \union {f}]
  OBVIOUS
<1> QED BY <1>1, <1>2, <1>3 DEF Inners

\* What a goroutine leaves alone of the others', and of its own.
LEMMA Others ==
  ASSUME CursorIInv, NEW f \in Fame!Files, Fame!FileStep(f)
  PROVE  /\ \A g \in Fame!Files \ {f} : /\ gpc'[g] = gpc[g] /\ at'[g] = at[g]
                                       /\ Fame!PersonOf(g)' = Fame!PersonOf(g) /\ Here(g)' = Here(g)
         /\ ~Fame!AddLines(f) => Fame!PersonOf(f)' = Fame!PersonOf(f) /\ Here(f)' = Here(f)
<1>1. UNCHANGED blame /\ (Fame!AddLines(f) \/ UNCHANGED at)
  BY FileMoves
<1>2. PICK x \in FamePc \ {"none", "git"} : gpc' = [gpc EXCEPT ![f] = x]
  BY FileMoves
<1>3. \A g \in Fame!Files \ {f} : gpc'[g] = gpc[g]
  BY <1>2, Moves
<1>4. \A g \in Fame!Files \ {f} : at'[g] = at[g]
  BY <1>1 DEF Fame!AddLines, CursorIInv, FameTypeOK
<1>5. ASSUME NEW g \in Fame!Files, at'[g] = at[g] PROVE Fame!PersonOf(g)' = Fame!PersonOf(g) /\ Here(g)' = Here(g)
  BY <1>1, <1>5 DEF Fame!PersonOf, Fame!CommitOf, Fame!Hunk, Here
<1> QED BY <1>1, <1>3, <1>4, <1>5

LEMMA LookMaps ==
  ASSUME CursorIInv, MapsIInv, NEW f \in Fame!Files, Fame!Mark(f) \/ Fame!Count(f)
  PROVE  /\ gpc[f] \in {"mark", "count"} /\ gpc'[f] \in {"store", "addlines"} /\ (gpc'[f] = "addlines" <=> gpc[f] = "count")
         /\ UNCHANGED <<person, inner>> /\ DOMAIN entry' = Fame!Files /\ entry'[f] = person[Fame!PersonOf(f)]
         /\ \A g \in Fame!Files \ {f} : entry'[g] = entry[g]
BY DEF Fame!Mark, Fame!Count, Fame!LockAndLook, Fame!Go, Fame!maps, CursorIInv, FameTypeOK, MapsIInv

LEMMA StoreMarkMaps ==
  ASSUME CursorIInv, MapsIInv, NEW f \in Fame!Files, Fame!StoreMark(f)
  PROVE  /\ gpc[f] = "store" /\ gpc'[f] \in {"count", "progress"} /\ DOMAIN entry' = Fame!Files
         /\ \A g \in Fame!Files \ {f} : entry'[g] = entry[g]
         /\ entry[f] \in EntriesOf(Fame!PersonOf(f)) /\ DOMAIN person' = Fame!People
         /\ person'[Fame!PersonOf(f)] = entry[f] /\ \A p \in Fame!People : p # Fame!PersonOf(f) => person'[p] = person[p]
         /\ inner' \in [Fame!Files \X Fame!People -> Inners]
         /\ inner'[entry[f].obj].commits = inner[entry[f].obj].commits \union {Fame!CommitOf(f)}
         /\ inner'[entry[f].obj].files = inner[entry[f].obj].files \union {f}
         /\ \A q \in Fame!Files \X Fame!People : q # entry[f].obj => inner'[q] = inner[q]
<1>1. /\ gpc[f] = "store" /\ gpc'[f] \in {"count", "progress"} /\ DOMAIN entry' = Fame!Files /\ entry[f] # Absent
      /\ \A g \in Fame!Files \ {f} : entry'[g] = entry[g]
  BY DEF Fame!StoreMark, Fame!Go, Fame!AfterMark, CursorIInv, FameTypeOK, MapsIInv
<1>2. entry[f] \in EntriesOf(Fame!PersonOf(f)) /\ Fame!PersonOf(f) \in Fame!People /\ Fame!CommitOf(f) \in Commits
  BY <1>1, HereFacts DEF MapsIInv, AtHunkPc
<1>3. entry[f].obj \in Fame!Files \X Fame!People
  BY <1>2, EntryFacts
<1>4. /\ DOMAIN person' = Fame!People /\ person'[Fame!PersonOf(f)] = entry[f]
      /\ \A p \in Fame!People : p # Fame!PersonOf(f) => person'[p] = person[p]
  BY <1>2 DEF Fame!StoreMark, MapsIInv
<1>5. PICK o : o = entry[f].obj
  OBVIOUS
<1>6. inner' = [inner EXCEPT ![o].commits = @ \union {Fame!CommitOf(f)}, ![o].files = @ \union {f}]
  BY <1>5 DEF Fame!StoreMark
<1>7. inner \in [Fame!Files \X Fame!People -> Inners]
  BY DEF MapsIInv
<1>8. PICK new : new = [inner[o] EXCEPT !.commits = @ \union {Fame!CommitOf(f)}, !.files = @ \union {f}]
  BY SMTT(60)
<1>9. inner' = [inner EXCEPT ![o] = new]
  BY <1>3, <1>5, <1>6, <1>7, <1>8
<1>10. /\ inner' \in [Fame!Files \X Fame!People -> Inners]
      /\ inner'[o].commits = inner[o].commits \union {Fame!CommitOf(f)} /\ inner'[o].files = inner[o].files \union {f}
      /\ \A q \in Fame!Files \X Fame!People : q # o => inner'[q] = inner[q]
  <2>1. inner[o] \in Inners
    BY <1>3, <1>5, <1>7
  <2>2. new \in Inners /\ new.commits = inner[o].commits \union {Fame!CommitOf(f)} /\ new.files = inner[o].files \union {f}
    BY <1>2, <1>8, <2>1 DEF Inners
  <2> QED BY <1>3, <1>5, <1>7, <1>9, <2>2
<1> QED BY <1>1, <1>2, <1>4, <1>5, <1>10

LEMMA StoreNewMaps ==
  ASSUME CursorIInv, MapsIInv, NEW f \in Fame!Files, Fame!StoreNew(f)
  PROVE  /\ gpc[f] = "store" /\ gpc'[f] = "fillcommit" /\ entry[f] = Absent /\ UNCHANGED <<entry, inner>>
         /\ DOMAIN person' = Fame!People /\ person'[Fame!PersonOf(f)] = [obj |-> <<f, Fame!PersonOf(f)>>, lines |-> 0]
         /\ [obj |-> <<f, Fame!PersonOf(f)>>, lines |-> 0] \in EntriesOf(Fame!PersonOf(f))
         /\ \A p \in Fame!People : p # Fame!PersonOf(f) => person'[p] = person[p]
<1>1. gpc[f] = "store" /\ gpc'[f] = "fillcommit" /\ entry[f] = Absent /\ UNCHANGED <<entry, inner>>
  BY DEF Fame!StoreNew, Fame!Go, CursorIInv, FameTypeOK
<1>2. Fame!PersonOf(f) \in Fame!People
  BY <1>1, HereFacts DEF AtHunkPc
<1>3. [obj |-> <<f, Fame!PersonOf(f)>>, lines |-> 0] \in EntriesOf(Fame!PersonOf(f))
  BY SMTT(60) DEF EntriesOf
<1> QED BY <1>1, <1>2, <1>3 DEF Fame!StoreNew, MapsIInv

LEMMA FillCommitMaps ==
  ASSUME CursorIInv, MapsIInv, NEW f \in Fame!Files, Fame!FillCommit(f), NEW o, o = person[Fame!PersonOf(f)].obj
  PROVE  /\ gpc[f] = "fillcommit" /\ gpc'[f] = "fillfile" /\ UNCHANGED <<entry, person>> /\ person[Fame!PersonOf(f)] \in EntriesOf(Fame!PersonOf(f))
         /\ inner' \in [Fame!Files \X Fame!People -> Inners]
         /\ inner'[o].commits = inner[o].commits \union {Fame!CommitOf(f)} /\ inner'[o].files = inner[o].files
         /\ \A q \in Fame!Files \X Fame!People : q # o => inner'[q] = inner[q]
<1>1. gpc[f] = "fillcommit" /\ gpc'[f] = "fillfile" /\ UNCHANGED <<entry, person>>
  BY DEF Fame!FillCommit, Fame!Go, CursorIInv, FameTypeOK
<1>2. Fame!PersonOf(f) \in Fame!People /\ Fame!CommitOf(f) \in Commits
  BY <1>1, HereFacts DEF AtHunkPc
<1>3. person[Fame!PersonOf(f)] \in EntriesOf(Fame!PersonOf(f))
  BY <1>1, <1>2 DEF MapsIInv, FillPc
<1>4. o \in Fame!Files \X Fame!People
  BY <1>2, <1>3, EntryFacts
<1>5. inner' = [inner EXCEPT ![o].commits = @ \union {Fame!CommitOf(f)}]
  BY DEF Fame!FillCommit
<1>6. inner \in [Fame!Files \X Fame!People -> Inners]
  BY SMTT(60) DEF MapsIInv
<1> QED BY <1>1, <1>2, <1>3, <1>4, <1>5, <1>6, InnerCommit

LEMMA FillFileMaps ==
  ASSUME CursorIInv, MapsIInv, NEW f \in Fame!Files, Fame!FillFile(f), NEW o, o = person[Fame!PersonOf(f)].obj
  PROVE  /\ gpc[f] = "fillfile" /\ gpc'[f] \in {"count", "progress"} /\ UNCHANGED <<entry, person>> /\ person[Fame!PersonOf(f)] \in EntriesOf(Fame!PersonOf(f))
         /\ inner' \in [Fame!Files \X Fame!People -> Inners]
         /\ inner'[o].files = inner[o].files \union {f} /\ inner'[o].commits = inner[o].commits
         /\ \A q \in Fame!Files \X Fame!People : q # o => inner'[q] = inner[q]
<1>1. gpc[f] = "fillfile" /\ gpc'[f] \in {"count", "progress"} /\ UNCHANGED <<entry, person>>
  BY DEF Fame!FillFile, Fame!Go, Fame!AfterMark, CursorIInv, FameTypeOK
<1>2. Fame!PersonOf(f) \in Fame!People
  BY <1>1, HereFacts DEF AtHunkPc
<1>3. person[Fame!PersonOf(f)] \in EntriesOf(Fame!PersonOf(f))
  BY <1>1, <1>2 DEF MapsIInv, FillPc
<1>4. o \in Fame!Files \X Fame!People
  BY <1>2, <1>3, EntryFacts
<1>5. inner' = [inner EXCEPT ![o].files = @ \union {f}]
  BY DEF Fame!FillFile
<1>6. inner \in [Fame!Files \X Fame!People -> Inners]
  BY SMTT(60) DEF MapsIInv
<1> QED BY <1>1, <1>2, <1>3, <1>4, <1>5, <1>6, InnerFile

LEMMA AddLinesMaps ==
  ASSUME CursorIInv, MapsIInv, NEW f \in Fame!Files, Fame!AddLines(f)
  PROVE  /\ gpc[f] = "addlines" /\ gpc'[f] \in {"mark", "progress"} /\ DOMAIN entry' = Fame!Files /\ UNCHANGED inner
         /\ \A g \in Fame!Files \ {f} : entry'[g] = entry[g]
         /\ entry[f] \in EntriesOf(Fame!PersonOf(f)) /\ DOMAIN person' = Fame!People
         /\ person'[Fame!PersonOf(f)] \in EntriesOf(Fame!PersonOf(f))
         /\ person'[Fame!PersonOf(f)].obj = entry[f].obj /\ person'[Fame!PersonOf(f)].lines = entry[f].lines + Fame!Hunk(f).lines
         /\ \A p \in Fame!People : p # Fame!PersonOf(f) => person'[p] = person[p]
<1>1. /\ gpc[f] = "addlines" /\ gpc'[f] \in {"mark", "progress"} /\ DOMAIN entry' = Fame!Files /\ UNCHANGED inner
      /\ \A g \in Fame!Files \ {f} : entry'[g] = entry[g]
  BY DEF Fame!AddLines, Fame!Go, CursorIInv, FameTypeOK, MapsIInv
<1>2. entry[f] \in EntriesOf(Fame!PersonOf(f)) /\ Fame!PersonOf(f) \in Fame!People /\ Fame!Hunk(f).lines \in Nat
  BY <1>1, HereFacts, AtFacts DEF MapsIInv, AtHunkPc
<1>3. /\ DOMAIN person' = Fame!People /\ person'[Fame!PersonOf(f)] = [entry[f] EXCEPT !.lines = @ + Fame!Hunk(f).lines]
      /\ \A p \in Fame!People : p # Fame!PersonOf(f) => person'[p] = person[p]
  BY <1>2 DEF Fame!AddLines, MapsIInv
<1>4. \A e \in EntriesOf(Fame!PersonOf(f)) : \A n \in Nat :
        LET new == [e EXCEPT !.lines = @ + n]
        IN  new \in EntriesOf(Fame!PersonOf(f)) /\ new.obj = e.obj /\ new.lines = e.lines + n
  BY DEF EntriesOf
<1> QED BY <1>1, <1>2, <1>3, <1>4

LEMMA OtherMaps ==
  ASSUME CursorIInv, NEW f \in Fame!Files,
         Fame!Git(f) \/ Fame!SkipMark(f) \/ Fame!Progress(f) \/ Fame!Done(f) \/ Fame!WgDone(f)
  PROVE  UNCHANGED <<entry, person, inner>> /\ gpc'[f] \in {"progress", "mark", "count", "done", "wgdone", "ended"}
BY DEF Fame!Git, Fame!SkipMark, Fame!Progress, Fame!Done, Fame!WgDone, Fame!Go, Fame!maps, CursorIInv, FameTypeOK

LEMMA MapsInit == Fame!Init => MapsIInv
<1> SUFFICES ASSUME Fame!Init PROVE MapsIInv
  OBVIOUS
<1>1. CursorIInv
  BY CursorInit
<1>2. inner \in [Fame!Files \X Fame!People -> Inners]
  BY DEF Fame!Init, Inners
<1>3. Marked = {}
  <2>1. \A f \in Fame!Files : MarkedTo(f) = 0
    BY DEF Fame!Init, MarkedTo, FinishedPc
  <2> QED BY <1>1, <2>1, Hunks DEF Marked
<1> QED BY <1>2, <1>3 DEF Fame!Init, MapsIInv, FillPc

LEMMA MapsFrame ==
  ASSUME CursorIInv, MapsIInv, NEW f \in Fame!Files, Fame!FileStep(f),
         DOMAIN person' = Fame!People, \A p \in Fame!People : person'[p] \in EntriesOf(p) \union {Absent} /\ (person[p] # Absent => person'[p] # Absent),
         DOMAIN entry' = Fame!Files, \A g \in Fame!Files \ {f} : entry'[g] = entry[g],
         inner' \in [Fame!Files \X Fame!People -> Inners],
         gpc'[f] \in {"store", "addlines"} => entry'[f] \in EntriesOf(Fame!PersonOf(f)') \union {Absent},
         gpc'[f] = "addlines" => entry'[f] # Absent,
         gpc'[f] \in FillPc => person'[Fame!PersonOf(f)'] # Absent,
         \A h \in Marked' \ Marked : person'[Who(h)] # Absent
  PROVE  MapsIInv'
<1>1. \A g \in Fame!Files \ {f} : gpc'[g] = gpc[g] /\ Fame!PersonOf(g)' = Fame!PersonOf(g)
  BY Others
<1>2. \A h : Who(h)' = Who(h)
  BY FileMoves, SameHunks
<1>3. \A h \in Marked : Who(h) \in Fame!People
  BY Hunks DEF Marked
<1>4. \A h \in Marked' : person'[Who(h)] # Absent
  BY <1>3 DEF MapsIInv
<1>5. ASSUME NEW g \in Fame!Files
      PROVE /\ gpc'[g] \in {"store", "addlines"} => entry'[g] \in EntriesOf(Fame!PersonOf(g)') \union {Absent}
            /\ gpc'[g] = "addlines" => entry'[g] # Absent
            /\ gpc'[g] \in FillPc => person'[Fame!PersonOf(g)'] # Absent
  <2>1. CASE g = f
    BY <2>1
  <2>2. CASE g # f
    <3>1. gpc[g] \in FillPc => Fame!PersonOf(g) \in Fame!People
      BY HereFacts DEF FillPc, AtHunkPc
    <3> QED BY <1>1, <2>2, <3>1 DEF MapsIInv
  <2> QED BY <2>1, <2>2
<1> QED BY <1>2, <1>4, <1>5 DEF MapsIInv, EntriesOf

LEMMA MapsNext == CursorIInv /\ MapsIInv /\ [Fame!Next]_gitfamevars => MapsIInv'
<1> SUFFICES ASSUME CursorIInv, MapsIInv, [Fame!Next]_gitfamevars PROVE MapsIInv'
  OBVIOUS
<1>1. ASSUME Fame!MainStep \/ Fame!Fatal \/ UNCHANGED gitfamevars PROVE MapsIInv'
  <2>1. Marked' = Marked /\ UNCHANGED <<blame, at, person, entry, inner>>
    BY <1>1, HowFarMain DEF Fame!MainStep, Fame!Main, Fame!Add, Fame!Spawn, Fame!Printer, Fame!Fatal, gitfamevars,
                            Fame!inputs, Fame!tracker, Fame!maps
  <2>2. \A f \in Fame!Files : gpc'[f] = gpc[f] \/ gpc'[f] = "git"
    <3>1. CASE Fame!Spawn
      <4>1. gpc' = [gpc EXCEPT ![started + 1] = "git"]
        BY <3>1 DEF Fame!Spawn
      <4> QED BY <4>1 DEF CursorIInv, FameTypeOK
    <3>2. CASE UNCHANGED gpc
      BY <3>2
    <3> QED BY <1>1, <3>1, <3>2 DEF Fame!MainStep, Fame!Main, Fame!Add, Fame!Printer, Fame!Fatal, gitfamevars
  <2>3. \A f \in Fame!Files : Fame!PersonOf(f)' = Fame!PersonOf(f)
    BY <2>1 DEF Fame!PersonOf, Fame!CommitOf, Fame!Hunk
  <2>4. \A h : Who(h)' = Who(h)
    BY <2>1, SameHunks
  <2> QED BY <2>1, <2>2, <2>3, <2>4 DEF MapsIInv, FillPc, EntriesOf
<1>2. ASSUME NEW f \in Fame!Files, Fame!FileStep(f) PROVE MapsIInv'
  <2>1. ~Fame!AddLines(f) => Fame!PersonOf(f)' = Fame!PersonOf(f)
    BY <1>2, Others
  <2>2. gpc[f] \in AtHunkPc => Fame!PersonOf(f) \in Fame!People /\ Who(Here(f)) = Fame!PersonOf(f)
    BY HereFacts
  <2>3. /\ Fame!SkipMark(f) \/ Fame!StoreMark(f) \/ Fame!FillFile(f) => Marked' = Marked \union {Here(f)}
        /\ ~(Fame!SkipMark(f) \/ Fame!StoreMark(f) \/ Fame!FillFile(f)) => Marked' = Marked
    BY <1>2, HowFarFile
  <2>4. \A p \in Fame!People : Absent \notin EntriesOf(p)
    BY EntryFacts
  <2>5. /\ DOMAIN person = Fame!People /\ (\A p \in Fame!People : person[p] \in EntriesOf(p) \union {Absent})
        /\ DOMAIN entry = Fame!Files /\ inner \in [Fame!Files \X Fame!People -> Inners]
    BY DEF MapsIInv
  <2>6. CASE Fame!Mark(f) \/ Fame!Count(f)
    <3>1. /\ gpc[f] \in {"mark", "count"} /\ gpc'[f] \in {"store", "addlines"} /\ (gpc'[f] = "addlines" <=> gpc[f] = "count")
          /\ UNCHANGED <<person, inner>> /\ DOMAIN entry' = Fame!Files /\ entry'[f] = person[Fame!PersonOf(f)]
          /\ \A g \in Fame!Files \ {f} : entry'[g] = entry[g]
      BY <2>6, LookMaps, SMTT(60)
    <3>2. Marked' = Marked /\ Fame!PersonOf(f)' = Fame!PersonOf(f)
      BY <2>1, <2>3, <2>6, <3>1 DEF Fame!Mark, Fame!Count, Fame!LockAndLook, Fame!SkipMark, Fame!StoreMark, Fame!FillFile, Fame!AddLines, Fame!Go
    <3>3. Fame!PersonOf(f) \in Fame!People /\ Who(Here(f)) = Fame!PersonOf(f)
      BY <2>2, <3>1 DEF AtHunkPc
    <3>4. gpc[f] = "count" => person[Fame!PersonOf(f)] # Absent
      <4>1. gpc[f] = "count" => Here(f) \in Marked
        BY HereFacts DEF Marked, MarkedTo, FinishedPc, AtHunkPc
      <4> QED BY <3>3, <4>1 DEF MapsIInv
    <3> QED BY <1>2, <2>5, <3>1, <3>2, <3>3, <3>4, MapsFrame DEF FillPc
  <2>7. CASE Fame!StoreMark(f)
    <3>1. gpc[f] = "store" /\ gpc'[f] \in {"count", "progress"}
      BY <2>7, StoreMarkMaps
    <3>2. /\ DOMAIN entry' = Fame!Files /\ (\A g \in Fame!Files \ {f} : entry'[g] = entry[g])
          /\ entry[f] \in EntriesOf(Fame!PersonOf(f)) /\ DOMAIN person' = Fame!People
          /\ person'[Fame!PersonOf(f)] = entry[f] /\ (\A p \in Fame!People : p # Fame!PersonOf(f) => person'[p] = person[p])
          /\ inner' \in [Fame!Files \X Fame!People -> Inners]
      BY <2>7, StoreMarkMaps
    <3>3. Marked' = Marked \union {Here(f)} /\ Fame!PersonOf(f) \in Fame!People /\ Who(Here(f)) = Fame!PersonOf(f)
      BY <2>2, <2>3, <2>7, <3>1 DEF AtHunkPc
    <3>4. \A p \in Fame!People : person'[p] \in EntriesOf(p) \union {Absent} /\ (person[p] # Absent => person'[p] # Absent)
      BY <2>4, <2>5, <3>2, <3>3
    <3>5. \A h \in Marked' \ Marked : person'[Who(h)] # Absent
      BY <2>4, <3>2, <3>3
    <3> QED BY <1>2, <3>1, <3>2, <3>4, <3>5, MapsFrame DEF FillPc
  <2>8. CASE Fame!StoreNew(f)
    <3>1. gpc[f] = "store" /\ gpc'[f] = "fillcommit" /\ UNCHANGED <<entry, inner>>
      BY <2>8, StoreNewMaps
    <3>2. /\ DOMAIN person' = Fame!People /\ person'[Fame!PersonOf(f)] \in EntriesOf(Fame!PersonOf(f))
          /\ \A p \in Fame!People : p # Fame!PersonOf(f) => person'[p] = person[p]
      BY <2>8, StoreNewMaps
    <3>3. Marked' = Marked /\ Fame!PersonOf(f)' = Fame!PersonOf(f) /\ Fame!PersonOf(f) \in Fame!People
      BY <2>1, <2>2, <2>3, <2>8, <3>1 DEF AtHunkPc, Fame!StoreNew, Fame!SkipMark, Fame!StoreMark, Fame!FillFile, Fame!AddLines, Fame!Go
    <3>4. \A p \in Fame!People : person'[p] \in EntriesOf(p) \union {Absent} /\ (person[p] # Absent => person'[p] # Absent)
      BY <2>4, <2>5, <3>2, <3>3
    <3>5. person'[Fame!PersonOf(f)'] # Absent
      BY <2>4, <3>2, <3>3
    <3> QED BY <1>2, <2>5, <3>1, <3>2, <3>3, <3>4, <3>5, MapsFrame DEF FillPc
  <2>9. CASE Fame!FillCommit(f)
    <3>1. gpc[f] = "fillcommit" /\ gpc'[f] = "fillfile" /\ UNCHANGED <<entry, person>> /\ inner' \in [Fame!Files \X Fame!People -> Inners]
      BY <2>9, FillCommitMaps
    <3>2. Marked' = Marked /\ Fame!PersonOf(f)' = Fame!PersonOf(f)
      BY <2>1, <2>3, <2>9, <3>1 DEF Fame!FillCommit, Fame!SkipMark, Fame!StoreMark, Fame!FillFile, Fame!AddLines, Fame!Go
    <3>3. person'[Fame!PersonOf(f)'] # Absent
      BY <3>1, <3>2 DEF MapsIInv, FillPc
    <3> QED BY <1>2, <2>5, <3>1, <3>2, <3>3, MapsFrame
  <2>10. CASE Fame!FillFile(f)
    <3>1. gpc[f] = "fillfile" /\ gpc'[f] \in {"count", "progress"} /\ UNCHANGED <<entry, person>> /\ inner' \in [Fame!Files \X Fame!People -> Inners]
      BY <2>10, FillFileMaps
    <3>2. Marked' = Marked \union {Here(f)} /\ Who(Here(f)) = Fame!PersonOf(f)
      BY <2>2, <2>3, <2>10, <3>1 DEF AtHunkPc
    <3>3. person[Fame!PersonOf(f)] # Absent
      BY <3>1 DEF MapsIInv, FillPc
    <3>4. \A h \in Marked' \ Marked : person'[Who(h)] # Absent
      BY <3>1, <3>2, <3>3
    <3> QED BY <1>2, <2>5, <3>1, <3>4, MapsFrame DEF FillPc
  <2>11. CASE Fame!AddLines(f)
    <3>1. gpc[f] = "addlines" /\ gpc'[f] \in {"mark", "progress"} /\ DOMAIN entry' = Fame!Files /\ UNCHANGED inner
      BY <2>11, AddLinesMaps
    <3>2. /\ \A g \in Fame!Files \ {f} : entry'[g] = entry[g]
          /\ DOMAIN person' = Fame!People
          /\ person'[Fame!PersonOf(f)] \in EntriesOf(Fame!PersonOf(f))
          /\ \A p \in Fame!People : p # Fame!PersonOf(f) => person'[p] = person[p]
      BY <2>11, AddLinesMaps
    <3>3. Marked' = Marked /\ Fame!PersonOf(f) \in Fame!People
      BY <2>2, <2>3, <2>11, <3>1 DEF AtHunkPc, Fame!AddLines, Fame!SkipMark, Fame!StoreMark, Fame!FillFile, Fame!Go
    <3>4. \A p \in Fame!People : person'[p] \in EntriesOf(p) \union {Absent} /\ (person[p] # Absent => person'[p] # Absent)
      BY <2>4, <2>5, <3>2, <3>3
    <3> QED BY <1>2, <2>5, <3>1, <3>2, <3>3, <3>4, MapsFrame DEF FillPc
  <2>12. CASE Fame!SkipMark(f)
    <3>1. gpc[f] = "mark" /\ gpc'[f] \notin InMapPc /\ UNCHANGED <<entry, person, inner>>
      BY <2>12, OtherMaps DEF Fame!SkipMark, Fame!Go, InMapPc
    <3>2. Marked' = Marked \union {Here(f)} /\ Who(Here(f)) = Fame!PersonOf(f)
      BY <2>2, <2>3, <2>12, <3>1 DEF AtHunkPc
    <3>3. <<f, at[f] - 1>> \in Marked /\ Who(<<f, at[f] - 1>>) = Fame!PersonOf(f)
      <4>1. at[f] \in 1 .. Len(blame[f].hunks) /\ at[f] - 1 \in DOMAIN blame[f].hunks
        BY <2>12, <3>1, AtFacts, HunkFacts DEF Fame!SkipMark, Fame!SameCommit, AtHunkPc, CursorIInv
      <4>2. <<f, at[f] - 1>> \in Fame!AllHunks
        BY <4>1, Hunks
      <4>3. MarkedTo(f) = at[f] - 1
        BY <3>1 DEF MarkedTo, FinishedPc
      <4>4. Who(<<f, at[f] - 1>>) = Fame!PersonOf(f)
        BY <2>12 DEF Fame!SkipMark, Fame!SameCommit, Who, Fame!Said, Fame!PersonOf, Fame!CommitOf
      <4> QED BY <4>1, <4>2, <4>3, <4>4 DEF Marked
    <3>4. \A h \in Marked' \ Marked : person'[Who(h)] # Absent
      BY <3>1, <3>2, <3>3 DEF MapsIInv
    <3> QED BY <1>2, <2>5, <3>1, <3>4, MapsFrame DEF FillPc, InMapPc
  <2>13. CASE Fame!Git(f) \/ Fame!Progress(f) \/ Fame!Done(f) \/ Fame!WgDone(f)
    <3>1. UNCHANGED <<entry, person, inner>> /\ gpc'[f] \notin InMapPc
      BY <2>13, OtherMaps DEF InMapPc
    <3>2. Marked' = Marked
      BY <2>3, <2>13 DEF Fame!Git, Fame!Progress, Fame!Done, Fame!WgDone, Fame!SkipMark, Fame!StoreMark, Fame!FillFile, Fame!Go
    <3> QED BY <1>2, <2>5, <3>1, <3>2, MapsFrame DEF FillPc, InMapPc
  <2> QED BY <1>2, <2>6, <2>7, <2>8, <2>9, <2>10, <2>11, <2>12, <2>13 DEF Fame!FileStep, Fame!Blame
<1> QED BY <1>1, <1>2 DEF Fame!Next

-------------------------------------------------------------------------------
(* As long as there was no race: who is in the map works on the entry that   *)
(* is there, and every entry has exactly the lines, commits and files of the *)
(* hunks that were noted and counted.                                        *)
CommitsAmong(S, p) == {Fame!Said(h).commit : h \in {g \in S : Who(g) = p}}
FilesAmong(S, p)   == {h[1] : h \in {g \in S : Who(g) = p}}
LinesAmong(S, p)   == UNION {{h} \X (1 .. Fame!Said(h).lines) : h \in {g \in S : Who(g) = p}}

Noted == Marked \union {Here(f) : f \in {g \in Fame!Files : gpc[g] = "fillfile"}}

Fits(p) ==
  /\ IsFiniteSet(LinesAmong(Counted, p))
  /\ person[p] = Absent =>
       /\ FilesAmong(Marked, p) = {} /\ CommitsAmong(Noted, p) = {} /\ LinesAmong(Counted, p) = {}
       /\ \A f \in Fame!Files : inner[<<f, p>>].commits = {} /\ inner[<<f, p>>].files = {}
  /\ person[p] # Absent =>
       /\ person[p].lines = Cardinality(LinesAmong(Counted, p))
       /\ inner[person[p].obj].commits = CommitsAmong(Noted, p)
       /\ inner[person[p].obj].files = FilesAmong(Marked, p)
       /\ FilesAmong(Marked, p) # {} \/ \E f \in Fame!Files : gpc[f] \in FillPc /\ Fame!PersonOf(f) = p

Clean ==
  /\ \A f \in Fame!Files : gpc[f] \in {"store", "addlines"} => entry[f] = person[Fame!PersonOf(f)]
  /\ \A p \in Fame!People : Fits(p)

CleanIInv == raced = FALSE => Clean

LEMMA OwnHunks ==
  ASSUME NEW S, NEW h, NEW p, Who(h) = p
  PROVE  {g \in S \union {h} : Who(g) = p} = {g \in S : Who(g) = p} \union {h}
OBVIOUS

LEMMA CommitsOwn ==
  ASSUME NEW S, NEW h, NEW p, Who(h) = p
  PROVE  CommitsAmong(S \union {h}, p) = CommitsAmong(S, p) \union {Fame!Said(h).commit}
<1>1. \A T : {Fame!Said(g).commit : g \in T \union {h}} = {Fame!Said(g).commit : g \in T} \union {Fame!Said(h).commit}
  OBVIOUS
<1> QED BY <1>1, OwnHunks DEF CommitsAmong

LEMMA FilesOwn ==
  ASSUME NEW S, NEW h, NEW p, Who(h) = p
  PROVE  FilesAmong(S \union {h}, p) = FilesAmong(S, p) \union {h[1]}
<1>1. \A T : {g[1] : g \in T \union {h}} = {g[1] : g \in T} \union {h[1]}
  OBVIOUS
<1> QED BY <1>1, OwnHunks DEF FilesAmong

LEMMA LinesOwn ==
  ASSUME NEW S, NEW h, NEW p, Who(h) = p
  PROVE  LinesAmong(S \union {h}, p) = LinesAmong(S, p) \union ({h} \X (1 .. Fame!Said(h).lines))
<1> DEFINE Rows(g) == {g} \X (1 .. Fame!Said(g).lines)
<1>1. \A T : UNION {Rows(g) : g \in T \union {h}} = (UNION {Rows(g) : g \in T}) \union Rows(h)
  <2> HIDE DEF Rows
  <2> QED OBVIOUS
<1>2. \A S0 : LinesAmong(S0, p) = UNION {Rows(g) : g \in {q \in S0 : Who(q) = p}}
  BY DEF LinesAmong
<1> HIDE DEF Rows
<1>3. LinesAmong(S \union {h}, p) = LinesAmong(S, p) \union Rows(h)
  BY <1>1, <1>2, OwnHunks
<1> QED BY <1>3 DEF Rows

LEMMA AmongOther ==
  ASSUME NEW S, NEW h, NEW p, Who(h) # p
  PROVE  /\ CommitsAmong(S \union {h}, p) = CommitsAmong(S, p) /\ FilesAmong(S \union {h}, p) = FilesAmong(S, p)
         /\ LinesAmong(S \union {h}, p) = LinesAmong(S, p)
<1>1. {g \in S \union {h} : Who(g) = p} = {g \in S : Who(g) = p}
  OBVIOUS
<1> QED BY <1>1 DEF CommitsAmong, FilesAmong, LinesAmong

LEMMA AmongNext ==
  ASSUME UNCHANGED blame, NEW p
  PROVE  /\ CommitsAmong(Noted, p)' = CommitsAmong(Noted', p)
         /\ FilesAmong(Marked, p)' = FilesAmong(Marked', p)
         /\ LinesAmong(Counted, p)' = LinesAmong(Counted', p)
BY SameHunks DEF CommitsAmong, FilesAmong, LinesAmong

LEMMA NotedNext ==
  ASSUME CursorIInv, NEW f \in Fame!Files, Fame!FileStep(f)
  PROVE  /\ Fame!SkipMark(f) \/ Fame!StoreMark(f) \/ Fame!FillCommit(f) => Noted' = Noted \union {Here(f)}
         /\ ~(Fame!SkipMark(f) \/ Fame!StoreMark(f) \/ Fame!FillCommit(f)) => Noted' = Noted
<1> DEFINE Filling == {g \in Fame!Files : gpc[g] = "fillfile"}
           Filled  == {Here(g) : g \in Filling}
<1>1. /\ \A g \in Fame!Files \ {f} : gpc'[g] = gpc[g] /\ Here(g)' = Here(g)
      /\ ~Fame!AddLines(f) => Here(f)' = Here(f)
  BY Others
<1>2. /\ Fame!SkipMark(f) \/ Fame!StoreMark(f) \/ Fame!FillFile(f) => Marked' = Marked \union {Here(f)}
      /\ ~(Fame!SkipMark(f) \/ Fame!StoreMark(f) \/ Fame!FillFile(f)) => Marked' = Marked
  BY HowFarFile
<1>3. Noted = Marked \union Filled /\ Noted' = Marked' \union Filled'
  BY DEF Noted
<1>4. Filled' = {Here(g)' : g \in Filling'}
  OBVIOUS
<1> USE DEF CursorIInv, FameTypeOK, Fame!Go
<1>5. CASE Fame!FillCommit(f)
  <2>1. gpc[f] = "fillcommit" /\ gpc'[f] = "fillfile"
    BY <1>5 DEF Fame!FillCommit
  <2>2. Filling' = Filling \union {f} /\ Here(f)' = Here(f)
    BY <1>1, <1>5, <2>1 DEF Fame!AddLines
  <2>3. Filled' = Filled \union {Here(f)}
    BY <1>1, <1>4, <2>2
  <2>4. Marked' = Marked
    BY <1>2, <2>1 DEF Fame!SkipMark, Fame!StoreMark, Fame!FillFile
  <2> QED BY <1>3, <1>5, <2>3, <2>4
<1>6. CASE Fame!FillFile(f)
  <2>1. gpc[f] = "fillfile" /\ gpc'[f] # "fillfile"
    BY <1>6 DEF Fame!FillFile, Fame!AfterMark
  <2>2. Filling' = Filling \ {f} /\ f \in Filling
    BY <1>1, <2>1
  <2>3. Filled' \union {Here(f)} = Filled
    BY <1>1, <1>4, <2>2
  <2>4. Marked' = Marked \union {Here(f)}
    BY <1>2, <1>6
  <2> QED BY <1>3, <1>6, <2>1, <2>3, <2>4 DEF Fame!SkipMark, Fame!StoreMark, Fame!FillCommit
<1>7. CASE ~Fame!FillCommit(f) /\ ~Fame!FillFile(f)
  <2>1. gpc[f] # "fillfile" /\ gpc'[f] # "fillfile"
    <3>1. CASE Fame!Git(f) \/ Fame!SkipMark(f) \/ Fame!Progress(f) \/ Fame!Done(f) \/ Fame!WgDone(f)
      BY <3>1, OtherMaps DEF Fame!Git, Fame!SkipMark, Fame!Progress, Fame!Done, Fame!WgDone
    <3>2. CASE Fame!Mark(f) \/ Fame!Count(f)
      BY <3>2 DEF Fame!Mark, Fame!Count, Fame!LockAndLook
    <3>3. CASE Fame!StoreMark(f) \/ Fame!StoreNew(f) \/ Fame!AddLines(f)
      BY <3>3 DEF Fame!StoreMark, Fame!StoreNew, Fame!AddLines, Fame!AfterMark
    <3> QED BY <1>7, <3>1, <3>2, <3>3 DEF Fame!FileStep, Fame!Blame
  <2>2. Filling' = Filling /\ f \notin Filling
    BY <1>1, <2>1
  <2>3. Filled' = Filled
    BY <1>1, <1>4, <2>2
  <2> HIDE DEF Filled, Filling
  <2> QED BY <1>2, <1>3, <1>7, <2>3
<1> QED BY <1>5, <1>6, <1>7

LEMMA CleanInit == Fame!Init => CleanIInv
<1> SUFFICES ASSUME Fame!Init PROVE Clean
  BY DEF CleanIInv
<1>1. CursorIInv
  BY CursorInit
<1>2. Marked = {}
  <2>1. \A f \in Fame!Files : MarkedTo(f) = 0
    BY DEF Fame!Init, MarkedTo, FinishedPc
  <2> QED BY <1>1, <2>1, Hunks DEF Marked
<1>3. Noted = {}
  BY <1>2 DEF Noted, Fame!Init
<1>4. \A h \in Counted : Fame!Said(h).lines = 0
  <2> SUFFICES ASSUME NEW h \in Counted PROVE Fame!Said(h).lines = 0
    OBVIOUS
  <2>1. h[1] \in Fame!Files /\ h[2] \in DOMAIN blame[h[1]].hunks /\ h[2] \in Nat \ {0}
    BY <1>1, Hunks DEF Counted
  <2>2. gpc[h[1]] = "none" /\ at[h[1]] = 1 /\ h[2] <= CountedTo(h[1])
    BY <2>1 DEF Fame!Init, Counted
  <2>3. Fame!Empty(h[1]) /\ h[2] <= Len(blame[h[1]].hunks)
    BY <2>1, <2>2 DEF CountedTo, FinishedPc
  <2>4. h[2] = 1 /\ blame[h[1]].hunks[1].lines = 0
    BY <1>1, <2>1, <2>3, HunkFacts DEF CursorIInv
  <2> QED BY <2>4 DEF Fame!Said
<1>5. ASSUME NEW p \in Fame!People PROVE LinesAmong(Counted, p) = {}
  BY <1>4 DEF LinesAmong
<1>6. ASSUME NEW p \in Fame!People PROVE FilesAmong(Marked, p) = {} /\ CommitsAmong(Noted, p) = {}
  BY <1>2, <1>3 DEF FilesAmong, CommitsAmong
<1>7. ASSUME NEW p \in Fame!People PROVE person[p] = Absent /\ \A f \in Fame!Files : inner[<<f, p>>].commits = {} /\ inner[<<f, p>>].files = {}
  BY DEF Fame!Init
<1>8. ASSUME NEW p \in Fame!People PROVE Fits(p)
  BY <1>5, <1>6, <1>7, FS_EmptySet, SMTT(60) DEF Fits
<1> QED BY <1>8 DEF Clean, Fame!Init

LEMMA RacedStays ==
  ASSUME LocksIInv, [Fame!Next]_gitfamevars, raced' = FALSE
  PROVE  raced = FALSE
<1>1. raced \in BOOLEAN
  BY DEF LocksIInv
<1>2. CASE UNCHANGED raced
  BY <1>2
<1>3. CASE \E f \in Fame!Files : Fame!Mark(f) \/ Fame!Count(f)
  BY <1>1, <1>3 DEF Fame!Mark, Fame!Count, Fame!LockAndLook, Fame!Lock
<1> QED BY <1>2, <1>3 DEF gitfamevars, Fame!Next, Fame!MainStep, Fame!Main, Fame!Add, Fame!Spawn, Fame!Printer, Fame!Fatal, Fame!FileStep,
         Fame!Blame, Fame!Git, Fame!SkipMark, Fame!StoreMark, Fame!StoreNew, Fame!FillCommit, Fame!FillFile, Fame!AddLines, Fame!Progress,
         Fame!Done, Fame!WgDone

\* An entry the step of f leaves as it is.
LEMMA FitsSame ==
  ASSUME CursorIInv, MapsIInv, NEW f \in Fame!Files, Fame!FileStep(f), NEW p \in Fame!People, Fits(p),
         person'[p] = person[p], \A g \in Fame!Files : inner'[<<g, p>>] = inner[<<g, p>>],
         CommitsAmong(Noted', p) = CommitsAmong(Noted, p), FilesAmong(Marked', p) = FilesAmong(Marked, p),
         LinesAmong(Counted', p) = LinesAmong(Counted, p),
         gpc[f] \in FillPc => Fame!PersonOf(f) # p
  PROVE  Fits(p)'
<1>1. /\ CommitsAmong(Noted, p)' = CommitsAmong(Noted, p) /\ FilesAmong(Marked, p)' = FilesAmong(Marked, p)
      /\ LinesAmong(Counted, p)' = LinesAmong(Counted, p)
  BY FileMoves, AmongNext
<1>2. \A g \in Fame!Files : gpc[g] \in FillPc /\ Fame!PersonOf(g) = p => gpc'[g] \in FillPc /\ Fame!PersonOf(g)' = p
  BY Others
<1>3. ASSUME person[p] # Absent PROVE inner'[person[p].obj] = inner[person[p].obj]
  <2>1. person[p] \in EntriesOf(p)
    BY <1>3 DEF MapsIInv
  <2>2. person[p].obj \in Fame!Files \X {p}
    BY <2>1 DEF EntriesOf
  <2>3. \A o \in Fame!Files \X {p} : o[1] \in Fame!Files /\ o = <<o[1], p>>
    OBVIOUS
  <2> QED BY <2>2, <2>3
<1>4. (\E g \in Fame!Files : gpc[g] \in FillPc /\ Fame!PersonOf(g) = p) => \E g \in Fame!Files : gpc'[g] \in FillPc /\ Fame!PersonOf(g)' = p
  BY <1>2
<1>5. IsFiniteSet(LinesAmong(Counted, p))'
  BY <1>1 DEF Fits
<1>6. CASE person[p] = Absent
  BY <1>1, <1>5, <1>6 DEF Fits
<1>7. CASE person[p] # Absent
  BY <1>1, <1>3, <1>4, <1>5, <1>7 DEF Fits
<1> QED BY <1>6, <1>7

LEMMA CleanFrame ==
  ASSUME CursorIInv, LocksIInv, Clean, raced = FALSE, NEW f \in Fame!Files, Fame!FileStep(f),
         gpc[f] \in InMapPc \/ UNCHANGED person, \A g \in Fame!Files \ {f} : entry'[g] = entry[g],
         gpc'[f] \in {"store", "addlines"} => entry'[f] = person'[Fame!PersonOf(f)'],
         \A p \in Fame!People : Fits(p)'
  PROVE  Clean'
<1>1. ASSUME NEW g \in Fame!Files, gpc'[g] \in {"store", "addlines"} PROVE entry'[g] = person'[Fame!PersonOf(g)']
  <2>1. CASE g = f
    BY <1>1, <2>1
  <2>2. CASE g # f
    <3>1. gpc[g] = gpc'[g] /\ Fame!PersonOf(g)' = Fame!PersonOf(g) /\ entry'[g] = entry[g]
      BY <2>2, Others
    <3>2. UNCHANGED person
      BY <1>1, <2>2, <3>1, AloneInMap DEF InMapPc
    <3> QED BY <1>1, <3>1, <3>2 DEF Clean
  <2> QED BY <2>1, <2>2
<1> QED BY <1>1 DEF Clean, Fame!People

LEMMA CleanSkip ==
  ASSUME CursorIInv, LocksIInv, MapsIInv, Clean, raced = FALSE, NEW f \in Fame!Files, Fame!FileStep(f),
         Fame!SkipMark(f) \/ Fame!Git(f) \/ Fame!Progress(f) \/ Fame!Done(f) \/ Fame!WgDone(f)
  PROVE  Clean'
<1>1. UNCHANGED <<entry, person, inner>> /\ gpc'[f] \notin {"store", "addlines"}
  BY OtherMaps
<1>2. gpc[f] \notin FillPc
  BY DEF Fame!SkipMark, Fame!Git, Fame!Progress, Fame!Done, Fame!WgDone, Fame!Go, FillPc
<1>3. Counted' = Counted
  <2>1. ~Fame!AddLines(f)
    BY DEF Fame!SkipMark, Fame!Git, Fame!Progress, Fame!Done, Fame!WgDone, Fame!AddLines, Fame!Go
  <2> QED BY <2>1, HowFarFile
<1>4. ASSUME NEW p \in Fame!People
      PROVE  CommitsAmong(Noted', p) = CommitsAmong(Noted, p) /\ FilesAmong(Marked', p) = FilesAmong(Marked, p)
  <2>1. CASE Fame!SkipMark(f)
    <3>1. Marked' = Marked \union {Here(f)} /\ Noted' = Noted \union {Here(f)}
      BY <2>1, HowFarFile, NotedNext
    <3> DEFINE h == <<f, at[f] - 1>>
    <3>2. gpc[f] = "mark"
      BY <2>1 DEF Fame!SkipMark, Fame!Go
    <3>3. h \in Marked
      <4>1. at[f] \in 1 .. Len(blame[f].hunks) /\ at[f] - 1 \in DOMAIN blame[f].hunks
        BY <2>1, <3>2, AtFacts, HunkFacts DEF Fame!SkipMark, Fame!SameCommit, AtHunkPc, CursorIInv
      <4>2. h \in Fame!AllHunks
        BY <4>1, Hunks
      <4>3. MarkedTo(f) = at[f] - 1
        BY <3>2 DEF MarkedTo, FinishedPc
      <4> QED BY <4>1, <4>2, <4>3 DEF Marked
    <3>4. Fame!Said(h).commit = Fame!CommitOf(f) /\ Who(h) = Fame!PersonOf(f) /\ h[1] = f
      BY <2>1 DEF Fame!SkipMark, Fame!SameCommit, Who, Fame!Said, Fame!PersonOf, Fame!CommitOf
    <3>5. Who(Here(f)) = Fame!PersonOf(f) /\ Fame!Said(Here(f)).commit = Fame!CommitOf(f) /\ Here(f)[1] = f
      BY <3>2, HereFacts DEF AtHunkPc
    <3>6. CASE Who(Here(f)) = p
      <4>1. Fame!CommitOf(f) \in CommitsAmong(Noted, p)
        BY <3>3, <3>4, <3>5, <3>6 DEF CommitsAmong, Noted
      <4>2. f \in FilesAmong(Marked, p)
        BY <3>3, <3>4, <3>5, <3>6 DEF FilesAmong
      <4>3. CommitsAmong(Noted \union {Here(f)}, p) = CommitsAmong(Noted, p) \union {Fame!Said(Here(f)).commit}
        BY <3>6, CommitsOwn
      <4>4. FilesAmong(Marked \union {Here(f)}, p) = FilesAmong(Marked, p) \union {Here(f)[1]}
        BY <3>6, FilesOwn
      <4> QED BY <3>1, <3>5, <4>1, <4>2, <4>3, <4>4
    <3>7. CASE Who(Here(f)) # p
      BY <3>1, <3>7, AmongOther
    <3> QED BY <3>6, <3>7
  <2>2. CASE ~Fame!SkipMark(f)
    <3>1. ~Fame!StoreMark(f) /\ ~Fame!FillFile(f) /\ ~Fame!FillCommit(f)
      BY <2>2 DEF Fame!SkipMark, Fame!Git, Fame!Progress, Fame!Done, Fame!WgDone, Fame!StoreMark, Fame!FillFile, Fame!FillCommit, Fame!Go
    <3> QED BY <2>2, <3>1, HowFarFile, NotedNext, SMTT(60)
  <2> QED BY <2>1, <2>2
<1>5. ASSUME NEW p \in Fame!People PROVE Fits(p)'
  BY <1>1, <1>2, <1>3, <1>4, FitsSame DEF Clean
<1> QED BY <1>1, <1>5, CleanFrame

LEMMA CleanLook ==
  ASSUME CursorIInv, LocksIInv, MapsIInv, Clean, raced = FALSE, NEW f \in Fame!Files, Fame!FileStep(f), Fame!Mark(f) \/ Fame!Count(f)
  PROVE  Clean'
<1>1. /\ gpc[f] \in {"mark", "count"} /\ gpc'[f] \in {"store", "addlines"}
      /\ UNCHANGED <<person, inner>> /\ entry'[f] = person[Fame!PersonOf(f)]
      /\ \A g \in Fame!Files \ {f} : entry'[g] = entry[g]
  BY LookMaps
<1>2. /\ ~Fame!AddLines(f) /\ ~Fame!StoreMark(f) /\ ~Fame!FillFile(f) /\ ~Fame!FillCommit(f) /\ ~Fame!SkipMark(f)
  BY DEF Fame!Mark, Fame!Count, Fame!LockAndLook, Fame!Go, Fame!AddLines, Fame!StoreMark, Fame!FillFile, Fame!FillCommit, Fame!SkipMark
<1>3. Counted' = Counted /\ Marked' = Marked /\ Noted' = Noted /\ Fame!PersonOf(f)' = Fame!PersonOf(f)
  BY <1>2, HowFarFile, NotedNext, Others
<1>4. ASSUME NEW p \in Fame!People PROVE Fits(p)'
  BY <1>1, <1>3, FitsSame DEF Clean, FillPc
<1> QED BY <1>1, <1>3, <1>4, CleanFrame

LEMMA CleanStoreMark ==
  ASSUME CursorIInv, LocksIInv, MapsIInv, Clean, raced = FALSE, NEW f \in Fame!Files, Fame!FileStep(f), Fame!StoreMark(f)
  PROVE  Clean'
<1>p. PICK P : P = Fame!PersonOf(f)
  OBVIOUS
<1>1. /\ gpc[f] = "store" /\ gpc'[f] \in {"count", "progress"} /\ (\A g \in Fame!Files \ {f} : entry'[g] = entry[g])
      /\ entry[f] \in EntriesOf(P)
      /\ person'[P] = entry[f] /\ (\A p \in Fame!People : p # P => person'[p] = person[p])
      /\ inner'[entry[f].obj].commits = inner[entry[f].obj].commits \union {Fame!CommitOf(f)}
      /\ inner'[entry[f].obj].files = inner[entry[f].obj].files \union {f}
      /\ \A q \in Fame!Files \X Fame!People : q # entry[f].obj => inner'[q] = inner[q]
  BY <1>p, StoreMarkMaps
<1>2. /\ P \in Fame!People /\ Who(Here(f)) = P /\ Fame!Said(Here(f)).commit = Fame!CommitOf(f) /\ Here(f)[1] = f
  BY <1>p, <1>1, HereFacts DEF AtHunkPc
<1>3. entry[f] = person[P] /\ entry[f] # Absent /\ entry[f].obj[2] = P
  BY <1>1, <1>2, EntryFacts, <1>p DEF Clean
<1>4. Counted' = Counted /\ Marked' = Marked \union {Here(f)} /\ Noted' = Noted \union {Here(f)}
  <2>1. ~Fame!AddLines(f)
    BY <1>1 DEF Fame!AddLines, Fame!Go
  <2> QED BY <2>1, HowFarFile, NotedNext
<1>5. ASSUME NEW p \in Fame!People, p # P PROVE Fits(p)'
  <2>1. \A g \in Fame!Files : inner'[<<g, p>>] = inner[<<g, p>>]
    BY <1>1, <1>3, <1>5
  <2>2. /\ CommitsAmong(Noted', p) = CommitsAmong(Noted, p) /\ FilesAmong(Marked', p) = FilesAmong(Marked, p)
        /\ LinesAmong(Counted', p) = LinesAmong(Counted, p)
    BY <1>2, <1>4, <1>5, AmongOther
  <2> QED BY <1>1, <1>5, <2>1, <2>2, FitsSame DEF Clean, FillPc
<1>6. Fits(P)'
  <2>1. /\ CommitsAmong(Noted, P)' = CommitsAmong(Noted, P) \union {Fame!CommitOf(f)}
        /\ FilesAmong(Marked, P)' = FilesAmong(Marked, P) \union {f}
        /\ LinesAmong(Counted, P)' = LinesAmong(Counted, P)
    <3>1. /\ CommitsAmong(Noted', P) = CommitsAmong(Noted, P) \union {Fame!CommitOf(f)}
          /\ FilesAmong(Marked', P) = FilesAmong(Marked, P) \union {f}
      <4>1. CommitsAmong(Noted \union {Here(f)}, P) = CommitsAmong(Noted, P) \union {Fame!Said(Here(f)).commit}
        BY <1>2, CommitsOwn
      <4>2. FilesAmong(Marked \union {Here(f)}, P) = FilesAmong(Marked, P) \union {Here(f)[1]}
        BY <1>2, FilesOwn
      <4> QED BY <1>2, <1>4, <4>1, <4>2
    <3> QED BY <1>4, <3>1, FileMoves, AmongNext
  <2>2. Fits(P)
    BY <1>2 DEF Clean
  <2>3. /\ person'[P] # Absent /\ person'[P].lines = Cardinality(LinesAmong(Counted, P))
        /\ inner[person'[P].obj].commits = CommitsAmong(Noted, P) /\ inner[person'[P].obj].files = FilesAmong(Marked, P)
    BY <1>1, <1>3, <2>2 DEF Fits
  <2>4. FilesAmong(Marked, P)' # {} /\ IsFiniteSet(LinesAmong(Counted, P))
    BY <2>1, <2>2 DEF Fits
  <2>5. /\ inner'[person'[P].obj].commits = CommitsAmong(Noted, P)' /\ inner'[person'[P].obj].files = FilesAmong(Marked, P)'
        /\ person'[P].lines = Cardinality(LinesAmong(Counted, P)')
    BY <1>1, <1>3, <2>1, <2>3
  <2> QED BY <2>1, <2>3, <2>4, <2>5 DEF Fits
<1>7. ASSUME NEW p \in Fame!People PROVE Fits(p)'
  BY <1>5, <1>6, <1>7
<1> QED BY <1>1, <1>7, CleanFrame DEF InMapPc

LEMMA CleanStoreNew ==
  ASSUME CursorIInv, LocksIInv, MapsIInv, Clean, raced = FALSE, NEW f \in Fame!Files, Fame!FileStep(f), Fame!StoreNew(f)
  PROVE  Clean'
<1>p. PICK P : P = Fame!PersonOf(f)
  OBVIOUS
<1>1. /\ gpc[f] = "store" /\ gpc'[f] = "fillcommit" /\ entry[f] = Absent /\ UNCHANGED <<entry, inner>>
      /\ person'[P] = [obj |-> <<f, P>>, lines |-> 0] /\ [obj |-> <<f, P>>, lines |-> 0] \in EntriesOf(P)
      /\ \A p \in Fame!People : p # P => person'[p] = person[p]
  BY <1>p, StoreNewMaps
<1>2. P \in Fame!People /\ person[P] = Absent
  BY <1>p, <1>1, HereFacts DEF AtHunkPc, Clean
<1>3. Counted' = Counted /\ Marked' = Marked /\ Noted' = Noted /\ Fame!PersonOf(f)' = P
  <2>1. /\ ~Fame!AddLines(f) /\ ~Fame!StoreMark(f) /\ ~Fame!FillFile(f) /\ ~Fame!FillCommit(f) /\ ~Fame!SkipMark(f)
    BY <1>1 DEF Fame!StoreMark, Fame!Go, Fame!AddLines, Fame!FillFile, Fame!FillCommit, Fame!SkipMark
  <2> QED BY <1>p, <2>1, HowFarFile, NotedNext, Others
<1>4. ASSUME NEW p \in Fame!People, p # P PROVE Fits(p)'
  BY <1>1, <1>3, <1>4, FitsSame DEF Clean, FillPc
<1>5. Fits(P)'
  <2>1. Fits(P)
    BY <1>2 DEF Clean
  <2>2. /\ CommitsAmong(Noted, P)' = CommitsAmong(Noted, P) /\ FilesAmong(Marked, P)' = FilesAmong(Marked, P)
        /\ LinesAmong(Counted, P)' = LinesAmong(Counted, P)
    BY <1>3, FileMoves, AmongNext
  <2>3. /\ FilesAmong(Marked, P) = {} /\ CommitsAmong(Noted, P) = {} /\ LinesAmong(Counted, P) = {}
        /\ inner[<<f, P>>].commits = {} /\ inner[<<f, P>>].files = {}
    BY <1>2, <2>1 DEF Fits
  <2>4. person'[P] # Absent /\ person'[P].obj = <<f, P>> /\ person'[P].lines = 0
    BY <1>1, <1>2, EntryFacts
  <2>5. IsFiniteSet(LinesAmong(Counted, P)') /\ Cardinality(LinesAmong(Counted, P)') = 0
    BY <2>2, <2>3, FS_EmptySet
  <2>6. gpc'[f] \in FillPc /\ Fame!PersonOf(f)' = P
    BY <1>1, <1>3 DEF FillPc
  <2> QED BY <1>1, <2>2, <2>3, <2>4, <2>5, <2>6 DEF Fits
<1>6. ASSUME NEW p \in Fame!People PROVE Fits(p)'
  BY <1>4, <1>5, <1>6
<1> QED BY <1>1, <1>6, CleanFrame DEF InMapPc

LEMMA CleanFillCommit ==
  ASSUME CursorIInv, LocksIInv, MapsIInv, Clean, raced = FALSE, NEW f \in Fame!Files, Fame!FileStep(f), Fame!FillCommit(f)
  PROVE  Clean'
<1>p. PICK P : P = Fame!PersonOf(f)
  OBVIOUS
<1>o. PICK o : o = person[Fame!PersonOf(f)].obj
  OBVIOUS
<1>1. /\ gpc[f] = "fillcommit" /\ gpc'[f] = "fillfile" /\ UNCHANGED <<entry, person>> /\ person[P] \in EntriesOf(P)
      /\ inner'[o].commits = inner[o].commits \union {Fame!CommitOf(f)} /\ inner'[o].files = inner[o].files
      /\ \A q \in Fame!Files \X Fame!People : q # o => inner'[q] = inner[q]
  <2>1. /\ gpc[f] = "fillcommit" /\ gpc'[f] = "fillfile" /\ UNCHANGED <<entry, person>>
        /\ person[Fame!PersonOf(f)] \in EntriesOf(Fame!PersonOf(f))
    BY <1>o, FillCommitMaps
  <2>2. inner'[o].commits = inner[o].commits \union {Fame!CommitOf(f)} /\ inner'[o].files = inner[o].files
    BY <1>o, FillCommitMaps
  <2>3. \A q \in Fame!Files \X Fame!People : q # o => inner'[q] = inner[q]
    BY <1>o, FillCommitMaps
  <2> QED BY <1>p, <2>1, <2>2, <2>3
<1>2. P \in Fame!People /\ Who(Here(f)) = P /\ Fame!Said(Here(f)).commit = Fame!CommitOf(f)
  BY <1>p, <1>1, HereFacts DEF AtHunkPc
<1>3. person[P] # Absent /\ o = person[P].obj /\ o[2] = P
  BY <1>p, <1>o, <1>1, <1>2, EntryFacts
<1>4. Counted' = Counted /\ Marked' = Marked /\ Noted' = Noted \union {Here(f)} /\ Fame!PersonOf(f)' = P
  <2>1. ~Fame!AddLines(f) /\ ~Fame!StoreMark(f) /\ ~Fame!FillFile(f) /\ ~Fame!SkipMark(f)
    BY <1>1 DEF Fame!StoreMark, Fame!Go, Fame!AddLines, Fame!FillFile, Fame!SkipMark
  <2> QED BY <1>p, <2>1, HowFarFile, NotedNext, Others
<1>5. ASSUME NEW p \in Fame!People, p # P PROVE Fits(p)'
  <2>1. \A g \in Fame!Files : inner'[<<g, p>>] = inner[<<g, p>>]
    BY <1>1, <1>3, <1>5
  <2>2. CommitsAmong(Noted', p) = CommitsAmong(Noted, p)
    BY <1>2, <1>4, <1>5, AmongOther
  <2> QED BY <1>p, <1>1, <1>4, <1>5, <2>1, <2>2, FitsSame DEF Clean
<1>6. Fits(P)'
  <2>1. Fits(P)
    BY <1>2 DEF Clean
  <2>2. CommitsAmong(Noted \union {Here(f)}, P) = CommitsAmong(Noted, P) \union {Fame!Said(Here(f)).commit}
    BY <1>2, CommitsOwn
  <2>3. /\ CommitsAmong(Noted, P)' = CommitsAmong(Noted, P) \union {Fame!CommitOf(f)} /\ FilesAmong(Marked, P)' = FilesAmong(Marked, P)
        /\ LinesAmong(Counted, P)' = LinesAmong(Counted, P)
    BY <1>2, <1>4, <2>2, FileMoves, AmongNext
  <2>4. gpc'[f] \in FillPc /\ Fame!PersonOf(f)' = P
    BY <1>1, <1>4 DEF FillPc
  <2> QED BY <1>1, <1>3, <2>1, <2>3, <2>4 DEF Fits
<1>7. ASSUME NEW p \in Fame!People PROVE Fits(p)'
  BY <1>5, <1>6, <1>7
<1> QED BY <1>1, <1>7, CleanFrame

LEMMA CleanFillFile ==
  ASSUME CursorIInv, LocksIInv, MapsIInv, Clean, raced = FALSE, NEW f \in Fame!Files, Fame!FileStep(f), Fame!FillFile(f)
  PROVE  Clean'
<1>p. PICK P : P = Fame!PersonOf(f)
  OBVIOUS
<1>o. PICK o : o = person[Fame!PersonOf(f)].obj
  OBVIOUS
<1>1. /\ gpc[f] = "fillfile" /\ gpc'[f] \in {"count", "progress"} /\ UNCHANGED <<entry, person>> /\ person[P] \in EntriesOf(P)
      /\ inner'[o].files = inner[o].files \union {f} /\ inner'[o].commits = inner[o].commits
      /\ \A q \in Fame!Files \X Fame!People : q # o => inner'[q] = inner[q]
  <2>1. /\ gpc[f] = "fillfile" /\ gpc'[f] \in {"count", "progress"} /\ UNCHANGED <<entry, person>>
        /\ person[Fame!PersonOf(f)] \in EntriesOf(Fame!PersonOf(f))
    BY <1>o, FillFileMaps
  <2>2. inner'[o].files = inner[o].files \union {f} /\ inner'[o].commits = inner[o].commits
    BY <1>o, FillFileMaps
  <2>3. \A q \in Fame!Files \X Fame!People : q # o => inner'[q] = inner[q]
    BY <1>o, FillFileMaps
  <2> QED BY <1>p, <2>1, <2>2, <2>3
<1>2. P \in Fame!People /\ Who(Here(f)) = P /\ Here(f)[1] = f
  BY <1>p, <1>1, HereFacts DEF AtHunkPc
<1>3. person[P] # Absent /\ o = person[P].obj /\ o[2] = P
  BY <1>p, <1>o, <1>1, <1>2, EntryFacts
<1>4. Counted' = Counted /\ Marked' = Marked \union {Here(f)} /\ Noted' = Noted
  <2>1. ~Fame!AddLines(f) /\ ~Fame!StoreMark(f) /\ ~Fame!FillCommit(f) /\ ~Fame!SkipMark(f)
    BY <1>1 DEF Fame!StoreMark, Fame!Go, Fame!AddLines, Fame!FillCommit, Fame!SkipMark
  <2> QED BY <2>1, HowFarFile, NotedNext
<1>5. ASSUME NEW p \in Fame!People, p # P PROVE Fits(p)'
  <2>1. \A g \in Fame!Files : inner'[<<g, p>>] = inner[<<g, p>>]
    BY <1>1, <1>3, <1>5
  <2>2. FilesAmong(Marked', p) = FilesAmong(Marked, p)
    BY <1>2, <1>4, <1>5, AmongOther
  <2> QED BY <1>p, <1>1, <1>4, <1>5, <2>1, <2>2, FitsSame DEF Clean
<1>6. Fits(P)'
  <2>1. Fits(P)
    BY <1>2 DEF Clean
  <2>2. FilesAmong(Marked \union {Here(f)}, P) = FilesAmong(Marked, P) \union {Here(f)[1]}
    BY <1>2, FilesOwn
  <2>3. /\ CommitsAmong(Noted, P)' = CommitsAmong(Noted, P) /\ FilesAmong(Marked, P)' = FilesAmong(Marked, P) \union {f}
        /\ LinesAmong(Counted, P)' = LinesAmong(Counted, P)
    BY <1>2, <1>4, <2>2, FileMoves, AmongNext
  <2> QED BY <1>1, <1>3, <2>1, <2>3 DEF Fits
<1>7. ASSUME NEW p \in Fame!People PROVE Fits(p)'
  BY <1>5, <1>6, <1>7
<1> QED BY <1>1, <1>7, CleanFrame

LEMMA CleanAddLines ==
  ASSUME CursorIInv, LocksIInv, MapsIInv, Clean, raced = FALSE, NEW f \in Fame!Files, Fame!FileStep(f), Fame!AddLines(f)
  PROVE  Clean'
<1>p. PICK P : P = Fame!PersonOf(f)
  OBVIOUS
<1>n. PICK n : n = Fame!Hunk(f).lines
  OBVIOUS
<1>1. /\ gpc[f] = "addlines" /\ gpc'[f] \in {"mark", "progress"} /\ UNCHANGED inner
      /\ \A g \in Fame!Files \ {f} : entry'[g] = entry[g]
      /\ entry[f] \in EntriesOf(P) /\ person'[P] \in EntriesOf(P)
      /\ person'[P].obj = entry[f].obj /\ person'[P].lines = entry[f].lines + n
      /\ \A p \in Fame!People : p # P => person'[p] = person[p]
  BY <1>p, <1>n, AddLinesMaps
<1>2. /\ P \in Fame!People /\ Who(Here(f)) = P /\ Fame!Said(Here(f)).lines = n /\ n \in Nat
  BY <1>p, <1>n, <1>1, HereFacts, AtFacts DEF AtHunkPc
<1>3. entry[f] = person[P] /\ person[P] # Absent /\ person'[P] # Absent
  BY <1>p, <1>1, <1>2, EntryFacts DEF Clean
<1>4. Counted' = Counted \union {Here(f)} /\ Here(f) \notin Counted /\ Marked' = Marked /\ Noted' = Noted
  <2>1. ~Fame!StoreMark(f) /\ ~Fame!FillFile(f) /\ ~Fame!FillCommit(f) /\ ~Fame!SkipMark(f)
    BY <1>1 DEF Fame!StoreMark, Fame!Go, Fame!FillCommit, Fame!FillFile, Fame!SkipMark
  <2> QED BY <2>1, HowFarFile, NotedNext
<1>5. ASSUME NEW p \in Fame!People, p # P PROVE Fits(p)'
  <2>1. LinesAmong(Counted', p) = LinesAmong(Counted, p)
    BY <1>2, <1>4, <1>5, AmongOther
  <2> QED BY <1>p, <1>1, <1>4, <1>5, <2>1, FitsSame DEF Clean, FillPc
<1>6. Fits(P)'
  <2>1. Fits(P)
    BY <1>2 DEF Clean
  <2>h. PICK h : h = Here(f)
    OBVIOUS
  <2> DEFINE Rows == {h} \X (1 .. n)
  <2>2. LinesAmong(Counted \union {h}, P) = LinesAmong(Counted, P) \union ({h} \X (1 .. Fame!Said(h).lines))
    BY <1>2, <2>h, LinesOwn
  <2>3. LinesAmong(Counted', P) = LinesAmong(Counted, P) \union Rows
    BY <1>2, <1>4, <2>h, <2>2
  <2>4. IsFiniteSet(Rows) /\ Cardinality(Rows) = n
    <3>1. IsFiniteSet({h}) /\ Cardinality({h}) = 1
      BY FS_Singleton
    <3>2. IsFiniteSet(1 .. n) /\ Cardinality(1 .. n) = n
      BY <1>2, FS_Interval
    <3>3. IsFiniteSet(Rows) /\ Cardinality(Rows) = Cardinality({h}) * Cardinality(1 .. n)
      BY <3>1, <3>2, FS_Product
    <3> HIDE DEF Rows
    <3> QED BY <1>2, <3>1, <3>2, <3>3
  <2>5. LinesAmong(Counted, P) \cap Rows = {}
    <3> SUFFICES ASSUME NEW g \in Counted, NEW r \in {g} \X (1 .. Fame!Said(g).lines), r \in Rows PROVE FALSE
      BY DEF LinesAmong
    <3> QED BY <1>4, <2>h
  <2> HIDE DEF Rows
  <2>6. IsFiniteSet(LinesAmong(Counted, P)) /\ Cardinality(LinesAmong(Counted, P)) \in Nat
    BY <2>1, FS_CardinalityType DEF Fits
  <2>7. /\ IsFiniteSet(LinesAmong(Counted', P))
        /\ Cardinality(LinesAmong(Counted', P)) = Cardinality(LinesAmong(Counted, P)) + n
    <3>1. IsFiniteSet(LinesAmong(Counted, P) \cap Rows) /\ Cardinality(LinesAmong(Counted, P) \cap Rows) = 0
      BY <2>5, FS_EmptySet
    <3>2. /\ IsFiniteSet(LinesAmong(Counted, P) \union Rows)
          /\ Cardinality(LinesAmong(Counted, P) \union Rows) =
               Cardinality(LinesAmong(Counted, P)) + Cardinality(Rows) - Cardinality(LinesAmong(Counted, P) \cap Rows)
      BY <2>4, <2>6, FS_Union
    <3> QED BY <1>2, <2>3, <2>4, <2>6, <3>1, <3>2
  <2>8. /\ CommitsAmong(Noted, P)' = CommitsAmong(Noted, P) /\ FilesAmong(Marked, P)' = FilesAmong(Marked, P)
        /\ LinesAmong(Counted, P)' = LinesAmong(Counted', P)
    BY <1>4, FileMoves, AmongNext
  <2>9. FilesAmong(Marked, P) # {}
    <3>1. \A g \in Fame!Files : gpc[g] \in FillPc => g = f
      BY <1>1, AloneInMap DEF FillPc, InMapPc
    <3>2. gpc[f] \notin FillPc
      BY <1>1 DEF FillPc
    <3> QED BY <1>3, <2>1, <3>1, <3>2 DEF Fits
  <2> QED BY <1>1, <1>3, <2>1, <2>7, <2>8, <2>9 DEF Fits
<1>7. ASSUME NEW p \in Fame!People PROVE Fits(p)'
  BY <1>5, <1>6, <1>7
<1> QED BY <1>1, <1>7, CleanFrame DEF InMapPc

LEMMA CleanMain ==
  ASSUME CursorIInv, Clean, Fame!MainStep \/ Fame!Fatal \/ UNCHANGED gitfamevars
  PROVE  Clean'
<1>1. Marked' = Marked /\ Counted' = Counted /\ UNCHANGED <<blame, at, person, entry, inner>>
  BY HowFarMain DEF Fame!MainStep, Fame!Main, Fame!Add, Fame!Spawn, Fame!Printer, Fame!Fatal, gitfamevars,
                    Fame!inputs, Fame!tracker, Fame!maps
<1>2. \A f \in Fame!Files : gpc'[f] = gpc[f] \/ (gpc[f] = "none" /\ gpc'[f] = "git")
  <2>1. CASE Fame!Spawn
    <3>1. gpc' = [gpc EXCEPT ![started + 1] = "git"] /\ gpc[started + 1] = "none"
      BY <2>1, FameFacts DEF Fame!Spawn, Started, CursorIInv, FameTypeOK
    <3> QED BY <3>1 DEF CursorIInv, FameTypeOK
  <2>2. CASE UNCHANGED gpc
    BY <2>2
  <2> QED BY <2>1, <2>2 DEF Fame!MainStep, Fame!Main, Fame!Add, Fame!Printer, Fame!Fatal, gitfamevars
<1>3. \A f \in Fame!Files : Fame!PersonOf(f)' = Fame!PersonOf(f) /\ Here(f)' = Here(f)
  BY <1>1 DEF Fame!PersonOf, Fame!CommitOf, Fame!Hunk, Here
<1>4. Noted' = Noted
  BY <1>1, <1>2, <1>3 DEF Noted
<1>5. ASSUME NEW p \in Fame!People PROVE Fits(p)'
  <2>1. /\ CommitsAmong(Noted, p)' = CommitsAmong(Noted, p) /\ FilesAmong(Marked, p)' = FilesAmong(Marked, p)
        /\ LinesAmong(Counted, p)' = LinesAmong(Counted, p)
    BY <1>1, <1>4, AmongNext
  <2>2. (\E f \in Fame!Files : gpc[f] \in FillPc /\ Fame!PersonOf(f) = p) => \E f \in Fame!Files : gpc'[f] \in FillPc /\ Fame!PersonOf(f)' = p
    BY <1>2, <1>3 DEF FillPc
  <2>3. Fits(p)
    BY DEF Clean
  <2> QED BY <1>1, <2>1, <2>2, <2>3 DEF Fits
<1> QED BY <1>1, <1>2, <1>3, <1>5 DEF Clean, Fame!People

LEMMA CleanNext == CursorIInv /\ LocksIInv /\ MapsIInv /\ CleanIInv /\ [Fame!Next]_gitfamevars => CleanIInv'
<1> SUFFICES ASSUME CursorIInv, LocksIInv, MapsIInv, CleanIInv, [Fame!Next]_gitfamevars, raced' = FALSE PROVE Clean'
  BY DEF CleanIInv
<1>1. raced = FALSE /\ Clean
  BY RacedStays DEF CleanIInv
<1>2. CASE Fame!MainStep \/ Fame!Fatal \/ UNCHANGED gitfamevars
  BY <1>1, <1>2, CleanMain
<1>3. ASSUME NEW f \in Fame!Files, Fame!FileStep(f) PROVE Clean'
  <2>1. CASE Fame!SkipMark(f) \/ Fame!Git(f) \/ Fame!Progress(f) \/ Fame!Done(f) \/ Fame!WgDone(f)
    BY <1>1, <1>3, <2>1, CleanSkip
  <2>2. CASE Fame!Mark(f) \/ Fame!Count(f)
    BY <1>1, <1>3, <2>2, CleanLook
  <2>3. CASE Fame!StoreMark(f)
    BY <1>1, <1>3, <2>3, CleanStoreMark
  <2>4. CASE Fame!StoreNew(f)
    BY <1>1, <1>3, <2>4, CleanStoreNew
  <2>5. CASE Fame!FillCommit(f)
    BY <1>1, <1>3, <2>5, CleanFillCommit
  <2>6. CASE Fame!FillFile(f)
    BY <1>1, <1>3, <2>6, CleanFillFile
  <2>7. CASE Fame!AddLines(f)
    BY <1>1, <1>3, <2>7, CleanAddLines
  <2> QED BY <1>3, <2>1, <2>2, <2>3, <2>4, <2>5, <2>6, <2>7 DEF Fame!FileStep, Fame!Blame
<1> QED BY <1>2, <1>3 DEF Fame!Next

-------------------------------------------------------------------------------
(* Progress, and the types of the counters: both are the sizes of sets of    *)
(* goroutines that were started, and main only adds to count while one is    *)
(* still to be started.                                                      *)
LEMMA CountersInRange ==
  ASSUME CursorIInv, CountersIInv, LocksIInv
  PROVE  Fame!TypeOK /\ Fame!ProgressInRange
<1>1. \A f \in Fame!Files : gpc[f] # "none" => f \in 1 .. started
  BY FameFacts DEF CursorIInv, Started, FameTypeOK
<1>2. InWg \subseteq 1 .. started /\ InCount \subseteq 1 .. started
  BY <1>1 DEF InWg, InCount
<1>3. started \in Nat /\ IsFiniteSet(1 .. started) /\ Cardinality(1 .. started) = started
  BY FameFacts, FS_Interval DEF CursorIInv, FameTypeOK
<1>4. Cardinality(InWg) <= started /\ Cardinality(InCount) <= started
  <2>1. InWg \in SUBSET (1 .. started) /\ InCount \in SUBSET (1 .. started)
    BY <1>2
  <2>2. Cardinality(InWg) <= Cardinality(1 .. started)
    BY <1>3, <2>1, FS_Subset
  <2>3. Cardinality(InCount) <= Cardinality(1 .. started)
    BY <1>3, <2>1, FS_Subset
  <2> QED BY <1>3, <2>2, <2>3
<1>5. started \in 0 .. NumFiles /\ (main = "spawn" => started < NumFiles)
  BY DEF CursorIInv, FameTypeOK, Started
<1>6. count \in 0 .. NumFiles /\ wg \in 0 .. NumFiles
  BY <1>3, <1>4, <1>5, InSets, FameFacts DEF CountersIInv
<1>7. Fame!TypeOK
  BY <1>6, FameFacts DEF Fame!TypeOK, CursorIInv, FameTypeOK, LocksIInv, FamePc, AtHunkPc
<1>8. ASSUME NEW f \in Fame!Files, gpc[f] = "progress" PROVE Fame!LenFiles - count + 1 \in 0 .. Fame!LenFiles
  <2>1. f \in InCount
    BY <1>8 DEF InCount
  <2>2. Cardinality(InCount) # 0
    BY <2>1, InSets, FS_EmptySet
  <2>3. count >= 1 /\ count \in Nat
    BY <2>2, InSets DEF CountersIInv
  <2> QED BY <1>6, <2>3, Listing DEF Fame!LenFiles
<1> QED BY <1>7, <1>8 DEF Fame!ProgressInRange

-------------------------------------------------------------------------------
(* The report: the rows of the map, each once, in the order that was asked.  *)
RowType == [name : Nat, lines : Nat, commits : Nat, files : Nat]
InMap   == {q \in Fame!People : person[q] # Absent}
MapRows == {Fame!Row(p) : p \in InMap}

ReportIInv ==
  /\ main # "ended" => report = <<>>
  /\ Fame!RankingRight
  /\ Fame!ReportRight

\* One definition of Cardinality, seen from two modules.
LEMMA Counting == \A S : Fame!Cardinality(S) = Cardinality(S)
BY DEF Cardinality, Fame!Cardinality

\* The sequences of a finite set have each of its elements once.
LEMMA Arranged ==
  ASSUME NEW S, IsFiniteSet(S), NEW s \in Fame!SetToSeqs(S)
  PROVE  /\ Cardinality(S) \in Nat /\ s \in [1 .. Cardinality(S) -> S] /\ Len(s) = Cardinality(S)
         /\ \A i, j \in 1 .. Cardinality(S) : i # j => s[i] # s[j]
         /\ \A x \in S : \E i \in 1 .. Cardinality(S) : s[i] = x
<1>1. Cardinality(S) \in Nat
  BY FS_CardinalityType
<1> DEFINE D == 1 .. Cardinality(S)
<1>2. s \in [D -> S] /\ \A i, j \in D : i # j => s[i] # s[j]
  BY Counting DEF Fame!SetToSeqs
<1>3. s \in Injection(D, S)
  <2>1. \A i, j \in D : s[i] = s[j] => i = j
    BY <1>2
  <2> HIDE DEF D
  <2> QED BY <1>2, <2>1 DEF Injection, IsInjective
<1>4. IsFiniteSet(D) /\ Cardinality(D) = Cardinality(S)
  BY <1>1, FS_Interval
<1>5. s \in Surjection(D, S)
  BY <1>3, <1>4, FS_Injection
<1>6. \A x \in S : \E i \in D : s[i] = x
  BY <1>5 DEF Surjection
<1>7. Len(s) = Cardinality(S)
  BY <1>1, <1>2
<1> QED BY <1>1, <1>2, <1>6, <1>7

LEMMA Orders ==
  ASSUME order \in {"lines", "commits", "files"}
  PROVE  /\ order = "lines" => Fame!SortKeys[1] = "lines" /\ Fame!SortKeys[2] = "commits" /\ Fame!SortKeys[3] = "files"
         /\ order = "commits" => Fame!SortKeys[1] = "commits" /\ Fame!SortKeys[2] = "lines" /\ Fame!SortKeys[3] = "files"
         /\ order = "files" => Fame!SortKeys[1] = "files" /\ Fame!SortKeys[2] = "lines" /\ Fame!SortKeys[3] = "commits"
<1>1. \A x, y, z : /\ (<<x>> \o <<y, z>>)[1] = x
                   /\ (<<x>> \o <<y, z>>)[2] = y
                   /\ (<<x>> \o <<y, z>>)[3] = z
  OBVIOUS
<1>2. order = "lines" => Fame!SortKeys = <<"lines">> \o <<"commits", "files">>
  BY DEF Fame!SortKeys, Fame!Others
<1>3. order = "commits" => Fame!SortKeys = <<"commits">> \o <<"lines", "files">>
  BY DEF Fame!SortKeys, Fame!Others
<1>4. order = "files" => Fame!SortKeys = <<"files">> \o <<"lines", "commits">>
  BY DEF Fame!SortKeys, Fame!Others
<1> QED BY <1>1, <1>2, <1>3, <1>4

\* A row that the sort does not put after another of another name is above it.
LEMMA Ranks ==
  ASSUME order \in {"lines", "commits", "files"}, NEW a \in RowType, NEW b \in RowType, a.name # b.name, ~Fame!Less(b, a)
  PROVE  Fame!Above(a, b)
<1>1. /\ a.name \in Nat /\ a.lines \in Nat /\ a.commits \in Nat /\ a.files \in Nat
      /\ b.name \in Nat /\ b.lines \in Nat /\ b.commits \in Nat /\ b.files \in Nat
  BY DEF RowType
<1> DEFINE A(i) == a[Fame!SortKeys[i]]
           B(i) == b[Fame!SortKeys[i]]
<1>3. ASSUME \/ A(1) > B(1)
             \/ A(1) = B(1) /\ A(2) > B(2)
             \/ A(1) = B(1) /\ A(2) = B(2) /\ A(3) > B(3)
             \/ A(1) = B(1) /\ A(2) = B(2) /\ A(3) = B(3) /\ a.name < b.name
      PROVE  Fame!Above(a, b)
  <2>1. Fame!Above(a, b) <=> \/ \E i \in 1 .. 3 : A(i) > B(i) /\ \A j \in 1 .. i - 1 : A(j) = B(j)
                             \/ a.name < b.name /\ \A i \in 1 .. 3 : A(i) = B(i)
    BY DEF Fame!Above
  <2> HIDE DEF A, B
  <2>2. 1 .. 1 - 1 = {} /\ 1 .. 2 - 1 = {1} /\ 1 .. 3 - 1 = {1, 2} /\ 1 .. 3 = {1, 2, 3}
    OBVIOUS
  <2> QED BY <1>3, <2>1, <2>2
<1>4. CASE order = "lines"
  <2>1. /\ A(1) = a.lines /\ A(2) = a.commits /\ A(3) = a.files
        /\ B(1) = b.lines /\ B(2) = b.commits /\ B(3) = b.files
    BY <1>4, Orders
  <2>2. \/ a.lines > b.lines
        \/ a.lines = b.lines /\ a.commits > b.commits
        \/ a.lines = b.lines /\ a.commits = b.commits /\ a.files > b.files
        \/ a.lines = b.lines /\ a.commits = b.commits /\ a.files = b.files /\ a.name < b.name
    BY <1>1, <1>4 DEF Fame!Less
  <2> HIDE DEF A, B
  <2> QED BY <1>3, <2>1, <2>2
<1>5. CASE order = "commits"
  <2>1. /\ A(1) = a.commits /\ A(2) = a.lines /\ A(3) = a.files
        /\ B(1) = b.commits /\ B(2) = b.lines /\ B(3) = b.files
    BY <1>5, Orders
  <2>2. \/ a.commits > b.commits
        \/ a.commits = b.commits /\ a.lines > b.lines
        \/ a.commits = b.commits /\ a.lines = b.lines /\ a.files > b.files
        \/ a.commits = b.commits /\ a.lines = b.lines /\ a.files = b.files /\ a.name < b.name
    BY <1>1, <1>5 DEF Fame!Less
  <2> HIDE DEF A, B
  <2> QED BY <1>3, <2>1, <2>2
<1>6. CASE order = "files"
  <2>1. /\ A(1) = a.files /\ A(2) = a.lines /\ A(3) = a.commits
        /\ B(1) = b.files /\ B(2) = b.lines /\ B(3) = b.commits
    BY <1>6, Orders
  <2>2. \/ a.files > b.files
        \/ a.files = b.files /\ a.lines > b.lines
        \/ a.files = b.files /\ a.lines = b.lines /\ a.commits > b.commits
        \/ a.files = b.files /\ a.lines = b.lines /\ a.commits = b.commits /\ a.name < b.name
    BY <1>1, <1>6 DEF Fame!Less
  <2> HIDE DEF A, B
  <2> QED BY <1>3, <2>1, <2>2
<1> QED BY <1>4, <1>5, <1>6

LEMMA RowFacts ==
  ASSUME MapsIInv
  PROVE  /\ \A p \in InMap : Fame!Row(p) \in RowType /\ Fame!Row(p).name = p
         /\ IsFiniteSet(MapRows) /\ IsFiniteSet(InMap) /\ Cardinality(MapRows) = Cardinality(InMap)
<1>1. ASSUME NEW p \in InMap PROVE Fame!Row(p) \in RowType /\ Fame!Row(p).name = p
  <2>1. p \in Fame!People /\ person[p] \in EntriesOf(p)
    BY <1>1 DEF InMap, MapsIInv
  <2>2. person[p].obj \in Fame!Files \X Fame!People /\ person[p].lines \in Nat /\ p \in Nat
    BY <2>1, EntryFacts, FameFacts
  <2>3. inner[person[p].obj] \in Inners
    BY <2>2 DEF MapsIInv
  <2>4. inner[person[p].obj].commits \in SUBSET Commits /\ inner[person[p].obj].files \in SUBSET Fame!Files
    BY <2>3 DEF Inners
  <2>5. IsFiniteSet(inner[person[p].obj].commits) /\ IsFiniteSet(inner[person[p].obj].files)
    BY <2>4, FameFacts, FS_Subset
  <2>6. Cardinality(inner[person[p].obj].commits) \in Nat /\ Cardinality(inner[person[p].obj].files) \in Nat
    BY <2>5, FS_CardinalityType
  <2>7. Fame!Row(p) = [name |-> p, lines |-> person[p].lines, commits |-> Cardinality(inner[person[p].obj].commits),
                      files |-> Cardinality(inner[person[p].obj].files)]
    BY Counting DEF Fame!Row
  <2> QED BY <2>2, <2>6, <2>7 DEF RowType
<1>2. IsFiniteSet(Fame!People)
  <2>1. Author \in Surjection(Commits, Fame!People)
    BY GitSays DEF Surjection, Fame!People
  <2> QED BY <2>1, GitSays, FS_Surjection
<1>3. IsFiniteSet(InMap)
  <2>1. InMap \in SUBSET Fame!People
    BY DEF InMap
  <2> QED BY <1>2, <2>1, FS_Subset
<1> DEFINE rows == [p \in InMap |-> Fame!Row(p)]
<1>4. rows \in Bijection(InMap, MapRows)
  <2>1. \A p \in InMap : rows[p] = Fame!Row(p)
    OBVIOUS
  <2>2. rows \in [InMap -> MapRows]
    BY DEF MapRows
  <2>3. \A x \in MapRows : \E p \in InMap : rows[p] = x
    BY <2>1 DEF MapRows
  <2>4. \A p, q \in InMap : rows[p] = rows[q] => p = q
    BY <1>1, <2>1
  <2> HIDE DEF rows
  <2>5. rows \in Injection(InMap, MapRows)
    BY <2>2, <2>4 DEF Injection, IsInjective
  <2>6. rows \in Surjection(InMap, MapRows)
    BY <2>2, <2>3 DEF Surjection
  <2> QED BY <2>5, <2>6 DEF Bijection
<1>5. ExistsBijection(InMap, MapRows)
  <2> HIDE DEF rows
  <2> QED BY <1>4 DEF ExistsBijection
<1> QED BY <1>1, <1>3, <1>5, FS_Bijection

\* All goroutines have ended: every hunk is noted and counted.
LEMMA AllNoted ==
  ASSUME CursorIInv, \A f \in Fame!Files : gpc[f] = "ended"
  PROVE  Marked = Fame!AllHunks /\ Counted = Fame!AllHunks /\ Noted = Fame!AllHunks
<1>1. \A f \in Fame!Files : MarkedTo(f) = Len(blame[f].hunks) /\ CountedTo(f) = Len(blame[f].hunks)
  BY DEF MarkedTo, CountedTo, FinishedPc
<1>2. \A f \in Fame!Files : \A i \in DOMAIN blame[f].hunks : i <= Len(blame[f].hunks)
  BY HunkFacts DEF CursorIInv
<1>3. \A h \in Fame!AllHunks : h[2] <= MarkedTo(h[1]) /\ h[2] <= CountedTo(h[1])
  BY <1>1, <1>2, Hunks
<1>4. {g \in Fame!Files : gpc[g] = "fillfile"} = {}
  OBVIOUS
<1> QED BY <1>3, <1>4 DEF Marked, Counted, Noted

\* Then a person's row is what the hunks say, and those without a row have none.
LEMMA RowsRight ==
  ASSUME CursorIInv, Clean, \A f \in Fame!Files : gpc[f] = "ended"
  PROVE  /\ InMap = {p \in Fame!People : Fame!FilesOf(p) # {}}
         /\ \A p \in InMap : Fame!Row(p) = [name |-> p, lines |-> Fame!Cardinality(Fame!LinesOf(p)),
                                            commits |-> Fame!Cardinality(Fame!CommitsOf(p)), files |-> Fame!Cardinality(Fame!FilesOf(p))]
<1>1. Marked = Fame!AllHunks /\ Counted = Fame!AllHunks /\ Noted = Fame!AllHunks
  BY AllNoted
<1>2. ASSUME NEW p
      PROVE  /\ CommitsAmong(Noted, p) = Fame!CommitsOf(p) /\ FilesAmong(Marked, p) = Fame!FilesOf(p)
             /\ LinesAmong(Counted, p) = Fame!LinesOf(p)
  BY <1>1 DEF CommitsAmong, FilesAmong, LinesAmong, Fame!CommitsOf, Fame!FilesOf, Fame!LinesOf, Fame!HunksOf, Who
<1>3. ~\E f \in Fame!Files : gpc[f] \in FillPc
  BY DEF FillPc
<1>4. \A p \in Fame!People : Fits(p)
  BY DEF Clean
<1>5. ASSUME NEW p \in Fame!People
      PROVE  /\ person[p] # Absent <=> Fame!FilesOf(p) # {}
             /\ person[p] # Absent => /\ person[p].lines = Cardinality(Fame!LinesOf(p))
                                      /\ inner[person[p].obj].commits = Fame!CommitsOf(p)
                                      /\ inner[person[p].obj].files = Fame!FilesOf(p)
  <2>1. Fits(p)
    BY <1>4
  <2> QED BY <1>2, <1>3, <2>1 DEF Fits
<1> QED BY <1>5, Counting DEF InMap, Fame!Row

LEMMA Printed ==
  ASSUME CursorIInv, CountersIInv, LocksIInv, MapsIInv, CleanIInv, Fame!Printer, CountersIInv'
  PROVE  Fame!RankingRight' /\ Fame!ReportRight'
<1>1. MapRows = {Fame!Row(p) : p \in {q \in Fame!People : person[q] # Absent}}
  BY DEF MapRows, InMap
<1>2. PICK s \in Fame!SetToSeqs(MapRows) : (\A i, j \in DOMAIN s : i < j => ~Fame!Less(s[j], s[i])) /\ report' = s
  BY <1>1 DEF Fame!Printer
<1>3. main' = "ended" /\ UNCHANGED <<blame, order, gpc, raced>>
  BY DEF Fame!Printer, Fame!inputs
<1>4. /\ \A p \in InMap : Fame!Row(p) \in RowType /\ Fame!Row(p).name = p
      /\ IsFiniteSet(MapRows) /\ Cardinality(MapRows) = Cardinality(InMap)
  BY RowFacts
<1> DEFINE n == Cardinality(MapRows)
<1>5. /\ n \in Nat /\ s \in [1 .. n -> MapRows] /\ Len(s) = n
      /\ \A i, j \in 1 .. n : i # j => s[i] # s[j]
      /\ \A x \in MapRows : \E i \in 1 .. n : s[i] = x
  BY <1>4, Arranged
<1> HIDE DEF n
<1>6. \A x \in MapRows : \E p \in InMap : x = Fame!Row(p)
  BY DEF MapRows
<1>7. \A x, y \in MapRows : x \in RowType /\ (x # y => x.name # y.name)
  BY <1>4, <1>6
<1>8. Fame!RankingRight'
  <2>1. order \in {"lines", "commits", "files"}
    BY DEF CursorIInv, FameTypeOK
  <2>2. ASSUME NEW i \in DOMAIN s, NEW j \in DOMAIN s, i < j PROVE Fame!Above(s[i], s[j])
    <3>1. i \in 1 .. n /\ j \in 1 .. n /\ i # j
      BY <1>5, <2>2
    <3>2. s[i] \in RowType /\ s[j] \in RowType /\ s[i].name # s[j].name
      BY <1>5, <1>7, <3>1
    <3>3. ~Fame!Less(s[j], s[i])
      BY <1>2, <2>2
    <3> QED BY <2>1, <3>2, <3>3, Ranks
  <2>3. \A a, b : Fame!Above(a, b)' <=> Fame!Above(a, b)
    BY <1>3 DEF Fame!Above, Fame!SortKeys
  <2>4. Fame!RankingRight' <=> \A i, j \in DOMAIN s : i < j => Fame!Above(s[i], s[j])'
    BY <1>2 DEF Fame!RankingRight
  <2> QED BY <2>2, <2>3, <2>4
<1>9. Fame!ReportRight'
  <2> DEFINE authors == {p \in Fame!People : Fame!FilesOf(p) # {}}
             told(p) == [name |-> p, lines |-> Fame!Cardinality(Fame!LinesOf(p)),
                         commits |-> Fame!Cardinality(Fame!CommitsOf(p)), files |-> Fame!Cardinality(Fame!FilesOf(p))]
  <2>1. ASSUME raced = FALSE
        PROVE  Len(s) = Fame!Cardinality(authors) /\ \A p \in authors : \E i \in DOMAIN s : s[i] = told(p)
    <3>1. \A f \in Fame!Files : gpc[f] = "ended"
      BY <1>3 DEF CountersIInv
    <3>2. InMap = authors /\ \A p \in InMap : Fame!Row(p) = told(p)
      BY <2>1, <3>1, RowsRight DEF CleanIInv
    <3> HIDE DEF authors, told
    <3>3. \A p \in InMap : Fame!Row(p) \in MapRows
      BY DEF MapRows
    <3>4. Len(s) = Fame!Cardinality(authors)
      BY <1>4, <1>5, <3>2, Counting DEF n
    <3>5. DOMAIN s = 1 .. n
      BY <1>5
    <3> QED BY <1>5, <3>2, <3>3, <3>4, <3>5
  <2>2. /\ authors' = authors
        /\ \A p : told(p)' = told(p)
    BY <1>3 DEF Fame!FilesOf, Fame!LinesOf, Fame!CommitsOf, Fame!HunksOf, Fame!AllHunks, Fame!Said, Fame!People
  <2>3. Fame!ReportRight' <=> (~raced => Len(s) = Fame!Cardinality(authors') /\ \A p \in authors' : \E i \in DOMAIN s : s[i] = told(p)')
    BY <1>2, <1>3 DEF Fame!ReportRight
  <2>4. ~raced => raced = FALSE
    BY DEF LocksIInv
  <2> HIDE DEF authors, told
  <2>5. ASSUME ~raced PROVE Len(s) = Fame!Cardinality(authors') /\ \A p \in authors' : \E i \in DOMAIN s : s[i] = told(p)'
    BY <2>1, <2>2, <2>4, <2>5
  <2> QED BY <2>3, <2>5
<1> QED BY <1>8, <1>9

LEMMA ReportInit == Fame!Init => ReportIInv
BY DEF Fame!Init, ReportIInv, Fame!RankingRight, Fame!ReportRight

LEMMA ReportNext ==
  ASSUME CursorIInv, CountersIInv, LocksIInv, MapsIInv, CleanIInv, ReportIInv, [Fame!Next]_gitfamevars, CountersIInv'
  PROVE  ReportIInv'
<1>1. ASSUME UNCHANGED <<blame, order, report, main, raced>> PROVE ReportIInv'
  <2>1. Fame!RankingRight'
    <3>1. \A a, b : Fame!Above(a, b)' <=> Fame!Above(a, b)
      BY <1>1 DEF Fame!Above, Fame!SortKeys
    <3> QED BY <1>1, <3>1 DEF ReportIInv, Fame!RankingRight
  <2>2. \A p : Fame!FilesOf(p)' = Fame!FilesOf(p) /\ Fame!LinesOf(p)' = Fame!LinesOf(p) /\ Fame!CommitsOf(p)' = Fame!CommitsOf(p)
    BY <1>1, SameHunks DEF Fame!FilesOf, Fame!LinesOf, Fame!CommitsOf, Fame!HunksOf
  <2>3. {p \in Fame!People : Fame!FilesOf(p) # {}}' = {p \in Fame!People : Fame!FilesOf(p) # {}}
    BY <2>2 DEF Fame!People
  <2>4. Fame!ReportRight'
    BY <1>1, <2>2, <2>3 DEF ReportIInv, Fame!ReportRight
  <2> QED BY <1>1, <2>1, <2>4 DEF ReportIInv
<1>2. ASSUME UNCHANGED <<order, report>>, main # "ended", main' # "ended" PROVE ReportIInv'
  BY <1>2 DEF ReportIInv, Fame!RankingRight, Fame!Above, Fame!SortKeys, Fame!ReportRight
<1>3. CASE UNCHANGED gitfamevars \/ Fame!Fatal
  BY <1>1, <1>3 DEF gitfamevars, Fame!Fatal, Fame!inputs, Fame!tracker
<1>4. CASE Fame!Add \/ Fame!Spawn
  BY <1>2, <1>4 DEF Fame!Add, Fame!Spawn, Fame!inputs
<1>5. CASE Fame!Printer
  <2>1. main' = "ended"
    BY <1>5 DEF Fame!Printer
  <2> QED BY <1>5, <2>1, Printed DEF ReportIInv
<1>6. ASSUME NEW f \in Fame!Files, Fame!FileStep(f) PROVE ReportIInv'
  <2>1. UNCHANGED <<order, main, report>> /\ gpc[f] # "ended"
    BY <1>6, FileMoves
  <2>2. main # "ended"
    BY <2>1 DEF CountersIInv
  <2> QED BY <1>2, <2>1, <2>2
<1> QED BY <1>3, <1>4, <1>5, <1>6 DEF Fame!Next, Fame!MainStep, Fame!Main

-------------------------------------------------------------------------------
FameParts == CursorIInv /\ CountersIInv /\ LocksIInv /\ MapsIInv /\ CleanIInv /\ ReportIInv

LEMMA FameStarts == Fame!Init => FameParts
BY CursorInit, CountersInit, LocksInit, MapsInit, CleanInit, ReportInit DEF FameParts

LEMMA FameSteps == FameParts /\ [Fame!Next]_gitfamevars => FameParts'
<1> SUFFICES ASSUME FameParts, [Fame!Next]_gitfamevars PROVE FameParts'
  OBVIOUS
<1>1. CursorIInv' /\ CountersIInv' /\ LocksIInv' /\ MapsIInv' /\ CleanIInv'
  BY CursorNext, CountersNext, LocksNext, MapsNext, CleanNext DEF FameParts
<1>2. ReportIInv'
  BY <1>1, ReportNext DEF FameParts
<1> QED BY <1>1, <1>2 DEF FameParts

LEMMA FameTells == FameParts => Fame!TypeOK /\ Fame!ReportRight /\ Fame!RankingRight /\ Fame!ProgressInRange
BY CountersInRange DEF FameParts, ReportIInv

-------------------------------------------------------------------------------
(* The tool that runs starts as its module says, and every step is one of    *)
(* that tool.                                                                *)
ToolParts ==
  /\ Is("grader") => RecordsIInv /\ CopiedSoFar /\ LoopIInv
  /\ Is("export") => ExportIInv
  /\ Is("gitfame") => FameParts

LEMMA OwnInit ==
  ASSUME Init
  PROVE  /\ Is("grader") => Judge!Init
         /\ Is("export") => Publish!EInit
         /\ Is("gitfame") => Fame!Init
BY DEF Init

LEMMA OwnStep ==
  ASSUME [Next]_vars
  PROVE  /\ UNCHANGED tool
         /\ Is("grader") => [Judge!Next]_gradervars
         /\ Is("export") => [Publish!ENext]_exportvars
         /\ Is("gitfame") => [Fame!Next]_gitfamevars
<1>1. CASE UNCHANGED vars
  BY <1>1 DEF vars
<1>2. CASE GraderNext
  BY <1>2 DEF GraderNext, Grading, Is
<1>3. CASE ExportNext
  BY <1>3 DEF ExportNext, Exporting, Is
<1>4. CASE GitfameNext
  BY <1>4 DEF GitfameNext, Reporting, Is
<1> QED BY <1>1, <1>2, <1>3, <1>4 DEF Next

LEMMA AlwaysToolParts == Spec => []ToolParts
<1>1. Init => ToolParts
  BY OwnInit, RecordsInit, CopiedInit, LoopInit, ExportInit, FameStarts DEF ToolParts
<1>2. ToolParts /\ [Next]_vars => ToolParts'
  <2> SUFFICES ASSUME ToolParts, [Next]_vars PROVE ToolParts'
    OBVIOUS
  <2>1. UNCHANGED tool
    BY OwnStep
  <2>2. ASSUME Is("grader") PROVE RecordsIInv' /\ CopiedSoFar' /\ LoopIInv'
    BY <2>2, OwnStep, RecordsNext, CopiedNext, LoopNext DEF ToolParts
  <2>3. ASSUME Is("export") PROVE ExportIInv'
    BY <2>3, OwnStep, ExportNextIInv DEF ToolParts
  <2>4. ASSUME Is("gitfame") PROVE FameParts'
    BY <2>4, OwnStep, FameSteps DEF ToolParts
  <2> QED BY <2>1, <2>2, <2>3, <2>4 DEF ToolParts, Is
<1> QED BY <1>1, <1>2, PTL DEF Spec

(* testtool: a task the server has recorded went through its tests,          *)
(* benchmarks, coverage and linter, at most three times (ReportsEarned).     *)
THEOREM ReportsAlwaysEarned == Spec => []ReportsEarned
<1>1. RecordsIInv => Judge!ReportsEarned
  BY DEF RecordsIInv, RecordsPassed
<1>2. ToolParts => ReportsEarned
  BY <1>1 DEF ToolParts, ReportsEarned
<1> QED BY <1>2, AlwaysToolParts, PTL

(* testtool: what is built and run is judged by the private tests, protected *)
(* files, test data and module files, whatever the student's are             *)
(* (JudgedByPrivate).                                                        *)
THEOREM AlwaysJudgedByPrivate == Spec => []JudgedByPrivate
<1>1. ToolParts => JudgedByPrivate
  BY CopiedJudges DEF ToolParts, JudgedByPrivate
<1> QED BY <1>1, AlwaysToolParts, PTL

(* testtool: its exit status tells whether every task of the commit passed   *)
(* and was recorded, whatever became of the tasks before (ExitTells).        *)
THEOREM ExitAlwaysTells == Spec => []ExitTells
<1>1. ToolParts => ExitTells
  BY DEF ToolParts, LoopIInv, ExitTells, Judge!ExitTells
<1> QED BY <1>1, AlwaysToolParts, PTL

(* export: wherever it dies, public and the remote have no private file; if  *)
(* it does not, they have all the others (ExportRight).                      *)
THEOREM ExportAlwaysRight == Spec => []ExportRight
<1>1. ToolParts => ExportRight
  BY ExportIs DEF ToolParts, ExportRight
<1> QED BY <1>1, AlwaysToolParts, PTL

(* gitfame: whatever git says of the files, however the goroutines are       *)
(* scheduled, the report has every author's lines, commits and files unless  *)
(* two goroutines have overlapped in the map, it is ranked as the flag says, *)
(* and neither counter goes below zero (GitfameRight).                       *)
THEOREM GitfameAlwaysRight == Spec => []GitfameRight
<1>1. ToolParts => GitfameRight
  BY FameTells DEF ToolParts, GitfameRight
<1> QED BY <1>1, AlwaysToolParts, PTL
===============================================================================
