-------------------------------- MODULE Gitfame -------------------------------
(***************************************************************************)
(* gitfame: main starts one goroutine per file of the revision; each runs   *)
(* git blame, adds what it reads to a map from person to statistics that    *)
(* all of them share, reports its progress, and main prints the map when    *)
(* all have ended.  grep updates the map under muGrep, the branch of Blame  *)
(* for an empty file under muBlame, which are two mutexes.  So both may be  *)
(* in the map at once: then updates are lost, or the Go runtime sees it and *)
(* kills the program (Fatal).                                              *)
(*                                                                         *)
(* git is external.  Its incremental output lists the hunks of a commit one *)
(* after the other; files are numbered in the order of git ls-tree.        *)
(***************************************************************************)
EXTENDS Integers, Sequences, FiniteSets, SequencesExt

CONSTANTS
  NumFiles,   \* the files that pass the filters
  Commits,    \* the commits
  Author,     \* commit -> its author, or committer with -use-committer
  Outputs,    \* what git may say of a file: [kind, hunks], see Init
  Blank,      \* 1 if the empty line at the end of ls-tree's output is in files
  Absent      \* no entry of the map

Files == 1 .. NumFiles
People == {Author[c] : c \in Commits}
Nobody == 0

VARIABLES
  blame,     \* file -> the output of git
  order,     \* the value of -order-by
  main,      \* where main is: "add", "spawn", "wait", "ended"
  started,   \* the goroutines that were started
  count,     \* TrackedWaitGroup.count
  wg,        \* the counter of its sync.WaitGroup
  pc,        \* file -> where its goroutine is
  at,        \* file -> the hunk grep is at
  entry,     \* file -> the entry it has looked up
  person,    \* the map: person -> [obj, lines], obj naming its two inner maps
  inner,     \* obj -> the keys of its Commits and of its Files
  muGrep, muBlame,   \* the file whose goroutine holds the mutex, or Nobody
  raced,     \* history: a goroutine has been in the map under each mutex at once
  fatal,     \* the Go runtime has stopped the program
  report     \* what was printed

inputs == <<blame, order>>
tracker == <<main, started, count, wg, report>>
maps == <<person, inner>>
vars == <<inputs, tracker, pc, at, entry, maps, muGrep, muBlame, raced, fatal>>

Init ==
  /\ blame \in [Files -> Outputs]   \* "blame": its hunks; "empty": no hunk, but the commit
                                    \* of git log -1, with no line; "failed": none;
                                    \* "nolog": of an empty file, and log says nothing
  /\ order \in {"lines", "commits", "files"}
  /\ main = "add" /\ started = 0 /\ count = 0 /\ wg = 0
  /\ pc = [f \in Files |-> "none"]
  /\ at = [f \in Files |-> 1]
  /\ entry = [f \in Files |-> Absent]
  /\ person = [p \in People |-> Absent]
  /\ inner = [o \in Files \X People |-> [commits |-> {}, files |-> {}]]
  /\ muGrep = Nobody /\ muBlame = Nobody
  /\ raced = FALSE /\ fatal = FALSE
  /\ report = <<>>

LenFiles == NumFiles + Blank

-------------------------------------------------------------------------------
(* main                                                                    *)

\* tracker.Add(1): count first, then the WaitGroup, and the go statement
Add ==
  /\ main = "add"
  /\ IF started < NumFiles
     THEN main' = "spawn" /\ count' = count + 1
     ELSE main' = "wait" /\ UNCHANGED count
  /\ UNCHANGED <<inputs, started, wg, report, pc, at, entry, maps, muGrep, muBlame, raced>>

Spawn ==
  /\ main = "spawn" /\ main' = "add"
  /\ started' = started + 1
  /\ wg' = wg + 1
  /\ pc' = [pc EXCEPT ![started + 1] = "git"]
  /\ UNCHANGED <<inputs, count, report, at, entry, maps, muGrep, muBlame, raced>>

\* SimpleStatsList.Less: the flag's field first, larger is earlier
Less(a, b) ==
  LET Then(k, rest) == IF a[k] = b[k] THEN rest ELSE a[k] > b[k]
      byName == a.name < b.name
  IN  \/ order = "lines"   /\ Then("lines", Then("commits", Then("files", byName)))
      \/ order = "commits" /\ Then("commits", Then("lines", Then("files", byName)))
      \/ order = "files"   /\ Then("files", Then("lines", Then("commits", byName)))

Row(p) == [name |-> p, lines |-> person[p].lines,
           commits |-> Cardinality(inner[person[p].obj].commits),
           files |-> Cardinality(inner[person[p].obj].files)]

\* tracker.Wait, the rows of the map, sort.Sort (which is not stable)
Printer ==
  /\ main = "wait" /\ wg = 0 /\ main' = "ended"
  /\ \E s \in SetToSeqs({Row(p) : p \in {q \in People : person[q] # Absent}}) :
       /\ \A i, j \in DOMAIN s : i < j => ~Less(s[j], s[i])
       /\ report' = s
  /\ UNCHANGED <<inputs, started, count, wg, pc, at, entry, maps, muGrep, muBlame, raced>>

-------------------------------------------------------------------------------
(* The goroutine of a file                                                 *)

Go(f, from, to) == pc[f] = from /\ pc' = [pc EXCEPT ![f] = to]

Empty(f) == blame[f].kind = "empty"
Hunk(f) == blame[f].hunks[at[f]]
CommitOf(f) == Hunk(f).commit
PersonOf(f) == Author[CommitOf(f)]

Git_ReturnsEarly(f) ==              \* mutant: on an error, return before the deferred Done
  /\ blame[f].kind # "nolog"
  /\ Go(f, "git", IF blame[f].kind = "failed" THEN "ended" ELSE "mark")
  /\ UNCHANGED <<inputs, tracker, at, entry, maps, muGrep, muBlame, raced>>

\* git blame, and git log for an empty file
Git(f) ==
  /\ blame[f].kind # "nolog"
  /\ Go(f, "git", IF blame[f].kind = "failed" THEN "progress" ELSE "mark")
  /\ UNCHANGED <<inputs, tracker, at, entry, maps, muGrep, muBlame, raced>>

Lock_Nothing(f) ==                  \* mutant: muGrep is not taken
  /\ IF Empty(f)
     THEN muBlame = Nobody /\ muBlame' = f /\ raced' = (raced \/ muGrep # Nobody) /\ UNCHANGED muGrep
     ELSE raced' = (raced \/ muBlame # Nobody) /\ UNCHANGED <<muGrep, muBlame>>

\* muBlame.Lock() or muGrep.Lock()
Lock(f) ==
  /\ IF Empty(f)
     THEN muBlame = Nobody /\ muBlame' = f /\ raced' = (raced \/ muGrep # Nobody) /\ UNCHANGED muGrep
     ELSE muGrep = Nobody /\ muGrep' = f /\ raced' = (raced \/ muBlame # Nobody) /\ UNCHANGED muBlame

Unlock(f) ==
  IF Empty(f) THEN muBlame' = Nobody /\ UNCHANGED muGrep
              ELSE muGrep' = Nobody /\ UNCHANGED muBlame

\* The hunk is of the commit of the one before: only its lines are new.
SameCommit(f) == at[f] > 1 /\ blame[f].hunks[at[f] - 1].commit = CommitOf(f)

SkipMark(f) ==
  /\ SameCommit(f)
  /\ Go(f, "mark", "count")
  /\ UNCHANGED <<inputs, tracker, at, entry, maps, muGrep, muBlame, raced>>

\* Lock, and entry, ok := (*person)[currentPerson]
LockAndLook(f, from, to) ==
  /\ Go(f, from, to)
  /\ Lock(f)
  /\ entry' = [entry EXCEPT ![f] = person[PersonOf(f)]]
  /\ UNCHANGED <<inputs, tracker, at, maps>>

Mark(f) == ~SameCommit(f) /\ LockAndLook(f, "mark", "store")
Count(f) == LockAndLook(f, "count", "addlines")

AfterMark(f) == IF Empty(f) THEN "progress" ELSE "count"

\* The entry is there: its inner maps get the commit and the file.
StoreMark(f) ==
  /\ entry[f] # Absent
  /\ Go(f, "store", AfterMark(f))
  /\ inner' = [inner EXCEPT ![entry[f].obj].commits = @ \union {CommitOf(f)},
                            ![entry[f].obj].files = @ \union {f}]
  /\ person' = [person EXCEPT ![PersonOf(f)] = entry[f]]
  /\ entry' = [entry EXCEPT ![f] = Absent]
  /\ Unlock(f)
  /\ UNCHANGED <<inputs, tracker, at, raced>>

\* It is not: a new one, whose inner maps are filled through the map.
StoreNew(f) ==
  /\ entry[f] = Absent
  /\ Go(f, "store", "fillcommit")
  /\ person' = [person EXCEPT ![PersonOf(f)] = [obj |-> <<f, PersonOf(f)>>, lines |-> 0]]
  /\ UNCHANGED <<inputs, tracker, at, entry, inner, muGrep, muBlame, raced>>

FillCommit(f) ==
  /\ Go(f, "fillcommit", "fillfile")
  /\ inner' = [inner EXCEPT ![person[PersonOf(f)].obj].commits = @ \union {CommitOf(f)}]
  /\ UNCHANGED <<inputs, tracker, at, entry, person, muGrep, muBlame, raced>>

FillFile(f) ==
  /\ Go(f, "fillfile", AfterMark(f))
  /\ inner' = [inner EXCEPT ![person[PersonOf(f)].obj].files = @ \union {f}]
  /\ Unlock(f)
  /\ UNCHANGED <<inputs, tracker, at, entry, person, raced>>

\* entry.Lines += currentCount; the entry is there since the commit was marked
AddLines(f) ==
  /\ Go(f, "addlines", IF at[f] < Len(blame[f].hunks) THEN "mark" ELSE "progress")
  /\ person' = [person EXCEPT ![PersonOf(f)] = [entry[f] EXCEPT !.lines = @ + Hunk(f).lines]]
  /\ entry' = [entry EXCEPT ![f] = Absent]
  /\ at' = [at EXCEPT ![f] = IF @ < Len(blame[f].hunks) THEN @ + 1 ELSE 1]
  /\ Unlock(f)
  /\ UNCHANGED <<inputs, tracker, inner, raced>>

\* The progress bar, from tracker.Count()
Progress(f) ==
  /\ Go(f, "progress", "done")
  /\ UNCHANGED <<inputs, tracker, at, entry, maps, muGrep, muBlame, raced>>

\* The deferred tracker.Done(): count first, then the WaitGroup
Done(f) ==
  /\ Go(f, "done", "wgdone")
  /\ count' = count - 1
  /\ UNCHANGED <<inputs, main, started, wg, report, at, entry, maps, muGrep, muBlame, raced>>

WgDone(f) ==
  /\ Go(f, "wgdone", "ended")
  /\ wg' = wg - 1
  /\ UNCHANGED <<inputs, main, started, count, report, at, entry, maps, muGrep, muBlame, raced>>

Blame(f) ==
  \/ Git(f) \/ SkipMark(f) \/ Mark(f) \/ StoreMark(f) \/ StoreNew(f) \/ FillCommit(f) \/ FillFile(f)
  \/ Count(f) \/ AddLines(f) \/ Progress(f) \/ Done(f) \/ WgDone(f)

Main == Add \/ Spawn \/ Printer

\* The author is looked for in the second line of what git log does not say.
IndexOutOfRange(f) == pc[f] = "git" /\ blame[f].kind = "nolog"

\* fatal error: concurrent map writes, or a goroutine panics
Fatal ==
  /\ (muGrep # Nobody /\ muBlame # Nobody) \/ \E f \in Files : IndexOutOfRange(f)
  /\ fatal' = TRUE
  /\ UNCHANGED <<inputs, tracker, pc, at, entry, maps, muGrep, muBlame, raced>>

MainStep    == ~fatal /\ Main /\ UNCHANGED fatal
FileStep(f) == ~fatal /\ Blame(f) /\ UNCHANGED fatal
Panic(f)    == ~fatal /\ IndexOutOfRange(f) /\ Fatal
Next == MainStep \/ (\E f \in Files : FileStep(f)) \/ (~fatal /\ Fatal)

-------------------------------------------------------------------------------
(* What README asks for: of every author of a commit of the listed files    *)
(* (an empty file has its last commit), the lines, commits and files.       *)
AllHunks   == UNION {{f} \X DOMAIN blame[f].hunks : f \in Files}
Said(h)    == blame[h[1]].hunks[h[2]]
HunksOf(p) == {h \in AllHunks : Author[Said(h).commit] = p}

FilesOf(p)   == {h[1] : h \in HunksOf(p)}
CommitsOf(p) == {Said(h).commit : h \in HunksOf(p)}
LinesOf(p)   == UNION {{h} \X (1 .. Said(h).lines) : h \in HunksOf(p)}

(* Types; the two counters of the tracker stay within the number of files    *)
(* (a WaitGroup below zero panics).                                          *)
TypeOK ==
  /\ blame \in [Files -> Outputs]
  /\ main \in {"add", "spawn", "wait", "ended"} /\ started \in 0 .. NumFiles
  /\ count \in 0 .. NumFiles /\ wg \in 0 .. NumFiles
  /\ pc \in [Files -> {"none", "git", "mark", "store", "fillcommit", "fillfile", "count",
                       "addlines", "progress", "done", "wgdone", "ended"}]
  /\ muGrep \in Files \union {Nobody} /\ muBlame \in Files \union {Nobody}

(* README, "Расчёт": what is printed are the lines, commits and files of     *)
(* every author, unless goroutines were in the map under both mutexes.       *)
ReportRight ==
  main = "ended" /\ ~raced =>
    LET authors == {p \in People : FilesOf(p) # {}}
    IN  /\ Len(report) = Cardinality(authors)
        /\ \A p \in authors : \E i \in DOMAIN report :
             report[i] = [name |-> p, lines |-> Cardinality(LinesOf(p)),
                          commits |-> Cardinality(CommitsOf(p)), files |-> Cardinality(FilesOf(p))]

(* README, -order-by: by falling (lines, commits, files), the flag's field   *)
(* moved to the front, and by rising name where all are equal.               *)
Others == [lines |-> <<"commits", "files">>, commits |-> <<"lines", "files">>, files |-> <<"lines", "commits">>]
SortKeys == <<order>> \o Others[order]
Above(a, b) ==
  \/ \E i \in 1 .. 3 : /\ a[SortKeys[i]] > b[SortKeys[i]]
                       /\ \A j \in 1 .. i - 1 : a[SortKeys[j]] = b[SortKeys[j]]
  \/ a.name < b.name /\ \A i \in 1 .. 3 : a[SortKeys[i]] = b[SortKeys[i]]
RankingRight == \A i, j \in DOMAIN report : i < j => Above(report[i], report[j])

(* The bar is drawn with strings.Repeat, which panics on a negative count:   *)
(* whatever the other goroutines and main do, the files reported as          *)
(* processed are between none and all.                                       *)
ProgressInRange ==
  \A f \in Files : pc[f] = "progress" => LenFiles - count + 1 \in 0 .. LenFiles
===============================================================================
