----------------------------------- MODULE Du ---------------------------------
(***************************************************************************)
(* lectures/03-goroutines/du1 .. du4: disk usage.  Walkers send the size   *)
(* of every file on the unbuffered channel fileSizes, somebody closes it   *)
(* when all of them have ended, and main adds up what it receives.  du1    *)
(* and du2 walk in one goroutine; in du3 and du4 every directory has its   *)
(* own, counted by the WaitGroup n, and sema bounds the directories that   *)
(* are open; du4 can be cancelled.  A tick of du2, du3 and du4 only prints.*)
(***************************************************************************)
EXTENDS Naturals, FiniteSets

CONSTANTS
  Roots,     \* the directories on the command line
  Tree,      \* directory -> its entries, directories and files
  MaxOpen    \* the capacity of sema

Dirs  == DOMAIN Tree
Files == (UNION {Tree[d] : d \in Dirs}) \ Dirs

VARIABLES
  du,        \* which of the four programs runs
  walk,      \* directory -> where walkDir of it is
  rest,      \* directory -> the entries its loop has yet to visit
  n,         \* the WaitGroup
  closed,    \* whether fileSizes is closed
  done,      \* whether done is closed: somebody typed
  main,      \* "select", "drain", "printed" or "returned"
  counted,   \* the files main has added; nfiles is how many times it added
  nfiles,
  missed     \* history: a directory could not be read in full

duvars == <<du, walk, rest, n, closed, done, main, counted, nfiles, missed>>

Spawning == du \in {"du3", "du4"}

DuInit ==
  /\ du \in {"du1", "du2", "du3", "du4"}
  /\ walk = [d \in Dirs |-> IF d \in Roots THEN "start" ELSE "none"]
  /\ rest = [d \in Dirs |-> {}]
  /\ n = IF Spawning THEN Cardinality(Roots) ELSE 0
  /\ closed = FALSE /\ done = FALSE /\ main = "select"
  /\ counted = {} /\ nfiles = 0 /\ missed = FALSE

At(d, loc) == walk[d] = loc
Move(d, to) == walk' = [walk EXCEPT ![d] = to]
Open == {d \in Dirs : At(d, "open")}

\* In du1 and du2 walkDir is a call: one root at a time, and the caller waits
\* for the directory it went into.
Running(d) ==
  Spawning \/ /\ \A e \in Tree[d] \intersect Dirs : walk[e] \in {"none", "ended"}
              /\ d \in Roots /\ At(d, "start") =>
                   \A r \in Roots \ {d} : walk[r] \in {"start", "ended"}

\* the entries of d, or fewer after an error: os.ReadDir's are dropped, those
\* of du4's Readdir are not
Read(d, from) ==
  /\ At(d, from) /\ Running(d)
  /\ \E got \in (IF du = "du4" THEN SUBSET Tree[d] ELSE {{}, Tree[d]}) :
       /\ rest' = [rest EXCEPT ![d] = got]
       /\ missed' = (missed \/ got # Tree[d])
  /\ Move(d, "loop")
  /\ UNCHANGED <<du, n, closed, done, main, counted, nfiles>>

ReadDir1 == du \in {"du1", "du2"} /\ \E d \in Dirs : Read(d, "start")

\* dirents: sema <- struct{}{}.  du4 looks at done before it gets here.
Acquire ==
  /\ \E d \in Dirs :
       /\ IF du = "du4" THEN At(d, "sema") ELSE du = "du3" /\ At(d, "start")
       /\ Cardinality(Open) < MaxOpen
       /\ Move(d, "open")
  /\ UNCHANGED <<du, rest, n, closed, done, main, counted, nfiles, missed>>

\* the read, and <-sema
ReadDir == Spawning /\ \E d \in Dirs : Read(d, "open")

\* cancelled() in walkDir, and the second case of the select in dirents
Check(d) ==
  /\ du = "du4" /\ At(d, "start")
  /\ Move(d, IF done THEN "loop" ELSE "sema")
  /\ UNCHANGED <<du, rest, n, closed, done, main, counted, nfiles, missed>>

Abandon(d) ==
  /\ du = "du4" /\ At(d, "sema") /\ done
  /\ Move(d, "loop")
  /\ UNCHANGED <<du, rest, n, closed, done, main, counted, nfiles, missed>>

\* n.Add(1); go walkDir(subdir), or the call
EnterDir ==
  /\ \E d \in Dirs : \E e \in rest[d] \intersect Dirs :
       /\ At(d, "loop") /\ Running(d)
       /\ rest' = [rest EXCEPT ![d] = @ \ {e}]
       /\ Move(e, "start")
  /\ n' = IF Spawning THEN n + 1 ELSE n
  /\ UNCHANGED <<du, closed, done, main, counted, nfiles, missed>>

\* fileSizes <- size meets main's receive, in its select or while it drains
Size ==
  /\ main \in {"select", "drain"}
  /\ \E d \in Dirs : \E f \in rest[d] \intersect Files :
       /\ At(d, "loop") /\ Running(d)
       /\ rest' = [rest EXCEPT ![d] = @ \ {f}]
       /\ counted' = IF main = "select" THEN counted \union {f} ELSE counted
  /\ nfiles' = IF main = "select" THEN nfiles + 1 ELSE nfiles
  /\ UNCHANGED <<du, walk, n, closed, done, main, missed>>

\* the end of walkDir, with the deferred n.Done()
Leave ==
  /\ \E d \in Dirs : At(d, "loop") /\ rest[d] = {} /\ Running(d) /\ Move(d, "ended")
  /\ n' = IF Spawning THEN n - 1 ELSE n
  /\ UNCHANGED <<du, rest, closed, done, main, counted, nfiles, missed>>

\* close(fileSizes): after the last root in du1 and du2, after n.Wait() else
Close ==
  /\ ~closed /\ closed' = TRUE
  /\ IF Spawning THEN n = 0 ELSE \A r \in Roots : At(r, "ended")
  /\ UNCHANGED <<du, walk, rest, n, done, main, counted, nfiles, missed>>

\* fileSizes is closed: the final totals, or the end of the drain
Closed ==
  /\ closed
  /\ \/ main = "select" /\ main' = "printed"
     \/ main = "drain" /\ main' = "returned"
  /\ UNCHANGED <<du, walk, rest, n, closed, done, counted, nfiles, missed>>

\* du4: a byte on stdin closes done; main's select sees it
Cancel == du = "du4" /\ ~done /\ done' = TRUE
          /\ UNCHANGED <<du, walk, rest, n, closed, main, counted, nfiles, missed>>
Drain == du = "du4" /\ done /\ main = "select" /\ main' = "drain"
         /\ UNCHANGED <<du, walk, rest, n, closed, done, counted, nfiles, missed>>

DuNext ==
  \/ ReadDir1 \/ Acquire \/ ReadDir \/ \E d \in Dirs : Check(d) \/ Abandon(d)
  \/ EnterDir \/ Size \/ Leave \/ Close \/ Closed \/ Cancel \/ Drain

-------------------------------------------------------------------------------
(* Nobody sends on fileSizes after it is closed, which would panic: when it  *)
(* closes every walker has ended, although walkers start walkers.            *)
DuNoSendAfterClose == closed => \A d \in Dirs : walk[d] \in {"none", "ended"}

(* The limit on open directories holds, and the final totals count every     *)
(* file once, unless a directory was unreadable or du4 was cancelled (its    *)
(* select may take the closed fileSizes before it sees done).                *)
DuTotalsRight ==
  /\ Spawning => Cardinality(Open) <= MaxOpen
  /\ main = "printed" => nfiles = Cardinality(counted)
  /\ main = "printed" /\ ~missed /\ ~done => counted = Files

(* main ends, and no walker stays behind it, cancelled or not.               *)
DuEnds == main \in {"printed", "returned"} /\ \A d \in Dirs : walk[d] \in {"none", "ended"}
===============================================================================
