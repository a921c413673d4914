--------------------------------- MODULE Export -------------------------------
(***************************************************************************)
(* testtool export: publishes the working tree without its private files.  *)
(* It takes a temporary branch to the commit of the branch public, deletes *)
(* the private files from the working tree, goes over to public with what  *)
(* is left, commits and pushes it, and returns to master.  A tree is a set *)
(* of files.  Every git command may fail, which is fatal: nothing is       *)
(* undone.                                                                 *)
(***************************************************************************)
EXTENDS Packages, Naturals

CONSTANTS
  Trees,     \* the trees master may have
  Configs,   \* the names .private may list
  Published  \* the files an earlier export left on public

VARIABLES epc, head, refs, work, remote, todel, config, push, back
evars == <<epc, head, refs, work, remote, todel, config, push, back>>

Temp == "temp"

\* The working tree is master's; push and back are the two flags.
EInit ==
  /\ epc = "branch" /\ head = "master"
  /\ \E t \in Trees : refs = [b \in {"master", "public"} |-> IF b = "master" THEN t ELSE Published]
  /\ work = refs["master"] /\ remote = Published
  /\ todel = {} /\ config \in Configs
  /\ push \in BOOLEAN /\ back \in BOOLEAN

flags == <<config, push, back>>
Secret ==
  {f.name : f \in {g \in refs["master"] : g.need \intersect {"private", "solution"} # {}}} \union config

\* log.Fatal in git, in os.Remove's caller and in listPrivateFiles
Dies == epc' = "dead" /\ UNCHANGED <<head, refs, work, remote, todel, flags>>

\* one call of git: it does what it is asked to, or fails
Git(from, to) == epc = from /\ epc' = to

\* git checkout -b temp
TempBranch ==
  /\ Git("branch", "reset")
  /\ head' = Temp
  /\ refs' = [b \in DOMAIN refs \union {Temp} |-> IF b = Temp THEN refs[head] ELSE refs[b]]
  /\ UNCHANGED <<work, remote, todel, flags>>

\* git reset public: the working tree stays
ResetToPublic ==
  /\ Git("reset", "list")
  /\ refs' = [refs EXCEPT ![head] = refs["public"]]
  /\ UNCHANGED <<head, work, remote, todel, flags>>

ListPrivate_NoConfig ==             \* mutant: .private is not read
  Git("list", "remove") /\ todel' = listPrivateFiles(work, {}) /\ UNCHANGED <<head, refs, work, remote, flags>>

ListPrivate == Git("list", "remove") /\ todel' = listPrivateFiles(work, config)
               /\ UNCHANGED <<head, refs, work, remote, flags>>

\* os.Remove of each; of a file that is listed twice the second one fails.
\* The files are sorted, which makes no difference.
RemovePrivate ==
  /\ epc = "remove"
  /\ \/ todel = {} /\ epc' = "checkout" /\ UNCHANGED <<work, todel>>
     \/ \E f \in todel :
          /\ f[2] \in NameOf(work)
          /\ work' = {g \in work : g.name # f[2]}
          /\ todel' = todel \ {f} /\ UNCHANGED epc
  /\ UNCHANGED <<head, refs, remote, flags>>

\* git checkout public, whose commit is the one temp is at: the tree stays
ToPublic ==
  /\ Git("checkout", "delete") /\ head' = "public"
  /\ UNCHANGED <<refs, work, remote, todel, flags>>

\* git branch -D temp
DropTemp ==
  /\ Git("delete", "add")
  /\ refs' = [b \in DOMAIN refs \ {Temp} |-> refs[b]]
  /\ UNCHANGED <<head, work, remote, todel, flags>>

\* git add -A: the index is the working tree, until the commit
AddAll == Git("add", "commit") /\ UNCHANGED <<head, refs, work, remote, todel, flags>>

\* git commit --allow-empty
Commit ==
  /\ Git("commit", "push")
  /\ refs' = [refs EXCEPT ![head] = work]
  /\ UNCHANGED <<head, work, remote, todel, flags>>

Push ==
  /\ Git("push", "back")
  /\ remote' = IF push THEN refs["public"] ELSE remote
  /\ UNCHANGED <<head, refs, work, todel, flags>>

Back ==
  /\ Git("back", "done")
  /\ IF back THEN head' = "master" /\ work' = refs["master"] ELSE UNCHANGED <<head, work>>
  /\ UNCHANGED <<refs, remote, todel, flags>>

exportCode ==
  \/ TempBranch \/ ResetToPublic \/ ListPrivate \/ RemovePrivate
  \/ ToPublic \/ DropTemp \/ AddAll \/ Commit \/ Push \/ Back
ENext == exportCode \/ (epc \notin {"done", "dead"} /\ Dies)

-------------------------------------------------------------------------------
(* Neither public nor the remote ever has a file that master keeps private,  *)
(* wherever the export died, and master is never touched.                    *)
NothingLeaks ==
  /\ Secret \intersect NameOf((refs["public"] \union remote) \ Published) = {}
  /\ refs["master"] \in Trees

(* An export that is not killed has published all that is not private, and   *)
(* restored the working tree it began with.                                  *)
ExportComplete ==
  epc = "done" =>
    /\ refs["public"] = {f \in refs["master"] : f.name \notin Secret}
    /\ push => remote = refs["public"]
    /\ back => work = refs["master"] /\ head = "master"
    /\ Temp \notin DOMAIN refs
===============================================================================
