-------------------------------- MODULE Packages ------------------------------
(***************************************************************************)
(* testtool's view of a directory of the course: which of its files the go *)
(* command selects under build tags, and the sets commands/list.go makes   *)
(* of them.  A file is a record: its name, whether it is a Go source and a *)
(* test, the tags its build constraint needs and the tags that exclude it. *)
(* What a .proto file holds is whether it has the line //go:build solution.*)
(***************************************************************************)
EXTENDS Sequences, SequencesExt, FiniteSets

NameOf(files) == {f.name : f \in files}

\* packages.Load with Tests, and only the .go files of what it finds
getPackageFiles(files, tags) ==
  {f \in files : f.go /\ f.need \subseteq tags /\ f.no \intersect tags = {}}

listTestFiles(files) ==
  {f \in getPackageFiles(files, {"private"}) : f.test}

listProtectedFiles(files) ==
  getPackageFiles(files, {}) \ getPackageFiles(files, {"change"})

\* With what .private names (config).  A name is listed once for each of the
\* three reasons that hold for it.
listPrivateFiles(files, config) ==
  LET tagged == getPackageFiles(files, {"private", "solution"}) \ getPackageFiles(files, {})
      proto  == {f \in files : f.proto /\ f.need = {"solution"}}
  IN  {<<"tagged", n>> : n \in NameOf(tagged)} \union {<<"proto", n>> : n \in NameOf(proto)}
        \union {<<"config", n>> : n \in NameOf(files) \intersect config}

\* The packages named main: test binaries and programs, by their package path.
listTestsAndBinaries(files) ==
  LET built == getPackageFiles(files, {"private"})
  IN  [tests |-> {f.pkg : f \in {g \in built : g.test}},
       binaries |-> {f.pkg : f \in {g \in built : g.main /\ ~g.test}}]
===============================================================================
