-------------------------------- MODULE RWLock --------------------------------
(***************************************************************************)
(* What a reader/writer lock promises, with no mention of how it is built: *)
(* the set of goroutines that hold the read lock and the set of those that *)
(* hold the write lock, where a writer holds it alone.  RWMutex.tla        *)
(* implements it.  A holder gives up what it holds and takes nothing else  *)
(* in between, as every caller in the package's tests does.                *)
(***************************************************************************)
CONSTANT Goroutines

VARIABLES
  readers,   \* goroutines that hold the read lock
  writers    \* goroutines that hold the write lock

vars == <<readers, writers>>

Init == readers = {} /\ writers = {}

Read(g) ==
  /\ g \notin readers \union writers
  /\ writers = {}
  /\ readers' = readers \union {g}
  /\ UNCHANGED writers

ReadDone(g) ==
  /\ g \in readers
  /\ readers' = readers \ {g}
  /\ UNCHANGED writers

Write(g) ==
  /\ readers = {} /\ writers = {}
  /\ writers' = {g}
  /\ UNCHANGED readers

WriteDone(g) ==
  /\ g \in writers
  /\ writers' = writers \ {g}
  /\ UNCHANGED readers

Next == \E g \in Goroutines : Read(g) \/ ReadDone(g) \/ Write(g) \/ WriteDone(g)

Spec == Init /\ [][Next]_vars
===============================================================================
