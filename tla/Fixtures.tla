-------------------------------- MODULE Fixtures ------------------------------
(***************************************************************************)
(* What the course's tests start and build: redisfixture and pgfixture run *)
(* a server on a port that GetFreePort found free a moment before;         *)
(* testtool's WaitForPort waits for a server that the test started itself; *)
(* the BinCache builds the binary of a package for the tests that ask.     *)
(* A test is a goroutine; it ends with its cleanups, which kill its server.*)
(***************************************************************************)
EXTENDS Naturals, FiniteSets

CONSTANTS
  Tests,     \* the tests that run at once
  Mixes,     \* the fixtures they use: functions from the tests to Fixture
  Ports,
  MaxPolls   \* bound: polls before the timeout is sure to have passed

Fixture == {"redis", "pg", "port"}

VARIABLES
  fixture,   \* test -> which fixture it uses
  test,      \* test -> where it is
  port,      \* test -> its port, 0 before
  proc,      \* test -> its server: "none", "starting", "up" or "dead"
  owner,     \* port -> the test whose server listens there, 0 when none
  polls,     \* test -> polls so far
  late,      \* the tests whose timeout has passed
  cleanup,   \* the tests that will kill their server when they end
  binary,    \* the binary stored for the package, 0 when none
  builds,    \* how often it was built
  path       \* test -> the binary it was given, 0 before

fixvars == <<fixture, test, port, proc, owner, polls, late, cleanup, binary, builds, path>>
server == <<port, proc, owner, cleanup>>
waits == <<polls, late>>
cache == <<binary, builds, path>>

FixInit ==
  /\ fixture \in Mixes /\ test = [t \in Tests |-> "binary"]
  /\ port = [t \in Tests |-> 0] /\ proc = [t \in Tests |-> "none"]
  /\ owner = [p \in Ports |-> 0]
  /\ polls = [t \in Tests |-> 0] /\ late = {} /\ cleanup = {}
  /\ binary = 0 /\ builds = 0 /\ path = [t \in Tests |-> 0]

Goes(t, from, to) == test[t] = from /\ test' = [test EXCEPT ![t] = to]
Fails(t) == test' = [test EXCEPT ![t] = "failed"]

-------------------------------------------------------------------------------
(* BinCache.GetBinary: the look into the map, the build, the store         *)

GetBinary(t) ==
  /\ \/ binary # 0 /\ Goes(t, "binary", "freeport") /\ path' = [path EXCEPT ![t] = binary]
        /\ UNCHANGED builds
     \/ binary = 0 /\ Goes(t, "binary", "build")
        /\ builds' = builds + 1 /\ path' = [path EXCEPT ![t] = builds + 1]
  /\ UNCHANGED <<fixture, server, waits, binary>>

\* go build ends well, or log.Fatal ends the tests
StoreBinary(t) ==
  /\ Goes(t, "build", "freeport") /\ binary' = path[t]
  /\ UNCHANGED <<fixture, server, waits, builds, path>>

-------------------------------------------------------------------------------
(* The server                                                              *)

\* A listener gets a free port and is closed: the port is free again.
GetFreePort(t) ==
  /\ Goes(t, "freeport", "start")
  /\ \E p \in Ports : owner[p] = 0 /\ port' = [port EXCEPT ![t] = p]
  /\ UNCHANGED <<fixture, proc, owner, cleanup, waits, cache>>

\* cmd.Start, and for redis the cleanup at once
StartServer(t) ==
  /\ Goes(t, "start", "select")
  /\ proc' = [proc EXCEPT ![t] = "starting"]
  /\ cleanup' = IF fixture[t] = "pg" THEN cleanup ELSE cleanup \union {t}
  /\ UNCHANGED <<fixture, port, owner, waits, cache>>

\* The server binds its port, or ends because it cannot or for another reason.
Server(t) ==
  LET p == port[t]
      ends == /\ proc' = [proc EXCEPT ![t] = "dead"]
              /\ owner' = IF owner[p] = t THEN [owner EXCEPT ![p] = 0] ELSE owner
  IN  /\ \/ /\ proc[t] = "starting"
            /\ IF owner[p] = 0 THEN proc' = [proc EXCEPT ![t] = "up"] /\ owner' = [owner EXCEPT ![p] = t] ELSE ends
         \/ proc[t] \in {"starting", "up"} /\ ends
      /\ UNCHANGED <<fixture, test, port, cleanup, waits, cache>>

Late(t) ==
  /\ test[t] \in {"select", "ping"} /\ late' = late \union {t} /\ t \notin late
  /\ UNCHANGED <<fixture, test, server, polls, cache>>

Finished(t) == fixture[t] # "port" /\ proc[t] = "dead"

\* The select of the three: the end of the process (not for WaitForPort), the
\* timer, the poll.  redis polls in the default case, when neither is ready;
\* WaitForPort's ticker may be taken although the timer is ready; pg does not
\* poll, its timer is the success.
Select(t) ==
  /\ test[t] = "select"
  /\ \/ Finished(t) /\ Fails(t) /\ UNCHANGED <<polls, cleanup>>
     \/ /\ t \in late /\ UNCHANGED polls
        /\ IF fixture[t] = "pg" THEN Goes(t, "select", "returned") /\ cleanup' = cleanup \union {t}
           ELSE Fails(t) /\ UNCHANGED cleanup
     \/ /\ fixture[t] = "redis" => ~Finished(t) /\ t \notin late
        /\ fixture[t] # "pg" /\ polls[t] < MaxPolls
        /\ Goes(t, "select", "ping") /\ polls' = [polls EXCEPT ![t] = @ + 1]
        /\ UNCHANGED cleanup
  /\ UNCHANGED <<fixture, port, proc, owner, late, cache>>

\* Does anybody answer at the port?
Ping(t) ==
  /\ Goes(t, "ping", IF owner[port[t]] # 0 THEN "returned" ELSE "select")
  /\ UNCHANGED <<fixture, server, waits, cache>>

\* The test is over, passed or not: the cleanups run.
Cleanup(t) ==
  /\ test[t] \in {"returned", "failed"} /\ test' = [test EXCEPT ![t] = "ended"]
  /\ IF t \in cleanup
     THEN /\ proc' = [proc EXCEPT ![t] = "dead"]
          /\ owner' = [p \in Ports |-> IF owner[p] = t THEN 0 ELSE owner[p]]
     ELSE UNCHANGED <<proc, owner>>
  /\ UNCHANGED <<fixture, port, cleanup, waits, cache>>

BinCache(t) == GetBinary(t) \/ StoreBinary(t)
StartFixture(t) == GetFreePort(t) \/ StartServer(t) \/ Select(t) \/ Ping(t) \/ Cleanup(t)
FixNext == \E t \in Tests : BinCache(t) \/ StartFixture(t) \/ Server(t) \/ Late(t)

-------------------------------------------------------------------------------
(* No test is given the path of a binary that is still being built, and a    *)
(* test that has gone on has left its binary for the others.                 *)
BinaryComplete ==
  /\ \A t, u \in Tests : path[t] # 0 /\ test[u] = "build" /\ test[t] # "build" => path[t] # path[u]
  /\ binary = 0 => \A t \in Tests : test[t] \in {"binary", "build"}

(* No test leaves a server behind, whether it passed, failed or gave up; a   *)
(* port is not kept by GetFreePort, so two tests may get the same one, and   *)
(* redisfixture may then return with the other test's server.                *)
NoServerLeft == \A t \in Tests : test[t] = "ended" => proc[t] \in {"none", "dead"}

(* Every fixture returns or fails, whatever its server does.                 *)
FixEnds == \A t \in Tests : test[t] = "ended"
===============================================================================
