# TLA+ specifications of itmo_ct

The repository is a collection of independent programs written for courses: the tasks of a Go
course with its lectures and its tools (`src/go-solutions-shad`), and solutions in Java, C++/C
and JavaScript. What is worth a specification are first of all the concurrent and the failing
ones: locks and barriers made of channels, a `UpdateValue` that retries against an unreliable
service, a bank over Postgres, a grader that copies, builds, runs and reports, servers whose
handlers share a map; then data structures with an invariant or a promise, and functions at the
limits of their integers.

No task calls another at run time, so there is no system to compose out of them. Where a
component is a *protocol* or a *data structure*, a second, abstract module says what it promises
and the detailed one is shown to implement it. `Tools`, `Programs` and `Data` are sums and not
compositions: a variable picks the component a behaviour is about, and the variables of the
others are `Off`. The one real composition is `testtool`: its view of a course directory
(`Packages`) is what its grader and its export work on.

All paths below are relative to `src/go-solutions-shad/` unless they start with `src/`. A
`README` without a path is the one of the task.

- [1. Inventory](#1-inventory)
- [2. Modules and the code](#2-modules-and-the-code)
- [3. Runs, bounds and what they show](#3-runs-bounds-and-what-they-show)
- [4. Fairness](#4-fairness)
- [5. What is proved](#5-what-is-proved)
- [6. Where the code departs from its documentation](#6-where-the-code-departs-from-its-documentation)
- [7. What is not modelled](#7-what-is-not-modelled)
- [8. Plan](#8-plan)

## 1. Inventory

### Concurrent components

| component | state | operations | hard behaviour | what makes it correct |
|---|---|---|---|---|
| `rwmutex` | two channels of capacity 1 and a counter | `Lock`, `Unlock`, `RLock`, `RUnlock` | counter and write token change in separate steps; a reader blocks while it holds the gate of all readers | writers exclude everybody; readers do not exclude readers; a release never blocks |
| `once` | one channel: token, empty, closed | `New`, `Do(f)` | races for the token; an `f` that panics or calls `Do` again | one call of `f`; nobody returns before it ends |
| `waitgroup` | counter, a mutex made of a channel, the channel of the current generation | `Add`, `Done`, `Wait` | `Wait` copies the channel, gives the mutex back and blocks later; `Add` panics holding the mutex | a `Wait` returns only if the counter was zero during it; it wakes at every zero |
| `keylock` | map of the locked keys with a channel each | `LockKeys(keys, cancel)`, the returned `unlock` | all-or-nothing locking; channels collected under the mutex are waited for after it; cancellation in a `select` | holders are disjoint; no circle of waiting; no lost wakeup; cancellation is heeded |
| `dupcall` | the current group: a `done` channel and a result | `Do(ctx, cb)` | callers join a running callback, leave by cancellation; the group is finished in two steps | one callback at a time; results reach every waiter; a cancelled caller returns |
| `tparallel` | a tree of tests, per test an `end` and a `barrier` channel | `Run`, `T.Run`, `T.Parallel` | unbuffered channels whose two ends are code of different tests | sequential tests run in order, parallel ones after their parent's function; `Run` returns |
| `retryupdate` | variables of one call; the store is a service | `UpdateValue` | replies are lost after the write took effect; the key vanishes; other clients write | an update that reports success happened, once, on top of the newest value |
| `ledger` | rows of one table in Postgres | `CreateAccount`, `GetBalance`, `Deposit`, `Withdraw`, `Transfer` | row locks of two rows; errors halfway; an account that appears in the middle; width of `BIGINT` | money is neither made nor lost; no overdraft; no deadlock |
| `gitfame` | a map of persons, two mutexes, a counter, a wait group | `GitFame`, one goroutine per file, sorting and printing | entries are read under one lock and written under another; `git` fails for a file | the report counts every line, commit and file; it is printed |
| `tools/testtool` (grade, check-task) | the tasks of the last commit, a temporary repository, coverage profiles | find tasks, copy, build, run, compare, lint, report | every external command can fail, in three ways; a report whose answer is lost; files of the same name from two repositories | only earned reports; judged by the private files; the exit status tells |
| `tools/testtool` (export) | branches and a working tree | eight git commands and the deletion of private files | it may die at every command | nothing private is published; the tree is restored |
| `tools/testtool` and the fixtures of tests | ports, servers, a cache of binaries | start, poll, time out, clean up | a port that is free a moment before it is used; a timer against a poll | no server is left; no half-built binary is handed out |
| `middleware` | a map of counters, a log | `requestlog.Log`, `auth.CheckAuth`, `httpgauge.Wrap`, `ServeHTTP` | one handler ranges over the map without its lock; handlers panic | counts are exact; refusals and panics are logged |
| `urlshortener` | two maps under a mutex | `/shorten`, `/go/` | a random key is drawn before the mutex is taken and may be in use | a short link keeps its meaning |
| `wscat` | three goroutines, a context and a signal | read, write, shut down | a timeout that starts with the program | it ends, and for a reason |
| `dao` and the SQL examples | a connection pool | one statement per method; transactions and rows in the examples | a pool that is used up; errors between taking and giving back; a lost answer | connections come back; ids are true |
| `lectures/.../du1` to `du4` | a wait group, a semaphore, two channels | walk, add up, cancel | walkers start walkers; who closes the channel | totals; no send on a closed channel; nobody is left |
| `lectures/.../memo1` to `memo4`, `synconce` | a map of results | `Get` | duplicate suppression between the look-up and the store | one call per key |
| `lectures/.../chat` | the broadcaster's map of clients | arrive, talk, leave | a channel that is closed while it may still be sent on | no send after close; everybody leaves |
| `fetchall`, `genericsum`, pipelines, netcat | unbuffered channels | fetch, merge, copy | who closes, and when | order; nothing lost; all end |

How they interact with the rest of the world: `ledger`, `dao` and the SQL examples talk to
Postgres through SQL statements, `retryupdate` to `kvapi.Client` (an interface: the repository
has no implementation, only its comments and the mocks of the tests), `gitfame` to the `git`
executable, `testtool` to `git`, `go`, the linter, `rsync` and the server of the course, the
servers to clients that may not read, `dupcall` and `once` to callbacks of their callers, and
all of them to the Go runtime: channels, `select`, `sync.Mutex`, the scheduler.

### Sequential components

| component | state | hard behaviour | what makes it correct |
|---|---|---|---|
| `lrucache` | a list, a map, a pool of pairs | a callback of `Range` calls the cache it walks; evicted pairs are filled anew | the least recently used key goes; no pair is in use twice |
| Java `queue` | a circular array | it doubles while it is wrapped around; `distinct` turns it round once | first in, first out, as the comments in `ArrayQueue.java` say (those of the interface say otherwise) |
| `otp` | positions in a stream | short reads and writes on both sides | the two ends stay aligned |
| Java `game` | two lists of players, one of which becomes the other | a list is shortened while it is walked along | nobody who is out plays; the end comes with one player |
| `hotelbusiness`, `hogwarts` | none | equal days; cycles, the order of a map | a step function; an order, or a panic for a cycle |
| `olympics` | records loaded once | sums, ties, the order of a map | one answer whatever the order |
| `tabletest` | none | overflow at four places of a parser | what its comment says, or an error |
| Java `search`, checked arithmetic | none | the ends of the list; the ends of `int`; an `evaluate` that is inherited and checks nothing | the first place; where it is checked, an exception exactly where the result is no `int` |
| C++ `MineSweeper` | field, clicks, saved game | | not modelled (section 7) |

Every part, modelled or not, is an entry of `components` in `PROJECT.json`; every hazard, with
its line and the properties aimed at it, of `hazards`.

## 2. Modules and the code

| module | models | proofs in | run |
|---|---|---|---|
| `RWLock` | the reader/writer lock a user expects | | |
| `RWMutex` | `rwmutex/rwmutex.go` | `RWMutexProofs` | `rwmutex` |
| `Once` | `once/once.go` | `ProgramsProofs` | `programs` |
| `WaitGroup` | `waitgroup/waitgroup.go` | `WaitGroupProofs` | `waitgroup` |
| `KeyLock` | `keylock/keylock.go` | `KeyLockProofs` | `keylock` |
| `DupCall` | `dupcall/dupcall.go` | `ProgramsProofs` | `programs` |
| `TParallel` | `tparallel/tparallel.go` | `ProgramsProofs` | `programs`, `tparallel_early` |
| `RetryUpdate` | `retryupdate/update.go` and the service | `RetryUpdateProofs` | `retryupdate`, `retryupdate_versions` |
| `Bank` | the bank whose operations are single steps | | |
| `Ledger` | `ledger/ledger.go` and Postgres | `LedgerProofs` | `ledger`, `ledger_deadlock` |
| `Packages` | `tools/testtool/commands/list.go` | `ToolsProofs` | `tools` |
| `Grader` | `grade.go`, `test_submission.go`, and what they call in `tools/testtool/commands` | `ToolsProofs` | `tools` |
| `Export` | `tools/testtool/commands/export.go` | `ToolsProofs` | `tools` |
| `Gitfame` | `gitfame/internal/stats/greper.go`, `types.go`, `cmd/gitfame/main.go` and `git` | `ToolsProofs` | `tools` |
| `Du`, `Memo`, `Chat` | `lectures/03-goroutines/du1` to `du4`, `lectures/05-concurrency/memo*` and `synconce`, `lectures/03-goroutines/chat` | `ProgramsProofs` | `programs` |
| `Pipelines` | the pipelines and `netcat` of the lectures, `fetchall`, `genericsum.MergeChans` | `ProgramsProofs` | `programs` |
| `Wscat`, `Middleware`, `Shortener` | `wscat`, `middleware/{requestlog,auth,httpgauge}`, `urlshortener` | `ProgramsProofs` | `programs` |
| `SqlPool` | `dao`, `lectures/07-sql` over `database/sql` | `ProgramsProofs` | `programs` |
| `Fixtures` | `redisfixture`, `pgfixture`, `GetFreePort`, `WaitForPort` and `BinCache` of `tools/testtool` | `ProgramsProofs` | `programs` |
| `LRU`, `LRUCache` | the cache a user expects; `lrucache/lru.go` | `DataProofs` | `data` |
| `Queue`, `ArrayQueue` | the queue that the comments in `ArrayQueue.java` specify; `ArrayQueue` with `AbstractQueue` | `DataProofs` | `data`, `queue_interface` |
| `Cipher` | `otp` | `DataProofs` | `data` |
| `Tournament` | Java `Game` | `DataProofs` | `data` |
| `CourseList` | `hogwarts` | `DataProofs` | `data` |
| `Algorithms`, `Olympics` | `hotelbusiness`, Java `search`, Java checked operations; `olympics` | `DataProofs` | `data` |
| `Duration` | `tabletest.ParseDuration` | | `data` |
| `Tools`, `Programs`, `Data` | the sums of the components, which the runs of the same names check | the modules named after them | |

A sum has the constants of its components and states what the proofs assume of them;
`MCPrograms` and `MCTools` give constants the values that a `.cfg` cannot write.
The properties of a sum are the components' properties, each for the program that runs, so a
theorem about the sum is one about each component. `map` in `PROJECT.json` names the lines of
every definition.

Common to all modules: `pc` says where a goroutine is, named after the statement it is about to
execute. A channel of capacity one used as a mutex is the number of tokens in it, sending needs
a free place, receiving a token. An action is the code from one operation that other goroutines
can see, or that may block, to the next. A variable that only observes (it is marked *history*
in the declaration) appears in no guard.

**RWMutex.** `writeMutex` and `readMutex` are the tokens in the two channels, `count` is
`rw.count`. `RLock` is five steps (take the gate, test the counter, take the write token, count,
leave), `RUnlock` five more; `Lock` and `Unlock` are one channel operation each. The user's side
is that a goroutine releases what it holds. `Abstract` maps the goroutines between `Lock` and
`Unlock`, and those between `RLock` and `RUnlock`, to the holders of `RWLock`.

**Once.** `c` is the channel: `New` puts the token in, the first `Do` takes it, and the deferred
`close` wakes everybody. `f` is external: it returns, panics, or calls `Do` on the same `Once`.
In `Programs` its variables are `onec`, `opc`, `inner`, `fcalls` and `fended`.

**WaitGroup.** Channels are numbered; `wait` is the number of `wg.wait`, `closed` the set of the
closed ones, so a stale copy is a number that is smaller than `wait`. `AddPanics` is the
negative counter; the deferred release is the step after it.

**KeyLock.** `locks` is the map, `waits` the channels a call has collected and that are still
open. One pass under the mutex is one action, because nothing inside it blocks or is visible
outside. Waiting ends by `Retry` (all collected channels are closed) or by `GiveUp` (the
`select` takes the cancellation); both may be ready at once, and the choice is free.

**DupCall.** `groups` records every group ever made: where its runner is, whether `done` is
closed, whose context the callback got. `group` is `o.group`. `CloseDone` and `ClearGroup` are
separate, which leaves the window in which a finished group is still the current one. The
callback returns whenever it likes, or never.

**TParallel.** A test function is a script: a sequence of subtests it runs and of the call of
`Parallel`. An unbuffered channel is the step `Sync`, which fires when one side sends on and
another receives from the same test's `end`. `childrens`, `start` and `barrier` are the fields
of `T`; `joined` counts the loop over `childrens`.

**RetryUpdate.** `store` is the key with its value and version. A value is the sequence of the
updates it contains: that is all the properties look at. `SetReplyLost` is a write that took
effect and answered with an error; `Remove` is somebody who removes the key; `SetConflictOwn`
and `SetConflict` are the two conflicts of the code: with the call's own version (done) and with
another one (read again). `newVers` is made once per call, as in the code, so it is named by the
client. `GetFails` and `SetFails` are the errors that end a call.

**Ledger.** One action is one SQL statement with the check that follows it. `balance` is the
committed table, `pend` what the `UPDATE`s of an open transaction have added, `holder` the row
locks. `Begin` has the checks of the arguments in the set `Ops` it chooses from; `LockRow` is `SELECT ... FOR UPDATE`: it waits for the holder, and if it finds no row it
locks nothing and goes on, as the code does. `EndTx` applies or drops `pend` and frees the rows.
`Victim` is Postgres ending one transaction of a circle. `MaxMoney` stands for the largest
`BIGINT`. In `Bank` a deposit, a withdrawal and a transfer are one step; the mapping is the
identity on the committed balances.

**Gitfame.** `blame` is what git says of each file, chosen at the start: hunks of commits,
nothing (then the last commit of the file is asked for, which may be empty too: the slice of its
lines is then indexed out of range, and the panic ends the program), or a failure. `person` is the map,
`inner` the two maps inside an entry; `entry` is the entry a goroutine looked up and still
holds. Every lock, map access and counter step is an action. A concurrent access of a map may
stop the program (`fatal`), as the runtime's detector may. The inner maps have the number of the
file whose goroutine made them as a part of their name. `Printer` is the loop that makes the
rows, sorts them with the flag's order, and prints.

**Packages, Grader, Export.** A file is a record: its name, whether it is Go, a test, a `main`,
and the build tags that select it; `Packages` computes with them the lists that `list.go` asks
the `go` command for. In `Grader` `task` is the one being tested and `left` those still to come
(`NextTask` takes the first of them by name); one action is one external command (a copy, a build, a run, a
request) with every way the code treats its end: a `TestFailedError`, another error, `log.Fatal`
(the process ends and no deferred call runs) or a panic (they run). `tmp` is the temporary
repository, filled in the code's order, so a later copy replaces a file of the same name;
`coverage.go`, its first matching comment, and the join of the profiles are operators.
`PostFails` covers a request refused, undelivered, or recorded with its answer lost. In `Export`
one action is one git command on `head`, `refs`, the working tree and the remote; `Dies` may
take the place of each. `todel` is the set of listed files, each with the list that named it, so
a file named twice is in it twice; the code's sort of the list changes nothing but the order of
the removals.

**Du, Memo, Chat, Wscat.** The send and the receive of an unbuffered channel are one step. `Du`
has the four programs as one module: in the first two `walkDir` is a call, in the others
(`Spawning`) a goroutine. `Memo` has the five caches: where the map is looked at, where `f` runs, where the
result is stored, and what is locked meanwhile; a result is the number of the call of `f` that
made it. In `Chat` the broadcaster is at its `select` unless it still has clients to send a
message to (`pending`); `stalled` are the peers that do not read. `Wscat` has the reader, the
sender, `main`'s `select` and what the outside may do at any time; `Clash` is the panic of gorilla
when `main` writes its close frame while the sender is in a write.

**Middleware, Shortener.** One goroutine per request. A map increment is a read, a write that
lasts, and an unlock; a range that meets a write that lasts stops the process (`dead`). The
random key is drawn before the lock, as in the code.

**Fixtures, SqlPool, Pipelines.** In `Fixtures` a port is free between `GetFreePort` and the
server's bind, a server may end at any moment, and the `select` of each fixture is modelled with
the branches that are ready. In `SqlPool` a function is a sequence of steps on the pool (take,
use, give back, a statement), each with what it does about an error, and the set of what its
deferred calls give back. In `Pipelines` each goroutine is the instruction it is at, taken from
the code's loop; two goroutines meet on a channel. A failed `Dial` ends `netcat`.

**LRUCache, ArrayQueue, Cipher, Tournament.** The data are kept as the code keeps them: elements
and pairs of the cache are numbers, so that a pair that went back to the pool and was filled
again is seen; the circular array is a function from `0 .. length - 1`, and growing it is the
two `arraycopy`s; a byte of `otp` is its place in the stream together with the place of the
random byte that hides it; `aliased` says that the two lists of `Game` are one, and `res` has for
each game the set of the players it has removed. `Range` of the cache is a cursor between whose
steps any other call may come, as from its callback.

**CourseList.** The calls of `dfs` that are open are `frames`, each a course with what is left of
the list it ranges over; the course at the top runs. The key a range over the map gives next is
any, so a behaviour is one order of the map, and a panic leaves the frames as they are.

**Algorithms, Olympics, Duration.** Operators with a definition of the right answer beside each
(`LoadRight`, `SearchRight`, `CheckedRight`, `ReplyRight`, `DurationRight`), which does not follow
the code's way: it counts, adds up or takes a minimum over all of the input. Java's operations are
evaluated with one variable, three, or a list (`variant`): only the last two are overridden by
the checked `+`, `-`, `*`, `/` and minus, so with one variable these are Java's own arithmetic,
which is also what the loop of `pow2` multiplies with (`doubled`). Integers have a width
and wrap where the code's do. A loop is the recursive function of its rounds (`AddDay`, `halve`,
`Enter`). The three handlers of `olympics` are one operator, `Handle`: they differ in the records
they pick, in the name these are counted under and in what they refuse. It gives the set of the
replies there may be, because `sort.Slice` gets its rows in the order of a map.

## 3. Runs, bounds and what they show

| run | instance | distinct states | shows |
|---|---|---|---|
| `rwmutex` | 3 goroutines | 710 | `WriterExcludesAll`, `TokensAccounted`; implements `RWLock`; readers get in, writers get in once readers stop |
| `waitgroup` | 3 goroutines, deltas -2, -1, 1, two calls each | 53881 | one open channel exactly while the counter is positive; `Wait` saw zero, wakes at zero; `Add` returns even after a panic |
| `keylock` | 3 goroutines, keys a, b, c, requests {a,b}, {b,c}, {b}, {c} | 60319 | disjoint holders, no partial locking, every awaited channel has a holder; calls and cancelled calls return |
| `retryupdate` | 3 clients, one lost reply, one removal | 10898 | success means applied (once if no reply was lost), no lost update, all calls end |
| `retryupdate_versions` | 2 clients, one lost reply | 176 | *violation*: one version, two values |
| `ledger` | 2 calls, accounts 1 and 2, amounts 1 and 2, `MaxMoney` 3 | 75159 | the money a withdrawal was shown is there when it is taken; circles only over a new account; implements `Bank`; all calls return |
| `ledger_deadlock` | the same | about 23000 | *violation*: two transfers wait for each other |
| `tparallel_early` | the programs of the tests' shapes | about 120 | *violation*: `Run` returns while tests run |
| `tools` | `Grader`: 4 tasks, 6 change sets, 3 coverage profiles, both commands; `Export`: 2 trees, 3 `.private` files, both flags; `Gitfame`: 2 files, 7 outputs of git, 3 orders | 73090 | earned reports, private files judge, the exit status tells, nothing leaks, an exact report, everything ends |
| `programs` | twelve programs, below | 163408 | channels, results, nothing left, callbacks called once at a time, order of tests, everything ends |
| `data` | four structures and six functions, below | 807773 | structures are sound, answers right, `LRUCache` implements `LRU` (`CacheForgets`) and `ArrayQueue` implements `Queue` (`QueueIsFifo`) |
| `queue_interface` | the queue of `data` alone | about 40 | *violation*: `dequeue` returns the first element where the interface says the last |

Why these bounds reach the interesting cases:

- *rwmutex*: three goroutines give two readers and a writer, and two readers that overlap so
  that the group never empties. The proofs cover any number.
- *waitgroup*: two calls each by three goroutines let a `Wait` keep the channel of a generation
  that has ended while the next one starts; -2 is the misuse of the test.
- *keylock*: {a,b} and {b,c} overlap as in the task's README; {b} and {c} allow a call for
  several keys to be overtaken.
- *retryupdate*: a reply is lost once, somebody overwrites the value between and a third client
  reads what was written first; one removal is enough to change value and version.
- *ledger*: two calls at a time make every pair of operations on one or both accounts, in both
  directions, repeatedly; balance 3 overflows with a deposit of 1 or 2. Longer circles are
  covered by the proof.
- *tools*: the tasks are one whose tests are partly private and whose student has files of the
  same names, one that asks for coverage and watches a common directory (its comment of the
  right form comes second), one whose test file does not parse, and one that has no private
  directory; the change sets hit none,
  one or two tasks, directly, by a watched directory, and by a name that only begins like one.
  The profiles are below and above the requirement, alone and joined. One tree has a file of
  each kind, with one that is private for two reasons. Two files suffice for two goroutines of
  gitfame in different critical sections.
- *programs*: `Du` has two roots, one with a subdirectory, and one directory open at a time;
  `Memo` three callers of two keys; `Chat` two connections of which any may not read; `Wscat`
  two messages each way; `Middleware` three requests in four loads with two requests that are
  counted together, a panic, a refusal, and one or two pages of metrics; `Shortener` three posts
  of two URLs over three keys; `Fixtures` two tests on two ports, in three mixes; `Pipelines`
  three numbers, three URLs, two merged channels; `SqlPool` two callers of any two functions
  with a pool of two, which one function alone can use up; `DupCall` three callers and three
  calls, so that a group is started, joined, abandoned, and joined while it is finished but
  still current; `TParallel` seven programs with the shapes of the package's tests and one
  parallel test with a parallel subtest; `Once` four goroutines: the caller of `f`, its inner
  call, and others that wait, with an `f` that returns, panics or re-enters.
- *data*: `LRUCache` has five calls on capacities 0 to 2 with three keys, between any steps of a
  `Range`; `ArrayQueue` up to five elements of three values, so it doubles three times at every
  position of `front`; `Cipher` a stream of five in slices up to three; `Tournament` one to five
  players, with up to two draws. The functions get all inputs of a size: three guests in
  four days (`MaxGuests`, `MaxDay`), three courses with every graph over them and every order of
  its keys, four of seven records that tie in every column with queries of every kind and limits
  from -1 to more than there are, descending lists of three integers (`MaxList`), all pairs of
  integers of four bits (`IntWidth`) in each of the three ways to evaluate, strings of a sign and five symbols against 8-bit integers.

Deadlock is looked for in `rwmutex`, `keylock`, `retryupdate` and `ledger`; in `retryupdate` the
stuttering action `Finished` marks the one state in which the system has ended. It is not looked
for where programs and calls end (`tools`, `programs`, `data`, `queue_interface`, `tparallel_early`) and where they run
out with a `Wait` on a positive counter (`waitgroup`). There `ToolsEnd` and `ProgramsEnd` say
which states are ends; one of them is `once` after a re-entrant `f`, which blocks everybody, as
the comment in the code promises.

Properties with a premise, each of which states what the code leaves to its user or what section
6 reports:

| property | holds | because otherwise |
|---|---|---|
| `WriterGetsIn` (in `EverybodyGetsIn`) | when readers stop | overlapping readers starve writers |
| `CallsReturn` of keylock | when no new calls are made | a call for several keys can be overtaken for ever |
| `DoReturns` of dupcall | for a call that is not cancelled, when callbacks end | nobody makes a callback return |
| `ProgramsEnd` for tparallel | when no parallel test has a parallel subtest | the program hangs |
| `ProgramsEnd` for chat | when every client reads | one that does not stops the broadcaster |
| `ProgramsEnd` for the pool | when nobody runs an example that keeps, or takes two, connections | the pool is used up, as the examples show |
| `ReportRight` of gitfame | when no two goroutines were in the map under different locks | increments are lost |
| `ShortLinks` | when no key in use was drawn for another URL | the key is overwritten |
| `DuTotalsRight` | when every directory was readable and nobody cancelled | files are missing |
| `GaugeCounts` | while the process lives | the unlocked range may stop it |
| `CipherAligned` | while the random source fills what it is asked for | bytes stay unhidden |
| `RangeShowsLive` | until the callback clears the cache | the list it walks is an old one |
| `SearchRight`, the closest element | when the differences are `int`s | they wrap |
| `CheckedRight`, log of one variable or a list | up to the largest power of two | an exception is thrown |
| `CheckedRight`, `+`, `-`, `*`, `/` and minus of one variable | modulo 2^32, with an exception only for a division by zero | the inherited `evaluate` checks nothing |
| `WscatExits`, `WscatEnds` | with a panic as one of the ends | two goroutines write at once |

Every property fails on at least one plausible bug in the code it is about: a mutated definition
stands before the original (its name says what is wrong) and is listed under `mutants`. The
properties of `tools`, `programs` and `data` are conjunctions over components; one conjunct of
each has its mutant listed.

## 4. Fairness

| module | assumption | why |
|---|---|---|
| `RWMutex`, `WaitGroup` | strong fairness of every goroutine's steps | a Go channel serves blocked goroutines in the order they came, so one is not passed over for ever; in `RWMutex` a holder releases |
| `KeyLock` | weak fairness of the steps, strong of `GiveUp` | when cancellation is ready, `select` picks it among the ready cases at random, so not never; a holder unlocks |
| `RetryUpdate` | weak fairness of the answers | the service is not unavailable for ever; losses and removals are bounded |
| `Ledger` | strong fairness of statements, weak of `Victim` | Postgres grants a row to its waiters in turn and resolves deadlocks |
| `Tools` | weak fairness of `testtool`; strong of gitfame's main and of each of its goroutines | the tests `testtool` runs have a timeout; a `sync.Mutex` starves nobody |
| `Programs` | weak fairness of all steps together; in `dupcall` of callers and runners only; in `once` of each goroutine's steps inside `Do` | but for `once` no behaviour of these instances is infinite, so something that can go on does, as runnable goroutines are scheduled; nobody makes a callback return, or cancels; the channel of `once`, once closed, stays ready, and an `f` that does not re-enter ends |
| `Data` | none | calls return in one step |

Nobody has to call, cancel, remove a key or open an account in the modules whose behaviours do
not end: there these actions are never fair. In `Programs` a timer, a signal or a client's end
of input does come in the end; each behaviour also has the interleavings in which it comes last.
That holders release is what a user of a lock owes it; without it no lock can promise anything.

## 5. What is proved

TLAPS proves the following for every value of the constants, under the named assumptions of the
modules:

| assumption | says |
|---|---|
| `GoroutinesFinite` | a program has finitely many goroutines |
| `DeltasInt`, `MaxOpsNat`, `MaxLostNat`, `MaxRemovalsNat`, `PoolRows`, `CacheCapacities`, `StreamBounds`, `PlayerCounts`, `Listing` | numbers are integers, bounds naturals; gitfame's list of files may have the empty line after git's last |
| `IntWidths` | an `int` has at least two bits: the checks compute with 1, 2 and -1 |
| `KeySetsType`, `BodiesKnown` | requests are sets of keys; an `f` does one of the three things |
| `VersionsDiffer`, `NobodyType`, `NoPost`, `NobodyGets`, `NoEntry`, `NullIsNone` | the values for "none" are none of the others |
| `AccountsOrdered`, `AmountsPositive`, `MoneyType` | account ids and limits are naturals, amounts positive |
| `FileTrees` | the directories are trees, finitely many, and the arguments of `du` their roots |
| `WebLoads` | a checker answers `ok`, `ErrInvalidToken` or another error |
| `PipeNames` | goroutines and channels of a pipeline have a name each; merged values tell their channel |
| `TestScripts` | every call of `T.Run` makes a test of its own; `Run` is not itself a test |
| `Paths` | the name of a private file is its path; none is called like a module file |
| `PrivateMarks` | build constraints name `private` and `solution` alone or together, in Go files, or `solution` in a `.proto` |
| `GitSays` | git says at least one hunk of a file it blames, one commit of an empty one it logs, and none otherwise; authors are numbered by name |

Nothing bounds the number of goroutines, keys, clients, accounts, files, tasks, players, calls,
guests or courses, the length of a list, the width of `int`, or the depth of a tree.

**RWMutex** (`TypeCorrect`, `MutualExclusion`, `SharedReading`, `ReleasesDoNotBlock`,
`TokenAccounting`, `Refinement`). The safety properties are not inductive: mutual exclusion rests
on who owns the write token, and that on the counter. The invariant says that the gate token
belongs to at most one goroutine, that `count` is the number of goroutines between their counting
steps, that the write token is in its channel exactly while a writer or the group of readers owns
it, and that the counter is zero where the first reader waits and where the last one gives the
token back (`GateToken`, `CountAccounted`, `WriteAccounted`, `ZeroWhere`). The refinement follows:
every step is one of `RWLock`'s or a stutter.

**Once**, in `Programs` (`CallbacksAlwaysRight`, `WaitsForF`, `Reentry`). The token is in the channel, or
with the one goroutine that calls `f`, or the channel is closed and `f` has ended. `Reentry` is the
comment of the code: after an `f` has called `Do`, no `Do` returns.

**WaitGroup** (`TypeCorrect`, `ChannelPerGeneration`, `NoSpuriousWakeup`). A `Wait` in progress
while the counter is zero has seen it (`SeenNow`), and a copied channel that is no longer `wg.wait`
was closed at a zero this call has seen (`Copied`); that a new channel is open needs that no later
number is closed (`Numbered`).

**KeyLock** (`MutualExclusion`, `AllOrNothing`, `NoLostWakeup`, `BlockedByHolder`). The map is the
union of the holders' keys and holders are disjoint; with that, a key is free when its holder
unlocks and every channel somebody waits for has a holder that will close it.

**DupCall**, in `Programs` (`CallbacksAlwaysRight`). One active group is inductive with the types: a
group is made only where `o.group` is nil, and then all others have ended. That an abandoned
callback is cancelled needs to know who holds its context. `DupStarterWaits` says that while a
callback runs its group is not done, and that as long as its context is live, the `Do` that made
the group is still in its `select`, uncancelled: it could leave only by its own cancellation or by
a result that is not there yet. So if nobody uncancelled waits, the context is not live.
`CallbacksRight` is these two invariants, and the one call of `once`.

**RetryUpdate** (`TypeCorrect`, `ExactlyOnce`, `NoLostUpdate`). While no reply was lost, a version
made by a client belongs to a call that has returned, wherever it is found. So the version a client
is about to write is new to everybody, and a version that still matches vouches for the value it
was read with (`Lossless`). With lost replies one half remains: a call that returns nil has been
applied (`OwnVersionWritten`).

**Ledger** (`TypeCorrect`, `MoneyIsSafe`, `OrderedLocks`, `Refinement`). For each call the
invariant says what it knows at each statement (`Phase`): which rows it has locked or missed, that
they exist, what it has added, that the balance it compared is still there; and what it has added
leaves a legal balance in rows it holds (`Booked`). A frame lemma shows that steps of other calls
leave this alone, because they touch only rows they have locked. For `OrderedLocks` take a circle
in which nobody has missed an account: each of its calls is a transfer that holds the row of its
smaller account and waits for that of its larger one. So the call that waits for it holds a still
smaller row, and so on round the circle; a set of numbers without a smallest one is empty
(`NoDescent`, from the library's well-foundedness of `<` on the naturals), whatever the circle's
length.

**TParallel**, in `Programs` (`TestsAlwaysInOrder`). Scripts make a tree, because every call of
`T.Run` has its own test. The invariant says that the subtests before the place a test is at in its
script have started and those behind it have not (`ParPlaces`); that a barrier is closed only when
the function of its owner has ended, and that a test has left `Parallel` only through the closed
barrier of its parent (`ParBarriers`); so while a function runs, the subtests it has left behind
are parked or done (`ParOrder`), which is what the step that starts the next one finds.

**The other programs** (`ChannelsAlwaysSafe`, `ResultsAlwaysRight`, `NothingEverLeft`). Each has an
inductive invariant of its own, which the steps of the others leave alone (`OwnStep`):

- *Du*: an entry that a walker has yet to visit was visited and counted by nobody (`VisitedOnce`).
  The wait group counts the walkers that have not ended, and in `du1` and `du2` each of them but a
  root has a parent that waits (`WalkersKnown`), so when the channel is closed nobody is left to
  send. That *all* files were counted at the end goes up the tree: a directory that was never
  walked has a parent that never was, and whoever climbs comes to a root (`Climb`).
- *Memo*: what is stored or returned is the result of a call of `f` for its key
  (`ResultsComputed`). Why there is one call per key differs by version (`FAlone`, `ComputedOnce`):
  `memo1` runs one `Get` at a time, in `memo2` who runs `f` holds the mutex, in `memo4` the entry
  is made before the call, and `synconce` asks its `Once`; `memo3` may call more often, and
  promises no more.
- *Chat*: a client is in the broadcaster's map only while its handler is between entering and
  leaving, messages go only to clients of the map, and a channel is closed after that.
- *Wscat*: until `main` exits the context is live, so a reader that has ended has printed all its
  connection carried; `main` cancels only after a signal and its close frame.
- *Middleware*: who reads and writes a count has the mutex, and the count is still the one it has
  read (`Locked`), so a count is the number of requests that have been through (`Counted`); a page
  has every path there was when it was asked for, with a count between then and now (`Pages`); a
  request was answered as the checker said (`Answered`) and logged as far as it got (`Logged`).
- *Shortener*: a URL has one key (`OneKey`), because what the search found stays so while the
  request holds the mutex (`SearchHolds`); what was answered stays so until two URLs have drawn one
  key (`AnswersHold`).
- *Fixtures*: a binary that is being built is nobody else's and not the stored one (`BuildsOwn`); a
  test whose server may run has its cleanup registered, but for `pgfixture`'s between the start and
  the end of its `select`, which it leaves with the cleanup or because the server has ended
  (`ServerKilled`).
- *Pipelines*: the counter is as far as the squares that are out (`SquaresInOrder`), a URL is out
  when its fetch has ended (`FetchedOnce`), of each merged channel as many values are out as its
  feeder has sent, but for the one its worker holds (`MergedInOrder`), and only the copier closes
  `done` (`DoneOnce`).
- *SqlPool*: a function is a list of steps, of which `CallsRight` shows what it takes and how it
  goes on after errors; a caller holds only what its function takes, only a connection of its own
  after a cancellation, and at the end nothing that it defers to give back (`HeldRight`). Ids that
  were answered are in use, and no two creations have the same one (`ToldRight`).

**Grader** (`ReportsAlwaysEarned`, `AlwaysJudgedByPrivate`, `ExitAlwaysTells`). Nothing is recorded
of a task whose test has not ended; a task at its report has passed, and the tries it has left and
the records already made are never more than three (`RecordsPassed`). `CopiedSoFar` follows the
copies into the temporary repository: what a stage has copied stays, as a file of a later stage
with the same name is the same file. For the exit status the invariant splits the tasks of the
commit into the tested, the current and those left (`LoopIInv`), with `failed` true exactly if one
of those through with it has not passed, and all that have passed recorded.

**Export** (`ExportAlwaysRight`). Every file marked private, or named in `.private`, is listed
(`ListedAreSecret`), by one of the passes of `list.go`, and nothing else is; while they are
removed, each that is still in the tree is still on the list, so in the end exactly the others are
left (`PrivateGone`); the branch and the remote are either what an earlier export left or that tree
(`PublicIs`), at whichever command it dies.

**Gitfame** (`GitfameAlwaysRight`). The report is right if no two goroutines were in the map under
different mutexes. The invariant says at which hunk each goroutine is (`CursorIInv`), which tells
the hunks whose commit and file it has noted from those whose lines it has added; that the two
counters are the sizes of sets of goroutines, so they never go below zero (`CountersIInv`); that
who is in the map holds its mutex, and is there alone as long as nobody raced (`LocksIInv`); that
the inner maps of a person are that person's own (`MapsIInv`); and that, without a race, every
entry has exactly the lines, commits and files of the hunks noted so far (`CleanIInv`). When all
goroutines have ended every hunk is noted, so the rows are right, and sorted they are a ranking in
which each author is once (`ReportIInv`).

**LRUCache** (`StructuresAlwaysSound`, `RangeAlwaysLive`, `TheOldestIsForgotten`). The list, the
map and the pool are tied together (`Kept`): the elements of the list hold different pairs, none of
which is in the pool (`KeptApart`); the map leads from the key of each pair to its element and has
no other keys (`KeptMap`). The refinement maps the list to the contents of its pairs, the oldest
first (`OrderOf`): moving an element to the back, renewing, inserting with or without an eviction,
and clearing are then the steps of `LRU`, and those of `Range` stutter. While the callback leaves
the cache alone, a `Range` stands at the last pair it has shown, and has shown all before it
(`RangeQuiet`); whatever the callback does but clear the cache, the next element is one of the
list, so the map leads to it.

**ArrayQueue** (`TheQueueIsFifo`). The invariant (`FieldsGood`) says that the slots from `front`
on, modulo the length, hold the elements, that all the others are null, and that `last` is the slot
before the next free one. It holds of the four fields, so `enqueue`, with the copy of a full array,
and `dequeue` are lemmas about fields (`EnqueuedIs`, `DequeuedIs`), which the rounds of `distinct`
use as its loop uses the calls. That the loop's recursive function exists (`RoundsExist`), and that
after *i* rounds the elements to come are in front, behind them the first of equal ones among those
done, each at its rank (`RoundGood`), is shown by taking the smallest round where it would fail.
The abstract `distinct` says where each first element must be, and not how it comes there.
`indexIf` may walk on over free slots, and finds nothing there because null is no element.

**Cipher** (`StructuresAlwaysSound`). While the random source has not run short, and until a call
has failed, as many of its bytes were drawn as were taken from the stream; so what came out is the
stream's beginning, each byte hidden by the random byte of its own place.

**Tournament** (`StructuresAlwaysSound`). A player is in a list once, nobody is removed twice, and
a player is in `temp` or out (`GameOnce`, `GameInOrOut`). While the lists are two, whoever has yet
to play is still in `temp`; once they are one, they are the same list (`GamePairs`). Only a player
who met the middle one of an odd number can have been removed for the other's wrong move
(`GameMiddle`).

**CourseList** (`AnswersAlwaysRight`). Every course is white, on the path of open calls, or done, and
the done ones are the answer, each after its needs (`CourseIInv`). Of a call on the path
everything it needs is done, still to come, or the next on the path; so a gray neighbour closes a
cycle, and that is the panic. For the other way round take a set of courses each of which needs
one of the set: the first of them in the answer has a need that comes still earlier.

**Algorithms** (`AnswersAlwaysRight`). A recursive function on an interval is its own defining
equation only if there is a function that satisfies it. `LoopExists` shows that there is one for
any loop whose round is a function of a set to itself, by taking the smallest round at which there
would be none, which needs only that `<` on the naturals is well-founded. What the rounds compute
is then an invariant of them, shown the same way:

- *ComputeLoad*: after a day the current number is that of the guests inside, for a guest who is
  in changes the number by the difference of two cardinalities (`InsideChanges`); a step is left
  out only if nothing changed on the day before it (`NextRound`).
- *Searches*: everything left of `l` is above x and nothing from `r` on is (`HalveKeeps`), and a round
  takes away at least one place, so the rounds of the model are enough (`BoundsMeet`); the
  recursion goes through the same pairs.
- *Checked operations*: the tests for `*` are about quotients that go towards zero; that they
  are exact is `ProductOverflows`, from the order of products (`ProductsKeepOrder`) and of
  quotients (`DivIs`, `DivLess`). A sum that wraps is below both or above both (`SumOverflows`).
  `pow2` is a loop of products (`PowIs`), checked ones for a list and unchecked ones else, which below
  the limit of the exponent is the same; the logarithm is the first power that is not less
  (`LogIs`). What an unchecked operation returns differs from the exact result by a multiple of
  2^`Width` (`WrapsAround`).

**Olympics** (`AnswersAlwaysRight`; `RepliesAreRight` for any records and queries). The rounds of
the loop add to each name the medals of the picked records with that name (`StatsRounds`), and for
an athlete those of each year. The less functions are a strict order in which rows with different
names are never equal; so in whatever list `sort.Slice` makes, the better of two rows is in front,
and the beginning of the list is the ranking.

**Only model-checked**, and why:

- all liveness properties (`EverybodyGetsIn`, `WakesAtZero`, `AddReturns`, `CallsReturn`,
  `CancelReturns`, `Returns`, `DoReturns`, `ProgramsEnd`, `ToolsEnd`): fairness and `ENABLED` are
  out of the prover's reach;
- `DurationsRight`: the model of `ParseDuration` has one width and one table of units, so a proof
  would be about the instance TLC runs through; its loops, and the grammar it is compared with,
  are nested recursions over a string;
- the four violations of section 6, which are about small instances.

`ReleaseNeverBlocks` of `RWMutex` is the other way round: `ReleasesDoNotBlock` proves it, and no
run repeats it; so is `Reentry` of `once`.

## 6. Where the code departs from its documentation

Shown by a run:

- **tparallel** (`tparallel_early`). README:16 says `Run` returns when all tests have finished.
  After it closes the barrier, `Run` receives once (`tparallel.go:51-53`), however many parallel
  top-level tests there are: it returns with the first of them.
- **retryupdate** (`retryupdate_versions`). README:6-7 calls a version a unique identifier.
  `newVers` is made once before the loop (`update.go:46`) and is used again after a conflict,
  for another value; after a lost reply, two values can have been stored under it.
- **ledger** (`ledger_deadlock`). README:19 asks for no deadlocks in the database. `Transfer`
  locks rows in the order of their ids but does not look at whether the first `SELECT` found one
  (`ledger.go:188-200`). If that account is opened a moment later, the transfer takes its row
  last, against the order. `DeadlockNeedsNewAccount` shows, and `OrderedLocks` proves, that this
  is the only way to a circle.
- **Java queue** (`queue_interface`). `Queue.java`:8 puts a new element at `a[n']`, and 12-13 say
  that `dequeue` returns `a[n]` and leaves the others where they are: last in, first out; so does
  17 of `element`. Both return `elements[front]` (`ArrayQueue.java:157-159`), the oldest. `Queue`
  is therefore what the comments in `ArrayQueue.java` say, and not the interface's: `R = a[0]` in
  those of its earlier text (31-34), and the indices from the front in 182-183 and 203-204.

Seen while modelling, not made into a run:

- *keylock*: a cancelled call can still lock when keys become free first (README:40,
  `keylock.go:29`; `NoLockAfterCancel` states the README).
- *dupcall*: the callback runs with the context of the caller that started it, so when only that
  caller cancels, the others lose it too (README:14-15, `dupcall.go:35`); a call that comes
  between `close(g.done)` and `o.group = nil` gets the old result instead of a new callback
  (README:10-12, `dupcall.go:36-38`).
- *tparallel*: a parallel test may tell its parent's parent of its end before its own subtests
  are through (README:18-19, `tparallel.go:34`), and a parallel test with a parallel subtest
  hangs (`tparallel.go:30,34`).
- *gitfame*: the map is written under `muGrep` in one branch and `muBlame` in the other
  (`greper.go:64-85`, `108-118`): lines, commits or files can be lost or the runtime can stop
  the program, which is why `ReportRight` has a premise. A file for which `git blame` fails is
  skipped without an error (`greper.go:96`, README:37). When `git log` fails or says nothing of
  an empty file, its output is indexed all the same and the program panics (`greper.go:102-106`). An unknown `-order-by` is noticed only
  when two authors are compared.
- *wscat*: README:12 asks to wait for the goroutines at the end. After a signal or after its
  second `main` exits at once (`wscat/main.go:91`), and what the server has sent can be lost;
  the second begins with the program and not with the shutdown. The close frame is written
  (85) without a lock against the sender's write (74), which gorilla does not allow: it may panic.
- *httpgauge*: `ServeHTTP` ranges over the map without the lock (`httpgauge.go:35`), so a
  request for the metrics can stop the server; `Snapshot` returns the live map.
- *urlshortener*: a random key that is in use is overwritten (`urlshortener/main.go:84`).
- *du4* prints totals as if they were complete when it is cancelled at the moment the channel
  closes: the `select` may take either. *du1* to *du3* use the result of `os.ReadDir` as
  `[]os.FileInfo`, which today's library does not give; the model reads a directory whichever
  function does.
- *chat*: a client that does not read stops the broadcaster, and with it everybody.
- *SQL examples*: the loop of `Prepare` ends with a fatal error at the id that is not there, and
  the Redis example is always fatal, as `rdb.Ping` returns a command and never nil.
- *testtool export*: a file that is private for two reasons is listed twice, and the second
  `os.Remove` is fatal, in the middle of the export; the branch it was on stays.
- *lrucache*: a callback that evicts the element it stands on ends the `Range` early, one that
  moves it to the back ends it too; after a `Clear` it is shown pairs that are not in the cache.
- *otp*: when the random source is short, bytes come out unhidden; the writer ignores what the
  source returned.
- *hotelbusiness*: a guest who leaves on the day of coming adds a step that repeats the load
  before it.
- *olympics*: a negative `limit` is a slice out of range, and the request panics.
- *Java `Game.java`*:140 takes `count + 1 - no` for the other player. In a tournament of an odd
  number the middle player is his own other: his wrong move wins, and his opponent is out.
  `Main.java` builds the tournament before it asks again for a count that was not valid.
- *Java `CheckedBinaryOperation`* and *`CheckedNegate`* override `evaluate` of three variables and
  of a list. That of one variable is inherited from `BinaryOperation.java:23-31` and
  `UnaryMinus.java:19-21` and checks nothing: the largest `int` plus one is the smallest, without
  an exception. `CheckedPow` multiplies through it (35, 46), where it makes no difference, as
  the exponent was checked before.
- *Java `CheckedLog`* of one variable and of a list (`exceptions/CheckedLog.java:44-51`,
  `73-80`) throws an overflow for arguments above 2^30, where the one of three variables
  (`29-37`) returns 30.
- *Java `BinarySearchClosestA`* compares differences that wrap, and may return the farther
  neighbour.
- *MineSweeper*: after a game is loaded, the first click lays mines again
  (`src/cpp-solutions/lab4/MineSweeper.cpp:660`).

## 7. What is not modelled

Inside modelled components:

- *keylock*: a second call of the same `unlock` (`keylock.go:57`), which nothing allows or
  forbids (it would close and delete the channel of whoever has locked the key since), and the
  helper goroutines that a cancelled call leaves behind (nobody reads their state).
- *dupcall*: the value and error of the callback, passed on unchanged.
- *ledger*: `GetBalance` and calls whose arguments are rejected (they change nothing),
  connection errors other than a cancelled statement.
- *gitfame*: flags and filters of `main` (40-92), the layouts of the four formats, a git that
  lists the hunks of a commit separately. `src/gitfame` is a second copy of the same code.
- *retryupdate*: the comments and mocks are all there is of the service. An error of none of the
  kinds `kvapi` names is retried, and is modelled as time that passes.
- *testtool*: the wording of messages, the parsing of baseline and coverage files beyond what
  decides a verdict, the sandbox of the child process.
- *memo1* to *memo4*, *synconce*: a panic of `f`. It ends the program, unless the caller of `Get`
  recovers; then `memo2` keeps its mutex (30-34), `memo4` leaves `ready` open (49-50) so that later
  calls for the key wait for ever, and the `Once` of `synconce` counts as done without a result.
- *wscat*: what a write that meets another does to the frames when gorilla does not notice it.
- *httpgauge*: `Snapshot` and what its callers do with the live map; chi's routing.
- *Java `queue`*: `ArrayQueueADT` and `ArrayQueueModule` are the same code in another style;
  `LinkedQueue`. *Java `game`*: the board (no document says which lines win) and the players.
  *Java expressions*: the parser, the tabulator and the text.
- *ParseDuration*: the rounding of `float64`; the model scales a fraction exactly.
- *genericsum*: its functions without state. *treeiter*: a recursion with a callback.

Whole components: `ratelimit`, `gossip`, `rsem`, `forth`, `shopfront` and `firewall` are stubs;
`iprange` (a generated parser), `jsonlist`, `jsonrpc`, `blowfish`, the Java markup and the
JavaScript expressions are conversions of text and bytes; `fileleak` compares two listings of a
directory and `urlfetch` is a loop over requests; the C programs compute with floating-point
numbers and audio files; `MineSweeper` keeps its state in widgets and a settings file, and no
document says what it must do; the slides and one-page snippets of the lectures show syntax.
`PROJECT.json` has the list and the reasons.

## 8. Plan

Order chosen so that the hardest behaviour comes first: concurrent protocols, then concurrent
programs and the tools, then data structures, then pure algorithms.

| step | modules | abstract specification | theorems |
|---|---|---|---|
| done | `RWMutex`, `Once`, `WaitGroup`, `KeyLock`, `DupCall`, `TParallel` | `RWLock` | their safety |
| done | `RetryUpdate`, `Ledger` | `Bank` | their safety, both refinements |
| done | `Packages`, `Grader`, `Export`, `Gitfame` | | every safety property of `tools` |
| done | `Du`, `Memo`, `Chat`, `Wscat`, `Middleware`, `Shortener`, `Fixtures`, `Pipelines`, `SqlPool` | | every safety property of `programs` |
| done | `LRUCache`, `ArrayQueue`, `Cipher`, `Tournament` | `LRU`, `Queue` | their soundness, both refinements |
| done | `CourseList`, `Algorithms`, `Olympics`, `Duration` | the right answers beside them | every answer but `ParseDuration`'s |
| open | `LinkedQueue`, filters of `Gitfame` | `Queue` | `ParseDuration` |
