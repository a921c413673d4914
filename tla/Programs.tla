-------------------------------- MODULE Programs ------------------------------
(***************************************************************************)
(* The concurrent programs of the repository.  A behaviour runs one of     *)
(* them, program; the variables of the others are Off.                     *)
(***************************************************************************)
EXTENDS Naturals, Sequences, FiniteSets

CONSTANTS
  Which,     \* the programs to run
  Off,
  Roots, Tree, MaxOpen,                                     \* Du
  Getters, Keys, NoGetter,                                  \* Memo
  Conns, MaxLines,                                          \* Chat
  MaxMessages,                                              \* Wscat
  Requests, Loads, UserPaths,                               \* Middleware
  Posts, Urls, RandomKeys, Bad,                             \* Shortener
  FixtureTests, Mixes, Ports, MaxPolls,                     \* Fixtures
  Limit, FetchUrls, Inputs, Feeder,                         \* Pipelines
  PoolCallers, MaxConns, Ids, MaxRows,                      \* SqlPool
  DoCallers, MaxCalls,                                      \* DupCall
  Root, ParallelTests, TestFunctions, Parallel,             \* TParallel
  Goroutines, Bodies                                        \* Once

VARIABLES
  program,
  du, walk, rest, n, closed, done, main, counted, nfiles, missed,                \* Du
  memo, get, wants, mu, entries, cached, calls, got,                             \* Memo
  handler, writer, clients, pending, shut, lines, stalled,                       \* Chat
  reader, sender, wmain, link, cancelled, signal, late, inflight, wsent, typed,  \* Wscat
  request, at, status, user, metrics, lock, writing, value, keys, printed,
    before, log, dead,                                                           \* Middleware
  post, url, key, db, mutex, clash,                                              \* Shortener
  fixture, test, port, proc, owner, polls, flate, cleanup, binary, builds, path, \* Fixtures
  pipe, go, shutch, out,                                                         \* Pipelines
  call, step, held, cut, users, used, answer, crashed,                           \* SqlPool
  group, groups, dpc, ctx, mine, left,                                           \* DupCall
  script, tpc, ip, start, childrens, barrier, joined,                            \* TParallel
  onec, opc, inner, fcalls, fended                                              \* Once

duvars    == <<du, walk, rest, n, closed, done, main, counted, nfiles, missed>>
memovars  == <<memo, get, wants, mu, entries, cached, calls, got>>
chatvars  == <<handler, writer, clients, pending, shut, lines, stalled>>
wscatvars == <<reader, sender, wmain, link, cancelled, signal, late, inflight, wsent, typed>>
webvars   == <<request, at, status, user, metrics, lock, writing, value, keys, printed, before, log, dead>>
shortvars == <<post, url, key, db, mutex, clash>>
fixvars   == <<fixture, test, port, proc, owner, polls, flate, cleanup, binary, builds, path>>
pipevars  == <<pipe, go, shutch, out>>
sqlvars   == <<call, step, held, cut, users, used, answer, crashed>>
dupvars   == <<group, groups, dpc, ctx, mine, left>>
tparvars  == <<script, tpc, ip, start, childrens, barrier, joined>>
oncevars  == <<onec, opc, inner, fcalls, fended>>
vars == <<program, duvars, memovars, chatvars, wscatvars, webvars, shortvars, fixvars, pipevars, sqlvars, dupvars, tparvars,
          oncevars>>

-------------------------------------------------------------------------------
(* The programs                                                            *)

Walk  == INSTANCE Du
Cache == INSTANCE Memo
Talk  == INSTANCE Chat
Cat   == INSTANCE Wscat
Web   == INSTANCE Middleware
Short == INSTANCE Shortener
Fix   == INSTANCE Fixtures WITH Tests <- FixtureTests, late <- flate
Pipe  == INSTANCE Pipelines WITH Urls <- FetchUrls
Sql   == INSTANCE SqlPool WITH Callers <- PoolCallers
Dup   == INSTANCE DupCall WITH Callers <- DoCallers, pc <- dpc
Par   == INSTANCE TParallel WITH Tests <- ParallelTests, Programs <- TestFunctions, pc <- tpc
One   == INSTANCE Once WITH c <- onec, pc <- opc, calls <- fcalls, ended <- fended

-------------------------------------------------------------------------------
(* The directories of du are trees, the roots of which are on the command    *)
(* line: ReadDir and Readdir do not follow links, and no argument is below   *)
(* another.                                                                  *)
ASSUME FileTrees ==
  /\ IsFiniteSet(Walk!Dirs) /\ Roots \subseteq Walk!Dirs /\ MaxOpen \in Nat
  /\ \A p, q \in Walk!Dirs : p # q => Tree[p] \intersect Tree[q] = {}
  /\ \A d \in Walk!Dirs : d \in Roots <=> \A p \in Walk!Dirs : d \notin Tree[p]
  /\ \E depth \in [Walk!Dirs -> 0 .. Cardinality(Walk!Dirs)] :
       \A p \in Walk!Dirs : \A d \in Tree[p] \intersect Walk!Dirs : depth[p] < depth[d]

(* What auth.Checker may answer.                                             *)
ASSUME WebLoads ==
  /\ IsFiniteSet(Requests)
  /\ \A load \in Loads : \A r \in Requests :
       load[r].handler = "metrics" \/ load[r].check \in {"ok", "ErrInvalidToken", "error"}

(* A goroutine of the pipelines and a channel of theirs have a name each;    *)
(* the values of MergeChans tell the channel they came by.                   *)
ASSUME PipeNames ==
  /\ Limit \in Nat
  /\ LET named == {"counter", "squarer", "copier", "closer", "printer", "out"}
     IN  /\ (FetchUrls \union Pipe!Workers \union Pipe!Feeders) \intersect named = {}
         /\ FetchUrls \intersect (Pipe!Workers \union Pipe!Feeders) = {} /\ Pipe!Workers \intersect Pipe!Feeders = {}
  /\ \A w \in Pipe!Workers : Inputs[w] \in Seq(Pipe!ToSet(Inputs[w]))
  /\ \A w, x \in Pipe!Workers : w # x =>
       Feeder[w] # Feeder[x] /\ Pipe!ToSet(Inputs[w]) \intersect Pipe!ToSet(Inputs[x]) = {}

ASSUME PoolRows == MaxRows \in Nat

(* A set of test functions for tparallel: every call of Run makes a T of its *)
(* own, and Run itself is no test that could be parallel.                    *)
ASSUME TestScripts ==
  /\ Root \notin ParallelTests /\ Parallel \notin Par!Nodes
  /\ \A f \in TestFunctions :
       /\ f \in [Par!Nodes -> Seq(ParallelTests \union {Parallel})]
       /\ \A i \in DOMAIN f[Root] : f[Root][i] # Parallel
       /\ \A p, q \in Par!Nodes : \A i \in DOMAIN f[p], j \in DOMAIN f[q] :
            f[p][i] = f[q][j] /\ f[p][i] # Parallel => p = q /\ i = j

ASSUME BodiesKnown == Bodies \subseteq One!AllBodies

\* 0 is no request; NoGetter is no goroutine
ASSUME NoPost == 0 \notin Posts
ASSUME NobodyGets == NoGetter \notin Getters

-------------------------------------------------------------------------------
Is(p) == program = p

Init ==
  /\ program \in Which
  /\ IF Is("du") THEN Walk!DuInit
     ELSE /\ du = Off /\ walk = Off /\ rest = Off /\ n = Off /\ closed = Off /\ done = Off /\ main = Off
          /\ counted = Off /\ nfiles = Off /\ missed = Off
  /\ IF Is("memo") THEN Cache!MemoInit
     ELSE /\ memo = Off /\ get = Off /\ wants = Off /\ mu = Off /\ entries = Off /\ cached = Off
          /\ calls = Off /\ got = Off
  /\ IF Is("chat") THEN Talk!ChatInit
     ELSE /\ handler = Off /\ writer = Off /\ clients = Off /\ pending = Off /\ shut = Off
          /\ lines = Off /\ stalled = Off
  /\ IF Is("wscat") THEN Cat!WscatInit
     ELSE /\ reader = Off /\ sender = Off /\ wmain = Off /\ link = Off /\ cancelled = Off /\ signal = Off
          /\ late = Off /\ inflight = Off /\ wsent = Off /\ typed = Off
  /\ IF Is("middleware") THEN Web!WebInit
     ELSE /\ request = Off /\ at = Off /\ status = Off /\ user = Off /\ metrics = Off /\ lock = Off
          /\ writing = Off /\ value = Off /\ keys = Off /\ printed = Off /\ before = Off /\ log = Off /\ dead = Off
  /\ IF Is("shortener") THEN Short!ShortInit
     ELSE /\ post = Off /\ url = Off /\ key = Off /\ db = Off /\ mutex = Off /\ clash = Off
  /\ IF Is("fixtures") THEN Fix!FixInit
     ELSE /\ fixture = Off /\ test = Off /\ port = Off /\ proc = Off /\ owner = Off /\ polls = Off
          /\ flate = Off /\ cleanup = Off /\ binary = Off /\ builds = Off /\ path = Off
  /\ IF Is("pipelines") THEN Pipe!PipeInit
     ELSE pipe = Off /\ go = Off /\ shutch = Off /\ out = Off
  /\ IF Is("sqlpool") THEN Sql!SqlInit
     ELSE /\ call = Off /\ step = Off /\ held = Off /\ cut = Off /\ users = Off /\ used = Off
          /\ answer = Off /\ crashed = Off
  /\ IF Is("dupcall") THEN Dup!Init
     ELSE group = Off /\ groups = Off /\ dpc = Off /\ ctx = Off /\ mine = Off /\ left = Off
  /\ IF Is("tparallel") THEN Par!Init
     ELSE /\ script = Off /\ tpc = Off /\ ip = Off /\ start = Off /\ childrens = Off /\ barrier = Off
          /\ joined = Off
  /\ IF Is("once") THEN One!Init
     ELSE onec = Off /\ opc = Off /\ inner = Off /\ fcalls = Off /\ fended = Off

DuNext == Is("du") /\ Walk!DuNext /\
  UNCHANGED <<program, memovars, chatvars, wscatvars, webvars, shortvars, fixvars, pipevars, sqlvars, dupvars, tparvars, oncevars>>
MemoNext == Is("memo") /\ Cache!MemoNext /\
  UNCHANGED <<program, duvars, chatvars, wscatvars, webvars, shortvars, fixvars, pipevars, sqlvars, dupvars, tparvars, oncevars>>
ChatNext == Is("chat") /\ Talk!ChatNext /\
  UNCHANGED <<program, duvars, memovars, wscatvars, webvars, shortvars, fixvars, pipevars, sqlvars, dupvars, tparvars, oncevars>>
WscatNext == Is("wscat") /\ Cat!WscatNext /\
  UNCHANGED <<program, duvars, memovars, chatvars, webvars, shortvars, fixvars, pipevars, sqlvars, dupvars, tparvars, oncevars>>
WebNext == Is("middleware") /\ Web!WebNext /\
  UNCHANGED <<program, duvars, memovars, chatvars, wscatvars, shortvars, fixvars, pipevars, sqlvars, dupvars, tparvars, oncevars>>
ShortNext == Is("shortener") /\ Short!ShortNext /\
  UNCHANGED <<program, duvars, memovars, chatvars, wscatvars, webvars, fixvars, pipevars, sqlvars, dupvars, tparvars, oncevars>>
FixNext == Is("fixtures") /\ Fix!FixNext /\
  UNCHANGED <<program, duvars, memovars, chatvars, wscatvars, webvars, shortvars, pipevars, sqlvars, dupvars, tparvars, oncevars>>
PipeNext == Is("pipelines") /\ Pipe!PipeNext /\
  UNCHANGED <<program, duvars, memovars, chatvars, wscatvars, webvars, shortvars, fixvars, sqlvars, dupvars, tparvars, oncevars>>
SqlNext == Is("sqlpool") /\ Sql!SqlNext /\
  UNCHANGED <<program, duvars, memovars, chatvars, wscatvars, webvars, shortvars, fixvars, pipevars, dupvars, tparvars, oncevars>>
OthersThanDup == UNCHANGED <<program, duvars, memovars, chatvars, wscatvars, webvars, shortvars, fixvars, pipevars, sqlvars, tparvars, oncevars>>
DupNext == Is("dupcall") /\ Dup!Next /\ OthersThanDup
ParNext == Is("tparallel") /\ Par!Next /\
  UNCHANGED <<program, duvars, memovars, chatvars, wscatvars, webvars, shortvars, fixvars, pipevars, sqlvars, dupvars, oncevars>>
OthersThanOnce == UNCHANGED <<program, duvars, memovars, chatvars, wscatvars, webvars, shortvars, fixvars, pipevars, sqlvars, dupvars, tparvars>>
OnceNext == Is("once") /\ One!Next /\ OthersThanOnce

Next ==
  \/ DuNext \/ MemoNext \/ ChatNext \/ WscatNext \/ WebNext \/ ShortNext
  \/ FixNext \/ PipeNext \/ SqlNext \/ DupNext \/ ParNext \/ OnceNext

\* What the scheduler and the environment of a program do sooner or later:
\* everything, but in dupcall no call, no cancellation and no end of a callback.
\* No behaviour of these is infinite, so no step needs a fairness of its own.
Progress ==
  \/ ~Is("dupcall") /\ ~Is("once") /\ Next
  \/ /\ Is("dupcall") /\ OthersThanDup
     /\ (\E c \in DoCallers : Dup!CallerStep(c)) \/ (\E i \in DOMAIN groups : Dup!RunnerStep(i))
\* once: a goroutine in Do is scheduled, and an f that does not reenter ends.
OnceStep(g) == Is("once") /\ One!Step(g) /\ OthersThanOnce
Fairness == WF_vars(Progress) /\ \A g \in Goroutines : WF_vars(OnceStep(g))
Spec == Init /\ [][Next]_vars /\ Fairness

-------------------------------------------------------------------------------
(* The properties of the components, each of the program that runs         *)

(* du, chat, and the small pipelines: nobody sends on a channel somebody has *)
(* closed, or closes it twice; values come out in the order they went in.    *)
ChannelsSafe ==
  /\ Is("du") => Walk!DuNoSendAfterClose
  /\ Is("chat") => Talk!ChatChannels
  /\ Is("pipelines") => Pipe!PipesRight

(* What the programs answer: du's totals, memo's one call per key, wscat's   *)
(* reasons to exit, the gauge's counts and what the middleware logs, the     *)
(* short links, and the dao's ids, however the goroutines are scheduled.     *)
ResultsRight ==
  /\ Is("du") => Walk!DuTotalsRight
  /\ Is("memo") => Cache!MemoOnce
  /\ Is("wscat") => Cat!WscatExits
  /\ Is("middleware") => Web!GaugeCounts /\ Web!AuthAndLog
  /\ Is("shortener") => Short!ShortLinks
  /\ Is("sqlpool") => Sql!DaoRight

(* The test fixtures leave no server and hand out no half-built binary; the  *)
(* functions over a database give their connections back on every path, but  *)
(* for the examples that show how not to.                                    *)
NothingLeft ==
  /\ Is("fixtures") => Fix!BinaryComplete /\ Fix!NoServerLeft
  /\ Is("sqlpool") => Sql!PoolRestored

(* once: f is called at most once for a Once.  dupcall: at any moment one    *)
(* callback runs, for the group o.group points to; when everyone who waits   *)
(* for it has been cancelled, so has it.                                     *)
CallbacksRight ==
  /\ Is("once") => One!CalledOnce
  /\ Is("dupcall") => Dup!OneActiveGroup /\ Dup!AbandonedCbIsCancelled

(* No Do of once returns before the one call of f has ended.                 *)
NoReturnBeforeF == [][Is("once") => One!NoReturnBeforeF]_oncevars

(* tparallel: a test starts when the earlier ones of its function have ended *)
(* or are parked, and a parked one resumes after the function of its parent. *)
TestsInOrder == [][Is("tparallel") => Par!StartsInOrder /\ Par!ParallelAfterParent]_tparvars

(* tparallel's README: Run returns when all the tests have.                  *)
RunWaitsForAll == Is("tparallel") => Par!RunWaitsForAll

(* dupcall: a cancelled Do returns although its callback may never end, and  *)
(* every Do returns if the callbacks end.  Callers are alike, so this is about *)
(* any one of them.  once: every Do returns, also when f panics, unless f    *)
(* calls Do.                                                                 *)
DoReturns ==
  LET c == CHOOSE c \in DoCallers : TRUE
      g == CHOOSE g \in Goroutines : TRUE
  IN  /\ Is("dupcall") /\ Dup!MustReturn(c) ~> Is("dupcall") /\ dpc[c] = "idle"
      /\ []<>~(Is("dupcall") /\ Dup!CbRuns) => (Is("dupcall") /\ dpc[c] = "do" ~> Is("dupcall") /\ dpc[c] = "idle")
      /\ [](Is("once") => inner = {}) => (Is("once") /\ opc[g] # "idle" ~> Is("once") /\ opc[g] = "idle")

(* The programs end, with nobody waiting for ever: du and its walkers, every *)
(* Get, the chat of clients that read, wscat within its second, the requests,*)
(* the fixtures, the pipelines, the calls that wait for a connection once    *)
(* their context is cancelled, and tparallel's Run unless a parallel test    *)
(* has a parallel subtest.                                                   *)
ProgramsEnd ==
  /\ <>CASE Is("du") -> Walk!DuEnds [] Is("memo") -> Cache!MemoEnds [] Is("chat") -> Talk!ChatEnds
        [] Is("wscat") -> Cat!WscatEnds [] Is("middleware") -> Web!WebEnds [] Is("shortener") -> Short!ShortEnds
        [] Is("fixtures") -> Fix!FixEnds [] Is("pipelines") -> Pipe!PipesEnd
        [] Is("tparallel") -> Par!NestedParallel \/ Par!RunEnded [] Is("sqlpool") -> Sql!PoolEnds
        [] OTHER -> TRUE
  /\ LET c == CHOOSE c \in PoolCallers : TRUE
     IN  Is("sqlpool") /\ Sql!MustEnd(c) ~> Is("sqlpool") /\ ~Sql!Alive(c)
===============================================================================
