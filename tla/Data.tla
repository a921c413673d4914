----------------------------------- MODULE Data -------------------------------
(***************************************************************************)
(* Small instances of the data structures and of the functions that only   *)
(* compute, for TLC.  A behaviour is about one of them, about; the         *)
(* variables of the others are Off.  A function is called once: input is   *)
(* its arguments, output is Off until it has returned.                     *)
(***************************************************************************)
EXTENDS Integers, Sequences, SequencesExt, FiniteSets

CONSTANTS
  Which,                                        \* what the behaviours are about
  Off,
  CacheKeys, CacheValues, Capacities, MaxCalls, \* LRUCache
  Elements, Null, MaxSize,                      \* ArrayQueue
  StreamLength, Buffer,                         \* Cipher
  Counts, MaxDraws,                             \* Tournament
  CourseNames,                                  \* CourseList
  IntWidth, MaxList, MaxDay, MaxGuests          \* Algorithms: of int, and bounds of the inputs

VARIABLES
  about,
  capacity, list, holds, heap, pairs, pool, cursor, stale, shown, quiet, reply, calls,  \* LRUCache
  elements, size, front, last, result,                                                  \* ArrayQueue
  side, taken, drawn, came, ended, starved,                                             \* Cipher
  count, turnir, temp, aliased, thisPlayers, res, over, robbed,                         \* Tournament
  prereqs, roots, frames, colors, answer, panicked,                                     \* CourseList
  input, output

cachevars  == <<capacity, list, holds, heap, pairs, pool, cursor, stale, shown, quiet, reply, calls>>
queuevars  == <<elements, size, front, last, result>>
ciphervars == <<side, taken, drawn, came, ended, starved>>
gamevars   == <<count, turnir, temp, aliased, thisPlayers, res, over, robbed>>
coursevars == <<prereqs, roots, frames, colors, answer, panicked>>
callvars   == <<input, output>>
vars == <<about, cachevars, queuevars, ciphervars, gamevars, coursevars, callvars>>

\* a cache of no pairs keeps none; a tournament of nobody ends at once
ASSUME CacheCapacities == Capacities \subseteq Nat
ASSUME StreamBounds == StreamLength \in Nat /\ Buffer \in Nat
ASSUME PlayerCounts == Counts \subseteq Nat
\* Java's int has room for 1 and for -2
ASSUME IntWidths == IntWidth \in Nat /\ IntWidth >= 2
\* enqueue asserts that its element is not null
ASSUME NullIsNone == Null \notin Elements

-------------------------------------------------------------------------------
(* The instances                                                           *)

Cache == INSTANCE LRUCache WITH Keys <- CacheKeys, Values <- CacheValues
Array == INSTANCE ArrayQueue
Otp   == INSTANCE Cipher
Matches == INSTANCE Tournament
Hogwarts == INSTANCE CourseList WITH Names <- CourseNames

Functions == INSTANCE Algorithms WITH Width <- IntWidth
Equal(s) == IF s = 2 THEN 1 ELSE s          \* sports 1 and 2 differ in case only
Games == INSTANCE Olympics WITH Fold <- Equal, Missing <- 100, Malformed <- 101
Time  == INSTANCE Duration WITH
           Width <- 8, Digit <- [c \in {"0", "1", "2", "8"} |-> CASE c = "0" -> 0 [] c = "1" -> 1 [] c = "2" -> 2 [] c = "8" -> 8],
           unitMap <- [u \in {"n", "h"} |-> IF u = "n" THEN 1 ELSE 12]

Guests == {g \in [in : 0 .. MaxDay, out : 0 .. MaxDay] : g.in <= g.out}

Record(a, c, s, y, m) == [athlete |-> a, country |-> c, sport |-> s, year |-> y, medals |-> m]
Gold == <<1, 0, 0, 1>>
Silver == <<0, 1, 0, 1>>
Records == {Record(1, 1, 1, 1, Gold), Record(1, 2, 2, 2, Silver), Record(2, 1, 1, 1, Gold), Record(2, 2, 3, 2, Gold),
            Record(3, 2, 2, 1, Silver), Record(3, 3, 1, 1, <<0, 1, 2, 3>>), Record(4, 4, 1, 1, Gold)}
Limits == {100, 101, 0 - 1, 0, 1, 2}
Queries == [of : {"athlete"}, key : {1, 3, 100}, limit : {100}] \union [of : {"sport"}, key : {1, 3, 4, 100}, limit : Limits]
           \union [of : {"year"}, key : {1, 2, 3, 100, 101}, limit : Limits]

\* lists of integers that descend
Descending == {a \in SeqOf(Functions!Ints, MaxList) : \A i \in 2 .. Len(a) : a[i - 1] >= a[i]}
Lists == [a : Descending, x : Functions!Ints]
Expressions == [op : Functions!Arithmetic \union {"negate", "pow2", "log2"}, variant : {"one", "three", "list"},
                a : Functions!Ints, b : Functions!Ints]

Strings == {sign \o body : sign \in {<<>>, <<"-">>, <<"+">>}, body \in SeqOf({".", "0", "1", "2", "8", "n", "h"}, 5)}

-------------------------------------------------------------------------------
Is(a) == about = a

Inputs ==
  CASE Is("hotel") -> SeqOf(Guests, MaxGuests)
    [] Is("olympics") -> [winners : SeqOf(Records, 4), query : Queries]
    [] Is("search") -> Lists [] Is("checked") -> Expressions
    [] Is("duration") -> Strings [] OTHER -> {Off}

Init ==
  /\ about \in Which
  /\ IF Is("lru") THEN Cache!CacheInit
     ELSE /\ capacity = Off /\ list = Off /\ holds = Off /\ heap = Off /\ pairs = Off /\ pool = Off
          /\ cursor = Off /\ stale = Off /\ shown = Off /\ quiet = Off /\ reply = Off /\ calls = Off
  /\ IF Is("queue") THEN Array!QueueInit
     ELSE elements = Off /\ size = Off /\ front = Off /\ last = Off /\ result = Off
  /\ IF Is("cipher") THEN Otp!CipherInit
     ELSE side = Off /\ taken = Off /\ drawn = Off /\ came = Off /\ ended = Off /\ starved = Off
  /\ IF Is("game") THEN Matches!GameInit
     ELSE /\ count = Off /\ turnir = Off /\ temp = Off /\ aliased = Off /\ thisPlayers = Off /\ res = Off
          /\ over = Off /\ robbed = Off
  /\ IF Is("courses") THEN Hogwarts!CourseInit
     ELSE prereqs = Off /\ roots = Off /\ frames = Off /\ colors = Off /\ answer = Off /\ panicked = Off
  /\ input \in Inputs /\ output = Off

Return(value) == output = Off /\ output' = value /\ UNCHANGED <<about, cachevars, queuevars, ciphervars, gamevars, coursevars, input>>

CacheNext  == Is("lru") /\ Cache!CacheNext /\ UNCHANGED <<about, queuevars, ciphervars, gamevars, coursevars, callvars>>
QueueNext  == Is("queue") /\ Array!QueueNext /\ UNCHANGED <<about, cachevars, ciphervars, gamevars, coursevars, callvars>>
CipherNext == Is("cipher") /\ Otp!CipherNext /\ UNCHANGED <<about, cachevars, queuevars, gamevars, coursevars, callvars>>
GameNext   == Is("game") /\ Matches!GameNext /\ UNCHANGED <<about, cachevars, queuevars, ciphervars, coursevars, callvars>>
CourseNext == Is("courses") /\ Hogwarts!CourseNext /\ UNCHANGED <<about, cachevars, queuevars, ciphervars, gamevars, callvars>>

ComputeLoad   == Is("hotel") /\ Return(Functions!ComputeLoad(input))
Handle        == Is("olympics") /\ \E replied \in Games!Handle(input.winners, input.query) : Return(replied)
Search        == Is("search") /\ Return(Functions!Searched(input.a, input.x))
Evaluate      == Is("checked") /\ Return(Functions!Evaluated(input))
ParseDuration == Is("duration") /\ Return(Time!ParseDuration(input))

Next ==
  \/ CacheNext \/ QueueNext \/ CipherNext \/ GameNext \/ CourseNext
  \/ ComputeLoad \/ Handle \/ ParseDuration
  \/ Search \/ Evaluate
Spec == Init /\ [][Next]_vars

-------------------------------------------------------------------------------
(* lrucache: map, list and pool agree, no pair is both in use and in the     *)
(* pool, and Range shows the cache in its order while f leaves it alone.     *)
(* otp: every byte is hidden by the random byte of its place, whatever the   *)
(* lengths of the reads and writes.                                          *)
(* java's tournament: nobody who is out plays again, and the end comes with  *)
(* the last player, although one list is shortened while it is walked along. *)
StructuresSound ==
  /\ Is("lru") => Cache!CacheSound
  /\ Is("game") => Matches!TournamentSound
  /\ Is("cipher") => Otp!CipherAligned

\* the promises: a cache that forgets the longest unused key, a queue that is
\* a sequence
LRU  == INSTANCE LRU WITH Keys <- CacheKeys, Values <- CacheValues, order <- Cache!Order
Fifo == INSTANCE Queue WITH q <- Array!Contents

(* The list with its map and pool of lrucache implements the map that        *)
(* forgets the key unused for the longest time.                              *)
CacheForgets ==
  /\ Is("lru") => LRU!Init
  /\ [][Is("lru") => LRU!Next]_<<capacity, Cache!Order, reply>>

(* The circular array of ArrayQueue implements the first-in first-out        *)
(* sequence of ArrayQueue.java's comments, not that of the interface's, also *)
(* when it grows while it is wrapped around.                                 *)
QueueIsFifo ==
  /\ Is("queue") => Fifo!Init
  /\ [][Is("queue") => Fifo!Next]_queuevars

(* What Queue.java:12-14 says of dequeue in the model a[1] .. a[n], "n' =    *)
(* n - 1 && R = a[n] && n' = n - 1 && immutable(n')": it returns the last    *)
(* element, and the others stay where they are.                              *)
DequeueAsDocumented ==
  [][Is("queue") /\ Array!dequeue =>
       result' = Array!Contents[size] /\ \A i \in 1 .. size - 1 : (Array!Contents')[i] = Array!Contents[i]]_queuevars

(* lrucache: Range, whatever its callback does to the cache, shows next a    *)
(* pair the cache has, unless the callback has cleared it; a callback that   *)
(* evicts the pair it stands on ends the Range.                              *)
RangeShowsLive == [][Is("lru") => Cache!ShowsLive]_cachevars

(* ComputeLoad gives a step function that is right on every day;             *)
(* GetCourseList an order, or a panic exactly for a cycle, whatever course   *)
(* the map gives first; the olympics handlers sum every record once and rank *)
(* the same way for every order of the map.  Both of java's binary searches  *)
(* find the first place.  Its checked arithmetic throws exactly when the     *)
(* result is no int, but for the logarithm of one variable or a list and     *)
(* for the operations of one variable, which wrap (CheckedRight).            *)
AnswersRight ==
  /\ Is("courses") => Hogwarts!CoursesRight
  /\ output # Off =>
       /\ Is("hotel") => Functions!LoadRight(input, output)
       /\ Is("olympics") => Games!ReplyRight(input.winners, input.query, output)
       /\ Is("search") => Functions!SearchRight(input.a, input.x, output)
       /\ Is("checked") => Functions!CheckedRight(input, output)

(* ParseDuration accepts the strings of its comment's grammar whose size is  *)
(* at most the largest integer, and only those; the smallest integer is not  *)
(* among them.                                                               *)
DurationsRight == Is("duration") /\ output # Off => Time!DurationRight(input, output)
===============================================================================
