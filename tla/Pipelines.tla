-------------------------------- MODULE Pipelines -----------------------------
(***************************************************************************)
(* Programs that are goroutines around unbuffered channels: pipeline1 and  *)
(* pipeline2, netcat3 and netcat4, the two fetchall, and genericsum's      *)
(* MergeChans with goroutines that fill its channels and one that reads.   *)
(* What a goroutine does next is an instruction; a send and a receive of   *)
(* one channel are one joint step, a receive from a closed channel is the  *)
(* end of a range.                                                         *)
(***************************************************************************)
EXTENDS Naturals, Sequences, SequencesExt, FiniteSets

CONSTANTS
  Limit,      \* the numbers the counter sends; pipeline1's counter blocks there (bound)
  Urls,       \* the arguments of fetchall
  Inputs,     \* the inputs of MergeChans: worker -> the values its channel carries
  Feeder      \* worker -> the goroutine that fills its channel

Workers == DOMAIN Inputs
Feeders == {Feeder[w] : w \in Workers}
Pipes == {"pipeline1", "pipeline2", "netcat3", "netcat4", "fetchall", "MergeChans"}
Procs(p) == CASE p \in {"pipeline1", "pipeline2"} -> {"counter", "squarer", "printer"}
              [] p \in {"netcat3", "netcat4"}     -> {"copier", "printer"}
              [] p = "fetchall"                   -> Urls \union {"printer"}
              [] p = "MergeChans"                 -> Workers \union Feeders \union {"closer", "printer"}

VARIABLES
  pipe,     \* the program
  go,       \* goroutine -> [at, v]: where it is, and its variable
  shutch,   \* the closed channels
  out       \* what main, or the reader of MergeChans, has received

pipevars == <<pipe, go, shutch, out>>

PipeInit ==
  /\ pipe \in Pipes
  /\ go = [p \in Procs(pipe) |-> [at |-> "begin", v |-> 0]]
  /\ shutch = {} /\ out = <<>>

Send(ch, val, at, v) == [do |-> "send", ch |-> ch, val |-> val, to |-> [at |-> at, v |-> v]]
Recv(ch, at, eof)    == [do |-> "recv", ch |-> ch, at |-> at, eof |-> eof]
Close(ch, at)        == [do |-> "close", ch |-> ch, at |-> at]
Wait(for, at)        == [do |-> "wait", for |-> for, at |-> at]

-------------------------------------------------------------------------------
(* The instruction of a goroutine in state s; none when it has ended, or     *)
(* blocks for ever                                                           *)

counter(s) ==
  IF s.at = "ended" THEN {}
  ELSE IF s.v < Limit THEN {Send("naturals", s.v, "begin", s.v + 1)}
  ELSE IF pipe = "pipeline2" THEN {Close("naturals", "ended")} ELSE {}

squarer(s) ==
  CASE s.at = "begin"  -> {Recv("naturals", "square", "close")}
    [] s.at = "square" -> {Send("squares", s.v * s.v, "begin", 0)}
    [] s.at = "close"  -> {Close("squares", "ended")}
    [] OTHER -> {}

\* netcat: after Dial the server's output is copied until the connection ends,
\* which main closes when stdin has ended; an error of Dial is fatal
copier(s) ==
  CASE s.at = "begin" -> IF go["printer"].at \in {"begin", "fatal"} THEN {}
                         ELSE {Wait({}, "done")} \* the server may end first
    [] s.at = "done"  -> IF pipe = "netcat3" THEN {Send("done", 0, "ended", 0)} ELSE {Close("done", "ended")}
    [] OTHER -> {}
netcat(s) ==
  CASE s.at = "begin" -> {Wait({}, "copy"), Wait({}, "fatal")}
    [] s.at = "copy"  -> {Wait({}, "wait")}
    [] s.at = "wait"  -> {Recv("done", "ended", "ended")}
    [] OTHER -> {}

\* whatever http.Get and io.Copy return, one message
fetch(p, s) ==
  CASE s.at = "begin" -> {Wait({}, "got"), Wait({}, "failed")}
    [] s.at \in {"got", "failed"} -> {Send("ch", p, "ended", 0)}
    [] OTHER -> {}

\* for range args
fetchall(s) == IF Len(out) < Cardinality(Urls) THEN {Recv("ch", "begin", "ended")} ELSE {}

feeder(f, s) ==
  LET w == CHOOSE w \in Workers : Feeder[w] = f
  IN  IF s.at = "ended" THEN {}
      ELSE IF s.v < Len(Inputs[w]) THEN {Send(w, Inputs[w][s.v + 1], "begin", s.v + 1)}
      ELSE {Close(w, "ended")}

worker(w, s) ==
  CASE s.at = "begin" -> {Recv(w, "out", "ended")}
    [] s.at = "out"   -> {Send("out", s.v, "begin", 0)}
    [] OTHER -> {}

\* wg.Wait(): the workers have called wg.Done()
closer(s) ==
  CASE s.at = "begin" -> {Wait(Workers, "close")}
    [] s.at = "close" -> {Close("out", "ended")}
    [] OTHER -> {}

reader(ch, s) == IF s.at = "begin" THEN {Recv(ch, "begin", "ended")} ELSE {}

Code(p) ==
  LET s == go[p]
  IN  CASE p = "counter" -> counter(s)
        [] p = "squarer" -> squarer(s)
        [] p = "copier" -> copier(s)
        [] p \in Urls -> fetch(p, s)
        [] p \in Workers -> worker(p, s)
        [] p = "closer" -> closer(s)
        [] p = "printer" -> (CASE pipe \in {"pipeline1", "pipeline2"} -> reader("squares", s)
                               [] pipe = "MergeChans" -> reader("out", s)
                               [] pipe = "fetchall" -> fetchall(s)
                               [] OTHER -> netcat(s))
        [] OTHER -> feeder(p, s)

-------------------------------------------------------------------------------
At(at, v) == [at |-> at, v |-> v]

Meet(p, q) ==
  \E i \in Code(p), j \in Code(q) :
    /\ i.do = "send" /\ j.do = "recv" /\ i.ch = j.ch
    /\ go' = [go EXCEPT ![p] = i.to, ![q] = At(j.at, IF q = "printer" THEN 0 ELSE i.val)]
    /\ out' = IF q = "printer" /\ j.ch # "done" THEN Append(out, i.val) ELSE out
    /\ UNCHANGED <<pipe, shutch>>

Alone(p) ==
  \E i \in Code(p) :
    /\ \/ i.do = "close" /\ i.ch \notin shutch /\ go' = [go EXCEPT ![p] = At(i.at, 0)]
          /\ shutch' = shutch \union {i.ch}
       \/ i.do = "recv" /\ i.ch \in shutch /\ go' = [go EXCEPT ![p] = At(i.eof, 0)] /\ UNCHANGED shutch
       \/ i.do = "wait" /\ (\A q \in i.for : go[q].at = "ended") /\ go' = [go EXCEPT ![p] = At(i.at, 0)]
          /\ UNCHANGED shutch
    /\ UNCHANGED <<pipe, out>>

PipeNext ==
  \/ \E p \in DOMAIN go : Alone(p)
  \/ \E p, q \in DOMAIN go : Meet(p, q)

-------------------------------------------------------------------------------
\* the places in out of the values of w, and those up to the i-th
From(w) == {i \in 1 .. Len(out) : out[i] \in ToSet(Inputs[w])}
UpTo(w, i) == {j \in From(w) : j <= i}

(* A send or a close never meets a closed channel, which would panic; the    *)
(* squares come in order, every URL once, and MergeChans hands on what each  *)
(* channel carries, in its order: the k-th of its values out is its k-th in. *)
PipesRight ==
  /\ \A p \in DOMAIN go : \A i \in Code(p) : i.do \in {"send", "close"} => i.ch \notin shutch
  /\ pipe \in {"pipeline1", "pipeline2"} => out = [i \in 1 .. Len(out) |-> (i - 1) * (i - 1)]
  /\ pipe = "fetchall" => IsInjective(out)
  /\ pipe = "MergeChans" => \A w \in Workers : \A i \in From(w) :
       LET k == Cardinality(UpTo(w, i)) IN k \in DOMAIN Inputs[w] /\ out[i] = Inputs[w][k]

(* All goroutines end when nothing is lost: every square is printed, every   *)
(* URL answered, the merged channel closed after the last value; netcat3's   *)
(* copier too, although it sends on done, unless its Dial failed.  pipeline1 *)
(* runs for ever.                                                            *)
PipesEnd ==
  /\ pipe \notin {"pipeline1", "fetchall"} /\ go["printer"].at # "fatal" => \A p \in DOMAIN go : go[p].at = "ended"
  /\ pipe \in {"pipeline1", "pipeline2"} => Len(out) = Limit
  /\ pipe = "fetchall" => ToSet(out) = Urls
  /\ pipe = "MergeChans" => \A w \in Workers : Cardinality(From(w)) = Len(Inputs[w])
===============================================================================
