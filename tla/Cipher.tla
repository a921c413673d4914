--------------------------------- MODULE Cipher -------------------------------
(***************************************************************************)
(* otp: NewReader and NewWriter around a reader or a writer and a source   *)
(* of random bytes, prng.  The i-th byte of a stream should be hidden by   *)
(* the i-th byte of prng, however the calls cut the stream.  A byte that   *)
(* comes out is <<its place in the stream, the place of its random byte>>; *)
(* 0 is a byte that was not hidden.                                        *)
(***************************************************************************)
EXTENDS Naturals, Sequences, FiniteSetsExt

CONSTANTS
  StreamLength,     \* the bytes of the stream
  Buffer            \* the longest slice a call is made with

VARIABLES
  side,       \* "reader" or "writer"
  taken,      \* bytes taken from r, or from the caller
  drawn,      \* bytes taken from prng
  came,       \* the bytes that came out
  ended,      \* a call has returned an error
  starved     \* history: prng has filled less than it was asked for, or failed

ciphervars == <<side, taken, drawn, came, ended, starved>>

CipherInit ==
  /\ side \in {"reader", "writer"}
  /\ taken = 0 /\ drawn = 0 /\ came = <<>> /\ ended = FALSE /\ starved = FALSE

\* n bytes of the stream, the first m of them hidden
Hidden(n, m) == [i \in 1 .. n |-> <<taken + i, IF i <= m THEN drawn + i ELSE 0>>]

Read_WholeBuffer(p) ==              \* mutant: randoms is as long as p
  /\ side = "reader" /\ p > 0
  /\ \E n \in 0 .. Min({p, StreamLength - taken}) :
       /\ taken' = taken + n /\ drawn' = drawn + p
       /\ came' = came \o Hidden(n, n)
  /\ UNCHANGED <<side, ended, starved>>

\* r gives n bytes, with or without an error; prng then fills m of n, with or
\* without one.  An error of r next to bytes is dropped; one of prng is
\* returned with the bytes as they are.
Read(p) ==
  /\ side = "reader" /\ p > 0
  /\ \E n \in 0 .. Min({p, StreamLength - taken}), fails \in BOOLEAN :
       IF fails /\ n = 0 THEN ended' = TRUE /\ UNCHANGED <<taken, drawn, came, starved>>
       ELSE \E m \in 0 .. n, prngFails \in BOOLEAN :
              /\ taken' = taken + n /\ drawn' = drawn + m
              /\ came' = came \o Hidden(m, IF prngFails THEN 0 ELSE m)
              /\ ended' = prngFails
              /\ starved' = (starved \/ m < n \/ prngFails)
  /\ UNCHANGED side

\* What prng returns is not looked at; w may take only a part, with an error.
Write(p) ==
  /\ side = "writer" /\ p <= StreamLength - taken
  /\ \E m \in 0 .. p, k \in 0 .. p :
       /\ taken' = taken + k /\ drawn' = drawn + m
       /\ came' = came \o SubSeq(Hidden(p, m), 1, k)
       /\ ended' = (k < p)
       /\ starved' = (starved \/ m < p)
  /\ UNCHANGED side

CipherNext == ~ended /\ \E p \in 1 .. Buffer : Read(p) \/ Write(p)

-------------------------------------------------------------------------------
(* As long as prng fills what it is asked for, every byte that comes out is  *)
(* hidden by the random byte of its own place, and none is lost: the two     *)
(* ends agree however each has cut its stream.                               *)
CipherAligned == ~starved => came = [i \in 1 .. taken |-> <<i, i>>]
===============================================================================
