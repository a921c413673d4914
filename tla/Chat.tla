---------------------------------- MODULE Chat --------------------------------
(***************************************************************************)
(* lectures/03-goroutines/chat: a broadcaster owns the map of clients; per *)
(* connection a handler reads lines and a writer prints what the unbuffered*)
(* channel of the client carries.  All channels are unbuffered: a send and *)
(* its receive are one step.                                               *)
(***************************************************************************)
EXTENDS Naturals, FiniteSets

CONSTANTS
  Conns,     \* the connections main accepts
  MaxLines   \* bound: lines one client types

VARIABLES
  handler,   \* connection -> where handleConn is
  writer,    \* connection -> "none", "receive", "write" or "ended"
  clients,   \* the broadcaster's map
  pending,   \* the clients its loop over the map has yet to send msg to
  shut,      \* the client channels it has closed
  lines,     \* connection -> lines typed so far
  stalled    \* the connections whose peer does not read: a write blocks

chatvars == <<handler, writer, clients, pending, shut, lines, stalled>>

ChatInit ==
  /\ handler = [c \in Conns |-> "none"] /\ writer = [c \in Conns |-> "none"]
  /\ clients = {} /\ pending = {} /\ shut = {}
  /\ lines = [c \in Conns |-> 0]
  /\ stalled \in SUBSET Conns

Handler(c, from, to) == handler[c] = from /\ handler' = [handler EXCEPT ![c] = to]
Writer(c, from, to)  == writer[c] = from /\ writer' = [writer EXCEPT ![c] = to]
Selecting == pending = {}    \* the broadcaster is at its select

\* main's Accept, go handleConn, go clientWriter
Accept(c) ==
  /\ Handler(c, "none", "hello") /\ Writer(c, "none", "receive")
  /\ UNCHANGED <<clients, pending, shut, lines, stalled>>

\* ch <- "You are ..."
Hello(c) ==
  /\ Handler(c, "hello", "arrived") /\ Writer(c, "receive", "write")
  /\ UNCHANGED <<clients, pending, shut, lines, stalled>>

\* messages <- ...: an arrival, a line, a departure
Message(c) ==
  /\ Selecting /\ pending' = clients
  /\ \/ Handler(c, "arrived", "enter")
     \/ Handler(c, "say", "scan")
     \/ Handler(c, "left", "ended")
  /\ UNCHANGED <<writer, clients, shut, lines, stalled>>

\* cli <- msg
Deliver(c) ==
  /\ c \in pending /\ pending' = pending \ {c}
  /\ Writer(c, "receive", "write")
  /\ UNCHANGED <<handler, clients, shut, lines, stalled>>

Enter(c) ==
  /\ Selecting /\ Handler(c, "enter", "scan")
  /\ clients' = clients \union {c}
  /\ UNCHANGED <<writer, pending, shut, lines, stalled>>

\* input.Scan(): a line, or the end of the input
Scan(c) ==
  /\ \/ lines[c] < MaxLines /\ Handler(c, "scan", "say") /\ lines' = [lines EXCEPT ![c] = @ + 1]
     \/ Handler(c, "scan", "leave") /\ UNCHANGED lines
  /\ UNCHANGED <<writer, clients, pending, shut, stalled>>

Leave_KeepsClient(c) ==             \* mutant: the channel is closed and stays in the map
  /\ Selecting /\ Handler(c, "leave", "left")
  /\ shut' = shut \union {c}
  /\ UNCHANGED <<writer, clients, pending, lines, stalled>>

\* leaving <- ch: delete and close
Leave(c) ==
  /\ Selecting /\ Handler(c, "leave", "left")
  /\ clients' = clients \ {c} /\ shut' = shut \union {c}
  /\ UNCHANGED <<writer, pending, lines, stalled>>

\* Fprintln: blocks while the peer does not read, fails once the connection
\* is closed (conn.Close() follows the last message)
Write(c) ==
  /\ Writer(c, "write", "receive")
  /\ c \notin stalled \/ handler[c] = "ended"
  /\ UNCHANGED <<handler, clients, pending, shut, lines, stalled>>

WriterEnds(c) ==
  /\ c \in shut /\ Writer(c, "receive", "ended")
  /\ UNCHANGED <<handler, clients, pending, shut, lines, stalled>>

broadcaster(c) == Message(c) \/ Deliver(c) \/ Enter(c) \/ Leave(c)
handleConn(c) == Accept(c) \/ Hello(c) \/ Scan(c)
clientWriter(c) == Write(c) \/ WriterEnds(c)
ChatNext == \E c \in Conns : broadcaster(c) \/ handleConn(c) \/ clientWriter(c)

-------------------------------------------------------------------------------
(* The broadcaster never sends on a channel it has closed, which would panic *)
(* and end the server for everybody, nor closes one twice; a channel is open *)
(* for as long as its client is in the map.                                  *)
ChatChannels ==
  /\ (pending \union clients) \intersect shut = {}
  /\ \A c \in Conns : c \in shut => handler[c] \in {"left", "ended"}

(* When every client reads what it is sent, everybody comes, talks and goes.  *)
(* One client that does not read stops the broadcaster, and everybody.       *)
ChatEnds == stalled = {} => \A c \in Conns : handler[c] = "ended" /\ writer[c] = "ended"
===============================================================================
