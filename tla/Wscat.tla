--------------------------------- MODULE Wscat --------------------------------
(***************************************************************************)
(* wscat: after Dial, one goroutine prints what the server sends, one sends*)
(* the lines of stdin, and main waits for a signal, for the reader's end or*)
(* for one second, whichever select takes; then os.Exit(0), without the    *)
(* deferred calls and whatever the other two are doing.                    *)
(***************************************************************************)
EXTENDS Naturals

CONSTANT MaxMessages   \* bound: messages in either direction

VARIABLES
  reader,    \* "none", "check", "read", "print" or "ended"
  sender,    \* "none", "scan", "check", "write" or "ended"
  wmain,     \* "dial", "select", "cancel", "exit" or "dead"
  link,      \* the connection: "open", "closing" (a close frame was sent) or "broken"
  cancelled, \* ctx
  signal,    \* a signal is in the channel stop
  late,      \* a second has passed since the select began
  inflight,  \* messages of the server that are not yet printed
  wsent,     \* messages of the server so far
  typed      \* lines typed so far

wscatvars == <<reader, sender, wmain, link, cancelled, signal, late, inflight, wsent, typed>>

WscatInit ==
  /\ reader = "none" /\ sender = "none" /\ wmain = "dial" /\ link = "open"
  /\ cancelled = FALSE /\ signal = FALSE /\ late = FALSE
  /\ inflight = 0 /\ wsent = 0 /\ typed = 0

\* An invalid URL and an error of Dial are fatal.
Dial ==
  /\ wmain = "dial"
  /\ \/ wmain' = "select" /\ reader' = "check" /\ sender' = "scan"
     \/ wmain' = "dead" /\ UNCHANGED <<reader, sender>>
  /\ UNCHANGED <<link, cancelled, signal, late, inflight, wsent, typed>>

\* The reader: ctx is looked at between two reads, the deferred close(done)
\* follows its end.
Reader ==
  /\ \/ reader = "check" /\ reader' = (IF cancelled THEN "ended" ELSE "read") /\ UNCHANGED inflight
     \/ reader = "read" /\ inflight > 0 /\ reader' = "print" /\ UNCHANGED inflight
     \/ reader = "read" /\ inflight = 0 /\ link = "broken" /\ reader' = "ended" /\ UNCHANGED inflight
     \/ reader = "print" /\ reader' = "check" /\ inflight' = inflight - 1
  /\ UNCHANGED <<sender, wmain, link, cancelled, signal, late, wsent, typed>>

\* The sender: a line, the look at ctx, the write; at the end of stdin it ends.
Sender ==
  /\ \/ sender = "scan" /\ typed < MaxMessages /\ sender' = "check" /\ typed' = typed + 1
     \/ sender = "scan" /\ sender' = "ended" /\ UNCHANGED typed
     \/ sender = "check" /\ sender' = (IF cancelled THEN "ended" ELSE "write") /\ UNCHANGED typed
     \/ sender = "write" /\ sender' = (IF link = "open" THEN "scan" ELSE "ended") /\ UNCHANGED typed
  /\ UNCHANGED <<reader, wmain, link, cancelled, signal, late, inflight, wsent>>

\* The server sends, answers a close frame by closing, or breaks off; a
\* signal arrives; the second passes.
Outside ==
  /\ wmain \in {"select", "cancel"}
  /\ \/ /\ link # "broken" /\ wsent < MaxMessages
        /\ wsent' = wsent + 1 /\ inflight' = inflight + 1
        /\ UNCHANGED <<link, signal, late>>
     \/ link' = "broken" /\ link # "broken" /\ UNCHANGED <<wsent, inflight, signal, late>>
     \/ signal' = TRUE /\ ~signal /\ UNCHANGED <<link, wsent, inflight, late>>
     \/ late' = TRUE /\ ~late /\ UNCHANGED <<link, wsent, inflight, signal>>
  /\ UNCHANGED <<reader, sender, wmain, cancelled, typed>>

\* case <-stop: the close frame, then cancel()
Stop ==
  /\ \/ wmain = "select" /\ signal /\ wmain' = "cancel" /\ UNCHANGED cancelled
        /\ link' = IF link = "open" THEN "closing" ELSE link
     \/ wmain = "cancel" /\ wmain' = "exit" /\ cancelled' = TRUE /\ UNCHANGED link
  /\ UNCHANGED <<reader, sender, signal, late, inflight, wsent, typed>>

\* ... while the sender is in its own WriteMessage: gorilla has one writer at
\* a time and panics when it notices a second, in either goroutine.
Clash ==
  /\ wmain = "select" /\ signal /\ sender = "write" /\ wmain' = "dead"
  /\ UNCHANGED <<reader, sender, link, cancelled, signal, late, inflight, wsent, typed>>

\* case <-time.After(time.Second), case <-done
Timeout ==
  /\ wmain = "select" /\ late /\ wmain' = "exit"
  /\ UNCHANGED <<reader, sender, link, cancelled, signal, late, inflight, wsent, typed>>
Done ==
  /\ wmain = "select" /\ reader = "ended" /\ wmain' = "exit"
  /\ UNCHANGED <<reader, sender, link, cancelled, signal, late, inflight, wsent, typed>>

\* os.Exit(0) ends the others too.
WscatNext ==
  /\ wmain \notin {"exit", "dead"}
  /\ Dial \/ Reader \/ Sender \/ Outside \/ Stop \/ Clash \/ Timeout \/ Done

-------------------------------------------------------------------------------
(* Why wscat exits: it was told to (then the server has a close frame and    *)
(* ctx is cancelled), the connection has ended and all it carried is printed,*)
(* or its one second is over.  README line 12 asks for more, to wait for the *)
(* goroutines; that does not hold after a signal or the second, and messages *)
(* can be lost.                                                              *)
WscatExits ==
  wmain = "exit" =>
    \/ cancelled /\ signal /\ link # "open"
    \/ reader = "ended" /\ inflight = 0 /\ link = "broken"
    \/ late

(* It ends within its second, however busy the server and the user are; two  *)
(* writes at once end it too, with a panic.                                  *)
WscatEnds == wmain \in {"exit", "dead"}
===============================================================================
