------------------------------ MODULE EventHub -------------------------------
(***************************************************************************)
(* The event hub of ui/app.d: the global array `sockets`, one handler      *)
(* fiber per WebSocket (handleWebSocketConnection), the reader fiber that  *)
(* vibe.d runs beside it (WebSocket.startReader), the two OCP tasks of     *)
(* shell.d (reqTask, which broadcasts one event five seconds after start,  *)
(* and resTask, which logs the names of clients) and the peers.            *)
(*                                                                         *)
(* One thread runs all fibers and a fiber is switched only where it waits, *)
(* so an action is the code of one fiber between two waits.  A condition's *)
(* notifyAll() and Task.join() wake their waiter through the event loop:   *)
(* anything may happen between the wake-up call and the waiter's next      *)
(* step.  Frames are whole; a send of the sizes used here never waits      *)
(* (libevent: only beyond 4096 buffered bytes).  The ping timer of a       *)
(* socket calls sendPing every minute; between two calls anything may      *)
(* happen, and a peer answers its pings when it likes or not at all.       *)
(***************************************************************************)
EXTENDS Naturals, Sequences

CONSTANTS
  Socket,    (* the connections that are made during the run              *)
  Scripts,   (* what a peer may do, as sequences over PeerEvent           *)
  MaxPings,  (* bound: pings sent to a socket before it leaves             *)
  NameInTime (* whether peers send their name before the first ping is    *)
             (* due, one minute after they have connected                 *)

(* text: a text frame; quit: the text "/close"; empty: a text frame with   *)
(* no payload; bad: a frame receiveText rejects (binary, a continuation,   *)
(* or no valid UTF-8); ping: a ping of the peer's own, which the reader    *)
(* answers itself; close: a closing frame; pong: the answer to a ping of   *)
(* the server; stray: a frame the reader throws at (a pong whose payload   *)
(* was never that of a ping, an opcode that is not known).                 *)
Data == {"text", "quit", "empty", "bad"}
Scripted == Data \cup {"ping", "close", "stray"}
Frame == Scripted \cup {"pong"}

(* fin: the peer closes the TCP connection in order; reset: it is lost and *)
(* what was received and not yet read is lost with it.                     *)
PeerEvent == Scripted \cup {"fin", "reset"}

ASSUME ScriptsAssumption == Scripts \subseteq Seq(PeerEvent)
ASSUME MaxPingsAssumption == MaxPings \in [Socket -> Nat]
ASSUME NameInTimeAssumption == NameInTime \in BOOLEAN

None == "none"

VARIABLES
  todo,      (* todo[s]: what the peer will still do                       *)
  conn,      (* m_conn as the server sees it: "new", "open" or "closed"    *)
  inbox,     (* frames received and not yet read by the reader             *)
  sentClose, (* m_sentCloseFrame                                           *)
  next,      (* m_nextMessage                                              *)
  reader,    (* where the reader fiber stands                              *)
  handler,   (* where the handler fiber stands                             *)
  out,       (* the frames the server has written                          *)
  timer,     (* whether m_pingTimer runs                                   *)
  ponged,    (* m_pongReceived                                             *)
  skipped,   (* m_pongSkipped                                              *)
  pings,     (* m_lastPingIndex                                            *)
  answered,  (* how many pings the peer has answered                       *)
  heard,     (* how many of its answers the reader has taken               *)
  sockets,   (* the global array                                           *)
  req,       (* reqTask: "sleep", "done", "failed"; "crashed": the process *)
  mailbox,   (* the message queue of resTask                               *)
  logged     (* what resTask has logged                                    *)

peerVars == <<todo, inbox>>
writeVars == <<sentClose, out, timer>>
pingVars == <<ponged, skipped, pings, answered, heard>>
hubVars == <<sockets, req, mailbox, logged>>
vars == <<todo, conn, inbox, sentClose, next, reader, handler, out, timer,
          ponged, skipped, pings, answered, heard, sockets, req, mailbox, logged>>

ReaderState == {"off",    (* not started                                   *)
                "loop",   (* waits for a frame in m_conn.empty             *)
                "frame",  (* has answered a ping and waits, still inside   *)
                          (* IncomingWebSocketMessage, for the next frame  *)
                "offer",  (* waits until m_nextMessage is taken            *)
                "done"}   (* has ended and notified                        *)

HandlerState == {"absent",   (* no connection yet                          *)
                 "waitName", (* socket.waitForData(1.seconds)              *)
                 "recvName", (* waits inside the first receiveText         *)
                 "read",     (* waits in the loop's waitForData            *)
                 "joining",  (* socket.close waits for the reader; the     *)
                             (* removal from sockets follows               *)
                 "failing",  (* an exception left the handler; vibe.d's    *)
                             (* own socket.close waits for the reader      *)
                 "gone"}     (* the fiber has ended, its stream is freed   *)

Init ==
  /\ todo = [s \in Socket |-> <<>>]
  /\ conn = [s \in Socket |-> "new"]
  /\ inbox = [s \in Socket |-> <<>>]
  /\ sentClose = [s \in Socket |-> FALSE]
  /\ next = [s \in Socket |-> None]
  /\ reader = [s \in Socket |-> "off"]
  /\ handler = [s \in Socket |-> "absent"]
  /\ out = [s \in Socket |-> <<>>]
  /\ timer = [s \in Socket |-> FALSE]
  /\ ponged = [s \in Socket |-> FALSE]
  /\ skipped = [s \in Socket |-> FALSE]
  /\ pings = [s \in Socket |-> 0]
  /\ answered = [s \in Socket |-> 0]
  /\ heard = [s \in Socket |-> 0]
  /\ sockets = <<>>
  /\ req = "sleep"
  /\ mailbox = <<>>
  /\ logged = <<>>

------------------------------------------------------------------------------
(* Operations on a socket. *)

connected(s) == conn[s] = "open" /\ ~sentClose[s]

(* send: throws once the closing frame is sent or the connection is down. *)
Write(s, frames) == out' = [out EXCEPT ![s] = @ \o frames]

(* Mutant of close: the ping timer is not stopped. *)
closeUnstopped(s, before) ==
  /\ sentClose' = [sentClose EXCEPT ![s] = @ \/ connected(s)]
  /\ Write(s, before \o IF connected(s) THEN <<"close">> ELSE <<>>)
  /\ UNCHANGED timer

(* close, up to its wait for the reader: one closing frame, if connected;  *)
(* no more pings.                                                          *)
close(s, before) ==
  /\ sentClose' = [sentClose EXCEPT ![s] = @ \/ connected(s)]
  /\ Write(s, before \o IF connected(s) THEN <<"close">> ELSE <<>>)
  /\ timer' = [timer EXCEPT ![s] = FALSE]

Listed(s) == \E i \in 1 .. Len(sockets) : sockets[i] = s

(* Mutant of removeFromArray: the shift starts one element too late. *)
removeFromArrayLate(list, s) ==
  LET At == {i \in 1 .. Len(list) : list[i] = s}
      idx == CHOOSE i \in At : \A j \in At : i <= j
  IN  IF At = {} THEN list
      ELSE [j \in 1 .. Len(list) - 1 |-> IF j <= idx THEN list[j] ELSE list[j + 1]]

(* removeFromArray: the first occurrence goes, the rest moves up. *)
removeFromArray(list, s) ==
  LET At == {i \in 1 .. Len(list) : list[i] = s}
      idx == CHOOSE i \in At : \A j \in At : i <= j
  IN  IF At = {} THEN list
      ELSE [j \in 1 .. Len(list) - 1 |-> IF j < idx THEN list[j] ELSE list[j + 1]]

Goto(s, state) == handler' = [handler EXCEPT ![s] = state]
Take(s) == next' = [next EXCEPT ![s] = None]

------------------------------------------------------------------------------
(* The peer. *)

(* The upgrade request: the WebSocket is built, its reader and its ping    *)
(* timer started, and the handler runs up to its first wait.               *)
Accept(s) ==
  /\ handler[s] = "absent"
  /\ \E script \in Scripts : todo' = [todo EXCEPT ![s] = script]
  /\ conn' = [conn EXCEPT ![s] = "open"]
  /\ reader' = [reader EXCEPT ![s] = "loop"]
  /\ Goto(s, "waitName")
  /\ timer' = [timer EXCEPT ![s] = TRUE]
  /\ ponged' = [ponged EXCEPT ![s] = TRUE]
  /\ sockets' = Append(sockets, s)
  /\ UNCHANGED <<inbox, sentClose, next, out, skipped, pings, answered, heard,
                 req, mailbox, logged>>

PeerDoes(s, events) ==
  /\ conn[s] = "open"
  /\ todo[s] # <<>>
  /\ Head(todo[s]) \in events
  /\ todo' = [todo EXCEPT ![s] = Tail(@)]

PeerSend(s) ==
  /\ PeerDoes(s, Scripted)
  /\ inbox' = [inbox EXCEPT ![s] = Append(@, Head(todo[s]))]
  /\ UNCHANGED <<conn, next, reader, handler, writeVars, pingVars, hubVars>>

(* The answer to the oldest ping that has none. *)
PeerPong(s) ==
  /\ conn[s] = "open" /\ answered[s] < pings[s]
  /\ answered' = [answered EXCEPT ![s] = @ + 1]
  /\ inbox' = [inbox EXCEPT ![s] = Append(@, "pong")]
  /\ UNCHANGED <<todo, conn, next, reader, handler, writeVars, ponged, skipped, pings,
                 heard, hubVars>>

(* Frames in the kernel's or libevent's buffer survive an orderly close;   *)
(* those already pulled into the stream's own buffer together with the     *)
(* frame on offer do not, when nothing else is buffered.                   *)
PeerFin(s) ==
  /\ PeerDoes(s, {"fin"})
  /\ conn' = [conn EXCEPT ![s] = "closed"]
  /\ \/ UNCHANGED inbox
     \/ reader[s] = "offer" /\ inbox' = [inbox EXCEPT ![s] = <<>>]
  /\ UNCHANGED <<next, reader, handler, writeVars, pingVars, hubVars>>

PeerReset(s) ==
  /\ PeerDoes(s, {"reset"})
  /\ conn' = [conn EXCEPT ![s] = "closed"]
  /\ inbox' = [inbox EXCEPT ![s] = <<>>]
  /\ UNCHANGED <<next, reader, handler, writeVars, pingVars, hubVars>>

------------------------------------------------------------------------------
(* The reader fiber: WebSocket.startReader. *)

(* A frame of the given kind is read: by the loop, which looks at          *)
(* m_pongSkipped before, or after a ping, where nothing is looked at.      *)
Reads(s, kind) ==
  /\ reader[s] = "frame" \/ (reader[s] = "loop" /\ ~skipped[s])
  /\ inbox[s] # <<>> /\ Head(inbox[s]) \in kind

(* m_conn.close, what is buffered is dropped, and the reader ends. *)
HangUp(s) ==
  /\ conn' = [conn EXCEPT ![s] = "closed"]
  /\ inbox' = [inbox EXCEPT ![s] = <<>>]
  /\ reader' = [reader EXCEPT ![s] = "done"]

(* Mutant of ReaderOffer: the frame's opcode is not looked at. *)
ReaderOfferAny(s) ==
  /\ Reads(s, Frame)
  /\ next' = [next EXCEPT ![s] = Head(inbox[s])]
  /\ inbox' = [inbox EXCEPT ![s] = Tail(@)]
  /\ reader' = [reader EXCEPT ![s] = "offer"]
  /\ UNCHANGED <<todo, conn, handler, writeVars, pingVars, hubVars>>

(* A data frame is put on offer and the handler is notified. *)
ReaderOffer(s) ==
  /\ Reads(s, Data)
  /\ next' = [next EXCEPT ![s] = Head(inbox[s])]
  /\ inbox' = [inbox EXCEPT ![s] = Tail(@)]
  /\ reader' = [reader EXCEPT ![s] = "offer"]
  /\ UNCHANGED <<todo, conn, handler, writeVars, pingVars, hubVars>>

(* Mutant of ReaderResume: `if` for `while` around the wait, so that any   *)
(* notify sends the reader on.                                             *)
ReaderResumeAnyway(s) ==
  /\ reader[s] = "offer"
  /\ reader' = [reader EXCEPT ![s] = "loop"]
  /\ UNCHANGED <<peerVars, conn, next, handler, writeVars, pingVars, hubVars>>

(* The handler has taken the message and notified. *)
ReaderResume(s) ==
  /\ reader[s] = "offer" /\ next[s] = None
  /\ reader' = [reader EXCEPT ![s] = "loop"]
  /\ UNCHANGED <<peerVars, conn, next, handler, writeVars, pingVars, hubVars>>

(* A closing frame is answered unless one was sent; the stream is closed. *)
ReaderClose(s) ==
  /\ Reads(s, {"close"})
  /\ close(s, <<>>)
  /\ HangUp(s)
  /\ UNCHANGED <<todo, next, handler, pingVars, hubVars>>

(* A ping of the peer is answered at once, without m_writeMutex and        *)
(* whether or not the closing frame is sent; then the next frame is read.  *)
ReaderPing(s) ==
  /\ Reads(s, {"ping"}) /\ conn[s] = "open"
  /\ Write(s, <<"pong">>)
  /\ inbox' = [inbox EXCEPT ![s] = Tail(@)]
  /\ reader' = [reader EXCEPT ![s] = "frame"]
  /\ UNCHANGED <<todo, conn, sentClose, next, handler, timer, pingVars, hubVars>>

(* An answer to a ping: its payload must be the index of the last one. *)
ReaderPong(s) ==
  /\ Reads(s, {"pong"})
  /\ heard[s] + 1 = pings[s]
  /\ heard' = [heard EXCEPT ![s] = @ + 1]
  /\ ponged' = [ponged EXCEPT ![s] = TRUE]
  /\ inbox' = [inbox EXCEPT ![s] = Tail(@)]
  /\ reader' = [reader EXCEPT ![s] = "loop"]
  /\ UNCHANGED <<todo, conn, next, handler, writeVars, skipped, pings, answered, hubVars>>

(* Any other pong throws, and so does the answer to a ping on a connection *)
(* that is down; the stream is closed.                                     *)
ReaderReject(s) ==
  /\ Reads(s, {"stray", "pong", "ping"})
  /\ Head(inbox[s]) = "pong" => heard[s] + 1 # pings[s]
  /\ Head(inbox[s]) = "ping" => conn[s] = "closed"
  /\ HangUp(s)
  /\ UNCHANGED <<todo, next, handler, writeVars, pingVars, hubVars>>

(* Mutant of ReaderSkipped: `continue` for `return`, and nothing closed. *)
ReaderSkippedAgain(s) ==
  /\ reader[s] = "loop"
  /\ inbox[s] # <<>> /\ skipped[s]
  /\ UNCHANGED vars

(* A ping went without answer: whatever has come, the stream is closed.    *)
(* m_pongSkipped is looked at when data has come, not before, and only at  *)
(* the head of the loop.                                                   *)
ReaderSkipped(s) ==
  /\ reader[s] = "loop"
  /\ inbox[s] # <<>> /\ skipped[s]
  /\ HangUp(s)
  /\ UNCHANGED <<todo, next, handler, writeVars, pingVars, hubVars>>

(* End of stream: the loop ends, or the read after a ping throws; the      *)
(* stream is closed and waiters are notified.                              *)
ReaderEnd(s) ==
  /\ reader[s] \in {"loop", "frame"}
  /\ inbox[s] = <<>> /\ conn[s] = "closed"
  /\ reader' = [reader EXCEPT ![s] = "done"]
  /\ UNCHANGED <<peerVars, conn, next, handler, writeVars, pingVars, hubVars>>

------------------------------------------------------------------------------
(* The handler fiber: handleWebSocketConnection, first the client's name. *)

AtName(s) == handler[s] \in {"waitName", "recvName"}

(* waitForData(1.seconds) gives up; its result is ignored and receiveText  *)
(* waits on.                                                               *)
NameTimeout(s) ==
  /\ handler[s] = "waitName"
  /\ next[s] = None /\ connected(s)
  /\ Goto(s, "recvName")
  /\ UNCHANGED <<peerVars, conn, next, reader, writeVars, pingVars, hubVars>>

(* receiveText finds no message and no connection, and throws.  That is    *)
(* after the reader has ended: the event loop resumes a reader that waits  *)
(* for data as soon as there is any, or the stream has ended, and timers   *)
(* come after that.                                                        *)
NameThrows(s) ==
  /\ AtName(s) /\ reader[s] = "done"
  /\ next[s] = None /\ ~connected(s)
  /\ close(s, <<>>)
  /\ Goto(s, "failing")
  /\ UNCHANGED <<peerVars, conn, next, reader, pingVars, hubVars>>

(* The read loop, left at once if the connection is down by now. *)
EnterLoop(s) ==
  \/ connected(s) /\ Goto(s, "read") /\ UNCHANGED writeVars
  \/ ~connected(s) /\ Goto(s, "joining") /\ close(s, <<>>)

(* Mutant of NameText: the message is read but not taken. *)
NameTextUntaken(s) ==
  /\ AtName(s)
  /\ next[s] \in {"text", "quit"}
  /\ mailbox' = Append(mailbox, s)
  /\ EnterLoop(s)
  /\ UNCHANGED <<peerVars, conn, next, reader, pingVars, sockets, req, logged>>

(* Mutant of NameText: nothing is sent to resTask. *)
NameTextUnsent(s) ==
  /\ AtName(s)
  /\ next[s] \in {"text", "quit"}
  /\ Take(s)
  /\ EnterLoop(s)
  /\ UNCHANGED <<peerVars, conn, reader, pingVars, hubVars>>

(* The name goes to resTask; then the loop. *)
NameText(s) ==
  /\ AtName(s)
  /\ next[s] \in {"text", "quit"}
  /\ Take(s)
  /\ mailbox' = Append(mailbox, s)
  /\ EnterLoop(s)
  /\ UNCHANGED <<peerVars, conn, reader, pingVars, sockets, req, logged>>

(* An empty name: the client is told and closed; the send throws when the  *)
(* connection is down.                                                     *)
NameEmpty(s) ==
  /\ AtName(s)
  /\ next[s] = "empty"
  /\ Take(s)
  /\ close(s, IF connected(s) THEN <<"invalid">> ELSE <<>>)
  /\ Goto(s, IF connected(s) THEN "joining" ELSE "failing")
  /\ UNCHANGED <<peerVars, conn, reader, pingVars, hubVars>>

(* receiveText throws in the middle of receive: m_nextMessage stays. *)
Rejects(s) ==
  /\ next[s] = "bad"
  /\ close(s, <<>>)
  /\ Goto(s, "failing")
  /\ UNCHANGED <<peerVars, conn, next, reader, pingVars, hubVars>>

NameBad(s) == AtName(s) /\ Rejects(s)

------------------------------------------------------------------------------
(* The handler fiber: the read loop and what follows it. *)

(* A text, empty or not, is logged and the loop goes on. *)
ReadText(s) ==
  /\ handler[s] = "read"
  /\ next[s] \in {"text", "empty"} /\ connected(s)
  /\ Take(s)
  /\ UNCHANGED <<peerVars, conn, reader, handler, writeVars, pingVars, hubVars>>

(* "/close": the loop is left with the message taken. *)
ReadQuit(s) ==
  /\ handler[s] = "read"
  /\ next[s] = "quit" /\ connected(s)
  /\ Take(s)
  /\ close(s, <<>>)
  /\ Goto(s, "joining")
  /\ UNCHANGED <<peerVars, conn, reader, pingVars, hubVars>>

ReadBad(s) == handler[s] = "read" /\ connected(s) /\ Rejects(s)

(* A message is there but the connection is down: `break` leaves it. *)
ReadBreak(s) ==
  /\ handler[s] = "read"
  /\ next[s] # None /\ ~connected(s)
  /\ close(s, <<>>)
  /\ Goto(s, "joining")
  /\ UNCHANGED <<peerVars, conn, next, reader, pingVars, hubVars>>

(* The reader's last notify: no message, and none will come. *)
ReadEnd(s) ==
  /\ handler[s] = "read"
  /\ next[s] = None /\ reader[s] = "done"
  /\ close(s, <<>>)
  /\ Goto(s, "joining")
  /\ UNCHANGED <<peerVars, conn, next, reader, pingVars, hubVars>>

(* Mutant of Joined: the handler returns without the removal. *)
JoinedUnremoved(s) ==
  /\ handler[s] = "joining" /\ reader[s] = "done"
  /\ Goto(s, "gone")
  /\ UNCHANGED <<peerVars, conn, next, reader, writeVars, pingVars, hubVars>>

(* socket.close returns; the socket is removed and the handler ends. *)
Joined(s) ==
  /\ handler[s] = "joining" /\ reader[s] = "done"
  /\ sockets' = removeFromArray(sockets, s)
  /\ Goto(s, "gone")
  /\ UNCHANGED <<peerVars, conn, next, reader, writeVars, pingVars, req, mailbox, logged>>

(* The exception path of handleWebSockets: nothing removes the socket. *)
FailJoined(s) ==
  /\ handler[s] = "failing" /\ reader[s] = "done"
  /\ Goto(s, "gone")
  /\ UNCHANGED <<peerVars, conn, next, reader, writeVars, pingVars, hubVars>>

------------------------------------------------------------------------------
(* The ping timer: WebSocket.sendPing. *)

(* The repeating timer fires. *)
Due(s) == timer[s] /\ (NameInTime => ~AtName(s))

(* Mutant of SendPing: the last ping need not have been answered. *)
SendPingUnanswered(s) ==
  /\ Due(s) /\ pings[s] < MaxPings[s]
  /\ ponged' = [ponged EXCEPT ![s] = FALSE]
  /\ pings' = [pings EXCEPT ![s] = @ + 1]
  /\ Write(s, IF conn[s] = "open" THEN <<"ping">> ELSE <<>>)
  /\ UNCHANGED <<peerVars, conn, sentClose, next, reader, handler, timer, skipped,
                 answered, heard, hubVars>>

(* The ping before is answered, so there is another; m_sentCloseFrame is   *)
(* not looked at.  On a connection that is down the write throws.          *)
SendPing(s) ==
  /\ Due(s) /\ ponged[s] /\ pings[s] < MaxPings[s]
  /\ ponged' = [ponged EXCEPT ![s] = FALSE]
  /\ pings' = [pings EXCEPT ![s] = @ + 1]
  /\ Write(s, IF conn[s] = "open" THEN <<"ping">> ELSE <<>>)
  /\ UNCHANGED <<peerVars, conn, sentClose, next, reader, handler, timer, skipped,
                 answered, heard, hubVars>>

(* A ping interval went by without an answer. *)
SkipPong(s) ==
  /\ Due(s) /\ ~ponged[s]
  /\ skipped' = [skipped EXCEPT ![s] = TRUE]
  /\ timer' = [timer EXCEPT ![s] = FALSE]
  /\ UNCHANGED <<peerVars, conn, sentClose, next, reader, handler, out, ponged, pings,
                 answered, heard, hubVars>>

------------------------------------------------------------------------------
(* The OCP tasks: Shell.listenOCP and the delegate of app.d. *)

(* A listed socket whose handler has ended without a closing frame: its    *)
(* stream lived on that fiber's stack, and a send through it is undefined. *)
Dangling(s) == handler[s] = "gone" /\ ~sentClose[s]

(* Mutant of SendThrows: m_sentCloseFrame is not looked at. *)
SendThrowsOnlyDown(s) == handler[s] # "gone" /\ conn[s] = "closed"

SendThrows(s) == sentClose[s] \/ (handler[s] # "gone" /\ conn[s] = "closed")

(* Mutant of Broadcast: the loop starts at the second socket. *)
BroadcastFromSecond ==
  /\ req = "sleep"
  /\ req' = "done"
  /\ out' = [s \in Socket |->
               IF ~SendThrows(s) /\ \E i \in 2 .. Len(sockets) : sockets[i] = s
               THEN Append(out[s], "event") ELSE out[s]]
  /\ UNCHANGED <<peerVars, conn, sentClose, next, reader, handler, timer, pingVars,
                 sockets, mailbox, logged>>

(* One pass over sockets, in order; the first exception ends the task.     *)
(* `stop` is where it ends, one past the end if it does not.               *)
Broadcast ==
  /\ req = "sleep"
  /\ \E stop \in 1 .. Len(sockets) + 1 :
       /\ \A i \in 1 .. stop - 1 : ~SendThrows(sockets[i])
       /\ \/ stop = Len(sockets) + 1 /\ req' = "done"
          \/ stop <= Len(sockets) /\ SendThrows(sockets[stop]) /\ req' = "failed"
          \/ stop <= Len(sockets) /\ Dangling(sockets[stop])
                                  /\ req' \in {"failed", "crashed"}
       /\ out' = [s \in Socket |->
                    IF ~Dangling(s) /\ \E i \in 1 .. stop - 1 : sockets[i] = s
                    THEN Append(out[s], "event") ELSE out[s]]
  /\ UNCHANGED <<peerVars, conn, sentClose, next, reader, handler, timer, pingVars,
                 sockets, mailbox, logged>>

(* resTask takes and logs one message. *)
resReceive ==
  /\ mailbox # <<>>
  /\ logged' = Append(logged, Head(mailbox))
  /\ mailbox' = Tail(mailbox)
  /\ UNCHANGED <<peerVars, conn, next, reader, handler, writeVars, pingVars, sockets, req>>

------------------------------------------------------------------------------

PeerStep(s) == PeerSend(s) \/ PeerPong(s) \/ PeerFin(s) \/ PeerReset(s)

TimerStep(s) == SendPing(s) \/ SkipPong(s)

ReaderStep(s) ==
  \/ ReaderOffer(s) \/ ReaderResume(s) \/ ReaderClose(s) \/ ReaderPing(s)
  \/ ReaderPong(s) \/ ReaderReject(s) \/ ReaderSkipped(s) \/ ReaderEnd(s)

HandlerStep(s) ==
  \/ NameTimeout(s) \/ NameThrows(s) \/ NameText(s) \/ NameEmpty(s) \/ NameBad(s)
  \/ ReadText(s) \/ ReadQuit(s) \/ ReadBad(s) \/ ReadBreak(s) \/ ReadEnd(s)
  \/ Joined(s) \/ FailJoined(s)

Next ==
  /\ req # "crashed"
  /\ \/ \E s \in Socket :
          Accept(s) \/ PeerStep(s) \/ ReaderStep(s) \/ HandlerStep(s) \/ TimerStep(s)
     \/ Broadcast
     \/ resReceive

Spec == Init /\ [][Next]_vars

(* The event loop resumes every fiber that can go on; it owes nothing to   *)
(* the peers' behaviour.                                                   *)
Fairness ==
  /\ \A s \in Socket : WF_vars(req # "crashed" /\ ReaderStep(s))
  /\ \A s \in Socket : WF_vars(req # "crashed" /\ HandlerStep(s))
  /\ WF_vars(Broadcast)
  /\ WF_vars(req # "crashed" /\ resReceive)

FairSpec == Spec /\ Fairness

------------------------------------------------------------------------------
(* Safety. *)

(* What the server writes; pong: the answer to a ping of the peer. *)
OutFrame == {"event", "invalid", "ping", "pong", "close"}

(* Type invariant of the hub. *)
TypeOK ==
  /\ todo \in [Socket -> Seq(PeerEvent)]
  /\ conn \in [Socket -> {"new", "open", "closed"}]
  /\ inbox \in [Socket -> Seq(Frame)]
  /\ sentClose \in [Socket -> BOOLEAN]
  /\ next \in [Socket -> Data \cup {None}]
  /\ reader \in [Socket -> ReaderState]
  /\ handler \in [Socket -> HandlerState]
  /\ out \in [Socket -> Seq(OutFrame)]
  /\ timer \in [Socket -> BOOLEAN]
  /\ ponged \in [Socket -> BOOLEAN]
  /\ skipped \in [Socket -> BOOLEAN]
  /\ pings \in [Socket -> Nat]
  /\ answered \in [Socket -> Nat]
  /\ heard \in [Socket -> Nat]
  /\ sockets \in Seq(Socket)
  /\ req \in {"sleep", "done", "failed", "crashed"}
  /\ mailbox \in Seq(Socket)
  /\ logged \in Seq(Socket)

(* assert(!m_nextMessage) at the head of the reader's loop                 *)
(* (websockets.d:511): whatever path the handler takes, the reader never   *)
(* starts on a frame while the last one is still on offer.  Nor does it    *)
(* end and leave one behind.                                               *)
ReaderAssertion == \A s \in Socket : reader[s] # "offer" => next[s] = None

(* Four parties write to a socket: its handler, its reader, its ping       *)
(* timer and reqTask, and only send looks whether the closing frame is     *)
(* out.  Still there is one closing frame at most, and no data and no ping *)
(* of the server's own follows it.  Answers to the peer's pings may: the   *)
(* reader writes those without a look (websockets.d:691).                  *)
OnlyPongsAfterClose ==
  \A s \in Socket : \A i, j \in 1 .. Len(out[s]) :
    i < j /\ out[s][i] = "close" => out[s][j] = "pong"

(* A socket occurs at most once in the array, and as long as its handler   *)
(* runs it is there: the removals of other handlers never drop it.         *)
ListedOnce ==
  /\ \A i, j \in 1 .. Len(sockets) : sockets[i] = sockets[j] => i = j
  /\ \A s \in Socket : handler[s] \notin {"absent", "gone"} => Listed(s)

(* A connected client misses the event only when an entry before it in the *)
(* array is no longer connected (app.d:452: the loop has no try).          *)
MissedOnlyBehindDead ==
  [][ \A i \in 1 .. Len(sockets) :
        LET s == sockets[i] IN
        req = "sleep" /\ req' # "sleep" /\ connected(s) /\ out'[s] = out[s]
          => \E j \in 1 .. i - 1 : ~connected(sockets[j]) ]_vars

(* A pong that answers a ping carries the index of the last ping when the  *)
(* reader gets to it (websockets.d:526), however late that is: an honest   *)
(* peer is never closed for it.                                            *)
AnswerIsCurrent ==
  \A s \in Socket : \A i \in 1 .. Len(inbox[s]) :
    inbox[s][i] = "pong" => heard[s] + 1 = pings[s]

(* The ping timer holds on to the socket: it is stopped before the         *)
(* handler's stream is gone (websockets.d:454).                            *)
TimerStopped == \A s \in Socket : handler[s] = "gone" => ~timer[s]

(* A handler that has ended has removed its socket (app.d:539: "Remove     *)
(* socket from sockets list and close socket").                            *)
ListedIsHandled == \A s \in Socket : Listed(s) => handler[s] # "gone"

(* A fiber that waits for the reader to end has left it no message to      *)
(* wait for: the two never wait for each other.                            *)
JoinCanEnd == \A s \in Socket : handler[s] \in {"joining", "failing"} => next[s] = None

------------------------------------------------------------------------------
(* What the hub promises. *)

Joiners == {s \in Socket : handler[s] # "absent"}
Enders == {s \in Socket : handler[s] = "gone"}
Members == {s \in Socket : Listed(s)}
Told == {s \in Socket : \E i \in 1 .. Len(out[s]) : out[s][i] = "event"}
Announced == req # "sleep"

Promise == INSTANCE Announcement WITH
  Client <- Socket, joined <- Joiners, ended <- Enders, members <- Members,
  told <- Told, announced <- Announced

(* The hub implements the announcement: one event at most, only to clients *)
(* on the list whose handler runs, and a handler that ends takes no entry  *)
(* but its own from the array (app.d:452, 502 and 540).                    *)
ImplementsAnnouncement == Promise!AbsSpec

------------------------------------------------------------------------------
(* Liveness. *)

(* A connection that is down leaves the array and its handler ends. *)
ClosedLeaves ==
  \A s \in Socket : conn[s] = "closed" ~> ~Listed(s) /\ handler[s] = "gone"

(* A peer that has missed a ping interval is closed with the next frame it *)
(* sends, its late answer included, and leaves the array                   *)
(* (websockets.d:513) - unless the frame is the one after a ping of its    *)
(* own, which the reader takes before it looks (websockets.d:696).         *)
SkippedLeaves ==
  \A s \in Socket :
    skipped[s] /\ inbox[s] # <<>> /\ reader[s] # "frame"
      ~> ~Listed(s) /\ handler[s] = "gone"

(* The name of every client that got into its read loop is logged. *)
NamedIsLogged ==
  \A s \in Socket : handler[s] = "read" ~> \E i \in 1 .. Len(logged) : logged[i] = s
==============================================================================
