--------------------------- MODULE EventHub_clients ---------------------------
(***************************************************************************)
(* What the hub keeps for clients that behave.  With any peer a handler    *)
(* may leave its socket in the array, and wait for a reader that waits for *)
(* it; here are conditions on the peers under which neither can happen.    *)
(* The page that the project ships (websocket.js) satisfies both.          *)
(***************************************************************************)
EXTENDS EventHub_proofs

NoData(seq) == \A i \in 1 .. Len(seq) : seq[i] \notin Data
NoBad(seq) == \A i \in 1 .. Len(seq) : seq[i] # "bad"
OneData(seq) ==
  \A i, j \in 1 .. Len(seq) : seq[i] \in Data /\ seq[j] \in Data => i = j
NoReset(seq) == \A i \in 1 .. Len(seq) : seq[i] # "reset"

(* A client that sends at most one message, and one that receiveText       *)
(* accepts.  How and when it goes, and what it does about pings, is open.  *)
SingleMessage == \A script \in Scripts : OneData(script) /\ NoBad(script)

(* A client that begins with its name, whatever the name is, never sends a *)
(* frame that receiveText rejects, and whose connection is not lost with   *)
(* data in it.  It may send more messages.                                 *)
Introduced(script) ==
  /\ script # <<>> /\ Head(script) \in {"text", "quit"}
  /\ NoBad(script) /\ NoReset(script)

NamedFirst == NameInTime /\ \A script \in Scripts : Introduced(script)

------------------------------------------------------------------------------
(* The message is on its way or taken, and is the last one. *)
LastWord(s) ==
  /\ NoBad(todo[s]) /\ NoBad(inbox[s]) /\ next[s] # "bad"
  /\ OneData(todo[s]) /\ OneData(inbox[s])
  /\ NoData(inbox[s]) \/ NoData(todo[s])
  /\ handler[s] = "absent" => inbox[s] = <<>> /\ next[s] = None /\ conn[s] = "new"
  /\ next[s] # None => AtName(s) /\ NoData(inbox[s]) /\ NoData(todo[s])
  /\ handler[s] = "absent" \/ AtName(s) \/ reader[s] = "done"
       \/ (NoData(inbox[s]) /\ NoData(todo[s]))

LastWords == \A s \in Socket : LastWord(s)

(* While the name is awaited, it is still to be sent, or the next frame to *)
(* be read, or on offer; the connection gets no ping.                      *)
NameComes(s) ==
  \/ Introduced(todo[s]) /\ inbox[s] = <<>> /\ connected(s)
     /\ reader[s] = "loop" /\ next[s] = None
  \/ inbox[s] # <<>> /\ Head(inbox[s]) \in {"text", "quit"}
     /\ reader[s] = "loop" /\ next[s] = None
  \/ next[s] \in {"text", "quit"} /\ reader[s] = "offer"

Behaved(s) ==
  /\ NoBad(todo[s]) /\ NoReset(todo[s]) /\ NoBad(inbox[s]) /\ next[s] # "bad"
  /\ handler[s] = "absent" =>
       inbox[s] = <<>> /\ next[s] = None /\ ~sentClose[s] /\ conn[s] = "new"
  /\ handler[s] = "absent" \/ AtName(s) => pings[s] = 0 /\ ~skipped[s]
  /\ AtName(s) => NameComes(s)
  /\ handler[s] # "failing"

AllBehaved == \A s \in Socket : Behaved(s)

------------------------------------------------------------------------------
(* Facts about frames in sequences. *)

LEMMA EmptyHasNone ==
  NoData(<<>>) /\ NoBad(<<>>) /\ OneData(<<>>) /\ NoReset(<<>>)
BY DEF NoData, NoBad, OneData, NoReset

LEMMA TailHasLess ==
  ASSUME NEW S, NEW seq \in Seq(S), seq # <<>>
  PROVE  /\ NoData(seq) => NoData(Tail(seq)) /\ Head(seq) \notin Data
         /\ NoBad(seq) => NoBad(Tail(seq)) /\ Head(seq) # "bad"
         /\ NoReset(seq) => NoReset(Tail(seq)) /\ Head(seq) # "reset"
         /\ OneData(seq) => OneData(Tail(seq))
         /\ OneData(seq) /\ Head(seq) \in Data => NoData(Tail(seq))
<1>1. /\ Len(seq) \in Nat \ {0} /\ Len(Tail(seq)) = Len(seq) - 1 /\ Head(seq) = seq[1]
      /\ \A i \in 1 .. Len(Tail(seq)) : Tail(seq)[i] = seq[i + 1]
  OBVIOUS
<1>2. \A i \in 1 .. Len(Tail(seq)) : i + 1 \in 1 .. Len(seq) /\ i + 1 # 1
  BY <1>1
<1>3. 1 \in 1 .. Len(seq)
  BY <1>1
<1>4. NoData(seq) => NoData(Tail(seq)) /\ Head(seq) \notin Data
  BY <1>1, <1>2, <1>3 DEF NoData
<1>5. NoBad(seq) => NoBad(Tail(seq)) /\ Head(seq) # "bad"
  BY <1>1, <1>2, <1>3 DEF NoBad
<1>6. OneData(seq) => OneData(Tail(seq))
  <2> SUFFICES ASSUME OneData(seq), NEW i \in 1 .. Len(Tail(seq)), NEW j \in 1 .. Len(Tail(seq)),
                      Tail(seq)[i] \in Data, Tail(seq)[j] \in Data
               PROVE  i = j
    BY DEF OneData
  <2>1. i + 1 = j + 1
    BY <1>1, <1>2 DEF OneData
  <2> QED BY <1>1, <2>1
<1>7. ASSUME OneData(seq), Head(seq) \in Data PROVE NoData(Tail(seq))
  BY <1>1, <1>2, <1>3, <1>7 DEF OneData, NoData
<1>8. NoReset(seq) => NoReset(Tail(seq)) /\ Head(seq) # "reset"
  BY <1>1, <1>2, <1>3 DEF NoReset
<1> QED BY <1>4, <1>5, <1>6, <1>7, <1>8

LEMMA AppendHasMore ==
  ASSUME NEW S, NEW seq \in Seq(S), NEW f \in S
  PROVE  LET new == Append(seq, f) IN
         /\ NoData(seq) /\ f \notin Data => NoData(new)
         /\ NoBad(seq) /\ f # "bad" => NoBad(new)
         /\ OneData(seq) /\ f \notin Data => OneData(new)
         /\ NoData(seq) => OneData(new)
         /\ new # <<>>
         /\ Head(new) = IF seq = <<>> THEN f ELSE Head(seq)
<1> DEFINE new == Append(seq, f)
<1>1. /\ Len(new) = Len(seq) + 1 /\ Len(seq) \in Nat
      /\ \A i \in 1 .. Len(seq) : new[i] = seq[i]
      /\ new[Len(seq) + 1] = f
      /\ new \in Seq(S)
  BY AppendProperties
<1>2. new # <<>> /\ Head(new) = new[1]
  BY <1>1
<1>3. seq = <<>> => Head(new) = f
  BY <1>1, <1>2
<1>4. seq # <<>> => Head(new) = Head(seq)
  BY <1>1, <1>2
<1> HIDE DEF new
<1>5. \A i \in 1 .. Len(new) : i \in 1 .. Len(seq) \/ i = Len(seq) + 1
  BY <1>1
<1>6. NoData(seq) /\ f \notin Data => NoData(new)
  BY <1>1, <1>5 DEF NoData
<1>7. NoBad(seq) /\ f # "bad" => NoBad(new)
  BY <1>1, <1>5 DEF NoBad
<1>8. OneData(seq) /\ f \notin Data => OneData(new)
  BY <1>1, <1>5 DEF OneData
<1>9. NoData(seq) => OneData(new)
  BY <1>1, <1>5 DEF OneData, NoData
<1> QED BY <1>2, <1>3, <1>4, <1>6, <1>7, <1>8, <1>9 DEF new

------------------------------------------------------------------------------
(* A step of one connection leaves the others alone. *)

Same(t) ==
  /\ todo'[t] = todo[t] /\ inbox'[t] = inbox[t] /\ conn'[t] = conn[t]
  /\ sentClose'[t] = sentClose[t] /\ next'[t] = next[t] /\ reader'[t] = reader[t]
  /\ handler'[t] = handler[t] /\ pings'[t] = pings[t] /\ skipped'[t] = skipped[t]
  /\ answered'[t] = answered[t]

ConnectionStep(s) ==
  Accept(s) \/ PeerStep(s) \/ ReaderStep(s) \/ HandlerStep(s) \/ TimerStep(s)

LEMMA OthersStay ==
  ASSUME TypeOK, NEW s \in Socket, ConnectionStep(s), NEW t \in Socket \ {s}
  PROVE  Same(t)
<1>1. /\ todo \in [Socket -> Seq(PeerEvent)] /\ inbox \in [Socket -> Seq(Frame)]
      /\ conn \in [Socket -> {"new", "open", "closed"}]
      /\ sentClose \in [Socket -> BOOLEAN] /\ next \in [Socket -> Data \cup {None}]
      /\ reader \in [Socket -> ReaderState] /\ handler \in [Socket -> HandlerState]
      /\ pings \in [Socket -> Nat] /\ skipped \in [Socket -> BOOLEAN]
      /\ answered \in [Socket -> Nat]
  BY DEF TypeOK
<1> USE <1>1 DEF Same, peerVars, writeVars, pingVars, hubVars, Goto, Take, HangUp, close
<1>2. CASE Accept(s)
  BY <1>2 DEF Accept
<1>3. CASE PeerStep(s)
  BY <1>3 DEF PeerStep, PeerSend, PeerPong, PeerFin, PeerReset, PeerDoes
<1>4. CASE ReaderStep(s)
  BY <1>4 DEF ReaderStep, ReaderOffer, ReaderResume, ReaderClose, ReaderPing, ReaderPong, ReaderReject,
              ReaderSkipped, ReaderEnd
<1>5. CASE NameTimeout(s) \/ NameThrows(s) \/ NameText(s) \/ NameEmpty(s) \/ NameBad(s)
  BY <1>5 DEF NameTimeout, NameThrows, NameText, EnterLoop, NameEmpty, NameBad, Rejects
<1>6. CASE ReadText(s) \/ ReadQuit(s) \/ ReadBad(s) \/ ReadBreak(s) \/ ReadEnd(s)
  BY <1>6 DEF ReadText, ReadQuit, ReadBad, Rejects, ReadBreak, ReadEnd
<1>7. CASE Joined(s) \/ FailJoined(s)
  BY <1>7 DEF Joined, FailJoined
<1>8. CASE TimerStep(s)
  BY <1>8 DEF TimerStep, SendPing, SkipPong
<1> QED BY <1>2, <1>3, <1>4, <1>5, <1>6, <1>7, <1>8 DEF HandlerStep, ConnectionStep

(* Nor do the OCP tasks touch any connection but to write. *)
LEMMA TasksStay ==
  ASSUME Broadcast \/ resReceive \/ UNCHANGED vars, NEW t \in Socket
  PROVE  Same(t)
BY DEF Broadcast, resReceive, Same, vars, peerVars, pingVars, writeVars

------------------------------------------------------------------------------
(* Clients with one message. *)

LEMMA SameWord ==
  ASSUME NEW t \in Socket, Same(t), LastWord(t)
  PROVE  LastWord(t)'
BY DEF Same, LastWord, AtName

(* The peer sends its message, or goes. *)
LEMMA PeerWord ==
  ASSUME TypeOK, SingleMessage, NEW s \in Socket, LastWord(s), Accept(s) \/ PeerStep(s)
  PROVE  LastWord(s)'
<1>1. /\ todo \in [Socket -> Seq(PeerEvent)] /\ inbox \in [Socket -> Seq(Frame)]
      /\ handler \in [Socket -> HandlerState]
      /\ todo[s] \in Seq(PeerEvent) /\ inbox[s] \in Seq(Frame)
  BY DEF TypeOK
<1>2. CASE Accept(s)
  <2>1. /\ todo'[s] \in Scripts /\ handler'[s] = "waitName"
        /\ inbox'[s] = <<>> /\ next'[s] = None
    BY <1>1, <1>2 DEF Accept, Goto, LastWord
  <2>2. OneData(todo'[s]) /\ NoBad(todo'[s])
    BY <2>1 DEF SingleMessage
  <2>3. None \notin {"bad"}
    BY DEF None
  <2> QED BY <2>1, <2>2, <2>3, EmptyHasNone DEF LastWord, AtName
<1>3. CASE PeerSend(s)
  <2> DEFINE f == Head(todo[s])
  <2>1. /\ todo[s] # <<>> /\ f \in Scripted
        /\ todo'[s] = Tail(todo[s]) /\ inbox'[s] = Append(inbox[s], f)
        /\ next'[s] = next[s] /\ reader'[s] = reader[s] /\ handler'[s] = handler[s]
    BY <1>1, <1>3 DEF PeerSend, PeerDoes
  <2>2. f \in Frame
    BY <2>1 DEF Frame
  <2>3. handler[s] # "absent"
    BY <1>3 DEF PeerSend, PeerDoes, LastWord
  <2> QED BY <1>1, <2>1, <2>2, <2>3, TailHasLess, AppendHasMore DEF LastWord, AtName
<1>4. CASE PeerPong(s)
  <2>1. /\ todo'[s] = todo[s] /\ inbox'[s] = Append(inbox[s], "pong")
        /\ next'[s] = next[s] /\ reader'[s] = reader[s] /\ handler'[s] = handler[s]
    BY <1>1, <1>4 DEF PeerPong
  <2>2. "pong" \in Frame /\ "pong" \notin Data /\ "pong" # "bad"
    BY DEF Frame, Data
  <2>3. handler[s] # "absent"
    BY <1>4 DEF PeerPong, LastWord
  <2>4. /\ NoData(inbox[s]) => NoData(inbox'[s])
        /\ NoBad(inbox[s]) => NoBad(inbox'[s])
        /\ OneData(inbox[s]) => OneData(inbox'[s])
    BY <1>1, <2>1, <2>2, AppendHasMore
  <2> QED BY <2>1, <2>3, <2>4 DEF LastWord, AtName
<1>5. CASE PeerFin(s) \/ PeerReset(s)
  <2>1. /\ todo[s] # <<>> /\ todo'[s] = Tail(todo[s])
        /\ inbox'[s] = inbox[s] \/ inbox'[s] = <<>>
        /\ next'[s] = next[s] /\ reader'[s] = reader[s] /\ handler'[s] = handler[s]
    BY <1>1, <1>5 DEF PeerFin, PeerReset, PeerDoes
  <2>2. handler[s] # "absent"
    BY <1>5 DEF PeerFin, PeerReset, PeerDoes, LastWord
  <2> QED BY <1>1, <2>1, <2>2, TailHasLess, EmptyHasNone DEF LastWord, AtName
<1> QED BY <1>2, <1>3, <1>4, <1>5 DEF PeerStep

(* The reader puts it on offer. *)
LEMMA ReaderWord ==
  ASSUME TypeOK, NEW s \in Socket, LastWord(s), ReaderStep(s), ReaderAssertion
  PROVE  LastWord(s)'
<1>1. /\ inbox \in [Socket -> Seq(Frame)] /\ reader \in [Socket -> ReaderState]
      /\ next \in [Socket -> Data \cup {None}]
      /\ inbox[s] \in Seq(Frame)
  BY DEF TypeOK
<1>2. /\ todo'[s] = todo[s] /\ handler'[s] = handler[s]
      /\ reader[s] # "done"
  BY DEF ReaderStep, ReaderOffer, ReaderResume, ReaderClose, ReaderPing, ReaderPong, ReaderReject,
         ReaderSkipped, ReaderEnd, Reads, peerVars
<1>3. CASE ReaderOffer(s)
  <2> DEFINE f == Head(inbox[s])
  <2>1. /\ inbox[s] # <<>> /\ f \in Data
        /\ inbox'[s] = Tail(inbox[s]) /\ next'[s] = f
    BY <1>1, <1>3 DEF ReaderOffer, Reads
  <2>2. ~NoData(inbox[s])
    BY <1>1, <2>1, TailHasLess
  <2>3. handler[s] # "absent" /\ AtName(s) /\ NoData(todo[s])
    BY <1>2, <2>1, <2>2, EmptyHasNone DEF LastWord
  <2>4. AtName(s)'
    BY <1>2, <2>3 DEF AtName
  <2>5. NoData(inbox'[s]) /\ NoBad(inbox'[s]) /\ OneData(inbox'[s]) /\ f # "bad"
    BY <1>1, <2>1, TailHasLess DEF LastWord
  <2> QED BY <1>2, <2>1, <2>3, <2>4, <2>5 DEF LastWord
<1>4. CASE ReaderResume(s)
  BY <1>2, <1>4 DEF ReaderResume, LastWord, AtName, peerVars
<1>5. CASE ReaderPong(s) \/ ReaderPing(s)
  <2>1. /\ inbox[s] # <<>> /\ inbox'[s] = Tail(inbox[s])
        /\ UNCHANGED <<next, conn>>
    BY <1>1, <1>5 DEF ReaderPong, ReaderPing, Reads
  <2> QED BY <1>1, <1>2, <2>1, TailHasLess DEF LastWord, AtName
<1>6. CASE ReaderClose(s) \/ ReaderReject(s) \/ ReaderSkipped(s) \/ ReaderEnd(s)
  <2>1. /\ inbox'[s] = <<>> /\ next' = next /\ reader'[s] = "done"
    BY <1>1, <1>6 DEF ReaderClose, ReaderReject, ReaderSkipped, ReaderEnd, HangUp, Reads, peerVars
  <2>2. handler[s] # "absent"
    BY <1>6 DEF ReaderClose, ReaderReject, ReaderSkipped, ReaderEnd, Reads, LastWord
  <2> QED BY <1>2, <2>1, <2>2, EmptyHasNone DEF LastWord, AtName
<1> QED BY <1>3, <1>4, <1>5, <1>6 DEF ReaderStep

(* The handler takes it as the name, or ends without. *)
LEMMA HandlerWord ==
  ASSUME TypeOK, NEW s \in Socket, LastWord(s), HandlerStep(s)
  PROVE  LastWord(s)'
<1>1. /\ next \in [Socket -> Data \cup {None}] /\ handler \in [Socket -> HandlerState]
  BY DEF TypeOK
<1>2. UNCHANGED <<todo, inbox, reader>>
  BY DEF HandlerStep, NameTimeout, NameThrows, NameText, NameEmpty, NameBad, Rejects, ReadText,
         ReadQuit, ReadBad, ReadBreak, ReadEnd, Joined, FailJoined, peerVars
<1>3. next[s] # "bad" /\ None # "bad"
  BY DEF LastWord, None
<1>4. ~ReadText(s) /\ ~ReadQuit(s) /\ ~ReadBreak(s) /\ ~NameBad(s) /\ ~ReadBad(s)
  <2>1. handler[s] = "read" => next[s] = None
    BY DEF LastWord, AtName
  <2> QED BY <1>3, <2>1 DEF ReadText, ReadQuit, ReadBreak, NameBad, ReadBad, Rejects, None
<1>5. CASE NameTimeout(s)
  <2>1. handler'[s] = "recvName" /\ next' = next /\ AtName(s)
    BY <1>1, <1>5 DEF NameTimeout, Goto, AtName
  <2> QED BY <1>2, <2>1 DEF LastWord, AtName
<1>6. CASE NameThrows(s)
  <2>1. handler'[s] = "failing" /\ next' = next /\ AtName(s) /\ next[s] = None
        /\ reader[s] = "done"
    BY <1>1, <1>6 DEF NameThrows, Goto
  <2> QED BY <1>2, <2>1 DEF LastWord, AtName
<1>7. CASE NameText(s) \/ NameEmpty(s)
  <2>1. handler'[s] \in {"read", "joining", "failing"} /\ next'[s] = None
    BY <1>1, <1>7 DEF NameText, NameEmpty, EnterLoop, Goto, Take
  <2>2. next[s] # None
    BY <1>7 DEF NameText, NameEmpty, None
  <2> QED BY <1>2, <1>3, <2>1, <2>2 DEF LastWord, AtName
<1>8. CASE ReadEnd(s) \/ Joined(s) \/ FailJoined(s)
  <2>1. /\ handler'[s] \in {"joining", "gone"} /\ next' = next
        /\ handler[s] \in {"read", "joining", "failing"}
    BY <1>1, <1>8 DEF ReadEnd, Joined, FailJoined, Goto
  <2> QED BY <1>2, <2>1 DEF LastWord, AtName
<1> QED BY <1>4, <1>5, <1>6, <1>7, <1>8 DEF HandlerStep

LEMMA LastWordsStep ==
  ASSUME SingleMessage
  PROVE  TypeOK /\ ReaderAssertion /\ LastWords /\ [Next]_vars => LastWords'
<1> SUFFICES ASSUME TypeOK, ReaderAssertion, LastWords, [Next]_vars,
                    NEW t \in Socket
             PROVE  LastWord(t)'
  BY DEF LastWords
<1>0. LastWord(t)
  BY DEF LastWords
<1>1. CASE Broadcast \/ resReceive \/ UNCHANGED vars
  BY <1>0, <1>1, TasksStay, SameWord
<1>2. ASSUME NEW s \in Socket, ConnectionStep(s) PROVE LastWord(t)'
  <2>1. CASE t # s
    BY <1>0, <1>2, <2>1, OthersStay, SameWord
  <2>2. CASE t = s /\ (Accept(s) \/ PeerStep(s))
    BY <1>0, <2>2, PeerWord
  <2>3. CASE t = s /\ ReaderStep(s)
    BY <1>0, <2>3, ReaderWord
  <2>4. CASE t = s /\ HandlerStep(s)
    BY <1>0, <2>4, HandlerWord
  <2>5. CASE t = s /\ TimerStep(s)
    BY <1>0, <2>5, TimerFrame, SameWord DEF LastWord, AtName
  <2> QED BY <1>2, <2>1, <2>2, <2>3, <2>4, <2>5 DEF ConnectionStep
<1> QED BY <1>1, <1>2 DEF Next, ConnectionStep

(* For clients that send one message (the page sends its name and nothing  *)
(* more), a handler that waits in close for its reader (websockets.d:455)  *)
(* never holds the message that the reader waits to be rid of.             *)
THEOREM JoinCanEndHolds ==
  ASSUME SingleMessage
  PROVE  Spec => []JoinCanEnd
<1>1. Init => LastWords
  <2> SUFFICES ASSUME Init, NEW s \in Socket PROVE LastWord(s)
    BY DEF LastWords
  <2>1. /\ todo[s] = <<>> /\ inbox[s] = <<>> /\ next[s] = None /\ conn[s] = "new"
        /\ handler[s] = "absent"
    BY DEF Init
  <2>2. None # "bad"
    BY DEF None
  <2> QED BY <2>1, <2>2, EmptyHasNone DEF LastWord
<1>2. TypeOK /\ LastWords => JoinCanEnd
  BY DEF LastWords, LastWord, JoinCanEnd, AtName
<1> QED BY <1>1, <1>2, HubTypeCorrect, ReaderAssertionHolds, LastWordsStep, PTL DEF Spec

------------------------------------------------------------------------------
(* Clients that begin with their name. *)

LEMMA SameBehaved ==
  ASSUME NEW t \in Socket, Same(t), Behaved(t)
  PROVE  Behaved(t)'
BY DEF Same, Behaved, NameComes, AtName, connected

(* The peer connects, sends its name, or goes after it. *)
LEMMA PeerBehaved ==
  ASSUME TypeOK, NamedFirst, NEW s \in Socket, Behaved(s), Accept(s) \/ PeerStep(s)
  PROVE  Behaved(s)'
<1>1. /\ todo \in [Socket -> Seq(PeerEvent)] /\ inbox \in [Socket -> Seq(Frame)]
      /\ handler \in [Socket -> HandlerState] /\ conn \in [Socket -> {"new", "open", "closed"}]
      /\ reader \in [Socket -> ReaderState]
      /\ todo[s] \in Seq(PeerEvent) /\ inbox[s] \in Seq(Frame) /\ answered[s] \in Nat
  BY DEF TypeOK
<1>2. CASE Accept(s)
  <2>1. /\ todo'[s] \in Scripts /\ handler'[s] = "waitName" /\ conn'[s] = "open"
        /\ reader'[s] = "loop" /\ UNCHANGED <<inbox, next, sentClose, pings, skipped>>
        /\ handler[s] = "absent"
    BY <1>1, <1>2 DEF Accept, Goto
  <2>2. Introduced(todo'[s])
    BY <2>1 DEF NamedFirst
  <2>3. NoBad(todo'[s]) /\ NoReset(todo'[s])
    BY <2>2 DEF Introduced
  <2>4. connected(s)'
    BY <2>1 DEF Behaved, connected
  <2>5. NameComes(s)'
    BY <2>1, <2>2, <2>4 DEF NameComes, Behaved
  <2> QED BY <2>1, <2>3, <2>5 DEF Behaved, AtName
<1>3. CASE PeerSend(s)
  <2> DEFINE f == Head(todo[s])
  <2>1. /\ todo[s] # <<>> /\ f \in Scripted
        /\ todo'[s] = Tail(todo[s]) /\ inbox'[s] = Append(inbox[s], f)
        /\ UNCHANGED <<conn, sentClose, next, reader, handler, pings, skipped>>
    BY <1>1, <1>3 DEF PeerSend, PeerDoes, writeVars, pingVars
  <2>2. f \in Frame
    BY <2>1 DEF Frame
  <2>3. handler[s] # "absent"
    BY <1>3 DEF PeerSend, PeerDoes, Behaved
  <2>4. NoBad(todo'[s]) /\ NoReset(todo'[s]) /\ f # "bad"
    BY <1>1, <2>1, TailHasLess DEF Behaved
  <2>5. /\ NoBad(inbox'[s]) /\ inbox'[s] # <<>>
        /\ Head(inbox'[s]) = IF inbox[s] = <<>> THEN f ELSE Head(inbox[s])
    <3> DEFINE new == Append(inbox[s], f)
    <3>1. NoBad(inbox[s])
      BY DEF Behaved
    <3> HIDE DEF f
    <3>2. /\ NoBad(new) /\ new # <<>>
          /\ Head(new) = IF inbox[s] = <<>> THEN f ELSE Head(inbox[s])
      BY <1>1, <2>2, <2>4, <3>1, AppendHasMore
    <3> HIDE DEF new
    <3> QED BY <2>1, <3>2 DEF new
  <2> HIDE DEF f
  <2>6. AtName(s) => NameComes(s)'
    BY <2>1, <2>5 DEF Behaved, NameComes, Introduced, f
  <2> QED BY <2>1, <2>3, <2>4, <2>5, <2>6 DEF Behaved, AtName
<1>4. CASE PeerPong(s)
  <2>1. /\ inbox'[s] = Append(inbox[s], "pong") /\ answered[s] < pings[s]
        /\ UNCHANGED <<todo, conn, sentClose, next, reader, handler, pings, skipped>>
    BY <1>1, <1>4 DEF PeerPong, writeVars
  <2>2. "pong" \in Frame /\ "pong" # "bad"
    BY DEF Frame
  <2>3. handler[s] # "absent" /\ ~AtName(s)
    BY <1>1, <2>1 DEF Behaved
  <2>4. NoBad(inbox'[s])
    BY <1>1, <2>1, <2>2, AppendHasMore DEF Behaved
  <2> QED BY <2>1, <2>3, <2>4 DEF Behaved, AtName
<1>5. CASE PeerFin(s)
  <2>1. /\ todo[s] # <<>> /\ Head(todo[s]) = "fin" /\ todo'[s] = Tail(todo[s])
        /\ inbox'[s] = inbox[s] \/ (inbox'[s] = <<>> /\ reader[s] = "offer")
        /\ UNCHANGED <<sentClose, next, reader, handler, pings, skipped>>
    BY <1>1, <1>5 DEF PeerFin, PeerDoes, writeVars, pingVars
  <2>2. handler[s] # "absent"
    BY <1>5 DEF PeerFin, PeerDoes, Behaved
  <2>3. NoBad(todo'[s]) /\ NoReset(todo'[s]) /\ NoBad(inbox'[s])
    BY <1>1, <2>1, TailHasLess, EmptyHasNone DEF Behaved
  <2>4. AtName(s) => NameComes(s)'
    BY <2>1 DEF Behaved, NameComes, Introduced
  <2> QED BY <2>1, <2>2, <2>3, <2>4 DEF Behaved, AtName
<1>6. ~PeerReset(s)
  BY <1>1, TailHasLess DEF PeerReset, PeerDoes, Behaved
<1> QED BY <1>2, <1>3, <1>4, <1>5, <1>6 DEF PeerStep

(* The reader finds the name first. *)
LEMMA ReaderBehaved ==
  ASSUME TypeOK, NEW s \in Socket, Behaved(s), ReaderStep(s)
  PROVE  Behaved(s)'
<1>1. /\ inbox \in [Socket -> Seq(Frame)] /\ reader \in [Socket -> ReaderState]
      /\ next \in [Socket -> Data \cup {None}]
      /\ inbox[s] \in Seq(Frame)
  BY DEF TypeOK
<1>2. UNCHANGED <<todo, handler, pings, skipped>>
  BY DEF ReaderStep, ReaderOffer, ReaderResume, ReaderClose, ReaderPing, ReaderPong, ReaderReject,
         ReaderSkipped, ReaderEnd, peerVars, pingVars
<1>3. CASE ReaderOffer(s)
  <2> DEFINE f == Head(inbox[s])
  <2>1. /\ inbox[s] # <<>> /\ reader[s] # "offer" /\ reader'[s] = "offer"
        /\ inbox'[s] = Tail(inbox[s]) /\ next'[s] = f /\ f \in Data
    BY <1>1, <1>3 DEF ReaderOffer, Reads
  <2>2. NoBad(inbox'[s]) /\ f # "bad"
    BY <1>1, <2>1, TailHasLess DEF Behaved
  <2>3. handler[s] # "absent"
    BY <2>1 DEF Behaved
  <2>4. next[s] \in {"text", "quit"} /\ reader[s] = "offer" => FALSE
    BY <2>1
  <2>5. AtName(s) => f \in {"text", "quit"}
    BY <2>1 DEF Behaved, NameComes
  <2> HIDE DEF f
  <2>6. AtName(s) => NameComes(s)'
    BY <2>1, <2>5 DEF NameComes
  <2> QED BY <1>2, <2>1, <2>2, <2>3, <2>6 DEF Behaved, AtName
<1>4. CASE ReaderResume(s)
  <2>1. reader[s] = "offer" /\ next[s] = None /\ UNCHANGED <<inbox, next, conn, sentClose>>
    BY <1>4 DEF ReaderResume, peerVars, writeVars
  <2>2. ~AtName(s)
    BY <2>1 DEF Behaved, NameComes, None
  <2> QED BY <1>2, <2>1, <2>2 DEF Behaved, AtName
<1>5. CASE ReaderPong(s) \/ ReaderPing(s)
  <2>1. /\ inbox[s] # <<>> /\ inbox'[s] = Tail(inbox[s])
        /\ Head(inbox[s]) \in {"pong", "ping"}
        /\ reader[s] # "offer" /\ UNCHANGED <<next, conn, sentClose>>
    BY <1>1, <1>5 DEF ReaderPong, ReaderPing, Reads, writeVars
  <2>2. ~AtName(s) /\ handler[s] # "absent"
    BY <2>1 DEF Behaved, NameComes
  <2>3. NoBad(inbox'[s])
    BY <1>1, <2>1, TailHasLess DEF Behaved
  <2> QED BY <1>2, <2>1, <2>2, <2>3 DEF Behaved, AtName
<1>6. CASE ReaderClose(s) \/ ReaderReject(s) \/ ReaderSkipped(s) \/ ReaderEnd(s)
  <2>1. /\ inbox'[s] = <<>> /\ next' = next /\ reader[s] # "offer"
    BY <1>1, <1>6 DEF ReaderClose, ReaderReject, ReaderSkipped, ReaderEnd, HangUp, Reads, peerVars
  <2>2. \/ inbox[s] # <<>> /\ Head(inbox[s]) \in {"close", "stray", "pong", "ping"}
        \/ skipped[s]
        \/ inbox[s] = <<>> /\ conn[s] = "closed"
    BY <1>6 DEF ReaderClose, ReaderReject, ReaderSkipped, ReaderEnd, Reads
  <2>3. ~AtName(s)
    BY <2>1, <2>2 DEF Behaved, NameComes, connected
  <2>4. handler[s] # "absent"
    BY <2>2 DEF Behaved
  <2> QED BY <1>2, <2>1, <2>3, <2>4, EmptyHasNone DEF Behaved, AtName
<1> QED BY <1>3, <1>4, <1>5, <1>6 DEF ReaderStep

(* The handler gets its name and never fails. *)
LEMMA HandlerBehaved ==
  ASSUME TypeOK, NEW s \in Socket, Behaved(s), HandlerStep(s)
  PROVE  Behaved(s)' /\ ~FailJoined(s)
<1>1. /\ next \in [Socket -> Data \cup {None}] /\ handler \in [Socket -> HandlerState]
  BY DEF TypeOK
<1>2. UNCHANGED <<todo, inbox, reader, pings, skipped, conn>>
  BY DEF HandlerStep, NameTimeout, NameThrows, NameText, NameEmpty, NameBad, Rejects, ReadText,
         ReadQuit, ReadBad, ReadBreak, ReadEnd, Joined, FailJoined, peerVars, pingVars
<1>3. ~NameThrows(s) /\ ~NameEmpty(s) /\ ~NameBad(s) /\ ~ReadBad(s) /\ ~FailJoined(s)
  <2>1. next[s] # "bad" /\ handler[s] # "failing"
    BY DEF Behaved
  <2>2. AtName(s) => reader[s] # "done" /\ next[s] # "empty"
    BY DEF Behaved, NameComes, None
  <2> QED BY <2>1, <2>2 DEF NameThrows, NameEmpty, NameBad, ReadBad, Rejects, FailJoined
<1>4. CASE NameTimeout(s)
  <2>1. handler'[s] = "recvName" /\ AtName(s) /\ UNCHANGED <<next, sentClose>>
    BY <1>1, <1>4 DEF NameTimeout, Goto, AtName, writeVars
  <2>2. NameComes(s)'
    BY <1>2, <2>1 DEF Behaved, NameComes, connected
  <2> QED BY <1>2, <1>3, <2>1, <2>2 DEF Behaved, AtName
<1>5. CASE NameText(s) \/ ReadText(s) \/ ReadQuit(s) \/ ReadBreak(s) \/ ReadEnd(s) \/ Joined(s)
  <2>1. handler'[s] \in {"read", "joining", "gone"}
    BY <1>1, <1>5 DEF NameText, EnterLoop, ReadText, ReadQuit, ReadBreak, ReadEnd, Joined, Goto
  <2>2. next'[s] \in {next[s], None}
    BY <1>1, <1>5 DEF NameText, ReadText, ReadQuit, ReadBreak, ReadEnd, Joined, Take
  <2>3. next'[s] # "bad"
    BY <2>2 DEF Behaved, None
  <2> QED BY <1>2, <1>3, <2>1, <2>3 DEF Behaved, AtName
<1> QED BY <1>3, <1>4, <1>5 DEF HandlerStep

(* No ping is due before the name. *)
LEMMA TimerBehaved ==
  ASSUME TypeOK, NamedFirst, Quiet, NEW s \in Socket, Behaved(s), TimerStep(s)
  PROVE  Behaved(s)'
<1>1. UNCHANGED <<todo, inbox, conn, sentClose, next, reader, handler>>
  BY TimerFrame
<1>2. timer[s] /\ ~AtName(s)
  BY DEF TimerStep, SendPing, SkipPong, Due, NamedFirst
<1>3. handler[s] # "absent"
  BY <1>2 DEF Quiet
<1> QED BY <1>1, <1>2, <1>3 DEF Behaved, AtName

LEMMA AllBehavedStep ==
  ASSUME NamedFirst
  PROVE  TypeOK /\ Quiet /\ AllBehaved /\ [Next]_vars => AllBehaved'
<1> SUFFICES ASSUME TypeOK, Quiet, AllBehaved, [Next]_vars, NEW t \in Socket
             PROVE  Behaved(t)'
  BY DEF AllBehaved
<1>0. Behaved(t)
  BY DEF AllBehaved
<1>1. CASE Broadcast \/ resReceive \/ UNCHANGED vars
  BY <1>0, <1>1, TasksStay, SameBehaved
<1>2. ASSUME NEW s \in Socket, ConnectionStep(s) PROVE Behaved(t)'
  <2>1. CASE t # s
    BY <1>0, <1>2, <2>1, OthersStay, SameBehaved
  <2>2. CASE t = s /\ (Accept(s) \/ PeerStep(s))
    BY <1>0, <2>2, PeerBehaved
  <2>3. CASE t = s /\ ReaderStep(s)
    BY <1>0, <2>3, ReaderBehaved
  <2>4. CASE t = s /\ HandlerStep(s)
    BY <1>0, <2>4, HandlerBehaved
  <2>5. CASE t = s /\ TimerStep(s)
    BY <1>0, <2>5, TimerBehaved
  <2> QED BY <1>2, <2>1, <2>2, <2>3, <2>4, <2>5 DEF ConnectionStep
<1> QED BY <1>1, <1>2 DEF Next, ConnectionStep

(* A handler that ends takes its socket out: it ends by Joined only. *)
LEMMA ListedIsHandledStep ==
  TypeOK /\ OnlyAccepted /\ ListedOnce /\ AllBehaved /\ ListedIsHandled /\ [Next]_vars
    => ListedIsHandled'
<1> SUFFICES ASSUME TypeOK, OnlyAccepted, ListedOnce, AllBehaved, ListedIsHandled,
                    [Next]_vars, NEW t \in Socket, Listed(t)'
             PROVE  handler'[t] # "gone"
  BY DEF ListedIsHandled
<1>0. sockets \in Seq(Socket) /\ handler \in [Socket -> HandlerState]
  BY DEF TypeOK
<1>1. CASE UNCHANGED <<sockets, handler>>
  BY <1>1 DEF ListedIsHandled, Listed
<1>2. ASSUME NEW s \in Socket, Accept(s) PROVE handler'[t] # "gone"
  <2>1. /\ sockets' = Append(sockets, s) /\ handler'[s] = "waitName"
        /\ \A u \in Socket \ {s} : handler'[u] = handler[u]
    BY <1>0, <1>2 DEF Accept, Goto
  <2>2. CASE t = s
    BY <2>1, <2>2
  <2>3. CASE t # s
    <3>1. PICK i \in 1 .. Len(sockets') : sockets'[i] = t
      BY DEF Listed
    <3>2. /\ Len(sockets') = Len(sockets) + 1 /\ Len(sockets) \in Nat
          /\ \A j \in 1 .. Len(sockets) : sockets'[j] = sockets[j]
          /\ sockets'[Len(sockets) + 1] = s
      BY <1>0, <2>1, AppendProperties
    <3>3. i \in 1 .. Len(sockets) /\ sockets[i] = t
      BY <2>3, <3>1, <3>2
    <3> QED BY <2>1, <2>3, <3>3 DEF ListedIsHandled, Listed
  <2> QED BY <2>2, <2>3
<1>3. ASSUME NEW s \in Socket, HandlerStep(s) PROVE handler'[t] # "gone"
  <2>1. CASE Joined(s)
    <3>1. /\ sockets' = removeFromArray(sockets, s)
          /\ \A u \in Socket \ {s} : handler'[u] = handler[u]
      BY <1>0, <2>1 DEF Joined, Goto
    <3>2. Injective(sockets)
      BY DEF ListedOnce, Injective
    <3>3. /\ \A i \in 1 .. Len(sockets') : \E j \in 1 .. Len(sockets) : sockets'[i] = sockets[j]
          /\ \A i \in 1 .. Len(sockets') : sockets'[i] # s
      BY <1>0, <3>1, <3>2, RemoveOnly
    <3>4. t # s /\ Listed(t)
      BY <3>3 DEF Listed
    <3> QED BY <3>1, <3>4 DEF ListedIsHandled
  <2>2. CASE ~Joined(s)
    <3>1. ~FailJoined(s)
      BY <1>3, HandlerBehaved DEF AllBehaved
    <3>2. sockets' = sockets /\ handler'[s] # "gone"
      <4>1. CASE NameTimeout(s) \/ NameThrows(s) \/ NameText(s) \/ NameEmpty(s) \/ NameBad(s)
        BY <1>0, <4>1 DEF NameTimeout, NameThrows, NameText, EnterLoop, NameEmpty, NameBad,
                          Rejects, Goto, hubVars
      <4>2. CASE ReadText(s) \/ ReadQuit(s) \/ ReadBad(s) \/ ReadBreak(s) \/ ReadEnd(s)
        BY <1>0, <4>2 DEF ReadText, ReadQuit, ReadBad, Rejects, ReadBreak, ReadEnd, Goto, hubVars
      <4> QED BY <1>3, <2>2, <3>1, <4>1, <4>2 DEF HandlerStep
    <3>3. \A u \in Socket \ {s} : handler'[u] = handler[u]
      BY <1>0, <1>3, HandlerMoves
    <3> QED BY <3>2, <3>3 DEF ListedIsHandled, Listed
  <2> QED BY <2>1, <2>2
<1>4. ASSUME NEW s \in Socket, PeerStep(s) \/ ReaderStep(s) \/ TimerStep(s)
      PROVE  UNCHANGED <<sockets, handler>>
  BY <1>4, TimerFrame DEF PeerStep, PeerSend, PeerPong, PeerFin, PeerReset, ReaderStep, ReaderOffer,
     ReaderResume, ReaderClose, ReaderPing, ReaderPong, ReaderReject, ReaderSkipped, ReaderEnd, hubVars
<1>5. ASSUME Broadcast \/ resReceive PROVE UNCHANGED <<sockets, handler>>
  BY <1>5 DEF Broadcast, resReceive
<1> QED BY <1>1, <1>2, <1>3, <1>4, <1>5 DEF Next, vars

(* For clients that begin with their name, no handler ends and leaves its  *)
(* socket in the array: the exception that passes the removal (app.d:539,  *)
(* "Remove socket from sockets list and close socket") is never thrown.    *)
THEOREM ListedIsHandledHolds ==
  ASSUME NamedFirst
  PROVE  Spec => []ListedIsHandled
<1>1. Init => OnlyAccepted /\ ListedOnce /\ AllBehaved /\ ListedIsHandled
  <2>1. Init => OnlyAccepted /\ ListedOnce /\ ListedIsHandled
    BY DEF Init, OnlyAccepted, ListedOnce, ListedIsHandled, Listed
  <2>2. ASSUME Init, NEW s \in Socket PROVE Behaved(s)
    <3>1. /\ todo[s] = <<>> /\ inbox[s] = <<>> /\ next[s] = None /\ conn[s] = "new"
          /\ handler[s] = "absent" /\ ~sentClose[s] /\ pings[s] = 0 /\ ~skipped[s]
      BY <2>2 DEF Init
    <3>2. None # "bad"
      BY DEF None
    <3> QED BY <3>1, <3>2, EmptyHasNone DEF Behaved, AtName
  <2> QED BY <2>1, <2>2 DEF AllBehaved
<1>2. Spec => [](TypeOK /\ Quiet)
  BY AlwaysQuiet, PTL
<1> QED BY <1>1, <1>2, ListedOnceStep, AllBehavedStep, ListedIsHandledStep, PTL DEF Spec

------------------------------------------------------------------------------
(* The page that the project ships. *)

(* websocket.js: one text when the connection opens; then the page stays,  *)
(* or the browser closes it with or without the closing handshake.         *)
PageBehaviours == { <<"text">>, <<"text", "close", "fin">>, <<"text", "fin">> }

(* With browsers that run websocket.js and send the name before the first  *)
(* ping is due, and with however many of them, the array holds no socket   *)
(* without a handler and no close waits for ever on a message.             *)
THEOREM PageIsServed ==
  ASSUME NameInTime, Scripts \subseteq PageBehaviours
  PROVE  Spec => [](ListedIsHandled /\ JoinCanEnd)
<1>1. \A script \in PageBehaviours : OneData(script) /\ NoBad(script) /\ Introduced(script)
  <2>1. /\ OneData(<<"text">>) /\ Introduced(<<"text">>)
    BY DEF OneData, NoBad, NoReset, Introduced, Data
  <2>2. OneData(<<"text", "close", "fin">>) /\ Introduced(<<"text", "close", "fin">>)
    BY DEF OneData, NoBad, NoReset, Introduced, Data
  <2>3. OneData(<<"text", "fin">>) /\ Introduced(<<"text", "fin">>)
    BY DEF OneData, NoBad, NoReset, Introduced, Data
  <2> QED BY <2>1, <2>2, <2>3 DEF PageBehaviours, Introduced
<1>2. SingleMessage /\ NamedFirst
  BY <1>1 DEF SingleMessage, NamedFirst
<1> QED BY <1>2, ListedIsHandledHolds, JoinCanEndHolds, PTL
==============================================================================
