--------------------------- MODULE EventHub_proofs ---------------------------
(***************************************************************************)
(* Proofs about the event hub, for any number of connections and any       *)
(* behaviour of their peers.                                               *)
(***************************************************************************)
EXTENDS EventHub, SequenceTheorems, TLAPS

(* The initial state is well typed. *)
LEMMA InitType == Init => TypeOK
BY DEF Init, TypeOK, Data, None, ReaderState, HandlerState

(* close, and the writes before it, keep the types of what they change. *)
LEMMA CloseType ==
  ASSUME TypeOK, NEW s \in Socket, NEW before \in Seq(OutFrame), close(s, before)
  PROVE  /\ sentClose' \in [Socket -> BOOLEAN]
         /\ out' \in [Socket -> Seq(OutFrame)]
         /\ timer' \in [Socket -> BOOLEAN]
<1>1. sentClose' \in [Socket -> BOOLEAN]
  BY DEF TypeOK, close, connected
<1>2. (IF connected(s) THEN <<"close">> ELSE <<>>) \in Seq(OutFrame)
  <2>1. <<"close">> \in Seq(OutFrame) /\ <<>> \in Seq(OutFrame)
    BY DEF OutFrame
  <2> QED BY <2>1, Zenon
<1>3. before \o (IF connected(s) THEN <<"close">> ELSE <<>>) \in Seq(OutFrame)
  BY <1>2
<1>4. out[s] \o (before \o (IF connected(s) THEN <<"close">> ELSE <<>>)) \in Seq(OutFrame)
  BY <1>3 DEF TypeOK
<1>5. out' \in [Socket -> Seq(OutFrame)]
  BY <1>4 DEF TypeOK, close, Write
<1>6. timer' \in [Socket -> BOOLEAN]
  BY DEF TypeOK, close
<1> QED BY <1>1, <1>5, <1>6

(* Removal yields a list of sockets again. *)
LEMMA RemoveType ==
  ASSUME NEW list \in Seq(Socket), NEW s
  PROVE  removeFromArray(list, s) \in Seq(Socket)
BY DEF removeFromArray

(* Steps of the peers keep the types. *)
LEMMA PeerType ==
  ASSUME TypeOK, NEW s \in Socket, Accept(s) \/ PeerStep(s)
  PROVE  TypeOK'
<1> USE DEF TypeOK, writeVars, pingVars, hubVars
<1>1. CASE Accept(s)
  BY <1>1, ScriptsAssumption DEF Accept, Goto, ReaderState, HandlerState
<1>2. CASE PeerSend(s)
  <2>1. inbox' \in [Socket -> Seq(Frame)]
    BY <1>2 DEF PeerSend, PeerDoes, Frame
  <2>2. todo' \in [Socket -> Seq(PeerEvent)]
    BY <1>2 DEF PeerSend, PeerDoes
  <2> QED BY <1>2, <2>1, <2>2 DEF PeerSend
<1>3. CASE PeerFin(s)
  <2>1. inbox' \in [Socket -> Seq(Frame)]
    <3>1. CASE UNCHANGED inbox
      BY <3>1
    <3>2. CASE inbox' = [inbox EXCEPT ![s] = <<>>]
      <4>1. <<>> \in Seq(Frame)
        OBVIOUS
      <4> QED BY <3>2, <4>1
    <3> QED BY <1>3, <3>1, <3>2 DEF PeerFin
  <2>2. todo' \in [Socket -> Seq(PeerEvent)]
    BY <1>3 DEF PeerFin, PeerDoes
  <2>3. conn' \in [Socket -> {"new", "open", "closed"}]
    BY <1>3 DEF PeerFin
  <2> QED BY <1>3, <2>1, <2>2, <2>3 DEF PeerFin
<1>4. CASE PeerReset(s)
  <2>1. <<>> \in Seq(Frame)
    OBVIOUS
  <2>2. inbox' \in [Socket -> Seq(Frame)]
    BY <1>4, <2>1 DEF PeerReset
  <2>3. todo' \in [Socket -> Seq(PeerEvent)]
    BY <1>4 DEF PeerReset, PeerDoes
  <2> QED BY <1>4, <2>2, <2>3 DEF PeerReset
<1>5. CASE PeerPong(s)
  <2>1. inbox' \in [Socket -> Seq(Frame)]
    BY <1>5 DEF PeerPong, Frame
  <2>2. answered' \in [Socket -> Nat]
    BY <1>5 DEF PeerPong
  <2> QED BY <1>5, <2>1, <2>2 DEF PeerPong
<1> QED BY <1>1, <1>2, <1>3, <1>4, <1>5 DEF PeerStep

(* So does hanging up. *)
LEMMA HangUpType ==
  ASSUME TypeOK, NEW s \in Socket, HangUp(s)
  PROVE  /\ conn' \in [Socket -> {"new", "open", "closed"}]
         /\ inbox' \in [Socket -> Seq(Frame)]
         /\ reader' \in [Socket -> ReaderState]
<1>1. <<>> \in Seq(Frame)
  OBVIOUS
<1> QED BY <1>1 DEF TypeOK, HangUp, ReaderState

(* Steps of a reader keep the types. *)
LEMMA ReaderType ==
  ASSUME TypeOK, NEW s \in Socket, ReaderStep(s)
  PROVE  TypeOK'
<1> USE DEF TypeOK, peerVars, writeVars, pingVars, hubVars
<1>1. CASE ReaderOffer(s)
  <2>1. inbox' \in [Socket -> Seq(Frame)]
    BY <1>1 DEF ReaderOffer, Reads
  <2>2. next' \in [Socket -> Data \cup {None}]
    BY <1>1 DEF ReaderOffer, Reads
  <2> QED BY <1>1, <2>1, <2>2 DEF ReaderOffer, ReaderState
<1>2. CASE ReaderResume(s)
  BY <1>2 DEF ReaderResume, ReaderState
<1>3. CASE ReaderClose(s)
  <2>1. <<>> \in Seq(OutFrame)
    OBVIOUS
  <2>2. /\ sentClose' \in [Socket -> BOOLEAN] /\ out' \in [Socket -> Seq(OutFrame)]
        /\ timer' \in [Socket -> BOOLEAN]
    BY <1>3, <2>1, CloseType DEF ReaderClose
  <2> QED BY <1>3, <2>2, HangUpType DEF ReaderClose
<1>4. CASE ReaderEnd(s)
  BY <1>4 DEF ReaderEnd, ReaderState
<1>5. CASE ReaderPong(s)
  <2>1. inbox' \in [Socket -> Seq(Frame)]
    BY <1>5 DEF ReaderPong, Reads
  <2>2. heard' \in [Socket -> Nat] /\ ponged' \in [Socket -> BOOLEAN]
    BY <1>5 DEF ReaderPong
  <2> QED BY <1>5, <2>1, <2>2 DEF ReaderPong, ReaderState
<1>6. CASE ReaderReject(s) \/ ReaderSkipped(s)
  BY <1>6, HangUpType DEF ReaderReject, ReaderSkipped
<1>7. CASE ReaderPing(s)
  <2>1. inbox' \in [Socket -> Seq(Frame)]
    BY <1>7 DEF ReaderPing, Reads
  <2>2. out' \in [Socket -> Seq(OutFrame)]
    <3>1. "pong" \in OutFrame
      BY DEF OutFrame
    <3> QED BY <1>7, <3>1 DEF ReaderPing, Write
  <2> QED BY <1>7, <2>1, <2>2 DEF ReaderPing, ReaderState
<1> QED BY <1>1, <1>2, <1>3, <1>4, <1>5, <1>6, <1>7 DEF ReaderStep

(* Steps of a handler keep the types. *)
LEMMA HandlerType ==
  ASSUME TypeOK, NEW s \in Socket, HandlerStep(s)
  PROVE  TypeOK'
<1> USE DEF TypeOK, HandlerState, peerVars, writeVars, pingVars, hubVars, Goto, Take
<1>0. <<>> \in Seq(OutFrame) /\ <<"invalid">> \in Seq(OutFrame)
  BY DEF OutFrame
<1>a. ASSUME close(s, <<>>)
      PROVE  /\ sentClose' \in [Socket -> BOOLEAN] /\ out' \in [Socket -> Seq(OutFrame)]
             /\ timer' \in [Socket -> BOOLEAN]
  BY <1>0, <1>a, CloseType
<1>1. CASE NameTimeout(s)
  BY <1>1 DEF NameTimeout
<1>2. CASE NameThrows(s)
  BY <1>2, <1>a DEF NameThrows
<1>3. CASE NameText(s)
  <2>1. /\ sentClose' \in [Socket -> BOOLEAN] /\ out' \in [Socket -> Seq(OutFrame)]
        /\ timer' \in [Socket -> BOOLEAN]
    BY <1>3, <1>a DEF NameText, EnterLoop
  <2>2. handler' \in [Socket -> HandlerState]
    BY <1>3 DEF NameText, EnterLoop
  <2>3. next' \in [Socket -> Data \cup {None}] /\ mailbox' \in Seq(Socket)
    BY <1>3 DEF NameText
  <2> QED BY <1>3, <2>1, <2>2, <2>3 DEF NameText
<1>4. CASE NameEmpty(s)
  <2>1. (IF connected(s) THEN <<"invalid">> ELSE <<>>) \in Seq(OutFrame)
    BY <1>0
  <2>2. /\ sentClose' \in [Socket -> BOOLEAN] /\ out' \in [Socket -> Seq(OutFrame)]
        /\ timer' \in [Socket -> BOOLEAN]
    BY <1>4, <2>1, CloseType DEF NameEmpty
  <2> QED BY <1>4, <2>2 DEF NameEmpty
<1>5. CASE Rejects(s)
  BY <1>5, <1>a DEF Rejects
<1>6. CASE ReadText(s)
  BY <1>6 DEF ReadText
<1>7. CASE ReadQuit(s)
  BY <1>7, <1>a DEF ReadQuit
<1>8. CASE ReadBreak(s)
  BY <1>8, <1>a DEF ReadBreak
<1>9. CASE ReadEnd(s)
  BY <1>9, <1>a DEF ReadEnd
<1>10. CASE Joined(s)
  BY <1>10, RemoveType DEF Joined
<1>11. CASE FailJoined(s)
  BY <1>11 DEF FailJoined
<1> QED BY <1>1, <1>2, <1>3, <1>4, <1>5, <1>6, <1>7, <1>8, <1>9, <1>10, <1>11
        DEF HandlerStep, NameBad, ReadBad

(* What a step of a ping timer writes. *)
LEMMA TimerWrites ==
  ASSUME TypeOK, NEW s \in Socket, TimerStep(s)
  PROVE  \/ out' = out
         \/ timer[s] /\ out' = [out EXCEPT ![s] = Append(@, "ping")]
<1> USE DEF TypeOK
<1>1. CASE SkipPong(s)
  BY <1>1 DEF SkipPong
<1>2. CASE SendPing(s) /\ conn[s] = "open"
  <2>1. timer[s] /\ out' = [out EXCEPT ![s] = out[s] \o <<"ping">>]
    BY <1>2 DEF SendPing, Write, Due
  <2>2. out[s] \o <<"ping">> = Append(out[s], "ping")
    BY DEF OutFrame
  <2> QED BY <2>1, <2>2
<1>3. CASE SendPing(s) /\ conn[s] # "open"
  <2>1. out' = [out EXCEPT ![s] = out[s] \o <<>>]
    BY <1>3 DEF SendPing, Write
  <2>2. out[s] \o <<>> = out[s]
    OBVIOUS
  <2> QED BY <2>1, <2>2
<1> QED BY <1>1, <1>2, <1>3 DEF TimerStep

(* Steps of a ping timer keep the types. *)
LEMMA TimerType ==
  ASSUME TypeOK, NEW s \in Socket, TimerStep(s)
  PROVE  TypeOK'
<1>0. \/ out' = out
      \/ out' = [out EXCEPT ![s] = Append(@, "ping")]
  BY TimerWrites
<1> USE DEF TypeOK, peerVars, hubVars
<1>1. out' \in [Socket -> Seq(OutFrame)]
  <2>1. Append(out[s], "ping") \in Seq(OutFrame)
    BY DEF OutFrame
  <2> QED BY <1>0, <2>1
<1>2. CASE SendPing(s)
  <2>1. pings' \in [Socket -> Nat] /\ ponged' \in [Socket -> BOOLEAN]
    BY <1>2 DEF SendPing
  <2> QED BY <1>1, <1>2, <2>1 DEF SendPing
<1>3. CASE SkipPong(s)
  BY <1>3 DEF SkipPong
<1> QED BY <1>2, <1>3 DEF TimerStep

(* Steps of the OCP tasks keep the types. *)
LEMMA TaskType ==
  ASSUME TypeOK, Broadcast \/ resReceive
  PROVE  TypeOK'
<1> USE DEF TypeOK, peerVars, writeVars, pingVars
<1>1. CASE Broadcast
  <2>1. \A s \in Socket : out[s] \in Seq(OutFrame) /\ Append(out[s], "event") \in Seq(OutFrame)
    BY DEF OutFrame
  <2>2. out' \in [Socket -> Seq(OutFrame)]
    BY <1>1, <2>1 DEF Broadcast
  <2>3. req' \in {"sleep", "done", "failed", "crashed"}
    BY <1>1 DEF Broadcast
  <2> QED BY <1>1, <2>2, <2>3 DEF Broadcast
<1>2. CASE resReceive
  <2>1. mailbox' \in Seq(Socket) /\ logged' \in Seq(Socket)
    BY <1>2 DEF resReceive
  <2> QED BY <1>2, <2>1 DEF resReceive
<1> QED BY <1>1, <1>2

(* Every step keeps the types. *)
LEMMA NextType == TypeOK /\ [Next]_vars => TypeOK'
<1> SUFFICES ASSUME TypeOK, [Next]_vars PROVE TypeOK'
  OBVIOUS
<1>1. CASE UNCHANGED vars
  BY <1>1 DEF TypeOK, vars
<1>2. CASE Next
  BY <1>2, PeerType, ReaderType, HandlerType, TimerType, TaskType DEF Next
<1> QED BY <1>1, <1>2

(* The hub's state is well typed, for any number of connections. *)
THEOREM HubTypeCorrect == Spec => []TypeOK
BY InitType, NextType, PTL DEF Spec

(* What the ping timers leave alone. *)
LEMMA TimerFrame ==
  ASSUME NEW s \in Socket, TimerStep(s)
  PROVE  UNCHANGED <<todo, inbox, conn, sentClose, next, reader, handler,
                     answered, heard, sockets, req, mailbox, logged>>
BY DEF TimerStep, SendPing, SkipPong, peerVars, hubVars

(* The reader writes by closing, or the answer to a ping of the peer. *)
LEMMA ReaderWrites ==
  ASSUME NEW s \in Socket, ReaderStep(s)
  PROVE  \/ UNCHANGED writeVars
         \/ close(s, <<>>)
         \/ Write(s, <<"pong">>) /\ UNCHANGED <<sentClose, timer>>
BY DEF ReaderStep, ReaderOffer, ReaderResume, ReaderClose,
       ReaderPing, ReaderPong, ReaderReject, ReaderSkipped, ReaderEnd, writeVars

(* A handler writes only by closing, and does so when it leaves its loop. *)
LEMMA HandlerWrites ==
  ASSUME TypeOK, NEW s \in Socket, HandlerStep(s)
  PROVE  \/ /\ UNCHANGED writeVars
            /\ \/ handler'[s] \in {"recvName", "read"}
               \/ handler[s] \in {"joining", "failing"}
         \/ close(s, <<>>)
         \/ NameEmpty(s)
<1> USE DEF TypeOK, Goto, writeVars
<1>1. CASE NameTimeout(s) \/ NameThrows(s) \/ NameEmpty(s) \/ NameBad(s)
  BY <1>1 DEF NameTimeout, NameThrows, NameBad, Rejects
<1>2. CASE NameText(s)
  BY <1>2 DEF NameText, EnterLoop
<1>3. CASE ReadText(s) \/ ReadQuit(s) \/ ReadBad(s)
  BY <1>3 DEF ReadText, ReadQuit, ReadBad, Rejects
<1>4. CASE ReadBreak(s) \/ ReadEnd(s) \/ Joined(s) \/ FailJoined(s)
  BY <1>4 DEF ReadBreak, ReadEnd, Joined, FailJoined
<1> QED BY <1>1, <1>2, <1>3, <1>4 DEF HandlerStep

(* Peers and resTask write nothing. *)
LEMMA PeerWrites ==
  ASSUME NEW s \in Socket, PeerStep(s)
  PROVE  UNCHANGED writeVars
BY DEF PeerStep, PeerSend, PeerPong, PeerFin, PeerReset

------------------------------------------------------------------------------
(* The message on offer. *)

(* What a step of a handler does to the two variables it shares with the   *)
(* reader, and the way it goes.                                            *)
LEMMA HandlerMoves ==
  ASSUME TypeOK, NEW s \in Socket, HandlerStep(s)
  PROVE  /\ UNCHANGED reader
         /\ UNCHANGED next \/ Take(s)
         /\ handler[s] \notin {"absent", "gone"}
         /\ \E st \in HandlerState \ {"absent"} : handler' = [handler EXCEPT ![s] = st]
<1> USE DEF TypeOK, HandlerState, Goto, AtName
<1>1. CASE NameTimeout(s) \/ NameThrows(s) \/ NameText(s)
  BY <1>1 DEF NameTimeout, NameThrows, NameText, EnterLoop
<1>2. CASE NameEmpty(s) \/ NameBad(s)
  BY <1>2 DEF NameEmpty, NameBad, Rejects
<1>3. CASE ReadText(s)
  <2>1. handler' = [handler EXCEPT ![s] = "read"]
    BY <1>3 DEF ReadText
  <2> QED BY <1>3, <2>1 DEF ReadText
<1>4. CASE ReadQuit(s) \/ ReadBad(s)
  BY <1>4 DEF ReadQuit, ReadBad, Rejects
<1>5. CASE ReadBreak(s) \/ ReadEnd(s)
  BY <1>5 DEF ReadBreak, ReadEnd
<1>6. CASE Joined(s) \/ FailJoined(s)
  BY <1>6 DEF Joined, FailJoined
<1> QED BY <1>1, <1>2, <1>3, <1>4, <1>5, <1>6 DEF HandlerStep

(* A socket has no reader before it has a handler. *)
Unstarted == \A s \in Socket : handler[s] = "absent" => reader[s] = "off"

(* The reader starts together with the handler. *)
LEMMA UnstartedStep == TypeOK /\ Unstarted /\ [Next]_vars => Unstarted'
<1> SUFFICES ASSUME TypeOK, Unstarted, [Next]_vars PROVE Unstarted'
  OBVIOUS
<1> USE DEF TypeOK, Unstarted
<1>1. CASE UNCHANGED <<reader, handler>>
  BY <1>1
<1>2. ASSUME NEW s \in Socket, Accept(s) PROVE Unstarted'
  BY <1>2 DEF Accept, Goto
<1>3. ASSUME NEW s \in Socket, ReaderStep(s) PROVE Unstarted'
  <2>1. reader[s] # "off" /\ UNCHANGED handler
    BY <1>3 DEF ReaderStep, ReaderOffer, ReaderResume, ReaderClose,
              ReaderPing, ReaderPong, ReaderReject, ReaderSkipped, ReaderEnd, HangUp, Reads
  <2>2. \A t \in Socket \ {s} : reader'[t] = reader[t]
    BY <1>3 DEF ReaderStep, ReaderOffer, ReaderResume, ReaderClose,
              ReaderPing, ReaderPong, ReaderReject, ReaderSkipped, ReaderEnd, HangUp, Reads
  <2> QED BY <2>1, <2>2
<1>4. ASSUME NEW s \in Socket, HandlerStep(s) PROVE Unstarted'
  BY <1>4, HandlerMoves
<1>5. ASSUME NEW s \in Socket, PeerStep(s) PROVE UNCHANGED <<reader, handler>>
  BY <1>5 DEF PeerStep, PeerSend, PeerPong, PeerFin, PeerReset
<1>6. ASSUME Broadcast \/ resReceive PROVE UNCHANGED <<reader, handler>>
  BY <1>6 DEF Broadcast, resReceive
<1>7. ASSUME NEW s \in Socket, TimerStep(s) PROVE UNCHANGED <<reader, handler>>
  BY <1>7, TimerFrame
<1> QED BY <1>1, <1>2, <1>3, <1>4, <1>5, <1>6, <1>7 DEF Next, vars

(* A reader leaves its wait only with nothing on offer, whatever the       *)
(* handler does in between.                                                *)
LEMMA ReaderAssertionStep ==
  TypeOK /\ Unstarted /\ ReaderAssertion /\ [Next]_vars => ReaderAssertion'
<1> SUFFICES ASSUME TypeOK, Unstarted, ReaderAssertion, [Next]_vars PROVE ReaderAssertion'
  OBVIOUS
<1> USE DEF TypeOK, ReaderAssertion
<1>1. CASE UNCHANGED <<reader, next>>
  BY <1>1
<1>2. ASSUME NEW s \in Socket, Accept(s) PROVE ReaderAssertion'
  BY <1>2 DEF Accept, Unstarted
<1>3. ASSUME NEW s \in Socket, ReaderStep(s) PROVE ReaderAssertion'
  <2>1. CASE ReaderOffer(s)
    BY <2>1 DEF ReaderOffer, Reads
  <2>2. CASE ReaderResume(s)
    BY <2>2 DEF ReaderResume
  <2>3. CASE ReaderClose(s)
    BY <2>3 DEF ReaderClose, HangUp, Reads
  <2>4. CASE ReaderEnd(s)
    BY <2>4 DEF ReaderEnd
  <2>5. CASE ReaderPong(s) \/ ReaderPing(s)
    BY <2>5 DEF ReaderPong, ReaderPing, Reads
  <2>6. CASE ReaderReject(s) \/ ReaderSkipped(s)
    BY <2>6 DEF ReaderReject, ReaderSkipped, HangUp, Reads
  <2> QED BY <1>3, <2>1, <2>2, <2>3, <2>4, <2>5, <2>6 DEF ReaderStep
<1>4. ASSUME NEW s \in Socket, HandlerStep(s) PROVE ReaderAssertion'
  BY <1>4, HandlerMoves DEF Take
<1>5. ASSUME NEW s \in Socket, PeerStep(s) PROVE UNCHANGED <<reader, next>>
  BY <1>5 DEF PeerStep, PeerSend, PeerPong, PeerFin, PeerReset
<1>6. ASSUME Broadcast \/ resReceive PROVE UNCHANGED <<reader, next>>
  BY <1>6 DEF Broadcast, resReceive
<1>7. ASSUME NEW s \in Socket, TimerStep(s) PROVE UNCHANGED <<reader, next>>
  BY <1>7, TimerFrame
<1> QED BY <1>1, <1>2, <1>3, <1>4, <1>5, <1>6, <1>7 DEF Next, vars

(* The assertion of startReader (websockets.d:511) holds for any number of *)
(* connections and any behaviour of the peers.                             *)
THEOREM ReaderAssertionHolds == Spec => []ReaderAssertion
<1>1. Init => Unstarted /\ ReaderAssertion
  BY DEF Init, Unstarted, ReaderAssertion
<1> QED BY <1>1, HubTypeCorrect, UnstartedStep, ReaderAssertionStep, PTL DEF Spec

------------------------------------------------------------------------------
(* The array of sockets. *)

Injective(list) == \A i, j \in 1 .. Len(list) : list[i] = list[j] => i = j

(* Removing the only occurrence of s leaves everything else. *)
LEMMA RemoveOnly ==
  ASSUME NEW list \in Seq(Socket), Injective(list), NEW s \in Socket
  PROVE  LET left == removeFromArray(list, s)
         IN  /\ Injective(left)
             /\ \A t \in Socket \ {s} :
                  (\E i \in 1 .. Len(list) : list[i] = t)
                    => \E i \in 1 .. Len(left) : left[i] = t
             /\ \A i \in 1 .. Len(left) : \E j \in 1 .. Len(list) : left[i] = list[j]
             /\ \A i \in 1 .. Len(left) : left[i] # s
<1> DEFINE At == {i \in 1 .. Len(list) : list[i] = s}
           idx == CHOOSE i \in At : \A j \in At : i <= j
           left == removeFromArray(list, s)
<1>1. CASE At = {}
  <2>1. left = list
    BY <1>1 DEF removeFromArray
  <2>2. \A i \in 1 .. Len(list) : list[i] # s
    BY <1>1
  <2> QED BY <2>1, <2>2
<1>2. CASE At # {}
  <2>1. PICK k \in At : TRUE
    BY <1>2
  <2>2. At = {k}
    BY <2>1 DEF Injective
  <2>3. idx = k
    <3>1. \A i \in At : (\A j \in At : i <= j) => i = k
      BY <2>2
    <3>2. k \in At /\ \A j \in At : k <= j
      BY <2>2
    <3>3. idx \in At /\ \A j \in At : idx <= j
      BY <3>2
    <3> QED BY <3>1, <3>3
  <2>4. k \in 1 .. Len(list) /\ list[k] = s /\ Len(list) \in Nat
    BY <2>1
  <2>5. left = [j \in 1 .. Len(list) - 1 |-> IF j < k THEN list[j] ELSE list[j + 1]]
    BY <1>2, <2>3 DEF removeFromArray
  <2> HIDE DEF left
  <2>6. Len(left) = Len(list) - 1
    BY <2>4, <2>5
  <2>7. ASSUME NEW i \in 1 .. Len(left)
        PROVE  \E j \in 1 .. Len(list) : left[i] = list[j]
    <3>1. i \in 1 .. Len(list) /\ i + 1 \in 1 .. Len(list)
      BY <2>4, <2>6
    <3>2. left[i] = list[i] \/ left[i] = list[i + 1]
      BY <2>4, <2>5, <2>6
    <3> QED BY <3>1, <3>2
  <2>8. Injective(left)
    BY <2>4, <2>5, <2>6 DEF Injective
  <2>9. ASSUME NEW t \in Socket \ {s}, NEW i \in 1 .. Len(list), list[i] = t
        PROVE  \E j \in 1 .. Len(left) : left[j] = t
    <3>1. CASE i < k
      BY <2>4, <2>5, <2>6, <2>9, <3>1
    <3>2. CASE i > k
      <4>1. i - 1 \in 1 .. Len(left) /\ left[i - 1] = list[i]
        BY <2>4, <2>5, <2>6, <3>2
      <4> QED BY <4>1, <2>9
    <3> QED BY <3>1, <3>2, <2>4, <2>9
  <2>10. \A i \in 1 .. Len(left) : left[i] # s
    BY <2>4, <2>5, <2>6 DEF Injective
  <2> QED BY <2>7, <2>8, <2>9, <2>10 DEF left
<1> QED BY <1>1, <1>2

(* Every socket in the array has had a handler. *)
OnlyAccepted == \A i \in 1 .. Len(sockets) : handler[sockets[i]] # "absent"

(* A socket enters the array once, when its handler starts, and leaves it  *)
(* when that handler ends.                                                 *)
LEMMA ListedOnceStep ==
  TypeOK /\ OnlyAccepted /\ ListedOnce /\ [Next]_vars => OnlyAccepted' /\ ListedOnce'
<1> SUFFICES ASSUME TypeOK, OnlyAccepted, ListedOnce, [Next]_vars
             PROVE  OnlyAccepted' /\ ListedOnce'
  OBVIOUS
<1>0. sockets \in Seq(Socket) /\ handler \in [Socket -> HandlerState]
  BY DEF TypeOK
<1> USE <1>0 DEF OnlyAccepted, ListedOnce, Listed
<1>1. CASE UNCHANGED <<sockets, handler>>
  BY <1>1
<1>2. ASSUME NEW s \in Socket, Accept(s) PROVE OnlyAccepted' /\ ListedOnce'
  <2>1. /\ sockets' = Append(sockets, s) /\ handler[s] = "absent"
        /\ handler' = [handler EXCEPT ![s] = "waitName"]
    BY <1>2 DEF Accept, Goto
  <2>2. /\ Len(sockets') = Len(sockets) + 1 /\ sockets'[Len(sockets) + 1] = s
        /\ \A i \in 1 .. Len(sockets) : sockets'[i] = sockets[i]
        /\ Len(sockets) \in Nat
    BY <2>1, AppendProperties
  <2>3. \A i \in 1 .. Len(sockets) : sockets[i] # s /\ sockets[i] \in Socket
    BY <2>1
  <2>4. \A i \in 1 .. Len(sockets') : i \in 1 .. Len(sockets) \/ i = Len(sockets) + 1
    BY <2>2
  <2>5. OnlyAccepted'
    <3>1. ASSUME NEW i \in 1 .. Len(sockets') PROVE handler'[sockets'[i]] # "absent"
      <4>1. CASE i = Len(sockets) + 1
        BY <2>1, <2>2, <4>1
      <4>2. CASE i \in 1 .. Len(sockets)
        BY <2>1, <2>2, <2>3, <4>2
      <4> QED BY <4>1, <4>2, <2>4
    <3> QED BY <3>1
  <2>6. ASSUME NEW i \in 1 .. Len(sockets'), NEW j \in 1 .. Len(sockets'),
               sockets'[i] = sockets'[j]
        PROVE  i = j
    <3>1. CASE i = Len(sockets) + 1 \/ j = Len(sockets) + 1
      BY <2>2, <2>3, <2>4, <2>6, <3>1
    <3>2. CASE i \in 1 .. Len(sockets) /\ j \in 1 .. Len(sockets)
      BY <2>2, <2>6, <3>2
    <3> QED BY <3>1, <3>2, <2>4
  <2>7. \A t \in Socket : handler'[t] \notin {"absent", "gone"} => Listed(t)'
    BY <2>1, <2>2
  <2> QED BY <2>5, <2>6, <2>7
<1>3. ASSUME NEW s \in Socket, HandlerStep(s), UNCHANGED sockets
      PROVE  OnlyAccepted' /\ ListedOnce'
  <2>1. PICK st \in HandlerState \ {"absent"} : handler' = [handler EXCEPT ![s] = st]
    BY <1>3, HandlerMoves
  <2>2. handler[s] \notin {"absent", "gone"}
    BY <1>3, HandlerMoves
  <2>3. \A t \in Socket : handler'[t] = "absent" => handler[t] = "absent"
    BY <2>1
  <2>4. \A t \in Socket : handler'[t] \notin {"absent", "gone"}
                            => handler[t] \notin {"absent", "gone"}
    BY <2>1, <2>2
  <2>5. \A i \in 1 .. Len(sockets) : sockets[i] \in Socket
    OBVIOUS
  <2> QED BY <1>3, <2>3, <2>4, <2>5
<1>4. ASSUME NEW s \in Socket, Joined(s) PROVE OnlyAccepted' /\ ListedOnce'
  <2>1. sockets' = removeFromArray(sockets, s) /\ handler' = [handler EXCEPT ![s] = "gone"]
    BY <1>4 DEF Joined, Goto
  <2>2. sockets' \in Seq(Socket)
    BY <2>1, RemoveType
  <2>3. Injective(sockets)
    BY DEF Injective
  <2> DEFINE left == removeFromArray(sockets, s)
  <2>4. /\ Injective(left)
        /\ \A t \in Socket \ {s} :
             (\E i \in 1 .. Len(sockets) : sockets[i] = t)
               => \E i \in 1 .. Len(left) : left[i] = t
        /\ \A i \in 1 .. Len(left) : \E j \in 1 .. Len(sockets) : left[i] = sockets[j]
    BY <2>3, RemoveOnly
  <2> HIDE DEF left
  <2>5. sockets' = left
    BY <2>1 DEF left
  <2>6. \A t \in Socket : handler'[t] = "absent" => handler[t] = "absent"
    BY <2>1
  <2>7. \A i \in 1 .. Len(sockets) : sockets[i] \in Socket
    OBVIOUS
  <2>8. ASSUME NEW i \in 1 .. Len(sockets') PROVE handler'[sockets'[i]] # "absent"
    <3>1. PICK j \in 1 .. Len(sockets) : sockets'[i] = sockets[j]
      BY <2>4, <2>5
    <3> QED BY <3>1, <2>6, <2>7
  <2>9. \A t \in Socket : handler'[t] \notin {"absent", "gone"} => Listed(t)'
    BY <2>1, <2>4, <2>5
  <2> QED BY <2>4, <2>5, <2>8, <2>9 DEF Injective
<1>5. ASSUME NEW s \in Socket, HandlerStep(s) PROVE UNCHANGED sockets \/ Joined(s)
  BY <1>5 DEF HandlerStep, NameTimeout, NameThrows, NameText, NameEmpty, NameBad, Rejects,
              ReadText, ReadQuit, ReadBad, ReadBreak, ReadEnd, FailJoined, hubVars
<1>6. ASSUME NEW s \in Socket, PeerStep(s) \/ ReaderStep(s) PROVE UNCHANGED <<sockets, handler>>
  BY <1>6 DEF PeerStep, PeerSend, PeerPong, PeerFin, PeerReset, ReaderStep, ReaderOffer,
              ReaderResume, ReaderClose, ReaderPing, ReaderPong, ReaderReject, ReaderSkipped,
              ReaderEnd, hubVars
<1>7. ASSUME Broadcast \/ resReceive PROVE UNCHANGED <<sockets, handler>>
  BY <1>7 DEF Broadcast, resReceive
<1>8. ASSUME NEW s \in Socket, TimerStep(s) PROVE UNCHANGED <<sockets, handler>>
  BY <1>8, TimerFrame
<1> QED BY <1>1, <1>2, <1>3, <1>4, <1>5, <1>6, <1>7, <1>8 DEF Next, vars

(* Concurrent handlers never drop or duplicate each other's entry of the   *)
(* array (app.d:502 and 540), for any number of connections.               *)
THEOREM ListedOnceHolds == Spec => []ListedOnce
<1>1. Init => OnlyAccepted /\ ListedOnce
  BY DEF Init, OnlyAccepted, ListedOnce
<1> QED BY <1>1, HubTypeCorrect, ListedOnceStep, PTL DEF Spec

------------------------------------------------------------------------------
(* The frames written to a socket. *)

(* No closing frame is in `out` before m_sentCloseFrame is set. *)
FlaggedClose ==
  \A s \in Socket : ~sentClose[s] => \A i \in 1 .. Len(out[s]) : out[s][i] # "close"

(* A write of other frames to a socket that may still send. *)
LEMMA AppendOther ==
  ASSUME NEW seq \in Seq(OutFrame), NEW f \in OutFrame \ {"close"},
         \A i \in 1 .. Len(seq) : seq[i] # "close"
  PROVE  \A i \in 1 .. Len(Append(seq, f)) : Append(seq, f)[i] # "close"
<1>1. /\ Len(Append(seq, f)) = Len(seq) + 1
      /\ \A i \in 1 .. Len(seq) : Append(seq, f)[i] = seq[i]
      /\ Append(seq, f)[Len(seq) + 1] = f
      /\ Len(seq) \in Nat
  BY AppendProperties
<1> QED BY <1>1

(* A write that ends in the closing frame, to a socket that had none. *)
LEMMA AppendClose ==
  ASSUME NEW seq \in Seq(OutFrame), \A i \in 1 .. Len(seq) : seq[i] # "close"
  PROVE  LET new == Append(seq, "close")
         IN  \A i, j \in 1 .. Len(new) : i < j => new[i] # "close"
<1>1. "close" \in OutFrame
  BY DEF OutFrame
<1>2. /\ Len(Append(seq, "close")) = Len(seq) + 1
      /\ \A i \in 1 .. Len(seq) : Append(seq, "close")[i] = seq[i]
      /\ Len(seq) \in Nat
  BY <1>1, AppendProperties
<1> QED BY <1>2

(* What close(s, before) writes, as the two cases of the code. *)
LEMMA CloseWrites ==
  ASSUME TypeOK, NEW s \in Socket, NEW before \in {<<>>, <<"invalid">>},
         close(s, before), ~connected(s) => before = <<>>
  PROVE  /\ ~connected(s) => UNCHANGED <<out, sentClose>>
         /\ connected(s) =>
              /\ sentClose' = [sentClose EXCEPT ![s] = TRUE]
              /\ out' = [out EXCEPT ![s] =
                           Append(IF before = <<>> THEN @ ELSE Append(@, "invalid"), "close")]
<1>0. /\ out \in [Socket -> Seq(OutFrame)]
      /\ sentClose \in [Socket -> BOOLEAN]
  BY DEF TypeOK
<1> USE <1>0
<1>1. out[s] \in Seq(OutFrame) /\ "close" \in OutFrame /\ "invalid" \in OutFrame
  BY DEF OutFrame
<1>2. CASE ~connected(s)
  <2>1. out' = [out EXCEPT ![s] = out[s] \o (<<>> \o <<>>)]
    BY <1>2 DEF close, Write
  <2>2. out[s] \o (<<>> \o <<>>) = out[s]
    BY <1>1
  <2>3. out' = out
    BY <2>1, <2>2
  <2>4. sentClose' = [sentClose EXCEPT ![s] = sentClose[s] \/ FALSE]
    BY <1>2 DEF close
  <2>5. (sentClose[s] \/ FALSE) = sentClose[s]
    OBVIOUS
  <2> QED BY <1>2, <2>3, <2>4, <2>5
<1>3. CASE connected(s)
  <2>1. out' = [out EXCEPT ![s] = out[s] \o (before \o <<"close">>)]
    BY <1>3 DEF close, Write
  <2>2. CASE before = <<>>
    <3>1. out[s] \o (<<>> \o <<"close">>) = Append(out[s], "close")
      BY <1>1
    <3> QED BY <1>3, <2>1, <2>2, <3>1 DEF close
  <2>3. CASE before = <<"invalid">>
    <3>1. out[s] \o (<<"invalid">> \o <<"close">>) = Append(Append(out[s], "invalid"), "close")
      BY <1>1
    <3>2. <<"invalid">> # <<>>
      OBVIOUS
    <3> QED BY <1>3, <2>1, <2>3, <3>1, <3>2 DEF close
  <2> QED BY <2>2, <2>3
<1> QED BY <1>2, <1>3

(* close keeps the order of frames. *)
LEMMA CloseKeepsOrder ==
  ASSUME TypeOK, FlaggedClose, OnlyPongsAfterClose,
         NEW s \in Socket, NEW before \in {<<>>, <<"invalid">>},
         close(s, before), ~connected(s) => before = <<>>
  PROVE  FlaggedClose' /\ OnlyPongsAfterClose'
<1>1. CASE ~connected(s)
  <2>1. UNCHANGED <<out, sentClose>>
    BY <1>1, CloseWrites
  <2> QED BY <2>1 DEF FlaggedClose, OnlyPongsAfterClose
<1>2. CASE connected(s)
  <2> DEFINE held == IF before = <<>> THEN out[s] ELSE Append(out[s], "invalid")
  <2>1. /\ sentClose' = [sentClose EXCEPT ![s] = TRUE]
        /\ out' = [out EXCEPT ![s] = Append(held, "close")]
    BY <1>2, CloseWrites
  <2>0. out \in [Socket -> Seq(OutFrame)] /\ sentClose \in [Socket -> BOOLEAN]
    BY DEF TypeOK
  <2>2. out[s] \in Seq(OutFrame) /\ "invalid" \in OutFrame \ {"close"}
    BY <2>0 DEF OutFrame
  <2>3. \A i \in 1 .. Len(out[s]) : out[s][i] # "close"
    BY <1>2 DEF connected, FlaggedClose
  <2>4. held \in Seq(OutFrame) /\ \A i \in 1 .. Len(held) : held[i] # "close"
    BY <2>2, <2>3, AppendOther, AppendProperties
  <2> HIDE DEF held
  <2>5. \A i, j \in 1 .. Len(out'[s]) : i < j => out'[s][i] # "close"
    BY <2>0, <2>1, <2>4, AppendClose
  <2>6. \A t \in Socket \ {s} : out'[t] = out[t] /\ sentClose'[t] = sentClose[t]
    BY <2>0, <2>1
  <2>7. sentClose'[s]
    BY <2>0, <2>1
  <2>8. ASSUME NEW t \in Socket, ~sentClose'[t]
        PROVE  \A i \in 1 .. Len(out'[t]) : out'[t][i] # "close"
    <3>1. t # s
      BY <2>7, <2>8
    <3>2. out'[t] = out[t] /\ ~sentClose[t]
      BY <2>6, <2>8, <3>1
    <3> QED BY <3>2 DEF FlaggedClose
  <2>9. ASSUME NEW t \in Socket
        PROVE  \A i, j \in 1 .. Len(out'[t]) :
                 i < j /\ out'[t][i] = "close" => out'[t][j] = "pong"
    <3>1. CASE t = s
      BY <2>5, <3>1
    <3>2. CASE t # s
      BY <2>6, <3>2 DEF OnlyPongsAfterClose
    <3> QED BY <3>1, <3>2
  <2> QED BY <2>8, <2>9 DEF FlaggedClose, OnlyPongsAfterClose
<1> QED BY <1>1, <1>2

(* The ping timer is stopped with the closing frame, and before a handler  *)
(* waits for its reader.                                                   *)
Quiet ==
  \A s \in Socket :
    /\ sentClose[s] => ~timer[s]
    /\ handler[s] \in {"absent", "joining", "failing", "gone"} => ~timer[s]
    /\ handler[s] = "absent" => ~sentClose[s]

(* What a closing step does to the timer. *)
LEMMA CloseStops ==
  ASSUME TypeOK, NEW s \in Socket, NEW before, close(s, before)
  PROVE  /\ timer' = [timer EXCEPT ![s] = FALSE]
         /\ \A t \in Socket \ {s} : sentClose'[t] = sentClose[t]
BY DEF close, TypeOK

(* Every way out of a handler's loop stops the timer. *)
LEMMA QuietStep == TypeOK /\ Unstarted /\ Quiet /\ [Next]_vars => Quiet'
<1> SUFFICES ASSUME TypeOK, Unstarted, Quiet, [Next]_vars PROVE Quiet'
  OBVIOUS
<1>0. /\ timer \in [Socket -> BOOLEAN] /\ sentClose \in [Socket -> BOOLEAN]
      /\ handler \in [Socket -> HandlerState]
  BY DEF TypeOK
<1> USE DEF Quiet, writeVars
<1>1. CASE UNCHANGED <<writeVars, handler>>
  BY <1>1
<1>2. ASSUME NEW s \in Socket, Accept(s) PROVE Quiet'
  BY <1>0, <1>2 DEF Accept, Goto
<1>3. ASSUME NEW s \in Socket, ReaderStep(s) PROVE Quiet'
  <2>1. UNCHANGED handler /\ reader[s] # "off"
    BY <1>3 DEF ReaderStep, ReaderOffer, ReaderResume, ReaderClose,
                ReaderPing, ReaderPong, ReaderReject, ReaderSkipped, ReaderEnd, Reads
  <2>2. handler[s] # "absent"
    BY <2>1 DEF Unstarted
  <2>3. CASE close(s, <<>>)
    BY <1>0, <2>1, <2>2, <2>3, CloseStops
  <2>4. CASE UNCHANGED <<sentClose, timer>>
    BY <2>1, <2>4
  <2> QED BY <1>1, <1>3, <2>1, <2>3, <2>4, ReaderWrites
<1>4. ASSUME NEW s \in Socket, HandlerStep(s) PROVE Quiet'
  <2>1. PICK st \in HandlerState \ {"absent"} : handler' = [handler EXCEPT ![s] = st]
    BY <1>4, HandlerMoves
  <2>2. ASSUME NEW before, close(s, before) PROVE Quiet'
    <3>1. /\ timer' = [timer EXCEPT ![s] = FALSE]
          /\ \A t \in Socket \ {s} : sentClose'[t] = sentClose[t]
      BY <2>2, CloseStops
    <3> QED BY <1>0, <2>1, <3>1
  <2>3. CASE NameEmpty(s)
    BY <2>2, <2>3 DEF NameEmpty
  <2>4. CASE /\ UNCHANGED writeVars
             /\ \/ handler'[s] \in {"recvName", "read"}
                \/ handler[s] \in {"joining", "failing"}
    <3>1. handler[s] # "absent"
      BY <1>4, HandlerMoves
    <3> QED BY <1>0, <2>1, <2>4, <3>1
  <2> QED BY <1>4, <2>2, <2>3, <2>4, HandlerWrites
<1>5. ASSUME NEW s \in Socket, PeerStep(s) PROVE UNCHANGED <<writeVars, handler>>
  BY <1>5 DEF PeerStep, PeerSend, PeerPong, PeerFin, PeerReset
<1>6. ASSUME NEW s \in Socket, TimerStep(s) PROVE Quiet'
  <2>1. UNCHANGED <<sentClose, handler>>
    BY <1>6, TimerFrame
  <2>2. timer' = timer \/ timer' = [timer EXCEPT ![s] = FALSE]
    BY <1>6 DEF TimerStep, SendPing, SkipPong
  <2> QED BY <1>0, <2>1, <2>2
<1>7. ASSUME Broadcast \/ resReceive PROVE UNCHANGED <<sentClose, timer, handler>>
  BY <1>7 DEF Broadcast, resReceive
<1>8. CASE UNCHANGED <<sentClose, timer, handler>>
  BY <1>8
<1> QED BY <1>1, <1>2, <1>3, <1>4, <1>5, <1>6, <1>7, <1>8 DEF Next, vars

(* The quiet timers, as an invariant. *)
LEMMA AlwaysQuiet == Spec => [](TypeOK /\ Unstarted /\ Quiet)
<1>1. Init => Unstarted /\ Quiet
  BY DEF Init, Unstarted, Quiet
<1> QED BY <1>1, HubTypeCorrect, UnstartedStep, QuietStep, PTL DEF Spec

(* No ping timer outlives the stream it writes to (websockets.d:454): the  *)
(* handler ends only after close has stopped it, on every path.            *)
THEOREM TimerStoppedHolds == Spec => []TimerStopped
<1>1. TypeOK /\ Quiet => TimerStopped
  BY DEF TypeOK, Quiet, TimerStopped
<1> QED BY <1>1, AlwaysQuiet, PTL

(* The answer to a ping is one frame more. *)
LEMMA PongWritten ==
  ASSUME TypeOK, NEW s \in Socket, Write(s, <<"pong">>)
  PROVE  out' = [out EXCEPT ![s] = Append(@, "pong")]
<1>1. out[s] \in Seq(OutFrame) /\ "pong" \in OutFrame
  BY DEF TypeOK, OutFrame
<1>2. out[s] \o <<"pong">> = Append(out[s], "pong")
  BY <1>1
<1> QED BY <1>2 DEF Write

(* Every writer looks at m_sentCloseFrame before it writes, or is stopped  *)
(* when it is set, or writes the answer to a ping.                         *)
LEMMA OnlyPongsAfterCloseStep ==
  TypeOK /\ Quiet /\ FlaggedClose /\ OnlyPongsAfterClose /\ [Next]_vars
    => FlaggedClose' /\ OnlyPongsAfterClose'
<1> SUFFICES ASSUME TypeOK, Quiet, FlaggedClose, OnlyPongsAfterClose, [Next]_vars
             PROVE  FlaggedClose' /\ OnlyPongsAfterClose'
  OBVIOUS
<1>1. CASE UNCHANGED <<out, sentClose>>
  BY <1>1 DEF FlaggedClose, OnlyPongsAfterClose
<1>2. ASSUME NEW s \in Socket, close(s, <<>>)
      PROVE  FlaggedClose' /\ OnlyPongsAfterClose'
  BY <1>2, CloseKeepsOrder
<1>3. ASSUME NEW s \in Socket, NameEmpty(s)
      PROVE  FlaggedClose' /\ OnlyPongsAfterClose'
  <2>1. CASE connected(s)
    <3>1. close(s, <<"invalid">>)
      BY <1>3, <2>1 DEF NameEmpty
    <3> QED BY <2>1, <3>1, CloseKeepsOrder
  <2>2. CASE ~connected(s)
    <3>1. close(s, <<>>)
      BY <1>3, <2>2 DEF NameEmpty
    <3> QED BY <2>2, <3>1, CloseKeepsOrder
  <2> QED BY <2>1, <2>2
<1>4. ASSUME NEW f \in OutFrame \ {"close"}, UNCHANGED sentClose,
             \A s \in Socket : \/ out'[s] = out[s]
                               \/ /\ ~sentClose[s] \/ f = "pong"
                                  /\ out'[s] = Append(out[s], f)
      PROVE  FlaggedClose' /\ OnlyPongsAfterClose'
  <2>1. ASSUME NEW s \in Socket, out'[s] = Append(out[s], f)
        PROVE  /\ Len(out[s]) \in Nat /\ Len(out'[s]) = Len(out[s]) + 1
               /\ \A i \in 1 .. Len(out[s]) : out'[s][i] = out[s][i]
               /\ out'[s][Len(out[s]) + 1] = f
    <3>1. out[s] \in Seq(OutFrame)
      BY DEF TypeOK
    <3> QED BY <2>1, <3>1, AppendProperties
  <2>2. ASSUME NEW s \in Socket, ~sentClose[s], NEW i \in 1 .. Len(out'[s])
        PROVE  out'[s][i] # "close"
    <3>1. \A k \in 1 .. Len(out[s]) : out[s][k] # "close"
      BY <2>2 DEF FlaggedClose
    <3>2. CASE out'[s] = out[s]
      BY <3>1, <3>2
    <3>3. CASE out'[s] = Append(out[s], f)
      BY <2>1, <3>1, <3>3
    <3> QED BY <1>4, <3>2, <3>3
  <2>3. ASSUME NEW s \in Socket, NEW i \in 1 .. Len(out'[s]), NEW j \in 1 .. Len(out'[s]),
               i < j, out'[s][i] = "close"
        PROVE  out'[s][j] = "pong"
    <3>1. sentClose[s]
      BY <2>2, <2>3
    <3>2. CASE out'[s] = out[s]
      BY <2>3, <3>2 DEF OnlyPongsAfterClose
    <3>3. CASE f = "pong" /\ out'[s] = Append(out[s], f)
      BY <2>1, <2>3, <3>3 DEF OnlyPongsAfterClose
    <3> QED BY <1>4, <3>1, <3>2, <3>3
  <2> QED BY <1>4, <2>2, <2>3 DEF FlaggedClose, OnlyPongsAfterClose
<1>5. ASSUME Broadcast PROVE FlaggedClose' /\ OnlyPongsAfterClose'
  <2>1. UNCHANGED sentClose
    BY <1>5 DEF Broadcast
  <2>2. PICK stop \in 1 .. Len(sockets) + 1 :
          /\ \A i \in 1 .. stop - 1 : ~SendThrows(sockets[i])
          /\ out' = [s \in Socket |->
                       IF ~Dangling(s) /\ \E i \in 1 .. stop - 1 : sockets[i] = s
                       THEN Append(out[s], "event") ELSE out[s]]
    BY <1>5 DEF Broadcast
  <2>3. \A s \in Socket : out'[s] = out[s] \/ (~sentClose[s] /\ out'[s] = Append(out[s], "event"))
    BY <2>2 DEF SendThrows
  <2>4. "event" \in OutFrame \ {"close"}
    BY DEF OutFrame
  <2> QED BY <1>4, <2>1, <2>3, <2>4
<1>6. ASSUME NEW s \in Socket, TimerStep(s) PROVE FlaggedClose' /\ OnlyPongsAfterClose'
  <2>1. UNCHANGED sentClose
    BY <1>6, TimerFrame
  <2>2. out \in [Socket -> Seq(OutFrame)] /\ "ping" \in OutFrame \ {"close"}
    BY DEF TypeOK, OutFrame
  <2>3. out' = out \/ (~sentClose[s] /\ out' = [out EXCEPT ![s] = Append(@, "ping")])
    BY <1>6, TimerWrites DEF Quiet
  <2>4. \A t \in Socket : out'[t] = out[t] \/ (~sentClose[t] /\ out'[t] = Append(out[t], "ping"))
    BY <2>2, <2>3
  <2> QED BY <1>4, <2>1, <2>2, <2>4
<1>7. ASSUME NEW s \in Socket, Accept(s) PROVE UNCHANGED <<out, sentClose>>
  BY <1>7 DEF Accept
<1>8. ASSUME resReceive PROVE UNCHANGED <<out, sentClose>>
  BY <1>8 DEF resReceive, writeVars
<1>9. CASE UNCHANGED writeVars
  BY <1>1, <1>9 DEF writeVars
<1>10. ASSUME NEW s \in Socket, Write(s, <<"pong">>), UNCHANGED sentClose
       PROVE  FlaggedClose' /\ OnlyPongsAfterClose'
  <2>1. out \in [Socket -> Seq(OutFrame)] /\ "pong" \in OutFrame \ {"close"}
    BY DEF TypeOK, OutFrame
  <2>2. out' = [out EXCEPT ![s] = Append(@, "pong")]
    BY <1>10, PongWritten
  <2>3. \A t \in Socket : out'[t] = out[t] \/ out'[t] = Append(out[t], "pong")
    BY <2>1, <2>2
  <2> QED BY <1>4, <1>10, <2>1, <2>3
<1> QED BY <1>1, <1>2, <1>3, <1>5, <1>6, <1>7, <1>8, <1>9, <1>10, PeerWrites, ReaderWrites,
           HandlerWrites
        DEF Next, vars

(* Handler, reader, timer and broadcast share a stream; after the closing  *)
(* frame only answers to the peer's pings are written to it                *)
(* (websockets.d:424, 443, 557 and 691), for any number of connections and *)
(* any mix of pings and data from the peers.                               *)
THEOREM OnlyPongsAfterCloseHolds == Spec => []OnlyPongsAfterClose
<1>1. Init => FlaggedClose /\ OnlyPongsAfterClose
  BY DEF Init, FlaggedClose, OnlyPongsAfterClose
<1> QED BY <1>1, AlwaysQuiet, OnlyPongsAfterCloseStep, PTL DEF Spec

------------------------------------------------------------------------------
(* Pings and their answers. *)

(* At most one ping is open: it is unanswered, or its answer is the only   *)
(* pong on its way, or the reader has taken it.                            *)
PingPong ==
  \A s \in Socket :
    /\ heard[s] <= answered[s] /\ answered[s] <= pings[s] /\ pings[s] <= heard[s] + 1
    /\ ponged[s] \/ handler[s] = "absent" => heard[s] = pings[s]
    /\ \A i \in 1 .. Len(inbox[s]) : inbox[s][i] = "pong" =>
         /\ answered[s] = heard[s] + 1
         /\ \A j \in 1 .. Len(inbox[s]) : inbox[s][j] = "pong" => i = j

(* Fewer frames in one inbox: no harm. *)
LEMMA PingPongShorter ==
  ASSUME TypeOK, PingPong, NEW s \in Socket, NEW left \in Seq(Frame),
         inbox' = [inbox EXCEPT ![s] = left],
         left = <<>> \/ (inbox[s] # <<>> /\ left = Tail(inbox[s])),
         UNCHANGED <<ponged, pings, answered, heard>>,
         \A t \in Socket : handler'[t] = "absent" => handler[t] = "absent"
  PROVE  PingPong'
<1>0. inbox \in [Socket -> Seq(Frame)]
  BY DEF TypeOK
<1>1. \A t \in Socket \ {s} : inbox'[t] = inbox[t]
  BY <1>0
<1>2. inbox'[s] = left
  BY <1>0
<1>3. ASSUME NEW i \in 1 .. Len(left)
      PROVE  i + 1 \in 1 .. Len(inbox[s]) /\ left[i] = inbox[s][i + 1]
  <2>1. inbox[s] \in Seq(Frame) /\ inbox[s] # <<>> /\ left = Tail(inbox[s])
    BY <1>0, <1>3
  <2>2. Len(left) = Len(inbox[s]) - 1 /\ Len(inbox[s]) \in Nat
    BY <2>1
  <2> QED BY <1>3, <2>1, <2>2
<1>4. \A i \in 1 .. Len(left) : left[i] = "pong" =>
        /\ answered[s] = heard[s] + 1
        /\ \A j \in 1 .. Len(left) : left[j] = "pong" => i = j
  <2> SUFFICES ASSUME NEW i \in 1 .. Len(left), left[i] = "pong"
               PROVE  /\ answered[s] = heard[s] + 1
                      /\ \A j \in 1 .. Len(left) : left[j] = "pong" => i = j
    OBVIOUS
  <2>1. /\ answered[s] = heard[s] + 1
        /\ \A k \in 1 .. Len(inbox[s]) : inbox[s][k] = "pong" => i + 1 = k
    BY <1>3 DEF PingPong
  <2>2. ASSUME NEW j \in 1 .. Len(left), left[j] = "pong" PROVE i = j
    <3>1. i + 1 = j + 1
      BY <1>3, <2>1, <2>2
    <3>2. i \in Int /\ j \in Int
      OBVIOUS
    <3> QED BY <3>1, <3>2
  <2> QED BY <2>1, <2>2
<1> QED BY <1>1, <1>2, <1>4 DEF PingPong

(* One more frame in an inbox. *)
LEMMA AppendFrame ==
  ASSUME NEW seq \in Seq(Frame), NEW f \in Frame
  PROVE  /\ Len(Append(seq, f)) = Len(seq) + 1 /\ Len(seq) \in Nat
         /\ \A i \in 1 .. Len(seq) : Append(seq, f)[i] = seq[i]
         /\ Append(seq, f)[Len(seq) + 1] = f
BY AppendProperties

(* A frame that is no pong, or the answer to the open ping, comes in. *)
LEMMA PingPongLonger ==
  ASSUME TypeOK, PingPong, NEW s \in Socket, NEW f \in Frame,
         inbox' = [inbox EXCEPT ![s] = Append(@, f)],
         UNCHANGED <<ponged, pings, heard, handler>>,
         \/ f # "pong" /\ UNCHANGED answered
         \/ answered[s] < pings[s] /\ answered' = [answered EXCEPT ![s] = @ + 1]
  PROVE  PingPong'
<1>0. /\ inbox \in [Socket -> Seq(Frame)] /\ answered \in [Socket -> Nat]
      /\ heard \in [Socket -> Nat] /\ pings \in [Socket -> Nat]
  BY DEF TypeOK
<1>1. \A t \in Socket \ {s} : inbox'[t] = inbox[t] /\ answered'[t] = answered[t]
  BY <1>0
<1> DEFINE old == inbox[s]
           new == inbox'[s]
<1>2. old \in Seq(Frame) /\ new = Append(old, f)
  BY <1>0
<1>3. /\ Len(new) = Len(old) + 1 /\ Len(old) \in Nat
      /\ \A i \in 1 .. Len(old) : new[i] = old[i]
      /\ new[Len(old) + 1] = f
  BY <1>2, AppendFrame
<1>4. \A i \in 1 .. Len(old) : old[i] = "pong" =>
        /\ answered[s] = heard[s] + 1
        /\ \A j \in 1 .. Len(old) : old[j] = "pong" => i = j
  BY DEF PingPong
<1>5. heard[s] <= answered[s] /\ answered[s] <= pings[s] /\ pings[s] <= heard[s] + 1
  BY DEF PingPong
<1> HIDE DEF old, new
<1>6. CASE f # "pong" /\ UNCHANGED answered
  <2>1. \A i \in 1 .. Len(new) : new[i] = "pong" => i \in 1 .. Len(old) /\ old[i] = "pong"
    BY <1>3, <1>6
  <2>2. \A i \in 1 .. Len(new) : new[i] = "pong" =>
          /\ answered[s] = heard[s] + 1
          /\ \A j \in 1 .. Len(new) : new[j] = "pong" => i = j
    BY <1>4, <2>1
  <2> QED BY <1>1, <1>6, <2>2 DEF PingPong, new
<1>7. CASE answered[s] < pings[s] /\ answered' = [answered EXCEPT ![s] = @ + 1]
  <2>1. heard[s] \in Nat /\ answered[s] \in Nat /\ pings[s] \in Nat
    BY <1>0
  <2>2. answered[s] = heard[s] /\ pings[s] = heard[s] + 1 /\ answered'[s] = heard[s] + 1
    BY <1>0, <1>5, <1>7, <2>1
  <2>3. \A i \in 1 .. Len(old) : old[i] # "pong"
    BY <1>4, <2>1, <2>2
  <2>4. \A i \in 1 .. Len(new) : new[i] = "pong" => i = Len(old) + 1
    BY <1>3, <2>3
  <2>5. \A i, j \in 1 .. Len(new) : new[i] = "pong" /\ new[j] = "pong" => i = j
    BY <2>4
  <2>6. /\ heard[s] <= answered'[s] /\ answered'[s] <= pings[s] /\ pings[s] <= heard[s] + 1
        /\ \A i \in 1 .. Len(new) : new[i] = "pong" =>
             /\ answered'[s] = heard[s] + 1
             /\ \A j \in 1 .. Len(new) : new[j] = "pong" => i = j
    BY <2>1, <2>2, <2>5
  <2>7. ponged[s] \/ handler[s] = "absent" => heard[s] = pings[s]
    BY DEF PingPong
  <2> QED BY <1>1, <2>6, <2>7 DEF PingPong, new
<1> QED BY <1>6, <1>7

(* The reader takes the answer to the open ping. *)
LEMMA PingPongTaken ==
  ASSUME TypeOK, PingPong, NEW s \in Socket, ReaderPong(s)
  PROVE  PingPong'
<1>0. /\ inbox \in [Socket -> Seq(Frame)] /\ answered \in [Socket -> Nat]
      /\ heard \in [Socket -> Nat] /\ pings \in [Socket -> Nat]
      /\ ponged \in [Socket -> BOOLEAN]
  BY DEF TypeOK
<1>1. /\ inbox[s] # <<>> /\ Head(inbox[s]) = "pong" /\ heard[s] + 1 = pings[s]
      /\ heard' = [heard EXCEPT ![s] = @ + 1]
      /\ ponged' = [ponged EXCEPT ![s] = TRUE]
      /\ inbox' = [inbox EXCEPT ![s] = Tail(@)]
      /\ UNCHANGED <<handler, pings, answered>>
  BY DEF ReaderPong, Reads
<1>2. \A t \in Socket \ {s} :
        inbox'[t] = inbox[t] /\ heard'[t] = heard[t] /\ ponged'[t] = ponged[t]
  BY <1>0, <1>1
<1>3. inbox[s] \in Seq(Frame) /\ inbox'[s] = Tail(inbox[s])
  BY <1>0, <1>1
<1>4. /\ Len(inbox[s]) \in Nat /\ 1 \in 1 .. Len(inbox[s]) /\ inbox[s][1] = "pong"
      /\ Len(Tail(inbox[s])) = Len(inbox[s]) - 1
      /\ \A i \in 1 .. Len(Tail(inbox[s])) : Tail(inbox[s])[i] = inbox[s][i + 1]
  BY <1>1, <1>3
<1>5. /\ answered[s] = heard[s] + 1
      /\ \A j \in 1 .. Len(inbox[s]) : inbox[s][j] = "pong" => 1 = j
  BY <1>4 DEF PingPong
<1>6. \A i \in 1 .. Len(inbox'[s]) : inbox'[s][i] # "pong"
  <2> SUFFICES ASSUME NEW i \in 1 .. Len(Tail(inbox[s])) PROVE inbox[s][i + 1] # "pong"
    BY <1>3, <1>4
  <2>1. i \in Int /\ i >= 1 /\ i + 1 \in 1 .. Len(inbox[s])
    BY <1>4
  <2>2. i + 1 # 1
    BY <2>1
  <2> QED BY <1>5, <2>1, <2>2
<1>7. heard[s] \in Nat /\ heard'[s] = heard[s] + 1 /\ pings[s] = heard'[s] /\ answered[s] = heard'[s]
  BY <1>0, <1>1, <1>5
<1>8. heard'[s] <= answered[s] /\ answered[s] <= pings[s] /\ pings[s] <= heard'[s] + 1
  BY <1>7
<1> QED BY <1>1, <1>2, <1>6, <1>7, <1>8 DEF PingPong

(* A step that neither pings nor moves frames leaves PingPong alone. *)
LEMMA PingPongFrame ==
  ASSUME PingPong, UNCHANGED <<inbox, pings, answered, heard>>,
         \A t \in Socket : ponged'[t] \/ handler'[t] = "absent"
                             => ponged[t] \/ handler[t] = "absent"
  PROVE  PingPong'
BY DEF PingPong

(* Every step keeps at most one ping open. *)
LEMMA PingPongStep ==
  TypeOK /\ Unstarted /\ Quiet /\ PingPong /\ [Next]_vars => PingPong'
<1> SUFFICES ASSUME TypeOK, Unstarted, Quiet, PingPong, [Next]_vars PROVE PingPong'
  OBVIOUS
<1>0. /\ inbox \in [Socket -> Seq(Frame)] /\ handler \in [Socket -> HandlerState]
      /\ ponged \in [Socket -> BOOLEAN] /\ pings \in [Socket -> Nat]
      /\ heard \in [Socket -> Nat] /\ todo \in [Socket -> Seq(PeerEvent)]
  BY DEF TypeOK
<1>e. <<>> \in Seq(Frame)
  OBVIOUS
<1>1. CASE UNCHANGED <<inbox, pingVars, handler>>
  BY <1>1, PingPongFrame DEF pingVars
<1>2. ASSUME NEW s \in Socket, Accept(s) PROVE PingPong'
  BY <1>0, <1>2, PingPongFrame DEF Accept, Goto
<1>3. ASSUME NEW s \in Socket, HangUp(s), UNCHANGED <<pingVars, handler>> PROVE PingPong'
  BY <1>e, <1>3, PingPongShorter DEF HangUp, pingVars
<1>4. ASSUME NEW s \in Socket, PeerStep(s) PROVE PingPong'
  <2>1. CASE PeerSend(s)
    <3>1. Head(todo[s]) \in Scripted
      BY <2>1 DEF PeerSend, PeerDoes
    <3>2. Head(todo[s]) \in Frame /\ Head(todo[s]) # "pong"
      BY <3>1 DEF Frame, Scripted, Data
    <3> QED BY <2>1, <3>2, PingPongLonger DEF PeerSend, pingVars
  <2>2. CASE PeerPong(s)
    <3>1. "pong" \in Frame
      BY DEF Frame
    <3> QED BY <2>2, <3>1, PingPongLonger DEF PeerPong
  <2>3. CASE PeerFin(s) \/ PeerReset(s)
    <3>1. UNCHANGED inbox \/ inbox' = [inbox EXCEPT ![s] = <<>>]
      BY <2>3 DEF PeerFin, PeerReset
    <3>2. UNCHANGED <<pingVars, handler>>
      BY <2>3 DEF PeerFin, PeerReset
    <3> QED BY <1>1, <1>e, <3>1, <3>2, PingPongShorter DEF pingVars
  <2> QED BY <1>4, <2>1, <2>2, <2>3 DEF PeerStep
<1>5. ASSUME NEW s \in Socket, ReaderStep(s) PROVE PingPong'
  <2>1. CASE ReaderOffer(s) \/ ReaderPing(s)
    <3>1. inbox[s] # <<>> /\ inbox' = [inbox EXCEPT ![s] = Tail(inbox[s])]
      BY <2>1 DEF ReaderOffer, ReaderPing, Reads
    <3>2. Tail(inbox[s]) \in Seq(Frame)
      BY <1>0, <3>1
    <3> QED BY <2>1, <3>1, <3>2, PingPongShorter DEF ReaderOffer, ReaderPing, pingVars
  <2>2. CASE ReaderClose(s) \/ ReaderReject(s) \/ ReaderSkipped(s)
    BY <1>3, <2>2 DEF ReaderClose, ReaderReject, ReaderSkipped
  <2>3. CASE ReaderResume(s) \/ ReaderEnd(s)
    BY <1>1, <2>3 DEF ReaderResume, ReaderEnd, peerVars
  <2> QED BY <1>5, <2>1, <2>2, <2>3, PingPongTaken DEF ReaderStep
<1>6. ASSUME NEW s \in Socket, HandlerStep(s) PROVE PingPong'
  <2>1. PICK st \in HandlerState \ {"absent"} : handler' = [handler EXCEPT ![s] = st]
    BY <1>6, HandlerMoves
  <2>2. UNCHANGED <<inbox, pingVars>>
    BY <1>6 DEF HandlerStep, NameTimeout, NameThrows, NameText, NameEmpty, NameBad, Rejects,
                ReadText, ReadQuit, ReadBad, ReadBreak, ReadEnd, Joined, FailJoined, peerVars
  <2> QED BY <1>0, <2>1, <2>2, PingPongFrame DEF pingVars
<1>7. ASSUME NEW s \in Socket, SendPing(s) PROVE PingPong'
  <2>1. /\ timer[s] /\ ponged[s] /\ UNCHANGED <<inbox, answered, heard, handler>>
        /\ ponged' = [ponged EXCEPT ![s] = FALSE]
        /\ pings' = [pings EXCEPT ![s] = @ + 1]
    BY <1>7 DEF SendPing, Due, peerVars
  <2>2. \A t \in Socket \ {s} : ponged'[t] = ponged[t] /\ pings'[t] = pings[t]
    BY <1>0, <2>1
  <2>3. ~ponged'[s] /\ pings'[s] = pings[s] + 1 /\ handler[s] # "absent"
    BY <1>0, <2>1 DEF Quiet
  <2>4. heard[s] = pings[s] /\ heard[s] \in Nat /\ answered[s] = heard[s]
    <3>1. heard[s] = pings[s] /\ heard[s] <= answered[s] /\ answered[s] <= pings[s]
      BY <2>1 DEF PingPong
    <3>2. heard[s] \in Nat /\ answered[s] \in Nat
      BY DEF TypeOK
    <3> QED BY <3>1, <3>2
  <2>5. heard[s] <= answered[s] /\ answered[s] <= pings'[s] /\ pings'[s] <= heard[s] + 1
    BY <2>3, <2>4
  <2>6. \A i \in 1 .. Len(inbox[s]) : inbox[s][i] = "pong" => answered[s] = heard[s] + 1
                /\ \A j \in 1 .. Len(inbox[s]) : inbox[s][j] = "pong" => i = j
    BY DEF PingPong
  <2> QED BY <2>1, <2>2, <2>3, <2>5, <2>6 DEF PingPong
<1>8. ASSUME NEW s \in Socket, SkipPong(s) PROVE PingPong'
  BY <1>8, PingPongFrame DEF SkipPong, peerVars
<1>9. ASSUME Broadcast \/ resReceive PROVE UNCHANGED <<inbox, pingVars, handler>>
  BY <1>9 DEF Broadcast, resReceive, peerVars
<1> QED BY <1>1, <1>2, <1>4, <1>5, <1>6, <1>7, <1>8, <1>9 DEF Next, vars, TimerStep, pingVars

(* An answer to a ping is never rejected for its index (websockets.d:526), *)
(* for any number of pings and however late the reader gets to it: there   *)
(* is no other ping before it is taken.                                    *)
THEOREM AnswerIsCurrentHolds == Spec => []AnswerIsCurrent
<1>1. ASSUME Init PROVE PingPong
  <2>1. \A s \in Socket : heard[s] = 0 /\ answered[s] = 0 /\ pings[s] = 0
    BY <1>1 DEF Init
  <2>2. \A s \in Socket : inbox[s] = <<>>
    BY <1>1 DEF Init
  <2>3. \A s \in Socket : \A i \in 1 .. Len(inbox[s]) : FALSE
    BY <2>2
  <2>4. 0 <= 0 /\ 0 <= 0 + 1
    OBVIOUS
  <2> QED BY <2>1, <2>3, <2>4, Zenon DEF PingPong
<1>2. TypeOK /\ PingPong => AnswerIsCurrent
  <2> SUFFICES ASSUME TypeOK, PingPong, NEW s \in Socket,
                      NEW i \in 1 .. Len(inbox[s]), inbox[s][i] = "pong"
               PROVE  heard[s] + 1 = pings[s]
    BY DEF AnswerIsCurrent
  <2>1. answered[s] = heard[s] + 1 /\ answered[s] <= pings[s] /\ pings[s] <= heard[s] + 1
    BY DEF PingPong
  <2>2. heard[s] \in Nat /\ pings[s] \in Nat
    BY DEF TypeOK
  <2> QED BY <2>1, <2>2
<1> QED BY <1>1, <1>2, AlwaysQuiet, PingPongStep, PTL DEF Spec

------------------------------------------------------------------------------
(* The broadcast. *)

(* A reader that has ended has closed the stream, and a handler ends only  *)
(* after its reader.                                                       *)
EndedIsDown ==
  \A s \in Socket : /\ reader[s] = "done" => conn[s] = "closed"
                    /\ handler[s] = "gone" => reader[s] = "done"

(* Both ends are final. *)
LEMMA EndedIsDownStep ==
  TypeOK /\ Unstarted /\ EndedIsDown /\ [Next]_vars => EndedIsDown'
<1> SUFFICES ASSUME TypeOK, Unstarted, EndedIsDown, [Next]_vars PROVE EndedIsDown'
  OBVIOUS
<1> USE DEF TypeOK, EndedIsDown
<1>1. CASE UNCHANGED <<conn, reader, handler>>
  BY <1>1
<1>2. ASSUME NEW s \in Socket, Accept(s) PROVE EndedIsDown'
  BY <1>2 DEF Accept, Goto
<1>3. ASSUME NEW s \in Socket, PeerStep(s) PROVE EndedIsDown'
  <2>1. UNCHANGED <<reader, handler>>
    BY <1>3 DEF PeerStep, PeerSend, PeerPong, PeerFin, PeerReset
  <2>2. \A t \in Socket : conn[t] = "closed" => conn'[t] = "closed"
    BY <1>3 DEF PeerStep, PeerSend, PeerPong, PeerFin, PeerReset
  <2> QED BY <2>1, <2>2
<1>4. ASSUME NEW s \in Socket, ReaderStep(s) PROVE EndedIsDown'
  <2>1. reader[s] # "done" /\ UNCHANGED handler
    BY <1>4 DEF ReaderStep, ReaderOffer, ReaderResume, ReaderClose,
              ReaderPing, ReaderPong, ReaderReject, ReaderSkipped, ReaderEnd, HangUp, Reads
  <2>2. \A t \in Socket \ {s} : reader'[t] = reader[t] /\ conn'[t] = conn[t]
    BY <1>4 DEF ReaderStep, ReaderOffer, ReaderResume, ReaderClose,
              ReaderPing, ReaderPong, ReaderReject, ReaderSkipped, ReaderEnd, HangUp, Reads
  <2>3. reader'[s] = "done" => conn'[s] = "closed"
    BY <1>4 DEF ReaderStep, ReaderOffer, ReaderResume, ReaderClose,
              ReaderPing, ReaderPong, ReaderReject, ReaderSkipped, ReaderEnd, HangUp, Reads
  <2> QED BY <2>1, <2>2, <2>3
<1>5. ASSUME NEW s \in Socket, HandlerStep(s) PROVE EndedIsDown'
  <2>1. UNCHANGED <<conn, reader>>
    BY <1>5 DEF HandlerStep, NameTimeout, NameThrows, NameText, NameEmpty, NameBad, Rejects,
                ReadText, ReadQuit, ReadBad, ReadBreak, ReadEnd, Joined, FailJoined
  <2>2. \A t \in Socket : handler'[t] = "gone" => handler[t] = "gone" \/ reader[t] = "done"
    BY <1>5 DEF HandlerStep, NameTimeout, NameThrows, NameText, NameEmpty, NameBad, Rejects,
                ReadText, ReadQuit, ReadBad, ReadBreak, ReadEnd, Joined, FailJoined, Goto,
                EnterLoop
  <2> QED BY <2>1, <2>2
<1>6. ASSUME Broadcast \/ resReceive PROVE UNCHANGED <<conn, reader, handler>>
  BY <1>6 DEF Broadcast, resReceive
<1>7. ASSUME NEW s \in Socket, TimerStep(s) PROVE UNCHANGED <<conn, reader, handler>>
  BY <1>7, TimerFrame
<1> QED BY <1>1, <1>2, <1>3, <1>4, <1>5, <1>6, <1>7 DEF Next, vars

(* The broadcast loses a connected client only behind a dead entry. *)
LEMMA BroadcastStep ==
  ASSUME TypeOK, EndedIsDown, Broadcast, NEW i \in 1 .. Len(sockets),
         connected(sockets[i]), out'[sockets[i]] = out[sockets[i]]
  PROVE  \E j \in 1 .. i - 1 : ~connected(sockets[j])
<1> DEFINE s == sockets[i]
<1>0. sockets \in Seq(Socket) /\ out \in [Socket -> Seq(OutFrame)]
  BY DEF TypeOK
<1>1. /\ s \in Socket /\ out[s] \in Seq(OutFrame) /\ Len(sockets) \in Nat
      /\ \A j \in 1 .. Len(sockets) : sockets[j] \in Socket
  BY <1>0
<1>2. Append(out[s], "event") # out[s]
  <2>1. "event" \in OutFrame
    BY DEF OutFrame
  <2>2. Len(Append(out[s], "event")) = Len(out[s]) + 1 /\ Len(out[s]) \in Nat
    BY <1>1, <2>1, AppendProperties
  <2> QED BY <2>2
<1>3. \A t \in Socket : SendThrows(t) \/ Dangling(t) => ~connected(t)
  BY DEF SendThrows, Dangling, connected, EndedIsDown
<1>4. PICK stop \in 1 .. Len(sockets) + 1 :
        /\ \/ stop = Len(sockets) + 1
           \/ stop <= Len(sockets) /\ SendThrows(sockets[stop])
           \/ stop <= Len(sockets) /\ Dangling(sockets[stop])
        /\ out' = [t \in Socket |->
                    IF ~Dangling(t) /\ \E k \in 1 .. stop - 1 : sockets[k] = t
                    THEN Append(out[t], "event") ELSE out[t]]
  BY DEF Broadcast
<1>5. ~Dangling(s)
  BY <1>1, <1>3
<1>6. ~(i \in 1 .. stop - 1)
  <2> SUFFICES ASSUME i \in 1 .. stop - 1 PROVE FALSE
    OBVIOUS
  <2>1. out'[s] = Append(out[s], "event")
    BY <1>1, <1>4, <1>5
  <2> QED BY <1>2, <2>1
<1>7. stop \in 1 .. i /\ stop <= Len(sockets)
  BY <1>1, <1>6
<1>8. ~connected(sockets[stop])
  BY <1>1, <1>3, <1>4, <1>7
<1>9. stop # i
  BY <1>8
<1> QED BY <1>7, <1>8, <1>9

(* Whatever the order of connections and failures, a connected client      *)
(* misses the event (app.d:452-457) only behind an entry that is down.     *)
THEOREM MissedOnlyBehindDeadHolds == Spec => MissedOnlyBehindDead
<1>1. Init => Unstarted /\ EndedIsDown
  BY DEF Init, Unstarted, EndedIsDown
<1>2. Spec => [](TypeOK /\ Unstarted /\ EndedIsDown)
  BY <1>1, HubTypeCorrect, UnstartedStep, EndedIsDownStep, PTL DEF Spec
<1>3. ASSUME TypeOK, EndedIsDown, [Next]_vars,
             NEW i \in 1 .. Len(sockets), req = "sleep", req' # "sleep"
      PROVE  Broadcast
  <2>1. ASSUME NEW s \in Socket, Accept(s) \/ PeerStep(s) \/ ReaderStep(s) PROVE UNCHANGED req
    BY <2>1 DEF Accept, PeerStep, PeerSend, PeerPong, PeerFin, PeerReset, ReaderStep,
                ReaderOffer, ReaderResume, ReaderClose, ReaderPing, ReaderPong, ReaderReject,
                ReaderSkipped, ReaderEnd, hubVars
  <2>2. ASSUME NEW s \in Socket, HandlerStep(s) PROVE UNCHANGED req
    BY <2>2 DEF HandlerStep, NameTimeout, NameThrows, NameText, NameEmpty, NameBad, Rejects,
                ReadText, ReadQuit, ReadBad, ReadBreak, ReadEnd, Joined, FailJoined, hubVars
  <2>3. ASSUME NEW s \in Socket, TimerStep(s) PROVE UNCHANGED req
    BY <2>3, TimerFrame
  <2>4. ASSUME resReceive PROVE UNCHANGED req
    BY <2>4 DEF resReceive
  <2> QED BY <1>3, <2>1, <2>2, <2>3, <2>4 DEF Next, vars
<1>4. TypeOK /\ EndedIsDown /\ [Next]_vars =>
        [ \A i \in 1 .. Len(sockets) :
            LET s == sockets[i] IN
            req = "sleep" /\ req' # "sleep" /\ connected(s) /\ out'[s] = out[s]
              => \E j \in 1 .. i - 1 : ~connected(sockets[j]) ]_vars
  BY <1>3, BroadcastStep
<1> QED BY <1>2, <1>4, PTL DEF Spec, MissedOnlyBehindDead
==============================================================================
