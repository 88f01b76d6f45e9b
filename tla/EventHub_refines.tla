-------------------------- MODULE EventHub_refines ---------------------------
(***************************************************************************)
(* The event hub implements the announcement, for any number of            *)
(* connections and any behaviour of their peers.                           *)
(***************************************************************************)
EXTENDS EventHub_proofs

(* Two states of the hub that the announcement does not tell apart. *)
SameView ==
  Joiners' = Joiners /\ Enders' = Enders /\ Members' = Members /\ Told' = Told
  /\ Announced' = Announced

(* Any frame but the event tells a client nothing. *)
LEMMA AppendSilent ==
  ASSUME NEW seq \in Seq(OutFrame), NEW f \in OutFrame \ {"event"}
  PROVE  /\ Append(seq, f) \in Seq(OutFrame)
         /\ (\E i \in 1 .. Len(Append(seq, f)) : Append(seq, f)[i] = "event")
              <=> \E i \in 1 .. Len(seq) : seq[i] = "event"
<1>1. /\ Append(seq, f) \in Seq(OutFrame) /\ Len(Append(seq, f)) = Len(seq) + 1
      /\ \A i \in 1 .. Len(seq) : Append(seq, f)[i] = seq[i]
      /\ Append(seq, f)[Len(seq) + 1] = f
      /\ Len(seq) \in Nat
  BY AppendProperties
<1>2. \A i \in 1 .. Len(Append(seq, f)) : i \in 1 .. Len(seq) \/ i = Len(seq) + 1
  BY <1>1
<1>3. \A i \in 1 .. Len(seq) : i \in 1 .. Len(Append(seq, f))
  BY <1>1
<1>4. ASSUME NEW i \in 1 .. Len(Append(seq, f)), Append(seq, f)[i] = "event"
      PROVE  i \in 1 .. Len(seq) /\ seq[i] = "event"
  BY <1>1, <1>2, <1>4
<1> QED BY <1>1, <1>3, <1>4

(* One such frame more on one socket. *)
LEMMA FrameSilent ==
  ASSUME TypeOK, NEW s \in Socket, NEW f \in OutFrame \ {"event"},
         out' = [out EXCEPT ![s] = Append(@, f)]
  PROVE  Told' = Told
<1>1. out \in [Socket -> Seq(OutFrame)]
  BY DEF TypeOK
<1>2. out'[s] = Append(out[s], f) /\ \A t \in Socket \ {s} : out'[t] = out[t]
  BY <1>1
<1>3. out[s] \in Seq(OutFrame)
  BY <1>1
<1>4. (\E i \in 1 .. Len(out'[s]) : out'[s][i] = "event")
        <=> \E i \in 1 .. Len(out[s]) : out[s][i] = "event"
  BY <1>2, <1>3, AppendSilent
<1>5. \A t \in Socket : (\E i \in 1 .. Len(out'[t]) : out'[t][i] = "event")
                          <=> \E i \in 1 .. Len(out[t]) : out[t][i] = "event"
  BY <1>2, <1>4
<1> QED BY <1>5 DEF Told

(* Neither does the closing frame, nor the notice before it. *)
LEMMA CloseSilent ==
  ASSUME TypeOK, NEW s \in Socket, NEW before \in {<<>>, <<"invalid">>},
         close(s, before), ~connected(s) => before = <<>>
  PROVE  Told' = Told
<1>1. CASE ~connected(s)
  BY <1>1, CloseWrites DEF Told
<1>2. CASE connected(s)
  <2> DEFINE held == IF before = <<>> THEN out[s] ELSE Append(out[s], "invalid")
             said(seq) == \E i \in 1 .. Len(seq) : seq[i] = "event"
  <2>0. out \in [Socket -> Seq(OutFrame)]
    BY DEF TypeOK
  <2>1. out' = [out EXCEPT ![s] = Append(held, "close")]
    BY <1>2, CloseWrites
  <2>2. "close" \in OutFrame \ {"event"} /\ "invalid" \in OutFrame \ {"event"}
    BY DEF OutFrame
  <2>3. held \in Seq(OutFrame) /\ (said(held) <=> said(out[s]))
    BY <2>0, <2>2, AppendSilent
  <2>4. said(Append(held, "close")) <=> said(held)
    BY <2>2, <2>3, AppendSilent
  <2> HIDE DEF held
  <2>5. out'[s] = Append(held, "close") /\ \A t \in Socket \ {s} : out'[t] = out[t]
    BY <2>0, <2>1
  <2>6. \A t \in Socket : said(out'[t]) <=> said(out[t])
    BY <2>3, <2>4, <2>5
  <2> QED BY <2>6 DEF Told
<1> QED BY <1>1, <1>2

(* A connection joins. *)
LEMMA AcceptJoins ==
  ASSUME TypeOK, NEW s \in Socket, Accept(s)
  PROVE  Promise!Join(s)
<1>0. sockets \in Seq(Socket) /\ handler \in [Socket -> HandlerState]
  BY DEF TypeOK
<1>1. /\ sockets' = Append(sockets, s) /\ handler[s] = "absent"
      /\ handler' = [handler EXCEPT ![s] = "waitName"] /\ UNCHANGED <<out, req>>
  BY DEF Accept, Goto
<1>2. /\ Len(sockets') = Len(sockets) + 1 /\ sockets'[Len(sockets) + 1] = s
      /\ \A i \in 1 .. Len(sockets) : sockets'[i] = sockets[i]
      /\ Len(sockets) \in Nat
  BY <1>0, <1>1, AppendProperties
<1>3. Members' = Members \cup {s}
  BY <1>2 DEF Members, Listed
<1>4. s \notin Joiners /\ Joiners' = Joiners \cup {s} /\ Enders' = Enders
  BY <1>0, <1>1 DEF Joiners, Enders
<1>5. Told' = Told /\ Announced' = Announced
  BY <1>1 DEF Told, Announced
<1> QED BY <1>3, <1>4, <1>5 DEF Promise!Join

(* A handler that ends by itself leaves, and takes only its own entry. *)
LEMMA JoinedLeaves ==
  ASSUME TypeOK, ListedOnce, NEW s \in Socket, Joined(s)
  PROVE  Promise!Leave(s)
<1>0. sockets \in Seq(Socket) /\ handler \in [Socket -> HandlerState]
  BY DEF TypeOK
<1>1. /\ sockets' = removeFromArray(sockets, s) /\ handler[s] = "joining"
      /\ handler' = [handler EXCEPT ![s] = "gone"] /\ UNCHANGED <<out, req>>
  BY DEF Joined, Goto, writeVars
<1>2. Injective(sockets)
  BY DEF Injective, ListedOnce
<1> DEFINE left == removeFromArray(sockets, s)
<1>3. /\ \A t \in Socket \ {s} :
           (\E i \in 1 .. Len(sockets) : sockets[i] = t)
             => \E i \in 1 .. Len(left) : left[i] = t
      /\ \A i \in 1 .. Len(left) : \E j \in 1 .. Len(sockets) : left[i] = sockets[j]
      /\ \A i \in 1 .. Len(left) : left[i] # s
  BY <1>0, <1>2, RemoveOnly
<1> HIDE DEF left
<1>4. sockets' = left
  BY <1>1 DEF left
<1>5. Members' = Members \ {s}
  BY <1>3, <1>4 DEF Members, Listed
<1>6. s \in Members \ Enders
  BY <1>1 DEF Members, Enders, ListedOnce
<1>7. Joiners' = Joiners /\ Enders' = Enders \cup {s}
  BY <1>0, <1>1 DEF Joiners, Enders
<1>8. Told' = Told /\ Announced' = Announced
  BY <1>1 DEF Told, Announced
<1> QED BY <1>5, <1>6, <1>7, <1>8 DEF Promise!Leave

(* A handler that an exception ends abandons its entry. *)
LEMMA FailJoinedAbandons ==
  ASSUME TypeOK, ListedOnce, NEW s \in Socket, FailJoined(s)
  PROVE  Promise!Abandon(s)
<1>0. handler \in [Socket -> HandlerState]
  BY DEF TypeOK
<1>1. /\ handler[s] = "failing" /\ handler' = [handler EXCEPT ![s] = "gone"]
      /\ UNCHANGED <<out, req, sockets>>
  BY DEF FailJoined, Goto, writeVars, hubVars
<1>2. s \in Members \ Enders /\ Members' = Members
  BY <1>1 DEF Members, Enders, ListedOnce, Listed
<1>3. Joiners' = Joiners /\ Enders' = Enders \cup {s}
  BY <1>0, <1>1 DEF Joiners, Enders
<1>4. Told' = Told /\ Announced' = Announced
  BY <1>1 DEF Told, Announced
<1> QED BY <1>2, <1>3, <1>4 DEF Promise!Abandon

(* The broadcast announces, to nobody whose handler has ended. *)
LEMMA BroadcastAnnounces ==
  ASSUME TypeOK, Broadcast
  PROVE  \E reached \in SUBSET Socket : Promise!Announce(reached)
<1>0. /\ sockets \in Seq(Socket) /\ out \in [Socket -> Seq(OutFrame)]
      /\ "event" \in OutFrame
  BY DEF TypeOK, OutFrame
<1>1. PICK stop \in 1 .. Len(sockets) + 1 :
        /\ \A i \in 1 .. stop - 1 : ~SendThrows(sockets[i])
        /\ out' = [t \in Socket |->
                    IF ~Dangling(t) /\ \E k \in 1 .. stop - 1 : sockets[k] = t
                    THEN Append(out[t], "event") ELSE out[t]]
  BY DEF Broadcast
<1> DEFINE reached == {t \in Socket : ~Dangling(t) /\ \E k \in 1 .. stop - 1 : sockets[k] = t}
<1>2. UNCHANGED <<handler, sockets>> /\ req = "sleep" /\ req' # "sleep"
  BY DEF Broadcast
<1>3. reached \subseteq Members \ Enders
  <2>1. Len(sockets) \in Nat
    BY <1>0
  <2>2. \A k \in 1 .. stop - 1 : k \in 1 .. Len(sockets)
    BY <2>1
  <2>3. ASSUME NEW t \in reached PROVE handler[t] # "gone"
    <3>1. ~SendThrows(t) /\ ~Dangling(t)
      BY <1>1
    <3> QED BY <3>1 DEF SendThrows, Dangling
  <2> QED BY <2>2, <2>3 DEF Members, Enders, Listed
<1>4. ASSUME NEW t \in Socket
      PROVE  /\ Append(out[t], "event")[Len(out[t]) + 1] = "event"
             /\ Len(out[t]) + 1 \in 1 .. Len(Append(out[t], "event"))
  <2>1. out[t] \in Seq(OutFrame)
    BY <1>0
  <2>2. /\ Len(Append(out[t], "event")) = Len(out[t]) + 1 /\ Len(out[t]) \in Nat
        /\ Append(out[t], "event")[Len(out[t]) + 1] = "event"
    BY <1>0, <2>1, AppendProperties
  <2> QED BY <2>2
<1>5. \A t \in Socket : out'[t] = IF t \in reached THEN Append(out[t], "event") ELSE out[t]
  BY <1>1
<1>6. Told' = Told \cup reached
  <2>1. ASSUME NEW t \in reached PROVE t \in Told'
    <3>1. t \in Socket /\ out'[t] = Append(out[t], "event")
      BY <1>5
    <3>2. \E i \in 1 .. Len(out'[t]) : out'[t][i] = "event"
      BY <1>4, <3>1
    <3> QED BY <3>1, <3>2 DEF Told
  <2>2. \A t \in Socket \ reached : t \in Told' <=> t \in Told
    BY <1>5 DEF Told
  <2>3. Told \subseteq Socket /\ Told' \subseteq Socket /\ reached \subseteq Socket
    BY DEF Told
  <2> HIDE DEF reached
  <2> QED BY <2>1, <2>2, <2>3
<1>7. Joiners' = Joiners /\ Enders' = Enders /\ Members' = Members
  BY <1>2 DEF Joiners, Enders, Members, Listed
<1>8. Announced = FALSE /\ Announced' = TRUE
  BY <1>2 DEF Announced
<1>9. reached \in SUBSET Socket
  OBVIOUS
<1> HIDE DEF reached
<1> QED BY <1>3, <1>6, <1>7, <1>8, <1>9 DEF Promise!Announce

(* A step that starts no handler, ends none and leaves the array alone. *)
LEMMA SilentStep ==
  ASSUME UNCHANGED <<sockets, req>>, Told' = Told,
         \A t \in Socket : (handler'[t] = "absent") = (handler[t] = "absent")
                           /\ (handler'[t] = "gone") = (handler[t] = "gone")
  PROVE  SameView
BY DEF SameView, Joiners, Enders, Members, Listed, Announced

(* The other steps of a handler change nothing the announcement sees. *)
LEMMA HandlerSilent ==
  ASSUME TypeOK, NEW s \in Socket, HandlerStep(s), ~Joined(s), ~FailJoined(s)
  PROVE  SameView
<1>0. handler \in [Socket -> HandlerState]
  BY DEF TypeOK
<1>1. UNCHANGED <<sockets, req>>
  BY DEF HandlerStep, NameTimeout, NameThrows, NameText, NameEmpty, NameBad, Rejects,
         ReadText, ReadQuit, ReadBad, ReadBreak, ReadEnd, hubVars
<1>2. PICK st \in HandlerState : handler' = [handler EXCEPT ![s] = st]
  BY HandlerMoves
<1>3. st \notin {"absent", "gone"}
  <2>1. handler'[s] \notin {"absent", "gone"}
    <3> USE <1>0 DEF Goto, HandlerState
    <3>1. CASE NameTimeout(s) \/ NameThrows(s) \/ NameEmpty(s) \/ NameBad(s)
      BY <3>1 DEF NameTimeout, NameThrows, NameEmpty, NameBad, Rejects
    <3>2. CASE NameText(s)
      BY <3>2 DEF NameText, EnterLoop
    <3>3. CASE ReadText(s) \/ ReadQuit(s) \/ ReadBad(s)
      BY <3>3 DEF ReadText, ReadQuit, ReadBad, Rejects
    <3>4. CASE ReadBreak(s) \/ ReadEnd(s)
      BY <3>4 DEF ReadBreak, ReadEnd
    <3> QED BY <3>1, <3>2, <3>3, <3>4 DEF HandlerStep
  <2> QED BY <1>0, <1>2, <2>1
<1>4. Told' = Told
  <2>1. CASE UNCHANGED writeVars
    BY <2>1 DEF writeVars, Told
  <2>2. CASE close(s, <<>>)
    BY <2>2, CloseSilent
  <2>3. CASE NameEmpty(s)
    <3>1. CASE connected(s)
      <4>1. close(s, <<"invalid">>)
        BY <2>3, <3>1 DEF NameEmpty
      <4> QED BY <3>1, <4>1, CloseSilent
    <3>2. CASE ~connected(s)
      <4>1. close(s, <<>>)
        BY <2>3, <3>2 DEF NameEmpty
      <4> QED BY <3>2, <4>1, CloseSilent
    <3> QED BY <3>1, <3>2
  <2> QED BY <2>1, <2>2, <2>3, HandlerWrites
<1>5. handler[s] \notin {"absent", "gone"}
  BY HandlerMoves
<1>6. \A t \in Socket : (handler'[t] = "absent") = (handler[t] = "absent")
                        /\ (handler'[t] = "gone") = (handler[t] = "gone")
  BY <1>0, <1>2, <1>3, <1>5
<1> QED BY <1>1, <1>4, <1>6, SilentStep

(* Every step of the hub is a step of the announcement or none. *)
LEMMA HubSimulates ==
  TypeOK /\ ListedOnce /\ [Next]_vars => [Promise!AbsNext]_(Promise!absVars)
<1> SUFFICES ASSUME TypeOK, ListedOnce, [Next]_vars
             PROVE  Promise!AbsNext \/ UNCHANGED Promise!absVars
  OBVIOUS
<1>1. CASE SameView
  BY <1>1 DEF SameView, Promise!absVars
<1>2. ASSUME NEW s \in Socket, Accept(s) PROVE Promise!AbsNext
  BY <1>2, AcceptJoins DEF Promise!AbsNext
<1>3. ASSUME NEW s \in Socket, Joined(s) PROVE Promise!AbsNext
  BY <1>3, JoinedLeaves DEF Promise!AbsNext
<1>4. ASSUME NEW s \in Socket, FailJoined(s) PROVE Promise!AbsNext
  BY <1>4, FailJoinedAbandons DEF Promise!AbsNext
<1>5. ASSUME Broadcast PROVE Promise!AbsNext
  BY <1>5, BroadcastAnnounces DEF Promise!AbsNext
<1>6. ASSUME NEW s \in Socket, PeerStep(s) PROVE SameView
  <2>1. UNCHANGED <<handler, sockets, req>>
    BY <1>6 DEF PeerStep, PeerSend, PeerPong, PeerFin, PeerReset, hubVars
  <2>2. Told' = Told
    BY <1>6, PeerWrites DEF writeVars, Told
  <2> QED BY <2>1, <2>2, SilentStep
<1>7. ASSUME NEW s \in Socket, ReaderStep(s) PROVE SameView
  <2>1. UNCHANGED <<handler, sockets, req>>
    BY <1>7 DEF ReaderStep, ReaderOffer, ReaderResume, ReaderClose, ReaderPing,
                ReaderPong, ReaderReject, ReaderSkipped, ReaderEnd, hubVars
  <2>2. CASE UNCHANGED writeVars
    <3>1. Told' = Told
      BY <2>2 DEF writeVars, Told
    <3> QED BY <2>1, <3>1, SilentStep
  <2>3. CASE close(s, <<>>)
    <3>1. Told' = Told
      BY <2>3, CloseSilent
    <3> QED BY <2>1, <3>1, SilentStep
  <2>4. CASE Write(s, <<"pong">>)
    <3>1. "pong" \in OutFrame \ {"event"}
      BY DEF OutFrame
    <3>2. Told' = Told
      BY <2>4, <3>1, PongWritten, FrameSilent
    <3> QED BY <2>1, <3>2, SilentStep
  <2> QED BY <1>7, <2>2, <2>3, <2>4, ReaderWrites
<1>8. ASSUME NEW s \in Socket, TimerStep(s) PROVE SameView
  <2>1. UNCHANGED <<handler, sockets, req>>
    BY <1>8, TimerFrame
  <2>2. out' = out \/ out' = [out EXCEPT ![s] = Append(@, "ping")]
    BY <1>8, TimerWrites
  <2>3. "ping" \in OutFrame \ {"event"}
    BY DEF OutFrame
  <2>4. Told' = Told
    <3>1. CASE out' = out
      BY <3>1 DEF Told
    <3> QED BY <2>2, <2>3, <3>1, FrameSilent
  <2> QED BY <2>1, <2>4, SilentStep
<1>9. ASSUME resReceive PROVE SameView
  BY <1>9, SilentStep DEF resReceive, writeVars, Told
<1>10. ASSUME UNCHANGED vars PROVE SameView
  BY <1>10, SilentStep DEF vars, Told
<1>11. ASSUME NEW s \in Socket, HandlerStep(s)
       PROVE  Promise!AbsNext \/ UNCHANGED Promise!absVars
  BY <1>1, <1>3, <1>4, <1>11, HandlerSilent
<1> QED BY <1>1, <1>2, <1>5, <1>6, <1>7, <1>8, <1>9, <1>10, <1>11 DEF Next

(* The hub implements the announcement (app.d:452, 502 and 540): one event *)
(* at most, to listed clients whose handler runs, and no handler drops     *)
(* another's entry.                                                        *)
THEOREM HubImplementsAnnouncement == Spec => ImplementsAnnouncement
<1>1. Init => Promise!AbsInit
  BY DEF Init, Promise!AbsInit, Joiners, Enders, Members, Told, Announced, Listed
<1> QED BY <1>1, HubTypeCorrect, ListedOnceHolds, HubSimulates, PTL
        DEF Spec, ImplementsAnnouncement, Promise!AbsSpec
==============================================================================
