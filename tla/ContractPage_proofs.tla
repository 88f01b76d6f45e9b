------------------------- MODULE ContractPage_proofs --------------------------
(***************************************************************************)
(* Proofs about pages, network and registry together, for any number of    *)
(* pages and of clicks, and any order and loss of requests and answers.    *)
(***************************************************************************)
EXTENDS ContractPage, TrustContract_proofs, FiniteSetTheorems

(* The requests of the given operations that the server has not served. *)
Unserved(ops) == {r \in wire : r.op \in ops /\ r.answer = Pending}

(* A list of rows that the server had at some time: its rows are the first *)
(* ones of rs, with counts that are not ahead.                             *)
PastList(rows) ==
  /\ rows \in Seq(Row)
  /\ Len(rows) <= Len(rs)
  /\ \A i \in 1 .. Len(rows) :
       /\ rows[i].no = i
       /\ rows[i].contractID = rs[i].contractID
       /\ rows[i].txCount <= rs[i].txCount

(* What may stand in the answer to a request: the fields of webapi.d. *)
AnswerOK(r) ==
  \/ r.answer = Pending
  \/ r.answer = Failed
  \/ r.op = "validate" /\ r.answer = Answer([address |-> r.answer.data.address])
  \/ r.op = "confirm" /\ r.answer = Answer([title |-> r.answer.data.title])
  \/ r.op = "run" /\ r.answer = Answer([txID |-> r.addr])
  \/ /\ r.op = "list"
     /\ r.answer = Answer([rows |-> r.answer.data.rows])
     /\ PastList(r.answer.data.rows)

RequestOK(r) ==
  /\ r = [id |-> r.id, page |-> r.page, op |-> r.op, addr |-> r.addr, answer |-> r.answer]
  /\ r.id \in 1 .. clicks /\ r.page \in Page /\ r.op \in Op /\ r.addr \in Address
  /\ r.op = "confirm" => r.addr = UndefinedText
  /\ AnswerOK(r)

(* The network: finitely many requests, told apart by their number. *)
WireOK ==
  /\ IsFiniteSet(wire)
  /\ \A r \in wire : RequestOK(r)
  /\ \A r1, r2 \in wire : r1.id = r2.id => r1 = r2

(* The pages; no answer has the field contractAddress that they read. *)
PageOK ==
  /\ confirming \in [Page -> BOOLEAN]
  /\ contractAddress = [p \in Page |-> UndefinedText]
  /\ shown \in [Page -> Seq(Row)]
  /\ clicks \in 0 .. MaxClicks /\ confirmClicks \in 0 .. clicks

(* The counter a row had at the start. *)
StartCount(i) == IF i <= Len(DemoRows) THEN DemoRows[i].txCount ELSE 0

(* A request is a click, and a transaction is a request served: what the   *)
(* counters have gained and what they may still gain is clicked for.       *)
CountsAreClicks ==
  /\ Cardinality(Unserved(Op)) <= clicks
  /\ \A i \in 1 .. Len(rs) :
       rs[i].txCount + Cardinality(Unserved(Op)) <= StartCount(i) + clicks

(* A new row is a confirm served. *)
RowsAreConfirms ==
  /\ Len(DemoRows) <= Len(rs)
  /\ Len(rs) - Len(DemoRows) + Cardinality(Unserved({"confirm"})) <= confirmClicks
  /\ \A i \in Len(DemoRows) + 1 .. Len(rs) : rs[i].contractID = UndefinedText

(* The inductive invariant. *)
PInv ==
  /\ Inv
  /\ PageOK
  /\ WireOK
  /\ CountsAreClicks
  /\ RowsAreConfirms
  /\ ShownIsPast

------------------------------------------------------------------------------
(* The network. *)

(* The requests that wait for the server are finitely many. *)
LEMMA UnservedFinite ==
  ASSUME IsFiniteSet(wire), NEW ops
  PROVE  IsFiniteSet(Unserved(ops)) /\ Cardinality(Unserved(ops)) \in Nat
<1>1. Unserved(ops) \in SUBSET wire
  BY DEF Unserved
<1>2. IsFiniteSet(Unserved(ops))
  BY <1>1, FS_Subset, Zenon
<1> QED BY <1>2, FS_CardinalityType

(* The states of an answer exclude each other. *)
LEMMA AnswersDiffer ==
  /\ Pending # Failed
  /\ \A d : Answer(d) # Pending /\ Answer(d) # Failed
  /\ Pending.state = "pending" /\ Failed.state = "failed"
  /\ \A d : Answer(d).state = "done" /\ Answer(d).data = d
<1>1. Pending.state = "pending" /\ Failed.state = "failed"
  BY DEF Pending, Failed
<1>2. \A d : Answer(d).state = "done" /\ Answer(d).data = d
  BY DEF Answer
<1> QED BY <1>1, <1>2

(* One request more that waits for the server. *)
LEMMA SendCounts ==
  ASSUME IsFiniteSet(wire), clicks \in Nat, \A r \in wire : r.id \in 1 .. clicks,
         NEW p, NEW op, NEW a, Send(p, op, a), NEW ops
  PROVE  /\ IsFiniteSet(wire)'
         /\ Cardinality(Unserved(ops)') =
              Cardinality(Unserved(ops)) + IF op \in ops THEN 1 ELSE 0
<1> DEFINE q == [id |-> clicks + 1, page |-> p, op |-> op, addr |-> a, answer |-> Pending]
<1>1. wire' = wire \cup {q}
  BY DEF Send
<1>2. q.id = clicks + 1 /\ q.op = op /\ q.answer = Pending
  OBVIOUS
<1>3. q \notin wire
  BY <1>2
<1> HIDE DEF q
<1>4. IsFiniteSet(wire')
  BY <1>1, FS_AddElement
<1>5. IsFiniteSet(Unserved(ops)) /\ Cardinality(Unserved(ops)) \in Nat
  BY UnservedFinite
<1>6. CASE op \in ops
  <2>1. Unserved(ops)' = Unserved(ops) \cup {q}
    BY <1>1, <1>2, <1>6 DEF Unserved
  <2>2. q \notin Unserved(ops)
    BY <1>3 DEF Unserved
  <2> QED BY <1>4, <1>5, <1>6, <2>1, <2>2, FS_AddElement
<1>7. CASE op \notin ops
  <2>1. Unserved(ops)' = Unserved(ops)
    BY <1>1, <1>2, <1>7 DEF Unserved
  <2> QED BY <1>4, <1>5, <1>7, <2>1
<1> QED BY <1>6, <1>7

(* A set without one of its elements, or without something else. *)
LEMMA OneLess ==
  ASSUME NEW S, IsFiniteSet(S), NEW x
  PROVE  /\ IsFiniteSet(S \ {x})
         /\ Cardinality(S \ {x}) = Cardinality(S) - IF x \in S THEN 1 ELSE 0
         /\ Cardinality(S) \in Nat /\ Cardinality(S \ {x}) \in Nat
<1>1. IsFiniteSet(S \ {x})
  BY FS_RemoveElement
<1>2. Cardinality(S) \in Nat /\ Cardinality(S \ {x}) \in Nat
  BY <1>1, FS_CardinalityType
<1>3. Cardinality(S \ {x}) = IF x \in S THEN Cardinality(S) - 1 ELSE Cardinality(S)
  BY FS_RemoveElement
<1> QED BY <1>1, <1>2, <1>3

(* A request that gets an answer, or is lost, no longer waits. *)
LEMMA DeliverCounts ==
  ASSUME IsFiniteSet(wire), NEW r \in wire, RequestOK(r),
         NEW answer, answer # Pending, Deliver(r, answer), NEW ops
  PROVE  /\ IsFiniteSet(wire)'
         /\ Unserved(ops)' = Unserved(ops) \ {r}
         /\ Cardinality(Unserved(ops)') =
              Cardinality(Unserved(ops)) - IF r \in Unserved(ops) THEN 1 ELSE 0
<1> DEFINE q == [r EXCEPT !.answer = answer]
<1>1. wire' = (wire \ {r}) \cup {q}
  BY DEF Deliver
<1>2. q.answer = answer
  BY DEF RequestOK
<1> HIDE DEF q
<1>3. IsFiniteSet(wire')
  BY <1>1, FS_AddElement, FS_RemoveElement
<1>4. Unserved(ops)' = Unserved(ops) \ {r}
  BY <1>1, <1>2 DEF Unserved
<1>5. IsFiniteSet(Unserved(ops))
  BY UnservedFinite
<1> QED BY <1>3, <1>4, <1>5, OneLess

(* A callback runs for a request that no longer waits. *)
LEMMA AnsweredCounts ==
  ASSUME IsFiniteSet(wire), NEW r \in wire, Answered(r), NEW ops
  PROVE  IsFiniteSet(wire)' /\ Unserved(ops)' = Unserved(ops)
<1>1. wire' = wire \ {r} /\ r.answer # Pending
  BY DEF Answered
<1>2. IsFiniteSet(wire')
  BY <1>1, FS_RemoveElement
<1> QED BY <1>1, <1>2 DEF Unserved

------------------------------------------------------------------------------
(* Lists that are past stay past. *)

(* A counter is a number. *)
LEMMA RowCount == \A row \in Row : row.txCount \in Nat /\ row.txCount < TxMod
BY TxModAssumption DEF Row

(* No step of the server takes rows away or lowers a count. *)
RowsGrow ==
  /\ rs \in Seq(Row) /\ rs' \in Seq(Row)
  /\ Len(rs) <= Len(rs')
  /\ \A i \in 1 .. Len(rs) :
       rs'[i].contractID = rs[i].contractID /\ rs[i].txCount <= rs'[i].txCount

(* A list the server had is still one it had. *)
LEMMA PastStaysPast ==
  ASSUME RowsGrow, NEW rows, PastList(rows)
  PROVE  PastList(rows)'
<1>1. rows \in Seq(Row) /\ Len(rows) \in Nat /\ Len(rs) \in Nat /\ Len(rs') \in Nat
  BY DEF RowsGrow, PastList
<1>2. Len(rows) <= Len(rs')
  BY <1>1 DEF RowsGrow, PastList
<1>3. ASSUME NEW i \in 1 .. Len(rows)
      PROVE  /\ rows[i].no = i
             /\ rows[i].contractID = rs'[i].contractID
             /\ rows[i].txCount <= rs'[i].txCount
  <2>1. i \in 1 .. Len(rs) /\ i \in 1 .. Len(rs')
    BY <1>1, <1>2 DEF PastList
  <2>2. rows[i] \in Row /\ rs[i] \in Row /\ rs'[i] \in Row
    BY <1>1, <2>1 DEF RowsGrow
  <2>3. rows[i].txCount \in Nat /\ rs[i].txCount \in Nat /\ rs'[i].txCount \in Nat
    BY <2>2, RowCount
  <2>4. rows[i].txCount <= rs[i].txCount /\ rs[i].txCount <= rs'[i].txCount
    BY <2>1 DEF PastList, RowsGrow
  <2> QED BY <2>1, <2>3, <2>4 DEF PastList, RowsGrow
<1> QED BY <1>1, <1>2, <1>3 DEF PastList

(* So a request that is as it should be stays so. *)
LEMMA RequestStaysOK ==
  ASSUME RowsGrow, clicks \in Nat, clicks' \in Nat, clicks <= clicks',
         NEW r, RequestOK(r)
  PROVE  RequestOK(r)'
<1>1. AnswerOK(r)'
  BY PastStaysPast DEF AnswerOK, RequestOK
<1>2. r.id \in 1 .. clicks'
  BY DEF RequestOK
<1> QED BY <1>1, <1>2 DEF RequestOK

(* And so does what the pages show. *)
LEMMA ShownStaysPast ==
  ASSUME RowsGrow, ShownIsPast, shown \in [Page -> Seq(Row)], UNCHANGED shown
  PROVE  ShownIsPast'
<1> SUFFICES ASSUME NEW p \in Page, NEW k \in 1 .. Len(shown[p])
             PROVE  LET i == Len(shown[p]) + 1 - k IN
                    /\ i <= Len(rs')
                    /\ shown[p][k].no = i
                    /\ shown[p][k].contractID = rs'[i].contractID
                    /\ shown[p][k].txCount <= rs'[i].txCount
  BY DEF ShownIsPast
<1> DEFINE i == Len(shown[p]) + 1 - k
           row == shown[p][k]
<1>1. /\ i <= Len(rs) /\ row.no = i
      /\ row.contractID = rs[i].contractID /\ row.txCount <= rs[i].txCount
  BY DEF ShownIsPast
<1>2. shown[p] \in Seq(Row) /\ Len(shown[p]) \in Nat /\ Len(rs) \in Nat /\ Len(rs') \in Nat
  BY DEF RowsGrow
<1>3. i \in 1 .. Len(rs) /\ row \in Row
  BY <1>1, <1>2
<1> HIDE DEF i, row
<1>4. /\ i \in 1 .. Len(rs') /\ rs'[i].contractID = rs[i].contractID
      /\ rs[i].txCount <= rs'[i].txCount
  BY <1>2, <1>3 DEF RowsGrow
<1>5. rs[i] \in Row /\ rs'[i] \in Row
  BY <1>3, <1>4 DEF RowsGrow
<1>6. row.txCount \in Nat /\ rs[i].txCount \in Nat /\ rs'[i].txCount \in Nat
  BY <1>3, <1>5, RowCount
<1>7. row.txCount <= rs'[i].txCount /\ i <= Len(rs')
  BY <1>1, <1>2, <1>4, <1>6
<1> QED BY <1>1, <1>4, <1>7 DEF i, row

(* Reverse (common.js:30) keeps the length and turns the positions round. *)
LEMMA ReverseRows ==
  ASSUME NEW rows \in Seq(Row)
  PROVE  /\ Reverse(rows) \in Seq(Row)
         /\ Len(Reverse(rows)) = Len(rows)
         /\ \A k \in 1 .. Len(rows) : Reverse(rows)[k] = rows[Len(rows) + 1 - k]
<1>1. Len(rows) \in Nat
  OBVIOUS
<1>2. \A k \in 1 .. Len(rows) :
        /\ (Len(rows) - k) + 1 \in 1 .. Len(rows)
        /\ (Len(rows) - k) + 1 = Len(rows) + 1 - k
  BY <1>1
<1>3. \A k \in 1 .. Len(rows) : rows[(Len(rows) - k) + 1] \in Row
  BY <1>2
<1> QED BY <1>1, <1>2, <1>3 DEF Reverse

------------------------------------------------------------------------------
(* The start. *)

LEMMA PageInitInv == PageInit => PInv
<1> SUFFICES ASSUME PageInit PROVE PInv
  OBVIOUS
<1>1. Inv
  BY InitInv DEF PageInit
<1>2. rs = DemoRows /\ rs \in Seq(Row) /\ Len(rs) \in Nat
  BY DemoAssumption DEF PageInit, Init, createReqTC
<1>3. PageOK
  BY PageAssumption DEF PageOK, PageInit
<1>4. WireOK
  BY FS_EmptySet DEF WireOK, PageInit
<1>5. \A ops : Unserved(ops) = {}
  BY DEF Unserved, PageInit
<1>6. \A ops : Cardinality(Unserved(ops)) = 0
  BY <1>5, FS_EmptySet
<1>7. CountsAreClicks
  <2>1. \A i \in 1 .. Len(rs) : rs[i].txCount \in Nat /\ StartCount(i) = rs[i].txCount
    BY <1>2, RowCount DEF StartCount
  <2> QED BY <1>6, <2>1 DEF CountsAreClicks, PageInit
<1>8. RowsAreConfirms
  BY <1>2, <1>6 DEF RowsAreConfirms, PageInit
<1>9. ShownIsPast
  BY DEF ShownIsPast, PageInit
<1> QED BY <1>1, <1>3, <1>4, <1>7, <1>8, <1>9 DEF PInv

------------------------------------------------------------------------------
(* Clicks. *)

(* What every click does: one request more, and nothing else but perhaps   *)
(* the class of the button.                                                *)
Clicked(p, op, a) ==
  /\ Send(p, op, a)
  /\ op = "confirm" => a = UndefinedText
  /\ confirmClicks' = confirmClicks + IF op = "confirm" THEN 1 ELSE 0
  /\ confirming' \in [Page -> BOOLEAN]
  /\ UNCHANGED <<rs, offered, contractAddress, shown>>

LEMMA ClickIsClicked ==
  ASSUME PageOK, NEW p \in Page,
         ClickSubmit(p) \/ OpenList(p) \/ \E a \in Address : ClickRun(p, a)
  PROVE  \E op \in Op, a \in Address : Clicked(p, op, a)
<1>1. /\ contractAddress[p] = UndefinedText /\ UndefinedText \in Address
      /\ confirming \in [Page -> BOOLEAN] /\ confirmClicks \in Nat
  BY PageAssumption DEF PageOK
<1>2. CASE ClickSubmit(p) /\ confirming[p]
  <2>1. Clicked(p, "confirm", UndefinedText)
    BY <1>1, <1>2 DEF ClickSubmit, Clicked, vars
  <2> QED BY <1>1, <2>1 DEF Op
<1>3. CASE ClickSubmit(p) /\ ~confirming[p]
  <2>1. /\ Send(p, "validate", UndefinedText)
        /\ confirming' = [confirming EXCEPT ![p] = TRUE]
        /\ UNCHANGED <<rs, offered, contractAddress, shown, confirmClicks>>
    BY <1>3 DEF ClickSubmit, vars
  <2>2. confirming' \in [Page -> BOOLEAN]
    BY <1>1, <2>1
  <2>3. confirmClicks' = confirmClicks + 0
    BY <1>1, <2>1
  <2>4. Clicked(p, "validate", UndefinedText)
    BY <2>1, <2>2, <2>3 DEF Clicked
  <2> QED BY <1>1, <2>4 DEF Op
<1>4. CASE OpenList(p)
  <2>1. Clicked(p, "list", UndefinedText)
    BY <1>1, <1>4 DEF OpenList, Clicked, vars
  <2> QED BY <1>1, <2>1 DEF Op
<1>5. ASSUME NEW a \in Address, ClickRun(p, a)
      PROVE  \E op \in Op, b \in Address : Clicked(p, op, b)
  <2>1. Clicked(p, "run", a)
    BY <1>1, <1>5 DEF ClickRun, Clicked, vars
  <2> QED BY <2>1 DEF Op
<1> QED BY <1>2, <1>3, <1>4, <1>5

(* A click keeps the invariant. *)
LEMMA ClickInv ==
  ASSUME PInv, NEW p \in Page, NEW op \in Op, NEW a \in Address, Clicked(p, op, a)
  PROVE  PInv'
<1>1. clicks \in Nat /\ clicks' = clicks + 1 /\ clicks' \in 0 .. MaxClicks
  BY PageAssumption DEF PInv, PageOK, Clicked, Send
<1>2. rs' = rs /\ offered' = offered /\ rs \in Seq(Row)
  BY DEF Clicked, PInv, Inv, TypeOK
<1>3. IsFiniteSet(wire) /\ \A r \in wire : r.id \in 1 .. clicks
  BY DEF PInv, WireOK, RequestOK
<1>4. Inv'
  BY <1>2 DEF PInv, Inv, TypeOK, NumberedInOrder, ShadowedRowsIdle
<1>5. \A i \in 1 .. Len(rs) : rs[i].txCount \in Nat
  BY <1>2, RowCount
<1>6. RowsGrow
  BY <1>2, <1>5 DEF RowsGrow
<1>7. PageOK'
  BY <1>1 DEF PInv, PageOK, Clicked
<1>8. WireOK'
  <2>1. PICK q : /\ q = [id |-> clicks + 1, page |-> p, op |-> op, addr |-> a,
                         answer |-> Pending]
                 /\ wire' = wire \cup {q}
    BY DEF Clicked, Send
  <2>2. IsFiniteSet(wire)'
    BY <1>1, <1>3, SendCounts DEF Clicked
  <2>3. /\ q.id = clicks + 1 /\ q.page = p /\ q.op = op /\ q.addr = a
        /\ q.answer = Pending
    BY <2>1
  <2>4. RequestOK(q)'
    <3>1. q.id \in 1 .. clicks'
      BY <1>1, <2>3
    <3>2. q = [id |-> q.id, page |-> q.page, op |-> q.op, addr |-> q.addr,
               answer |-> q.answer]
      BY <2>1, <2>3
    <3>3. AnswerOK(q)'
      BY <2>3 DEF AnswerOK
    <3>4. q.op = "confirm" => q.addr = UndefinedText
      BY <2>3 DEF Clicked
    <3> QED BY <2>3, <3>1, <3>2, <3>3, <3>4 DEF RequestOK
  <2>5. \A r \in wire : RequestOK(r)'
    BY <1>1, <1>6, RequestStaysOK DEF PInv, WireOK
  <2>6. \A r \in wire' : RequestOK(r)'
    BY <2>1, <2>4, <2>5
  <2>7. \A r1, r2 \in wire' : r1.id = r2.id => r1 = r2
    BY <1>1, <1>3, <2>1, <2>3 DEF PInv, WireOK
  <2> QED BY <2>2, <2>6, <2>7 DEF WireOK
<1>9. CountsAreClicks'
  <2>1. Cardinality(Unserved(Op)') = Cardinality(Unserved(Op)) + 1
    BY <1>1, <1>3, SendCounts DEF Clicked
  <2>2. Cardinality(Unserved(Op)) \in Nat
    BY <1>3, UnservedFinite
  <2>3. \A i \in 1 .. Len(rs) : StartCount(i) \in Nat
    BY DemoAssumption, RowCount DEF StartCount
  <2> QED BY <1>1, <1>2, <1>5, <2>1, <2>2, <2>3 DEF PInv, CountsAreClicks, StartCount
<1>10. RowsAreConfirms'
  <2>1. Cardinality(Unserved({"confirm"})') =
          Cardinality(Unserved({"confirm"})) + IF op = "confirm" THEN 1 ELSE 0
    BY <1>1, <1>3, SendCounts DEF Clicked
  <2>2. Cardinality(Unserved({"confirm"})) \in Nat
    BY <1>3, UnservedFinite
  <2>3. Len(rs) \in Nat /\ Len(DemoRows) \in Nat /\ confirmClicks \in Nat
    BY <1>2, DemoAssumption DEF PInv, PageOK
  <2> QED BY <1>2, <2>1, <2>2, <2>3 DEF PInv, RowsAreConfirms, Clicked
<1>11. ShownIsPast'
  BY <1>6, ShownStaysPast DEF PInv, PageOK, Clicked
<1> QED BY <1>4, <1>7, <1>8, <1>9, <1>10, <1>11 DEF PInv

------------------------------------------------------------------------------
(* The server and the network. *)

(* What becomes of a request: it is answered or lost; the list grows by    *)
(* one row if it was a confirm, or one count by one.                       *)
Handled(r, answer) ==
  /\ answer # Pending /\ Deliver(r, answer)
  /\ AnswerOK([r EXCEPT !.answer = answer])'
  /\ RowsGrow
  /\ \A i \in 1 .. Len(rs) :
       rs'[i].txCount <= rs[i].txCount + IF r.answer = Pending THEN 1 ELSE 0
  /\ \/ Len(rs') = Len(rs)
     \/ /\ r.op = "confirm" /\ r.answer = Pending
        /\ Len(rs') = Len(rs) + 1
        /\ rs'[Len(rs) + 1].txCount = 0
        /\ rs'[Len(rs) + 1].contractID = UndefinedText
  /\ UNCHANGED <<confirming, contractAddress, shown, clicks, confirmClicks>>

LEMMA HandledInv ==
  ASSUME PInv, Inv', NEW r \in wire, NEW answer, Handled(r, answer)
  PROVE  PInv'
<1>1. RequestOK(r) /\ IsFiniteSet(wire)
  BY DEF PInv, WireOK
<1>2. /\ clicks \in Nat /\ clicks' = clicks /\ confirmClicks \in Nat
      /\ confirmClicks' = confirmClicks
  BY DEF PInv, PageOK, Handled
<1>3. RowsGrow /\ Len(rs) \in Nat /\ Len(rs') \in Nat
  BY DEF Handled, RowsGrow
<1>4. answer # Pending /\ Deliver(r, answer)
  BY DEF Handled
<1>5. PageOK'
  BY DEF PInv, PageOK, Handled
<1>6. WireOK'
  <2> DEFINE q == [r EXCEPT !.answer = answer]
  <2>1. wire' = (wire \ {r}) \cup {q}
    BY <1>4 DEF Deliver
  <2>2. /\ q = [id |-> r.id, page |-> r.page, op |-> r.op, addr |-> r.addr,
                answer |-> answer]
    BY <1>1 DEF RequestOK
  <2>3. /\ q.id = r.id /\ q.page = r.page /\ q.op = r.op /\ q.addr = r.addr
        /\ q.answer = answer
    BY <2>2
  <2>4. AnswerOK(q)'
    BY DEF Handled
  <2> HIDE DEF q
  <2>5. RequestOK(q)'
    BY <1>1, <1>2, <2>2, <2>3, <2>4 DEF RequestOK
  <2>6. \A x \in wire : RequestOK(x)'
    BY <1>2, <1>3, RequestStaysOK DEF PInv, WireOK
  <2>7. \A x \in wire' : RequestOK(x)'
    BY <2>1, <2>5, <2>6
  <2>8. \A r1, r2 \in wire' : r1.id = r2.id => r1 = r2
    BY <2>1, <2>3 DEF PInv, WireOK
  <2>9. IsFiniteSet(wire)'
    BY <1>1, <1>4, DeliverCounts
  <2> QED BY <2>7, <2>8, <2>9 DEF WireOK
<1>7. ASSUME NEW ops
      PROVE  /\ Cardinality(Unserved(ops)) \in Nat
             /\ Cardinality(Unserved(ops)') \in Nat
             /\ Cardinality(Unserved(ops)') =
                  Cardinality(Unserved(ops))
                    - IF r.op \in ops /\ r.answer = Pending THEN 1 ELSE 0
  <2>1. Cardinality(Unserved(ops)') =
          Cardinality(Unserved(ops)) - IF r \in Unserved(ops) THEN 1 ELSE 0
    BY <1>1, <1>4, DeliverCounts
  <2>2. r \in Unserved(ops) <=> r.op \in ops /\ r.answer = Pending
    BY DEF Unserved
  <2>3. Cardinality(Unserved(ops)) \in Nat
    BY <1>1, UnservedFinite
  <2>4. Cardinality(Unserved(ops)') \in Nat
    <3>1. Unserved(ops)' = Unserved(ops) \ {r}
      BY <1>1, <1>4, DeliverCounts
    <3> QED BY <1>1, <3>1, UnservedFinite, OneLess
  <2> QED BY <2>1, <2>2, <2>3, <2>4
<1>8. CountsAreClicks'
  <2> DEFINE c == Cardinality(Unserved(Op))
             d == Cardinality(Unserved(Op)')
             one == IF r.answer = Pending THEN 1 ELSE 0
  <2>1. c \in Nat /\ d \in Nat /\ d = c - one
    BY <1>1, <1>7 DEF RequestOK
  <2>2. one \in Nat
    OBVIOUS
  <2>3. \A i \in 1 .. Len(rs) : rs[i].txCount \in Nat
    BY <1>3, RowCount DEF RowsGrow
  <2>4. \A i \in 1 .. Len(rs') : rs'[i].txCount \in Nat
    BY <1>3, RowCount DEF RowsGrow
  <2>5. \A i \in 1 .. Len(rs') : StartCount(i) \in Nat
    BY DemoAssumption, RowCount DEF StartCount
  <2>6. \A i \in 1 .. Len(rs) : rs'[i].txCount <= rs[i].txCount + one
    BY DEF Handled
  <2>7. Len(rs) <= Len(rs') /\ Len(rs') <= Len(rs) + 1
    BY <1>3 DEF Handled
  <2>8. Len(rs') = Len(rs) + 1 => rs'[Len(rs) + 1].txCount = 0
    BY <1>3 DEF Handled
  <2>9. c <= clicks /\ \A i \in 1 .. Len(rs) : rs[i].txCount + c <= StartCount(i) + clicks
    BY DEF PInv, CountsAreClicks
  <2> HIDE DEF c, d, one
  <2>10. d <= clicks
    BY <1>2, <2>1, <2>2, <2>9
  <2>11. ASSUME NEW i \in 1 .. Len(rs') PROVE rs'[i].txCount + d <= StartCount(i) + clicks
    <3>1. CASE i \in 1 .. Len(rs)
      <4>1. rs'[i].txCount <= rs[i].txCount + one
        BY <2>6, <3>1
      <4>2. rs[i].txCount + c <= StartCount(i) + clicks
        BY <2>9, <3>1
      <4>3. rs[i].txCount \in Nat /\ rs'[i].txCount \in Nat /\ StartCount(i) \in Nat
        BY <2>3, <2>4, <2>5, <3>1
      <4> DEFINE x == rs[i].txCount
                 y == rs'[i].txCount
                 z == StartCount(i)
      <4>4. x \in Nat /\ y \in Nat /\ z \in Nat /\ y <= x + one /\ x + c <= z + clicks
        BY <4>1, <4>2, <4>3
      <4> HIDE DEF x, y, z
      <4>5. y + d <= z + clicks
        BY <1>2, <2>1, <2>2, <4>4
      <4> QED BY <4>5 DEF x, y, z
    <3>2. CASE i \notin 1 .. Len(rs)
      <4>1. i = Len(rs) + 1 /\ rs'[i].txCount = 0
        BY <1>3, <2>7, <2>8, <3>2
      <4> QED BY <1>2, <2>1, <2>5, <2>10, <4>1
    <3> QED BY <3>1, <3>2
  <2> QED BY <1>2, <2>10, <2>11 DEF CountsAreClicks, StartCount, d
<1>9. RowsAreConfirms'
  <2> DEFINE c == Cardinality(Unserved({"confirm"}))
             d == Cardinality(Unserved({"confirm"})')
  <2>1. /\ c \in Nat /\ d \in Nat
        /\ d = c - IF r.op = "confirm" /\ r.answer = Pending THEN 1 ELSE 0
    BY <1>7
  <2>2. Len(DemoRows) \in Nat
    BY DemoAssumption
  <2>3. Len(DemoRows) <= Len(rs) /\ Len(rs) - Len(DemoRows) + c <= confirmClicks
    BY DEF PInv, RowsAreConfirms
  <2>4. \A i \in 1 .. Len(rs) : rs'[i].contractID = rs[i].contractID
    BY <1>3 DEF RowsGrow
  <2>5. \A i \in Len(DemoRows) + 1 .. Len(rs) : rs[i].contractID = UndefinedText
    BY DEF PInv, RowsAreConfirms
  <2> HIDE DEF c, d
  <2>6. CASE Len(rs') = Len(rs)
    <3>1. \A i \in Len(DemoRows) + 1 .. Len(rs') : rs'[i].contractID = UndefinedText
      BY <1>3, <2>2, <2>4, <2>5, <2>6
    <3>2. Len(rs') - Len(DemoRows) + d <= confirmClicks
      BY <1>2, <1>3, <2>1, <2>2, <2>3, <2>6
    <3> QED BY <1>2, <2>3, <2>6, <3>1, <3>2 DEF RowsAreConfirms, d
  <2>7. CASE Len(rs') # Len(rs)
    <3>1. /\ r.op = "confirm" /\ r.answer = Pending
          /\ Len(rs') = Len(rs) + 1
          /\ rs'[Len(rs) + 1].contractID = UndefinedText
      BY <2>7 DEF Handled
    <3>2. \A i \in Len(DemoRows) + 1 .. Len(rs') : rs'[i].contractID = UndefinedText
      BY <1>3, <2>2, <2>4, <2>5, <3>1
    <3>3. Len(rs') - Len(DemoRows) + d <= confirmClicks
      BY <1>2, <1>3, <2>1, <2>2, <2>3, <3>1
    <3>4. Len(DemoRows) <= Len(rs')
      BY <1>3, <2>2, <2>3, <3>1
    <3> QED BY <1>2, <3>2, <3>3, <3>4 DEF RowsAreConfirms, d
  <2> QED BY <2>6, <2>7
<1>10. ShownIsPast'
  BY <1>3, ShownStaysPast DEF PInv, PageOK, Handled
<1> QED BY <1>5, <1>6, <1>8, <1>9, <1>10 DEF PInv

(* A step that leaves the list alone is no loss to anybody. *)
LEMMA SameRows ==
  ASSUME rs \in Seq(Row), rs' = rs
  PROVE  RowsGrow /\ \A i \in 1 .. Len(rs) : rs'[i].txCount = rs[i].txCount
                                             /\ rs[i].txCount \in Nat
BY RowCount DEF RowsGrow

(* A run that is still unserved finds its counter below the last value. *)
LEMMA RoomToCount ==
  ASSUME PInv, NEW r \in Unserved(Op), NEW i \in 1 .. Len(rs)
  PROVE  rs[i].txCount \in Nat /\ rs[i].txCount + 1 < TxMod
<1> DEFINE c == Cardinality(Unserved(Op))
           x == rs[i].txCount
           z == StartCount(i)
<1>1. IsFiniteSet(Unserved(Op)) /\ c \in Nat
  BY UnservedFinite DEF PInv, WireOK
<1>2. c # 0
  BY <1>1, FS_EmptySet
<1>3. x + c <= z + clicks /\ clicks \in Nat /\ clicks <= MaxClicks /\ MaxClicks \in Nat
  BY PageAssumption DEF PInv, CountsAreClicks, PageOK
<1>4. x \in Nat
  BY RowCount DEF PInv, Inv, TypeOK
<1>5. z \in Nat /\ z + MaxClicks < TxMod /\ TxMod \in Nat
  <2>1. CASE i <= Len(DemoRows)
    BY <2>1, DemoAssumption, RowCount, NoWrapAssumption, TxModAssumption DEF StartCount
  <2>2. CASE ~(i <= Len(DemoRows))
    BY <1>3, <2>2, NoWrapAssumption, TxModAssumption DEF StartCount
  <2> QED BY <2>1, <2>2
<1> HIDE DEF c, x, z
<1>6. x + 1 < TxMod
  BY <1>1, <1>2, <1>3, <1>4, <1>5
<1> QED BY <1>4, <1>6 DEF x

(* The server's handlers handle requests. *)
LEMMA ServeIsHandled ==
  ASSUME PInv, NEW r \in wire, Serve(r)
  PROVE  \E answer : Handled(r, answer)
<1>1. rs \in Seq(Row) /\ Len(rs) \in Nat /\ TypeOK /\ RequestOK(r) /\ r.answer = Pending
  BY DEF PInv, Inv, TypeOK, WireOK, Serve
<1>2. UNCHANGED <<confirming, contractAddress, shown, clicks, confirmClicks>>
  BY DEF Serve
<1>3. ASSUME NEW x PROVE /\ [r EXCEPT !.answer = x].op = r.op
                         /\ [r EXCEPT !.answer = x].addr = r.addr
                         /\ [r EXCEPT !.answer = x].answer = x
  BY <1>1 DEF RequestOK
<1>4. CASE ServeValidate(r)
  <2>1. PICK a \in Issuable : /\ validateTrustContract(a)
                              /\ Deliver(r, Answer([address |-> a]))
    BY <1>4 DEF ServeValidate
  <2>2. rs' = rs
    BY <2>1 DEF validateTrustContract
  <2> DEFINE x == Answer([address |-> a])
             q == [r EXCEPT !.answer = x]
  <2>3. AnswerOK(q)'
    <3>1. q.op = "validate" /\ q.answer = x
      BY <1>3, <1>4 DEF ServeValidate
    <3>2. x.data.address = a
      BY DEF Answer
    <3> HIDE DEF q
    <3> QED BY <3>1, <3>2 DEF AnswerOK
  <2>4. x # Pending
    BY AnswersDiffer
  <2> HIDE DEF x
  <2>5. Handled(r, x)
    BY <1>1, <1>2, <2>1, <2>2, <2>3, <2>4, SameRows DEF Handled, x
  <2> QED BY <2>5
<1>5. CASE ServeConfirm(r)
  <2>1. PICK t \in Title : /\ confirmedTrustContract(r.addr, t)
                           /\ Deliver(r, Answer([title |-> t]))
    BY <1>5 DEF ServeConfirm
  <2>2. r.op = "confirm" /\ r.addr = UndefinedText /\ r.addr \in Address
    BY <1>1, <1>5 DEF ServeConfirm, RequestOK
  <2>3. /\ rs' \in Seq(Row)
        /\ Len(rs') = Len(rs) + 1
        /\ \A i \in 1 .. Len(rs) : rs'[i] = rs[i]
        /\ rs'[Len(rs) + 1] = NewRow(rs, r.addr, t)
    BY <1>1, <2>1, <2>2, ConfirmStep
  <2>4. rs'[Len(rs) + 1].txCount = 0 /\ rs'[Len(rs) + 1].contractID = UndefinedText
    BY <2>2, <2>3 DEF NewRow
  <2>5. \A i \in 1 .. Len(rs) : rs[i].txCount \in Nat
    BY <1>1, RowCount
  <2>6. RowsGrow
    BY <1>1, <2>3, <2>5 DEF RowsGrow
  <2>7. \A i \in 1 .. Len(rs) : rs'[i].txCount <= rs[i].txCount + 1
    BY <2>3, <2>5
  <2> DEFINE x == Answer([title |-> t])
             q == [r EXCEPT !.answer = x]
  <2>8. AnswerOK(q)'
    <3>1. q.op = "confirm" /\ q.answer = x
      BY <1>3, <2>2
    <3>2. x.data.title = t
      BY DEF Answer
    <3> HIDE DEF q
    <3> QED BY <3>1, <3>2 DEF AnswerOK
  <2>9. x # Pending
    BY AnswersDiffer
  <2> HIDE DEF x
  <2>10. Handled(r, x)
    BY <1>1, <1>2, <2>1, <2>2, <2>3, <2>4, <2>6, <2>7, <2>8, <2>9 DEF Handled, x
  <2> QED BY <2>10
<1>6. CASE ServeRun(r)
  <2>1. /\ r.op = "run" /\ r.addr \in Address
        /\ runTrustContract(r.addr) /\ Deliver(r, Answer([txID |-> r.addr]))
    BY <1>1, <1>6 DEF ServeRun, RequestOK
  <2>2. /\ RowsGrow /\ Len(rs') = Len(rs)
        /\ \A i \in 1 .. Len(rs) : rs'[i].txCount <= rs[i].txCount + 1
    <3>1. CASE rs' = rs
      BY <1>1, <3>1, SameRows
    <3>2. CASE rs' # rs
      <4> DEFINE ca == confirmAddress(rs, r.addr)
      <4>1. /\ ca \in 1 .. Len(rs)
            /\ rs' \in Seq(Row)
            /\ Len(rs') = Len(rs)
            /\ rs'[ca] = [rs[ca] EXCEPT !.txCount = (@ + 1) % TxMod]
            /\ \A i \in 1 .. Len(rs) : i # ca => rs'[i] = rs[i]
        BY <1>1, <2>1, <3>2, RunStep
      <4> HIDE DEF ca
      <4>2. rs[ca].txCount \in Nat /\ rs[ca].txCount + 1 < TxMod
        BY <1>1, <4>1, RoomToCount DEF Unserved, RequestOK
      <4>3. (rs[ca].txCount + 1) % TxMod = rs[ca].txCount + 1
        BY <4>2, TxModAssumption
      <4>4. rs[ca] \in Row
        BY <1>1, <4>1
      <4>5. /\ rs'[ca].txCount = rs[ca].txCount + 1
            /\ rs'[ca].contractID = rs[ca].contractID
        BY <4>1, <4>3, <4>4 DEF Row
      <4>6. \A i \in 1 .. Len(rs) : rs[i].txCount \in Nat
        BY <1>1, RowCount
      <4>7. ASSUME NEW i \in 1 .. Len(rs)
            PROVE  /\ rs'[i].contractID = rs[i].contractID
                   /\ rs[i].txCount <= rs'[i].txCount
                   /\ rs'[i].txCount <= rs[i].txCount + 1
        <5>1. CASE i = ca
          BY <4>2, <4>5, <5>1
        <5>2. CASE i # ca
          <6>1. rs'[i] = rs[i] /\ rs[i].txCount \in Nat
            BY <4>1, <4>6, <5>2
          <6> QED BY <6>1
        <5> QED BY <5>1, <5>2
      <4>8. RowsGrow
        BY <1>1, <4>1, <4>7 DEF RowsGrow
      <4> QED BY <4>1, <4>7, <4>8
    <3> QED BY <3>1, <3>2
  <2> DEFINE x == Answer([txID |-> r.addr])
             q == [r EXCEPT !.answer = x]
  <2>3. AnswerOK(q)'
    <3>1. q.op = "run" /\ q.answer = x /\ q.addr = r.addr
      BY <1>3, <2>1
    <3> HIDE DEF q
    <3> QED BY <3>1 DEF AnswerOK
  <2>4. x # Pending
    BY AnswersDiffer
  <2> HIDE DEF x
  <2>5. Handled(r, x)
    BY <1>1, <1>2, <2>1, <2>2, <2>3, <2>4 DEF Handled, x
  <2> QED BY <2>5
<1>7. CASE ServeList(r)
  <2>1. PICK rows : rows = rs
    OBVIOUS
  <2>2. r.op = "list" /\ rs' = rs /\ Deliver(r, Answer([rows |-> rows]))
    BY <1>7, <2>1 DEF ServeList, vars
  <2>3. PastList(rows)'
    BY <1>1, <2>1, <2>2, RowCount DEF PastList, PInv, Inv, NumberedInOrder
  <2> DEFINE x == Answer([rows |-> rows])
             q == [r EXCEPT !.answer = x]
  <2>4. AnswerOK(q)'
    <3>1. q.op = "list" /\ q.answer = x
      BY <1>3, <2>2
    <3>2. x.data.rows = rows
      BY DEF Answer
    <3> HIDE DEF q
    <3> QED BY <2>3, <3>1, <3>2 DEF AnswerOK
  <2>5. x # Pending
    BY AnswersDiffer
  <2> HIDE DEF x
  <2>6. Handled(r, x)
    BY <1>1, <1>2, <2>2, <2>4, <2>5, SameRows DEF Handled, x
  <2> QED BY <2>6
<1> QED BY <1>4, <1>5, <1>6, <1>7 DEF Serve

(* So does the network that loses one. *)
LEMMA LoseIsHandled ==
  ASSUME PInv, NEW r \in wire, Lose(r)
  PROVE  Handled(r, Failed)
<1>1. /\ Deliver(r, Failed) /\ rs' = rs
      /\ UNCHANGED <<confirming, contractAddress, shown, clicks, confirmClicks>>
  BY DEF Lose, vars
<1>2. rs \in Seq(Row) /\ RequestOK(r)
  BY DEF PInv, Inv, TypeOK, WireOK
<1>3. AnswerOK([r EXCEPT !.answer = Failed])'
  BY <1>2 DEF AnswerOK, RequestOK
<1>4. RowsGrow /\ \A i \in 1 .. Len(rs) : rs'[i].txCount = rs[i].txCount
                                          /\ rs[i].txCount \in Nat
  BY <1>1, <1>2, SameRows
<1>5. Failed # Pending
  BY AnswersDiffer
<1> QED BY <1>1, <1>3, <1>4, <1>5 DEF Handled

------------------------------------------------------------------------------
(* The pages' callbacks. *)

(* No callback finds the field it looks for, and a list that arrives is    *)
(* one the server had.                                                     *)
LEMMA CallbackInv ==
  ASSUME PInv, NEW r \in wire, Callback(r)
  PROVE  PInv'
<1>1. /\ RequestOK(r) /\ IsFiniteSet(wire) /\ rs \in Seq(Row) /\ r.page \in Page
      /\ clicks \in Nat
  BY DEF PInv, WireOK, Inv, TypeOK, RequestOK, PageOK
<1>2. /\ Answered(r) /\ r.answer # Pending /\ wire' = wire \ {r}
      /\ UNCHANGED <<rs, offered, confirming, clicks, confirmClicks>>
  BY DEF Callback, Answered, vars
<1>3. RowsGrow
  BY <1>1, <1>2, SameRows
<1>4. Inv'
  BY <1>2 DEF PInv, Inv, TypeOK, NumberedInOrder, ShadowedRowsIdle
<1>5. WireOK'
  <2>1. IsFiniteSet(wire)'
    BY <1>1, <1>2, AnsweredCounts
  <2>2. \A x \in wire' : RequestOK(x)'
    BY <1>1, <1>2, <1>3, RequestStaysOK DEF PInv, WireOK
  <2> QED BY <1>2, <2>1, <2>2 DEF PInv, WireOK
<1>6. \A ops : Unserved(ops)' = Unserved(ops)
  BY <1>1, <1>2, AnsweredCounts
<1>7. CountsAreClicks'
  BY <1>2, <1>6 DEF PInv, CountsAreClicks, StartCount
<1>8. RowsAreConfirms'
  BY <1>2, <1>6 DEF PInv, RowsAreConfirms
<1>9. contractAddress' = contractAddress
  <2>1. CASE OnValidated(r)
    <3>1. r.op = "validate" /\ contractAddress' =
            [contractAddress EXCEPT ![r.page] = JsField(r.answer, "contractAddress")]
      BY <2>1 DEF OnValidated
    <3>2. JsField(r.answer, "contractAddress") = UndefinedText
      <4>1. CASE r.answer = Failed
        BY <4>1, AnswersDiffer DEF JsField
      <4>2. CASE r.answer = Answer([address |-> r.answer.data.address])
        <5>1. r.answer.data = [address |-> r.answer.data.address]
          BY <4>2, AnswersDiffer
        <5>2. "contractAddress" \notin DOMAIN r.answer.data
          BY <5>1
        <5> QED BY <5>2 DEF JsField
      <4> QED BY <1>1, <1>2, <3>1, <4>1, <4>2 DEF RequestOK, AnswerOK
    <3>3. contractAddress[r.page] = UndefinedText /\ contractAddress \in [Page -> {UndefinedText}]
      BY <1>1 DEF PInv, PageOK
    <3> QED BY <1>1, <3>1, <3>2, <3>3
  <2>2. CASE OnList(r) \/ OnText(r)
    BY <2>2 DEF OnList, OnText
  <2> QED BY <2>1, <2>2 DEF Callback
<1>10. shown' \in [Page -> Seq(Row)] /\ ShownIsPast'
  <2>1. CASE shown' = shown
    <3>1. ShownIsPast'
      BY <1>3, <2>1, ShownStaysPast DEF PInv, PageOK
    <3> QED BY <2>1, <3>1 DEF PInv, PageOK
  <2>2. CASE shown' # shown
    <3> DEFINE rows == r.answer.data.rows
    <3>1. /\ OnList(r) /\ r.op = "list" /\ r.answer.state = "done"
          /\ shown' = [shown EXCEPT ![r.page] = Reverse(rows)]
      BY <2>2 DEF Callback, OnValidated, OnList, OnText
    <3>2. PastList(rows)
      BY <1>1, <3>1, AnswersDiffer DEF RequestOK, AnswerOK
    <3> HIDE DEF rows
    <3>3. rows \in Seq(Row) /\ Len(rows) \in Nat /\ Len(rs) \in Nat /\ Len(rows) <= Len(rs)
      BY <1>1, <3>2 DEF PastList
    <3>4. /\ Reverse(rows) \in Seq(Row)
          /\ Len(Reverse(rows)) = Len(rows)
          /\ \A k \in 1 .. Len(rows) : Reverse(rows)[k] = rows[Len(rows) + 1 - k]
      BY <3>3, ReverseRows
    <3>5. shown \in [Page -> Seq(Row)]
      BY DEF PInv, PageOK
    <3>6. shown' \in [Page -> Seq(Row)]
      BY <1>1, <3>1, <3>4, <3>5
    <3>7. shown'[r.page] = Reverse(rows) /\ \A p \in Page : p # r.page => shown'[p] = shown[p]
      BY <1>1, <3>1, <3>5
    <3>8. ASSUME NEW p \in Page, NEW k \in 1 .. Len(shown'[p])
          PROVE  LET i == Len(shown'[p]) + 1 - k IN
                 /\ i <= Len(rs)
                 /\ shown'[p][k].no = i
                 /\ shown'[p][k].contractID = rs[i].contractID
                 /\ shown'[p][k].txCount <= rs[i].txCount
      <4>1. CASE p = r.page
        <5>1. Len(shown'[p]) = Len(rows) /\ k \in 1 .. Len(rows)
          BY <3>4, <3>7, <4>1
        <5>2. PICK i : i = Len(rows) + 1 - k
          OBVIOUS
        <5>3. i \in 1 .. Len(rows) /\ shown'[p][k] = rows[i]
          BY <3>3, <3>4, <3>7, <4>1, <5>1, <5>2
        <5>4. /\ rows[i].no = i /\ rows[i].contractID = rs[i].contractID
              /\ rows[i].txCount <= rs[i].txCount
          BY <3>2, <5>3 DEF PastList
        <5>5. i <= Len(rs)
          BY <3>3, <5>3
        <5> QED BY <5>1, <5>2, <5>3, <5>4, <5>5
      <4>2. CASE p # r.page
        BY <3>7, <4>2 DEF PInv, ShownIsPast
      <4> QED BY <4>1, <4>2
    <3>9. ShownIsPast'
      BY <1>2, <3>8 DEF ShownIsPast
    <3> QED BY <3>6, <3>9
  <2> QED BY <2>1, <2>2
<1>11. PageOK'
  BY <1>2, <1>9, <1>10 DEF PInv, PageOK
<1> QED BY <1>4, <1>5, <1>7, <1>8, <1>10, <1>11 DEF PInv

------------------------------------------------------------------------------
(* The composition. *)

(* What happens in pages and network, the registry sees as one of its      *)
(* operations or not at all.                                               *)
LEMMA PageStepIsRegistryStep ==
  ASSUME PInv, [PageNext]_allVars
  PROVE  [Next]_vars
<1>1. CASE UNCHANGED allVars
  BY <1>1 DEF allVars
<1>2. ASSUME NEW p \in Page, ClickSubmit(p) \/ OpenList(p) PROVE UNCHANGED vars
  BY <1>2 DEF ClickSubmit, OpenList, vars
<1>3. ASSUME NEW p \in Page, NEW a \in Address, ClickRun(p, a) PROVE UNCHANGED vars
  BY <1>3 DEF ClickRun, vars
<1>4. ASSUME NEW r \in wire, Serve(r) PROVE [Next]_vars
  <2>1. r.addr \in Address
    BY DEF PInv, WireOK, RequestOK
  <2>2. CASE ServeValidate(r)
    BY <2>2 DEF ServeValidate, Next
  <2>3. CASE ServeConfirm(r)
    BY <2>1, <2>3 DEF ServeConfirm, Next
  <2>4. CASE ServeRun(r)
    BY <2>1, <2>4 DEF ServeRun, Next
  <2>5. CASE ServeList(r)
    BY <2>5 DEF ServeList
  <2> QED BY <1>4, <2>2, <2>3, <2>4, <2>5 DEF Serve
<1>5. ASSUME NEW r \in wire, Lose(r) \/ Callback(r) PROVE UNCHANGED vars
  BY <1>5 DEF Lose, Callback, vars
<1> QED BY <1>1, <1>2, <1>3, <1>4, <1>5 DEF PageNext

(* Every step preserves the invariant. *)
LEMMA PageNextInv == PInv /\ [PageNext]_allVars => PInv'
<1> SUFFICES ASSUME PInv, [PageNext]_allVars PROVE PInv'
  OBVIOUS
<1>1. Inv'
  BY PageStepIsRegistryStep, NextInv DEF PInv
<1>2. CASE UNCHANGED allVars
  <2>1. UNCHANGED <<rs, offered, confirming, contractAddress, shown, wire, clicks, confirmClicks>>
    BY <1>2 DEF allVars, vars, pageVars
  <2>2. PageOK' /\ ShownIsPast'
    BY <2>1 DEF PInv, PageOK, ShownIsPast
  <2>3. WireOK'
    BY <2>1 DEF PInv, WireOK, RequestOK, AnswerOK, PastList
  <2>4. CountsAreClicks' /\ RowsAreConfirms'
    BY <2>1 DEF PInv, CountsAreClicks, RowsAreConfirms, Unserved, StartCount
  <2> QED BY <1>1, <2>2, <2>3, <2>4 DEF PInv
<1>3. ASSUME NEW p \in Page,
             ClickSubmit(p) \/ OpenList(p) \/ \E a \in Address : ClickRun(p, a)
      PROVE  PInv'
  BY <1>3, ClickIsClicked, ClickInv DEF PInv
<1>4. ASSUME NEW r \in wire, Serve(r) PROVE PInv'
  BY <1>1, <1>4, ServeIsHandled, HandledInv
<1>5. ASSUME NEW r \in wire, Lose(r) PROVE PInv'
  BY <1>1, <1>5, LoseIsHandled, HandledInv
<1>6. ASSUME NEW r \in wire, Callback(r) PROVE PInv'
  BY <1>6, CallbackInv
<1> QED BY <1>2, <1>3, <1>4, <1>5, <1>6 DEF PageNext

LEMMA PInvHolds == PageSpec => []PInv
BY PageInitInv, PageNextInv, PTL DEF PageSpec

------------------------------------------------------------------------------
(* Lists that overtake each other. *)

(* When the lists on screen came, and what the next ones bring. *)
ListInv == shownAt \in [Page -> 0 .. clicks] /\ ListMovesOn

(* A list that is on its way stays as new as it is while the screen is the *)
(* same; a list that the server sends now is newer than any screen.        *)
LEMMA ScreenStays ==
  ASSUME PInv, ListInv, UNCHANGED <<shown, shownAt>>, clicks' \in Nat, clicks <= clicks',
         \A q \in wire' : ListComes(q) => q \in wire \/ (q.page \in Page /\ q.answer.data.rows = rs)
  PROVE  ListInv'
<1>1. shownAt' \in [Page -> 0 .. clicks']
  <2>1. clicks \in Nat
    BY PageAssumption DEF PInv, PageOK
  <2>2. 0 .. clicks \subseteq 0 .. clicks'
    BY <2>1
  <2> QED BY <2>2 DEF ListInv
<1>2. ASSUME NEW q \in wire', ListComes(q), shownAt[q.page] < q.id
      PROVE  Covers(q.page, q.answer.data.rows)
  <2>1. CASE q \in wire
    BY <1>2, <2>1 DEF ListInv, ListMovesOn
  <2>2. CASE q.page \in Page /\ q.answer.data.rows = rs
    <3>1. Covers(q.page, rs)
      BY <2>2 DEF PInv, ShownIsPast, Covers
    <3> QED BY <2>2, <3>1
  <2> QED BY <1>2, <2>1, <2>2
<1>3. ASSUME NEW q \in wire', ListComes(q), shownAt'[q.page] < q.id
      PROVE  LET p == q.page
                 rows == q.answer.data.rows
             IN  \A k \in 1 .. Len(shown'[p]) :
                   LET m == Len(shown'[p]) + 1 - k IN
                   /\ m <= Len(rows)
                   /\ shown'[p][k].contractID = rows[m].contractID
                   /\ shown'[p][k].txCount <= rows[m].txCount
  BY <1>2, <1>3 DEF Covers
<1> QED BY <1>1, <1>3 DEF ListInv, ListMovesOn, ListComes, Covers

(* The record of a request with another answer. *)
LEMMA Answering ==
  ASSUME NEW r, RequestOK(r), NEW x
  PROVE  /\ [r EXCEPT !.answer = x].op = r.op /\ [r EXCEPT !.answer = x].page = r.page
         /\ [r EXCEPT !.answer = x].answer = x
BY DEF RequestOK

(* Clicks, the server and the network leave the screen alone. *)
LEMMA ListServed ==
  ASSUME PInv, ListInv, NEW r \in wire, Serve(r) \/ Lose(r)
  PROVE  ListInv'
<1>1. RequestOK(r) /\ clicks \in Nat /\ r.page \in Page
  BY PageAssumption DEF PInv, PageOK, WireOK, RequestOK
<1>2. UNCHANGED <<shown, shownAt, clicks>>
  BY DEF Serve, Lose
<1>3. ASSUME NEW x, Deliver(r, x), x.state = "done" /\ r.op = "list" => x.data.rows = rs
      PROVE  ListInv'
  <2>1. \A q \in wire' : q \in wire \/ q = [r EXCEPT !.answer = x]
    BY <1>3 DEF Deliver
  <2>2. \A q \in wire' : ListComes(q) => q \in wire \/ (q.page \in Page /\ q.answer.data.rows = rs)
    <3>1. SUFFICES ASSUME NEW q \in wire', ListComes(q), q = [r EXCEPT !.answer = x]
                   PROVE  q.page \in Page /\ q.answer.data.rows = rs
      BY <2>1
    <3>2. q.op = r.op /\ q.page = r.page /\ q.answer = x
      BY <1>1, <3>1, Answering
    <3>3. x.state = "done" /\ r.op = "list"
      BY <3>1, <3>2 DEF ListComes
    <3>4. x.data.rows = rs
      BY <1>3, <3>3
    <3> QED BY <1>1, <3>2, <3>4
  <2> QED BY <1>1, <1>2, <2>2, ScreenStays
<1>4. CASE ServeList(r)
  <2>1. Deliver(r, Answer([rows |-> rs]))
    BY <1>4 DEF ServeList
  <2>2. Answer([rows |-> rs]).data.rows = rs
    BY DEF Answer
  <2> QED BY <1>3, <2>1, <2>2
<1>5. CASE ServeValidate(r) \/ ServeConfirm(r) \/ ServeRun(r)
  <2>1. r.op # "list" /\ \E x : Deliver(r, x)
    BY <1>5 DEF ServeValidate, ServeConfirm, ServeRun
  <2> QED BY <1>3, <2>1
<1>6. CASE Lose(r)
  <2>1. Failed.state # "done" /\ Deliver(r, Failed)
    BY <1>6 DEF Lose, Failed
  <2> QED BY <1>3, <2>1
<1> QED BY <1>4, <1>5, <1>6 DEF Serve

LEMMA ListClicked ==
  ASSUME PInv, ListInv, NEW p \in Page,
         ClickSubmit(p) \/ OpenList(p) \/ \E a \in Address : ClickRun(p, a)
  PROVE  ListInv'
<1>1. clicks \in Nat
  BY PageAssumption DEF PInv, PageOK
<1>2. UNCHANGED <<shown, shownAt>> /\ \E op, a : Send(p, op, a)
  BY DEF ClickSubmit, OpenList, ClickRun
<1>3. PICK op, a : Send(p, op, a)
  BY <1>2
<1>4. \A q \in wire' : q \in wire \/ q.answer = Pending
  BY <1>3 DEF Send
<1>5. \A q \in wire' : ListComes(q) => q \in wire
  BY <1>4, AnswersDiffer DEF ListComes
<1>6. clicks' = clicks + 1
  BY <1>3 DEF Send
<1> QED BY <1>1, <1>2, <1>5, <1>6, ScreenStays

(* A list that comes is the newest of those asked for so far. *)
LEMMA ListCallback ==
  ASSUME PInv, ListInv, NEW r \in wire, Callback(r)
  PROVE  ListInv'
<1>1. /\ wire' = wire \ {r} /\ UNCHANGED clicks /\ clicks \in Nat
      /\ r.page \in Page
  BY PageAssumption DEF Callback, Answered, PInv, PageOK, WireOK, RequestOK
<1>2. CASE UNCHANGED <<shown, shownAt>>
  BY <1>1, <1>2, ScreenStays
<1>3. CASE ~UNCHANGED <<shown, shownAt>>
  <2> DEFINE new == Reverse(r.answer.data.rows)
  <2>1. /\ shown' = [shown EXCEPT ![r.page] = new]
        /\ shownAt' = [shownAt EXCEPT ![r.page] = clicks]
    BY <1>3 DEF Callback, OnValidated, OnList, OnText
  <2> HIDE DEF new
  <2>2. shown \in [Page -> Seq(Row)] /\ shownAt \in [Page -> 0 .. clicks]
    BY DEF PInv, PageOK, ListInv
  <2>3. shownAt' \in [Page -> 0 .. clicks']
    BY <1>1, <2>1, <2>2
  <2>4. ASSUME NEW q \in wire', ListComes(q), shownAt'[q.page] < q.id
        PROVE  LET p == q.page
                   rows == q.answer.data.rows
               IN  \A k \in 1 .. Len(shown'[p]) :
                     LET m == Len(shown'[p]) + 1 - k IN
                     /\ m <= Len(rows)
                     /\ shown'[p][k].contractID = rows[m].contractID
                     /\ shown'[p][k].txCount <= rows[m].txCount
    <3>1. q \in wire /\ q.id \in 1 .. clicks /\ q.page \in Page
      BY <1>1 DEF PInv, WireOK, RequestOK
    <3>2. q.page # r.page
      BY <1>1, <2>1, <2>2, <2>4, <3>1
    <3>3. shown'[q.page] = shown[q.page] /\ shownAt'[q.page] = shownAt[q.page]
      BY <2>1, <2>2, <3>1, <3>2
    <3>4. Covers(q.page, q.answer.data.rows)
      BY <2>4, <3>1, <3>3 DEF ListInv, ListMovesOn
    <3> QED BY <3>3, <3>4 DEF Covers
  <2> QED BY <2>3, <2>4 DEF ListInv, ListMovesOn, ListComes, Covers
<1> QED BY <1>2, <1>3

LEMMA ListInvHolds == PageSpec => []ListInv
<1>1. PageInit => ListInv
  BY DEF PageInit, ListInv, ListMovesOn
<1>2. PInv /\ ListInv /\ [PageNext]_allVars => ListInv'
  <2> SUFFICES ASSUME PInv, ListInv, [PageNext]_allVars PROVE ListInv'
    OBVIOUS
  <2>1. CASE UNCHANGED allVars
    BY <2>1 DEF allVars, pageVars, ListInv, ListMovesOn, ListComes, Covers
  <2> QED BY <2>1, ListClicked, ListServed, ListCallback DEF PageNext
<1> QED BY <1>1, <1>2, PInvHolds, PTL DEF PageSpec

(* The list on screen goes back to an older one only when both were asked  *)
(* for before the first came (common.js:30), for any number of pages and   *)
(* clicks and any order and loss of answers.                               *)
THEOREM ListMovesOnHolds == PageSpec => []ListMovesOn
<1>1. ListInv => ListMovesOn
  BY DEF ListInv
<1> QED BY <1>1, ListInvHolds, PTL

------------------------------------------------------------------------------
(* Pages, network and registry keep their types, whatever order requests   *)
(* are served in and answers arrive in, and requests stay told apart.      *)
THEOREM PageTypeCorrect == PageSpec => []PageTypeOK
<1>1. PInv /\ ListInv => PageTypeOK
  <2> SUFFICES ASSUME PInv, ListInv PROVE PageTypeOK
    OBVIOUS
  <2>1. contractAddress \in [Page -> Address]
    BY PageAssumption DEF PInv, PageOK
  <2>2. /\ \A r \in wire : r.id \in 1 .. clicks /\ r.op \in Op /\ r.addr \in Address
        /\ \A r1, r2 \in wire : r1.id = r2.id => r1 = r2
    BY DEF PInv, WireOK, RequestOK
  <2> QED BY <2>1, <2>2 DEF PInv, Inv, PageOK, ListInv, PageTypeOK
<1> QED BY <1>1, PInvHolds, ListInvHolds, PTL

(* A click on Confirm makes at most one contract, and nothing else makes   *)
(* one (common.js:109, app.d:301), also when answers are lost.             *)
THEOREM OneRowPerConfirmHolds == PageSpec => []OneRowPerConfirm
<1>1. PInv => OneRowPerConfirm
  <2>1. {r \in wire : r.op = "confirm" /\ r.answer = Pending} = Unserved({"confirm"})
    BY DEF Unserved
  <2> QED BY <2>1 DEF PInv, RowsAreConfirms, OneRowPerConfirm
<1> QED BY <1>1, PInvHolds, PTL

(* The list on screen is one the server once had (common.js:30), for any   *)
(* number of pages and requests that overtake each other.                  *)
THEOREM ShownIsPastHolds == PageSpec => []ShownIsPast
<1>1. PInv => ShownIsPast
  BY DEF PInv
<1> QED BY <1>1, PInvHolds, PTL

(* Pages hold no address, and every contract made through one is           *)
(* registered under "undefined".                                           *)
MadeAsUndefined ==
  /\ \A p \in Page : contractAddress[p] = UndefinedText
  /\ \A i \in Len(DemoRows) + 1 .. Len(rs) : rs[i].contractID = UndefinedText

(* The page asks the answer to validate for a field it does not have       *)
(* (common.js:121; the server sends `address`), so whatever the server     *)
(* offers, no click can register it.                                       *)
THEOREM MadeAsUndefinedHolds == PageSpec => []MadeAsUndefined
<1>1. PInv => MadeAsUndefined
  BY DEF PInv, PageOK, RowsAreConfirms, MadeAsUndefined
<1> QED BY <1>1, PInvHolds, PTL

(* No contract made through a page has an address the server offered, if   *)
(* "undefined" is none that encodeWithPrefix("TRX", ..) can give: what     *)
(* ConfirmedWasOffered asks for fails at every confirm, not only at some.  *)
THEOREM MadeIsNeverOffered ==
  ASSUME UndefinedText \notin Issuable
  PROVE  PageSpec => [](\A i \in Len(DemoRows) + 1 .. Len(rs) : rs[i].contractID \notin offered)
<1>1. PInv => \A i \in Len(DemoRows) + 1 .. Len(rs) : rs[i].contractID \notin offered
  BY DEF PInv, Inv, TypeOK, RowsAreConfirms
<1> QED BY <1>1, PInvHolds, PTL

(* To the registry, pages and network are just clients: what is proved of  *)
(* it for all clients holds in the composition.                            *)
THEOREM PageIsClient == PageSpec => Spec
<1>1. PageInit => Init
  BY DEF PageInit
<1>2. PInv /\ [PageNext]_allVars => [Next]_vars
  BY PageStepIsRegistryStep
<1> QED BY <1>1, <1>2, PInvHolds, PTL DEF PageSpec, Spec

(* So the list behind the pages behaves as the map of ContractMap. *)
THEOREM PageImplementsMap == PageSpec => ImplementsContractMap
BY PageIsClient, RegistryImplementsMap, PTL
==============================================================================
