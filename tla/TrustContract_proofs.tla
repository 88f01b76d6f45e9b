------------------------- MODULE TrustContract_proofs -------------------------
(***************************************************************************)
(* Proofs about the trust contract registry, for every set of addresses    *)
(* and titles, every start-up list and every width of the counters.        *)
(***************************************************************************)
EXTENDS TrustContract, TLAPS, NaturalsInduction, WellFoundedInduction

(* confirmAddress (app.d:103) returns 0 exactly when no row has the        *)
(* address, and otherwise the least position that has it.                  *)
LEMMA FirstMatch ==
  ASSUME NEW rows \in Seq(Row), NEW a
  PROVE  LET ca == confirmAddress(rows, a) IN
         /\ ca \in 0 .. Len(rows)
         /\ ca = 0 <=> Positions(rows, a) = {}
         /\ ca # 0 => /\ ca \in Positions(rows, a)
                      /\ \A j \in Positions(rows, a) : ca <= j
<1> DEFINE P == Positions(rows, a)
           R == OpToRel(<, Nat)
<1>1. P \subseteq Nat /\ P \subseteq 1 .. Len(rows)
  BY DEF Positions
<1>2. ASSUME P # {} PROVE \E i \in P : \A j \in P : i <= j
  <2>1. IsWellFoundedOn(R, Nat)
    BY NatLessThanWellFounded
  <2>2. PICK i \in P : \A j \in P : ~(<<j, i>> \in R)
    <3> HIDE DEF P, R
    <3> QED BY <1>1, <1>2, <2>1, WFMin, Zenon
  <2>3. ASSUME NEW j \in P PROVE i <= j
    <3>1. i \in Nat /\ j \in Nat
      BY <1>1, <2>2
    <3>2. ~(j < i)
      BY <2>2, <3>1 DEF OpToRel
    <3> QED BY <3>1, <3>2
  <2> QED BY <2>3
<1>3. CASE P = {}
  BY <1>3 DEF confirmAddress
<1>4. CASE P # {}
  <2> DEFINE ca == CHOOSE i \in P : \A j \in P : i <= j
  <2>1. ca \in P /\ \A j \in P : ca <= j
    BY <1>2, <1>4
  <2>2. confirmAddress(rows, a) = ca
    BY <1>4 DEF confirmAddress
  <2> HIDE DEF ca
  <2> QED BY <1>1, <1>4, <2>1, <2>2
<1> QED BY <1>3, <1>4

(* Two lists with the same addresses at the same positions have the same   *)
(* first match: moving a counter does not move confirmAddress.             *)
LEMMA SameAddressesSameMatch ==
  ASSUME NEW r1 \in Seq(Row), NEW r2 \in Seq(Row), Len(r1) = Len(r2),
         \A i \in 1 .. Len(r1) : r1[i].contractID = r2[i].contractID,
         NEW a
  PROVE  confirmAddress(r1, a) = confirmAddress(r2, a)
<1>1. Positions(r1, a) = Positions(r2, a)
  BY DEF Positions
<1> QED BY <1>1 DEF confirmAddress

(* Growing the list changes the first match of an address only when the    *)
(* address had none and the new row has it.                                *)
LEMMA AppendMatch ==
  ASSUME NEW rows \in Seq(Row), NEW r \in Row, NEW a
  PROVE  confirmAddress(Append(rows, r), a) =
           IF confirmAddress(rows, a) # 0 THEN confirmAddress(rows, a)
           ELSE IF r.contractID = a THEN Len(rows) + 1 ELSE 0
<1> DEFINE new == Append(rows, r)
           c == confirmAddress(rows, a)
           d == confirmAddress(new, a)
<1>1. new \in Seq(Row) /\ Len(new) = Len(rows) + 1 /\ Len(rows) \in Nat
  OBVIOUS
<1>2. \A i \in 1 .. Len(rows) : new[i] = rows[i]
  OBVIOUS
<1>3. new[Len(rows) + 1] = r
  OBVIOUS
<1>4. /\ c \in 0 .. Len(rows)
      /\ c = 0 <=> Positions(rows, a) = {}
      /\ c # 0 => c \in Positions(rows, a) /\ \A j \in Positions(rows, a) : c <= j
  BY FirstMatch
<1>5. /\ d \in 0 .. Len(rows) + 1
      /\ d = 0 <=> Positions(new, a) = {}
      /\ d # 0 => d \in Positions(new, a) /\ \A j \in Positions(new, a) : d <= j
  <2> HIDE DEF new
  <2> QED BY FirstMatch, <1>1
<1>6. \A i : i \in Positions(new, a) <=>
               \/ i \in Positions(rows, a)
               \/ i = Len(rows) + 1 /\ r.contractID = a
  <2> HIDE DEF new
  <2> QED BY <1>1, <1>2, <1>3 DEF Positions
<1>7. \A i \in Positions(rows, a) : i \in Nat /\ i <= Len(rows)
  BY DEF Positions
<1> HIDE DEF c, d, new
<1>8. CASE c # 0
  <2>1. c \in Positions(new, a) /\ d # 0
    BY <1>4, <1>5, <1>6, <1>8
  <2>2. d <= c
    BY <2>1, <1>5
  <2>3. d \in Positions(rows, a)
    BY <2>1, <2>2, <1>1, <1>4, <1>5, <1>6
  <2> QED BY <2>2, <2>3, <1>4, <1>5, <1>8 DEF c, d, new
<1>9. CASE c = 0 /\ r.contractID = a
  BY <1>1, <1>4, <1>5, <1>6, <1>9 DEF c, d, new
<1>10. CASE c = 0 /\ r.contractID # a
  BY <1>1, <1>4, <1>5, <1>6, <1>10 DEF c, d, new
<1> QED BY <1>8, <1>9, <1>10

------------------------------------------------------------------------------

(* The inductive invariant of the registry. *)
Inv == TypeOK /\ NumberedInOrder /\ ShadowedRowsIdle

(* The start-up list satisfies the invariant. *)
LEMMA InitInv == Init => Inv
BY DemoAssumption
   DEF Init, Inv, TypeOK, NumberedInOrder, ShadowedRowsIdle, createReqTC, Row

(* What a confirm does to the list (app.d:301). *)
LEMMA ConfirmStep ==
  ASSUME TypeOK, NEW a \in Address, NEW t \in Title, confirmedTrustContract(a, t)
  PROVE  /\ NewRow(rs, a, t) \in Row
         /\ rs' \in Seq(Row)
         /\ rs' = Append(rs, NewRow(rs, a, t))
         /\ Len(rs') = Len(rs) + 1
         /\ \A i \in 1 .. Len(rs) : rs'[i] = rs[i]
         /\ rs'[Len(rs) + 1] = NewRow(rs, a, t)
<1>1. rs \in Seq(Row) /\ Len(rs) \in Nat
  BY DEF TypeOK
<1>2. NewRow(rs, a, t) \in Row
  BY <1>1, TxModAssumption DEF NewRow, Row
<1>3. rs' = Append(rs, NewRow(rs, a, t))
  BY DEF confirmedTrustContract
<1> QED BY <1>1, <1>2, <1>3

(* What a run does to the list (app.d:320): nothing, or one more           *)
(* transaction in the first row with the address.                          *)
LEMMA RunStep ==
  ASSUME TypeOK, NEW a \in Address, runTrustContract(a), rs' # rs
  PROVE  LET ca == confirmAddress(rs, a) IN
         /\ ca \in 1 .. Len(rs)
         /\ rs[ca].contractID = a
         /\ \A j \in 1 .. Len(rs) : rs[j].contractID = a => ca <= j
         /\ rs' \in Seq(Row)
         /\ Len(rs') = Len(rs)
         /\ rs'[ca] = [rs[ca] EXCEPT !.txCount = (@ + 1) % TxMod]
         /\ \A i \in 1 .. Len(rs) : i # ca => rs'[i] = rs[i]
<1> DEFINE ca == confirmAddress(rs, a)
           row == [rs[ca] EXCEPT !.txCount = (@ + 1) % TxMod]
<1>1. rs \in Seq(Row) /\ Len(rs) \in Nat
  BY DEF TypeOK
<1>2. ca # 0 /\ rs' = [rs EXCEPT ![ca].txCount = (@ + 1) % TxMod]
  BY DEF runTrustContract
<1>3. /\ ca \in 0 .. Len(rs)
      /\ ca \in Positions(rs, a) /\ \A j \in Positions(rs, a) : ca <= j
  BY <1>1, <1>2, FirstMatch
<1>4. /\ ca \in 1 .. Len(rs) /\ rs[ca].contractID = a
      /\ \A j \in 1 .. Len(rs) : rs[j].contractID = a => ca <= j
  BY <1>3 DEF Positions
<1> HIDE DEF ca
<1>5. rs[ca] \in Row
  BY <1>1, <1>4
<1>6. row \in Row
  <2>1. (rs[ca].txCount + 1) % TxMod \in 0 .. TxMod - 1
    BY <1>5, TxModAssumption DEF Row
  <2> QED BY <1>5, <2>1 DEF Row
<1>7. rs' = [rs EXCEPT ![ca] = row]
  BY <1>2
<1>8. rs' \in Seq(Row) /\ Len(rs') = Len(rs)
  BY <1>1, <1>4, <1>6, <1>7
<1>9. rs'[ca] = row /\ \A i \in 1 .. Len(rs) : i # ca => rs'[i] = rs[i]
  BY <1>1, <1>4, <1>7
<1> QED BY <1>4, <1>8, <1>9 DEF ca

(* Every step preserves the invariant. *)
LEMMA NextInv == Inv /\ [Next]_vars => Inv'
<1> SUFFICES ASSUME Inv, [Next]_vars PROVE Inv'
  OBVIOUS
<1> USE DEF Inv
<1>1. rs \in Seq(Row) /\ Len(rs) \in Nat /\ offered \subseteq Issuable
  BY DEF TypeOK
<1>2. CASE rs' = rs
  <2>1. offered' \subseteq Issuable
    BY <1>1 DEF Next, vars, validateTrustContract, confirmedTrustContract, runTrustContract
  <2> QED BY <1>2, <2>1 DEF TypeOK, NumberedInOrder, ShadowedRowsIdle
<1>3. ASSUME NEW a \in Address, NEW t \in Title, confirmedTrustContract(a, t)
      PROVE  Inv'
  <2>1. /\ rs' \in Seq(Row) /\ Len(rs') = Len(rs) + 1
        /\ \A i \in 1 .. Len(rs) : rs'[i] = rs[i]
        /\ rs'[Len(rs) + 1] = NewRow(rs, a, t)
    BY <1>3, ConfirmStep
  <2>2. rs'[Len(rs) + 1].no = Len(rs) + 1 /\ rs'[Len(rs) + 1].txCount = 0
    BY <2>1 DEF NewRow
  <2>3. TypeOK'
    BY <1>1, <1>3, <2>1 DEF TypeOK, confirmedTrustContract
  <2>4. NumberedInOrder'
    BY <1>1, <2>1, <2>2 DEF NumberedInOrder
  <2>5. ShadowedRowsIdle'
    <3> SUFFICES ASSUME NEW i \in 1 .. Len(rs'), NEW j \in 1 .. Len(rs'), i < j,
                        rs'[i].contractID = rs'[j].contractID
                 PROVE  rs'[j].txCount = 0
      BY DEF ShadowedRowsIdle
    <3>1. CASE j = Len(rs) + 1
      BY <2>2, <3>1
    <3>2. CASE j # Len(rs) + 1
      <4>1. i \in 1 .. Len(rs) /\ j \in 1 .. Len(rs)
        BY <1>1, <2>1, <3>2
      <4> QED BY <4>1, <2>1 DEF ShadowedRowsIdle
    <3> QED BY <3>1, <3>2
  <2> QED BY <2>3, <2>4, <2>5
<1>4. ASSUME NEW a \in Address, runTrustContract(a), rs' # rs
      PROVE  Inv'
  <2> DEFINE ca == confirmAddress(rs, a)
  <2>1. /\ ca \in 1 .. Len(rs)
        /\ rs[ca].contractID = a
        /\ \A j \in 1 .. Len(rs) : rs[j].contractID = a => ca <= j
        /\ rs' \in Seq(Row)
        /\ Len(rs') = Len(rs)
        /\ rs'[ca] = [rs[ca] EXCEPT !.txCount = (@ + 1) % TxMod]
        /\ \A i \in 1 .. Len(rs) : i # ca => rs'[i] = rs[i]
    BY <1>4, RunStep
  <2> HIDE DEF ca
  <2>2. \A i \in 1 .. Len(rs) : rs[i] \in Row
    BY <1>1
  <2>3. \A i \in 1 .. Len(rs) :
          rs'[i].no = rs[i].no /\ rs'[i].contractID = rs[i].contractID
    BY <2>1, <2>2 DEF Row
  <2>4. TypeOK'
    BY <1>1, <1>4, <2>1 DEF TypeOK, runTrustContract
  <2>5. NumberedInOrder'
    BY <2>1, <2>3 DEF NumberedInOrder
  <2>6. ShadowedRowsIdle'
    <3> SUFFICES ASSUME NEW i \in 1 .. Len(rs), NEW j \in 1 .. Len(rs), i < j,
                        rs[i].contractID = rs[j].contractID
                 PROVE  rs'[j].txCount = 0
      BY <2>1, <2>3 DEF ShadowedRowsIdle
    <3>1. j # ca
      BY <2>1
    <3> QED BY <2>1, <3>1 DEF ShadowedRowsIdle
  <2> QED BY <2>4, <2>5, <2>6
<1> QED BY <1>2, <1>3, <1>4 DEF Next, vars, validateTrustContract

(* The registry is well typed, its rows are numbered by position and only  *)
(* the first row of an address is ever run, whatever clients send.         *)
THEOREM RegistryInvariant == Spec => [](TypeOK /\ NumberedInOrder /\ ShadowedRowsIdle)
<1>1. Init => Inv
  BY InitInv
<1>2. Inv /\ [Next]_vars => Inv'
  BY NextInv
<1>3. Inv => TypeOK /\ NumberedInOrder /\ ShadowedRowsIdle
  BY DEF Inv
<1> QED BY <1>1, <1>2, <1>3, PTL DEF Spec

(* The list and its counters, which wrap, are well typed. *)
THEOREM RegistryTypeCorrect == Spec => []TypeOK
  BY RegistryInvariant, PTL

(* The number of a row is its position (app.d:304). *)
THEOREM NumberedInOrderHolds == Spec => []NumberedInOrder
  BY RegistryInvariant, PTL

(* No handler loses, renumbers, retitles or reorders a row, and no handler *)
(* moves more than one counter.                                            *)
THEOREM RowsKeepIdentityHolds == Spec => RowsKeepIdentity
<1> DEFINE Same(i) ==
             /\ rs'[i].no = rs[i].no
             /\ rs'[i].title = rs[i].title
             /\ rs'[i].contractID = rs[i].contractID
             /\ rs'[i].txCount \in {rs[i].txCount, (rs[i].txCount + 1) % TxMod}
           Keep ==
             /\ Len(rs') \in {Len(rs), Len(rs) + 1}
             /\ \A i \in 1 .. Len(rs) : Same(i)
             /\ \A i, j \in 1 .. Len(rs) :
                  rs'[i] # rs[i] /\ rs'[j] # rs[j] => i = j /\ Len(rs') = Len(rs)
<1>1. Inv /\ [Next]_vars => Keep
  <2> SUFFICES ASSUME Inv, [Next]_vars PROVE Keep
    OBVIOUS
  <2>1. TypeOK /\ rs \in Seq(Row) /\ Len(rs) \in Nat
    BY DEF Inv, TypeOK
  <2>2. CASE rs' = rs
    BY <2>2
  <2>3. ASSUME NEW a \in Address, NEW t \in Title, confirmedTrustContract(a, t)
        PROVE  Keep
    BY <2>1, <2>3, ConfirmStep
  <2>4. ASSUME NEW a \in Address, runTrustContract(a), rs' # rs
        PROVE  Keep
    <3> DEFINE ca == confirmAddress(rs, a)
    <3>1. /\ ca \in 1 .. Len(rs)
          /\ Len(rs') = Len(rs)
          /\ rs'[ca] = [rs[ca] EXCEPT !.txCount = (@ + 1) % TxMod]
          /\ \A i \in 1 .. Len(rs) : i # ca => rs'[i] = rs[i]
      BY <2>1, <2>4, RunStep
    <3> HIDE DEF ca
    <3>2. rs[ca] \in Row
      BY <2>1, <3>1
    <3>3. Same(ca)
      BY <3>1, <3>2 DEF Row
    <3> QED BY <3>1, <3>3
  <2> QED BY <2>2, <2>3, <2>4 DEF Next, vars, validateTrustContract
<1>2. Inv /\ [Next]_vars => [Keep]_vars
  BY <1>1
<1>3. Spec => []Inv
  BY InitInv, NextInv, PTL DEF Spec
<1> QED BY <1>2, <1>3, PTL DEF Spec, RowsKeepIdentity

------------------------------------------------------------------------------

(* A confirm is a registration in the map, or nothing when the address is  *)
(* already there.                                                          *)
LEMMA ConfirmSimulates ==
  ASSUME TypeOK, NEW a \in Address, NEW t \in Title, confirmedTrustContract(a, t)
  PROVE  Map!Register(a) \/ UNCHANGED Map!vars
<1>1. /\ NewRow(rs, a, t) \in Row
      /\ rs' = Append(rs, NewRow(rs, a, t))
      /\ \A i \in 1 .. Len(rs) : rs'[i] = rs[i]
      /\ rs'[Len(rs) + 1] = NewRow(rs, a, t)
  BY ConfirmStep
<1>2. rs \in Seq(Row) /\ Len(rs) \in Nat
  BY DEF TypeOK
<1>3. NewRow(rs, a, t).contractID = a /\ NewRow(rs, a, t).txCount = 0
  BY DEF NewRow
<1>4. \A b \in Address :
        confirmAddress(rs', b) =
          IF confirmAddress(rs, b) # 0 THEN confirmAddress(rs, b)
          ELSE IF a = b THEN Len(rs) + 1 ELSE 0
  BY <1>1, <1>2, <1>3, AppendMatch
<1>5. \A b \in Address : confirmAddress(rs, b) \in 0 .. Len(rs)
  BY <1>2, FirstMatch
<1>6. CASE confirmAddress(rs, a) = 0
  <2>1. RegisteredIn(rs') = RegisteredIn(rs) \cup {a}
    BY <1>2, <1>4, <1>6 DEF RegisteredIn
  <2>2. CountIn(rs') = [CountIn(rs) EXCEPT ![a] = 0]
    <3>1. \A b \in Address : b # a => CountIn(rs')[b] = CountIn(rs)[b]
      BY <1>1, <1>4, <1>5 DEF CountIn
    <3>2. CountIn(rs')[a] = 0
      BY <1>1, <1>2, <1>3, <1>4, <1>6 DEF CountIn
    <3>3. /\ CountIn(rs) = [b \in Address |-> CountIn(rs)[b]]
          /\ CountIn(rs') = [b \in Address |-> CountIn(rs')[b]]
      BY DEF CountIn
    <3> HIDE DEF CountIn
    <3> QED BY <3>1, <3>2, <3>3
  <2>3. a \notin RegisteredIn(rs)
    BY <1>6 DEF RegisteredIn
  <2> QED BY <2>1, <2>2, <2>3 DEF Map!Register
<1>7. CASE confirmAddress(rs, a) # 0
  <2>1. \A b \in Address : confirmAddress(rs', b) = confirmAddress(rs, b)
    BY <1>4, <1>7
  <2>2. RegisteredIn(rs') = RegisteredIn(rs)
    BY <2>1 DEF RegisteredIn
  <2>3. CountIn(rs') = CountIn(rs)
    BY <1>1, <1>5, <2>1 DEF CountIn
  <2> QED BY <2>2, <2>3 DEF Map!vars
<1> QED BY <1>6, <1>7

(* A run is a tick of the map, or nothing when the address is unknown. *)
LEMMA RunSimulates ==
  ASSUME TypeOK, NEW a \in Address, runTrustContract(a)
  PROVE  Map!Tick(a) \/ UNCHANGED Map!vars
<1>1. CASE rs' = rs
  BY <1>1 DEF Map!vars
<1>2. CASE rs' # rs
  <2> DEFINE ca == confirmAddress(rs, a)
  <2>1. /\ ca \in 1 .. Len(rs)
        /\ rs[ca].contractID = a
        /\ rs' \in Seq(Row)
        /\ Len(rs') = Len(rs)
        /\ rs'[ca] = [rs[ca] EXCEPT !.txCount = (@ + 1) % TxMod]
        /\ \A i \in 1 .. Len(rs) : i # ca => rs'[i] = rs[i]
    BY <1>2, RunStep
  <2>2. rs \in Seq(Row) /\ Len(rs) \in Nat
    BY DEF TypeOK
  <2>3. \A i \in 1 .. Len(rs) : rs'[i].contractID = rs[i].contractID
    <3>1. rs[ca] \in Row
      BY <2>1, <2>2
    <3> HIDE DEF ca
    <3> QED BY <2>1, <3>1 DEF Row
  <2>4. \A b \in Address : confirmAddress(rs', b) = confirmAddress(rs, b)
    BY <2>1, <2>2, <2>3, SameAddressesSameMatch
  <2>5. \A b \in Address : confirmAddress(rs, b) # 0 =>
          confirmAddress(rs, b) \in 1 .. Len(rs) /\ rs[confirmAddress(rs, b)].contractID = b
    BY <2>2, FirstMatch DEF Positions
  <2>6. RegisteredIn(rs') = RegisteredIn(rs)
    BY <2>4 DEF RegisteredIn
  <2>7. CountIn(rs') = [CountIn(rs) EXCEPT ![a] = (@ + 1) % TxMod]
    <3>1. \A b \in Address : b # a => CountIn(rs')[b] = CountIn(rs)[b]
      BY <2>1, <2>4, <2>5 DEF CountIn
    <3>2. CountIn(rs')[a] = (CountIn(rs)[a] + 1) % TxMod
      <4>1. rs[ca] \in Row /\ ca # 0
        BY <2>1, <2>2
      <4>2. rs'[ca].txCount = (rs[ca].txCount + 1) % TxMod
        <5> HIDE DEF ca
        <5> QED BY <2>1, <4>1 DEF Row
      <4> QED BY <2>4, <4>1, <4>2 DEF CountIn
    <3>3. /\ CountIn(rs) = [b \in Address |-> CountIn(rs)[b]]
          /\ CountIn(rs') = [b \in Address |-> CountIn(rs')[b]]
      BY DEF CountIn
    <3> HIDE DEF CountIn
    <3> QED BY <3>1, <3>2, <3>3
  <2>8. a \in RegisteredIn(rs)
    BY <2>1 DEF RegisteredIn
  <2> QED BY <2>6, <2>7, <2>8 DEF Map!Tick
<1> QED BY <1>1, <1>2

(* The list of rows implements the map: for every client behaviour the     *)
(* registry, duplicates and all, shows an address registered once and a    *)
(* count that only runs of that address move.                              *)
THEOREM RegistryImplementsMap == Spec => ImplementsContractMap
<1>1. Init => Map!Init
  BY DEF Init, Map!Init, createReqTC
<1>2. Inv /\ [Next]_vars => [Map!Next]_(Map!vars)
  <2> SUFFICES ASSUME TypeOK, [Next]_vars PROVE [Map!Next]_(Map!vars)
    BY DEF Inv
  <2>1. CASE rs' = rs
    BY <2>1 DEF Map!vars
  <2>2. ASSUME NEW a \in Address, NEW t \in Title, confirmedTrustContract(a, t)
        PROVE  [Map!Next]_(Map!vars)
    BY <2>2, ConfirmSimulates DEF Map!Next
  <2>3. ASSUME NEW a \in Address, runTrustContract(a)
        PROVE  [Map!Next]_(Map!vars)
    BY <2>3, RunSimulates DEF Map!Next
  <2> QED BY <2>1, <2>2, <2>3 DEF Next, vars, validateTrustContract
<1>3. Spec => []Inv
  BY InitInv, NextInv, PTL DEF Spec
<1> QED BY <1>1, <1>2, <1>3, PTL DEF Spec, ImplementsContractMap, Map!Spec
==============================================================================
