---------------------------- MODULE TrustContract ----------------------------
(***************************************************************************)
(* The trust contract registry of ui/app.d: the global array rs and the    *)
(* four REST handlers on it.  The server runs one thread of cooperative    *)
(* fibers and none of these handlers yields, so each is one atomic step.   *)
(***************************************************************************)
EXTENDS Naturals, Sequences

CONSTANTS
  Address,    (* the strings a client may send as a contract address       *)
  Issuable,   (* those that encodeWithPrefix("TRX", uniform(..)) can give  *)
  Title,      (* contract titles                                           *)
  DemoRows,   (* the rows createReqTC() puts in the list at start-up       *)
  TxMod,      (* txCount is a uint: arithmetic modulo TxMod (2^32 in D)    *)
  MaxRows     (* bound: no confirm once the list has this many rows        *)

(* A row of the list: struct ReqTrustContractList. *)
Row == [no : Nat, title : Title, contractID : Address, txCount : 0 .. TxMod - 1]

ASSUME TxModAssumption == TxMod \in Nat \ {0}
ASSUME IssuableAssumption == Issuable \subseteq Address
ASSUME MaxRowsAssumption == MaxRows \in Nat
(* The five demo rows are numbered in order and have different addresses. *)
ASSUME DemoAssumption ==
  /\ DemoRows \in Seq(Row)
  /\ \A i \in 1 .. Len(DemoRows) : DemoRows[i].no = i
  /\ \A i, j \in 1 .. Len(DemoRows) :
       DemoRows[i].contractID = DemoRows[j].contractID => i = j

VARIABLES
  rs,         (* the list of contracts                                     *)
  offered     (* history: the addresses validateTrustContract has returned *)

vars == <<rs, offered>>

------------------------------------------------------------------------------

(* The positions at which a list holds an address. *)
Positions(rows, a) == {i \in 1 .. Len(rows) : rows[i].contractID = a}

(* Mutant of confirmAddress: the scan does not stop at the first match. *)
confirmAddressLast(rows, a) ==
  IF Positions(rows, a) = {} THEN 0
  ELSE CHOOSE i \in Positions(rows, a) : \A j \in Positions(rows, a) : i >= j

(* confirmAddress: the first row with that address; 0 stands for -1. *)
confirmAddress(rows, a) ==
  IF Positions(rows, a) = {} THEN 0
  ELSE CHOOSE i \in Positions(rows, a) : \A j \in Positions(rows, a) : i <= j

(* Mutant of NewRow: the number is taken before the array has grown. *)
NewRowEarlyNumber(rows, a, t) ==
  [no |-> Len(rows), title |-> t, contractID |-> a, txCount |-> 0]

NewRow(rows, a, t) ==
  [no |-> Len(rows) + 1, title |-> t, contractID |-> a, txCount |-> 0]

createReqTC == DemoRows

Init ==
  /\ rs = createReqTC
  /\ offered = {}

(* A random address is drawn until it is one that no row has.  The address *)
(* is returned to the client; it is not reserved.                          *)
validateTrustContract(a) ==
  /\ a \in Issuable
  /\ confirmAddress(rs, a) = 0
  /\ offered' = offered \cup {a}
  /\ UNCHANGED rs

(* Mutant of confirmedTrustContract: rs.length++ is forgotten. *)
confirmedNoGrowth(a, t) ==
  /\ Len(rs) \in 1 .. MaxRows - 1
  /\ rs' = [rs EXCEPT ![Len(rs)] = [NewRow(rs, a, t) EXCEPT !.no = Len(rs)]]
  /\ UNCHANGED offered

(* The handler takes whatever address and title the URL holds. *)
confirmedTrustContract(a, t) ==
  /\ Len(rs) < MaxRows
  /\ rs' = Append(rs, NewRow(rs, a, t))
  /\ UNCHANGED offered

(* Mutant of runTrustContract: the counter is not a machine integer. *)
runUnbounded(a) ==
  /\ rs' = LET ca == confirmAddress(rs, a)
           IN  IF ca = 0 THEN rs ELSE [rs EXCEPT ![ca].txCount = @ + 1]
  /\ UNCHANGED offered

(* The answer is "Transaction Success" whether a row was found or not. *)
runTrustContract(a) ==
  /\ rs' = LET ca == confirmAddress(rs, a)
           IN  IF ca = 0 THEN rs
               ELSE [rs EXCEPT ![ca].txCount = (@ + 1) % TxMod]
  /\ UNCHANGED offered

Next ==
  \/ \E a \in Issuable : validateTrustContract(a)
  \/ \E a \in Address, t \in Title : confirmedTrustContract(a, t)
  \/ \E a \in Address : runTrustContract(a)

Spec == Init /\ [][Next]_vars

------------------------------------------------------------------------------

(* Type invariant of the registry. *)
TypeOK ==
  /\ rs \in Seq(Row)
  /\ offered \subseteq Issuable

(* The number shown in the list is the position of the row (app.d sets it  *)
(* from rs.length after growing the array).                                *)
NumberedInOrder == \A i \in 1 .. Len(rs) : rs[i].no = i

(* A row whose address occurs in an earlier row is never run: every run of *)
(* that address goes to the first row, so a second confirm of an address   *)
(* neither resets nor splits its count.                                    *)
ShadowedRowsIdle ==
  \A i, j \in 1 .. Len(rs) :
    i < j /\ rs[i].contractID = rs[j].contractID => rs[j].txCount = 0

(* No step loses, renumbers, retitles or reorders a row, and no step moves *)
(* more than one counter or grows the list while moving one.               *)
RowsKeepIdentity ==
  [][ /\ Len(rs') \in {Len(rs), Len(rs) + 1}
      /\ \A i \in 1 .. Len(rs) :
           /\ rs'[i].no = rs[i].no
           /\ rs'[i].title = rs[i].title
           /\ rs'[i].contractID = rs[i].contractID
           /\ rs'[i].txCount \in {rs[i].txCount, (rs[i].txCount + 1) % TxMod}
      /\ \A i, j \in 1 .. Len(rs) :
           rs'[i] # rs[i] /\ rs'[j] # rs[j] => i = j /\ Len(rs') = Len(rs)
    ]_vars

(* Two rows never have the same address: what validateTrustContract's loop *)
(* (app.d:293) and the answer "Created new trust contract address" claim.  *)
AddressesUnique ==
  \A i, j \in 1 .. Len(rs) : rs[i].contractID = rs[j].contractID => i = j

------------------------------------------------------------------------------

(* The map a list stands for: an address is registered when some row has   *)
(* it, and its count is the one of the first such row.                     *)
RegisteredIn(rows) == {a \in Address : confirmAddress(rows, a) # 0}
CountIn(rows) ==
  [a \in Address |->
     IF confirmAddress(rows, a) = 0 THEN 0
     ELSE rows[confirmAddress(rows, a)].txCount]

Map == INSTANCE ContractMap WITH
         Preloaded <- RegisteredIn(DemoRows),
         PreloadedCount <- CountIn(DemoRows),
         registered <- RegisteredIn(rs),
         count <- CountIn(rs)

(* The list with its duplicates behaves as the map that ContractMap        *)
(* describes: a confirm of a known address and a run of an unknown one     *)
(* change nothing that a client can tell.                                  *)
ImplementsContractMap == Map!Spec
==============================================================================
