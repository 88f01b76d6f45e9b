----------------------------- MODULE ContractPage -----------------------------
(***************************************************************************)
(* The trust contract page (ui/public/pages/js/common.js) against the      *)
(* registry of TrustContract.  A page sends a request at every click and   *)
(* does not wait: requests and answers of one page travel on separate      *)
(* connections, so they overtake each other, and either may be lost.       *)
(***************************************************************************)
EXTENDS TrustContract, SequencesExt

CONSTANTS
  Page,           (* browser windows                                       *)
  UndefinedText,  (* "undefined": what JavaScript puts in a URL for a      *)
                  (* variable that has no value                            *)
  MaxClicks       (* bound: the clicks of a run                            *)

ASSUME PageAssumption == UndefinedText \in Address /\ MaxClicks \in Nat
(* Nobody clicks 2^32 times: within the bound on clicks no counter of the  *)
(* list passes its last value.  TrustContract itself lets counters wrap.   *)
ASSUME NoWrapAssumption ==
  /\ MaxClicks < TxMod
  /\ \A i \in 1 .. Len(DemoRows) : DemoRows[i].txCount + MaxClicks < TxMod

VARIABLES
  confirming,      (* the submit button has the class 'confirm'            *)
  contractAddress, (* window.contractAddress, as it would appear in a URL  *)
  shown,           (* the rows of the list view, newest first              *)
  shownAt,         (* history: the number of requests sent when they came  *)
  wire,            (* requests on their way, and their answers             *)
  clicks,          (* the number of requests sent                          *)
  confirmClicks    (* history: those that were a confirm                   *)

pageVars == <<confirming, contractAddress, shown, shownAt, wire, clicks, confirmClicks>>
allVars == <<vars, pageVars>>

(* An answer is the record the handler serialises; a failed request gives  *)
(* the callback a jqXHR object, which has none of those fields.            *)
Pending == [state |-> "pending"]
Failed == [state |-> "failed"]
Answer(fields) == [state |-> "done", data |-> fields]

(* data.f in the page: a field the server does not send is undefined. *)
JsField(answer, f) ==
  IF answer.state = "done" /\ f \in DOMAIN answer.data
  THEN answer.data[f] ELSE UndefinedText

PageInit ==
  /\ Init
  /\ confirming = [p \in Page |-> FALSE]
  /\ contractAddress = [p \in Page |-> UndefinedText]
  /\ shown = [p \in Page |-> <<>>]
  /\ shownAt = [p \in Page |-> 0]
  /\ wire = {}
  /\ clicks = 0
  /\ confirmClicks = 0

------------------------------------------------------------------------------
(* Clicks. *)

Send(p, op, a) ==
  /\ clicks < MaxClicks
  /\ clicks' = clicks + 1
  /\ wire' = wire \cup
       {[id |-> clicks + 1, page |-> p, op |-> op, addr |-> a, answer |-> Pending]}

(* The first click marks the button and asks for validation; every later   *)
(* click confirms, whether the answer has come or not.                     *)
ClickSubmit(p) ==
  /\ IF confirming[p]
     THEN /\ Send(p, "confirm", contractAddress[p])
          /\ confirmClicks' = confirmClicks + 1
          /\ UNCHANGED confirming
     ELSE /\ Send(p, "validate", UndefinedText)
          /\ confirming' = [confirming EXCEPT ![p] = TRUE]
          /\ UNCHANGED confirmClicks
  /\ UNCHANGED <<vars, contractAddress, shown, shownAt>>

ClickRun(p, a) ==
  /\ Send(p, "run", a)
  /\ UNCHANGED <<vars, confirming, contractAddress, shown, shownAt, confirmClicks>>

(* setDisplay("s2") *)
OpenList(p) ==
  /\ Send(p, "list", UndefinedText)
  /\ UNCHANGED <<vars, confirming, contractAddress, shown, shownAt, confirmClicks>>

------------------------------------------------------------------------------
(* The server and the network. *)

Deliver(r, answer) == wire' = (wire \ {r}) \cup {[r EXCEPT !.answer = answer]}

ServeValidate(r) ==
  /\ r.op = "validate"
  /\ \E a \in Issuable :
       /\ validateTrustContract(a)
       /\ Deliver(r, Answer([address |-> a]))

ServeConfirm(r) ==
  /\ r.op = "confirm"
  /\ \E t \in Title :
       /\ confirmedTrustContract(r.addr, t)
       /\ Deliver(r, Answer([title |-> t]))

ServeRun(r) ==
  /\ r.op = "run"
  /\ runTrustContract(r.addr)
  /\ Deliver(r, Answer([txID |-> r.addr]))

(* Mutant of ServeList: the answer may be the list as it was at the start, *)
(* from a cache.                                                           *)
ServeListCached(r) ==
  /\ r.op = "list"
  /\ \E rows \in {rs, DemoRows} : Deliver(r, Answer([rows |-> rows]))
  /\ UNCHANGED vars

(* reqTrustContractList *)
ServeList(r) ==
  /\ r.op = "list"
  /\ Deliver(r, Answer([rows |-> rs]))
  /\ UNCHANGED vars

Serve(r) ==
  /\ r.answer = Pending
  /\ ServeValidate(r) \/ ServeConfirm(r) \/ ServeRun(r) \/ ServeList(r)
  /\ UNCHANGED <<confirming, contractAddress, shown, shownAt, clicks, confirmClicks>>

(* The request is lost on the way, or its answer is. *)
Lose(r) ==
  /\ r.answer # Failed
  /\ Deliver(r, Failed)
  /\ UNCHANGED <<vars, confirming, contractAddress, shown, shownAt, clicks, confirmClicks>>

------------------------------------------------------------------------------
(* Callbacks in the page; _ajax calls the callback on failure too. *)

(* Mutant of Answered: a request that failed is sent again. *)
AnsweredRetry(r) ==
  /\ r.answer # Pending
  /\ wire' = (wire \ {r}) \cup
       IF r.answer = Failed THEN {[r EXCEPT !.answer = Pending]} ELSE {}

Answered(r) == r.answer # Pending /\ wire' = wire \ {r}

(* Mutant of OnValidated: the answer is stored and not a field of it. *)
OnValidatedWhole(r) ==
  /\ r.op = "validate"
  /\ contractAddress' = [contractAddress EXCEPT ![r.page] = r.answer]
  /\ UNCHANGED <<shown, shownAt>>

OnValidated(r) ==
  /\ r.op = "validate"
  /\ contractAddress' =
       [contractAddress EXCEPT ![r.page] = JsField(r.answer, "contractAddress")]
  /\ UNCHANGED <<shown, shownAt>>

(* The list has a success callback only, and shows the rows in reverse. *)
OnList(r) ==
  /\ r.op = "list"
  /\ IF r.answer.state = "done"
     THEN /\ shown' = [shown EXCEPT ![r.page] = Reverse(r.answer.data.rows)]
          /\ shownAt' = [shownAt EXCEPT ![r.page] = clicks]
     ELSE UNCHANGED <<shown, shownAt>>
  /\ UNCHANGED contractAddress

(* The other callbacks only write texts. *)
OnText(r) ==
  /\ r.op \in {"confirm", "run"}
  /\ UNCHANGED <<contractAddress, shown, shownAt>>

Callback(r) ==
  /\ Answered(r)
  /\ OnValidated(r) \/ OnList(r) \/ OnText(r)
  /\ UNCHANGED <<vars, confirming, clicks, confirmClicks>>

PageNext ==
  \/ \E p \in Page : ClickSubmit(p) \/ OpenList(p)
  \/ \E p \in Page, a \in Address : ClickRun(p, a)
  \/ \E r \in wire : Serve(r) \/ Lose(r) \/ Callback(r)

PageSpec == PageInit /\ [][PageNext]_allVars

------------------------------------------------------------------------------

Op == {"validate", "confirm", "run", "list"}

(* Type invariant of the composition; requests are told apart by their id. *)
PageTypeOK ==
  /\ TypeOK
  /\ confirming \in [Page -> BOOLEAN]
  /\ contractAddress \in [Page -> Address]
  /\ shown \in [Page -> Seq(Row)] /\ shownAt \in [Page -> 0 .. clicks]
  /\ clicks \in 0 .. MaxClicks /\ confirmClicks \in 0 .. clicks
  /\ \A r \in wire : r.id \in 1 .. clicks /\ r.op \in Op /\ r.addr \in Address
  /\ \A r1, r2 \in wire : r1.id = r2.id => r1 = r2

(* Whatever order answers arrive in, the list on screen is one the server  *)
(* once had: its rows are the oldest ones, newest first, and no count is   *)
(* ahead of the server's (setDisplay, common.js:30).                       *)
ShownIsPast ==
  \A p \in Page : \A k \in 1 .. Len(shown[p]) :
    LET i == Len(shown[p]) + 1 - k IN
    /\ i <= Len(rs)
    /\ shown[p][k].no = i
    /\ shown[p][k].contractID = rs[i].contractID
    /\ shown[p][k].txCount <= rs[i].txCount

(* A list is on its way to its page. *)
ListComes(r) == r.op = "list" /\ r.answer.state = "done"

(* Every row that page p shows is among rows, with no lower count. *)
Covers(p, rows) ==
  \A k \in 1 .. Len(shown[p]) :
    LET i == Len(shown[p]) + 1 - k IN
    /\ i <= Len(rows)
    /\ shown[p][k].contractID = rows[i].contractID
    /\ shown[p][k].txCount <= rows[i].txCount

(* A list that is asked for after the one on screen has come takes nothing *)
(* back.  So an older list replaces a newer one only if both were asked    *)
(* for before the first of them came (setDisplay, common.js:30: the page   *)
(* does not number its requests and drops no late answer).                 *)
ListMovesOn ==
  \A r \in wire :
    ListComes(r) /\ shownAt[r.page] < r.id => Covers(r.page, r.answer.data.rows)

(* A click on Confirm makes at most one contract, also when its answer is  *)
(* lost, and every contract made comes from such a click.                  *)
OneRowPerConfirm ==
  LET unserved == {r \in wire : r.op = "confirm" /\ r.answer = Pending}
  IN  Len(rs) - Len(DemoRows) + Cardinality(unserved) <= confirmClicks

(* A contract that a page has confirmed has an address the server offered: *)
(* the answer to validate says "Please confirm to get address" (app.d:291).*)
ConfirmedWasOffered ==
  \A i \in Len(DemoRows) + 1 .. Len(rs) : rs[i].contractID \in offered
==============================================================================
