----------------------------- MODULE WalletPage ------------------------------
(***************************************************************************)
(* The wallet page of ui/public (main.html, js/common.js, js/function.js)  *)
(* together with the account operations of ui/app.d that it calls.         *)
(*                                                                         *)
(* The script runs one callback at a time; an action is one click, one     *)
(* timeout or the callback of one answer.  Requests overtake each other,   *)
(* and one that fails has no callback: $.get is called without a failure   *)
(* handler.  The account operations keep no state that one of them reads,  *)
(* so the moment at which the server handles a request makes no difference *)
(* and is that of the callback.  What the views show is left out but for   *)
(* what the properties are about.                                          *)
(***************************************************************************)
EXTENDS Naturals, Sequences, FiniteSets

CONSTANTS
  Form,      (* what the user may type into the form for sending            *)
  MaxClicks, (* bound: clicks of the user                                   *)
  MaxLost    (* bound: operations whose requests may fail on the way        *)

(* What a field holds: nothing, a zero, another number, or other text.     *)
Entry == {"empty", "zero", "number", "words"}

ASSUME FormAssumption ==
  Form \subseteq [receiver : Entry, amount : Entry, memo : Entry]
ASSUME BoundsAssumption == MaxClicks \in Nat /\ MaxLost \in Nat

(* $.COM._accountAddress: '' or the one address createAccount gives out;   *)
(* $.COM._passPhraseStr: '' or the one passphrase of createSeed.           *)
Blank == ""
Address == {Blank, "account"}
Phrase == {Blank, "words"}

(* The form as it is when the page is loaded. *)
NoForm == [receiver |-> "empty", amount |-> "empty", memo |-> "empty"]

(* The requests of function.js with what their URL carries; dashAccount is *)
(* the getAccount of the dashboard, getAccount that of the account view.   *)
createSeed == <<"createSeed", Blank>>
createAccount == <<"createAccount", Blank>>
getBlocks == <<"getBlockInformation", Blank>>
AboutAccount == {"dashAccount", "getAccount", "getAccountTransaction"}
theAccount == <<"getAccount", "account">>
Request == {createSeed, createAccount, getBlocks} \cup (AboutAccount \X Address)
             \cup ({"confirmSeed"} \X Phrase) \cup ({"sendBos"} \X (Form \cup {NoForm}))

VARIABLES
  screen,    (* "main" or "new": the article that is shown                  *)
  wizard,    (* the section of article.new that is on                       *)
  layout,    (* the section of article.main that is on                      *)
  menu,      (* the entry of the account's menu that is open                *)
  layers,    (* the layers of the popup that are shown                      *)
  form,      (* the form for sending                                        *)
  phrase,    (* $.COM._passPhraseStr                                        *)
  address,   (* $.COM._accountAddress                                       *)
  sections,  (* the accounts on the dashboard: whether the balance is shown *)
  frozen,    (* whether the account is shown as frozen                      *)
  wish,      (* history: the user's freeze of the account since it was last *)
             (* opened: "none", "early" (its answer was still to come) or   *)
             (* "settled" (none was)                                        *)
  timers,    (* timeouts that are running                                   *)
  inflight,  (* requests without an answer, with their number               *)
  lost,      (* the operations of requests that failed on the way           *)
  clicks     (* bound: clicks so far                                        *)

viewVars == <<screen, wizard, layout, menu>>
popupVars == <<layers, form>>
dataVars == <<phrase, address, sections>>
freezeVars == <<frozen, wish>>
vars == <<screen, wizard, layout, menu, layers, form, phrase, address, sections,
          frozen, wish, timers, inflight, lost, clicks>>

Wizard == {"start", "create", "phrase", "check", "loading"}
Layout == {"dash", "account", "block", "config", "about"}
Menu == {"none", "receive", "send", "transaction"}

(* Mutant of Stack: the layers for freezing come last. *)
StackFreezingLast == <<"send-bos", "send-bos-ok", "send-bos-cancel", "backup1", "backup2",
                       "freezing", "un-freezing">>

(* The layers in the order of main.html: each covers those before it. *)
Stack == <<"freezing", "un-freezing", "send-bos", "send-bos-ok", "send-bos-cancel",
           "backup1", "backup2">>
Layer == {Stack[i] : i \in 1 .. Len(Stack)}
Backup == {"backup1", "backup2"}

Covers(a, b) ==
  \E i, j \in 1 .. Len(Stack) : Stack[i] = a /\ Stack[j] = b /\ j <= i

(* The shown layer that the user can click. *)
OnTop(layer) == layer \in layers /\ \A other \in layers : Covers(layer, other)

------------------------------------------------------------------------------
(* Requests. *)

(* One request is done, others go out. *)
Ajax(done, sent) ==
  inflight' = [r \in Request |->
                 (inflight[r] + (IF r \in sent THEN 1 ELSE 0)) - (IF r \in done THEN 1 ELSE 0)]

(* What setLayout(mode) asks for. *)
Asks(mode) ==
  {r \in Request : \/ r = createAccount /\ mode = "dash" /\ sections = <<>>
                   \/ r = <<"getAccount", address>> /\ mode = "account"
                   \/ r = getBlocks /\ mode = "block"}

(* The route of an operation matches only if no part of it is empty; text  *)
(* where a number belongs is a bad request.  The page sends its memo where *)
(* the server expects the fee.                                             *)
Served(r) ==
  /\ r[1] \in AboutAccount => r[2] # Blank
  /\ r[1] = "sendBos" =>
       /\ r[2].receiver # "empty"
       /\ r[2].amount \in {"zero", "number"} /\ r[2].memo \in {"zero", "number"}

(* sendBos: with an amount or a fee of zero the answer has no sendBos. *)
Accepts(f) == f.amount # "zero" /\ f.memo # "zero"

------------------------------------------------------------------------------
(* setup: the dashboard, which has no account yet. *)
Init ==
  /\ screen = "main" /\ wizard = "start" /\ layout = "dash" /\ menu = "none"
  /\ layers = {} /\ form = NoForm
  /\ phrase = Blank /\ address = Blank /\ sections = <<>>
  /\ frozen = FALSE /\ wish = "none"
  /\ timers = [create |-> 0, done |-> 0]
  /\ inflight = [r \in Request |-> IF r = createAccount THEN 1 ELSE 0]
  /\ lost = {}
  /\ clicks = 0

(* A click of the user; while a layer is shown it covers the page. *)
Acts == clicks < MaxClicks /\ clicks' = clicks + 1
Clicks == Acts /\ layers = {}
At(mode) == Clicks /\ screen = "main" /\ layout = mode

setLayout(mode) ==
  /\ layout' = mode
  /\ Ajax({}, Asks(mode))

------------------------------------------------------------------------------
(* The wizard for a new account: article.new and setLoginMode. *)

(* Mutant of Links: the section "create" has a cancel link, too. *)
LinksFromCreate(section) ==
  CASE section = "start" -> {"create"}
    [] section = "create" -> {"start"}
    [] section = "phrase" -> {"start", "check"}
    [] section = "check" -> {"phrase", "loading"}
    [] OTHER -> {}

(* The links of a section. *)
Links(section) ==
  CASE section = "start" -> {"create"}
    [] section = "phrase" -> {"start", "check"}
    [] section = "check" -> {"phrase", "loading"}
    [] OTHER -> {}

(* What setLoginMode(mode) asks for. *)
LoginAsks(mode) ==
  {r \in Request : \/ r = createSeed /\ mode = "phrase"
                   \/ r = <<"confirmSeed", phrase>> /\ mode = "loading"}

setLoginMode(mode) ==
  /\ wizard' = mode
  /\ screen' = IF mode \in {"start", "create"} THEN "new" ELSE screen
  /\ timers' = IF mode = "create" THEN [timers EXCEPT !.create = @ + 1] ELSE timers
  /\ Ajax({}, LoginAsks(mode))

ClickLink(mode) ==
  /\ Clicks /\ screen = "new"
  /\ mode \in Links(wizard)
  /\ setLoginMode(mode)
  /\ UNCHANGED <<layout, menu, popupVars, dataVars, freezeVars, lost>>

(* Add an account. *)
ClickAdd ==
  /\ At("dash")
  /\ setLoginMode("create")
  /\ UNCHANGED <<layout, menu, popupVars, dataVars, freezeVars, lost>>

(* Three seconds after "create". *)
CreateDone ==
  /\ timers.create > 0
  /\ wizard' = "phrase"
  /\ timers' = [timers EXCEPT !.create = @ - 1]
  /\ Ajax({}, {createSeed})
  /\ UNCHANGED <<screen, layout, menu, popupVars, dataVars, freezeVars, lost,
                 clicks>>

(* Mutant of LoadingDone: the other timeout is cleared. *)
LoadingDoneOther ==
  /\ timers.done > 0
  /\ timers' = [timers EXCEPT !.create = @ - 1]
  /\ screen' = "main"
  /\ setLayout("dash")
  /\ UNCHANGED <<wizard, menu, popupVars, dataVars, freezeVars, lost, clicks>>

(* Mutant of LoadingDone: the page is laid out but never shown. *)
LoadingDoneHidden ==
  /\ timers.done > 0
  /\ timers' = [timers EXCEPT !.done = @ - 1]
  /\ setLayout("dash")
  /\ UNCHANGED <<screen, wizard, menu, popupVars, dataVars, freezeVars, lost,
                 clicks>>

(* One second after the answer to confirmSeed. *)
LoadingDone ==
  /\ timers.done > 0
  /\ timers' = [timers EXCEPT !.done = @ - 1]
  /\ screen' = "main"
  /\ setLayout("dash")
  /\ UNCHANGED <<wizard, menu, popupVars, dataVars, freezeVars, lost, clicks>>

------------------------------------------------------------------------------
(* The views of article.main and the footer. *)

(* What every change of view leaves alone. *)
OtherData == UNCHANGED <<form, dataVars, timers, lost>>
Rest == OtherData /\ UNCHANGED freezeVars

(* Opening the account asks for it again. *)
ForgetWish == wish' = "none" /\ UNCHANGED frozen

(* Back to the dashboard. *)
ClickClose ==
  /\ \E mode \in Layout \ {"dash"} : At(mode)
  /\ setLayout("dash")
  /\ UNCHANGED <<screen, wizard, menu, layers>> /\ Rest

ClickConfig ==
  /\ \E mode \in Layout : At(mode)
  /\ setLayout("config")
  /\ UNCHANGED <<screen, wizard, menu, layers>> /\ Rest

ClickInfo ==
  /\ At("dash")
  /\ setLayout("block")
  /\ UNCHANGED <<screen, wizard, menu, layers>> /\ Rest

(* The footer is below both articles, the wizard's too. *)
ClickFooter(mode) ==
  /\ Clicks
  /\ setLayout(mode)
  /\ UNCHANGED <<screen, wizard, menu, layers>> /\ Rest

(* Mutant of OpenAccount: an entry for the account is there from the start. *)
OpenAccountAnytime(entry) ==
  /\ At("dash")
  /\ setLayout("account")
  /\ menu' = entry
  /\ UNCHANGED <<screen, wizard, layers>> /\ ForgetWish /\ OtherData

(* An account of the dashboard, or its buttons for receiving and sending. *)
OpenAccount(entry) ==
  /\ At("dash") /\ sections # <<>>
  /\ setLayout("account")
  /\ menu' = entry
  /\ UNCHANGED <<screen, wizard, layers>> /\ ForgetWish /\ OtherData

(* Its button for freezing always shows the layer for unfreezing. *)
OpenUnfreezing ==
  /\ At("dash") /\ sections # <<>>
  /\ setLayout("account")
  /\ layers' = {"un-freezing"}
  /\ UNCHANGED <<screen, wizard, menu>> /\ ForgetWish /\ OtherData

(* An entry of the account's menu is opened, or closed if it was open; the *)
(* one for the backup does nothing.                                        *)
ClickToggle(entry) ==
  /\ At("account")
  /\ menu' = IF menu = entry THEN "none" ELSE entry
  /\ Ajax({}, {r \in Request : r = <<"getAccountTransaction", address>>
                               /\ entry = "transaction" /\ menu # entry})
  /\ UNCHANGED <<screen, wizard, layout, layers>> /\ Rest

(* The user fills in the form. *)
Fill(f) ==
  /\ screen = "main" /\ layout = "account" /\ menu = "send" /\ layers = {}
  /\ form' = f
  /\ UNCHANGED <<viewVars, layers, dataVars, freezeVars, timers, inflight, lost, clicks>>

------------------------------------------------------------------------------
(* The popup. *)

(* A button of the page that shows a layer. *)
Opens(layer) ==
  \/ layer = "freezing" /\ At("account") /\ ~frozen
  \/ layer \in {"send-bos", "send-bos-cancel"} /\ At("account") /\ menu = "send"
  \/ layer = "backup1" /\ At("config")

OpenLayer(layer) ==
  /\ Opens(layer)
  /\ layers' = {layer}
  /\ UNCHANGED <<viewVars, inflight>> /\ Rest

(* The link in a layer's footer closes the popup with all its layers; that *)
(* of backup1 shows one more.  The sender of a send is the address that    *)
(* the account view shows, a placeholder until getAccount has answered.    *)
ClickLayer(layer) ==
  /\ Acts /\ OnTop(layer)
  /\ layers' = IF layer = "backup1" THEN layers \cup {"backup2"} ELSE {}
  /\ frozen' = IF layer = "freezing" THEN TRUE
               ELSE IF layer = "un-freezing" THEN FALSE ELSE frozen
  /\ wish' = IF layer = "freezing"
             THEN IF inflight[theAccount] = 0 THEN "settled" ELSE "early"
             ELSE IF layer = "un-freezing" THEN "none" ELSE wish
  /\ Ajax({}, {r \in Request : r = <<"sendBos", form>> /\ layer = "send-bos"})
  /\ UNCHANGED <<viewVars, form, dataVars, timers, lost>>

------------------------------------------------------------------------------
(* Answers. *)

Answer(r) == inflight[r] > 0 /\ Served(r)

AnswerSeed ==
  /\ Answer(createSeed)
  /\ phrase' = "words"
  /\ Ajax({createSeed}, {})
  /\ UNCHANGED <<viewVars, popupVars, address, sections, freezeVars, timers,
                 lost, clicks>>

(* Whatever was confirmed, and whatever address comes back. *)
AnswerConfirm(p) ==
  /\ Answer(<<"confirmSeed", p>>)
  /\ timers' = [timers EXCEPT !.done = @ + 1]
  /\ Ajax({<<"confirmSeed", p>>}, {})
  /\ UNCHANGED <<viewVars, popupVars, dataVars, freezeVars, lost, clicks>>

(* Mutant of AnswerCreate: the entry is not appended. *)
AnswerCreateUnlisted ==
  /\ Answer(createAccount)
  /\ address' = "account"
  /\ Ajax({createAccount}, {<<"dashAccount", "account">>})
  /\ UNCHANGED <<viewVars, popupVars, phrase, sections, freezeVars, timers,
                 lost, clicks>>

(* The account gets an entry, and its balance is asked for. *)
AnswerCreate ==
  /\ Answer(createAccount)
  /\ address' = "account"
  /\ sections' = Append(sections, FALSE)
  /\ Ajax({createAccount}, {<<"dashAccount", "account">>})
  /\ UNCHANGED <<viewVars, popupVars, phrase, freezeVars, timers, lost,
                 clicks>>

(* Mutant of AnswerDash: only the first entry shows the balance. *)
AnswerDashFirst(a) ==
  /\ Answer(<<"dashAccount", a>>)
  /\ sections' = [i \in 1 .. Len(sections) |-> i = 1 \/ sections[i]]
  /\ Ajax({<<"dashAccount", a>>}, {})
  /\ UNCHANGED <<viewVars, popupVars, phrase, address, freezeVars, timers,
                 lost, clicks>>

(* Mutant of AnswerDash: the status goes to the account view as well. *)
AnswerDashStatus(a) ==
  /\ Answer(<<"dashAccount", a>>)
  /\ sections' = [i \in 1 .. Len(sections) |-> TRUE]
  /\ frozen' = FALSE
  /\ Ajax({<<"dashAccount", a>>}, {})
  /\ UNCHANGED <<viewVars, popupVars, phrase, address, wish, timers, lost, clicks>>

(* Every entry shows the balance. *)
AnswerDash(a) ==
  /\ Answer(<<"dashAccount", a>>)
  /\ sections' = [i \in 1 .. Len(sections) |-> TRUE]
  /\ Ajax({<<"dashAccount", a>>}, {})
  /\ UNCHANGED <<viewVars, popupVars, phrase, address, freezeVars, timers,
                 lost, clicks>>

(* The account view; getAccount never says frozen. *)
AnswerAccount(a) ==
  /\ Answer(<<"getAccount", a>>)
  /\ address' = a
  /\ frozen' = FALSE
  /\ Ajax({<<"getAccount", a>>}, {})
  /\ UNCHANGED <<viewVars, popupVars, phrase, sections, wish, timers, lost, clicks>>

(* A table of transactions or of blocks is filled. *)
AnswerTable(r) ==
  /\ Answer(r)
  /\ Ajax({r}, {})
  /\ UNCHANGED <<viewVars, popupVars, dataVars, freezeVars, timers, lost, clicks>>

(* The outcome is shown on top of whatever the user is at. *)
AnswerSend(f) ==
  /\ Answer(<<"sendBos", f>>)
  /\ layers' = layers \cup {IF Accepts(f) THEN "send-bos-ok" ELSE "send-bos-cancel"}
  /\ Ajax({<<"sendBos", f>>}, {})
  /\ UNCHANGED <<viewVars, form, dataVars, freezeVars, timers, lost, clicks>>

(* Not found or a bad request: no callback, and nothing is shown. *)
Unserved(r) ==
  /\ inflight[r] > 0 /\ ~Served(r)
  /\ Ajax({r}, {})
  /\ UNCHANGED <<viewVars, popupVars, dataVars, freezeVars, timers, lost, clicks>>

(* The connection fails, before or after the server has seen the request. *)
Lose(r) ==
  /\ inflight[r] > 0
  /\ lost' = lost \cup {r[1]} /\ Cardinality(lost') <= MaxLost
  /\ Ajax({r}, {})
  /\ UNCHANGED <<viewVars, popupVars, dataVars, freezeVars, timers, clicks>>

------------------------------------------------------------------------------

UserStep ==
  \/ \E mode \in Wizard : ClickLink(mode)
  \/ ClickAdd \/ ClickClose \/ ClickConfig \/ ClickInfo
  \/ \E mode \in {"dash", "about"} : ClickFooter(mode)
  \/ \E entry \in {"none", "receive", "send"} : OpenAccount(entry)
  \/ OpenUnfreezing
  \/ \E entry \in Menu \ {"none"} : ClickToggle(entry)
  \/ \E f \in Form \cup {NoForm} : Fill(f)
  \/ \E layer \in Layer : OpenLayer(layer) \/ ClickLayer(layer)

(* The end of a request, one way or the other. *)
Ends(r) ==
  \/ r = createSeed /\ AnswerSeed
  \/ r = createAccount /\ AnswerCreate
  \/ r = getBlocks /\ AnswerTable(r)
  \/ r[1] = "confirmSeed" /\ AnswerConfirm(r[2])
  \/ r[1] = "dashAccount" /\ AnswerDash(r[2])
  \/ r[1] = "getAccount" /\ AnswerAccount(r[2])
  \/ r[1] = "getAccountTransaction" /\ AnswerTable(r)
  \/ r[1] = "sendBos" /\ AnswerSend(r[2])
  \/ Unserved(r)
  \/ Lose(r)

TimeStep == CreateDone \/ LoadingDone

Next ==
  \/ UserStep
  \/ \E r \in Request : Ends(r)
  \/ TimeStep

Spec == Init /\ [][Next]_vars

(* Timeouts fire, and the requests the dashboard and the wizard wait for   *)
(* end; the user need not do anything.                                     *)
Fairness ==
  /\ WF_vars(Ends(createAccount))
  /\ WF_vars(\E p \in Phrase : Ends(<<"confirmSeed", p>>))
  /\ WF_vars(TimeStep)

FairSpec == Spec /\ Fairness

------------------------------------------------------------------------------
(* Safety. *)

(* Type invariant of the page. *)
TypeOK ==
  /\ screen \in {"main", "new"} /\ wizard \in Wizard /\ layout \in Layout /\ menu \in Menu
  /\ layers \subseteq Layer /\ form \in Form \cup {NoForm}
  /\ phrase \in Phrase /\ address \in Address
  /\ sections \in Seq(BOOLEAN)
  /\ frozen \in BOOLEAN /\ wish \in {"none", "early", "settled"}
  /\ timers \in [create : Nat, done : Nat]
  /\ inflight \in [Request -> Nat]
  /\ clicks \in Nat

Confirming == inflight[<<"confirmSeed", Blank>>] + inflight[<<"confirmSeed", "words">>]

(* The page waits for one thing at a time, on the screen that says so:     *)
(* no timeout and no answer to confirmSeed ever moves a user who has left  *)
(* the wizard, or come back to another step of it (common.js:76 and 101).  *)
WaitOwnsScreen ==
  /\ timers.create + timers.done + Confirming <= 1
  /\ timers.create > 0 => screen = "new" /\ wizard = "create"
  /\ timers.done + Confirming > 0 => screen = "new" /\ wizard = "loading"

(* No account is asked for before its address has come: a request without  *)
(* one matches no route, and its view would stay empty for good            *)
(* (common.js:139, 159 and 208).                                           *)
AddressKnown == \A op \in AboutAccount : inflight[<<op, Blank>>] = 0

(* However many createAccounts a hasty user has started, and however their *)
(* answers come, an entry without its balance is waiting for it, unless a  *)
(* request for it has failed (common.js:131).                              *)
Settled ==
  \A i \in 1 .. Len(sections) :
    \/ sections[i]
    \/ inflight[<<"dashAccount", "account">>] > 0
    \/ "dashAccount" \in lost

(* The freezing of an account is kept by the page alone: getAccount always *)
(* answers that it is not frozen (common.js:154).  A freeze asked for when *)
(* no such answer is under way lasts until the user unfreezes the account  *)
(* or opens it again, whatever else is answered meanwhile; one asked for   *)
(* earlier lasts only as long as the answer is on its way, or is lost.     *)
FreezeKept ==
  /\ wish = "settled" => frozen
  /\ wish = "early" /\ frozen => inflight[theAccount] > 0 \/ "getAccount" \in lost

(* The outcome of a send goes away unseen only under a layer for the       *)
(* backup, or, if it was accepted, under that of another send: the popup   *)
(* closes all its layers at once (common.js:183, main.html:472-505).       *)
OutcomeIsSeen ==
  [][ \A layer \in {"send-bos-ok", "send-bos-cancel"} :
        layer \in layers /\ layer \notin layers'
          => \/ OnTop(layer)
             \/ \E other \in Backup : OnTop(other)
             \/ layer = "send-bos-ok" /\ OnTop("send-bos-cancel") ]_vars

(* main.html:214 labels the memo "*Option": a send with a receiver and an  *)
(* amount needs none.                                                      *)
MemoIsOptional ==
  [][ \A f \in Form :
        /\ f.receiver = "words" /\ f.amount = "number" /\ f.memo = "empty"
        /\ inflight'[<<"sendBos", f>>] < inflight[<<"sendBos", f>>] /\ lost' = lost
        => "send-bos-ok" \in layers' ]_vars

------------------------------------------------------------------------------
(* Liveness. *)

(* The wizard ends on the dashboard, unless the confirmation is lost. *)
LoadingEnds ==
  screen = "new" /\ wizard = "loading" ~> screen = "main" \/ "confirmSeed" \in lost

(* The dashboard gets its account, whatever the user does meanwhile. *)
AccountAppears == <>(sections # <<>> \/ "createAccount" \in lost)
==============================================================================
