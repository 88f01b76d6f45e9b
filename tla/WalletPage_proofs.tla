-------------------------- MODULE WalletPage_proofs --------------------------
(***************************************************************************)
(* Theorems about the wallet page, for every set of forms and any number   *)
(* of clicks and of lost requests.                                         *)
(***************************************************************************)
EXTENDS WalletPage, TLAPS

(* What the counters of requests become. *)
LEMMA AjaxCounts ==
  ASSUME inflight \in [Request -> Nat], NEW done, NEW sent, Ajax(done, sent),
         \A r \in done : r \in Request => inflight[r] > 0
  PROVE  /\ inflight' \in [Request -> Nat]
         /\ \A r \in Request : r \in sent /\ r \notin done => inflight'[r] = inflight[r] + 1
         /\ \A r \in Request : r \notin sent /\ r \in done => inflight'[r] = inflight[r] - 1
         /\ \A r \in Request : (r \in sent <=> r \in done) => inflight'[r] = inflight[r]
BY DEF Ajax

LEMMA AjaxOut ==
  ASSUME inflight \in [Request -> Nat], NEW sent, Ajax({}, sent)
  PROVE  \A r \in Request : inflight'[r] = inflight[r] + (IF r \in sent THEN 1 ELSE 0)
BY DEF Ajax

LEMMA AjaxIn ==
  ASSUME inflight \in [Request -> Nat], NEW q \in Request, Ajax({q}, {})
  PROVE  \A r \in Request : inflight'[r] = inflight[r] - (IF r = q THEN 1 ELSE 0)
BY DEF Ajax

(* The requests that the properties name, and what the rest consists of. *)
LEMMA Requests ==
  /\ createSeed \in Request /\ createAccount \in Request /\ getBlocks \in Request
  /\ \A op \in AboutAccount, a \in Address : <<op, a>> \in Request
  /\ \A p \in Phrase : <<"confirmSeed", p>> \in Request
  /\ \A f \in Form \cup {NoForm} : <<"sendBos", f>> \in Request
BY DEF Request

(* The names of what is shown. *)
LEMMA Layers ==
  /\ Layer = {"freezing", "un-freezing", "send-bos", "send-bos-ok", "send-bos-cancel",
              "backup1", "backup2"}
BY DEF Layer, Stack

LEMMA TypeInit == Init => TypeOK
<1> SUFFICES ASSUME Init PROVE TypeOK
  OBVIOUS
<1>1. sections \in Seq(BOOLEAN) /\ layers \subseteq Layer /\ form \in Form \cup {NoForm}
  BY DEF Init
<1>2. inflight \in [Request -> Nat]
  BY DEF Init
<1>3. frozen \in BOOLEAN /\ wish \in {"none", "early", "settled"}
  BY Zenon DEF Init
<1>4. phrase \in Phrase /\ address \in Address
  BY DEF Init, Phrase, Address
<1> QED
  BY <1>1, <1>2, <1>3, <1>4 DEF Init, TypeOK, Wizard, Layout, Menu

(* A user's step keeps the types. *)
LEMMA TypeUser == TypeOK /\ UserStep => TypeOK'
<1> SUFFICES ASSUME TypeOK, UserStep PROVE TypeOK'
  OBVIOUS
<1> USE DEF TypeOK
<1>0. ASSUME NEW sent, Ajax({}, sent) PROVE inflight' \in [Request -> Nat]
  BY <1>0, AjaxCounts
<1>1. ASSUME NEW mode \in Wizard, ClickLink(mode) PROVE TypeOK'
  BY <1>0, <1>1 DEF ClickLink, Clicks, Acts, setLoginMode, popupVars, dataVars, freezeVars
<1>2. CASE ClickAdd
  BY <1>0, <1>2 DEF ClickAdd, At, Clicks, Acts, setLoginMode, popupVars, dataVars, freezeVars, Wizard
<1>3. CASE ClickClose
  BY <1>0, <1>3 DEF ClickClose, At, Clicks, Acts, setLayout, Rest, OtherData, dataVars, freezeVars, Layout
<1>4. CASE ClickConfig
  BY <1>0, <1>4 DEF ClickConfig, At, Clicks, Acts, setLayout, Rest, OtherData, dataVars, freezeVars, Layout
<1>5. CASE ClickInfo
  BY <1>0, <1>5 DEF ClickInfo, At, Clicks, Acts, setLayout, Rest, OtherData, dataVars, freezeVars, Layout
<1>6. ASSUME NEW mode \in {"dash", "about"}, ClickFooter(mode) PROVE TypeOK'
  BY <1>0, <1>6 DEF ClickFooter, Clicks, Acts, setLayout, Rest, OtherData, dataVars, freezeVars, Layout
<1>7. ASSUME NEW entry \in {"none", "receive", "send"}, OpenAccount(entry) PROVE TypeOK'
  BY <1>0, <1>7 DEF OpenAccount, At, Clicks, Acts, setLayout, OtherData, ForgetWish, dataVars, freezeVars, Layout, Menu
<1>8. CASE OpenUnfreezing
  BY <1>0, <1>8, Layers DEF OpenUnfreezing, At, Clicks, Acts, setLayout, OtherData, ForgetWish, dataVars, freezeVars, Layout
<1>9. ASSUME NEW entry \in Menu \ {"none"}, ClickToggle(entry) PROVE TypeOK'
  BY <1>0, <1>9 DEF ClickToggle, At, Clicks, Acts, Rest, OtherData, dataVars, freezeVars, Menu
<1>10. ASSUME NEW f \in Form \cup {NoForm}, Fill(f) PROVE TypeOK'
  BY <1>10 DEF Fill, viewVars, dataVars, freezeVars
<1>11. ASSUME NEW layer \in Layer, OpenLayer(layer) PROVE TypeOK'
  BY <1>11 DEF OpenLayer, Opens, At, Clicks, Acts, Rest, OtherData, viewVars, dataVars, freezeVars
<1>12. ASSUME NEW layer \in Layer, ClickLayer(layer) PROVE TypeOK'
  <2>1. layers' \subseteq Layer /\ inflight' \in [Request -> Nat]
    BY <1>0, <1>12, Layers DEF ClickLayer
  <2>2. frozen' \in BOOLEAN /\ wish' \in {"none", "early", "settled"}
    <3>1. frozen' \in BOOLEAN
      BY <1>12, Zenon DEF ClickLayer
    <3>2. wish' \in {"settled", "early", "none", wish}
      BY <1>12 DEF ClickLayer
    <3> QED BY <3>1, <3>2
  <2>3. clicks' \in Nat /\ UNCHANGED <<viewVars, form, dataVars, timers>>
    BY <1>12 DEF ClickLayer, Acts
  <2> QED
    BY <2>1, <2>2, <2>3 DEF viewVars, dataVars
<1> QED
  BY <1>1, <1>2, <1>3, <1>4, <1>5, <1>6, <1>7, <1>8, <1>9, <1>10, <1>11, <1>12 DEF UserStep

(* So does the end of a request. *)
LEMMA TypeEnds == TypeOK /\ (\E r \in Request : Ends(r)) => TypeOK'
<1> SUFFICES ASSUME TypeOK, NEW r \in Request, Ends(r) PROVE TypeOK'
  OBVIOUS
<1> USE DEF TypeOK
<1>0. ASSUME NEW q \in Request, inflight[q] > 0, NEW sent, Ajax({q}, sent)
      PROVE  inflight' \in [Request -> Nat]
  BY <1>0, AjaxCounts
<1>1. CASE r = createSeed /\ AnswerSeed
  BY <1>0, <1>1 DEF AnswerSeed, Answer, viewVars, popupVars, freezeVars, Phrase
<1>2. CASE r = createAccount /\ AnswerCreate
  BY <1>0, <1>2 DEF AnswerCreate, Answer, viewVars, popupVars, freezeVars, Address
<1>3. CASE AnswerTable(r)
  BY <1>0, <1>3 DEF AnswerTable, Answer, viewVars, popupVars, dataVars, freezeVars
<1>4. CASE r[1] = "confirmSeed" /\ AnswerConfirm(r[2])
  <2>1. r = <<"confirmSeed", r[2]>>
    BY <1>4 DEF Request, createSeed, createAccount, getBlocks, AboutAccount
  <2>2. /\ inflight[<<"confirmSeed", r[2]>>] > 0 /\ Ajax({<<"confirmSeed", r[2]>>}, {})
        /\ timers' = [timers EXCEPT !.done = @ + 1]
    BY <1>4 DEF AnswerConfirm, Answer
  <2>3. inflight[r] > 0 /\ Ajax({r}, {})
    BY <2>1, <2>2
  <2>4. inflight' \in [Request -> Nat]
    BY <1>0, <2>3
  <2>5. timers \in [create : Nat, done : Nat]
    OBVIOUS
  <2>6. timers' \in [create : Nat, done : Nat]
    <3> HIDE DEF TypeOK
    <3> QED
      BY <2>2, <2>5
  <2>7. UNCHANGED <<viewVars, popupVars, dataVars, freezeVars, clicks>>
    BY <1>4 DEF AnswerConfirm
  <2> QED
    BY <2>4, <2>7, <2>6 DEF viewVars, popupVars, dataVars, freezeVars
<1>5. CASE r[1] = "dashAccount" /\ AnswerDash(r[2])
  <2>1. r = <<"dashAccount", r[2]>>
    BY <1>5 DEF Request, createSeed, createAccount, getBlocks
  <2>2. sections' \in Seq(BOOLEAN)
    BY <1>5 DEF AnswerDash
  <2> QED
    BY <1>0, <1>5, <2>1, <2>2 DEF AnswerDash, Answer, viewVars, popupVars, freezeVars
<1>6. CASE r[1] = "getAccount" /\ AnswerAccount(r[2])
  <2>1. r = <<"getAccount", r[2]>> /\ r[2] \in Address
    BY <1>6 DEF Request, createSeed, createAccount, getBlocks
  <2> QED
    BY <1>0, <1>6, <2>1 DEF AnswerAccount, Answer, viewVars, popupVars
<1>7. CASE r[1] = "sendBos" /\ AnswerSend(r[2])
  <2>1. r = <<"sendBos", r[2]>>
    BY <1>7 DEF Request, createSeed, createAccount, getBlocks, AboutAccount
  <2> QED
    BY <1>0, <1>7, <2>1, Layers DEF AnswerSend, Answer, viewVars, dataVars, freezeVars
<1>8. CASE Unserved(r)
  BY <1>0, <1>8 DEF Unserved, viewVars, popupVars, dataVars, freezeVars
<1>9. CASE Lose(r)
  BY <1>0, <1>9 DEF Lose, viewVars, popupVars, dataVars, freezeVars
<1> QED
  BY <1>1, <1>2, <1>3, <1>4, <1>5, <1>6, <1>7, <1>8, <1>9 DEF Ends

LEMMA TypeTime == TypeOK /\ TimeStep => TypeOK'
<1> SUFFICES ASSUME TypeOK, TimeStep PROVE TypeOK'
  OBVIOUS
<1> USE DEF TypeOK
<1>0. ASSUME NEW sent, Ajax({}, sent) PROVE inflight' \in [Request -> Nat]
  BY <1>0, AjaxCounts
<1>1. CASE CreateDone
  <2>1. timers' \in [create : Nat, done : Nat] /\ inflight' \in [Request -> Nat]
    BY <1>0, <1>1 DEF CreateDone
  <2>2. wizard' \in Wizard /\ UNCHANGED <<screen, layout, menu, popupVars, dataVars, freezeVars, clicks>>
    BY <1>1 DEF CreateDone, Wizard
  <2> QED BY <2>1, <2>2 DEF popupVars, dataVars, freezeVars
<1>2. CASE LoadingDone
  <2>1. timers' \in [create : Nat, done : Nat] /\ inflight' \in [Request -> Nat]
    BY <1>0, <1>2 DEF LoadingDone, setLayout
  <2>2. /\ screen' \in {"main", "new"} /\ layout' \in Layout
        /\ UNCHANGED <<wizard, menu, popupVars, dataVars, freezeVars, clicks>>
    BY <1>2 DEF LoadingDone, setLayout, Layout
  <2> QED BY <2>1, <2>2 DEF popupVars, dataVars, freezeVars
<1> QED
  BY <1>1, <1>2 DEF TimeStep

LEMMA TypeStep == TypeOK /\ [Next]_vars => TypeOK'
<1>1. TypeOK /\ UNCHANGED vars => TypeOK'
  BY DEF TypeOK, vars
<1> QED
  BY <1>1, TypeUser, TypeEnds, TypeTime DEF Next

(* The state of the page is well typed: no timeout fires that is not       *)
(* running, and no request ends that is not under way.                     *)
THEOREM PageTypeCorrect == Spec => []TypeOK
  BY TypeInit, TypeStep, PTL DEF Spec

------------------------------------------------------------------------------
(* Waiting. *)

(* A step that leaves the wizard, the timeouts and the confirmations alone. *)
Idle ==
  /\ UNCHANGED <<screen, wizard, timers>>
  /\ \A p \in Phrase : inflight'[<<"confirmSeed", p>>] = inflight[<<"confirmSeed", p>>]

LEMMA IdleKeeps == WaitOwnsScreen /\ Idle => WaitOwnsScreen'
  BY DEF WaitOwnsScreen, Idle, Confirming, Phrase, Blank

LEMMA ConfirmType ==
  TypeOK => /\ Blank \in Phrase /\ "words" \in Phrase
            /\ inflight \in [Request -> Nat]
            /\ timers.create \in Nat /\ timers.done \in Nat /\ Confirming \in Nat
            /\ \A p \in Phrase : inflight[<<"confirmSeed", p>>] \in Nat
<1> SUFFICES ASSUME TypeOK
             PROVE  /\ Blank \in Phrase /\ "words" \in Phrase
                    /\ inflight \in [Request -> Nat]
                    /\ timers.create \in Nat /\ timers.done \in Nat /\ Confirming \in Nat
                    /\ \A p \in Phrase : inflight[<<"confirmSeed", p>>] \in Nat
  OBVIOUS
<1>1. Blank \in Phrase /\ "words" \in Phrase
  BY DEF Phrase
<1>2. inflight \in [Request -> Nat] /\ timers.create \in Nat /\ timers.done \in Nat
  BY DEF TypeOK
<1>3. \A p \in Phrase : inflight[<<"confirmSeed", p>>] \in Nat
  BY <1>2, Requests
<1> QED
  BY <1>1, <1>2, <1>3 DEF Confirming

(* No view asks for a confirmation. *)
LEMMA NoConfirm ==
  ASSUME TypeOK, NEW sent, Ajax({}, sent), \A p \in Phrase : <<"confirmSeed", p>> \notin sent
  PROVE  \A p \in Phrase : inflight'[<<"confirmSeed", p>>] = inflight[<<"confirmSeed", p>>]
<1>1. \A r \in Request : r \notin sent => inflight'[r] = inflight[r]
  BY AjaxOut, ConfirmType
<1> QED
  BY <1>1, Requests

LEMMA AsksNoConfirm == \A mode : \A p \in Phrase : <<"confirmSeed", p>> \notin Asks(mode)
  BY DEF Asks, createAccount, getBlocks

LEMMA WaitLogin ==
  ASSUME TypeOK, WaitOwnsScreen, NEW mode \in Wizard, setLoginMode(mode),
         \/ screen = "new" /\ mode \in Links(wizard)
         \/ screen = "main" /\ mode = "create"
  PROVE  WaitOwnsScreen'
<1>0. screen \in {"main", "new"} /\ phrase \in Phrase /\ timers \in [create : Nat, done : Nat]
  BY DEF TypeOK
<1>1. timers.create = 0 /\ timers.done = 0 /\ Confirming = 0
  BY ConfirmType DEF WaitOwnsScreen, Links
<1>2. CASE mode = "loading"
  <2>1. screen = "new" /\ screen' = "new" /\ wizard' = "loading" /\ timers' = timers
    BY <1>2 DEF setLoginMode
  <2>2. \A p \in Phrase : <<"confirmSeed", p>> \in LoginAsks(mode) <=> p = phrase
    BY <1>2, Requests DEF LoginAsks, createSeed
  <2>3. \A p \in Phrase : inflight'[<<"confirmSeed", p>>]
                           = inflight[<<"confirmSeed", p>>] + (IF p = phrase THEN 1 ELSE 0)
    BY <2>2, ConfirmType, Requests, AjaxOut DEF setLoginMode
  <2>4. phrase = Blank \/ phrase = "words"
    BY <1>0 DEF Phrase
  <2>5. Blank # "words"
    BY DEF Blank
  <2>6. Confirming' = 1
    BY <1>1, <2>3, <2>4, <2>5, ConfirmType DEF Confirming
  <2> QED
    BY <1>1, <2>1, <2>6 DEF WaitOwnsScreen
<1>3. CASE mode # "loading"
  <2>1. \A p \in Phrase : <<"confirmSeed", p>> \notin LoginAsks(mode)
    BY <1>3 DEF LoginAsks, createSeed
  <2>2. Confirming' = 0
    BY <1>1, <2>1, NoConfirm, ConfirmType DEF Confirming, setLoginMode
  <2>3. mode = "create" => screen' = "new"
    BY DEF setLoginMode
  <2> QED
    BY <1>0, <1>1, <1>3, <2>2, <2>3 DEF WaitOwnsScreen, setLoginMode
<1> QED
  BY <1>2, <1>3

LEMMA WaitUser == TypeOK /\ WaitOwnsScreen /\ UserStep => WaitOwnsScreen'
<1> SUFFICES ASSUME TypeOK, WaitOwnsScreen, UserStep PROVE WaitOwnsScreen'
  OBVIOUS
<1>0. ASSUME NEW mode, setLayout(mode), UNCHANGED <<screen, wizard, timers>>
      PROVE  WaitOwnsScreen'
  BY <1>0, NoConfirm, AsksNoConfirm, IdleKeeps DEF setLayout, Idle
<1>1. ASSUME NEW mode \in Wizard, ClickLink(mode) PROVE WaitOwnsScreen'
  BY <1>1, WaitLogin DEF ClickLink
<1>2. CASE ClickAdd
  BY <1>2, WaitLogin DEF ClickAdd, At, Wizard
<1>3. CASE ClickClose
  BY <1>0, <1>3 DEF ClickClose, Rest, OtherData
<1>4. CASE ClickConfig
  BY <1>0, <1>4 DEF ClickConfig, Rest, OtherData
<1>5. CASE ClickInfo
  BY <1>0, <1>5 DEF ClickInfo, Rest, OtherData
<1>6. ASSUME NEW mode \in {"dash", "about"}, ClickFooter(mode) PROVE WaitOwnsScreen'
  BY <1>0, <1>6 DEF ClickFooter, Rest, OtherData
<1>7. ASSUME NEW entry \in {"none", "receive", "send"}, OpenAccount(entry) PROVE WaitOwnsScreen'
  BY <1>0, <1>7 DEF OpenAccount, OtherData, ForgetWish
<1>8. CASE OpenUnfreezing
  BY <1>0, <1>8 DEF OpenUnfreezing, OtherData, ForgetWish
<1>9. ASSUME NEW entry \in Menu \ {"none"}, ClickToggle(entry) PROVE WaitOwnsScreen'
  <2> DEFINE sent == {r \in Request : r = <<"getAccountTransaction", address>>
                                     /\ entry = "transaction" /\ menu # entry}
  <2>1. Ajax({}, sent) /\ UNCHANGED <<screen, wizard, timers>>
    BY <1>9 DEF ClickToggle, Rest, OtherData
  <2>2. \A p \in Phrase : <<"confirmSeed", p>> \notin sent
    OBVIOUS
  <2> HIDE DEF sent
  <2> QED
    BY <2>1, <2>2, NoConfirm, IdleKeeps DEF Idle
<1>10. ASSUME NEW f \in Form \cup {NoForm}, Fill(f) PROVE WaitOwnsScreen'
  BY <1>10, IdleKeeps DEF Fill, viewVars, Idle
<1>11. ASSUME NEW layer \in Layer, OpenLayer(layer) PROVE WaitOwnsScreen'
  BY <1>11, IdleKeeps DEF OpenLayer, Rest, OtherData, viewVars, Idle
<1>12. ASSUME NEW layer \in Layer, ClickLayer(layer) PROVE WaitOwnsScreen'
  <2> DEFINE sent == {r \in Request : r = <<"sendBos", form>> /\ layer = "send-bos"}
  <2>1. Ajax({}, sent) /\ UNCHANGED <<screen, wizard, timers>>
    BY <1>12 DEF ClickLayer, viewVars
  <2>2. \A p \in Phrase : <<"confirmSeed", p>> \notin sent
    OBVIOUS
  <2> HIDE DEF sent
  <2> QED
    BY <2>1, <2>2, NoConfirm, IdleKeeps DEF Idle
<1> QED
  BY <1>1, <1>2, <1>3, <1>4, <1>5, <1>6, <1>7, <1>8, <1>9, <1>10, <1>11, <1>12 DEF UserStep

LEMMA WaitTime == TypeOK /\ WaitOwnsScreen /\ TimeStep => WaitOwnsScreen'
<1> SUFFICES ASSUME TypeOK, WaitOwnsScreen, TimeStep PROVE WaitOwnsScreen'
  OBVIOUS
<1>0. timers \in [create : Nat, done : Nat]
  BY DEF TypeOK
<1>1. CASE CreateDone
  <2>1. \A p \in Phrase : <<"confirmSeed", p>> \notin {createSeed}
    BY DEF createSeed
  <2>2. Confirming' = Confirming
    BY <1>1, <2>1, NoConfirm, ConfirmType DEF CreateDone, Confirming
  <2> QED
    BY <1>0, <1>1, <2>2, ConfirmType DEF CreateDone, WaitOwnsScreen
<1>2. CASE LoadingDone
  <2>1. Confirming' = Confirming
    BY <1>2, NoConfirm, AsksNoConfirm, ConfirmType DEF LoadingDone, setLayout, Confirming
  <2> QED
    BY <1>0, <1>2, <2>1, ConfirmType DEF LoadingDone, WaitOwnsScreen
<1> QED
  BY <1>1, <1>2 DEF TimeStep

LEMMA WaitEnds == TypeOK /\ WaitOwnsScreen /\ (\E r \in Request : Ends(r)) => WaitOwnsScreen'
<1> SUFFICES ASSUME TypeOK, WaitOwnsScreen, NEW r \in Request, Ends(r) PROVE WaitOwnsScreen'
  OBVIOUS
<1>a. timers \in [create : Nat, done : Nat]
  BY DEF TypeOK
<1>0. ASSUME inflight[r] > 0, Ajax({r}, {}), UNCHANGED <<screen, wizard, timers>>
      PROVE  WaitOwnsScreen'
  <2>1. \A q \in Request : inflight'[q] \in Nat /\ inflight'[q] <= inflight[q]
    BY <1>0, ConfirmType, AjaxCounts
  <2>2. Confirming' \in Nat /\ Confirming' <= Confirming
    BY <2>1, ConfirmType, Requests DEF Confirming
  <2> QED
    BY <1>0, <2>2, ConfirmType DEF WaitOwnsScreen
<1>1. CASE r = createSeed /\ AnswerSeed
  BY <1>0, <1>1 DEF AnswerSeed, Answer, viewVars
<1>2. CASE r = createAccount /\ AnswerCreate
  <2>1. /\ inflight[createAccount] > 0
        /\ Ajax({createAccount}, {<<"dashAccount", "account">>})
        /\ UNCHANGED <<screen, wizard, timers>>
    BY <1>2 DEF AnswerCreate, Answer, viewVars
  <2>2. \A p \in Phrase : <<"confirmSeed", p>> \notin {createAccount, <<"dashAccount", "account">>}
    BY DEF createAccount
  <2>3. \A p \in Phrase : inflight'[<<"confirmSeed", p>>] = inflight[<<"confirmSeed", p>>]
    <3>1. \A q \in Request : q \notin {createAccount, <<"dashAccount", "account">>}
                             => inflight'[q] = inflight[q]
      BY <2>1, ConfirmType, AjaxCounts
    <3> QED
      BY <2>2, <3>1, Requests
  <2> QED
    BY <2>1, <2>3, IdleKeeps DEF Idle
<1>3. CASE AnswerTable(r)
  BY <1>0, <1>3 DEF AnswerTable, Answer, viewVars
<1>4. CASE r[1] = "confirmSeed" /\ AnswerConfirm(r[2])
  <2>1. r = <<"confirmSeed", r[2]>> /\ r[2] \in Phrase
    BY <1>4 DEF Request, createSeed, createAccount, getBlocks, AboutAccount
  <2>2. inflight[r] > 0 /\ Ajax({r}, {}) /\ UNCHANGED <<screen, wizard>>
        /\ timers' = [timers EXCEPT !.done = @ + 1]
    BY <1>4, <2>1 DEF AnswerConfirm, Answer, viewVars
  <2>3. \A p \in Phrase : inflight'[<<"confirmSeed", p>>]
                           = inflight[<<"confirmSeed", p>>] - (IF p = r[2] THEN 1 ELSE 0)
    BY <2>1, <2>2, AjaxIn, Requests, ConfirmType
  <2>4. r[2] = Blank \/ r[2] = "words"
    BY <2>1 DEF Phrase
  <2>5. Blank # "words"
    BY DEF Blank
  <2>6. Confirming' = Confirming - 1
    BY <2>3, <2>4, <2>5, ConfirmType DEF Confirming
  <2>7. Confirming > 0
    BY <2>1, <2>2, <2>4, ConfirmType DEF Confirming
  <2> QED
    BY <1>a, <2>2, <2>6, <2>7, ConfirmType DEF WaitOwnsScreen
<1>5. CASE r[1] = "dashAccount" /\ AnswerDash(r[2])
  <2>1. r = <<"dashAccount", r[2]>>
    BY <1>5 DEF Request, createSeed, createAccount, getBlocks
  <2> QED
    BY <1>0, <1>5, <2>1 DEF AnswerDash, Answer, viewVars
<1>6. CASE r[1] = "getAccount" /\ AnswerAccount(r[2])
  <2>1. r = <<"getAccount", r[2]>>
    BY <1>6 DEF Request, createSeed, createAccount, getBlocks
  <2> QED
    BY <1>0, <1>6, <2>1 DEF AnswerAccount, Answer, viewVars
<1>7. CASE r[1] = "sendBos" /\ AnswerSend(r[2])
  <2>1. r = <<"sendBos", r[2]>>
    BY <1>7 DEF Request, createSeed, createAccount, getBlocks, AboutAccount
  <2> QED
    BY <1>0, <1>7, <2>1 DEF AnswerSend, Answer, viewVars
<1>8. CASE Unserved(r)
  BY <1>0, <1>8 DEF Unserved, viewVars
<1>9. CASE Lose(r)
  BY <1>0, <1>9 DEF Lose, viewVars
<1> QED
  BY <1>1, <1>2, <1>3, <1>4, <1>5, <1>6, <1>7, <1>8, <1>9 DEF Ends

(* The page waits for one thing at a time and on the screen that says so,  *)
(* since neither of the two screens that wait has a link.                  *)
THEOREM WaitOwnsScreenHolds == Spec => []WaitOwnsScreen
<1>1. Init => WaitOwnsScreen
  <2> SUFFICES ASSUME Init PROVE WaitOwnsScreen
    OBVIOUS
  <2>1. \A p \in Phrase : inflight[<<"confirmSeed", p>>] = 0
    BY Requests DEF Init, createAccount
  <2>2. Confirming = 0
    BY <2>1, TypeInit, ConfirmType DEF Confirming
  <2> QED
    BY <2>2 DEF Init, WaitOwnsScreen
<1>2. TypeOK /\ WaitOwnsScreen /\ [Next]_vars => WaitOwnsScreen'
  <2>1. TypeOK /\ WaitOwnsScreen /\ UNCHANGED vars => WaitOwnsScreen'
    BY DEF WaitOwnsScreen, Confirming, vars
  <2> QED
    BY <2>1, WaitUser, WaitEnds, WaitTime DEF Next
<1> QED
  BY <1>1, <1>2, PageTypeCorrect, PTL DEF Spec

------------------------------------------------------------------------------
(* The address. *)

(* Why the address is always known: there is no entry to open, and no      *)
(* account view, before it is.                                             *)
KnownFirst == address = Blank => sections = <<>> /\ layout # "account"

LEMMA BlankRequests == \A op \in AboutAccount : <<op, Blank>> \in Request
  BY Requests DEF Address

(* A step that sends nothing about an unknown account. *)
LEMMA AskedKnown ==
  ASSUME TypeOK, AddressKnown, NEW sent, Ajax({}, sent),
         \A op \in AboutAccount : <<op, Blank>> \notin sent
  PROVE  AddressKnown'
<1>1. \A r \in Request : r \notin sent => inflight'[r] = inflight[r]
  BY AjaxOut, ConfirmType
<1> QED
  BY <1>1, BlankRequests DEF AddressKnown

LEMMA AnsweredKnown ==
  ASSUME TypeOK, AddressKnown, NEW r \in Request, inflight[r] > 0, NEW sent, Ajax({r}, sent),
         \A op \in AboutAccount : <<op, Blank>> \notin sent
  PROVE  AddressKnown'
<1>1. \A op \in AboutAccount : <<op, Blank>> # r
  BY DEF AddressKnown
<1>2. \A q \in Request : q \notin sent /\ q \notin {r} => inflight'[q] = inflight[q]
  BY AjaxCounts, ConfirmType
<1> QED
  BY <1>1, <1>2, BlankRequests DEF AddressKnown

LEMMA AsksKnown ==
  \A mode : (mode = "account" => address # Blank)
            => \A op \in AboutAccount : <<op, Blank>> \notin Asks(mode)
  BY DEF Asks, createAccount, getBlocks, AboutAccount

LEMMA KnownUser == TypeOK /\ AddressKnown /\ KnownFirst /\ UserStep => AddressKnown' /\ KnownFirst'
<1> SUFFICES ASSUME TypeOK, AddressKnown, KnownFirst, UserStep PROVE AddressKnown' /\ KnownFirst'
  OBVIOUS
<1>0. ASSUME NEW mode, setLayout(mode), mode = "account" => address # Blank,
             UNCHANGED <<address, sections>>
      PROVE  AddressKnown' /\ KnownFirst'
  <2>1. AddressKnown'
    BY <1>0, AskedKnown, AsksKnown DEF setLayout
  <2>2. KnownFirst'
    BY <1>0 DEF setLayout, KnownFirst
  <2> QED
    BY <2>1, <2>2
<1>a. ASSUME NEW mode, setLoginMode(mode), UNCHANGED <<address, sections, layout>>
      PROVE  AddressKnown' /\ KnownFirst'
  <2>1. \A op \in AboutAccount : <<op, Blank>> \notin LoginAsks(mode)
    BY DEF LoginAsks, createSeed, AboutAccount
  <2> QED
    BY <1>a, <2>1, AskedKnown DEF setLoginMode, KnownFirst
<1>1. ASSUME NEW mode \in Wizard, ClickLink(mode) PROVE AddressKnown' /\ KnownFirst'
  BY <1>1, <1>a DEF ClickLink, dataVars
<1>2. CASE ClickAdd
  BY <1>2, <1>a DEF ClickAdd, dataVars
<1>3. CASE ClickClose
  BY <1>0, <1>3 DEF ClickClose, Rest, OtherData, dataVars
<1>4. CASE ClickConfig
  BY <1>0, <1>4 DEF ClickConfig, Rest, OtherData, dataVars
<1>5. CASE ClickInfo
  BY <1>0, <1>5 DEF ClickInfo, Rest, OtherData, dataVars
<1>6. ASSUME NEW mode \in {"dash", "about"}, ClickFooter(mode) PROVE AddressKnown' /\ KnownFirst'
  BY <1>0, <1>6 DEF ClickFooter, Rest, OtherData, dataVars
<1>7. ASSUME NEW entry \in {"none", "receive", "send"}, OpenAccount(entry)
      PROVE  AddressKnown' /\ KnownFirst'
  BY <1>0, <1>7 DEF OpenAccount, KnownFirst, OtherData, ForgetWish, dataVars
<1>8. CASE OpenUnfreezing
  BY <1>0, <1>8 DEF OpenUnfreezing, KnownFirst, OtherData, ForgetWish, dataVars
<1>9. ASSUME NEW entry \in Menu \ {"none"}, ClickToggle(entry) PROVE AddressKnown' /\ KnownFirst'
  <2> DEFINE sent == {r \in Request : r = <<"getAccountTransaction", address>>
                                     /\ entry = "transaction" /\ menu # entry}
  <2>1. Ajax({}, sent) /\ UNCHANGED <<address, sections, layout>> /\ address # Blank
    BY <1>9 DEF ClickToggle, At, KnownFirst, Rest, OtherData, dataVars
  <2>2. \A op \in AboutAccount : <<op, Blank>> \notin sent
    BY <2>1
  <2> HIDE DEF sent
  <2> QED
    BY <2>1, <2>2, AskedKnown DEF KnownFirst
<1>10. ASSUME NEW f \in Form \cup {NoForm}, Fill(f) PROVE AddressKnown' /\ KnownFirst'
  BY <1>10 DEF Fill, viewVars, dataVars, AddressKnown, KnownFirst
<1>11. ASSUME NEW layer \in Layer, OpenLayer(layer) PROVE AddressKnown' /\ KnownFirst'
  BY <1>11 DEF OpenLayer, Rest, OtherData, viewVars, dataVars, AddressKnown, KnownFirst
<1>12. ASSUME NEW layer \in Layer, ClickLayer(layer) PROVE AddressKnown' /\ KnownFirst'
  <2> DEFINE sent == {r \in Request : r = <<"sendBos", form>> /\ layer = "send-bos"}
  <2>1. Ajax({}, sent) /\ UNCHANGED <<address, sections, layout>>
    BY <1>12 DEF ClickLayer, viewVars, dataVars
  <2>2. \A op \in AboutAccount : <<op, Blank>> \notin sent
    BY DEF AboutAccount
  <2> HIDE DEF sent
  <2> QED
    BY <2>1, <2>2, AskedKnown DEF KnownFirst
<1> QED
  BY <1>1, <1>2, <1>3, <1>4, <1>5, <1>6, <1>7, <1>8, <1>9, <1>10, <1>11, <1>12 DEF UserStep

LEMMA KnownTime == TypeOK /\ AddressKnown /\ KnownFirst /\ TimeStep => AddressKnown' /\ KnownFirst'
<1> SUFFICES ASSUME TypeOK, AddressKnown, KnownFirst, TimeStep PROVE AddressKnown' /\ KnownFirst'
  OBVIOUS
<1>1. CASE CreateDone
  <2>1. \A op \in AboutAccount : <<op, Blank>> \notin {createSeed}
    BY DEF createSeed, AboutAccount
  <2> QED
    BY <1>1, <2>1, AskedKnown DEF CreateDone, KnownFirst, dataVars
<1>2. CASE LoadingDone
  BY <1>2, AskedKnown, AsksKnown DEF LoadingDone, setLayout, KnownFirst, dataVars
<1> QED
  BY <1>1, <1>2 DEF TimeStep

LEMMA KnownEnds ==
  TypeOK /\ AddressKnown /\ KnownFirst /\ (\E r \in Request : Ends(r)) => AddressKnown' /\ KnownFirst'
<1> SUFFICES ASSUME TypeOK, AddressKnown, KnownFirst, NEW r \in Request, Ends(r)
             PROVE  AddressKnown' /\ KnownFirst'
  OBVIOUS
<1>0. ASSUME inflight[r] > 0, Ajax({r}, {}) PROVE AddressKnown'
  BY <1>0, AnsweredKnown
<1>a. ASSUME UNCHANGED <<address, sections, layout>> PROVE KnownFirst'
  BY <1>a DEF KnownFirst
<1>1. CASE r = createSeed /\ AnswerSeed
  BY <1>0, <1>1, <1>a DEF AnswerSeed, Answer, viewVars
<1>2. CASE r = createAccount /\ AnswerCreate
  <2>1. \A op \in AboutAccount : <<op, Blank>> \notin {<<"dashAccount", "account">>}
    BY DEF Blank
  <2>2. AddressKnown'
    BY <1>2, <2>1, AnsweredKnown DEF AnswerCreate, Answer
  <2>3. KnownFirst'
    BY <1>2 DEF AnswerCreate, KnownFirst, Blank
  <2> QED
    BY <2>2, <2>3
<1>3. CASE AnswerTable(r)
  BY <1>0, <1>3, <1>a DEF AnswerTable, Answer, viewVars, dataVars
<1>4. CASE r[1] = "confirmSeed" /\ AnswerConfirm(r[2])
  <2>1. r = <<"confirmSeed", r[2]>>
    BY <1>4 DEF Request, createSeed, createAccount, getBlocks, AboutAccount
  <2> QED
    BY <1>0, <1>4, <1>a, <2>1 DEF AnswerConfirm, Answer, viewVars, dataVars
<1>5. CASE r[1] = "dashAccount" /\ AnswerDash(r[2])
  <2>1. r = <<"dashAccount", r[2]>>
    BY <1>5 DEF Request, createSeed, createAccount, getBlocks
  <2>2. AddressKnown'
    BY <1>0, <1>5, <2>1 DEF AnswerDash, Answer
  <2>3. sections = <<>> => sections' = <<>>
    BY <1>5 DEF AnswerDash
  <2>4. UNCHANGED <<address, layout>>
    BY <1>5 DEF AnswerDash, viewVars
  <2> QED
    BY <2>2, <2>3, <2>4 DEF KnownFirst
<1>6. CASE r[1] = "getAccount" /\ AnswerAccount(r[2])
  <2>1. r = <<"getAccount", r[2]>>
    BY <1>6 DEF Request, createSeed, createAccount, getBlocks
  <2>2. AddressKnown'
    BY <1>0, <1>6, <2>1 DEF AnswerAccount, Answer
  <2>3. r[2] # Blank
    BY <1>6, <2>1 DEF AnswerAccount, Answer, Served, AboutAccount
  <2> QED
    BY <1>6, <2>2, <2>3 DEF AnswerAccount, KnownFirst
<1>7. CASE r[1] = "sendBos" /\ AnswerSend(r[2])
  <2>1. r = <<"sendBos", r[2]>>
    BY <1>7 DEF Request, createSeed, createAccount, getBlocks, AboutAccount
  <2> QED
    BY <1>0, <1>7, <1>a, <2>1 DEF AnswerSend, Answer, viewVars, dataVars
<1>8. CASE Unserved(r)
  BY <1>0, <1>8, <1>a DEF Unserved, viewVars, dataVars
<1>9. CASE Lose(r)
  BY <1>0, <1>9, <1>a DEF Lose, viewVars, dataVars
<1> QED
  BY <1>1, <1>2, <1>3, <1>4, <1>5, <1>6, <1>7, <1>8, <1>9 DEF Ends

(* No request for an account is sent without its address. *)
THEOREM AddressKnownHolds == Spec => []AddressKnown
<1>1. Init => AddressKnown /\ KnownFirst
  BY BlankRequests DEF Init, AddressKnown, KnownFirst, createAccount, AboutAccount
<1>2. TypeOK /\ AddressKnown /\ KnownFirst /\ [Next]_vars => AddressKnown' /\ KnownFirst'
  <2>1. TypeOK /\ AddressKnown /\ KnownFirst /\ UNCHANGED vars => AddressKnown' /\ KnownFirst'
    BY DEF AddressKnown, KnownFirst, vars
  <2> QED
    BY <2>1, KnownUser, KnownEnds, KnownTime DEF Next
<1> QED
  BY <1>1, <1>2, PageTypeCorrect, PTL DEF Spec

------------------------------------------------------------------------------
(* The balance of every entry. *)

balance == <<"dashAccount", "account">>

LEMMA BalanceType == TypeOK => balance \in Request /\ inflight[balance] \in Nat
  BY Requests DEF TypeOK, balance, AboutAccount, Address

(* A step that answers nothing leaves the request under way. *)
LEMMA SettledSent ==
  ASSUME TypeOK, Settled, NEW sent, Ajax({}, sent), UNCHANGED <<sections, lost>>
  PROVE  Settled'
<1>1. inflight \in [Request -> Nat] /\ balance \in Request /\ inflight[balance] \in Nat
  BY BalanceType, ConfirmType
<1>2. inflight'[balance] = inflight[balance] \/ inflight'[balance] = inflight[balance] + 1
  BY <1>1, AjaxOut
<1>3. inflight[balance] > 0 => inflight'[balance] > 0
  BY <1>1, <1>2
<1> QED
  BY <1>3 DEF Settled, balance

LEMMA SettledAnswered ==
  ASSUME TypeOK, Settled, NEW r \in Request, inflight[r] > 0, r # balance, Ajax({r}, {}),
         UNCHANGED sections, lost \subseteq lost'
  PROVE  Settled'
<1>1. inflight \in [Request -> Nat] /\ balance \in Request
  BY BalanceType, ConfirmType
<1>2. inflight'[balance] = inflight[balance]
  BY <1>1, AjaxCounts
<1> QED
  BY <1>2 DEF Settled, balance

LEMMA SettledUser == TypeOK /\ Settled /\ UserStep => Settled'
<1> SUFFICES ASSUME TypeOK, Settled, UserStep PROVE Settled'
  OBVIOUS
<1>1. ASSUME NEW mode \in Wizard, ClickLink(mode) PROVE Settled'
  BY <1>1, SettledSent DEF ClickLink, setLoginMode, dataVars
<1>2. CASE ClickAdd
  BY <1>2, SettledSent DEF ClickAdd, setLoginMode, dataVars
<1>3. CASE ClickClose
  BY <1>3, SettledSent DEF ClickClose, setLayout, Rest, OtherData, dataVars
<1>4. CASE ClickConfig
  BY <1>4, SettledSent DEF ClickConfig, setLayout, Rest, OtherData, dataVars
<1>5. CASE ClickInfo
  BY <1>5, SettledSent DEF ClickInfo, setLayout, Rest, OtherData, dataVars
<1>6. ASSUME NEW mode \in {"dash", "about"}, ClickFooter(mode) PROVE Settled'
  BY <1>6, SettledSent DEF ClickFooter, setLayout, Rest, OtherData, dataVars
<1>7. ASSUME NEW entry \in {"none", "receive", "send"}, OpenAccount(entry) PROVE Settled'
  BY <1>7, SettledSent DEF OpenAccount, setLayout, OtherData, ForgetWish, dataVars
<1>8. CASE OpenUnfreezing
  BY <1>8, SettledSent DEF OpenUnfreezing, setLayout, OtherData, ForgetWish, dataVars
<1>9. ASSUME NEW entry \in Menu \ {"none"}, ClickToggle(entry) PROVE Settled'
  BY <1>9, SettledSent DEF ClickToggle, Rest, OtherData, dataVars
<1>10. ASSUME NEW f \in Form \cup {NoForm}, Fill(f) PROVE Settled'
  BY <1>10 DEF Fill, dataVars, Settled
<1>11. ASSUME NEW layer \in Layer, OpenLayer(layer) PROVE Settled'
  BY <1>11 DEF OpenLayer, Rest, OtherData, dataVars, Settled
<1>12. ASSUME NEW layer \in Layer, ClickLayer(layer) PROVE Settled'
  BY <1>12, SettledSent DEF ClickLayer, dataVars
<1> QED
  BY <1>1, <1>2, <1>3, <1>4, <1>5, <1>6, <1>7, <1>8, <1>9, <1>10, <1>11, <1>12 DEF UserStep

LEMMA SettledEnds == TypeOK /\ Settled /\ (\E r \in Request : Ends(r)) => Settled'
<1> SUFFICES ASSUME TypeOK, Settled, NEW r \in Request, Ends(r) PROVE Settled'
  OBVIOUS
<1>0. sections \in Seq(BOOLEAN) /\ inflight \in [Request -> Nat]
  BY DEF TypeOK
<1>1. CASE r = createSeed /\ AnswerSeed
  BY <1>1, SettledAnswered DEF AnswerSeed, Answer, createSeed, balance
<1>2. CASE r = createAccount /\ AnswerCreate
  <2>1. inflight[createAccount] > 0 /\ Ajax({createAccount}, {balance})
    BY <1>2 DEF AnswerCreate, Answer, balance
  <2>2. balance \notin {createAccount}
    BY DEF balance, createAccount
  <2>3. inflight'[balance] = inflight[balance] + 1
    BY <1>0, <1>2, <2>1, <2>2, AjaxCounts, BalanceType
  <2>4. inflight'[balance] > 0
    BY <2>3, BalanceType
  <2> QED
    BY <2>4 DEF Settled, balance
<1>3. CASE r[1] # "dashAccount" /\ AnswerTable(r)
  BY <1>3, SettledAnswered DEF AnswerTable, Answer, dataVars, balance
<1>4. CASE r[1] = "confirmSeed" /\ AnswerConfirm(r[2])
  <2>1. r = <<"confirmSeed", r[2]>> /\ r # balance
    BY <1>4 DEF Request, createSeed, createAccount, getBlocks, AboutAccount, balance
  <2> QED
    BY <1>4, <2>1, SettledAnswered DEF AnswerConfirm, Answer, dataVars
<1>5. CASE r[1] = "dashAccount" /\ AnswerDash(r[2])
  BY <1>0, <1>5 DEF AnswerDash, Settled
<1>6. CASE r[1] = "getAccount" /\ AnswerAccount(r[2])
  <2>1. r = <<"getAccount", r[2]>> /\ r # balance
    BY <1>6 DEF Request, createSeed, createAccount, getBlocks, balance
  <2> QED
    BY <1>6, <2>1, SettledAnswered DEF AnswerAccount, Answer
<1>7. CASE r[1] = "sendBos" /\ AnswerSend(r[2])
  <2>1. r = <<"sendBos", r[2]>> /\ r # balance
    BY <1>7 DEF Request, createSeed, createAccount, getBlocks, AboutAccount, balance
  <2> QED
    BY <1>7, <2>1, SettledAnswered DEF AnswerSend, Answer, dataVars
<1>8. CASE Unserved(r)
  <2>1. Served(balance)
    BY DEF Served, balance, Blank
  <2> QED
    BY <1>8, <2>1, SettledAnswered DEF Unserved, dataVars
<1>9. CASE Lose(r)
  <2>1. CASE r = balance
    BY <1>9, <2>1 DEF Lose, Settled, balance
  <2>2. CASE r # balance
    BY <1>9, <2>2, SettledAnswered DEF Lose, dataVars
  <2> QED
    BY <2>1, <2>2
<1>10. r = getBlocks \/ r[1] = "getAccountTransaction" => r[1] # "dashAccount"
  BY DEF getBlocks
<1> QED
  BY <1>1, <1>2, <1>3, <1>4, <1>5, <1>6, <1>7, <1>8, <1>9, <1>10 DEF Ends

(* An entry without its balance is waiting for it, however many accounts   *)
(* were asked for and in whatever order the answers come.                  *)
THEOREM SettledHolds == Spec => []Settled
<1>1. Init => Settled
  BY DEF Init, Settled
<1>2. TypeOK /\ Settled /\ TimeStep => Settled'
  <2>1. TypeOK /\ Settled /\ CreateDone => Settled'
    BY SettledSent DEF CreateDone, dataVars
  <2>2. TypeOK /\ Settled /\ LoadingDone => Settled'
    BY SettledSent DEF LoadingDone, setLayout, dataVars
  <2> QED
    BY <2>1, <2>2 DEF TimeStep
<1>3. TypeOK /\ Settled /\ [Next]_vars => Settled'
  <2>1. Settled /\ UNCHANGED vars => Settled'
    BY DEF Settled, vars
  <2> QED
    BY <1>2, <2>1, SettledUser, SettledEnds DEF Next
<1> QED
  BY <1>1, <1>3, PageTypeCorrect, PTL DEF Spec

------------------------------------------------------------------------------
(* Freezing and the popup. *)

(* A settled freeze has no answer to come. *)
FreezeInv == FreezeKept /\ (wish = "settled" => inflight[theAccount] = 0)

LEMMA AccountType == TypeOK => theAccount \in Request /\ inflight[theAccount] \in Nat
  BY Requests DEF TypeOK, theAccount, AboutAccount, Address

(* A step that asks for other things, and neither freezes nor unfreezes. *)
LEMMA FreezeSent ==
  ASSUME TypeOK, FreezeInv, NEW sent, Ajax({}, sent), theAccount \notin sent,
         UNCHANGED <<frozen, wish, lost>>
  PROVE  FreezeInv'
<1>1. inflight \in [Request -> Nat] /\ theAccount \in Request
  BY AccountType, ConfirmType
<1>2. inflight'[theAccount] = inflight[theAccount]
  BY <1>1, AjaxCounts
<1> QED BY <1>2 DEF FreezeInv, FreezeKept

(* The end of another request. *)
LEMMA FreezeOther ==
  ASSUME TypeOK, FreezeInv, NEW r \in Request, inflight[r] > 0, r # theAccount,
         NEW sent, theAccount \notin sent, Ajax({r}, sent),
         UNCHANGED <<frozen, wish>>, lost \subseteq lost'
  PROVE  FreezeInv'
<1>1. inflight \in [Request -> Nat] /\ theAccount \in Request
  BY AccountType, ConfirmType
<1>2. inflight'[theAccount] = inflight[theAccount]
  BY <1>1, AjaxCounts
<1> QED BY <1>2 DEF FreezeInv, FreezeKept

(* Only the account view asks for the account. *)
LEMMA AsksElsewhere == \A mode : mode # "account" => theAccount \notin Asks(mode)
BY DEF Asks, theAccount, createAccount, getBlocks

LEMMA LoginAsksElsewhere == \A mode : theAccount \notin LoginAsks(mode)
BY DEF LoginAsks, theAccount, createSeed

LEMMA FreezeUser == TypeOK /\ FreezeInv /\ UserStep => FreezeInv'
<1> SUFFICES ASSUME TypeOK, FreezeInv, UserStep PROVE FreezeInv'
  OBVIOUS
<1>0. ASSUME NEW mode \in {"dash", "block", "config", "about"}, setLayout(mode), Rest
      PROVE  FreezeInv'
  <2>1. theAccount \notin Asks(mode)
    BY AsksElsewhere
  <2> QED BY <1>0, <2>1, FreezeSent DEF setLayout, Rest, OtherData, freezeVars
<1>1. ASSUME NEW mode \in Wizard, ClickLink(mode) PROVE FreezeInv'
  BY <1>1, FreezeSent, LoginAsksElsewhere DEF ClickLink, setLoginMode, freezeVars
<1>2. CASE ClickAdd
  BY <1>2, FreezeSent, LoginAsksElsewhere DEF ClickAdd, setLoginMode, freezeVars
<1>3. CASE ClickClose \/ ClickConfig \/ ClickInfo
  BY <1>0, <1>3 DEF ClickClose, ClickConfig, ClickInfo
<1>4. ASSUME NEW mode \in {"dash", "about"}, ClickFooter(mode) PROVE FreezeInv'
  BY <1>0, <1>4 DEF ClickFooter
<1>5. ASSUME wish' = "none" PROVE FreezeInv'
  BY <1>5 DEF FreezeInv, FreezeKept
<1>6. ASSUME NEW entry \in {"none", "receive", "send"}, OpenAccount(entry) PROVE FreezeInv'
  BY <1>5, <1>6 DEF OpenAccount, ForgetWish
<1>7. CASE OpenUnfreezing
  BY <1>5, <1>7 DEF OpenUnfreezing, ForgetWish
<1>8. ASSUME NEW entry \in Menu \ {"none"}, ClickToggle(entry) PROVE FreezeInv'
  <2> DEFINE sent == {r \in Request : r = <<"getAccountTransaction", address>>
                                      /\ entry = "transaction" /\ menu # entry}
  <2>1. theAccount \notin sent
    BY DEF theAccount
  <2>2. Ajax({}, sent) /\ UNCHANGED <<frozen, wish, lost>>
    BY <1>8 DEF ClickToggle, Rest, OtherData, freezeVars
  <2> HIDE DEF sent
  <2> QED BY <2>1, <2>2, FreezeSent
<1>9. ASSUME NEW f \in Form \cup {NoForm}, Fill(f) PROVE FreezeInv'
  BY <1>9 DEF Fill, freezeVars, FreezeInv, FreezeKept
<1>10. ASSUME NEW layer \in Layer, OpenLayer(layer) PROVE FreezeInv'
  BY <1>10 DEF OpenLayer, Rest, OtherData, freezeVars, FreezeInv, FreezeKept
<1>11. ASSUME NEW layer \in Layer, ClickLayer(layer) PROVE FreezeInv'
  <2> DEFINE sent == {r \in Request : r = <<"sendBos", form>> /\ layer = "send-bos"}
  <2>1. theAccount \notin sent
    BY DEF theAccount
  <2>2. Ajax({}, sent) /\ UNCHANGED lost
    BY <1>11 DEF ClickLayer
  <2> HIDE DEF sent
  <2>3. inflight[theAccount] \in Nat /\ inflight'[theAccount] = inflight[theAccount]
    <3>1. inflight \in [Request -> Nat] /\ theAccount \in Request
      BY AccountType, ConfirmType
    <3> QED BY <2>1, <2>2, <3>1, AjaxCounts
  <2>4. CASE layer = "freezing"
    <3>1. frozen' = TRUE /\ wish' = IF inflight[theAccount] = 0 THEN "settled" ELSE "early"
      BY <1>11, <2>4 DEF ClickLayer
    <3> QED BY <2>3, <3>1 DEF FreezeInv, FreezeKept
  <2>5. CASE layer = "un-freezing"
    BY <1>5, <1>11, <2>5 DEF ClickLayer
  <2>6. CASE layer \notin {"freezing", "un-freezing"}
    <3>1. UNCHANGED <<frozen, wish>>
      BY <1>11, <2>6 DEF ClickLayer
    <3> QED BY <2>1, <2>2, <3>1, FreezeSent
  <2> QED BY <2>4, <2>5, <2>6
<1> QED
  BY <1>1, <1>2, <1>3, <1>4, <1>6, <1>7, <1>8, <1>9, <1>10, <1>11 DEF UserStep

LEMMA FreezeEnds == TypeOK /\ FreezeInv /\ (\E r \in Request : Ends(r)) => FreezeInv'
<1> SUFFICES ASSUME TypeOK, FreezeInv, NEW r \in Request, Ends(r) PROVE FreezeInv'
  OBVIOUS
<1> USE DEF freezeVars
<1>1. CASE r = createSeed /\ AnswerSeed
  BY <1>1, FreezeOther DEF AnswerSeed, Answer, createSeed, theAccount
<1>2. CASE r = createAccount /\ AnswerCreate
  <2>1. theAccount \notin {<<"dashAccount", "account">>} /\ r # theAccount
    BY <1>2 DEF theAccount, createAccount
  <2> QED BY <1>2, <2>1, FreezeOther DEF AnswerCreate, Answer
<1>3. CASE r[1] # "getAccount" /\ AnswerTable(r)
  BY <1>3, FreezeOther DEF AnswerTable, Answer, theAccount
<1>4. CASE r[1] = "confirmSeed" /\ AnswerConfirm(r[2])
  <2>1. r = <<"confirmSeed", r[2]>> /\ r # theAccount
    BY <1>4 DEF Request, createSeed, createAccount, getBlocks, AboutAccount, theAccount
  <2> QED BY <1>4, <2>1, FreezeOther DEF AnswerConfirm, Answer
<1>5. CASE r[1] = "dashAccount" /\ AnswerDash(r[2])
  <2>1. r = <<"dashAccount", r[2]>> /\ r # theAccount
    BY <1>5 DEF Request, createSeed, createAccount, getBlocks, theAccount
  <2> QED BY <1>5, <2>1, FreezeOther DEF AnswerDash, Answer
<1>6. CASE r[1] = "getAccount" /\ AnswerAccount(r[2])
  <2>1. r = <<"getAccount", r[2]>> /\ r[2] \in Address
    BY <1>6 DEF Request, createSeed, createAccount, getBlocks
  <2>2. inflight[r] > 0 /\ r[2] # Blank /\ frozen' = FALSE /\ UNCHANGED wish
    BY <1>6, <2>1 DEF AnswerAccount, Answer, Served, AboutAccount
  <2>3. r = theAccount
    BY <2>1, <2>2 DEF theAccount, Address
  <2>4. wish # "settled"
    BY <2>2, <2>3, AccountType DEF FreezeInv
  <2> QED BY <2>2, <2>4 DEF FreezeInv, FreezeKept
<1>7. CASE r[1] = "sendBos" /\ AnswerSend(r[2])
  <2>1. r = <<"sendBos", r[2]>> /\ r # theAccount
    BY <1>7 DEF Request, createSeed, createAccount, getBlocks, AboutAccount, theAccount
  <2> QED BY <1>7, <2>1, FreezeOther DEF AnswerSend, Answer
<1>8. CASE Unserved(r)
  <2>1. Served(theAccount)
    BY DEF Served, theAccount, Blank
  <2> QED BY <1>8, <2>1, FreezeOther DEF Unserved
<1>9. CASE Lose(r)
  <2>1. CASE r = theAccount
    <3>1. "getAccount" \in lost' /\ inflight[theAccount] > 0 /\ UNCHANGED <<frozen, wish>>
      BY <1>9, <2>1 DEF Lose, theAccount
    <3> QED BY <3>1, AccountType DEF FreezeInv, FreezeKept
  <2>2. CASE r # theAccount
    BY <1>9, <2>2, FreezeOther DEF Lose
  <2> QED
    BY <2>1, <2>2
<1>10. r = getBlocks \/ r[1] = "getAccountTransaction" => r[1] # "getAccount"
  BY DEF getBlocks
<1> QED
  BY <1>1, <1>2, <1>3, <1>4, <1>5, <1>6, <1>7, <1>8, <1>9, <1>10 DEF Ends

(* A freeze that no answer to getAccount can still overtake stays until    *)
(* the user takes it back or opens the account again; any other is gone as *)
(* soon as the answer is there (common.js:154), however many requests are  *)
(* under way and in whatever order they end.                               *)
THEOREM FreezeKeptHolds == Spec => []FreezeKept
<1>1. Init => FreezeInv
  BY DEF Init, FreezeInv, FreezeKept
<1>2. TypeOK /\ FreezeInv /\ TimeStep => FreezeInv'
  <2>1. TypeOK /\ FreezeInv /\ CreateDone => FreezeInv'
    BY FreezeSent DEF CreateDone, freezeVars, createSeed, theAccount
  <2>2. TypeOK /\ FreezeInv /\ LoadingDone => FreezeInv'
    BY FreezeSent, AsksElsewhere DEF LoadingDone, setLayout, freezeVars
  <2> QED
    BY <2>1, <2>2 DEF TimeStep
<1>3. TypeOK /\ FreezeInv /\ [Next]_vars => FreezeInv'
  <2>1. FreezeInv /\ UNCHANGED vars => FreezeInv'
    BY DEF FreezeInv, FreezeKept, vars
  <2> QED
    BY <1>2, <2>1, FreezeUser, FreezeEnds DEF Next
<1>4. FreezeInv => FreezeKept
  BY DEF FreezeInv
<1> QED
  BY <1>1, <1>3, <1>4, PageTypeCorrect, PTL DEF Spec

(* What may lie on top of the outcome of a send. *)
LEMMA OverOutcome ==
  ASSUME NEW layer \in Layer
  PROVE  /\ Covers(layer, "send-bos-ok")
               => layer \in {"send-bos-ok", "send-bos-cancel", "backup1", "backup2"}
         /\ Covers(layer, "send-bos-cancel")
               => layer \in {"send-bos-cancel", "backup1", "backup2"}
<1>1. Len(Stack) = 7
  BY DEF Stack
<1>2. \A i \in 1 .. 7 : i <= 3 => Stack[i] \in {"freezing", "un-freezing", "send-bos"}
  BY DEF Stack
<1>3. \A i \in 1 .. 7 : /\ (Stack[i] = "send-bos-ok" <=> i = 4)
                         /\ (Stack[i] = "send-bos-cancel" <=> i = 5)
                         /\ (i >= 6 => Stack[i] \in {"backup1", "backup2"})
  BY DEF Stack
<1> QED
  BY <1>1, <1>2, <1>3 DEF Covers

(* The outcome of a send is put away unseen only under a backup or, if it  *)
(* was accepted, under the outcome of another send.                        *)
THEOREM OutcomeIsSeenHolds == Spec => OutcomeIsSeen
<1> DEFINE Seen ==
      \A layer \in {"send-bos-ok", "send-bos-cancel"} :
        layer \in layers /\ layer \notin layers'
          => \/ OnTop(layer)
             \/ \E other \in Backup : OnTop(other)
             \/ layer = "send-bos-ok" /\ OnTop("send-bos-cancel")
<1>1. [Next]_vars => Seen
  <2> SUFFICES ASSUME [Next]_vars PROVE Seen
    OBVIOUS
  <2>0. ASSUME layers = {} \/ layers \subseteq layers' PROVE Seen
    BY <2>0
  <2>1. ASSUME NEW layer \in Layer, ClickLayer(layer) PROVE Seen
    <3>1. OnTop(layer)
      BY <2>1 DEF ClickLayer
    <3>2. \A other \in layers : Covers(layer, other)
      BY <3>1 DEF OnTop
    <3> QED
      BY <3>1, <3>2, OverOutcome DEF Backup
  <2> HIDE DEF Seen
  <2>2. CASE UserStep
    BY <2>0, <2>1, <2>2 DEF UserStep, ClickLink, ClickAdd, ClickClose, ClickConfig, ClickInfo,
       ClickFooter, OpenAccount, OpenUnfreezing, ClickToggle, Fill, OpenLayer, Opens, At, Clicks
  <2>3. CASE \E r \in Request : Ends(r)
    BY <2>0, <2>3 DEF Ends, AnswerSeed, AnswerCreate, AnswerTable, AnswerConfirm, AnswerDash,
       AnswerAccount, AnswerSend, Unserved, Lose, popupVars
  <2>4. CASE TimeStep
    BY <2>0, <2>4 DEF TimeStep, CreateDone, LoadingDone, popupVars
  <2>5. CASE UNCHANGED vars
    BY <2>0, <2>5 DEF vars
  <2> QED
    BY <2>2, <2>3, <2>4, <2>5 DEF Next
<1> QED
  BY <1>1, PTL DEF Spec, OutcomeIsSeen

==============================================================================
