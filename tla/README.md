# A verification project for owlchain-core

owlchain-core, at the commit in `src/`, is a demonstration server for a
blockchain that is still to be written: a vibe.d HTTP server in one thread of
cooperative fibers, a set of REST operations, a WebSocket that announces
received coins, two browser pages, and a Reed–Solomon code for addresses.
Consensus, peer-to-peer and ledger are named in the documents and have no code.
This directory holds TLA+ models of the parts that have behaviour, TLC
configurations that check them, and TLAPS proofs.

## 1. Inventory

| part | state | operations | interacts with |
|---|---|---|---|
| trust contract registry (`ui/app.d`, `ui/webapi.d`) | the array `rs` of rows (no, title, contractID, txCount) | `validateTrustContract`, `confirmedTrustContract`, `runTrustContract`, `reqTrustContractList`, `createReqTC` | called over HTTP by the contract page; draws addresses with the address code |
| trust contract page (`ui/public/pages/js/common.js`) | class `confirm` of the button, `window.contractAddress`, the rows on screen | clicks (submit, run, open list), callbacks | `$.get` to the registry |
| event hub (`ui/app.d`) | the array `sockets` | `handleWebSocketConnection`, the delegate given to `listenOCP` | one fiber per WebSocket; messages to `resTask` |
| OCP tasks (`shell/shell.d`) | the queue of `resTask` | `reqTask`: sleep five seconds, broadcast once; `resTask`: receive and log | call the delegate of the hub |
| vibe.d WebSocket and TCP connection (`src/dependencies/vibe-d`) | `m_nextMessage`, `m_sentCloseFrame`, `m_pongReceived`, `m_pongSkipped`, `m_lastPingIndex`, connection state, buffers | reader fiber, `send`, `receive`, `waitForData`, `close`, ping timer, socket events | condition variable and `join` between reader and handler |
| address code (`crypto/reedsolomon.d`) | none | `encode`, `decode`, `gmult`, `is_codeword_valid` | registry |
| wallet page (`ui/public/main.html`, `ui/public/js`) | `$.COM._accountAddress`, `$.COM._passPhraseStr`, the classes that say which article, section, menu entry and layers are shown, the entries of the dashboard, two kinds of timeout | wizard for an account, views, account menu, popup, sending, callbacks, WebSocket client | `$.get` to the account operations, event hub |
| account operations (`ui/app.d`) | a file written by `createAccount`, which nothing reads | fixed answers | wallet page |
| configuration (`utils/config.d`) | one `Config`, read from a file once | getters | server start-up |
| keys, wallet, blockchain, store, reasoner, consensus, p2p | none or empty bodies | | |

What is hard here is the hub. Each connection has two fibers that hand over
messages through a condition variable, wait for each other to end, share a
stream with a third writer, and live in a global array which every handler
changes. Connections end at any point, in several ways. The registry is
sequential, but its clients are not: an address is offered in one request and
used in another, and the page neither waits for answers nor orders them. The
wallet page is a state machine over what is on screen: it starts timeouts that
it never cancels, fires requests it does not wait for, and knows nothing of the
ones that fail. The address code is arithmetic with several boundaries.

What makes each part correct:

* registry: rows keep their identity and order; a contract has one counter,
  whatever duplicates the list holds; an address is given to one contract;
* page: the screen shows a list the server had, and a list asked for later shows
  no less; one click makes at most one
  contract; a contract has an address the server offered;
* hub: a handler's socket is in the array exactly while the handler runs; after
  the closing frame only pings of the peer are answered; reader and handler never wait for each other
  for ever; pings stop with the socket and a peer that answers them is kept;
  connected clients get the event; names are logged;
* wallet page: no timeout and no late answer moves a user who is elsewhere; a
  freeze is undone only by the user, or by an answer that was under way when the
  user asked for it (the page has nothing to stop that one); the dashboard gets its account and its
  balance; the wizard ends; the outcome of a send is seen;
* address code: decoding inverts encoding, wrong addresses are noticed.

The places where this can go wrong are listed one by one under `hazards` in
`PROJECT.json`, with the properties that watch them.

## 2. Modules

| module | what it is |
|---|---|
| `ContractMap` | abstract specification: a map from addresses to counters |
| `TrustContract` | the registry; implements `ContractMap` |
| `TrustContract_proofs` | its invariants and the refinement, proved |
| `ContractPage` | pages, network and registry together (EXTENDS `TrustContract`) |
| `ContractPage_proofs` | its invariants, proved; the composition is a client of the registry |
| `Announcement` | abstract specification: clients join and leave, one event is announced |
| `EventHub` | hub, OCP tasks, vibe.d's reader and ping timer, and peers; implements `Announcement` |
| `EventHub_proofs` | its safety properties, proved |
| `EventHub_refines` | the refinement, proved |
| `EventHub_clients` | what the hub keeps for clients that behave, proved |
| `WalletPage` | the wallet page and the account operations |
| `WalletPage_proofs` | its safety properties, proved |
| `ReedSolomonCode` | the code inside the addresses: field, parity, checker, and someone who writes a codeword down |
| `ReedSolomonCode_proofs` | the code, proved for every word |
| `ReedSolomon` | numbers to addresses and back, and someone who writes an address down (EXTENDS `ReedSolomonCode`) |
| `ReedSolomon_proofs` | addresses, proved for every number |
| `MC*` | constants and bounds for TLC |

Definitions whose comment begins with "Mutant of" are not part of the
specification: each is a plausible slip in the definition after it, and shows
that the property it is paired with in `PROJECT.json` depends on that code.

### TrustContract

`rs` is the array, `offered` a history variable that no handler reads. A handler
contains no call that yields, and `listenHTTP` is used without distribution over
threads, so a handler is one action. `confirmAddress` returns 0 for the code's
-1, since positions count from 1. The loop of `validateTrustContract` draws
until the address is unused: the action is the drawn address together with the
condition that ends the loop. `txCount` is a `uint`: arithmetic modulo `TxMod`.
After `if (1)` in `runTrustContract` the other branches are unreachable and are
left out; so is the balance of `tcwallet`, which only they touch.
`validateTrustContract` may be given any contents; it does not look at them.

`ContractMap` is what a client may rely on. The mapping takes an address as
registered when `confirmAddress` finds it, with the counter of that first row.
A confirm of a known address and a run of an unknown one are stuttering steps.

### ContractPage

Requests are records in the set `wire`, told apart by a number; `Serve` is the
server's handler, `Lose` the failure of a request before or after it was
served, `Callback` the page's callback, in any order among requests. A failed
`$.get` calls the same callback through `_ajax`, with an object that lacks the
answer's fields. `JsField` models reading a field from an answer: a field
that the answer does not have becomes the text `undefined` when it is put into a
URL. The names of the fields are those of `webapi.d`. `confirming` is the class
that the first click sets before any answer has come. Titles are arbitrary.
`shownAt` is a history variable: how many requests had been sent when the list on
screen came. The page keeps no such number, so an older list does replace a
newer one when both were asked for before the first of them came; `ListMovesOn`
says that this is the only way for a screen to go back. `NoWrapAssumption` says that no counter of the list can wrap within the clicks
considered: it takes 2^32 runs of one contract, and a list on screen would then
be ahead of the server's.

### EventHub

`handler[s]` and `reader[s]` say at which wait each fiber of a connection stands;
an action is the code between two waits. `conn` is the TCP connection as the
server sees it, `next` is `m_nextMessage`, `sentClose` is `m_sentCloseFrame`,
`out` the frames written so far. Correspondence, beyond what `map` lists:

* `WebSocket.close` writes a closing frame when `connected` and then joins the
  reader: `close` is the first half, `Joined` and `FailJoined` the second.
* `joining` is the normal end of a handler, where the removal from `sockets`
  follows; `failing` the end by an exception, where vibe.d's own `close` follows
  and nothing removes the socket.
* `Rejects`: the exception leaves `receive` before `m_nextMessage` is reset.
* `NameThrows` requires the reader to have ended: the event loop resumes a
  reader that waits for data as soon as there is data or the stream has ended,
  and runs timers after that.
* `PeerFin` may discard what the stream has buffered while the reader waits in
  an offer: `onSocketEvent` frees the event when libevent's buffer is empty,
  and the connection is then no longer read.
* After a handler has ended, its stream (a `scope` object in `switchProtocol`)
  is gone. A broadcast through a socket that is still listed either throws, if
  a closing frame was sent, or is undefined; the model lets it end the task or
  the process (`Dangling`).
* A text without payload gives a null string, the `name !is null` of the code.

* The ping timer: `timer` is the running `m_pingTimer`, `ponged` and `skipped`
  are `m_pongReceived` and `m_pongSkipped`. The indices are `pings` (the last
  one sent), `answered` (by the peer) and `heard` (by the reader): a peer answers
  pings in order, so the next pong to be read carries `heard + 1`. A pong nobody
  asked for is the script event `stray`. `ReaderSkipped` needs data in the inbox
  because the check sits behind `m_conn.empty`: a peer that falls silent and
  stays connected is never closed, and no property claims it is.
* A ping of the peer (script event `ping`) never reaches the handler: `readFrame`
  answers it and reads on, inside the constructor of the message. `ReaderPing`
  writes the pong, also when the closing frame is out, and leaves the reader in
  the state `frame`, where the next frame is read without a look at
  `m_pongSkipped`. So a pong may follow the closing frame (`OnlyPongsAfterClose`),
  and a peer that missed a ping is closed one frame later (`SkippedLeaves`). The
  pong is written without `m_writeMutex` as well; that could matter only for a
  write that waits half-way, see below.
* `NameInTime` says that a client sends its name before the first ping is due
  (60 seconds). `hub_page` assumes it, for `websocket.js` sends the name on
  open. Without it a handler that waits for the name when the reader hangs up
  ends by an exception and leaks its entry, as in `hub_leak`; `hub` and the
  proofs do without the assumption.

`Announcement` is what a client may rely on: it joins once, becomes a member with
that, and leaves the list at the end of its own session and of no other; the event
is announced once, to members whose session runs. A session may end without the
membership (`hub_leak`), and a member may be missed (`MissedOnlyBehindDead` says
when). The mapping (`Joiners`, `Enders`, `Members`, `Told`, `Announced`) hides
fibers, frames, pings and the order of the array.

Left out: frames in pieces, and writes that wait (only beyond 4096 buffered bytes,
far above what the hub writes; a pong is as long as the ping it answers, so a peer
that sends pings of that size is left out with it).

### WalletPage

The script runs one callback at a time, so a click, a timeout or the callback
of an answer is one action. `inflight` counts the requests of each kind that have
no answer yet; they end in any order, by an answer (`Answer...`), with a status
that has no callback (`Unserved`), or on the way (`Lose`). The server's operations
read no state, so the answer is computed at the callback. `Served` is
the router's and the parameter conversion's part: an empty part of the URL
matches no route, and a text is no number. What a field of the form holds is
abstracted to the four cases that these tell apart.

`screen` is the article shown, `wizard` and `layout` the section that is on in
each, `menu` the open entry of the account's menu, `layers` the shown layers of the
popup; `Stack` is their order in `main.html`, which decides what can be clicked.
`sections` are the entries of the dashboard, with whether the balance has been
written. `wish` is a history variable: whether the user has frozen the account since
it was last opened, and if so whether an answer about it was under way at the click.
`getAccount` always answers that the account is not frozen, so such an answer undoes
the freeze, and opening the account again does; `FreezeKept` says that nothing else does. `dashAccount` and `getAccount` are the same operation with two
callbacks.

The page ignores what the wizard brings: after `confirmSeed` it returns to
the dashboard, which has its entry already, and no account is added. Left out:
`receiveBos` with its badges and rows, the contents of tables, the accordions of
the configuration and about views, and `setFreezing`, which the page never calls.

### ReedSolomonCode and ReedSolomon

`ReedSolomonCode` holds what needs no conversion of numbers. `Xor` is the `^` of the
code on five bits. `Rounds` is the loop of the checker, `Parity` the loop of the
encoder with `Feed` for its body; both are recursive functions whose argument counts
the rounds. The specification around them is a person who writes a codeword down and
gets up to `MaxTypos` symbols wrong.

In `ReedSolomon`, numbers are sequences of decimal digits, because 64-bit values are
beyond TLC's integers; `Divide` is one pass of the in-place conversion of the code
(`DivideStep` its body) and `Convert` the do-while loop around it, used by `encode` from
base 10 to 32 and by `decode` from 32 to 10. `Scan` is the loop of `decode` over the
characters. All are recursive functions that count rounds; `Convert` makes
`BASE10_LENGTH` passes, and those after the last digit change nothing (`LoopsEnd` in
section 4 proves that they are always enough). A character is its position in the
alphabet. Negative numbers, which no caller passes, are not modelled.

The specification extends the one of `ReedSolomonCode`: the codeword is that of a number
`plain`, and its address loses up to `MaxCut` characters at the end, or gets symbols
wrong. `CheckDigitsIgnored` says exactly what the condition in `decode` leaves of
the code: every address of full length is accepted, and errors go unnoticed.

## 3. Runs

| run | asks | bounds |
|---|---|---|
| `trust_registry` | do duplicates, made-up addresses and wrapping counters keep the list in order and the map intact? | 2 demo rows, 4 addresses of which 2 issuable, counters modulo 3, 5 rows: three confirms, enough for two duplicates of one address beside another row, and counters that wrap in each row |
| `contract_page` | what do overtaking and lost requests do to the pages? | 2 windows, 4 clicks: validate, early confirm, second confirm and a list in any split over the windows; counters do not wrap |
| `hub` | two connections and the broadcast | 7 scripts that between them take every exit of the handler and of the reader, and ping before the name and after the closing frame; one of the connections lives long enough for a ping |
| `hub_page` | the browsers that the project ships | one text on open (`websocket.js`), then closed with or without handshake, or after two pings of the client; three pings of the server, answered in time, late or never; under fairness |
| `wallet` | clicks, timeouts and answers in any order | 6 clicks: enough for wizard and back, two accounts asked for at once, a freeze under a late answer, and a send whose outcome arrives under another layer; three forms (accepted, refused, no answer); requests of one operation may fail; under fairness |
| `address` | encode, decode and the checker | 3 numbers of each of 19 lengths, the largest long, carries, 6 accounts of the unit test; up to 4 lost characters; what full addresses with wrong symbols are read as; for one number all single and double errors (every number and up to four errors are proved); `gmult` against polynomial multiplication for every symbol in those addresses and all 32 others |

Deadlock checking is off where the system may rest: the hub waits for
connections, the pages for a click, and the walks over addresses end. The bound
on clicks stops the user of `wallet`, not the page.

### Disagreements found

Six runs expect a violation; each states what a comment or a text of the
repository says, and TLC shows a behaviour of the code that differs.

* `trust_registry_unique`: confirming an address twice makes two contracts with
  it. `validateTrustContract` searches for an unused address but reserves nothing,
  and `confirmedTrustContract` does not search. `trust_registry` and the proofs
  show that the damage stays limited: the second row is never run.
* `contract_page_offer`: the page reads `data.contractAddress`; the server sends
  `address`. Every confirm carries the text `undefined`.
* `hub_leak`: when the connection ends before the name, or the name is not a
  text, the exception passes the removal; the socket stays listed for ever.
* `hub_talk`: a message that arrives just before the connection ends makes the
  handler `break` with the message still on offer; `close` then waits for the
  reader, which waits for the message to be taken.
* `wallet_send`: the page sends the memo where the server expects the fee. A send
  without the memo that the form calls optional matches no route, and with no
  failure handler the user sees nothing at all.
* `address_accept`: `decode` checks only addresses that do not have 17 symbols.
  `CheckDigitsIgnoredHolds` proves that this is so for every address, not just one.

### Fairness

`FairSpec` assumes weak fairness of each connection's reader and handler, of the
broadcast and of `resTask`. vibe.d's event loop resumes every fiber whose wait
has ended, and `reqTask` is woken by a timer. Nothing is assumed of the peers:
`ClosedLeaves` speaks of connections that are down, `NamedIsLogged` of handlers
that have got their name, `SkippedLeaves` of peers that have missed a ping and
speak after it. The handler's fairness covers its timeout, which is a timer as
well.

The wallet page's `FairSpec` assumes that timeouts fire, and that the two requests
the user is made to wait for (`createAccount`, `confirmSeed`) end, by an answer or
a failure: a browser's request does. Nothing is assumed of the user or of other
requests. A failed request excuses `LoadingEnds` and `AccountAppears`, because the
code has nothing that would try again; after a lost `confirmSeed` the user is left
on the loading screen, which has no link.

## 4. Proofs

`TrustContract_proofs`, for every set of addresses and titles, every start-up
list that is numbered in order and has no duplicates, and every counter width:

* `RegistryInvariant`: `TypeOK /\ NumberedInOrder /\ ShadowedRowsIdle` is
  inductive. `ShadowedRowsIdle` needs the lemma `FirstMatch` (what
  `confirmAddress` returns) and, for confirms, `AppendMatch`: appending a row
  changes no first match. The duplicate-free start is used only in `Init`.
  `RegistryTypeCorrect` and `NumberedInOrderHolds` are parts of it.
* `RowsKeepIdentityHolds`, from the types alone.
* `RegistryImplementsMap`: initial states map to initial states; a confirm maps
  to `Register` or a stutter, a run to `Tick` or a stutter.

`EventHub_proofs`, for any set of connections and any peers:

* `HubTypeCorrect`.
* `ReaderAssertionHolds`: `assert(!m_nextMessage)` in vibe.d's reader. Inductive
  with `Unstarted` (no reader before a handler), needed for the first start.
* `ListedOnceHolds`: handlers never drop or duplicate each other's entry. Needs
  `OnlyAccepted` (every entry has had a handler, so an append cannot duplicate)
  and `RemoveOnly`, which shows that the shift of `removeFromArray` takes out
  exactly one entry of a list without duplicates.
* `OnlyPongsAfterCloseHolds`. Needs `FlaggedClose`: a closing frame is only in
  `out` once `m_sentCloseFrame` is set. `send` and `close` test it before they
  write, the timer is stopped with it, and the reader, which tests nothing,
  writes only pongs.
* `MissedOnlyBehindDeadHolds`. Needs `EndedIsDown`: a handler ends after its
  reader, and a reader after its connection, so an entry through which a send is
  undefined is never a connected one.

* `TimerStoppedHolds`: every way out of a handler passes `close`.
* `AnswerIsCurrentHolds`. Needs `PingPong`: at most one ping is unanswered, since
  the timer sends one only after the pong to the last; pongs in the inbox,
  answers and indices agree.

`EventHub_refines`, on top of it:

* `HubImplementsAnnouncement`: each action of a connection maps to joining, ending,
  leaving or a stutter, and the broadcast, which writes to all in one step, to
  the announcement. Needs `ListedOnce` for the removal (the entry that is taken out
  is the only one) and `OnlyAccepted` for who may be told.

`WalletPage_proofs`, for every set of forms and any number of clicks and of lost
requests; `AjaxCounts` says what a step does to the counters of requests, and
everything rests on it:

* `PageTypeCorrect`: no timeout or request ends that was not there.
* `WaitOwnsScreenHolds`: inductive as it stands, because the two screens that wait
  have no links, so whoever leaves them is the timeout itself.
* `AddressKnownHolds`. Needs `KnownFirst`: before the address there is no entry to
  open and no account view.
* `FreezeKeptHolds`. Needs that a freeze counted as settled has no answer under way
  (`FreezeInv`), which every request for the account must respect.
* `SettledHolds`, `OutcomeIsSeenHolds`; the last one needs `OverOutcome`, which layers
  can lie on top of the outcome of a send.

`ContractPage_proofs`, for any number of pages and clicks, any order of serving and
answering, and any losses. `PInv` is the registry's invariant with

* `WireOK`, `PageOK`: what may stand in a request and its answer, and that a confirm
  always carries `undefined`, because no answer has the field the page reads;
* `RowsAreConfirms`: rows made so far and confirms not yet served are together at most
  the clicks on Confirm. `OneRowPerConfirm` alone is not inductive: a confirm on its way
  must be paid for by a click before it is served. The count is a cardinality, so the
  steps rest on what `Send`, `Serve` and `Lose` do to the set of unserved requests;
* `CountsAreClicks`: likewise every counter is at most its start plus the clicks. With
  `NoWrapAssumption` counters then only grow, which `ShownIsPast` needs;
* a list in an answer on its way is one the server had (`PastList`), since it becomes
  the list on screen;
* `ListInv`, for `ListMovesOn`: numbers of requests and `shownAt` stay within the clicks,
  so a request sent after a list has come is numbered above it; the server answers it
  with the list of that moment, which covers what is on screen by `ShownIsPast`.

Results: `PageTypeCorrect`, `OneRowPerConfirmHolds`, `ShownIsPastHolds`, `ListMovesOnHolds`;
`MadeAsUndefinedHolds` and `MadeIsNeverOffered`, which say that what `contract_page_offer`
shows of one confirm is true of all; `PageIsClient`, that pages and network are just
clients to the registry, and with it `PageImplementsMap`.

`EventHub_clients`. `ListedIsHandled` and `JoinCanEnd` are false for some peers
(`hub_leak`, `hub_talk`); these theorems say for which clients they hold, and how much
less than the shipped page's behaviour is enough:

* `JoinCanEndHolds`, for clients that send at most one message and no frame that
  `receiveText` rejects (`SingleMessage`). Invariant `LastWord`: once a handler has taken
  the message, neither inbox nor script holds another, so a reader cannot be waiting to
  be rid of one.
* `ListedIsHandledHolds`, for clients that send their name first and in time, do not send
  rejected frames and are not reset (`NamedFirst`); they may send more. Invariant
  `Behaved`: while the name is awaited it is still to come, next in the inbox or on offer
  (`NameComes`), so the exception that passes the removal is never thrown.
* `PageIsServed`: any number of browsers with `websocket.js`, which satisfy both.

`ReedSolomonCode_proofs`, for every word of thirteen digits:

* `XorGroup`, `Monoid`, `Distributive`: symbols with `Xor` and `gmult` are a field. The
  tables are inverse to each other (`Tables`), so products are sums of exponents;
  distributivity is proved for the generator from its bits and carried to its powers.
  `GmultIsFieldProductHolds` follows.
* `RoundsIsSum`: the checker's loop computes a sum over the 31 positions, 14 of which hold
  nothing. Such sums are linear (`TotalAdds`, `TotalScales`).
* `EncodedIsCodewordHolds`. Each round of the encoder multiplies the remainder's value at
  a root by that root and adds the digit (`FeedEval`; the coefficients 17, 9, 6, 30 are
  those of the polynomial with the first four powers as roots). The loop runs from the
  highest digit down and the checker from the lowest up; in `ParitySyndrome` the sum over
  the digits not yet read, and the remainder moved to its place, stay constant together.
* `Distance`, `TyposDetectedHolds`: a pattern of one to four errors leaves a syndrome.
  `ErrorStep` eliminates one error: multiplying the error at `j` by the difference of two
  powers removes position `q` from the pattern and leaves one syndrome fewer to vanish.
  The specification's invariant says that `typos` are exactly the differences. The bound
  four in `CodeAssumption` is the strength of any code with four parity digits (by the
  Singleton bound), not a convenience. With `address_accept` this shows what the
  inverted condition in `decode` gives away.

`ReedSolomon_proofs`, for every long that is not negative (`AddressAssumption`) and up to
four lost characters or wrong symbols:

* `HasValue(q, base, v)`: `v` is the value of the digits `q`, said by a function of
  partial values (`Horner`), because a recursive operator is beyond the prover.
  `ValueExists`, `ValueUnique`, and `SameValue`: thirteen base-32 digits are determined by
  their value.
* `DivideValue`: one pass leaves the digits of the quotient, none when it is zero, and the
  remainder. `ConvertValue`, by `ConvertedStep`: `Convert` puts out the remainders of the
  repeated quotients (`Values`) until one is zero. The powers of ten and 32 that bound
  these values are tables (`Ten`, `Bound`); `DecimalBound` and `ValuesEnd` give thirteen
  base-32 digits for a long, `CodewordBound` and `DecimalEnd` twenty decimal ones for a
  codeword, which is `LoopsEnd`.
* `NumberOfDigits`: converting back gives the same decimal digits in the same number.
  That the first digit of `to!string` is zero only for zero is what makes the length come
  out right; that `toLong` does not saturate is `~Above(x, LongMax)`.
* `ScanPrefix`: reading the first characters of a written codeword puts each symbol where
  it was and leaves the initial codeword elsewhere; dashes are passed over.
* `RoundTripHolds` follows. For `CutNeverMisreadHolds`, what `Scan` has made of a cut
  address differs from the codeword in at most four places. If it passes the checker, it
  is the codeword, by `Distance`: the initial codeword's 1 in the first digit
  plays no part. Up to four is what the distance of the code gives.
* `CheckDigitsIgnoredHolds` needs both directions of the conversion: equal digits give the
  number (`NumberOfCodeword`), and the number, unless it is `long.max`, which `toLong` also
  gives for everything above, has only one word of digits (`NumberHasValue`, `ValueUnique`,
  `SameValue`). The inductive invariant `AddressInv` adds to that of the code that `sent`
  are the digits of `plain`; the code's part comes from `ImplementsCode`.

Induction over loops is by the least element of a set of naturals (`LeastElement`, from
the library's `WFMin`), which needs no operator as a parameter.

The assumptions are the named `ASSUME`s of the modules; TLC evaluates them in
every run. Only model-checked: the liveness properties (fairness is beyond the
prover), and `UnitTestAddresses`, which compares `encode` with the addresses that the
unit test lists, a statement about those six numbers.

## 5. Not modelled

* Configuration, keys and encodings: read once, or wrappers of libsodium, without
  behaviour of their own.
* Wallet, blockchain, store and reasoner: methods that are empty or return
  constants. Consensus, p2p, transactions, contract language: no code.
* `dependencies/` apart from the parts of vibe.d above. Nearly all the C code of
  the repository is there: SQLite, the headers of OpenSSL and the CLIPS
  engine are vendored copies of other projects. `source/` never calls SQLite or
  OpenSSL itself, and of CLIPS it creates and destroys an environment in which it
  runs nothing (`reasoner/reasoner.d`). A model of them would say nothing about this program. The owlchain code
  itself is D and JavaScript, and what of it has behaviour is modelled.

## 6. Plan

Done: registry with its abstract map, contract page, hub with pings and its
abstract specification, wallet page, address code, the proofs above.

Left:

1. The wallet page's WebSocket client and the hub in one specification, for the
   badges.
