----------------------------- MODULE MCEventHub ------------------------------
(* The hub with few sockets.  The scripts say which peers take part. *)
EXTENDS EventHub

CONSTANTS s1, s2

OneSocket == {s1}
TwoSockets == {s1, s2}

(* One of two connections lives long enough to get a ping; a page that is   *)
(* alone gets more.                                                         *)
OnePing == [s \in Socket |-> IF s = s1 THEN 1 ELSE 0]
ThreePings == [s \in Socket |-> 3]

(* Peers chosen for what they do to each other's broadcast and removal, and *)
(* for every way a handler and a reader can end.                            *)
MixedScripts ==
  { <<"text", "text">>, <<"text", "quit", "ping">>, <<"text", "bad">>, <<"empty", "close">>,
    <<"bad">>, <<"stray", "reset">>, <<"ping", "fin">> }

(* websocket.js: one text when the connection opens; then the page stays,   *)
(* or the browser closes it with or without the closing handshake.  A       *)
(* client may send pings of its own.                                        *)
PageScripts ==
  { <<"text">>, <<"text", "close", "fin">>, <<"text", "fin">>, <<"text", "ping", "ping", "fin">> }

(* A client that sends a second text before it leaves. *)
TalkingScripts == { <<"text", "text", "fin">> }
==============================================================================
