---------------------------- MODULE MCWalletPage -----------------------------
(* The wallet page with a few forms: each way a send can end. *)
EXTENDS WalletPage

Filled(amount, memo) == [receiver |-> "words", amount |-> amount, memo |-> memo]

(* A send that is accepted and one that is refused; the form as loaded, a  *)
(* third one, gets no answer at all.                                       *)
MCForm == {Filled("number", "number"), Filled("number", "zero")}

(* A send without a memo. *)
MCFormNoMemo == {Filled("number", "empty")}
==============================================================================
