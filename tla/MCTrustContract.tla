--------------------------- MODULE MCTrustContract ---------------------------
(* The registry on a small instance: two demo rows, two issuable addresses *)
(* and one that only a client can make up, counters that wrap at 3.        *)
EXTENDS TrustContract

CONSTANTS demo1, demo2, fresh, made_up, t1, t2

MCAddress == {demo1, demo2, fresh, made_up}
MCIssuable == {demo2, fresh}
MCTitle == {t1, t2}
MCDemoRows ==
  << [no |-> 1, title |-> t1, contractID |-> demo1, txCount |-> 2],
     [no |-> 2, title |-> t2, contractID |-> demo2, txCount |-> 0] >>
==============================================================================
