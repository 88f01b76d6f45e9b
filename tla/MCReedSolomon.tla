---------------------------- MODULE MCReedSolomon ----------------------------
(* Numbers for the addresses of ReedSolomon, those of the module's own unit *)
(* test among them.                                                        *)
EXTENDS ReedSolomon

(* Some of the accounts of the module's own unit test. *)
TestAccounts ==
  { << <<0>>,
       <<0, 0, 0, 0, Dash, 0, 0, 0, 0, Dash, 0, 0, 0, 0, Dash, 0, 0, 0, 0, 0>> >>,
    << <<1, 0, 0, 0>>,
       <<0, 0, 31, 8, Dash, 0, 0, 0, 0, Dash, 31, 17, 2, 1, Dash, 0, 0, 0, 0, 0>> >>,
    << <<1, 0, 0, 0, 0, 0, 0, 0, 0, 0, 0, 0, 0, 0, 0, 0, 0, 0, 0>>,
       <<8, 0, 0, 0, Dash, 22, 14, 19, 22, Dash, 28, 11, 15, 0, Dash, 0, 22, 5, 24, 27>> >>,
    << <<8, 2, 6, 4, 2, 7, 8, 2, 0, 5, 4, 1, 6, 3, 7, 7, 5, 8, 3>>,
       <<17, 3, 7, 15, Dash, 7, 23, 19, 13, Dash, 4, 2, 10, 30, Dash, 7, 29, 4, 12, 5>> >>,
    << <<9, 1, 2, 9, 3, 5, 5, 6, 7, 4, 9, 0, 9, 6, 3, 1, 3, 0, 0>>,
       <<30, 24, 26, 4, Dash, 19, 23, 23, 18, Dash, 20, 24, 10, 2, Dash, 7, 28, 15, 12, 29>> >>,
    << <<4, 3, 9, 1, 8, 9, 5, 1, 7, 4, 9, 4, 4, 9, 9, 0, 9>>,
       <<29, 30, 5, 21, Dash, 1, 23, 6, 30, Dash, 0, 4, 13, 10, Dash, 0, 8, 0, 7, 1>> >> }

(* Those, numbers of every length that a long can have, the largest long   *)
(* and numbers around the first carry.                                     *)
MCPlain ==
  { t[1] : t \in TestAccounts }
    \cup { <<d>> \o [i \in 1 .. n |-> 0] : d \in {1, 3, 9}, n \in 0 .. 18 }
    \cup { LongMax, <<3, 1>>, <<3, 2>>, <<3, 3>> }
OneLargePlain == { <<4, 3, 9, 1, 8, 9, 5, 1, 7, 4, 9, 4, 4, 9, 9, 0, 9>> }

MCSent == { Digits(p) : p \in MCPlain }

(* The addresses are the ones the unit test lists (reedsolomon.d:228). *)
UnitTestAddresses ==
  cut = 0 /\ typos = {} =>
    \A t \in TestAccounts : t[1] = plain => encode(plain) = t[2]
==============================================================================
