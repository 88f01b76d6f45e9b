--------------------------- MODULE MCContractPage ----------------------------
(* Two pages, one demo contract, one issuable address; counters that do    *)
(* not wrap within the bound.                                              *)
EXTENDS ContractPage

CONSTANTS p1, p2, demo, fresh, undefined, t1

MCAddress == {demo, fresh, undefined}
MCDemoRows == << [no |-> 1, title |-> t1, contractID |-> demo, txCount |-> 0] >>
MCSymmetry == Permutations({p1, p2})
==============================================================================
