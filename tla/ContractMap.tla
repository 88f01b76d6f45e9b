----------------------------- MODULE ContractMap -----------------------------
(***************************************************************************)
(* What the trust contract registry promises to its clients: a map from    *)
(* contract addresses to transaction counters.  An address is registered   *)
(* once and stays registered; its counter starts at zero and moves only    *)
(* when that contract is run.  The registry itself (TrustContract) keeps a *)
(* list in which an address may occur more than once.                      *)
(***************************************************************************)
EXTENDS Naturals

CONSTANTS
  Address,       (* what a client may send as a contract address           *)
  TxMod,         (* the counters are unsigned integers modulo TxMod        *)
  Preloaded,     (* the addresses registered at start-up                   *)
  PreloadedCount (* and their counters: [Address -> 0 .. TxMod - 1]        *)

VARIABLES
  registered,    (* the addresses that have a contract                     *)
  count          (* the transactions of each contract, 0 for no contract   *)

vars == <<registered, count>>

Init ==
  /\ registered = Preloaded
  /\ count = PreloadedCount

(* A contract is created at an address that has none. *)
Register(a) ==
  /\ a \notin registered
  /\ registered' = registered \cup {a}
  /\ count' = [count EXCEPT ![a] = 0]

(* A contract that exists is run. *)
Tick(a) ==
  /\ a \in registered
  /\ count' = [count EXCEPT ![a] = (@ + 1) % TxMod]
  /\ UNCHANGED registered

Next == \E a \in Address : Register(a) \/ Tick(a)

Spec == Init /\ [][Next]_vars
==============================================================================
