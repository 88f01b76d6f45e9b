---------------------------- MODULE Announcement ------------------------------
(***************************************************************************)
(* What the event hub promises its clients, whatever their connections do. *)
(* A client joins once and is a member from then on until its session      *)
(* ends; a session may also end without the membership (abandoned).  The   *)
(* event is announced once, and only to members whose session has not      *)
(* ended.  Nobody leaves but at the end of its own session.                *)
(***************************************************************************)

CONSTANT Client

VARIABLES
  joined,     (* clients that have had a session                           *)
  ended,      (* clients whose session has ended                           *)
  members,    (* clients on the list                                       *)
  told,       (* clients the event was sent to                             *)
  announced   (* whether the event has been announced                      *)

absVars == <<joined, ended, members, told, announced>>

AbsInit ==
  /\ joined = {} /\ ended = {} /\ members = {} /\ told = {}
  /\ announced = FALSE

Join(c) ==
  /\ c \notin joined
  /\ joined' = joined \cup {c}
  /\ members' = members \cup {c}
  /\ UNCHANGED <<ended, told, announced>>

(* The session ends and the membership with it. *)
Leave(c) ==
  /\ c \in members \ ended
  /\ ended' = ended \cup {c}
  /\ members' = members \ {c}
  /\ UNCHANGED <<joined, told, announced>>

(* The session ends; the member stays on the list. *)
Abandon(c) ==
  /\ c \in members \ ended
  /\ ended' = ended \cup {c}
  /\ UNCHANGED <<joined, members, told, announced>>

(* Not every member need be reached. *)
Announce(reached) ==
  /\ ~announced
  /\ reached \subseteq members \ ended
  /\ told' = told \cup reached
  /\ announced' = TRUE
  /\ UNCHANGED <<joined, ended, members>>

AbsNext ==
  \/ \E c \in Client : Join(c) \/ Leave(c) \/ Abandon(c)
  \/ \E reached \in SUBSET Client : Announce(reached)

AbsSpec == AbsInit /\ [][AbsNext]_absVars
==============================================================================
