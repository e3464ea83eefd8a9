----------------------------- MODULE AddressMap -----------------------------
(***************************************************************************)
(* What the registry of class mmu promises: an address belongs to at most  *)
(* one peripheral.  A peripheral whose addresses are free is granted them, *)
(* any other is refused and changes nothing, whatever the order they come  *)
(* in.                                                                     *)
(*                                                                         *)
(* The code does not check that a peripheral ends after it starts.  One    *)
(* that does not is granted no address; it is refused if it starts on an   *)
(* owned one, and where it starts no later peripheral may lie.             *)
(***************************************************************************)
EXTENDS Integers

VARIABLES
  owned,    \* the addresses that belong to a peripheral
  starts,   \* where the registered peripherals start
  outcome   \* of the last registration

vars == <<owned, starts, outcome>>

Claim(p) == p.start..p.end

Free(p) ==
  /\ (Claim(p) \cup {p.start}) \cap owned = {}
  /\ Claim(p) \cap starts = {}

Init == owned = {} /\ starts = {}

Grant ==
  LET p == outcome'.peripheral
  IN  /\ outcome'.registered = TRUE
      /\ Free(p)
      /\ owned' = owned \cup Claim(p)
      /\ starts' = starts \cup {p.start}

Refuse ==
  LET p == outcome'.peripheral
  IN  /\ outcome'.registered = FALSE
      /\ ~Free(p)
      /\ UNCHANGED <<owned, starts>>

Next == Grant \/ Refuse

Spec == Init /\ [][Next]_vars
=============================================================================
