--------------------------- MODULE ReliableChannel ---------------------------
(***************************************************************************)
(* What the KCP transport promises its user, with no packet in it: items   *)
(* 1, 2, 3, ... are offered at one end, the mux at the other end gets them *)
(* in that order and each once, and the sender counts an item as confirmed *)
(* only when some mux has got it.  The receiver may start again with a new *)
(* mux that has got nothing.                                               *)
(***************************************************************************)
EXTENDS Integers, Sequences

VARIABLES
  offered,    \* number of items offered
  got,        \* items the receiver's mux has got
  ever,       \* items some mux of the receiver has got
  confirmed   \* items 1 .. confirmed are acknowledged

vars == <<offered, got, ever, confirmed>>

Init == offered = 0 /\ got = <<>> /\ ever = {} /\ confirmed = 0

Offer ==
  /\ offered' \in Nat /\ offered' > offered
  /\ UNCHANGED <<got, ever, confirmed>>

Deliver(n) ==
  /\ n \in Len(got) + 1 .. offered
  /\ got' = [i \in 1 .. n |-> i]
  /\ ever' = ever \cup 1 .. n
  /\ UNCHANGED <<offered, confirmed>>

Confirm ==
  /\ confirmed' \in Nat /\ confirmed' > confirmed
  /\ 1 .. confirmed' \subseteq ever
  /\ UNCHANGED <<offered, got, ever>>

Restart == got' = <<>> /\ UNCHANGED <<offered, ever, confirmed>>

Next == Offer \/ (\E n \in 1 .. offered : Deliver(n)) \/ Confirm \/ Restart

Spec == Init /\ [][Next]_vars
==============================================================================
