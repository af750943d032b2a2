---------------------------- MODULE OrderPromise ----------------------------
(***************************************************************************)
(* What the accounts built on an order record rely on, whatever its eight  *)
(* states are: the filled quantity only grows and never passes the         *)
(* requested one, and an order that has closed never changes again -- so   *)
(* a full fill closes it.                                                  *)
(***************************************************************************)
EXTENDS Integers

VARIABLES qty,      \* the quantity requested, fixed for the order's life
          filled,   \* the quantity traded so far
          open      \* whether the order may still trade

vars == <<qty, filled, open>>

Init == /\ qty \in Nat \ {0}
        /\ filled = 0
        /\ open = TRUE

(* More of the order trades; the last piece closes it. *)
Fill == /\ open
        /\ filled' \in filled + 1 .. qty
        /\ open' = (filled' < qty)
        /\ UNCHANGED qty

(* The remainder is withdrawn, refused or expires. *)
Close == /\ open
         /\ open' = FALSE
         /\ UNCHANGED <<qty, filled>>

Next == Fill \/ Close

Spec == Init /\ [][Next]_vars
=============================================================================
