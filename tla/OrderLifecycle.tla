--------------------------- MODULE OrderLifecycle ---------------------------
(***************************************************************************)
(* One order record fed every event of orderState.ts in every order: late, *)
(* duplicated, reordered and nonsensical ones included.  This is the state *)
(* the engine, the journal replay and the simulator each hold per order.   *)
(***************************************************************************)
EXTENDS OrderState

CONSTANTS MaxQty,    \* the largest requested quantity
          MaxFill    \* the largest quantity of one fill event

ASSUME BoundsAssumption == MaxQty \in Nat \ {0} /\ MaxFill \in Nat

VARIABLES order,     \* the record
          accepted   \* whether the last event was accepted (ApplyResult.ok)

vars == <<order, accepted>>

Events == {[type |-> t, qty |-> 0] : t \in EventTypes \ {"fill"}}
            \cup {[type |-> "fill", qty |-> q] : q \in 0 .. MaxFill}

Init == /\ \E side \in Sides, qty \in 1 .. MaxQty : order = NewOrder(side, qty)
        /\ accepted = TRUE

Receive(event) ==
  LET result == ApplyOrderEvent(order, event)
  IN  /\ order' = result.order
      /\ accepted' = result.ok

Next == \E event \in Events : Receive(event)

Spec == Init /\ [][Next]_vars
-----------------------------------------------------------------------------
(* Every variable has its type. *)
TypeOk == order \in OrderRecord /\ accepted \in BOOLEAN

(* The state of the record and its filled quantity agree, whatever the     *)
(* order of events: no FILLED order with a remainder, no REJECTED or       *)
(* unacknowledged one with a fill.  orderState.ts keeps the two in         *)
(* separate fields that separate branches update.                          *)
StateAgreesWithFill == WellFormed(order)

(* How far an order has come; a cancelled, rejected or expired order and a *)
(* filled one are equally final.                                           *)
Rank == [NEW |-> 0, SUBMITTED |-> 1, ACK |-> 2, PARTIAL |-> 3,
         FILLED |-> 4, CANCELLED |-> 4, REJECTED |-> 4, EXPIRED |-> 4]

(* A transition that is refused or ignored leaves the record as it was,    *)
(* and one that is taken never walks the state backwards and bumps the     *)
(* revision by exactly one: the journal can order revisions by it.         *)
OnlyForward ==
  [][ \/ order' = order
      \/ /\ accepted'
         /\ order'.revision = order.revision + 1
         /\ \/ Rank[order'.state] > Rank[order.state]
            \/ order.state = "PARTIAL" /\ order'.filledQty > order.filledQty ]_vars

(* The record as the accounts see it. *)
Promise == INSTANCE OrderPromise WITH
  qty    <- order.qty,
  filled <- order.filledQty,
  open   <- IsLive(order)

(* The eight-state machine implements the two-state promise: fills only    *)
(* add up, never past the quantity, and nothing happens to a closed order. *)
KeepsPromise == Promise!Spec
=============================================================================
