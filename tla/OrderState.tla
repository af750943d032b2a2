----------------------------- MODULE OrderState -----------------------------
(***************************************************************************)
(* The order state machine of packages/execution/src/orderState.ts, as     *)
(* operators on records.  The code is pure -- `(state, event) -> state |   *)
(* error' -- and is shared by the engine, the journal replay and the       *)
(* simulator, so it is a module without variables.                         *)
(*                                                                         *)
(* Quantities are whole multiples of the venue's step, so the code's       *)
(* QTY_EPSILON comparison is exact.  The average price, the fees, the      *)
(* exchange's order id and the reject reason are data no transition reads; *)
(* they are left out.                                                      *)
(***************************************************************************)
EXTENDS Integers

OrderStates == {"NEW", "SUBMITTED", "ACK", "PARTIAL",
                "FILLED", "CANCELLED", "REJECTED", "EXPIRED"}

TerminalStates == {"FILLED", "CANCELLED", "REJECTED", "EXPIRED"}

EventTypes == {"submit", "ack", "fill", "cancel", "reject", "expire"}

Sides == {"buy", "sell"}

(* Mutant of Legal: an order may be submitted twice. *)
LegalSubmitTwice == [NEW       |-> {"SUBMITTED", "REJECTED"},
                     SUBMITTED |-> {"SUBMITTED", "ACK", "PARTIAL", "FILLED", "REJECTED", "CANCELLED", "EXPIRED"},
                     ACK       |-> {"PARTIAL", "FILLED", "CANCELLED", "EXPIRED", "REJECTED"},
                     PARTIAL   |-> {"PARTIAL", "FILLED", "CANCELLED", "EXPIRED"},
                     FILLED |-> {}, CANCELLED |-> {}, REJECTED |-> {}, EXPIRED |-> {}]

(* Mutant of Legal: fills are taken only once the order is acknowledged. *)
LegalAckFirst == [NEW       |-> {"SUBMITTED", "REJECTED"},
                  SUBMITTED |-> {"ACK", "REJECTED", "CANCELLED", "EXPIRED"},
                  ACK       |-> {"PARTIAL", "FILLED", "CANCELLED", "EXPIRED", "REJECTED"},
                  PARTIAL   |-> {"PARTIAL", "FILLED", "CANCELLED", "EXPIRED"},
                  FILLED |-> {}, CANCELLED |-> {}, REJECTED |-> {}, EXPIRED |-> {}]

(* The legal-transition table. *)
Legal == [NEW       |-> {"SUBMITTED", "REJECTED"},
          SUBMITTED |-> {"ACK", "PARTIAL", "FILLED", "REJECTED", "CANCELLED", "EXPIRED"},
          ACK       |-> {"PARTIAL", "FILLED", "CANCELLED", "EXPIRED", "REJECTED"},
          PARTIAL   |-> {"PARTIAL", "FILLED", "CANCELLED", "EXPIRED"},
          FILLED    |-> {},
          CANCELLED |-> {},
          REJECTED  |-> {},
          EXPIRED   |-> {}]

CanTransition(from, to) == to \in Legal[from]

IsTerminal(state) == state \in TerminalStates

IsLive(order) == ~IsTerminal(order.state)

OrderRecord == [side      : Sides,
                qty       : Nat \ {0},
                filledQty : Nat,
                state     : OrderStates,
                revision  : Nat]

NewOrder(side, qty) ==
  [side |-> side, qty |-> qty, filledQty |-> 0, state |-> "NEW", revision |-> 0]

(***************************************************************************)
(* The three results of applying an event: refused with an error, accepted *)
(* without a transition, or a transition that may move the fill quantity.  *)
(***************************************************************************)
Refused(order)  == [ok |-> FALSE, transitioned |-> FALSE, order |-> order]
Ignored(order)  == [ok |-> TRUE,  transitioned |-> FALSE, order |-> order]

(* Mutant of Transition: a closing order forgets what it has filled. *)
TransitionForgetsFill(order, to, filledQty) ==
  IF CanTransition(order.state, to)
  THEN [ok |-> TRUE, transitioned |-> TRUE,
        order |-> [order EXCEPT !.state = to,
                                !.filledQty = IF to = "CANCELLED" THEN 0 ELSE filledQty,
                                !.revision = @ + 1]]
  ELSE Refused(order)

Transition(order, to, filledQty) ==
  IF CanTransition(order.state, to)
  THEN [ok |-> TRUE, transitioned |-> TRUE,
        order |-> [order EXCEPT !.state = to,
                                !.filledQty = filledQty,
                                !.revision = @ + 1]]
  ELSE Refused(order)

(* Mutants of ApplyFill: no overfill guard; the remainder for the fill;     *)
(* only an overfill completes.                                             *)
ApplyFillUnbounded(order, qty) ==
  IF qty <= 0
  THEN Refused(order)
  ELSE Transition(order,
                  IF order.filledQty + qty >= order.qty THEN "FILLED" ELSE "PARTIAL",
                  order.filledQty + qty)

ApplyFillSubtracts(order, qty) ==
  LET filledQty == order.filledQty - qty
  IN  IF qty <= 0 \/ filledQty > order.qty
      THEN Refused(order)
      ELSE Transition(order, IF filledQty >= order.qty THEN "FILLED" ELSE "PARTIAL", filledQty)

ApplyFillStrict(order, qty) ==
  LET filledQty == order.filledQty + qty
  IN  IF qty <= 0 \/ filledQty > order.qty
      THEN Refused(order)
      ELSE Transition(order, IF filledQty > order.qty THEN "FILLED" ELSE "PARTIAL", filledQty)

ApplyFill(order, qty) ==
  LET filledQty == order.filledQty + qty
  IN  IF qty <= 0 \/ filledQty > order.qty
      THEN Refused(order)
      ELSE Transition(order,
                      IF filledQty >= order.qty THEN "FILLED" ELSE "PARTIAL",
                      filledQty)

(* An event is [type, qty]; qty is read only by fills. *)
ApplyOrderEvent(order, event) ==
  IF IsTerminal(order.state)
  THEN IF event.type = "fill" THEN Refused(order) ELSE Ignored(order)
  ELSE CASE event.type = "submit" -> Transition(order, "SUBMITTED", order.filledQty)
         [] event.type = "ack"    -> IF order.state = "PARTIAL"
                                     THEN Ignored(order)
                                     ELSE Transition(order, "ACK", order.filledQty)
         [] event.type = "fill"   -> ApplyFill(order, event.qty)
         [] event.type = "cancel" -> Transition(order, "CANCELLED", order.filledQty)
         [] event.type = "reject" -> Transition(order, "REJECTED", order.filledQty)
         [] event.type = "expire" -> Transition(order, "EXPIRED", order.filledQty)

(* A quantity with the sign of the side that traded it. *)
Signed(side, qty) == IF side = "buy" THEN qty ELSE -qty

(***************************************************************************)
(* How a record's state and its filled quantity must agree.                *)
(***************************************************************************)
WellFormed(order) ==
  /\ order.state \in {"NEW", "SUBMITTED", "ACK", "REJECTED"} => order.filledQty = 0
  /\ order.state = "PARTIAL" => order.filledQty \in 1 .. order.qty - 1
  /\ order.state = "FILLED" => order.filledQty = order.qty
  /\ order.state \in {"CANCELLED", "EXPIRED"} => order.filledQty \in 0 .. order.qty - 1
=============================================================================
