----------------------------- MODULE HoldEnding -----------------------------
(***************************************************************************)
(* What a paid Call promises its buyer and the treasury, seen from outside.*)
(* The hold ends once.  It is charged only for a payment that was made,    *)
(* given back only when none can be made any more, and compensated only    *)
(* for a payment that was made.  A payment is signed only under the hold.  *)
(***************************************************************************)
VARIABLES
  hold,    \* held, then charged, refunded or compensated
  payment  \* none, open (signed, may still be paid), paid, or void

Init == hold = "held" /\ payment = "none"

(* A late signature may already be expired when it is given. *)
Sign ==
  /\ hold = "held" /\ payment = "none"
  /\ payment' \in {"open", "void"}
  /\ UNCHANGED hold

Pay == payment = "open" /\ payment' = "paid" /\ UNCHANGED hold
Lapse == payment = "open" /\ payment' = "void" /\ UNCHANGED hold

Refund ==
  /\ hold = "held" /\ payment \in {"none", "void"}
  /\ hold' = "refunded" /\ UNCHANGED payment

Charge ==
  /\ hold = "held" /\ payment = "paid"
  /\ hold' = "charged" /\ UNCHANGED payment

Compensate ==
  /\ hold = "held" /\ payment = "paid"
  /\ hold' = "compensated" /\ UNCHANGED payment

Next == Sign \/ Pay \/ Lapse \/ Refund \/ Charge \/ Compensate
Spec == Init /\ [][Next]_<<hold, payment>>
=============================================================================
