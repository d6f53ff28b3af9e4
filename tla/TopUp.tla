------------------------------- MODULE TopUp -------------------------------
(***************************************************************************)
(* What the top-up of an Account promises, seen from outside.  The Account *)
(* is credited once, and only for a payment that was made.  The credit is  *)
(* reversed at most once, only after the command recorded it, and only for *)
(* a refund of the whole payment or a dispute that was lost.               *)
(***************************************************************************)
CONSTANTS Refunds, Disputes

VARIABLES
  payment,    \* open, then paid or failed
  outcome,    \* what each refund is of, how each dispute ends
  credited,   \* the Account has the money
  recorded,   \* the command says that it has
  reversals   \* the refund or the dispute the credit was reversed for

vars == <<payment, outcome, credited, recorded, reversals>>

Takes(x) == outcome[x] \in {"full", "lost"}

Init ==
  /\ payment = "open" /\ ~credited /\ ~recorded /\ reversals = {}
  /\ outcome \in [Refunds \cup Disputes -> {"full", "partial", "won", "lost", "other"}]

Pay ==
  /\ payment = "open" /\ payment' \in {"paid", "failed"}
  /\ UNCHANGED <<outcome, credited, recorded, reversals>>

Credit ==
  /\ payment = "paid" /\ ~credited /\ credited'
  /\ UNCHANGED <<payment, outcome, recorded, reversals>>

Record ==
  /\ credited /\ ~recorded /\ recorded'
  /\ UNCHANGED <<payment, outcome, credited, reversals>>

Reverse(x) ==
  /\ recorded /\ reversals = {} /\ Takes(x)
  /\ reversals' = {x}
  /\ UNCHANGED <<payment, outcome, credited, recorded>>

Next == Pay \/ Credit \/ Record \/ \E x \in Refunds \cup Disputes : Reverse(x)
Spec == Init /\ [][Next]_vars
=============================================================================
