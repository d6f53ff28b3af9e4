----------------------------- MODULE BuyerHold -----------------------------
(***************************************************************************)
(* What a paid Call promises its buyer, with no requests, leases, retries  *)
(* or lost answers in it.  A Quote is offered; accepting it takes the      *)
(* promotional credit the Call will use; the ledger may then hold the      *)
(* buyer's money, once; the hold may be returned, once; and the credit     *)
(* comes back only with the Quote (nothing was held) or after the hold was *)
(* returned.  Reservation.tla implements this specification.               *)
(***************************************************************************)
CONSTANT Calls

VARIABLES
  offer,    \* offer[c]: "open" (the Quote can be accepted) or "taken"
  hold,     \* hold[c]: the buyer's money in the ledger
  credit    \* credit[c]: "back" with the buyer or "out" with the Call

vars == <<offer, hold, credit>>

TypeOK ==
  /\ offer \in [Calls -> {"open", "taken"}]
  /\ hold \in [Calls -> {"free", "held", "returned"}]
  /\ credit \in [Calls -> {"back", "out"}]

Init ==
  /\ offer = [c \in Calls |-> "open"]
  /\ hold = [c \in Calls |-> "free"]
  /\ credit = [c \in Calls |-> "back"]

(* The Quote is accepted and its credit leaves the grant. *)
Take(c) ==
  /\ offer[c] = "open"
  /\ offer' = [offer EXCEPT ![c] = "taken"]
  /\ credit' = [credit EXCEPT ![c] = "out"]
  /\ UNCHANGED hold

(* The ledger takes the buyer's money: only for an accepted Quote. *)
Hold(c) ==
  /\ offer[c] = "taken"
  /\ hold[c] = "free"
  /\ hold' = [hold EXCEPT ![c] = "held"]
  /\ UNCHANGED <<offer, credit>>

(* The Quote is handed back: only while no money was taken for it. *)
Reopen(c) ==
  /\ offer[c] = "taken"
  /\ hold[c] = "free"
  /\ offer' = [offer EXCEPT ![c] = "open"]
  /\ credit' = [credit EXCEPT ![c] = "back"]
  /\ UNCHANGED hold

Return(c) ==
  /\ hold[c] = "held"
  /\ hold' = [hold EXCEPT ![c] = "returned"]
  /\ UNCHANGED <<offer, credit>>

(* The credit of a returned hold goes back once. *)
CreditBack(c) ==
  /\ hold[c] = "returned"
  /\ credit[c] = "out"
  /\ credit' = [credit EXCEPT ![c] = "back"]
  /\ UNCHANGED <<offer, hold>>

Next == \E c \in Calls :
  Take(c) \/ Hold(c) \/ Reopen(c) \/ Return(c) \/ CreditBack(c)

Spec == Init /\ [][Next]_vars
=============================================================================
