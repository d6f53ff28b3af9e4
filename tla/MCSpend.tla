------------------------------ MODULE MCSpend ------------------------------
(* Instances of SpendAdmission: Calls of which c1 and c2 pay one payee. *)
EXTENDS SpendAdmission
CONSTANTS c1, c2, c3, p1, p2
MCPayee == [c \in Calls |-> IF c = c3 THEN p2 ELSE p1]
MCAmount == [c \in Calls |-> IF c = c2 THEN 2 ELSE 1]
=============================================================================
