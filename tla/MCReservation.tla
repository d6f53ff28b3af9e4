--------------------------- MODULE MCReservation ---------------------------
(* Reservation with the symmetry of its sets of identities.                *)
EXTENDS Reservation, TLC

Symmetry == Permutations(Requests) \cup Permutations(Jobs)
              \cup Permutations(Credits) \cup Permutations(Calls)

(* Bound of the run with two Calls: no write is late, no Quote expires and  *)
(* no Call waits for its owner; the runs with one Call explore these.       *)
CrossingRefunds ==
  /\ wire = {}
  /\ \A c \in Calls : quote[c].live /\ row[c].result # "needs_authority"
=============================================================================
