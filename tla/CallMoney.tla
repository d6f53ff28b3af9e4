------------------------------ MODULE CallMoney -----------------------------
(***************************************************************************)
(* The state of one paid Call and the ways its hold can end.               *)
(*                                                                         *)
(* A worker, a buyer who cancels, an operator and two chains of scheduled  *)
(* recovery jobs (processes, Procs) may all end the hold of a Call.  They  *)
(* do it the same way: read the booking, post a bundle in the ledger, then *)
(* finalize in the database.  Each is a step of its own, the answer of a   *)
(* posting may be lost, and a posting may take effect late; the ledger     *)
(* accepts one bundle for a hold.  What brings the processes here is in    *)
(* CallWorker and CallRecovery; PaidCall composes them.                    *)
(***************************************************************************)
EXTENDS Naturals, FiniteSets

CONSTANTS
  MaxAttempts,  \* steps of a recovery chain (5 in the code)
  MaxDeaths,    \* retries of a dead worker (2 in the code: maxAttempts 3)
  Actors        \* which of "cancel", "sweep" and "operator" take part

ASSUME PaidCallAssumption ==
  /\ MaxAttempts \in Nat \ {0}
  /\ MaxDeaths \in Nat
  /\ Actors \subseteq {"cancel", "sweep", "operator"}

VARIABLES
  row,        \* the capabilityCalls row and its reconciliation lease
  fin,        \* formanceFinancialState
  obligation, \* moneyProviderObligations.state
  restored,   \* how often the promotional credit went back
  control,    \* actionExecutionControls: state of the execution
  leaseLive,  \* the accepted authority, and with it the lease, has not expired
  pay,        \* the moneyX402PaymentAttempts row
  expired,    \* paymentAuthorizationExpiresAt has passed
  chain,      \* the authorization on the chain: none, signed or paid
  sent,       \* the Provider holds the signed authorization
  ledger,     \* the bundle that ended the hold, Held before
  wire,       \* bundles whose answer was lost and that may still post
  job,        \* job[p]: program counter and locals of process p
  deaths      \* how often the worker died

money == <<fin, obligation, restored>>
db == <<row, money, control, pay>>
world == <<leaseLive, expired, chain, sent>>
books == <<ledger, wire>>
vars == <<db, world, books, job, deaths>>

Steps == 0..(MaxAttempts - 1)
Worker == <<"worker", 0>>
Canceller == <<"cancel", 0>>
Sweep == <<"sweep", 0>>
Operator == <<"operator", 0>>
Response(k) == <<"response", k>>
Expiry(k) == <<"expiry", k>>
Procs == {Worker, Canceller, Sweep, Operator}
           \cup {Response(k) : k \in Steps} \cup {Expiry(k) : k \in Steps}

(* A bundle: what it does and the evidence its references are bound to. *)
Held == <<"held", 0>>
Release == <<"release", 0>>            \* bound to the Quote
WorkerSettlement == <<"settle", 0>>    \* bound to the response in hand
RetainedSettlement == <<"settle", 1>>  \* bound to the retained response
ErrorRemedy == <<"remedy", 0>>         \* the buyer is paid back, HTTP error
LossRemedy == <<"remedy", 1>>          \* the buyer is paid back, result lost
UnusedRelease(k) == <<"unused", k>>    \* bound to the proof step k pinned
Bundles == {Release, WorkerSettlement, RetainedSettlement, ErrorRemedy, LossRemedy}
             \cup {UnusedRelease(k) : k \in Steps}
NoEvidence == <<"none", 0>>

Row == [state : {"pending", "completed", "refused", "cancelled",
                 "reconciliation_required"},
        receipt : BOOLEAN,   \* result.receipt is an account_aud receipt
        owner : {"none", "response", "expired_unused", "http_error", "lost_result"},
        live : BOOLEAN,      \* reconciliation.leaseExpiresAt > now
        step : 0..MaxAttempts,   \* reconciliation.attemptCount
        manual : BOOLEAN]    \* disposition is manual_review
Pay == [state : {"none", "prepared", "possibly_submitted", "observed",
                 "reconciliation_required"},
        intent : BOOLEAN,    \* the signing intent, with paymentAuthorizationExpiresAt
        started : BOOLEAN,   \* submissionStartedAt
        status : {"none", "unpaid", "ok", "error"},       \* responseStatus
        digest : BOOLEAN,    \* paymentResponseDigest
        observed : BOOLEAN,  \* transportObservationDigest
        settlement : {"none", "unknown", "not_settled", "settled"},
        evidence : {NoEvidence} \cup Bundles]  \* reconciliationEvidenceDigest
PC == {"none", "throw", "idle", "due", "start", "checks", "before", "challenge", "fence",
       "mark", "reread", "sign", "custody", "signature", "submit", "send", "await",
       "checkpoint", "observe", "record", "judge", "unsubmitted", "markUnknown",
       "refuse", "complete", "unknown", "converge", "caught", "failed",
       "booking", "post", "finalize", "claim", "load", "cancel", "cancelled",
       "required", "queue", "recover", "retained", "verify", "reconcile",
       "accept", "proof", "done"}
Goals == {"none", "abandon", "refuse", "deliver", "charge", "caught", "remedy",
          "cancel", "repair", "unused"}
Job == [pc : PC, bundle : Bundles \cup {Held}, goal : Goals,
        seen : {"none", "unpaid", "ok", "error",
                "leased", "fenced", "cancelled", "contested", "uncertain", "completed",
                "terminal"},
        reserved : BOOLEAN, marked : BOOLEAN]

Controls == {"leased",     \* leased, nothing released
             "fenced",     \* leased, release possibly_released
             "cancelled",
             "contested",  \* reconciliation_required, the attempt still runs
             "uncertain",  \* reconciliation_required, the attempt is uncertain
             "completed",  \* ended by the worker's final observation
             "terminal"}   \* ended by verified evidence

TypeOK ==
  /\ row \in Row
  /\ fin \in {"reserved", "possibly_submitted", "outcome_unknown", "settled", "released"}
  /\ obligation \in {"accrued", "held", "settled", "reversed"}
  /\ restored \in Nat
  /\ control \in Controls
  /\ leaseLive \in BOOLEAN
  /\ pay \in Pay
  /\ expired \in BOOLEAN
  /\ chain \in {"none", "signed", "paid"}
  /\ sent \in BOOLEAN
  /\ ledger \in {Held} \cup Bundles
  /\ wire \subseteq Bundles
  /\ job \in [Procs -> Job]
  /\ deaths \in 0..MaxDeaths

NewJob(pc) == [pc |-> pc, bundle |-> Held, goal |-> "none", seen |-> "none",
               reserved |-> FALSE, marked |-> FALSE]

(* The worker has claimed the dispatch of an attached Call. *)
Init ==
  /\ row = [state |-> "pending", receipt |-> FALSE, owner |-> "none", live |-> FALSE,
            step |-> 0, manual |-> FALSE]
  /\ fin = "reserved"
  /\ obligation = "accrued"
  /\ restored = 0
  /\ control = "leased"
  /\ leaseLive = TRUE
  /\ pay = [state |-> "none", intent |-> FALSE, started |-> FALSE, status |-> "none",
            digest |-> FALSE, observed |-> FALSE, settlement |-> "none",
            evidence |-> NoEvidence]
  /\ expired = FALSE
  /\ chain = "none"
  /\ sent = FALSE
  /\ ledger = Held
  /\ wire = {}
  /\ job = [p \in Procs |->
              NewJob(IF p = Worker THEN "checks"
                     ELSE IF p \in {Canceller, Sweep, Operator} THEN "idle" ELSE "none")]
  /\ deaths = 0

(***************************************************************************)
(* Processes.                                                              *)
(***************************************************************************)
At(p, pc) == job[p].pc = pc
Goto(p, pc) == job' = [job EXCEPT ![p].pc = pc]
Finish(p) == job' = [job EXCEPT ![p] = NewJob("done")]
Book(p, bundle, goal) ==
  job' = [job EXCEPT ![p].pc = "booking", ![p].bundle = bundle, ![p].goal = goal]

(* Where a process goes on once its bundle is booked, and once it is not. *)
AcceptedPc == [abandon |-> "done", refuse |-> "refuse", deliver |-> "refuse",
               charge |-> "complete", caught |-> "converge", remedy |-> "done",
               cancel |-> "cancelled", repair |-> "reconcile", unused |-> "done"]
RefusedPc == [abandon |-> "throw", refuse |-> "converge", deliver |-> "markUnknown",
              charge |-> "markUnknown", caught |-> "converge", remedy |-> "done",
              cancel |-> "required", repair |-> "required", unused |-> "done"]
Accepted(p) == Goto(p, AcceptedPc[job[p].goal])
Refused(p) == Goto(p, RefusedPc[job[p].goal])

(* The reconciliation lease of the row is given up. *)
Cleared(r) == [r EXCEPT !.owner = "none", !.live = FALSE, !.step = 0, !.manual = FALSE]
(* A permanent lease: its owner alone may end the hold. *)
Claimants == {"expired_unused", "http_error", "lost_result"}

(***************************************************************************)
(* Read the booking of the Call.                                           *)
(***************************************************************************)
MaySettle(state, owner) ==
  /\ owner \notin Claimants
  /\ state \in {"possibly_submitted", "outcome_unknown"}

MayRelease(state) == state = "reserved"

BookingRelease(p) ==
  /\ At(p, "booking") /\ job[p].bundle = Release
  /\ IF fin = "released" THEN Accepted(p)
     ELSE IF MayRelease(fin) THEN Goto(p, "post")
     ELSE Refused(p)
  /\ UNCHANGED <<db, world, books, deaths>>

BookingSettlement(p) ==
  /\ At(p, "booking") /\ job[p].bundle \in {WorkerSettlement, RetainedSettlement}
  /\ IF fin = "settled" /\ row.owner \notin Claimants
     THEN job' = [job EXCEPT ![p].bundle = ledger, ![p].pc = "finalize"]
     ELSE IF MaySettle(fin, row.owner) THEN Goto(p, "post")
     ELSE Refused(p)
  /\ UNCHANGED <<db, world, books, deaths>>

BookingRemedy(p) ==
  /\ At(p, "booking") /\ job[p].bundle \in {ErrorRemedy, LossRemedy}
  /\ IF job[p].bundle = ErrorRemedy /\ fin # "outcome_unknown" THEN Refused(p)
     ELSE Goto(p, "post")
  /\ UNCHANGED <<db, world, books, deaths>>

(***************************************************************************)
(* Post the bundle.  The ledger moves the money out of the hold account,   *)
(* which has it only once, and answers a reference it already booked with  *)
(* that booking.                                                           *)
(***************************************************************************)
PostBooked(p) ==
  /\ At(p, "post")
  /\ ledger \in {Held, job[p].bundle}
  /\ ledger' = job[p].bundle
  /\ Goto(p, "finalize")
  /\ UNCHANGED <<db, world, wire, deaths>>

(* Booked, but the answer and the read by reference both failed. *)
PostUnknown(p) ==
  /\ At(p, "post")
  /\ ledger = Held
  /\ ledger' = job[p].bundle
  /\ Refused(p)
  /\ UNCHANGED <<db, world, wire, deaths>>

(* The request is still on its way when its caller gives up. *)
PostDelayed(p) ==
  /\ At(p, "post")
  /\ ledger = Held
  /\ wire' = wire \cup {job[p].bundle}
  /\ Refused(p)
  /\ UNCHANGED <<db, world, ledger, deaths>>

(* MUTANT of PostConflicts: a conflict counts as an earlier success. *)
PostConflictsCompleted(p) ==
  /\ At(p, "post")
  /\ ledger \notin {Held, job[p].bundle}
  /\ Goto(p, "finalize")
  /\ UNCHANGED <<db, world, books, deaths>>
PostConflicts(p) ==
  /\ At(p, "post")
  /\ ledger \notin {Held, job[p].bundle}
  /\ Refused(p)
  /\ UNCHANGED <<db, world, books, deaths>>

LateWrite(b) ==
  /\ b \in wire
  /\ wire' = wire \ {b}
  /\ ledger' = IF ledger = Held THEN b ELSE ledger
  /\ UNCHANGED <<db, world, job, deaths>>

(***************************************************************************)
(* Finalize: the ending that was booked becomes the state of the Call.     *)
(***************************************************************************)
(* MUTANT of Restores: a replayed release gives the credit back again. *)
RestoresAgain(state) == state \in {"reserved", "released"}
Restores(state) == state = "reserved"

FinalizeRelease(p) ==
  /\ At(p, "finalize") /\ job[p].bundle = Release
  /\ IF Restores(fin)
     THEN fin' = "released" /\ restored' = restored + 1 /\ obligation' = "reversed"
     ELSE UNCHANGED money
  /\ IF fin \in {"reserved", "released"} THEN Accepted(p) ELSE Refused(p)
  /\ UNCHANGED <<row, control, pay, world, books, deaths>>

FinalizeSettlement(p) ==
  /\ At(p, "finalize") /\ job[p].bundle \in {WorkerSettlement, RetainedSettlement}
  /\ IF MaySettle(fin, row.owner)
     THEN fin' = "settled" /\ obligation' = "settled" /\ Accepted(p)
     ELSE /\ UNCHANGED <<fin, obligation>>
          /\ IF fin = "settled" /\ row.owner \notin Claimants /\ ledger = job[p].bundle
             THEN Accepted(p) ELSE Refused(p)
  /\ UNCHANGED <<row, restored, control, pay, world, books, deaths>>

(* moneyX402Expiry.finish: a hold that expired unused goes back. *)
FinishUnused(p) ==
  /\ At(p, "finalize") /\ job[p].goal = "unused"
  /\ Finish(p)
  /\ IF /\ row.state = "reconciliation_required" /\ fin = "outcome_unknown" /\ row.receipt
        /\ row.owner = "expired_unused" /\ pay.evidence = job[p].bundle
        /\ pay.settlement # "settled"
     THEN /\ pay' = [pay EXCEPT !.state = "observed", !.settlement = "not_settled"]
          /\ row' = [Cleared(row) EXCEPT !.state = "refused"]
          /\ fin' = "released" /\ restored' = restored + 1 /\ obligation' = "reversed"
     ELSE UNCHANGED <<pay, row, money>>
  /\ UNCHANGED <<control, world, books, deaths>>

(***************************************************************************)
(* Remedies: the Provider was paid, the buyer gets the money back.         *)
(***************************************************************************)
RemedyFits(bundle) ==
  /\ pay.started
  /\ chain = "paid"
  /\ IF bundle = ErrorRemedy
     THEN pay.status = "error" /\ pay.observed /\ pay.settlement # "not_settled"
     ELSE pay.status = "none" /\ ~pay.observed

RemedyOwner(bundle) == IF bundle = ErrorRemedy THEN "http_error" ELSE "lost_result"
RemedyLeases(bundle) ==
  IF bundle = ErrorRemedy THEN {"http_error", "response"} ELSE {"lost_result"}

MayClaimRemedy(bundle) ==
  /\ row.state = "reconciliation_required" /\ row.receipt
  /\ fin = "outcome_unknown"
  /\ row.live => row.owner \in RemedyLeases(bundle)

ClaimRemedy(p) ==
  /\ At(p, "claim") /\ job[p].bundle \in {ErrorRemedy, LossRemedy}
  /\ IF RemedyFits(job[p].bundle) /\ MayClaimRemedy(job[p].bundle)
     THEN /\ row' = [row EXCEPT !.owner = RemedyOwner(job[p].bundle), !.live = TRUE,
                                !.manual = TRUE]
          /\ Book(p, job[p].bundle, "remedy")
     ELSE UNCHANGED row /\ Finish(p)
  /\ UNCHANGED <<money, control, pay, world, books, deaths>>

FinishRemedy(p) ==
  /\ At(p, "finalize") /\ job[p].goal = "remedy"
  /\ Finish(p)
  /\ IF /\ row.state = "reconciliation_required" /\ fin = "outcome_unknown" /\ row.receipt
        /\ row.owner = RemedyOwner(job[p].bundle) /\ RemedyFits(job[p].bundle)
     THEN /\ pay' = [pay EXCEPT !.state = "observed", !.settlement = "settled",
                                !.evidence = job[p].bundle]
          /\ row' = [Cleared(row) EXCEPT !.state = "refused"]
          /\ fin' = "released" /\ restored' = restored + 1 /\ obligation' = "settled"
     ELSE UNCHANGED <<pay, row, money>>
  /\ UNCHANGED <<control, world, books, deaths>>

EndHold(p) ==
  \/ BookingRelease(p) \/ BookingSettlement(p) \/ BookingRemedy(p)
  \/ PostBooked(p) \/ PostUnknown(p) \/ PostDelayed(p) \/ PostConflicts(p)
  \/ FinalizeRelease(p) \/ FinalizeSettlement(p) \/ FinishUnused(p)
  \/ ClaimRemedy(p) \/ FinishRemedy(p)
=============================================================================
