---------------------------- MODULE CallRecovery ----------------------------
(***************************************************************************)
(* What others do to a Call while its worker runs or after it stopped: the *)
(* buyer cancels, a cron job expires authorizations that were never sent,  *)
(* scheduled jobs recover a retained response or an authorization that     *)
(* expired unused, and an operator compensates a lost result.  A scheduled *)
(* job runs once; what keeps a recovery alive is the successor it arms.    *)
(***************************************************************************)
EXTENDS CallMoney

LastStep == MaxAttempts - 1
Open == row.state \in {"pending", "reconciliation_required"}
Idle(p) == job[p].pc \in {"idle", "done"}
(* reconciliation_required with the result that kind has (no receipt). *)
WithoutReceipt == [row EXCEPT !.state = "reconciliation_required", !.receipt = FALSE]

(***************************************************************************)
(* Cancellation.  The request decides alone where no money can move, else  *)
(* it takes the control away from the worker and then returns the hold.    *)
(***************************************************************************)
CancelRequest ==
  /\ "cancel" \in Actors
  /\ Idle(Canceller) /\ row.state = "pending"
  /\ row' = CASE control = "cancelled" -> [row EXCEPT !.state = "cancelled"]
              [] control \in {"fenced", "contested", "uncertain"} -> WithoutReceipt
              [] OTHER -> row
  /\ job' = [job EXCEPT ![Canceller] =
               NewJob(IF control \in {"leased", "completed", "terminal"} THEN "load" ELSE "done")]
  /\ UNCHANGED <<money, control, pay, world, books, deaths>>

CancelLoad ==
  /\ At(Canceller, "load")
  /\ job' = [job EXCEPT ![Canceller].pc = "cancel", ![Canceller].seen = control,
                        ![Canceller].reserved = (fin = "reserved")]
  /\ UNCHANGED <<db, world, books, deaths>>

Cancelled(c) == CASE c = "leased" -> "cancelled" [] c = "fenced" -> "contested" [] OTHER -> c

(* Compare and set on the version the job loaded. *)
CancelControl ==
  /\ At(Canceller, "cancel")
  /\ IF control # job[Canceller].seen \/ control \in {"cancelled", "completed", "terminal"}
     THEN /\ UNCHANGED control
          /\ job' = [job EXCEPT ![Canceller].pc = "refuse", ![Canceller].seen = control]
     ELSE /\ control' = Cancelled(control)
          /\ IF control' = "cancelled" /\ job[Canceller].reserved
             THEN Book(Canceller, Release, "cancel")
             ELSE Goto(Canceller, "required")
  /\ UNCHANGED <<row, money, pay, world, books, deaths>>

(* Too late: the state that was found is projected, with no new result. *)
CancelRefused ==
  /\ At(Canceller, "refuse")
  /\ row' = IF row.state = "pending" /\ job[Canceller].seen \in {"contested", "uncertain"}
            THEN [row EXCEPT !.state = "reconciliation_required"] ELSE row
  /\ Finish(Canceller)
  /\ UNCHANGED <<money, control, pay, world, books, deaths>>

CancelDone ==
  /\ At(Canceller, "cancelled")
  /\ row' = IF row.state = "pending" THEN [row EXCEPT !.state = "cancelled"] ELSE row
  /\ Finish(Canceller)
  /\ UNCHANGED <<money, control, pay, world, books, deaths>>

CancelRequired ==
  /\ At(Canceller, "required")
  /\ row' = IF Open THEN WithoutReceipt ELSE row
  /\ Finish(Canceller)
  /\ UNCHANGED <<money, control, pay, world, books, deaths>>

(***************************************************************************)
(* The sweep over prepared payments whose authorization expired.           *)
(***************************************************************************)
NoSubmissionEvidence ==
  /\ ~pay.started /\ ~pay.observed /\ ~pay.digest
  /\ pay.settlement = "none" /\ pay.evidence = NoEvidence

(* marked: the control is one that requires reconciliation. *)
SweepObserve ==
  /\ "sweep" \in Actors
  /\ Idle(Sweep)
  /\ pay.state = "prepared" /\ pay.intent /\ expired /\ row.state = "pending"
  /\ \E applied \in BOOLEAN :
       /\ control' = IF applied /\ control \in {"leased", "fenced"} THEN "uncertain" ELSE control
       /\ job' = [job EXCEPT ![Sweep].pc = "queue", ![Sweep].seen = control',
                             ![Sweep].marked = (control' \in {"contested", "uncertain"})]
  /\ UNCHANGED <<row, money, pay, world, books, deaths>>

SweepQueue ==
  /\ At(Sweep, "queue")
  /\ IF /\ IF job[Sweep].marked THEN control \in {"contested", "uncertain"}
           ELSE control = job[Sweep].seen
        /\ row.state = "pending" /\ pay.state = "prepared" /\ NoSubmissionEvidence
     THEN /\ pay' = [pay EXCEPT !.state = "reconciliation_required"]
          /\ row' = [Cleared(WithoutReceipt) EXCEPT !.manual = ~job[Sweep].marked]
     ELSE UNCHANGED <<pay, row>>
  /\ Finish(Sweep)
  /\ UNCHANGED <<money, control, world, books, deaths>>

(***************************************************************************)
(* Recovery of a retained response: step k of a bounded chain.             *)
(***************************************************************************)
MayBegin(k) ==
  /\ Open
  /\ row.owner \in {"response", "http_error"} => row.step <= k
  /\ row.owner \in {"expired_unused", "lost_result"} => ~row.live

(* One transaction takes the lease, arms the successor and starts the job; *)
(* a permanent claim of the remedy stays the owner.                        *)
BeginResponse(k) ==
  /\ At(Response(k), "due")
  /\ IF MayBegin(k)
     THEN /\ row' = [row EXCEPT !.owner = IF @ = "http_error" THEN @ ELSE "response",
                                !.live = TRUE, !.step = k + 1, !.manual = (k = LastStep)]
          /\ job' = IF k = LastStep THEN [job EXCEPT ![Response(k)] = NewJob("done")]
                    ELSE [job EXCEPT ![Response(k)].pc = "recover",
                                     ![Response(k + 1)] = NewJob("due")]
     ELSE UNCHANGED row /\ Finish(Response(k))
  /\ UNCHANGED <<money, control, pay, world, books, deaths>>

IsCurrent(k) ==
  /\ Open /\ ~row.manual
  /\ row.owner \in {"response", "http_error"} /\ row.step = k + 1

RecoverResponse(k) ==
  /\ At(Response(k), "recover")
  /\ IF IsCurrent(k) THEN Goto(Response(k), "retained") ELSE Finish(Response(k))
  /\ UNCHANGED <<db, world, books, deaths>>

(* The worker's lease lapsed: its execution becomes uncertain. *)
RetainedLeased(k) ==
  /\ At(Response(k), "retained") /\ control \in {"leased", "fenced"}
  /\ IF leaseLive THEN UNCHANGED control /\ Finish(Response(k))
     ELSE control' = "uncertain" /\ Goto(Response(k), "required")
  /\ UNCHANGED <<row, money, pay, world, books, deaths>>

RetainedStops(k) ==
  /\ At(Response(k), "retained")
  /\ \/ control \in {"contested", "cancelled", "completed"}
     \/ control \in {"uncertain", "terminal"} /\ pay.status \notin {"ok", "error"}
  /\ Finish(Response(k))
  /\ UNCHANGED <<db, world, books, deaths>>

(* An observation the worker did not keep is kept now. *)
Observed == IF pay.observed THEN pay
            ELSE [pay EXCEPT !.observed = TRUE, !.digest = TRUE,
                    !.settlement = IF @ = "none" THEN "unknown" ELSE @,
                    !.state = IF pay.settlement \in {"none", "unknown"}
                              THEN "reconciliation_required" ELSE "observed"]

RetainedRecovers(k) ==
  /\ At(Response(k), "retained")
  /\ control \in {"uncertain", "terminal"} /\ pay.status \in {"ok", "error"}
  /\ pay' = Observed
  /\ job' = IF pay.status = "error"
            THEN [job EXCEPT ![Response(k)].pc = "claim", ![Response(k)].bundle = ErrorRemedy]
            ELSE [job EXCEPT ![Response(k)].pc = "verify", ![Response(k)].goal = "repair"]
  /\ UNCHANGED <<row, money, control, world, books, deaths>>

(* MUTANT of Verified: the response itself proves that it was paid. *)
VerifiedByResponse == pay.status = "ok"
Verified == chain = "paid" /\ pay.settlement # "not_settled"

(* The receipt is read from the chain; only one evidence is ever bound. *)
VerifyPaid(k) ==
  /\ At(Response(k), "verify")
  /\ Verified /\ pay.evidence \in {NoEvidence, RetainedSettlement}
  /\ pay' = [pay EXCEPT !.evidence = RetainedSettlement, !.settlement = "settled",
                        !.state = "observed"]
  /\ Book(Response(k), RetainedSettlement, "repair")
  /\ UNCHANGED <<row, money, control, world, books, deaths>>

(* Another evidence is bound to the payment, or the receipt contradicts it. *)
VerifyConflicts(k) ==
  /\ At(Response(k), "verify") /\ chain = "paid"
  /\ ~(Verified /\ pay.evidence \in {NoEvidence, RetainedSettlement})
  /\ IF fin \in {"reserved", "possibly_submitted"}
     THEN fin' = "outcome_unknown" /\ obligation' = "held"
     ELSE UNCHANGED <<fin, obligation>>
  /\ Goto(Response(k), "required")
  /\ UNCHANGED <<row, restored, control, pay, world, books, deaths>>

VerifyFails(k) ==
  /\ At(Response(k), "verify")
  /\ Goto(Response(k), "required")
  /\ UNCHANGED <<db, world, books, deaths>>

Reconcile(k) ==
  /\ At(Response(k), "reconcile")
  /\ control' = IF control = "uncertain" THEN "terminal" ELSE control
  /\ Goto(Response(k), IF control \in {"uncertain", "terminal"} THEN "accept" ELSE "required")
  /\ UNCHANGED <<row, money, pay, world, books, deaths>>

(* Completed, or refused for an answer that does not fit the contract. *)
Accept(k, state) ==
  /\ At(Response(k), "accept")
  /\ row' = IF row.state = "pending" THEN [row EXCEPT !.state = state]
            ELSE IF /\ row.state = "reconciliation_required" /\ fin = "settled"
                    /\ pay.settlement = "settled" /\ pay.evidence # NoEvidence
            THEN [Cleared(row) EXCEPT !.state = state] ELSE row
  /\ Finish(Response(k))
  /\ UNCHANGED <<money, control, pay, world, books, deaths>>

ResponseRequired(k) ==
  /\ At(Response(k), "required")
  /\ row' = IF Open THEN [WithoutReceipt EXCEPT !.receipt = (job[Response(k)].goal = "repair")]
            ELSE row
  /\ Finish(Response(k))
  /\ UNCHANGED <<money, control, pay, world, books, deaths>>

ResponseJob(k) ==
  \/ BeginResponse(k) \/ RecoverResponse(k) \/ RetainedLeased(k) \/ RetainedStops(k)
  \/ RetainedRecovers(k) \/ VerifyPaid(k) \/ VerifyConflicts(k) \/ VerifyFails(k)
  \/ Reconcile(k) \/ ResponseRequired(k)
  \/ \E state \in {"completed", "refused"} : Accept(k, state)

(***************************************************************************)
(* Recovery of an authorization that expired unused: step k of a chain.    *)
(***************************************************************************)
(* MUTANT of Exhausted: the chain ends one step before it is handed over. *)
ExhaustedLater(k) == k > LastStep
Exhausted(k) == k = LastStep

(* schedule: the successor is armed first; the last step hands over. *)
ArmSuccessor(k) ==
  /\ At(Expiry(k), "due") /\ expired
  /\ row' = [row EXCEPT !.manual = @ \/ (row.state = "reconciliation_required" /\ Exhausted(k))]
  /\ job' = IF row.state = "reconciliation_required" /\ k < LastStep
            THEN [job EXCEPT ![Expiry(k)].pc = "proof", ![Expiry(k + 1)] = NewJob("due")]
            ELSE [job EXCEPT ![Expiry(k)] = NewJob("done")]
  /\ UNCHANGED <<money, control, pay, world, books, deaths>>

(* What the Provider said leaves room for a payment that was never made. *)
PermitsUnusedProof == ~pay.digest \/ (pay.status = "unpaid" /\ pay.settlement = "unknown")
(* MUTANT of UnusedOnChain: expiry alone counts as a proof. *)
UnusedByExpiry == expired
UnusedOnChain == expired /\ chain # "paid"

ProveUnused(k) ==
  /\ At(Expiry(k), "proof")
  /\ \/ /\ row.state = "reconciliation_required" /\ row.receipt
        /\ pay.settlement # "settled" /\ PermitsUnusedProof /\ UnusedOnChain
        /\ Goto(Expiry(k), "claim")
     \/ Finish(Expiry(k))     \* not eligible, or the chain cannot be read
  /\ UNCHANGED <<db, world, books, deaths>>

MayClaimUnused ==
  /\ row.state = "reconciliation_required" /\ row.receipt
  /\ fin = "outcome_unknown"
  /\ pay.settlement # "settled" /\ PermitsUnusedProof
  /\ row.live => row.owner = "expired_unused"

(* MUTANT of Pinned: every step posts its own proof. *)
PinnedAnew(k) == UnusedRelease(k)
(* The first proof that is claimed stays the evidence of every later step. *)
Pinned(k) == IF row.owner = "expired_unused" /\ pay.evidence # NoEvidence
             THEN pay.evidence ELSE UnusedRelease(k)

ClaimUnused(k) ==
  /\ At(Expiry(k), "claim")
  /\ IF MayClaimUnused
     THEN /\ pay' = [pay EXCEPT !.evidence = Pinned(k)]
          /\ row' = IF row.owner = "expired_unused" /\ pay.evidence # NoEvidence THEN row
                    ELSE [row EXCEPT !.owner = "expired_unused", !.live = TRUE, !.manual = FALSE]
          /\ job' = [job EXCEPT ![Expiry(k)].pc = "post", ![Expiry(k)].bundle = Pinned(k),
                                ![Expiry(k)].goal = "unused"]
     ELSE UNCHANGED <<pay, row>> /\ Finish(Expiry(k))
  /\ UNCHANGED <<money, control, world, books, deaths>>

ExpiryJob(k) == ArmSuccessor(k) \/ ProveUnused(k) \/ ClaimUnused(k)

(***************************************************************************)
(* The operator names a transaction; a job may die between its steps.      *)
(***************************************************************************)
OperatorRemedies(bundle) ==
  /\ "operator" \in Actors
  /\ Idle(Operator)
  /\ row.state = "reconciliation_required" /\ chain = "paid"
  /\ job' = [job EXCEPT ![Operator] = [NewJob("claim") EXCEPT !.bundle = bundle]]
  /\ UNCHANGED <<db, world, books, deaths>>

JobDies(p) ==
  /\ p # Worker
  /\ job[p].pc \notin {"none", "idle", "due", "done"}
  /\ Finish(p)
  /\ UNCHANGED <<db, world, books, deaths>>

CancelJob ==
  CancelLoad \/ CancelControl \/ CancelRefused \/ CancelDone \/ CancelRequired
Recoveries ==
  \/ CancelRequest \/ CancelJob \/ SweepObserve \/ SweepQueue
  \/ \E k \in Steps : ResponseJob(k) \/ ExpiryJob(k)
  \/ \E bundle \in {ErrorRemedy, LossRemedy} : OperatorRemedies(bundle)
=============================================================================
