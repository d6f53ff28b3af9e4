------------------------------ MODULE PaidCall ------------------------------
(***************************************************************************)
(* One paid Call from the claim of its dispatch to its ending: the worker, *)
(* the recoveries, the ways to end the hold, and the world around them     *)
(* (time, and the Provider who may present a signed authorization to the   *)
(* chain until it expires).  The properties say what the buyer and the     *)
(* treasury rely on, whatever the order, the deaths and the lost answers.  *)
(***************************************************************************)
EXTENDS CallWorker, CallRecovery

(***************************************************************************)
(* The world.                                                              *)
(***************************************************************************)
LeaseLapses ==
  /\ leaseLive /\ leaseLive' = FALSE
  /\ UNCHANGED <<db, expired, chain, sent, books, job, deaths>>

AuthorizationExpires ==
  /\ pay.intent /\ ~expired /\ expired' = TRUE
  /\ UNCHANGED <<db, leaseLive, chain, sent, books, job, deaths>>

ProviderPays ==
  /\ sent /\ chain = "signed" /\ ~expired
  /\ chain' = "paid"
  /\ UNCHANGED <<db, leaseLive, expired, sent, books, job, deaths>>

ResponseLeaseLapses ==
  /\ row.owner = "response" /\ row.live
  /\ row' = [row EXCEPT !.live = FALSE]
  /\ UNCHANGED <<money, control, pay, world, books, job, deaths>>

World == LeaseLapses \/ AuthorizationExpires \/ ProviderPays \/ ResponseLeaseLapses

Next ==
  \/ WorkerSteps \/ WorkerDies
  \/ Recoveries
  \/ \E p \in Procs : EndHold(p) \/ JobDies(p)
  \/ \E b \in Bundles : LateWrite(b)
  \/ World

Spec == Init /\ [][Next]_vars

(* The workpool goes on with a claimed attempt and retries a dead one; a    *)
(* scheduled job and a request that was accepted go on until they die; a   *)
(* clock reaches every expiry.  Nobody has to cancel, to sweep, to pay or  *)
(* to operate, and a request on the wire may never arrive.                 *)
FairSpec ==
  /\ Spec
  /\ WF_vars(WorkerSteps \/ EndHold(Worker))
  /\ WF_vars(CancelJob \/ EndHold(Canceller))
  /\ WF_vars(SweepQueue)
  /\ WF_vars(EndHold(Operator))
  /\ \A k \in Steps : /\ WF_vars(ResponseJob(k) \/ EndHold(Response(k)))
                      /\ WF_vars(ExpiryJob(k) \/ EndHold(Expiry(k)))
  /\ WF_vars(AuthorizationExpires)

(***************************************************************************)
(* Safety.                                                                 *)
(***************************************************************************)
Kind(bundle) == bundle[1]

(* The Provider is recorded as paid, at the buyer's expense or at the       *)
(* platform's, only if the payment is on the chain (settle, remedy).        *)
ChargedOnlyIfPaid == Kind(ledger) \in {"settle", "remedy"} => chain = "paid"

(* A hold goes back as unused only when the authorization can never be paid *)
(* any more (moneyX402ExpiryActions).                                       *)
UnusedOnlyIfDead == Kind(ledger) = "unused" => expired /\ chain # "paid"

(* What the database says of an ending is what the ledger booked, and the   *)
(* provider obligation follows it (finalizeSettlement, finalizeRelease, the *)
(* two finish mutations).                                                   *)
BooksAgree ==
  /\ fin = "settled" => Kind(ledger) = "settle" /\ obligation = "settled"
  /\ fin = "released" =>
       \/ Kind(ledger) \in {"release", "unused"} /\ obligation = "reversed"
       \/ Kind(ledger) = "remedy" /\ obligation = "settled"

(* However many jobs release, the promotional credit goes back once and     *)
(* exactly when the hold is released (restorePromotionalCredit).            *)
CreditFollows == restored = IF fin = "released" THEN 1 ELSE 0

(* No signature exists before the money is marked: what the database calls  *)
(* reserved was never at risk (persistBrokeredReleaseFence).                *)
SignedOnlyWhenMarked == chain # "none" => fin # "reserved"

(* A completed Call is charged, and the Provider was paid for it            *)
(* (projectManagedCall, projectAcceptedReconciliation).                     *)
CompletedIsPaid == row.state = "completed" => fin = "settled" /\ chain = "paid"

(* Once a permanent claim pins the proof of an ending, no step replaces it  *)
(* while the claim stands: every retry posts the same bundle (claim).       *)
PinnedStays ==
  [][row.owner = "expired_unused" /\ row'.owner = "expired_unused"
       => pay'.evidence = pay.evidence]_vars

(* The Call keeps the promise of HoldEnding.                                *)
HoldOf == [held |-> "held", settle |-> "charged", release |-> "refunded",
           unused |-> "refunded", remedy |-> "compensated"]
Payment == IF chain = "signed" THEN IF expired THEN "void" ELSE "open" ELSE chain
Ending == INSTANCE HoldEnding WITH hold <- HoldOf[Kind(ledger)], payment <- Payment
ImplementsHoldEnding == Ending!Spec

(* The on-chain payment is signed only while its hold exists: a hold that   *)
(* went back before submission was never risked (releaseBeforeSubmission). *)
SignedUnderHold == Kind(ledger) = "release" => chain = "none"

(* While a Call stays in reconciliation after its expiry chain was armed,   *)
(* and no person has it, a step of that chain is due, or the unused claim   *)
(* stands, or the response chain that took the lease has its next step due: *)
(* no death between two steps leaves it to nobody (schedule, claim and      *)
(* begin of the response lease).                                            *)
Begun == \E k \in Steps : job[Expiry(k)].pc # "none"
ExpiryArmed == \E k \in Steps : job[Expiry(k)].pc = "due"
ResponseDue == row.step \in Steps /\ job[Response(row.step)].pc = "due"
RecoveryWatched ==
  Begun /\ row.state = "reconciliation_required" /\ ~row.manual =>
    \/ ExpiryArmed
    \/ row.owner = "expired_unused"
    \/ row.owner \in {"response", "http_error"} /\ ResponseDue

(***************************************************************************)
(* Liveness.                                                               *)
(***************************************************************************)
(* A Call that was claimed does not stay pending, whatever dies, unless the *)
(* buyer's cancellation holds its execution (workComplete, cancellation).  *)
PendingEnds == row.state = "pending" ~> row.state # "pending" \/ control = "cancelled"

(* Once recovery of an unused authorization is armed, the Call ends, or is  *)
(* handed to a person; no failed step lets go of it (schedule).            *)
RecoveryNeverForgotten ==
  ExpiryArmed ~> row.state # "reconciliation_required" \/ row.manual

(* A Call that was refused or cancelled gives the buyer's money back.       *)
HoldReturned ==
  row.state \in {"refused", "cancelled"} /\ fin = "reserved" ~> fin # "reserved"
=============================================================================
