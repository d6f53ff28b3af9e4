------------------------------ MODULE Funding ------------------------------
(***************************************************************************)
(* The top-up of an Account through Stripe.  Stripe tells of a payment, of *)
(* its refunds and of its disputes by webhooks, in any order and more than *)
(* once; the inbox keeps each under its id and gives it to a worker.  The  *)
(* customer who comes back from the checkout starts a worker of her own.   *)
(* A worker prepares the event against the funding command, writes the     *)
(* ledger, and finalizes.  One command and its Account are modelled.       *)
(***************************************************************************)
EXTENDS Integers, FiniteSets

CONSTANTS
  Refunds, Disputes,   \* what may happen to the payment
  Kinds,               \* the kinds of events that may come
  MaxEvents,           \* events Stripe delivers in a run
  MaxTries,            \* attempts at an event (RETRY_MAX_ATTEMPTS)
  MaxDeaths,           \* workers that die in a run
  MaxConflicts,        \* events delivered again with another payload in a run
  None

CheckoutKinds == {"return", "processing", "paid", "failed"}
FullRefundKinds == {"refund", "refund_updated"}
RefundKinds == FullRefundKinds \cup {"partial", "unsettled"}
DisputeKinds == {"opened", "won", "lost", "other"}

ASSUME FundingAssumption ==
  /\ Kinds \subseteq CheckoutKinds \cup RefundKinds \cup DisputeKinds
  /\ MaxTries \in Nat \ {0} /\ MaxEvents \in Nat
  /\ MaxDeaths \in Nat /\ MaxConflicts \in Nat
  /\ None \notin Refunds \cup Disputes
  /\ Refunds \cap Disputes = {}

VARIABLES
  session,   \* Stripe: the Checkout session
  outcome,   \* Stripe: what each refund is of, how each dispute ends
  inbox,     \* moneyStripeWebhookInbox: state of each event's row
  conflict,  \* the rows with a conflictPayloadDigest
  prior,     \* moneyStripeEvents: status of each event's row
  command,   \* the moneyFundingCommands row
  case,      \* moneyReconciliationCases: the dispute's, the partial refunds'
  job,       \* the worker of each event
  deaths,
  ledger, wire  \* bundles posted; bundles whose answer was lost and may still post

stripe == <<session, outcome>>
rows == <<prior, command, case>>
posted == <<ledger, wire>>
work == <<inbox, job, deaths>>
vars == <<stripe, conflict, rows, posted, work>>

(***************************************************************************)
(* Events, and the bundles they book.                                      *)
(***************************************************************************)
Kind(e) == e[1]
Of(e) == e[2]

Return == <<"return", None>>        \* made by fulfillReturn, not by Stripe
Events ==
  {e \in CheckoutKinds \X {None} \cup RefundKinds \X Refunds \cup DisputeKinds \X Disputes :
     Kind(e) \in Kinds \cup {"return"}}
Webhooks == Events \ {Return}

ASSUME EventsAssumption == None \notin Events

Checkout(e) == Kind(e) \in CheckoutKinds
FullRefund(e) == Kind(e) \in FullRefundKinds

Settlement == <<"settlement", None>>
Reversal(x) == <<"reversal", x>>
Bundles == {Settlement} \cup {Reversal(x) : x \in Refunds \cup Disputes}

Job == [pc : {"none", "start", "book", "finalize", "mark"},
        try : 0..(MaxTries - 1), bundle : Bundles \cup {None}]
Command == [state : {"pending", "succeeded", "failed", "outcome_unknown", "reversed"},
            applied : BOOLEAN,       \* appliedTransactionRef
            reversal : {"none", "pending", "outcome_unknown", "succeeded"},
            asker : Webhooks \cup {None}]  \* reversalStripeEventId

Outcomes == [Refunds \cup Disputes -> {"full", "partial", "won", "lost", "other"}]

TypeOK ==
  /\ session \in {"open", "paid", "failed"}
  /\ outcome \in Outcomes
  /\ inbox \in [Webhooks -> {"none", "queued", "applied", "ignored",
                             "reconciliation_required", "failed"}]
  /\ conflict \subseteq Webhooks
  /\ prior \in [Events -> {"none", "received", "applied", "ignored"}]
  /\ command \in Command
  /\ case \in [{"dispute", "partial"} -> {"none", "open", "resolved"}]
  /\ job \in [Events -> Job]
  /\ deaths \in 0..MaxDeaths
  /\ ledger \subseteq Bundles /\ wire \subseteq Bundles

NewJob(try) == [pc |-> "start", try |-> try, bundle |-> None]
NoJob == [pc |-> "none", try |-> 0, bundle |-> None]

Init ==
  /\ session = "open"
  /\ outcome \in Outcomes
  /\ \A r \in Refunds : outcome[r] \in {"full", "partial"}
  /\ \A d \in Disputes : outcome[d] \in {"won", "lost", "other"}
  /\ inbox = [e \in Webhooks |-> "none"] /\ conflict = {}
  /\ prior = [e \in Events |-> "none"]
  /\ command = [state |-> "pending", applied |-> FALSE, reversal |-> "none", asker |-> None]
  /\ case = [k \in {"dispute", "partial"} |-> "none"]
  /\ job = [e \in Events |-> NoJob]
  /\ deaths = 0 /\ ledger = {} /\ wire = {}

(***************************************************************************)
(* Stripe.  A refund or a dispute happens when its first event comes; what *)
(* it turns out to be is chosen at the beginning.                          *)
(***************************************************************************)
CheckoutEnds ==
  /\ session = "open" /\ session' \in {"paid", "failed"}
  /\ UNCHANGED <<outcome, conflict, rows, posted, work>>

(* The events Stripe may deliver; those of a payment in any order. *)
Emitted(e) ==
  CASE Kind(e) = "processing" -> TRUE
    [] Kind(e) = "failed" -> session = "failed"
    [] FullRefund(e) -> session = "paid" /\ outcome[Of(e)] = "full"
    [] Kind(e) \in {"partial", "won", "lost", "other"} ->
         session = "paid" /\ outcome[Of(e)] = Kind(e)
    [] OTHER -> session = "paid"

(***************************************************************************)
(* The inbox.                                                              *)
(***************************************************************************)
(* A delivery, and the redelivery of an event whose work failed; every      *)
(* other redelivery is answered as replayed.                                *)
Ingest(e) ==
  /\ Emitted(e)
  /\ \/ inbox[e] = "failed"
     \/ inbox[e] = "none" /\ Cardinality({d \in Webhooks : inbox[d] # "none"}) < MaxEvents
  /\ inbox' = [inbox EXCEPT ![e] = "queued"]
  /\ job' = [job EXCEPT ![e] = NewJob(0)]
  /\ UNCHANGED <<stripe, conflict, rows, posted, deaths>>

IngestConflict(e) ==
  /\ inbox[e] # "none" /\ e \notin conflict
  /\ Cardinality(conflict) < MaxConflicts
  /\ conflict' = conflict \cup {e}
  /\ inbox' = [inbox EXCEPT ![e] = IF @ \in {"applied", "ignored"} THEN @
                                   ELSE "reconciliation_required"]
  /\ UNCHANGED <<stripe, rows, posted, job, deaths>>

(***************************************************************************)
(* A worker.                                                               *)
(***************************************************************************)
At(e, pc) == job[e].pc = pc
ToBook(e, bundle) ==
  /\ job' = [job EXCEPT ![e].pc = "book", ![e].bundle = bundle]
  /\ UNCHANGED <<inbox, deaths>>
Record(e, status) == prior' = [prior EXCEPT ![e] = status]
AtWork == UNCHANGED <<stripe, conflict>>

(* MUTANT of MayRetry: one attempt more than RETRY_MAX_ATTEMPTS. *)
MayRetryOnceMore(e, answer) == answer = "retry" /\ job[e].try + 1 <= MaxTries
MayRetry(e, answer) == answer = "retry" /\ job[e].try + 1 < MaxTries

(* What retryOrReconcile, requeue and complete make of a worker's answer.   *)
RowOf == [applied |-> "applied", replayed |-> "applied", ignored |-> "ignored",
          refused |-> "reconciliation_required", retry |-> "reconciliation_required",
          failed |-> "failed"]

(* MUTANT of Completed: complete leaves a failed work to the workpool. *)
CompletedUnlessFailed(e, answer) ==
  IF e \in conflict \/ MayRetry(e, answer) \/ answer = "failed" THEN inbox[e] ELSE RowOf[answer]
Completed(e, answer) ==
  IF e \in conflict \/ MayRetry(e, answer) THEN inbox[e] ELSE RowOf[answer]

Answer(e, answer) ==
  /\ inbox' = IF e = Return THEN inbox ELSE [inbox EXCEPT ![e] = Completed(e, answer)]
  /\ job' = [job EXCEPT ![e] =
       IF e # Return /\ MayRetry(e, answer) /\ inbox'[e] = "queued"
       THEN NewJob(@.try + 1) ELSE NoJob]

(* The workpool runs a dead worker again while its row is queued, or gives  *)
(* it up; nobody runs a customer's return again.                            *)
Dies(e) ==
  /\ deaths < MaxDeaths /\ deaths' = deaths + 1
  /\ \/ Answer(e, "failed")
     \/ /\ e # Return /\ inbox[e] = "queued"
        /\ job' = [job EXCEPT ![e] = NewJob(@.try)] /\ UNCHANGED inbox

(* A worker ends with an answer, or dies before it can give it. *)
Ends(e, answer) ==
  \/ Answer(e, answer) /\ UNCHANGED deaths
  \/ Dies(e)

Die(e) ==
  /\ ~At(e, "none") /\ Dies(e)
  /\ AtWork /\ UNCHANGED <<rows, posted>>

(* A worker that finds its row taken from the queue by a conflict stops; one *)
(* that read the row earlier goes on.                                        *)
Stop(e) ==
  /\ e # Return /\ At(e, "start") /\ inbox[e] # "queued" /\ Ends(e, "refused")
  /\ AtWork /\ UNCHANGED <<rows, posted>>

(* Stripe cannot be reached, or answers with another payment than the event *)
(* is of, which no retry changes; a dispute is not read back.               *)
Unavailable(e) ==
  /\ At(e, "start") /\ Kind(e) \notin DisputeKinds
  /\ Ends(e, "retry") \/ Ends(e, "refused")
  /\ AtWork /\ UNCHANGED <<rows, posted>>

(***************************************************************************)
(* Preparing.                                                              *)
(***************************************************************************)
(* MUTANT of Replays: an event that was only received counts as done. *)
ReplaysReceived(e) == prior[e] # "none"
Replays(e) == prior[e] = "applied" \/ (prior[e] = "ignored" /\ ~Checkout(e))

Prepares(e) == At(e, "start") /\ ~Replays(e) /\ prior[e] \in {"none", "received"}

(* ensureEventConsistency; a checkout event that was ignored is refused.    *)
PrepareAgain(e) ==
  /\ At(e, "start") /\ ~Prepares(e)
  /\ Ends(e, IF Replays(e) THEN "replayed" ELSE "refused")
  /\ AtWork /\ UNCHANGED <<rows, posted>>

PrepareUnpaid(e) ==
  /\ Prepares(e) /\ Kind(e) \in {"processing", "failed"}
  /\ Record(e, "ignored") /\ Ends(e, "ignored")
  /\ command' = IF Kind(e) = "failed" /\ command.state # "succeeded"
                THEN [command EXCEPT !.state = "failed"] ELSE command
  /\ AtWork /\ UNCHANGED <<case, posted>>

PreparePaid(e) ==
  /\ Prepares(e) /\ Kind(e) \in {"return", "paid"}
  /\ CASE command.state = "failed" -> Ends(e, "refused") /\ UNCHANGED prior
       [] command.state = "succeeded" -> Ends(e, "replayed") /\ UNCHANGED prior
       [] OTHER -> ToBook(e, Settlement) /\ Record(e, "received")
  /\ AtWork /\ UNCHANGED <<command, case, posted>>

PrepareTooEarly(e) ==
  /\ Prepares(e) /\ ~Checkout(e) /\ ~command.applied
  /\ Ends(e, "retry")
  /\ AtWork /\ UNCHANGED <<rows, posted>>

(* reversalRefundId: the refund or the dispute that reverses the credit. *)
By == IF command.asker = None THEN None ELSE Of(command.asker)
Opened(k) == IF case[k] = "none" THEN [case EXCEPT ![k] = "open"] ELSE case
Resolved(k) == IF case[k] = "open" THEN [case EXCEPT ![k] = "resolved"] ELSE case

(* A refund that is no longer what its event said, or a payment whose       *)
(* credit is not there to be reversed.                                      *)
PrepareChanged(e) ==
  /\ Prepares(e) /\ command.applied /\ Kind(e) \in RefundKinds
  /\ Ends(e, "refused")
  /\ AtWork /\ UNCHANGED <<rows, posted>>

PrepareIrreversible(e) ==
  /\ Prepares(e) /\ command.applied
  /\ FullRefund(e) \/ Kind(e) \in {"partial", "lost"}
  /\ command.state # "succeeded"
  /\ Ends(e, IF command.state = "reversed" /\ By = Of(e) THEN "replayed" ELSE "refused")
  /\ AtWork /\ UNCHANGED <<rows, posted>>

PrepareUnsettled(e) ==
  /\ Prepares(e) /\ command.applied /\ Kind(e) = "unsettled"
  /\ Record(e, "ignored") /\ Ends(e, "ignored")
  /\ AtWork /\ UNCHANGED <<command, case, posted>>

PreparePartial(e) ==
  /\ Prepares(e) /\ Kind(e) = "partial" /\ command.state = "succeeded"
  /\ case' = Opened("partial")
  /\ Record(e, "ignored") /\ Ends(e, "ignored")
  /\ AtWork /\ UNCHANGED <<command, posted>>

Ask(e) == command' = [command EXCEPT !.reversal = "pending", !.asker = e]

(* MUTANT of Booked: a second refund books a reversal of its own. *)
BookedOwn(e) == Reversal(Of(e))
(* A refund that finds a reversal under way books that one. *)
Booked(e) == Reversal(IF By = None THEN Of(e) ELSE By)

PrepareRefund(e) ==
  /\ Prepares(e) /\ FullRefund(e) /\ command.state = "succeeded"
  /\ CASE command.reversal = "succeeded" ->
            Ends(e, "replayed") /\ UNCHANGED <<prior, command>>
       [] command.reversal \in {"pending", "outcome_unknown"} ->
            /\ ToBook(e, Booked(e)) /\ UNCHANGED command
            /\ IF By = Of(e) THEN Record(e, "received") ELSE UNCHANGED prior
       [] OTHER -> ToBook(e, Booked(e)) /\ Record(e, "received") /\ Ask(e)
  /\ AtWork /\ UNCHANGED <<case, posted>>

(* The case is shared by the disputes of the command, and opened once.      *)
PrepareOpened(e) ==
  /\ Prepares(e) /\ command.applied /\ Kind(e) \in {"opened", "other"}
  /\ case' = Opened("dispute")
  /\ Record(e, "ignored") /\ Ends(e, "ignored")
  /\ AtWork /\ UNCHANGED <<command, posted>>

PrepareWon(e) ==
  /\ Prepares(e) /\ command.applied /\ Kind(e) = "won"
  /\ case' = Resolved("dispute")
  /\ Record(e, "ignored") /\ Ends(e, "ignored")
  /\ AtWork /\ UNCHANGED <<command, posted>>

(* MUTANT of FreezesLost: only an opened dispute freezes the Account. *)
FreezesLate == case
FreezesLost == Opened("dispute")

PrepareLost(e) ==
  /\ Prepares(e) /\ Kind(e) = "lost" /\ command.state = "succeeded"
  /\ IF By \notin {None, Of(e)}
     THEN Ends(e, "refused") /\ UNCHANGED rows
     ELSE /\ case' = FreezesLost
          /\ Record(e, "received")
          /\ IF By = None THEN Ask(e) ELSE UNCHANGED command
          /\ ToBook(e, Reversal(Of(e)))
  /\ AtWork /\ UNCHANGED posted

Prepare(e) ==
  \/ PrepareAgain(e) \/ PrepareUnpaid(e) \/ PreparePaid(e) \/ PrepareTooEarly(e)
  \/ PrepareChanged(e) \/ PrepareIrreversible(e) \/ PrepareUnsettled(e)
  \/ PreparePartial(e) \/ PrepareRefund(e)
  \/ PrepareOpened(e) \/ PrepareWon(e) \/ PrepareLost(e)

(***************************************************************************)
(* Booking.  The ledger names a transaction by its bundle: writing it      *)
(* twice is once.                                                          *)
(***************************************************************************)
Booking(e) == At(e, "book") /\ AtWork /\ UNCHANGED rows

WriteCompleted(e) ==
  /\ Booking(e)
  /\ ledger' = ledger \cup {job[e].bundle}
  /\ job' = [job EXCEPT ![e].pc = "finalize"]
  /\ UNCHANGED <<inbox, deaths, wire>>

(* No answer: the ledger wrote it, or may write it later. *)
WriteUnknown(e) ==
  /\ Booking(e)
  /\ \/ wire' = wire \cup {job[e].bundle} /\ UNCHANGED ledger
     \/ ledger' = ledger \cup {job[e].bundle} /\ UNCHANGED wire
  /\ job' = [job EXCEPT ![e].pc = "mark"]
  /\ UNCHANGED <<inbox, deaths>>

WriteUnavailable(e) == Booking(e) /\ Ends(e, "retry") /\ UNCHANGED posted

(* Refused, as when the credit is spent; never what the ledger holds. *)
WriteRefused(e) ==
  Booking(e) /\ job[e].bundle \notin ledger /\ Ends(e, "refused") /\ UNCHANGED posted

LateWrite(b) ==
  /\ b \in wire /\ wire' = wire \ {b} /\ ledger' = ledger \cup {b}
  /\ UNCHANGED <<stripe, conflict, rows, work>>

(***************************************************************************)
(* Finalizing.                                                             *)
(***************************************************************************)
(* MUTANT of FinalizePc: what the ledger did not answer is finalized. *)
FinalizePcAny == {"finalize", "mark"}
FinalizePc == {"finalize"}
Finalizing(e) == job[e].pc \in FinalizePc /\ AtWork /\ UNCHANGED posted

CreditApplied(e) ==
  /\ Finalizing(e) /\ Checkout(e)
  /\ command.state # "succeeded" /\ prior[e] = "received"
  /\ command' = [command EXCEPT !.state = "succeeded", !.applied = TRUE]
  /\ Record(e, "applied") /\ Ends(e, "applied") /\ UNCHANGED case

CreditReplayed(e) ==
  /\ Finalizing(e) /\ Checkout(e) /\ command.state = "succeeded"
  /\ Ends(e, "replayed") /\ UNCHANGED rows

(* Only the refund or the dispute that asked finalizes the reversal.        *)
MayReverse(e) == command.state = "succeeded" /\ prior[e] = "received" /\ By = Of(e)
HasReversed(e) == command.state = "reversed" /\ prior[e] # "none" /\ By = Of(e)
Unfrozen(e) == IF Kind(e) = "lost" THEN Resolved("dispute") ELSE case

ReversalApplied(e) ==
  /\ Finalizing(e) /\ ~Checkout(e) /\ MayReverse(e)
  /\ command' = [command EXCEPT !.state = "reversed", !.reversal = "succeeded"]
  /\ Record(e, "applied") /\ Ends(e, "applied") /\ case' = Unfrozen(e)

ReversalReplayed(e) ==
  /\ Finalizing(e) /\ ~Checkout(e) /\ HasReversed(e)
  /\ Ends(e, "replayed") /\ case' = Unfrozen(e) /\ UNCHANGED <<prior, command>>

(* Another event of the refund may have been read back with other evidence  *)
(* than the event that asked.                                               *)
ReversalRefused(e) ==
  /\ Finalizing(e) /\ ~Checkout(e) /\ ~HasReversed(e)
  /\ MayReverse(e) => command.asker # e
  /\ Ends(e, "refused") /\ UNCHANGED rows

(* The ledger's answer is lost. *)
MarkUnknown(e) ==
  /\ At(e, "mark") /\ Ends(e, "retry")
  /\ command' =
       IF Checkout(e)
       THEN IF command.state \in {"succeeded", "failed"} THEN command
            ELSE [command EXCEPT !.state = "outcome_unknown"]
       ELSE IF command.state = "succeeded" /\ command.asker = e
            THEN [command EXCEPT !.reversal = "outcome_unknown"] ELSE command
  /\ AtWork /\ UNCHANGED <<prior, case, posted>>

(***************************************************************************)
(* The customer and the owner.                                             *)
(***************************************************************************)
(* MUTANT of MayReturn: the return does not ask Stripe whether it was paid. *)
MayReturnUnpaid == command.state \notin {"succeeded", "reversed"}
MayReturn == session = "paid" /\ command.state \notin {"succeeded", "reversed"}

CustomerReturns ==
  /\ "return" \in Kinds /\ At(Return, "none") /\ MayReturn
  /\ job' = [job EXCEPT ![Return] = NewJob(0)]
  /\ UNCHANGED <<stripe, conflict, rows, posted, inbox, deaths>>

(* The owner's request loses Stripe's answer. *)
OwnerMarksUnknown ==
  /\ command.state = "pending"
  /\ command' = [command EXCEPT !.state = "outcome_unknown"]
  /\ UNCHANGED <<stripe, conflict, prior, case, posted, work>>

(* A dispute's case is not the owner's to settle. *)
OwnerResolves ==
  /\ case["partial"] = "open" /\ case' = Resolved("partial")
  /\ UNCHANGED <<stripe, conflict, prior, command, posted, work>>

Works(e) ==
  \/ Stop(e) \/ Unavailable(e) \/ Prepare(e)
  \/ WriteCompleted(e) \/ WriteUnknown(e) \/ WriteUnavailable(e) \/ WriteRefused(e)
  \/ CreditApplied(e) \/ CreditReplayed(e)
  \/ ReversalApplied(e) \/ ReversalReplayed(e) \/ ReversalRefused(e)
  \/ MarkUnknown(e)

Next ==
  \/ CheckoutEnds
  \/ \E e \in Webhooks : Ingest(e) \/ IngestConflict(e)
  \/ CustomerReturns \/ OwnerMarksUnknown \/ OwnerResolves
  \/ \E e \in Events : Works(e) \/ Die(e)
  \/ \E b \in Bundles : LateWrite(b)

Spec == Init /\ [][Next]_vars

(***************************************************************************)
(* Properties.                                                             *)
(***************************************************************************)
(* Whatever refunds and disputes there are of one payment, at most one      *)
(* reversal of its credit is ever written (reversalRefundId).               *)
ReversedOnce ==
  \A x, y \in Refunds \cup Disputes :
    {Reversal(x), Reversal(y)} \subseteq ledger \cup wire => x = y

(* The command says succeeded or reversed only of money the ledger moved.   *)
RowBacked ==
  /\ command.state = "succeeded" => Settlement \in ledger
  /\ command.state = "reversed" => {Settlement, Reversal(By)} \subseteq ledger

(* A payment, a full refund or a lost dispute whose event the inbox calls   *)
(* applied is in the ledger: no death, retry or replay lets one pass.       *)
AppliedIsBooked ==
  \A e \in Webhooks :
    inbox[e] = "applied" =>
      /\ Kind(e) = "paid" => command.applied /\ Settlement \in ledger
      /\ FullRefund(e) \/ Kind(e) = "lost" =>
           \E x \in Refunds \cup Disputes : Reversal(x) \in ledger

(* Once its loss is received, a lost dispute keeps the Account frozen until *)
(* the credit is reversed (prepareFundingDisputeEvent).                     *)
LostStaysFrozen ==
  \A e \in Webhooks :
    Kind(e) = "lost" /\ prior[e] = "received" =>
      case["dispute"] = "open" \/ Reversal(Of(e)) \in ledger

(* No event is forgotten in the inbox: while its row is queued, a worker    *)
(* has it or is scheduled to (enqueueProcess, requeue, complete).           *)
NoneForgotten == \A e \in Webhooks : inbox[e] = "queued" => job[e].pc # "none"

(* The top-up is credited once, only for a payment made, and its credit is   *)
(* reversed once, only after the command recorded it, and only for a full    *)
(* refund or a lost dispute (TopUp), whatever comes, is lost or dies.        *)
TopUp == INSTANCE TopUp WITH
  payment <- session,
  credited <- Settlement \in ledger,
  recorded <- command.applied,
  reversals <- {x \in Refunds \cup Disputes : Reversal(x) \in ledger}
ImplementsTopUp == TopUp!Spec

(* "credited --> reversed", "reversed --> [*]" (lifecycle-map-2026-10-11.md): *)
(* the command of a reversed top-up never says succeeded again.              *)
ReversedNotCredited == command.reversal = "succeeded" => command.state # "succeeded"
=============================================================================
