---------------------------- MODULE Reservation ----------------------------
(***************************************************************************)
(* Admission of paid Calls up to the moment a worker claims the dispatch:  *)
(* a request consumes a Quote, inserts the Call row with its promotional   *)
(* credit, claims a reservation attempt, asks the ledger to hold the       *)
(* buyer's money, and attaches, abandons or parks the row by the answer.   *)
(* Dispatch, owner approval, cancellation, refusal and the leased refund   *)
(* job that returns a hold whose Call will never run complete the picture. *)
(*                                                                         *)
(* A Convex mutation is one serializable transaction, so it is one action  *)
(* here; a Convex action (a request, a refund job) is a program counter    *)
(* whose steps interleave with everything else and which may die at any    *)
(* step.  Wall-clock leases are live or lapsed; a lease may lapse at any   *)
(* time, whoever is still working under it.                                *)
(***************************************************************************)
EXTENDS Naturals, FiniteSets

CONSTANTS
  Calls,          \* Call identities (callRef), each with its own Quote
  Requests,       \* concurrent tool.call invocations
  Jobs,           \* concurrent refund and recovery jobs (scheduled or cron)
  Credits,        \* the units of the account's promotional grant
  Price,          \* units of credit a Call may use
  MaxGeneration,  \* bound on reservation attempts per Call
  MaxAttempts,    \* RECONCILIATION_MAX_ATTEMPTS, 5 in the code
  MaxCrashes,     \* bound on the number of requests and jobs that die
  None            \* not a Call, not a Job

ASSUME ReservationAssumption ==
  /\ None \notin Calls \cup Jobs
  /\ IsFiniteSet(Credits)
  /\ Price \in Nat
  /\ MaxGeneration \in Nat \ {0}
  /\ MaxAttempts \in Nat \ {0}
  /\ MaxCrashes \in Nat

VARIABLES
  row,      \* row[c]: the capabilityCalls row
  quote,    \* quote[c]: state of the capabilityQuotes row and whether unexpired
  ledger,   \* ledger[c]: the atomic bundles posted for the Call
  wire,     \* writes whose answer was lost and that may still post
  grant,    \* units of promotional credit available to new Calls
  claimed,  \* claimed[c]: the worker's execution control exists
  req,      \* req[r]: the request in flight
  job,      \* job[j]: the refund or recovery job in flight
  crashes   \* how many requests and jobs died so far

vars == <<row, quote, ledger, wire, grant, claimed, req, job, crashes>>

Bundles == {"reserve", "release"}

Schedule == [reason : {"none", "refund_pending", "recovery_failed"},
             manual : BOOLEAN, tries : 0..MaxAttempts, owner : Jobs \cup {None}]

Row ==
  [state : {"absent", "pending", "reconciliation_required", "refused", "cancelled"},
   fin : {"reservation_pending", "reserved", "outcome_unknown", "released"},
   result : {"none", "needs_authority", "pending", "refused", "reconciliation_required"},
   gen : 0..MaxGeneration,   \* formanceReservationAttempt.generation, 0: no attempt
   leased : BOOLEAN,         \* leaseUntil > now
   ambiguous : BOOLEAN,
   refs : BOOLEAN,           \* formanceReservationRefs and their digest
   work : BOOLEAN,           \* workId and authority
   credit : SUBSET Credits,  \* promotionalCreditAllocation
   rec : Schedule]           \* reconciliation

RequestPC == {"idle", "stored", "reserve", "booking", "claim", "write", "attach",
              "markUnknown", "abandon", "replay", "dispatch", "record"}
JobPC == {"idle", "lease", "proof", "status", "booking", "write", "finalize", "finish"}

Request == [pc : RequestPC, call : Calls \cup {None}, initial : BOOLEAN,
            gen : 0..MaxGeneration,
            result : {"none", "needs_authority", "pending", "reconciliation_required"}]
Job == [pc : JobPC, call : Calls \cup {None},
        outcome : {"none", "success", "terminal", "retry", "error"}]

TypeOK ==
  /\ row \in [Calls -> Row]
  /\ quote \in [Calls -> [state : {"issued", "consumed"}, live : BOOLEAN]]
  /\ ledger \in [Calls -> SUBSET Bundles]
  /\ wire \subseteq Calls \X Bundles
  /\ grant \subseteq Credits
  /\ claimed \in [Calls -> BOOLEAN]
  /\ req \in [Requests -> Request]
  /\ job \in [Jobs -> Job]
  /\ crashes \in 0..MaxCrashes

NoSchedule == [reason |-> "none", manual |-> FALSE, tries |-> 0, owner |-> None]
AutomaticSchedule(reason) == [NoSchedule EXCEPT !.reason = reason]

AbsentRow == [state |-> "absent", fin |-> "reservation_pending", result |-> "none",
              gen |-> 0, leased |-> FALSE, ambiguous |-> FALSE, refs |-> FALSE,
              work |-> FALSE, credit |-> {}, rec |-> NoSchedule]
IdleRequest == [pc |-> "idle", call |-> None, initial |-> FALSE, gen |-> 0,
                result |-> "none"]
IdleJob == [pc |-> "idle", call |-> None, outcome |-> "none"]

Init ==
  /\ row = [c \in Calls |-> AbsentRow]
  /\ quote = [c \in Calls |-> [state |-> "issued", live |-> TRUE]]
  /\ ledger = [c \in Calls |-> {}]
  /\ wire = {}
  /\ grant = Credits
  /\ claimed = [c \in Calls |-> FALSE]
  /\ req = [r \in Requests |-> IdleRequest]
  /\ job = [j \in Jobs |-> IdleJob]
  /\ crashes = 0

(***************************************************************************)
(* Shared conditions of the handlers.                                      *)
(***************************************************************************)
Present(c) == row[c].state # "absent"

(* financialStateHasReleaseUncertainty *)
Uncertain(c) == row[c].fin \in {"reservation_pending", "outcome_unknown"}

(* dispatchHasStarted, for a paid Call; dispatchState is set with result *)
DispatchStarted(c) ==
  \/ row[c].state # "pending"
  \/ row[c].fin # "reservation_pending"
  \/ row[c].result # "none"
  \/ row[c].work

(* MUTANT of MayAbandon: any attempt may abandon, not only the current one *)
MayAbandonAnyAttempt(c, g) == Present(c) /\ ~DispatchStarted(c)

(* abandonHandler, called with generation g (0 when the caller passes none) *)
MayAbandon(c, g) ==
  /\ Present(c)
  /\ row[c].gen > 0 => ~row[c].ambiguous /\ row[c].gen = g
  /\ ~DispatchStarted(c)

(* claimPromotionalCredit takes the Price, or what is left of the grant *)
Affordable(taken) ==
  Cardinality(taken) = IF Cardinality(grant) < Price THEN Cardinality(grant) ELSE Price

(* restorePromotionalCredit refuses a balance above the original grant *)
MayRestore(c) == Cardinality(grant) + Cardinality(row[c].credit) <= Cardinality(Credits)

RowBecomes(c, r) == row' = [row EXCEPT ![c] = r]
QuoteBecomes(c, q) == quote' = [quote EXCEPT ![c] = q]
Post(c, b) == ledger' = [ledger EXCEPT ![c] = @ \cup {b}]

(* deletes the row, restores its credit, hands an unexpired Quote back *)
AbandonRow(c) ==
  /\ MayRestore(c)
  /\ grant' = grant \cup row[c].credit
  /\ RowBecomes(c, AbsentRow)
  /\ QuoteBecomes(c, [quote[c] EXCEPT !.state = IF quote[c].live THEN "issued" ELSE @])

(* The per-Call ledger accounts admit no overdraft and every reference posts *)
(* at most once, so these are the bundles the ledger can still accept.       *)
CanPost(c, b) ==
  /\ b \notin ledger[c]
  /\ b = "release" => "reserve" \in ledger[c]

(* MUTANT of WithRefund: an older recovery schedule is left in place *)
WithRefundIfNoSchedule(r) ==
  IF r.fin = "reserved" /\ r.rec.reason = "none" /\ ~r.work
  THEN [r EXCEPT !.rec = AutomaticSchedule("refund_pending")]
  ELSE r

(* refundReconciliation is scheduled only where the buyer's money is held *)
WithRefund(r) ==
  IF r.fin = "reserved" /\ r.rec.reason # "refund_pending"
  THEN [r EXCEPT !.rec = AutomaticSchedule("refund_pending")]
  ELSE r

(* initializeReconciliationIfAbsent *)
WithRecovery(r) ==
  IF r.state = "reconciliation_required" /\ r.rec.reason = "none"
  THEN [r EXCEPT !.rec = AutomaticSchedule("recovery_failed")]
  ELSE r

Enqueued(r) == [r EXCEPT !.work = TRUE, !.result = "pending"]

RequestBecomes(r, q) == req' = [req EXCEPT ![r] = q]
Goto(r, pc) == RequestBecomes(r, [req[r] EXCEPT !.pc = pc])
Stop(r) == RequestBecomes(r, IdleRequest)
JobBecomes(j, b) == job' = [job EXCEPT ![j] = b]
GotoJob(j, pc) == JobBecomes(j, [job[j] EXCEPT !.pc = pc])
StopJob(j) == JobBecomes(j, IdleJob)
Outcome(j, outcome) == JobBecomes(j, [job[j] EXCEPT !.pc = "finish", !.outcome = outcome])

(***************************************************************************)
(* A request: canonicalAgentCallCore, then reserveFormanceBackedInvocation *)
(* and attachFormanceReservation, then callReservedTool.                   *)
(***************************************************************************)

(* readForCall: only an issued, unexpired Quote goes on to a purchase.     *)
Offered(c) == quote[c].state = "issued" /\ quote[c].live

Admit(r, c) ==
  /\ req[r].pc = "idle"
  /\ RequestBecomes(r, [IdleRequest EXCEPT
       !.pc = IF Offered(c) THEN "reserve" ELSE "stored", !.call = c])
  /\ UNCHANGED <<row, quote, ledger, wire, grant, claimed, job, crashes>>

(* a consumed Quote answers with its stored Call and changes nothing; an    *)
(* expired one is refused                                                   *)
AnswerStored(r) ==
  /\ req[r].pc = "stored"
  /\ Stop(r)
  /\ UNCHANGED <<row, quote, ledger, wire, grant, claimed, job, crashes>>

(* reserveHandler, new Call *)
ReserveNew(r) == LET c == req[r].call IN
  /\ req[r].pc = "reserve"
  /\ ~Present(c)
  /\ Offered(c)
  /\ \E taken \in SUBSET grant :
       /\ Affordable(taken)
       /\ grant' = grant \ taken
       /\ RowBecomes(c, [AbsentRow EXCEPT !.state = "pending", !.credit = taken])
  /\ QuoteBecomes(c, [quote[c] EXCEPT !.state = "consumed"])
  /\ RequestBecomes(r, [req[r] EXCEPT !.pc = "booking", !.initial = TRUE])
  /\ UNCHANGED <<ledger, wire, claimed, job, crashes>>

(* reserveHandler, same principal and idempotency key *)
ReserveReplayed(r) ==
  /\ req[r].pc = "reserve"
  /\ Present(req[r].call)
  /\ Goto(r, "booking")
  /\ UNCHANGED <<row, quote, ledger, wire, grant, claimed, job, crashes>>

(* reserveHandler refuses: Quote gone, grant, spend period or rate refusal *)
ReserveRefused(r) ==
  /\ req[r].pc = "reserve"
  /\ ~Present(req[r].call)
  /\ Stop(r)
  /\ UNCHANGED <<row, quote, ledger, wire, grant, claimed, job, crashes>>

(* readBooking decides whether the hold still has to be taken *)
ReadBooking(r) == LET c == req[r].call IN
  /\ req[r].pc = "booking"
  /\ IF ~Present(c) THEN Stop(r)
     ELSE IF row[c].fin = "outcome_unknown" /\ row[c].refs
       THEN RequestBecomes(r, [req[r] EXCEPT !.pc = "replay", !.initial = FALSE])
     ELSE IF row[c].fin = "reserved"
       THEN Goto(r, IF req[r].initial THEN "dispatch" ELSE "replay")
     ELSE Goto(r, "claim")
  /\ UNCHANGED <<row, quote, ledger, wire, grant, claimed, job, crashes>>

(* the Call's financial scope is locked: nothing is taken, the caller may retry *)
BookingRefused(r) ==
  /\ req[r].pc = "booking"
  /\ Stop(r)
  /\ UNCHANGED <<row, quote, ledger, wire, grant, claimed, job, crashes>>

(* claimReservationAttemptHandler.  A lease permits a retry; it proves     *)
(* nothing about an older write, so any attempt but the first is ambiguous.*)
(* MUTANT of Ambiguous: a lapsed lease is taken to prove the write absent.  *)
AmbiguousOnlyIfUnknown(c, initial) == row[c].fin = "outcome_unknown"

Ambiguous(c, initial) ==
  ~initial \/ row[c].gen > 0 \/ row[c].fin = "outcome_unknown"

Claimable(c) ==
  /\ Present(c)
  /\ ~row[c].refs /\ ~row[c].work
  /\ row[c].fin \in {"reservation_pending", "outcome_unknown"}
  /\ ~row[c].leased

ClaimAttempt(r) == LET c == req[r].call IN
  /\ req[r].pc = "claim"
  /\ Claimable(c)
  /\ row[c].gen < MaxGeneration
  /\ RowBecomes(c, [row[c] EXCEPT !.gen = row[c].gen + 1, !.leased = TRUE,
                       !.ambiguous = Ambiguous(c, req[r].initial)])
  /\ RequestBecomes(r, [req[r] EXCEPT !.pc = "write", !.gen = row[c].gen + 1])
  /\ UNCHANGED <<quote, ledger, wire, grant, claimed, job, crashes>>

ClaimBusy(r) ==
  /\ req[r].pc = "claim"
  /\ ~Claimable(req[r].call)
  /\ Stop(r)
  /\ UNCHANGED <<row, quote, ledger, wire, grant, claimed, job, crashes>>

(* executeFormanceMoneyBulk: the bundle posts, or was found already posted *)
WriteCompleted(r) == LET c == req[r].call IN
  /\ req[r].pc = "write"
  /\ Post(c, "reserve")
  /\ Goto(r, "attach")
  /\ UNCHANGED <<row, quote, wire, grant, claimed, job, crashes>>

(* no usable answer: the write may post later, or was never sent *)
WriteUnknown(r) == LET c == req[r].call IN
  /\ req[r].pc = "write"
  /\ wire' \in {wire, wire \cup {<<c, "reserve">>}}
  /\ Goto(r, "markUnknown")
  /\ UNCHANGED <<row, quote, ledger, grant, claimed, job, crashes>>

(* refused or unavailable: this write did not and will not post *)
WriteRejected(r) ==
  /\ req[r].pc = "write"
  /\ Goto(r, "abandon")
  /\ UNCHANGED <<row, quote, ledger, wire, grant, claimed, job, crashes>>

(* attachReservationHandler.  A row marked unknown may still be recovered.  *)
Recovering(c) ==
  /\ row[c].state = "reconciliation_required"
  /\ row[c].fin = "outcome_unknown"
  /\ ~row[c].refs /\ ~row[c].work

Attachable(c) ==
  /\ ~row[c].refs
  /\ row[c].state = "pending" \/ Recovering(c)
  /\ quote[c].state = "consumed"

Attach(r) == LET c == req[r].call IN
  /\ req[r].pc = "attach"
  /\ IF Attachable(c)
     THEN RowBecomes(c, [row[c] EXCEPT !.state = "pending", !.fin = "reserved",
                           !.refs = TRUE, !.result = IF Recovering(c) THEN "none" ELSE @])
     ELSE UNCHANGED row
  /\ Goto(r, IF ~Attachable(c) /\ ~row[c].refs THEN "markUnknown"
             ELSE IF req[r].initial THEN "dispatch" ELSE "replay")
  /\ UNCHANGED <<quote, ledger, wire, grant, claimed, job, crashes>>

(* MUTANT of MayMarkUnknown: a hold another attempt attached is overwritten *)
MayMarkAttached(c) ==
  Present(c) /\ (row[c].state = "pending" \/ row[c].fin = "outcome_unknown")

MayMarkUnknown(c) ==
  /\ Present(c)
  /\ ~row[c].refs
  /\ row[c].state = "pending" \/ row[c].fin = "outcome_unknown"

(* markReservationUnknownHandler; the request then answers as a replay *)
MarkUnknown(r) == LET c == req[r].call IN
  /\ req[r].pc = "markUnknown"
  /\ IF MayMarkUnknown(c)
     THEN RowBecomes(c, [row[c] EXCEPT !.fin = "outcome_unknown",
                           !.state = "reconciliation_required",
                           !.result = "reconciliation_required"])
     ELSE UNCHANGED row
  /\ RequestBecomes(r, [req[r] EXCEPT !.pc = "replay", !.initial = FALSE])
  /\ UNCHANGED <<quote, ledger, wire, grant, claimed, job, crashes>>

(* abandon, with the generation of this request's attempt *)
Abandon(r) == LET c == req[r].call IN
  /\ req[r].pc = "abandon"
  /\ IF MayAbandon(c, req[r].gen)
     THEN AbandonRow(c)
     ELSE UNCHANGED <<row, quote, grant>>
  /\ Stop(r)
  /\ UNCHANGED <<ledger, wire, claimed, job, crashes>>

(* readReplay: a stored result answers a replayed request *)
Replay(r) == LET c == req[r].call IN
  /\ req[r].pc = "replay"
  /\ IF row[c].result # "none" THEN Stop(r) ELSE Goto(r, "dispatch")
  /\ UNCHANGED <<row, quote, ledger, wire, grant, claimed, job, crashes>>

(* only the request that created the Call records what it answered *)
Answer(r, result) ==
  IF req[r].initial
  THEN RequestBecomes(r, [req[r] EXCEPT !.pc = "record", !.result = result])
  ELSE Stop(r)

(* authority approved: enqueueCallDispatch enqueues or replays *)
Dispatch(r) == LET c == req[r].call IN
  /\ req[r].pc = "dispatch"
  /\ row[c].state = "pending"
  /\ RowBecomes(c, IF row[c].work THEN row[c] ELSE Enqueued(row[c]))
  /\ Answer(r, "pending")
  /\ UNCHANGED <<quote, ledger, wire, grant, claimed, job, crashes>>

NeedsAuthority(r) ==
  /\ req[r].pc = "dispatch"
  /\ Answer(r, "needs_authority")
  /\ UNCHANGED <<row, quote, ledger, wire, grant, claimed, job, crashes>>

(* preflight, authority or dispatch refused: refuseBeforeDispatch abandons  *)
(* without a generation, so a Call with an attempt answers that it started. *)
RefuseBeforeDispatch(r) == LET c == req[r].call IN
  /\ req[r].pc = "dispatch"
  /\ IF MayAbandon(c, 0)
     THEN AbandonRow(c) /\ Stop(r)
     ELSE /\ IF Present(c) THEN Answer(r, "reconciliation_required") ELSE Stop(r)
          /\ UNCHANGED <<row, quote, grant>>
  /\ UNCHANGED <<ledger, wire, claimed, job, crashes>>

(* MUTANT of Recordable: the answer overwrites whatever the row has become *)
RecordableAlways(c, state) == TRUE

Recordable(c, state) == row[c].state \in {"pending", state}

(* recordHandler: a row that left pending keeps its state and result *)
Record(r) == LET c == req[r].call
                 state == IF req[r].result = "reconciliation_required"
                          THEN "reconciliation_required" ELSE "pending" IN
  /\ req[r].pc = "record"
  /\ RowBecomes(c,
       IF Recordable(c, state)
       THEN WithRecovery([row[c] EXCEPT !.state = state, !.result = req[r].result])
       ELSE WithRecovery(row[c]))
  /\ Stop(r)
  /\ UNCHANGED <<quote, ledger, wire, grant, claimed, job, crashes>>

(* the action dies; a write it had sent may still post *)
CrashRequest(r) ==
  /\ req[r].pc # "idle"
  /\ crashes < MaxCrashes
  /\ crashes' = crashes + 1
  /\ wire' \in IF req[r].pc = "write"
               THEN {wire, wire \cup {<<req[r].call, "reserve">>}} ELSE {wire}
  /\ Stop(r)
  /\ UNCHANGED <<row, quote, ledger, grant, claimed, job>>

(***************************************************************************)
(* The world: late ledger writes and clocks.                               *)
(***************************************************************************)
LateWrite(c, b) ==
  /\ <<c, b>> \in wire
  /\ wire' = wire \ {<<c, b>>}
  /\ IF CanPost(c, b) THEN Post(c, b) ELSE UNCHANGED ledger
  /\ UNCHANGED <<row, quote, grant, claimed, req, job, crashes>>

LostWrite(c, b) ==
  /\ <<c, b>> \in wire
  /\ wire' = wire \ {<<c, b>>}
  /\ UNCHANGED <<row, quote, ledger, grant, claimed, req, job, crashes>>

AttemptLeaseLapses(c) ==
  /\ row[c].leased
  /\ RowBecomes(c, [row[c] EXCEPT !.leased = FALSE])
  /\ UNCHANGED <<quote, ledger, wire, grant, claimed, req, job, crashes>>

JobLeaseLapses(c) ==
  /\ row[c].rec.owner # None
  /\ RowBecomes(c, [row[c] EXCEPT !.rec = [row[c].rec EXCEPT !.owner = None]])
  /\ UNCHANGED <<quote, ledger, wire, grant, claimed, req, job, crashes>>

QuoteExpires(c) ==
  /\ quote[c].live
  /\ QuoteBecomes(c, [quote[c] EXCEPT !.live = FALSE])
  /\ UNCHANGED <<row, ledger, wire, grant, claimed, req, job, crashes>>

(***************************************************************************)
(* Owner, caller and worker, each one mutation.                            *)
(***************************************************************************)

(* decideCallApproval: approve *)
Approve(c) ==
  /\ row[c].state = "pending" /\ row[c].result = "needs_authority" /\ ~row[c].work
  /\ RowBecomes(c, Enqueued(row[c]))
  /\ UNCHANGED <<quote, ledger, wire, grant, claimed, req, job, crashes>>

(* refusePendingApproval: denied by the owner or expired *)
Deny(c) ==
  /\ row[c].state = "pending" /\ row[c].result = "needs_authority" /\ ~row[c].work
  /\ ~Uncertain(c)
  /\ RowBecomes(c, [row[c] EXCEPT !.state = "refused", !.result = "refused",
                       !.rec = IF row[c].fin = "reserved"
                               THEN AutomaticSchedule("refund_pending") ELSE @])
  /\ UNCHANGED <<quote, ledger, wire, grant, claimed, req, job, crashes>>

(* cancelBeforeClaimHandler while no execution control exists *)
Cancel(c) ==
  /\ ~claimed[c]
  /\ row[c].state = "pending" /\ ~Uncertain(c)
  /\ RowBecomes(c, WithRefund([row[c] EXCEPT !.state = "cancelled", !.result = "refused",
                                !.work = FALSE]))
  /\ UNCHANGED <<quote, ledger, wire, grant, claimed, req, job, crashes>>

(* cancelBeforeClaim that lost its race still opens the recovery schedule *)
CancelRefused(c) ==
  /\ ~claimed[c]
  /\ row[c].state = "reconciliation_required" /\ row[c].rec.reason = "none"
  /\ RowBecomes(c, WithRecovery(row[c]))
  /\ UNCHANGED <<quote, ledger, wire, grant, claimed, req, job, crashes>>

(* MUTANT of WorkerClaim: the claim does not look at the row's state again *)
WorkerClaimStale(c) ==
  /\ ~claimed[c]
  /\ row[c].work
  /\ claimed' = [claimed EXCEPT ![c] = TRUE]
  /\ UNCHANGED <<row, quote, ledger, wire, grant, req, job, crashes>>

(* claimDispatchHandler: the control and its first attempt are created *)
WorkerClaim(c) ==
  /\ ~claimed[c]
  /\ row[c].state = "pending" /\ row[c].work
  /\ claimed' = [claimed EXCEPT ![c] = TRUE]
  /\ UNCHANGED <<row, quote, ledger, wire, grant, req, job, crashes>>

(* refuseUnclaimedHandler, called by the worker's gates *)
WorkerRefuse(c) ==
  /\ ~claimed[c]
  /\ row[c].state = "pending" /\ row[c].work /\ ~Uncertain(c)
  /\ RowBecomes(c, WithRefund([row[c] EXCEPT !.state = "refused", !.result = "refused"]))
  /\ UNCHANGED <<quote, ledger, wire, grant, claimed, req, job, crashes>>

(* completeWorkHandler: the work item ended in failure before any claim *)
WorkFails(c) ==
  /\ ~claimed[c]
  /\ row[c].state = "pending" /\ row[c].work
  /\ RowBecomes(c,
       IF row[c].refs /\ row[c].fin # "released"
       THEN WithRecovery([row[c] EXCEPT !.state = "reconciliation_required",
                            !.result = "reconciliation_required"])
       ELSE [row[c] EXCEPT !.state = "refused", !.result = "refused"])
  /\ UNCHANGED <<quote, ledger, wire, grant, claimed, req, job, crashes>>

(***************************************************************************)
(* reconcilePreClaimRefund and the recovery sweep of reconcileScheduled.   *)
(***************************************************************************)
IsRefund(c) ==
  /\ row[c].state \in {"refused", "cancelled"}
  /\ row[c].rec.reason = "refund_pending"

(* readPreClaimRefund *)
RefundProof(c) ==
  /\ IsRefund(c)
  /\ row[c].result = "refused"
  /\ row[c].refs
  /\ row[c].fin \in {"reserved", "released"}
  /\ ~claimed[c]

(* MUTANT of Due: only a schedule that was never tried is due *)
DueOnce(c) ==
  /\ \/ row[c].state = "reconciliation_required" /\ row[c].rec.reason # "none"
     \/ IsRefund(c)
  /\ row[c].rec.tries = 0
  /\ row[c].rec.owner = None

(* hasClaimableReconciliation; due times are abstracted to "any time" *)
Due(c) ==
  /\ \/ row[c].state = "reconciliation_required" /\ row[c].rec.reason # "none"
     \/ IsRefund(c)
  /\ ~row[c].rec.manual
  /\ row[c].rec.owner = None

(* hasCurrentAutomaticLease *)
HasLease(j, c) ==
  /\ row[c].state = "reconciliation_required" \/ IsRefund(c)
  /\ ~row[c].rec.manual
  /\ row[c].rec.owner = j

(* the scheduled refund and the sweep pick a candidate by a query *)
JobStart(j, c) ==
  /\ job[j].pc = "idle"
  /\ ~claimed[c]
  /\ RefundProof(c) \/ (Due(c) /\ ~IsRefund(c))
  /\ JobBecomes(j, [IdleJob EXCEPT !.pc = "lease", !.call = c])
  /\ UNCHANGED <<row, quote, ledger, wire, grant, claimed, req, crashes>>

(* claimAutomaticReconciliationCandidateHandler *)
JobLease(j) == LET c == job[j].call IN
  /\ job[j].pc = "lease"
  /\ IF Due(c)
     THEN /\ RowBecomes(c, [row[c] EXCEPT !.rec = [row[c].rec EXCEPT !.owner = j]])
          /\ GotoJob(j, IF IsRefund(c) THEN "proof" ELSE "status")
     ELSE /\ UNCHANGED row
          /\ StopJob(j)
  /\ UNCHANGED <<quote, ledger, wire, grant, claimed, req, crashes>>

(* readRecoveryStatus without an execution control reads the stored row; it *)
(* moves no money.                                                          *)
JobStatus(j) == LET c == job[j].call IN
  /\ job[j].pc = "status"
  /\ Outcome(j, IF row[c].state \in {"refused", "cancelled"} THEN "terminal" ELSE "retry")
  /\ UNCHANGED <<row, quote, ledger, wire, grant, claimed, req, crashes>>

(* the proof is read again under the lease *)
JobProof(j) ==
  /\ job[j].pc = "proof"
  /\ IF RefundProof(job[j].call) THEN GotoJob(j, "booking") ELSE Outcome(j, "error")
  /\ UNCHANGED <<row, quote, ledger, wire, grant, claimed, req, crashes>>

(* releaseBeforeSubmission: query, ledger bundle, finalizeRelease *)
JobBooking(j) == LET c == job[j].call IN
  /\ job[j].pc = "booking"
  /\ CASE row[c].fin = "released" -> Outcome(j, "success")
       [] row[c].fin = "reserved" -> GotoJob(j, "write")
       [] OTHER -> Outcome(j, "retry")
  /\ UNCHANGED <<row, quote, ledger, wire, grant, claimed, req, crashes>>

JobWriteCompleted(j) == LET c == job[j].call IN
  /\ job[j].pc = "write"
  /\ "release" \in ledger[c] \/ CanPost(c, "release")
  /\ Post(c, "release")
  /\ GotoJob(j, "finalize")
  /\ UNCHANGED <<row, quote, wire, grant, claimed, req, crashes>>

(* unknown, refused or unavailable; an unknown write may still post *)
JobWriteFailed(j) == LET c == job[j].call IN
  /\ job[j].pc = "write"
  /\ wire' \in {wire, wire \cup {<<c, "release">>}}
  /\ Outcome(j, "retry")
  /\ UNCHANGED <<row, quote, ledger, grant, claimed, req, crashes>>

(* MUTANT of Releasable: a release that was already recorded is recorded again *)
ReleasableAgain(c) == row[c].fin \in {"reserved", "released"} /\ MayRestore(c)

Releasable(c) == row[c].fin = "reserved" /\ MayRestore(c)

(* finalizeReleaseHandler, without a proof of an unused authorization *)
JobFinalize(j) == LET c == job[j].call IN
  /\ job[j].pc = "finalize"
  /\ IF Releasable(c)
     THEN /\ grant' = grant \cup row[c].credit
          /\ RowBecomes(c, [row[c] EXCEPT !.fin = "released"])
          /\ Outcome(j, "success")
     ELSE /\ Outcome(j, IF row[c].fin = "released" THEN "success" ELSE "error")
          /\ UNCHANGED <<row, grant>>
  /\ UNCHANGED <<quote, ledger, wire, claimed, req, crashes>>

(* a refund schedule may end only once the hold is durably released *)
Early(c) == IsRefund(c) /\ row[c].fin # "released"

(* MUTANT of GivesUp: one try too many *)
GivesUpLate(tries) == tries > MaxAttempts

GivesUp(tries) == tries >= MaxAttempts

(* finishAutomaticReconciliationHandler *)
JobFinish(j) == LET c == job[j].call
                    early == Early(c)
                    done == job[j].outcome \in {"success", "terminal"} /\ ~early
                    tries == row[c].rec.tries + 1
                    reason == IF IsRefund(c) THEN "refund_pending"
                              ELSE IF job[j].outcome = "error" THEN "recovery_failed"
                              ELSE row[c].rec.reason IN
  /\ job[j].pc = "finish"
  /\ IF HasLease(j, c)
     THEN RowBecomes(c, [row[c] EXCEPT !.rec =
            IF done THEN NoSchedule
            ELSE [reason |-> reason, manual |-> GivesUp(tries),
                  tries |-> tries, owner |-> None]])
     ELSE UNCHANGED row
  /\ StopJob(j)
  /\ UNCHANGED <<quote, ledger, wire, grant, claimed, req, crashes>>

(* the job dies; its lease stays until it lapses, its write may still post *)
CrashJob(j) ==
  /\ job[j].pc # "idle"
  /\ crashes < MaxCrashes
  /\ crashes' = crashes + 1
  /\ wire' \in IF job[j].pc = "write"
               THEN {wire, wire \cup {<<job[j].call, "release">>}} ELSE {wire}
  /\ StopJob(j)
  /\ UNCHANGED <<row, quote, ledger, grant, claimed, req>>

RequestStep(r) ==
  \/ AnswerStored(r) \/ ReserveNew(r) \/ ReserveReplayed(r) \/ ReserveRefused(r)
  \/ ReadBooking(r) \/ BookingRefused(r) \/ ClaimAttempt(r) \/ ClaimBusy(r)
  \/ WriteCompleted(r) \/ WriteUnknown(r) \/ WriteRejected(r)
  \/ Attach(r) \/ MarkUnknown(r) \/ Abandon(r)
  \/ Replay(r) \/ Dispatch(r) \/ NeedsAuthority(r) \/ RefuseBeforeDispatch(r) \/ Record(r)

JobStep(j) ==
  \/ JobLease(j) \/ JobStatus(j) \/ JobProof(j) \/ JobBooking(j)
  \/ JobWriteCompleted(j) \/ JobWriteFailed(j) \/ JobFinalize(j) \/ JobFinish(j)

CallStep(c) ==
  \/ AttemptLeaseLapses(c) \/ JobLeaseLapses(c) \/ QuoteExpires(c)
  \/ Approve(c) \/ Deny(c) \/ Cancel(c) \/ CancelRefused(c)
  \/ WorkerClaim(c) \/ WorkerRefuse(c) \/ WorkFails(c)

Next ==
  \/ \E r \in Requests : RequestStep(r) \/ CrashRequest(r) \/ \E c \in Calls : Admit(r, c)
  \/ \E j \in Jobs : JobStep(j) \/ CrashJob(j) \/ \E c \in Calls : JobStart(j, c)
  \/ \E c \in Calls : CallStep(c)
  \/ \E c \in Calls, b \in Bundles : LateWrite(c, b) \/ LostWrite(c, b)

Spec == Init /\ [][Next]_vars

(* Work in flight goes on, leases lapse, the cron starts what is due, and a *)
(* ledger asked again and again answers in the end.                         *)
FairSpec ==
  /\ Spec
  /\ \A r \in Requests : WF_vars(RequestStep(r))
  /\ \A j \in Jobs : WF_vars(JobStep(j)) /\ SF_vars(JobWriteCompleted(j))
  /\ \A c \in Calls : /\ WF_vars(AttemptLeaseLapses(c))
                      /\ WF_vars(JobLeaseLapses(c))
                      /\ WF_vars(\E j \in Jobs : JobStart(j, c))

(* ... and the caller retries a Call as long as it has not ended. *)
RetrySpec ==
  /\ FairSpec
  /\ \A c \in Calls : WF_vars(\E r \in Requests : Admit(r, c))

(***************************************************************************)
(* Properties.                                                             *)
(***************************************************************************)
Terminal(c) == row[c].state \in {"refused", "cancelled"}
Outstanding(c) == Present(c) /\ row[c].fin # "released"
PostClaim == {"write", "attach", "markUnknown", "abandon"}

(* A Call that was abandoned, so that its Quote is offered again and its    *)
(* credit is back, never has the buyer's money held for it, then or later:  *)
(* the ledger posted nothing and no write is still on its way.              *)
AbandonedNeverHeld == \A c \in Calls :
  ~Present(c) => "reserve" \notin ledger[c] /\ <<c, "reserve">> \notin wire

(* The inductive strengthening of AbandonedNeverHeld: attempts are numbered *)
(* apart, only the first can be unambiguous, and while it is undecided the  *)
(* ledger holds nothing that another attempt could have posted.             *)
AttemptInv ==
  /\ AbandonedNeverHeld
  /\ \A r \in Requests : req[r].pc \in PostClaim =>
       /\ req[r].call \in Calls
       /\ Present(req[r].call)
       /\ req[r].gen \in 1..row[req[r].call].gen
  /\ \A r, s \in Requests :
       (/\ req[r].pc \in PostClaim /\ req[s].pc \in PostClaim
        /\ req[r].call = req[s].call /\ req[r].gen = req[s].gen) => r = s
  /\ \A c \in Calls :
       /\ ~row[c].ambiguous => row[c].gen <= 1
       /\ row[c].gen = 0 => "reserve" \notin ledger[c] /\ <<c, "reserve">> \notin wire
  /\ \A r \in Requests :
       (req[r].pc \in {"write", "abandon"} /\ ~row[req[r].call].ambiguous) =>
         /\ "reserve" \notin ledger[req[r].call]
         /\ <<req[r].call, "reserve">> \notin wire

(* The row never says more than the ledger did: a Call recorded as reserved *)
(* was reserved there, one recorded as released was released there, and     *)
(* only a Call whose money is held is ever enqueued for work.               *)
RowBackedByLedger == \A c \in Calls :
  /\ row[c].fin \in {"reserved", "released"} => "reserve" \in ledger[c]
  /\ row[c].fin = "released" => "release" \in ledger[c]
  /\ row[c].work => row[c].refs /\ ~Uncertain(c)

(* A Call a worker has claimed is never refunded behind its back: neither   *)
(* the ledger nor a write still on its way releases its hold.               *)
ClaimedNeverRefunded == \A c \in Calls :
  claimed[c] => "release" \notin ledger[c] /\ <<c, "release">> \notin wire

(* The inductive strengthening of RowBackedByLedger, ClaimedNeverRefunded   *)
(* and RefundNotForgotten: what a row may look like, what a request or job  *)
(* past its write knows of the ledger, and that money goes back only for    *)
(* Calls that ended before any claim.                                       *)
Answered(c) == row[c].refs \/ row[c].result # "none"

RowConsistent(c) ==
  /\ row[c].refs <=> row[c].fin \in {"reserved", "released"}
  /\ row[c].work \/ row[c].result = "needs_authority" \/ Terminal(c) => row[c].refs
  /\ ~Present(c) => ~Answered(c)
  /\ row[c].state \notin {"absent", "pending"} => row[c].result # "none"
  /\ Terminal(c) /\ row[c].fin = "reserved" => row[c].rec.reason = "refund_pending"

RowBacked(c) ==
  /\ row[c].refs => "reserve" \in ledger[c]
  /\ row[c].fin = "released" => "release" \in ledger[c]
  /\ claimed[c] => row[c].work /\ ~Terminal(c)
  /\ "release" \in ledger[c] \/ <<c, "release">> \in wire => Terminal(c)

RequestKnows(r) ==
  /\ req[r].pc = "attach" => "reserve" \in ledger[req[r].call]
  /\ req[r].pc = "replay" => Answered(req[r].call)
  /\ req[r].pc \in {"dispatch", "record"} => row[req[r].call].refs
  /\ req[r].pc = "record" => req[r].result # "none"

JobKnows(j) ==
  /\ job[j].pc \in {"booking", "write", "finalize"} => Terminal(job[j].call)
  /\ job[j].pc = "finalize" => "release" \in ledger[job[j].call]

HoldInv ==
  /\ \A c \in Calls : RowConsistent(c) /\ RowBacked(c)
  /\ \A r \in Requests : RequestKnows(r)
  /\ \A j \in Jobs : JobKnows(j)

(* Every unit of promotional credit is in exactly one place: available, or  *)
(* with one Call that is neither abandoned nor released.                    *)
Holders(u) == {c \in Calls : Outstanding(c) /\ u \in row[c].credit}
CreditConserved == \A u \in Credits :
  IF u \in grant THEN Holders(u) = {} ELSE \E c \in Calls : Holders(u) = {c}

(* A Call that ended before any work while its money is held always has a   *)
(* refund schedule, automatic or handed to manual review.                   *)
RefundNotForgotten == \A c \in Calls :
  (Terminal(c) /\ row[c].fin = "reserved") => row[c].rec.reason = "refund_pending"

(* A late answer, work callback or approval never revives a Call that was   *)
(* refused or cancelled.                                                    *)
TerminalStays ==
  [][\A c \in Calls : Terminal(c) => row'[c].state = row[c].state]_vars

(* A refused or cancelled Call gets its hold back, or a person to look at   *)
(* it, whatever the jobs that try it go through.                            *)
RefundResolved == \A c \in Calls :
  (Terminal(c) /\ row[c].fin = "reserved") ~> (row[c].fin = "released" \/ row[c].rec.manual)

(* The ledger refused this request's attempt, and the attempt may not be    *)
(* abandoned: it did not create the Call, or another one came before it.    *)
ToldToRetry(r, c) ==
  /\ req[r].pc = "abandon" /\ req[r].call = c
  /\ Present(c) /\ ~MayAbandon(c, req[r].gen)

(* What attachFormanceReservation tells a caller whose refused attempt could *)
(* not be abandoned: retry with the same idempotency key "to finish its     *)
(* reservation".  A caller that does so again and again gets its hold, or   *)
(* its Quote back.                                                          *)
RetryFinishesReservation == \A r \in Requests, c \in Calls :
  ToldToRetry(r, c) ~> (~Present(c) \/ ~Uncertain(c))

(* What completeWork says of a Call that failed before any claim: "let the  *)
(* existing recovery Action prove and release" its durable reservation.     *)
PreReleaseHoldRecovered == \A c \in Calls :
  (/\ row[c].state = "reconciliation_required" /\ row[c].fin = "reserved"
   /\ row[c].work /\ ~claimed[c])
    ~> (row[c].fin = "released" \/ \E j \in Jobs : job[j].call = c /\ job[j].pc = "write")

(* What the buyer is promised, with the requests and jobs left out. *)
Buyer == INSTANCE BuyerHold WITH
  offer <- [c \in Calls |-> IF Present(c) THEN "taken" ELSE "open"],
  hold <- [c \in Calls |-> IF "release" \in ledger[c] THEN "returned"
                          ELSE IF "reserve" \in ledger[c] THEN "held" ELSE "free"],
  credit <- [c \in Calls |-> IF Outstanding(c) THEN "out" ELSE "back"]

(* Reservation implements BuyerHold: money is taken only for an accepted    *)
(* Quote, a Quote is handed back only while none was taken, and credit      *)
(* comes back only with the Quote or after the money.                       *)
ImplementsBuyerHold == Buyer!Spec
=============================================================================
