# Verification of the money of a Call

TLA+ models, TLC runs and TLAPS proofs for the parts of Agentic Economy where an
error costs money: the life of a **paid Call**, from the Quote an agent accepts to the
moment its money is settled or given back, the limits on what the platform pays out
for many Calls at once, and the **top-up** that brings the money in. The modules are
translated from the source; `PROJECT.json` maps every definition to the lines it
stands for, and lists the hazards the properties are about.

## 1. The system

An agent asks for a Tool, gets a **Quote**, and accepts it with `tool.call`. The
backend is Convex: a *mutation* is one serializable transaction, an *action* is
ordinary asynchronous code that calls mutations, queries and remote services and may
die anywhere. Money is kept by an external double-entry ledger (Formance) whose
writes can be refused, can be lost, or can post after the caller gave up. Workers are
run by a work pool and by crons.

| component | state it keeps | operations | hard part |
|---|---|---|---|
| Call admission and reservation attempts (`capabilityExecution/callLifecycle`, `money/managedCall/reservation.ts`) | Call row: `state`, `formanceFinancialState`, `formanceReservationAttempt`, refs, result | reserve, claim attempt, attach, mark unknown, abandon, record | concurrent requests, lease that lapses over a write in flight, lost answers |
| Dispatch before a claim | `workId`, authority, `dispatchState` | dispatch, approve, deny, cancel, refuse, claim, work callback | every pair of them racing |
| Reconciliation schedules and refund jobs | `reconciliation` (reason, disposition, attempts, lease) | schedule, lease, release, finish | crashes, stale leases, duplicate refunds, giving up |
| Promotional credit | `moneyPromotionalGrants`, allocation on the Call | claim, restore | two Calls and one last unit; restoring twice |
| Ledger client | none (references name the writes) | atomic bulk, read back | unknown outcomes |
| Call worker (`capability-execution/call-worker`) | none of its own; program counter and what it read | gates, fence, mark, sign, submit, observe, project | dies between any two of its transactions and is run again |
| Settlement, release, remedy, expiry (`money/managedCall`, `moneyManagedCallRemedy*`, `moneyX402Expiry*`) | `formanceFinancialState`, provider obligation, attempt | mark submitted, settle, unknown, release, remedy | exactly one ending, wanted by several actors at once |
| x402 payment attempts and spend admission (`money/x402PaymentAttempt`) | attempt, spend reservation, chain evidence | prepare, intend, screen, admit, sign, observe, resolve | limits under concurrency; what is freed may still be paid |
| Response recovery and expiry watchdogs | chained scheduled jobs | recover, arm successor | bounded chains, crash between two links, overlapping leases |
| Action execution control | the control's state | lease, fence, cancel, reconcile | cancellation against the fence |
| Stripe webhook inbox (`moneyStripeWebhook*`) | a row per event: state, attempt, conflict | ingest, process, requeue, complete | redelivery, retries, conflicting payloads, dead workers |
| Funding, refunds and disputes (`money/funding`) | funding command, events, dispute and refund cases | prepare, book, finalize, mark unknown | events in any order; one reversal; a freeze that must last |
| Plans, spending periods, treasury, documents | their own tables | see `PROJECT.json` | around the core |
| Supply, market, agent access, secrets, notifications, chat, console | their own tables | see `PROJECT.json` | independent of a Call's money |

Interaction. A request reserves a Call row (consuming the Quote and taking credit),
writes the *reserve* bundle to the ledger, attaches the answer, and dispatches. A
worker opens the dispatch, passes its gates and claims by creating an execution
control. Until that claim an owner or caller may end the Call; a scheduled refund job
and a cron sweep then write the *release* bundle and restore the credit. After it the
worker asks the Provider for an x402 challenge, prepares a payment attempt, fences the
control, marks the money possibly submitted, has the custodian sign (admitted against
the spend limits), sends the signature, and projects the answer. A cancelling buyer, a
sweep, two chains of recovery jobs and an operator may act at the same time. All of
them share the Call row, its control, its attempt and one ledger account, and nothing
else. The ledger's credit comes from a top-up: Stripe's webhooks pass the inbox, their
workers book the settlement or its reversal and finalize the funding command.

What makes each component correct:

* admission: a Quote goes back on offer only if no money was, is or will be held for it;
* the row never claims more than the ledger has posted;
* refund: a Call that a worker owns is not refunded; one that ended first is, or a
  person is told; credit comes back exactly once;
* settlement: exactly one of settlement, release, unused release and remedy posts, for a
  payment whose fate justifies it, and the row agrees;
* worker and recovery: a payment is signed only under the hold; whatever dies, the Call
  leaves pending and an armed recovery ends it or hands it to a person;
* spend admission: signed exposure and real payments never pass the limits of the
  platform, of a payee and of a new payee, whatever is
  signed at once; what was freed as unused is never paid;
* funding: what the command and the inbox say is in the ledger; one payment is reversed
  at most once; a lost dispute keeps the Account frozen until then.

## 2. Modules

| module | models | uses |
|---|---|---|
| `BuyerHold` | the hold as the buyer sees it before a claim (abstract) | |
| `Reservation`, `MCReservation` | admission to claim, and the refund before a claim | `BuyerHold` |
| `HoldEnding` | how the hold of a claimed Call may end (abstract) | |
| `CallMoney` | the state of one claimed Call and its money; ledger writes, finalizations, remedies | |
| `CallWorker` | the worker | `CallMoney` |
| `CallRecovery` | cancellation, sweep, response chain, expiry chain, operator | `CallWorker` |
| `PaidCall` | their composition and its properties | all of these, `HoldEnding` |
| `SpendAdmission`, `MCSpend` | payments of many Calls against the limits | |
| `TopUp` | what a top-up promises, seen from outside (abstract) | |
| `Funding` | a top-up, its refunds and disputes, the Stripe inbox | `TopUp` |

The proofs are in modules of their own, each named after what it is about (section 5):
`ReservationProofs`, `HoldProofs`, `BuyerProofs`, `PaidCallProofs`, `EndingProofs`,
`RecoveryProofs`, `SpendProofs`, `FundingProofs`.

### BuyerHold
What the buyer is promised, without requests or failures: `offer`, `hold`, `credit`
and five steps. Money is taken only for an accepted Quote; a Quote is handed back only
while none was taken; credit returns only with the Quote or after the money.

### Reservation
The core. One action per mutation, per query whose answer is used later, and per
remote answer; requests and jobs are program counters, so that everything they read
may be stale when they use it.

| state | code |
|---|---|
| `row[c]` | the `capabilityCalls` row: `state`, `formanceFinancialState` (`fin`), `result.kind`, `formanceReservationAttempt` (`gen`, `leased`, `ambiguous`), reservation refs (`refs`), `workId` and authority (`work`), `promotionalCreditAllocation` (`credit`), `reconciliation` (`rec`) |
| `quote[c]` | `capabilityQuotes.state`, and whether `expiresAt` is in the future |
| `ledger[c]`, `wire` | the bundles posted for the Call; writes whose answer was lost and that may still post |
| `grant` | remaining promotional credit |
| `claimed[c]` | an `actionExecutionControls` row exists |
| `req[r]`, `job[j]` | a running `callHandler`; a running `reconcilePreClaimRefund` or sweep iteration |

`Admit` to `Record` follow `canonicalAgentCallCore`, `reserveFormanceBackedInvocation`,
`attachFormanceReservation` and `callReservedTool` in their order. `WriteCompleted`,
`WriteUnknown` and `WriteRejected` are the three answers of
`executeFormanceMoneyBulk`; an unknown write stays on `wire` until it posts
(`LateWrite`) or is lost (`LostWrite`). `Approve`, `Deny`, `Cancel`, `WorkerClaim`,
`WorkerRefuse` and `WorkFails` are single mutations. `JobStart` to `JobFinish` are the
refund job and the recovery sweep. `CrashRequest` and `CrashJob` kill an action between
any two of its steps. Time is abstracted to live or lapsed leases and Quotes that lapse
whenever they like; `nextAttemptAt` is "any time".

`MCReservation` adds symmetry and the constraint of one run.

### HoldEnding
One hold and one payment. The hold ends once: charged only for a payment that was
made, refunded only when none can be made any more, compensated only for a payment
that was made; and a payment is signed only while the hold stands.

### CallMoney, CallWorker, CallRecovery, PaidCall
One Call after its claim. `CallMoney` declares the state and what every actor does with
the ledger; the next two modules add the actors; `PaidCall` joins them with what happens
outside (a lapsing lease, an expiring authorization, a Provider that presents the
signature to the chain, a late ledger write).

| state | code |
|---|---|
| `row` | the Call row: `state`, result kind with its digests and receipt, the reconciliation lease (`owner`, live, manual) |
| `fin`, `obligation`, `restored` | `formanceFinancialState`, the provider obligation, how often credit was restored |
| `control` | the execution control: leased, fenced, cancelled, contested, uncertain, completed, terminal |
| `pay` | the payment attempt: its state, signing intent, what was answered (status, digest, observation), its settlement and evidence |
| `chain`, `expired`, `sent` | the authorization on the chain, whether its validity is over, whether the Provider has it |
| `leaseLive` | the worker's lease of the control has not lapsed |
| `ledger`, `wire` | the bundle that ended the hold, and writes whose answer was lost |
| `job[p]` | one program counter per process: `Worker`, `Canceller`, `Sweep`, `Operator`, `Response(k)`, `Expiry(k)` |

A bundle is named with the evidence it was posted under, because the ledger refuses a second
write of the same reference with another digest (`PostConflicts`). `Booking*`, `Post*` and
`Finalize*` are the three transactions of `lifecycleActions.ts` and `formance-writes.ts`;
`ClaimRemedy` and `FinishRemedy` are `moneyManagedCallRemedy.ts`. The worker follows
`runPreparation.ts`, `runRelease.ts`, `brokeredX402.ts` and `x402Authorization.ts`:
`ChecksPass` (or `ChecksRefuse`, `ChecksStop`), `BeforeRelease`, `Prepare`, `Fence`, `Mark`,
`Reread`, `Sign`, `CustodySigns`, `Signature`, `Submit`, `Send`, `Await`, `Checkpoint`,
`Observe`, `Record`, `Judge` and the `Project*` actions; `WorkerDies` and `Restart*` are the
work pool and what a second run makes of the control it finds. A payment whose signature is
made may reach the chain at any time until it expires, whatever the worker has done.
Recovery follows `recovery/*.ts`, `responseRecovery.ts`, `moneyX402ResponseActions.ts` and
`moneyX402Expiry*.ts`: each chain arms its successor before it works, and its last step only
hands the Call to a person.

### SpendAdmission
Several Calls with one attempt each, paying Payees from one custody account. `worker[c]`
follows `readX402Authorization` and `createCdpEvmX402PaymentSignature`; `attempt[c]` and
`spend[c]` are the rows of the attempt and of its spend reservation; `chain[c]` is the
nonce in the token contract. `Admit` is the single transaction of `spendAdmission.ts`
that checks the verdict's freshness and the limits and books the liability; `Observe`,
`Unsubmitted` and `Reconcile` resolve it (`spendResolution.ts`). Time is a small number;
`block` is the newest safe block and may lag behind `now`. `Faults` chooses what may
happen: deaths, cancellation, the sweep, and a screening provider that flags a payee.
Screening in the repository answers `unavailable` or, in the alpha deployment, that it
did not screen: instances without `"flag"` are that deployment, `"flag"` adds the
provider contract the code is written for. `MCSpend` gives the Calls their payees and
amounts.

### TopUp
The Account of one top-up: the payment, its credit, the command's record of it, and the
refunds and disputes it was reversed for. Nothing is retried, lost or delivered twice:
the credit comes once, after the payment; it goes at most once, after it was recorded,
for a refund of the whole payment or a lost dispute.

### Funding
One funding command from its open Checkout session. `session` and `outcome` are what
really happened at Stripe; `inbox`, `conflict` the row of each event; `prior` its
`moneyStripeEvents` row; `command` the funding command; `case` the dispute's and the
partial refund's reconciliation cases (an open dispute case freezes the Account);
`job[e]` the worker of each event, and of the customer's return. `Ingest` and
`IngestConflict` are `ingest`; `Prepare*` are the three prepare mutations, one action per
outcome, together with the reads of the row and of Stripe that precede them; `Write*`
are the answers of the ledger; `Credit*`, `Reversal*` and `MarkUnknown` the finalizing
mutations. `Answer` is `retryOrReconcile`, `requeue` and `complete` in one, and every end of a
worker may be a death instead, after which the work pool runs it again or gives up.
A readback that cannot be had, or that is not of the event's payment, is a choice
(`Unavailable`, and for a refund `PrepareChanged`), as is the evidence a second event of a
refund was read back with (`ReversalRefused`). Seen as a `TopUp`,
the Account has the money when the settlement is in the ledger, and the reversals are the
reversal bundles there.

## 3. Runs

| run | instance | shows |
|---|---|---|
| `reservation_attempts` | 1 Call, 2 requests, 1 job, 3 attempts, 1 crash | type invariant; an abandoned Call is never held (`AbandonedNeverHeld`); the row is backed by the ledger, what requests and jobs know of it still holds (`HoldInv`, the inductive form); a claimed Call is never refunded; no refund is forgotten; a refused or cancelled Call stays so; `BuyerHold` is implemented |
| `reservation_credit` | 2 Calls, 1 request, 2 jobs, 1 unit of credit | credit is conserved when Calls compete and refunds cross |
| `reservation_liveness` | 1 Call, 1 request, 2 jobs, 2 tries, 1 crash | a refused or cancelled Call with held money is released or handed to manual review |
| `reservation_retry` | 1 Call, 2 requests, no crash, the callers retry for ever | finding 1 |
| `reservation_prerelease` | 1 Call | finding 2 |
| `paid_safety` | 3-step chains, no retry of the worker, buyer and sweep | type invariant; charges and compensations only for payments made; unused releases only of dead authorizations; nothing signed while the row says reserved; completed means paid; credit back once; a pinned proof stays; `HoldEnding` is implemented |
| `paid_liveness` | 2-step chains, 1 death, operator | books and database agree; a claimed Call leaves pending; an armed expiry recovery ends the Call or hands it over, and is never left to nobody (`RecoveryWatched`) |
| `paid_returned` | worker alone | finding 3 |
| `paid_reuse` | worker alone, 1 death | finding 4 |
| `spend_faults` | 2 Calls, 1 payee, window 1, time 0..3, lag 1, 2 credential generations, all faults | liabilities and real payments stay within the platform, payee and new-payee limits (with one payee, new for a window after its first reservation; the per-Call maximum is a guard and in no property); freed means never paid; a flagged payee is not paid; the first resolution is the last |
| `funding` | 1 refund, 1 dispute, all kinds of events, any 2 of them and the return, 2 attempts, 1 death, 1 conflict | one reversal; command and inbox say only what the ledger holds; a lost dispute stays frozen; no event is forgotten; `TopUp` is implemented |
| `funding_revived` | return, paid and refund events, nothing else goes wrong | finding 5 |

Bounds of Reservation. `MaxGeneration` = 3 lets a second and a third attempt race with
the first, which is as many as two requests and a crash can keep alive. `MaxAttempts` is 1 or 2
where the code has 5: with 1 every failure goes straight to manual review, with 2 a
retry happens first; more repeat the same step. `MaxCrashes` bounds crashes so that
liveness is not a statement about a system that always crashes. The credit run uses
the constraint `CrossingRefunds` (no late write, no expiry, no approval), because the
one-Call runs explore these; without it two Calls and two jobs are too many states.

Bounds of PaidCall. The last step of a chain only hands over, so `MaxAttempts` = 3 gives two
working steps that may overlap, which is what a pinned proof is about; 2 gives one.
`MaxDeaths` is 0 where `HoldEnding` is checked, because with a retried worker it fails
(finding 4); the proof covers any number of deaths but that retry. The two runs share out
the actors; the whole product is larger than a run should be, and was checked once: all
actors with 2-step chains and a death (2.4 million states), with 3-step chains and no death
(4.8 million), and 3-step chains with a death and the operator (1.3 million) satisfy the
safety properties. `PendingEnds` was checked with a cancelling buyer and the sweep, and
`RecoveryNeverForgotten` with a cancelling buyer and an operator. The other invariants of
`RecoveryProofs` were checked once with all actors, 2-step chains and a death (2.4 million
states) and with 3-step chains and no death. The proofs cover every bound.

Bounds of SpendAdmission. Two Calls are what it takes for one admission to read what
another is changing; a window of 1 in a time of 3 opens and closes twice, so that
settlements leave it; a lag of 1 lets the chain be behind the server's clock. Three Calls
of two payees, with no faults, satisfy `WithinCaps` (3.1 million states). `Never` and
`MaxTime` bound the clock.

Bounds of Funding. `MaxEvents` = 2 makes any two webhooks meet, with the customer's
return as a third worker; `MaxTries` = 2 (13 in the code) has a first and a last attempt. Seven
kinds with three events, a death and no conflict satisfy the same properties (1.4 million
states).

Deadlock is checked in the runs of Reservation. It is not in the others, where the
system really comes to rest: a Call or a top-up that has ended has nothing left to do,
and the bounded clock of SpendAdmission stops.

Fairness. In Reservation (`FairSpec`) Convex continues an action it has started and the work
pool and scheduler run what they accepted (weak fairness of request and job steps); clocks
advance (leases lapse); the cron starts a job for a due Call again and again (weak fairness
of `JobStart`, per Call, as the sweep takes due Calls in order). The strong fairness of
`JobWriteCompleted` says that a ledger asked again and again answers in the end; without it
the schedule still ends, in manual review. Nobody has to cancel, approve, claim or crash.
`RetrySpec` adds a caller that keeps calling; each of two requests claims at most one attempt
before the Quote is consumed, so `MaxGeneration` = 3 is never reached in its run. In PaidCall (`FairSpec`) the worker, an
accepted cancellation or operator request and every due job go on until they finish or die,
and an authorization expires in the end. Nobody must cancel, sweep, operate or pay, a
Provider need not answer, and a lost write need never post. SpendAdmission and Funding state
safety only; `NoneForgotten` is the safety form of "every queued event is worked".

## 4. Findings

Runs that expect a violation. Each states what a document or a comment of the repository
says, and TLC shows how the code departs from it.

1. `RetryFinishesReservation`: a caller whose attempt the ledger refused, and that may not
   abandon the Call because it did not create it or another attempt came first, is told to
   retry "with the same idempotency key to finish its reservation"
   (`callFinancialReservation.ts:67`; `ToldToRetry`). The Quote is already consumed, so the
   retry is answered from the stored Call and never reaches the reservation again; no cron
   does either, and `repairReservation` has no caller in the repository. The trace takes two
   requests that both read the Quote while it was offered: one reserves and is turned away
   before it claims an attempt, the other replays the reservation and is refused. A caller
   whose answer was lost is not meant: it gets a stored `reconciliation_required` result
   that says to reconcile first (`reservation.ts:149-158`).
2. `PreReleaseHoldRecovered`: `workComplete.ts:77-79` leaves the hold of a Call that
   failed before a claim to "the existing recovery Action", which does nothing to a Call
   without an execution control. The Call ends in manual review with its money held.
3. `HoldReturned`: a claimed Call that a late gate refuses is projected as refused with its
   control completed (`charge.ts:121`), and no step gives its hold back, unlike a refusal
   before the claim.
4. `SignedUnderHold`: a release is posted and recorded in two transactions
   (`lifecycleActions.ts:23-59`). A worker that dies between them leaves a control and a
   row that say nothing of it, and its retry signs a payment for a hold that is gone.
5. `ReversedNotCredited`: a top-up is reversed for good (`lifecycle-map-2026-10-11.md:90,
   97`), but only the start of a return looks for a reversal. A payment that was prepared
   before its refund finalizes the command back to `succeeded`
   (`stripeEventPipeline.ts:274`). `markFundingBookingUnknown` likewise makes a reversed
   command `outcome_unknown`.

Seen while modelling, and not stated as findings because nothing promises otherwise or the
promise is vague: a retried worker converges a fenced Call without a receipt, after which
expiry and both remedies refuse it, so that only a person can end it; a dispute won before
its delayed opening event is processed leaves the Account frozen, with no command that lifts
it; a second dispute of a payment whose first case was resolved does not freeze the Account
again, since the case of a payment is opened once; a refund event that booked
its reversal, and whose readback then changed before it was recorded, is refused, and so is
another event of that refund, since its evidence is not what the first one asked with
(`stripeRefundPipeline.ts:70-76, 207`): the ledger then has the reversal and the command
does not say so; an expiry step that claims the unused
release only after the last step of its chain handed the Call to a person sets the
disposition back to automatic (`moneyX402Expiry.ts:60`), and if it then dies no job is left
for the Call. That takes a step that outlives the delays of all its successors, and is why
`RecoveryWatched` counts the standing claim as a watcher.

## 5. Proofs

Each proof module extends the module it is about. Every theorem holds for all values of
the constants that satisfy the assumptions stated with them, which TLC evaluates in the
runs.

`ReservationProofs` proves, for every value of the constants that satisfies
`ReservationAssumption`:

* `TypeCorrect`: `Spec => []TypeOK`. The inductive invariant `TypeInv` adds what the
  types alone do not carry: a request or job that is running names a Call, and a
  schedule that is still automatic has a try left (else `tries + 1` would leave its range).
* `AttemptsDisciplined`: `Spec => []AttemptInv`. `AbandonedNeverHeld` alone is not
  inductive: the next `WriteCompleted` of another request could break it. `AttemptInv`
  adds that attempts in flight have different numbers, that only the first attempt of a
  Call can be unambiguous, and that while that attempt writes or is about to abandon
  the ledger and the wire are empty. Lemmas say what most steps keep (`AttemptFrame`),
  and treat posting, abandoning, claiming and a new Call apart.
* `AbandonedIsSafe`: `Spec => []AbandonedNeverHeld`, its consequence.

`HoldProofs`, from the same assumption:

* `HoldsAgree`: `Spec => []HoldInv`. That the row is backed by the ledger, that a
  claimed Call is never refunded and that no refund is forgotten are not inductive
  alone: a request that is past its write will attach what it saw, and a job that is
  past its write will finish what it did. `HoldInv` adds what these actors know
  (`RequestKnows`, `JobKnows`), that the fields of a row fit each other, and that money
  is released only for a Call that has ended. One lemma says what keeps `HoldInv` when
  row, ledger, request and job move only in the allowed directions (`HoldFrame`); the
  proof then has one lemma per group of actions.
* `RowsAreBacked`, `ClaimedIsSafe`, `RefundsAreScheduled`: its consequences
  `RowBackedByLedger`, `ClaimedNeverRefunded` and `RefundNotForgotten`.
* `EndedStays`: `Spec => TerminalStays`, because every step moves a row forward.

`BuyerProofs`: seen by the buyer, every step keeps everything, posts the money of a
hold, takes the Quote and its credit, or gives credit back (`BuyerMove`). From this
follow

* `CreditIsConserved`: `Spec => []CreditConserved`, the remaining credit and what Calls
  hold of it sum to what was granted;
* `Refines`: `Spec => ImplementsBuyerHold`. That a Quote goes back on offer only when
  nothing was taken needs `AttemptInv`; that credit returns only after the money needs
  `HoldInv`.

`PaidCallProofs` proves `TypeOK`, `ChargedOnlyIfPaid`, `UnusedOnlyIfDead`, `BooksAgree`,
`CreditFollows`, `SignedOnlyWhenMarked`, `CompletedIsPaid` and `PinnedStays`. None is
inductive: a process that is about to post carries a bundle whose justification it read
earlier. The invariant `Inv` therefore has three parts: types (`DataOK`, `JobsOK`), the
money (`MoneyInv`: every bundle in the ledger or on the wire is `Sound`, that is justified
by the chain; row, obligation and credit follow the ledger) and what each process knows at
its program counter (`JobKnows`: the bundle it will post is sound, the ledger holds what it
is about to finalize). Facts of the chain are stable (paid and expired-unpaid are final), so
a step relation `Good` with `Moves` says once what keeps `Inv`, and each action is shown to
be good.

`EndingProofs` proves `ImplementsHoldEnding` for any number of deaths and retries of the
worker, except for the one retry that makes it false (finding 4): `CarefulSpec` is `Spec`
without the steps in which a worker starts again while a release of its hold is posted, or
on its way, and its record and the control still allow it to fence (`RetriesReleased`).
Without retries there is no such step, so that `Spec` itself implements `HoldEnding` if
`MaxDeaths = 0` (`EndingOnce`, what run `paid_safety` checks). From the same invariant
`SignedUnderHold`, which finding 4 refutes for `Spec`, holds of `CarefulSpec`
(`ReleasedUnsigned`): the retry is the only way to break it. What `Inv` lacks is the
argument of the fence: the worker writes the control, then the row, then reads the control
again before it signs; cancellation writes the control, then reads the row, then releases.
`EndingInv` says what each side has seen at every point between, and that whatever releases
the hold as never submitted has stopped the worker or found it beyond its signing
(`EndingInvariant`). A retry (`Retry`) is treated apart: it reopens the way to the fence
only for a Call that nobody has stopped, and then no release may be out.

`RecoveryProofs` proves the safety half of what `PaidCall` promises to do in the end, for
chains of any length, any deaths and any actors:

* `WorkerDecides`: `Spec => []WorkerOwes`. A worker that is done leaves no Call pending,
  unless its execution was cancelled. What `PendingEnds` adds is that the worker finishes,
  which is fairness.
* `RecoveryIsWatched`: `Spec => []RecoveryWatched`. A Call that stays in reconciliation
  after its expiry chain was armed is with a person, or a step of a chain that holds it is
  due, or its unused claim stands (run `paid_liveness` checks it too).

Neither is inductive. A worker may stop wherever it has an answer, so `WorkerInv` says what
the control is before and behind the fence, and that a worker whose release or remedy will
end its run (`Resigned`) has no pending Call. A response chain may take the lease from the
expiry chain, so `ChainInv` says that a lease of that chain has its next step due, which
needs that no response is recovered before the fence (`LeasedInv`). The relation `Tidy` says
in which directions row, control and chains move (a lease passes to a person, to the unused
claim, to a chain whose successor is due, or ends with the Call); `RecFrame` shows that it
keeps the invariant, and one lemma per group of actions that every step is tidy.

`SpendProofs` proves the five properties of `SpendAdmission`, for any finite set of Calls,
any amounts, limits, window and freshness. The invariant has one part per Call (`BeforeInv`,
`SigningInv`, `PaidInv`, `DeadInv`, `FlagInv`: what the worker's program counter, the
attempt, the reservation and the nonce say of each other). The limits follow because only
`Admit` adds to the exposure, having checked it, and `Total` is monotone in its set; real
payments are within the limits because each is covered by a liability or by a settlement of
the same window.

`FundingProofs` proves `TypeOK`, `ReversedOnce`, `RowBacked`, `AppliedIsBooked` and
`NoneForgotten` for any refunds, disputes and bounds. The disputes of a payment share a
case, and another's win resolves it: so for any number of them the Account stays frozen from
a received loss to the reversal unless another was won (`LossFrozenUnlessWon`), and
`LostStaysFrozen` follows for at most one (`LossFrozen`). The invariant joins what the
command says of the ledger (`MoneyInv`: one asker, whose reversal is the only one written)
with what each event's worker, `moneyStripeEvents` row and inbox row say (`JobInv`,
`PriorInv`, `InboxInv`); facts of the ledger are monotone (`Good`). `TopUpRefined` proves
`Spec => ImplementsTopUp`, for any refunds, disputes and bounds: what happens to the session
is `Pay`, a step of the ledger is `Credit` or `Reverse`, the first finalization is `Record`,
and all else is a stutter. That a reversal finds the credit recorded, and finds no other, is
what the invariant says of the event that asked for it.

Only model-checked: liveness (`RefundResolved`, `PendingEnds`, `RecoveryNeverForgotten`),
which TLAPS does not prove (`RecoveryProofs` has the safety halves of the last two), and the
five findings, whose counterexamples TLC gives. Every safety property of the passing runs is
proved.

## 6. Plan

Done: reservation; settlement, worker and recovery of a paid Call; spend admission; the
Stripe inbox and funding; the proofs above. Open, in this order:

1. Plan holds: one hold for several Calls, with the same bundles and a hold account.
2. Treasury admission and spending periods, which `AdmitRefused` and `ReserveRefused` leave
   to choice.
3. Notification delivery and rotation of secrets: queues with leases of their own.
4. Liveness of Funding under the fairness of its work pool.
5. An abstract specification of the spend limits (what a payee and the platform may owe),
   with the refinement of `SpendAdmission` proved as those of the hold and of the top-up are.

## 7. Not modelled

* Reservation: Plan nodes (their Calls enter `callHandler` directly), the operator-only
  `repairReservation`, amounts in several assets (a bundle posts or does not), expiry of
  promotional grants, identity and environment checks that only refuse.
* Paid Call: rails other than brokered x402; `preSubmission.ts`, `managedSigning.ts`, the
  forensic replay and `recordDefinitiveSigningRejection`, which a managed Call does not
  reach; branches for rows from before spend reservations; sandbox signing; the owner of a
  status sweep's lease; the operator's settlement review; several cancellers at once; more
  than one effect generation. What the Provider's response permits as proof of an unused
  authorization is a choice. An attempt the sweep has taken may still be sent: that is
  modelled, and its liability stays.
* Spend admission: limits that change while Calls are in flight.
* Funding: opening and binding the session, account events, documents, notices, alerts,
  amounts; a worker that dies between scheduling its retry and returning.
* The components listed `not_modelled` in `PROJECT.json`, with their reasons. Most of the
  repository is outside the reach of a state model: pages, generated code, release and
  development tools, tests and documents.

## 8. Running

    tlc -workers 2 -config ReservationAttempts.cfg MCReservation.tla
    tlc -workers 2 -config PaidCallSafety.cfg PaidCall.tla
    tlc -workers 2 -config SpendFaults.cfg MCSpend.tla
    tlc -workers 2 -config Funding.cfg Funding.tla
    tlapm ReservationProofs.tla

and likewise the other configurations and proof modules. The longest runs take one to two
minutes, the proofs of `PaidCallProofs`, `EndingProofs` and `FundingProofs` several minutes
each.
