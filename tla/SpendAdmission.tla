--------------------------- MODULE SpendAdmission ---------------------------
(***************************************************************************)
(* The spending limits of the custody account that pays Providers.  Many   *)
(* Calls pay from it at the same time.  Before the custodian may sign an   *)
(* authorization, one transaction screens the payee's verdict and books    *)
(* the amount as a liability, if the limits leave room for it.  The        *)
(* liability counts until the payment is known to be settled, and from     *)
(* then on for one more window, or until the authorization is proved to be *)
(* unused.  One Call has one payment attempt.  Time is a small number; the *)
(* newest safe block of the chain may lag behind the server's clock.       *)
(***************************************************************************)
EXTENDS Integers, FiniteSets

CONSTANTS
  Calls, Payees,
  Payee,          \* the payee of each Call
  Amount,         \* what each Call pays, in atomic units
  MaxAmount,
  CallMax, PlatformMax, PayeeMax, NewPayeeMax,   \* the four trusted ceilings
  HistoryLimit,   \* reservations an admission reads
  Window,         \* the spend window
  Freshness,      \* how old a screening verdict may be
  Validity,       \* life of an authorization
  MaxTime, MaxLag, MaxGeneration,                \* bounds of a run
  Faults          \* what may happen in a run: {"death", "cancel", "sweep", "flag"}

ASSUME CallsAssumption ==
  /\ IsFiniteSet(Calls)
  /\ Payee \in [Calls -> Payees]
  /\ MaxAmount \in Nat
  /\ Amount \in [Calls -> 1..MaxAmount]
ASSUME LimitsAssumption ==
  /\ CallMax \in Nat /\ PlatformMax \in Nat /\ PayeeMax \in Nat /\ NewPayeeMax \in Nat
  /\ HistoryLimit \in Nat
ASSUME TimeAssumption ==
  /\ Window \in Nat /\ Freshness \in Nat /\ Validity \in Nat \ {0}
  /\ MaxTime \in Nat /\ MaxLag \in Nat /\ MaxGeneration \in Nat \ {0}

VARIABLES
  now, block,      \* the server's clock, the time of the newest safe block
  generation,      \* generation of the custodian's credential
  flaggedAt,       \* when the screening provider began to flag a payee
  worker,          \* per Call: where its worker stands, its verdict
  attempt,         \* per Call: the row of its payment attempt
  spend,           \* per Call: its spend reservation
  chain            \* per Call: the nonce of its authorization

clocks == <<now, block, generation, flaggedAt>>
vars == <<now, block, generation, flaggedAt, worker, attempt, spend, chain>>

Never == MaxTime + 1
Clock == 0..MaxTime
WorkerPc == {"idle", "intent", "screen", "admit", "sign", "record", "submit",
             "send", "observe", "unsubmitted", "done"}

Worker == [pc : WorkerPc, screenedAt : Clock, clear : BOOLEAN]
Attempt == [state : {"none", "prepared", "possibly_submitted", "observed",
                     "reconciliation_required"},
            generation : 0..MaxGeneration, intent : BOOLEAN, expiresAt : Nat,
            settlement : {"none", "unknown", "not_settled", "settled"},
            evidence : {"none", "settled", "unused"}]
Spend == [state : {"none", "liability", "settled", "unused"},
          reservedAt : Clock, settledAt : Clock]
Nonce == [state : {"free", "paid", "cancelled"}, sent : BOOLEAN, paidAt : Clock]

TypeOK ==
  /\ now \in Clock /\ block \in Clock /\ block <= now
  /\ generation \in 1..MaxGeneration
  /\ flaggedAt \in [Payees -> 0..Never]
  /\ worker \in [Calls -> Worker]
  /\ attempt \in [Calls -> Attempt]
  /\ spend \in [Calls -> Spend]
  /\ chain \in [Calls -> Nonce]

Init ==
  /\ now = 0 /\ block = 0 /\ generation = 1
  /\ flaggedAt = [p \in Payees |-> Never]
  /\ worker = [c \in Calls |-> [pc |-> "idle", screenedAt |-> 0, clear |-> FALSE]]
  /\ attempt = [c \in Calls |-> [state |-> "none", generation |-> 0, intent |-> FALSE,
                                 expiresAt |-> 0, settlement |-> "none", evidence |-> "none"]]
  /\ spend = [c \in Calls |-> [state |-> "none", reservedAt |-> 0, settledAt |-> 0]]
  /\ chain = [c \in Calls |-> [state |-> "free", sent |-> FALSE, paidAt |-> 0]]

(***************************************************************************)
(* Exposure.  Total counts atomic units: one pair per unit of each Call.   *)
(***************************************************************************)
Total(S) == Cardinality({u \in S \X (1..MaxAmount) : u[2] <= Amount[u[1]]})
OfPayee(S, p) == {c \in S : Payee[c] = p}

(* MUTANT of Exposed: the window of a payment starts when it was reserved. *)
ExposedSinceReserved ==
  {c \in Calls : \/ spend[c].state = "liability"
                 \/ spend[c].state = "settled" /\ spend[c].reservedAt >= now - Window}
Exposed ==
  {c \in Calls : \/ spend[c].state = "liability"
                 \/ spend[c].state = "settled" /\ spend[c].settledAt >= now - Window}

(* New until a window has passed since its first reservation, of any state. *)
NewPayee(p) ==
  \A c \in OfPayee(Calls, p) : spend[c].state # "none" => now - spend[c].reservedAt < Window

WithinLimits(S, p) ==
  /\ Total(S) <= PlatformMax
  /\ Total(OfPayee(S, p)) <= PayeeMax
  /\ NewPayee(p) => Total(OfPayee(S, p)) <= NewPayeeMax

(***************************************************************************)
(* The worker of a Call, behind the fence of its control: it signs once.   *)
(***************************************************************************)
At(c, pc) == worker[c].pc = pc
Goto(c, pc) == worker' = [worker EXCEPT ![c].pc = pc]
Prepared(c) == attempt[c].state = "prepared"

Prepare(c) ==
  /\ At(c, "idle") /\ Goto(c, "intent")
  /\ attempt' = [attempt EXCEPT ![c].state = "prepared", ![c].generation = generation]
  /\ UNCHANGED <<clocks, spend, chain>>

(* The claim and the signing intent: the nonce and its expiry are fixed. *)
Intent(c) ==
  /\ At(c, "intent")
  /\ IF Prepared(c) /\ attempt[c].generation = generation
     THEN /\ attempt' = [attempt EXCEPT ![c].intent = TRUE, ![c].expiresAt = now + Validity]
          /\ Goto(c, "screen")
     ELSE UNCHANGED attempt /\ Goto(c, "unsubmitted")
  /\ UNCHANGED <<clocks, spend, chain>>

(* The screening provider answers for the moment it was asked.  A run       *)
(* without "flag" is the alpha policy, which lets every payee pass.         *)
Screen(c) ==
  /\ At(c, "screen")
  /\ worker' = [worker EXCEPT ![c] = [pc |-> "admit", screenedAt |-> now,
                                      clear |-> now < flaggedAt[Payee[c]]]]
  /\ UNCHANGED <<clocks, attempt, spend, chain>>

(* MUTANT of Screened: a verdict does not go stale. *)
ScreenedEver(c) == worker[c].clear
Screened(c) == worker[c].clear /\ now - worker[c].screenedAt <= Freshness

MaySign(c) ==
  /\ Prepared(c)
  /\ attempt[c].generation = generation
  /\ attempt[c].expiresAt > now

(* MUTANT of MayReserve: the limits are read without the amount to reserve. *)
MayReserveWithout(c) ==
  /\ Cardinality(Exposed) <= HistoryLimit
  /\ Amount[c] <= CallMax
  /\ WithinLimits(Exposed, Payee[c])
MayReserve(c) ==
  /\ Cardinality(Exposed) <= HistoryLimit
  /\ Amount[c] <= CallMax
  /\ WithinLimits(Exposed \cup {c}, Payee[c])

Admit(c) ==
  /\ At(c, "admit") /\ MaySign(c) /\ Screened(c) /\ MayReserve(c)
  /\ spend' = [spend EXCEPT ![c] = [state |-> "liability", reservedAt |-> now, settledAt |-> 0]]
  /\ Goto(c, "sign")
  /\ UNCHANGED <<clocks, attempt, chain>>

(* A limit, a verdict, or an authority that was withdrawn meanwhile. *)
AdmitRefused(c) ==
  /\ At(c, "admit") /\ Goto(c, "unsubmitted")
  /\ UNCHANGED <<clocks, attempt, spend, chain>>

(* The custodian signs, or fails, or its answer is lost. *)
CustodySigns(c) ==
  /\ At(c, "sign")
  /\ \/ attempt[c].expiresAt > now /\ Goto(c, "record")
     \/ Goto(c, "unsubmitted")
  /\ UNCHANGED <<clocks, attempt, spend, chain>>

(* The digest of the signature is kept on a prepared attempt only. *)
Record(c) ==
  /\ At(c, "record")
  /\ Goto(c, IF Prepared(c) /\ attempt[c].generation = generation
             THEN "submit" ELSE "unsubmitted")
  /\ UNCHANGED <<clocks, attempt, spend, chain>>

(* markX402PaymentPossiblySubmitted lets an attempt pass that is not        *)
(* prepared; without its answer the worker sends nothing.                   *)
Mark(c) ==
  attempt' = IF Prepared(c) THEN [attempt EXCEPT ![c].state = "possibly_submitted"]
             ELSE attempt
Submit(c) ==
  /\ At(c, "submit")
  /\ \/ Goto(c, "send") /\ Mark(c)
     \/ Goto(c, "unsubmitted") /\ (Mark(c) \/ UNCHANGED attempt)
  /\ UNCHANGED <<clocks, spend, chain>>

Send(c) ==
  /\ At(c, "send") /\ Goto(c, "observe")
  /\ \E sends \in BOOLEAN : chain' = [chain EXCEPT ![c].sent = sends]
  /\ UNCHANGED <<clocks, attempt, spend>>

(***************************************************************************)
(* A reservation is resolved once; a resolution of another kind throws.    *)
(***************************************************************************)
(* MUTANT of Resolve: a replayed resolution takes its own time. *)
ResolveAgain(c, state) ==
  spend' = IF spend[c].state = "none" THEN spend
           ELSE [spend EXCEPT ![c].state = state,
                   ![c].settledAt = IF state = "settled" THEN now ELSE @]
Resolve(c, state) ==
  CASE spend[c].state = "none" -> UNCHANGED spend
    [] spend[c].state = "liability" ->
         spend' = [spend EXCEPT ![c].state = state,
                     ![c].settledAt = IF state = "settled" THEN now ELSE @]
    [] OTHER -> spend[c].state = state /\ UNCHANGED spend

Keep(c, state, settlement) ==
  attempt' = [attempt EXCEPT ![c].state = state, ![c].settlement = settlement]

Reconcile(c, evidence, settlement) ==
  attempt' = [attempt EXCEPT ![c].state = "observed", ![c].settlement = settlement,
                             ![c].evidence = evidence]

(* What the worker may say of the paid request; settled needs the chain. *)
Observe(c) ==
  /\ At(c, "observe") /\ Goto(c, "done")
  /\ IF attempt[c].state = "possibly_submitted"
     THEN \/ /\ chain[c].state = "paid"
             /\ Keep(c, "observed", "settled") /\ Resolve(c, "settled")
          \/ Keep(c, "reconciliation_required", "unknown") /\ UNCHANGED spend
          \/ Keep(c, "observed", "not_settled") /\ UNCHANGED spend
     ELSE UNCHANGED <<attempt, spend>>
  /\ UNCHANGED <<clocks, chain>>

(* Nothing was sent; the liability of a signature that may exist stays. *)
Unsubmitted(c) ==
  /\ At(c, "unsubmitted") /\ Goto(c, "done")
  /\ IF attempt[c].state \in {"prepared", "possibly_submitted"}
     THEN Keep(c, "observed", "not_settled")
     ELSE UNCHANGED attempt
  /\ UNCHANGED <<clocks, spend, chain>>

Die(c) ==
  /\ "death" \in Faults /\ worker[c].pc \notin {"idle", "done"} /\ Goto(c, "done")
  /\ UNCHANGED <<clocks, attempt, spend, chain>>

(***************************************************************************)
(* The chain, and the recovery jobs that read it.                          *)
(***************************************************************************)
Pay(c) ==
  /\ chain[c].sent /\ chain[c].state = "free" /\ block < attempt[c].expiresAt
  /\ chain' = [chain EXCEPT ![c].state = "paid", ![c].paidAt = now]
  /\ UNCHANGED <<clocks, worker, attempt, spend>>

(* The payer consumes the nonce of an authorization that may be signed. *)
CancelNonce(c) ==
  /\ "cancel" \in Faults
  /\ spend[c].state = "liability" /\ chain[c].state = "free"
  /\ chain' = [chain EXCEPT ![c].state = "cancelled"]
  /\ UNCHANGED <<clocks, worker, attempt, spend>>

SweepExpired(c) ==
  /\ "sweep" \in Faults
  /\ Prepared(c) /\ attempt[c].intent /\ attempt[c].expiresAt <= now
  /\ attempt' = [attempt EXCEPT ![c].state = "reconciliation_required"]
  /\ UNCHANGED <<clocks, worker, spend, chain>>

(* Recovery reads an attempt whose observation was recorded.  Evidence is   *)
(* pinned by its first writer; what the worker already saw settled is       *)
(* reconciled, and resolved, a second time.                                 *)
RecoverSettled(c) ==
  /\ attempt[c].settlement \in {"unknown", "settled"} /\ attempt[c].evidence = "none"
  /\ chain[c].state = "paid"
  /\ Reconcile(c, "settled", "settled") /\ Resolve(c, "settled")
  /\ UNCHANGED <<clocks, worker, chain>>

(* MUTANT of ExpiredOnChain: the server's clock decides, not the block's. *)
ExpiredByClock(c) == chain[c].state = "free" /\ now >= attempt[c].expiresAt
ExpiredOnChain(c) == chain[c].state = "free" /\ block >= attempt[c].expiresAt

(* A reverted transaction, or a nonce that the payer cancelled. *)
RecoverFailed(c) ==
  /\ attempt[c].settlement \in {"unknown", "not_settled"} /\ attempt[c].evidence = "none"
  /\ chain[c].state = "cancelled" \/ ExpiredOnChain(c)
  /\ Reconcile(c, "unused", "not_settled") /\ Resolve(c, "unused")
  /\ UNCHANGED <<clocks, worker, chain>>

(* An expiry step, armed with the recorded observation, pins its proof; it  *)
(* posts the release and then finishes.                                     *)
ClaimExpired(c) ==
  /\ attempt[c].intent /\ attempt[c].settlement \in {"unknown", "not_settled"}
  /\ ExpiredOnChain(c)
  /\ attempt' = [attempt EXCEPT ![c].evidence = "unused"]
  /\ UNCHANGED <<clocks, worker, spend, chain>>

FinishExpired(c) ==
  /\ attempt[c].evidence = "unused" /\ attempt[c].settlement # "settled"
  /\ Reconcile(c, "unused", "not_settled") /\ Resolve(c, "unused")
  /\ UNCHANGED <<clocks, worker, chain>>

(***************************************************************************)
(* The clocks, the credential, and the screening provider's list.          *)
(***************************************************************************)
Tick ==
  /\ now < MaxTime /\ now - block < MaxLag
  /\ now' = now + 1
  /\ UNCHANGED <<block, generation, flaggedAt, worker, attempt, spend, chain>>

NewBlock ==
  /\ block < now /\ block' = block + 1
  /\ UNCHANGED <<now, generation, flaggedAt, worker, attempt, spend, chain>>

(* MUTANT of MayRotate: one generation too many. *)
MayRotateOnce == generation <= MaxGeneration
MayRotate == generation < MaxGeneration
Rotate ==
  /\ MayRotate /\ generation' = generation + 1
  /\ UNCHANGED <<now, block, flaggedAt, worker, attempt, spend, chain>>

Flag(p) ==
  /\ "flag" \in Faults
  /\ flaggedAt[p] = Never
  /\ flaggedAt' = [flaggedAt EXCEPT ![p] = now]
  /\ UNCHANGED <<now, block, generation, worker, attempt, spend, chain>>

WorkerNext(c) ==
  \/ Prepare(c) \/ Intent(c) \/ Screen(c) \/ Admit(c) \/ AdmitRefused(c)
  \/ CustodySigns(c) \/ Record(c) \/ Submit(c) \/ Send(c) \/ Observe(c)
  \/ Unsubmitted(c) \/ Die(c)
ChainNext(c) ==
  \/ Pay(c) \/ CancelNonce(c) \/ SweepExpired(c) \/ RecoverSettled(c)
  \/ RecoverFailed(c) \/ ClaimExpired(c) \/ FinishExpired(c)
Next ==
  \/ \E c \in Calls : WorkerNext(c) \/ ChainNext(c)
  \/ \E p \in Payees : Flag(p)
  \/ Tick \/ NewBlock \/ Rotate

Spec == Init /\ [][Next]_vars

(***************************************************************************)
(* Properties.                                                             *)
(***************************************************************************)
(* What is reserved or lately settled stays within the limits of the       *)
(* platform, of each payee and of a new payee, however the admissions of   *)
(* several Calls, the clock and the resolutions interleave                 *)
(* (exposureRefusal).  CallMax bounds one amount, not their sum.           *)
WithinCaps == \A p \in Payees : WithinLimits(Exposed, p)

(* The payments that reached the chain within the last window stay within  *)
(* these limits too: no payment escapes them by a lost answer, a dead worker,*)
(* a late resolution or a new credential.                                  *)
PaidSince(t) == {c \in Calls : chain[c].state = "paid" /\ chain[c].paidAt >= t}
PaidWithinCaps == \A p \in Payees : WithinLimits(PaidSince(now - Window), p)

(* A reservation that was freed as unused is never paid afterwards, though *)
(* the signature may still be on its way to the chain.                     *)
UnusedNeverPaid == \A c \in Calls : spend[c].state = "unused" => chain[c].state # "paid"

(* A payee the screening provider flags is paid by no Call that was let    *)
(* in more than Freshness later, however long its worker stood still.      *)
FlaggedNotPaid ==
  \A c \in Calls : chain[c].sent => spend[c].reservedAt <= flaggedAt[Payee[c]] + Freshness

(* The first resolution of a reservation is the last one: a replayed or    *)
(* contradicting one neither changes it nor restarts its window.           *)
ResolvedOnce ==
  [][\A c \in Calls : spend[c].state \in {"settled", "unused"} => spend'[c] = spend[c]]_vars
=============================================================================
