----------------------------- MODULE CallWorker -----------------------------
(***************************************************************************)
(* The worker of a paid Call, from its gates to the recorded result.       *)
(* Each action is one mutation, or one answer from outside: the gates, the *)
(* Provider's challenge, the custodian who signs, the paid request and the *)
(* check of the payment on the chain.  A thrown error or a death ends the  *)
(* attempt; the workpool starts the next one at "start" until its retries  *)
(* are spent, and then completes the work as failed.                       *)
(***************************************************************************)
EXTENDS CallMoney

W == Worker
wpc == job[W].pc
ByWorker(pc, next) == At(W, pc) /\ Goto(W, next)
Pending == row.state = "pending"
PreparedOpen == pay.state = "prepared" /\ row.state \in {"pending", "reconciliation_required"}

(* MUTANT of RetriesLeft: one attempt more than the workpool is given. *)
RetriesLeftOneMore == deaths <= MaxDeaths
RetriesLeft == deaths < MaxDeaths

Throws ==
  IF RetriesLeft
  THEN deaths' = deaths + 1 /\ job' = [job EXCEPT ![W] = NewJob("start")]
  ELSE UNCHANGED deaths /\ job' = [job EXCEPT ![W] = NewJob("failed")]

WorkerThrow ==
  /\ wpc = "throw"
  /\ Throws
  /\ UNCHANGED <<db, world, books>>

WorkerDies ==
  /\ wpc \notin {"start", "done", "failed", "throw"}
  /\ Throws
  /\ UNCHANGED <<db, world, books>>

(***************************************************************************)
(* An attempt starts: what an earlier one left decides how it goes on.     *)
(***************************************************************************)
(* Gates of a retried attempt: authority, credential, Tool, readiness. *)
RestartLeased ==
  /\ wpc = "start" /\ Pending /\ control = "leased"
  /\ \/ leaseLive /\ Goto(W, "checks")
     \/ CASE fin \in {"released", "settled"} ->
               job' = [job EXCEPT ![W].pc = "refuse", ![W].goal = "refuse"]
          [] fin = "reserved" -> Book(W, Release, "refuse")
          [] OTHER -> Goto(W, "converge")
  /\ UNCHANGED <<db, world, books, deaths>>

(* The earlier attempt got behind its fence: nothing may be repeated. *)
RestartFenced ==
  /\ wpc = "start" /\ Pending /\ control = "fenced"
  /\ Goto(W, "converge")
  /\ UNCHANGED <<db, world, books, deaths>>

RestartEnded ==
  /\ wpc = "start" /\ (~Pending \/ control = "cancelled")
  /\ Finish(W)
  /\ UNCHANGED <<db, world, books, deaths>>

(* MUTANT of RestartUncertain: the stopped Call is not recorded as stopped. *)
RestartUncertainSilent ==
  /\ wpc = "start" /\ Pending
  /\ control \in {"contested", "uncertain", "completed", "terminal"}
  /\ Finish(W)
  /\ UNCHANGED <<db, world, books, deaths>>
RestartUncertain ==
  /\ wpc = "start" /\ Pending
  /\ control \in {"contested", "uncertain", "completed", "terminal"}
  /\ row' = [row EXCEPT !.state = "reconciliation_required"]
  /\ Finish(W)
  /\ UNCHANGED <<money, control, pay, world, books, deaths>>

(***************************************************************************)
(* Gates and preparation.                                                  *)
(***************************************************************************)
ChecksPass ==
  /\ control \in {"leased", "fenced"}
  /\ ByWorker("checks", "before")
  /\ UNCHANGED <<db, world, books, deaths>>

ChecksStop ==
  /\ control \notin {"leased", "fenced"}
  /\ wpc = "checks" /\ Finish(W)
  /\ UNCHANGED <<db, world, books, deaths>>

(* convergePreRelease without a settlement: no release is tried. *)
ChecksRefuse ==
  /\ wpc = "checks" /\ control \in {"leased", "fenced"}
  /\ job' = [job EXCEPT ![W].pc = "refuse", ![W].goal = "refuse"]
  /\ UNCHANGED <<db, world, books, deaths>>

BeforeRelease ==
  /\ wpc = "before"
  /\ CASE control = "cancelled" -> Book(W, Release, "abandon")
       [] control \in {"contested", "uncertain", "completed", "terminal"} -> Finish(W)
       [] OTHER -> IF leaseLive THEN Goto(W, "challenge") ELSE Book(W, Release, "refuse")
  /\ UNCHANGED <<db, world, books, deaths>>

ChallengeRefused ==
  /\ ByWorker("challenge", "unsubmitted")
  /\ UNCHANGED <<db, world, books, deaths>>

(* prepareX402Payment keeps a payment row that exists. *)
Prepare ==
  /\ wpc = "challenge"
  /\ IF fin = "reserved"
     THEN /\ pay' = IF pay.state = "none" THEN [pay EXCEPT !.state = "prepared"] ELSE pay
          /\ Goto(W, "fence")
     ELSE UNCHANGED pay /\ Goto(W, "unsubmitted")
  /\ UNCHANGED <<row, money, control, world, books, deaths>>

(***************************************************************************)
(* The fence: from here on a retry may not repeat the payment.             *)
(***************************************************************************)
(* MUTANT of MayFence: a cancelled control is fenced nevertheless. *)
MayFenceCancelled == control \in {"leased", "cancelled"} /\ leaseLive
MayFence == control = "leased" /\ leaseLive

(* MUTANT of Fence: the money is not marked after the control is fenced. *)
FenceOnly ==
  /\ wpc = "fence"
  /\ IF MayFence THEN control' = "fenced" /\ Goto(W, "reread")
     ELSE UNCHANGED control /\ Goto(W, "unsubmitted")
  /\ UNCHANGED <<row, money, pay, world, books, deaths>>
Fence ==
  /\ wpc = "fence"
  /\ IF MayFence THEN control' = "fenced" /\ Goto(W, "mark")
     ELSE UNCHANGED control /\ Goto(W, "unsubmitted")
  /\ UNCHANGED <<row, money, pay, world, books, deaths>>

MayMark == fin \in {"reserved", "possibly_submitted", "outcome_unknown"}

Mark ==
  /\ wpc = "mark"
  /\ fin' = IF fin = "reserved" THEN "possibly_submitted" ELSE fin
  /\ job' = IF MayMark
            THEN [job EXCEPT ![W].pc = "reread", ![W].marked = TRUE]
            ELSE [job EXCEPT ![W].pc = "unsubmitted"]
  /\ UNCHANGED <<row, obligation, restored, control, pay, world, books, deaths>>

(* The control is read again after the money was marked. *)
Reread ==
  /\ ByWorker("reread", IF control \in {"leased", "fenced"} THEN "sign" ELSE "unsubmitted")
  /\ UNCHANGED <<db, world, books, deaths>>

(***************************************************************************)
(* The signed authorization and the paid request.                          *)
(***************************************************************************)
(* The signing intent fixes the nonce and when the authorization expires. *)
Sign ==
  /\ wpc = "sign"
  /\ IF PreparedOpen THEN pay' = [pay EXCEPT !.intent = TRUE] /\ Goto(W, "custody")
     ELSE UNCHANGED pay /\ Goto(W, "unsubmitted")
  /\ UNCHANGED <<row, money, control, world, books, deaths>>

(* The custodian's signature exists; the worker may not receive it. *)
CustodySigns ==
  /\ wpc = "custody" /\ chain = "none"
  /\ chain' = "signed"
  /\ \/ Goto(W, "signature")
     \/ Goto(W, "unsubmitted")
  /\ UNCHANGED <<db, leaseLive, expired, sent, books, deaths>>

CustodyRefuses ==
  /\ ByWorker("custody", "unsubmitted")
  /\ UNCHANGED <<db, world, books, deaths>>

(* The digest of the signature is recorded on a prepared payment only. *)
Signature ==
  /\ ByWorker("signature", IF PreparedOpen THEN "submit" ELSE "unsubmitted")
  /\ UNCHANGED <<db, world, books, deaths>>

(* markX402PossiblySubmitted changes only a prepared payment. *)
Submit ==
  /\ wpc = "submit"
  /\ IF leaseLive
     THEN /\ pay' = IF pay.state = "prepared"
                    THEN [pay EXCEPT !.state = "possibly_submitted", !.started = TRUE]
                    ELSE pay
          /\ Goto(W, "send")
     ELSE UNCHANGED pay /\ Goto(W, "unsubmitted")
  /\ UNCHANGED <<row, money, control, world, books, deaths>>

Send ==
  /\ ByWorker("send", IF leaseLive THEN "await" ELSE "observe")
  /\ sent' = (sent \/ leaseLive)
  /\ UNCHANGED <<db, leaseLive, expired, chain, books, deaths>>

(* The Provider answers with a status, and says nothing of the payment when *)
(* it answers "unpaid"; or no answer arrives. A Provider may say anything.  *)
Await(answer) ==
  /\ wpc = "await"
  /\ job' = [job EXCEPT ![W].seen = answer,
                        ![W].pc = IF answer = "none" THEN "observe" ELSE "checkpoint"]
  /\ UNCHANGED <<db, world, books, deaths>>

(* The response is kept before it is judged, and with a locator of the  *)
(* payment its recovery is armed in the same transaction.               *)
Checkpoint ==
  /\ wpc = "checkpoint"
  /\ IF pay.state \in {"possibly_submitted", "observed", "reconciliation_required"}
     THEN /\ pay' = [pay EXCEPT !.status = job[W].seen]
          /\ job' = [job EXCEPT ![W].pc = "observe",
                       ![Response(0)] = IF job[W].seen = "unpaid" THEN @ ELSE NewJob("due")]
     ELSE UNCHANGED pay /\ Goto(W, "markUnknown")
  /\ UNCHANGED <<row, money, control, world, books, deaths>>

(* What the chain says of the payment named by the response. *)
Verdicts(seen) ==
  IF seen \notin {"ok", "error"} THEN {"unknown"}
  ELSE {"unknown", "not_settled"} \cup (IF chain = "paid" THEN {"settled"} ELSE {})

(* An unpaid response with a decodable challenge leaves a digest as well. *)
Digests(seen) == CASE seen = "none" -> {FALSE} [] seen = "unpaid" -> BOOLEAN
                   [] OTHER -> {TRUE}

Observe ==
  /\ wpc = "observe"
  /\ IF pay.state = "possibly_submitted"
     THEN \E v \in Verdicts(job[W].seen), d \in Digests(job[W].seen) :
            /\ pay' = [pay EXCEPT !.settlement = v, !.digest = d,
                         !.state = IF v = "unknown" THEN "reconciliation_required"
                                   ELSE "observed"]
            /\ Goto(W, "record")
     ELSE UNCHANGED pay /\ Goto(W, "markUnknown")
  /\ UNCHANGED <<row, money, control, world, books, deaths>>

(* The observation is kept once; a recovery job may have kept its own. *)
Record ==
  /\ ByWorker("record", IF pay.observed THEN "markUnknown" ELSE "judge")
  /\ pay' = [pay EXCEPT !.observed = TRUE]
  /\ UNCHANGED <<row, money, control, world, books, deaths>>

(* MUTANT of Charged: any answer of the Provider counts as paid. *)
ChargedByAnswer == job[W].seen = "ok"
Charged == job[W].seen = "ok" /\ pay.settlement = "settled"

Judge ==
  /\ wpc = "judge"
  /\ IF Charged THEN Book(W, WorkerSettlement, "charge") ELSE Goto(W, "markUnknown")
  /\ UNCHANGED <<db, world, books, deaths>>

(* Nothing was submitted: keep that, then give the hold back. *)
Unsubmitted ==
  /\ wpc = "unsubmitted"
  /\ IF pay.state = "none" THEN UNCHANGED pay /\ Book(W, Release, "deliver")
     ELSE IF /\ pay.state # "reconciliation_required" /\ ~pay.observed
             /\ pay.settlement \in {"none", "not_settled"}
     THEN /\ pay' = [pay EXCEPT !.state = "observed", !.settlement = "not_settled",
                                !.observed = TRUE]
          /\ Book(W, Release, "deliver")
     ELSE UNCHANGED pay /\ Goto(W, "markUnknown")
  /\ UNCHANGED <<row, money, control, world, books, deaths>>

(***************************************************************************)
(* Outcome unknown.                                                        *)
(***************************************************************************)
MayMarkUnknown == fin \in {"reserved", "possibly_submitted"}

OutcomeUnknown ==
  IF MayMarkUnknown THEN fin' = "outcome_unknown" /\ obligation' = "held"
  ELSE UNCHANGED <<fin, obligation>>

MarkUnknown ==
  /\ ByWorker("markUnknown", "unknown")
  /\ OutcomeUnknown
  /\ UNCHANGED <<row, restored, control, pay, world, books, deaths>>

(* An error after the gates: the catch of the release. *)
Caught ==
  /\ wpc = "caught"
  /\ IF job[W].marked THEN OutcomeUnknown /\ Goto(W, "converge")
     ELSE UNCHANGED <<fin, obligation>> /\ Book(W, Release, "caught")
  /\ UNCHANGED <<row, restored, control, pay, world, books, deaths>>

(***************************************************************************)
(* Record the result (finalizeDispatch).  It is one transaction over the   *)
(* row and the control, refused when either was taken over meanwhile.      *)
(***************************************************************************)
MayProject == Pending /\ control \in {"leased", "fenced"}

Project(pc, state, receipt, to, next) ==
  /\ wpc = pc /\ MayProject
  /\ row' = [row EXCEPT !.state = state, !.receipt = receipt]
  /\ control' = to
  /\ next
  /\ UNCHANGED <<money, pay, world, books, deaths>>

ArmsExpiry ==
  /\ pay.intent
  /\ pay.settlement \in {"unknown", "not_settled"}
  /\ ~pay.digest

Armed(next) ==
  job' = [job EXCEPT ![W] = next,
                     ![Expiry(0)] = IF ArmsExpiry THEN NewJob("due") ELSE @]

ProjectRefused == Project("refuse", "refused", TRUE, "completed", Finish(W))

(* Delivered, or paid for an answer that does not fit the contract. *)
ProjectCompleted(state) == Project("complete", state, TRUE, "completed", Finish(W))

ProjectUnknown ==
  Project("unknown", "reconciliation_required", TRUE, "uncertain",
    Armed(IF job[W].seen = "error" /\ pay.settlement = "settled"
          THEN [NewJob("claim") EXCEPT !.bundle = ErrorRemedy] ELSE NewJob("done")))

ProjectConverged ==
  Project("converge", "reconciliation_required", FALSE, "uncertain", Armed(NewJob("done")))

(* In the managed path the error is caught, elsewhere the attempt throws. *)
ProjectFails ==
  /\ wpc \in {"refuse", "complete", "unknown", "converge"} /\ ~MayProject
  /\ IF wpc = "converge" \/ job[W].goal = "refuse" THEN Throws
     ELSE Goto(W, "caught") /\ UNCHANGED deaths
  /\ UNCHANGED <<db, world, books>>

(***************************************************************************)
(* The workpool gives up: the work is completed as failed.                 *)
(***************************************************************************)
WorkFails ==
  /\ wpc = "failed"
  /\ row' = IF ~Pending THEN row
            ELSE [row EXCEPT !.state =
                   IF control \notin {"leased", "cancelled"} \/ fin # "released"
                   THEN "reconciliation_required" ELSE "refused"]
  /\ Finish(W)
  /\ UNCHANGED <<money, control, pay, world, books, deaths>>

WorkerGates ==
  \/ RestartLeased \/ RestartFenced \/ RestartEnded \/ RestartUncertain
  \/ ChecksPass \/ ChecksStop \/ ChecksRefuse \/ BeforeRelease
WorkerPays ==
  \/ ChallengeRefused \/ Prepare \/ Fence \/ Mark \/ Reread \/ Sign
  \/ CustodySigns \/ CustodyRefuses \/ Signature \/ Submit \/ Send
  \/ \E answer \in {"none", "unpaid", "ok", "error"} : Await(answer)
  \/ Checkpoint \/ Observe \/ Record \/ Judge \/ Unsubmitted
WorkerRecords ==
  \/ MarkUnknown \/ Caught \/ ProjectRefused \/ ProjectUnknown \/ ProjectConverged
  \/ \E state \in {"completed", "refused"} : ProjectCompleted(state)
  \/ ProjectFails \/ WorkFails \/ WorkerThrow
WorkerSteps == WorkerGates \/ WorkerPays \/ WorkerRecords
=============================================================================
