--------------------------- MODULE RecoveryProofs ---------------------------
(***************************************************************************)
(* The safety half of what PaidCall promises to do in the end.  No state   *)
(* is left in which nobody is left to act: a worker that has stopped has   *)
(* decided its Call, and a recovery that was begun has a job that is due,  *)
(* a claim that stands, or a person to look after it.                      *)
(***************************************************************************)
EXTENDS EndingProofs

(* A worker that is done leaves no Call pending, unless a cancellation took *)
(* the control from it (PendingEnds; RestartEnded to WorkFails).            *)
WorkerOwes == row.state = "pending" /\ control # "cancelled" => wpc # "done"

-----------------------------------------------------------------------------
(* The invariant.                                                           *)

Gates == {"checks", "before", "challenge", "fence"}
Fenced == {"mark", "reread", "sign", "custody", "signature", "submit", "send", "await",
           "checkpoint"}
Posting == {"booking", "post", "finalize"}

(* The worker may stop from here without another look at the Call.          *)
Resigned ==
  \/ wpc \in {"done", "claim"}
  \/ wpc \in Posting /\ job[W].goal \in {"abandon", "remedy", "unused"}
Owing == row.state = "pending" /\ control # "cancelled"

WorkerInv ==
  /\ wpc \in Gates => control \in {"leased", "cancelled"}
  /\ wpc \in Fenced => control # "leased"
  /\ Resigned => ~Owing

(* Before the fence nothing is signed and no response can be recovered.     *)
LeasedInv ==
  control = "leased" => ~pay.intent /\ \A k \in Steps : job[Response(k)].pc = "none"

ChainInv ==
  /\ Begun => row.state # "pending"
  /\ row.owner = "lost_result" => row.manual
  /\ row.owner \in {"response", "http_error"} /\ Open /\ ~row.manual => ResponseDue
  /\ Begun /\ row.state = "reconciliation_required" /\ ~row.manual /\ row.owner = "none"
       => ExpiryArmed

RecInv == WorkerInv /\ LeasedInv /\ ChainInv
Rec == Inv /\ RecInv

-----------------------------------------------------------------------------
(* Every step moves the parts in one of these ways.                         *)

RowEnds == (row'.state = "pending" => row.state = "pending") /\ (Open' => Open)
ControlEnds ==
  /\ control = "cancelled" => control' = "cancelled"
  /\ control' = "leased" => control = "leased"
WorkerStill ==
  job'[W] = job[W] /\ (control = "leased" => control' \in {"leased", "cancelled"})
LeaseKeeps ==
  control' = "leased" =>
    /\ pay'.intent => pay.intent
    /\ \A k \in Steps : job[Response(k)].pc = "none" => job'[Response(k)].pc = "none"

RowSame ==
  row'.owner = row.owner /\ row'.step = row.step /\ (row.manual => row'.manual)
(* Where the lease changes, a person, the unused claim or the end has it.   *)
RowPasses ==
  row'.manual \/ row'.owner = "expired_unused" \/ (row'.owner = "none" /\ ~Open')
RowKeeps ==
  \/ RowSame /\ (Open' /\ ~row'.manual /\ row.owner \in {"response", "http_error"} /\ ResponseDue
                 => job'[Response(row.step)].pc = "due")
  \/ RowPasses
  \/ row'.owner = "none" /\ ~Begun'
  \/ row'.owner \in {"response", "http_error"} /\ ResponseDue'
ExpiryKeeps ==
  /\ ExpiryArmed => ExpiryArmed' \/ row'.manual \/ row'.state # "reconciliation_required"
  /\ Begun' => Begun \/ (ExpiryArmed' /\ row'.state # "pending")

Tidy ==
  /\ RowEnds /\ ControlEnds /\ (WorkerStill \/ WorkerInv')
  /\ LeaseKeeps /\ RowKeeps /\ ExpiryKeeps

LEMMA RecFrame == ASSUME Rec, Tidy PROVE RecInv'
<1>1. WorkerInv'
  <2>. SUFFICES ASSUME WorkerStill PROVE WorkerInv' BY DEF Tidy
  <2>1. wpc' = wpc /\ job'[W].goal = job[W].goal BY DEF WorkerStill, wpc
  <2>. QED BY <2>1 DEF Rec, RecInv, Tidy, WorkerInv, WorkerStill, Resigned, Owing, RowEnds,
                       ControlEnds, Gates, Fenced, Posting
<1>2. LeasedInv' BY DEF Rec, RecInv, LeasedInv, Tidy, LeaseKeeps, ControlEnds
<1>3. (Begun => row.state # "pending")'
  BY DEF Rec, RecInv, ChainInv, Tidy, ExpiryKeeps, RowEnds
<1>4. (row.owner = "lost_result" => row.manual)'
  BY DEF Rec, RecInv, ChainInv, Tidy, RowKeeps, RowSame, RowPasses
<1>5. (row.owner \in {"response", "http_error"} /\ Open /\ ~row.manual => ResponseDue)'
  BY DEF Rec, RecInv, ChainInv, Tidy, RowKeeps, RowSame, RowPasses, RowEnds, ResponseDue
<1>6. (Begun /\ row.state = "reconciliation_required" /\ ~row.manual /\ row.owner = "none"
         => ExpiryArmed)'
  <2>. SUFFICES ASSUME Begun', row'.state = "reconciliation_required", ~row'.manual,
                       row'.owner = "none", ~ExpiryArmed'
                PROVE FALSE
    OBVIOUS
  <2>1. Begun /\ ~ExpiryArmed BY DEF Tidy, ExpiryKeeps
  <2>2. Open' BY DEF Open
  <2>3. row.state = "reconciliation_required"
    BY <2>1, <2>2 DEF Tidy, RowEnds, Rec, RecInv, ChainInv, Open
  <2>4. RowSame BY <2>2 DEF Tidy, RowKeeps, RowPasses
  <2>. QED BY <2>1, <2>3, <2>4 DEF RowSame, Rec, RecInv, ChainInv
<1>. QED BY <1>1, <1>2, <1>3, <1>4, <1>5, <1>6 DEF RecInv, ChainInv

-----------------------------------------------------------------------------
(* A step of one job that was neither due nor unborn leaves the schedules.  *)

RowStep == RowEnds /\ (RowSame \/ RowPasses)
IntentKeeps == pay'.intent => pay.intent \/ control' # "leased"

LEMMA OnlyTidy ==
  ASSUME Rec, NEW p \in Procs, Only(p), p # Worker => job[p].pc \notin {"none", "due"},
         RowStep, ControlEnds, IntentKeeps, WorkerStill \/ WorkerInv'
  PROVE  Tidy
<1>1. \A k \in Steps : /\ job[Response(k)].pc \in {"none", "due"} =>
                            job'[Response(k)] = job[Response(k)]
                       /\ job[Expiry(k)].pc \in {"none", "due"} =>
                            job'[Expiry(k)] = job[Expiry(k)]
  BY ProcTypes, ProcsDiffer DEF Only
<1>2. LeaseKeeps BY <1>1 DEF LeaseKeeps, IntentKeeps
<1>3. RowKeeps BY <1>1 DEF RowKeeps, RowStep, ResponseDue
<1>4. ExpiryKeeps BY <1>1 DEF ExpiryKeeps, ExpiryArmed, Begun
<1>. QED BY <1>2, <1>3, <1>4 DEF Tidy, RowStep

(* What others do to the row and to the control.                            *)
LEMMA RowQuiet == UNCHANGED row => RowStep
BY DEF RowStep, RowEnds, RowSame, Open

LEMMA QuietAll ==
  ASSUME UNCHANGED db PROVE RowStep /\ ControlEnds /\ IntentKeeps
BY RowQuiet DEF ControlEnds, IntentKeeps, db

LEMMA StillWorker ==
  ASSUME NEW p \in Procs, p # Worker, Only(p), UNCHANGED control PROVE WorkerStill
BY ProcTypes DEF Only, WorkerStill, W

LEMMA OtherTidy ==
  ASSUME Rec, NEW p \in Procs, p # Worker, Only(p), job[p].pc \notin {"none", "due"},
         UNCHANGED control, RowStep, pay'.intent => pay.intent
  PROVE  Tidy
<1>1. ControlEnds /\ IntentKeeps BY DEF ControlEnds, IntentKeeps
<1>. QED BY <1>1, StillWorker, OnlyTidy

LEMMA OtherQuiet ==
  ASSUME Rec, NEW p \in Procs, p # Worker, Only(p), job[p].pc \notin {"none", "due"},
         UNCHANGED db
  PROVE  Tidy
BY OtherTidy, QuietAll DEF db

(* Steps of the world and late writes move no job.                          *)
LEMMA WorldTidy ==
  ASSUME Rec, UNCHANGED <<job, control, pay>>, RowEnds, RowSame PROVE Tidy
<1>1. ControlEnds /\ WorkerStill /\ LeaseKeeps BY DEF ControlEnds, WorkerStill, LeaseKeeps
<1>2. RowKeeps BY DEF RowKeeps, ResponseDue
<1>3. ExpiryKeeps BY DEF ExpiryKeeps, ExpiryArmed, Begun
<1>. QED BY <1>1, <1>2, <1>3 DEF Tidy

-----------------------------------------------------------------------------
(* The worker.                                                              *)

LEMMA OwingEnds == ASSUME RowEnds, ControlEnds PROVE ~Owing => ~Owing'
BY DEF RowEnds, ControlEnds, Owing

LEMMA ExceptOnly ==
  ASSUME Inv, NEW p \in Procs, NEW j, job' = [job EXCEPT ![p] = j]
  PROVE  Only(p) /\ job'[p] = j
BY DEF Inv, JobsOK, Only

LEMMA WorkerTo ==
  ASSUME Rec, Only(Worker), RowStep, ControlEnds, IntentKeeps,
         wpc' \notin Posting,
         wpc' \in Gates => control' \in {"leased", "cancelled"},
         wpc' \in Fenced => control' # "leased",
         wpc' \in {"done", "claim"} => ~Owing'
  PROVE  Tidy
<1>1. WorkerInv' BY DEF WorkerInv, Resigned
<1>. QED BY <1>1, ProcTypes, OnlyTidy DEF wpc, W

LEMMA WorkerGotoTidy ==
  ASSUME Rec, NEW pc, Goto(Worker, pc),
         RowStep, ControlEnds, IntentKeeps,
         pc \notin Posting,
         pc \in Gates => control' \in {"leased", "cancelled"},
         pc \in Fenced => control' # "leased",
         pc \in {"done", "claim"} => ~Owing'
  PROVE  Tidy
<1>1. Only(Worker) /\ wpc' = pc BY ProcTypes, GotoPc DEF Rec, wpc, W
<1>. QED BY <1>1, WorkerTo

LEMMA WorkerFinishTidy ==
  ASSUME Rec, Finish(Worker),
         RowStep, ControlEnds, IntentKeeps, ~Owing'
  PROVE  Tidy
<1>1. Only(Worker) /\ wpc' = "done" BY ProcTypes, FinishPc DEF Rec, wpc, W
<1>. QED BY <1>1, WorkerTo DEF Posting, Gates, Fenced

LEMMA WorkerBookTidy ==
  ASSUME Rec, NEW b \in Bundles, NEW g \in Goals, Book(Worker, b, g),
         RowStep, ControlEnds, IntentKeeps,
         g \in {"abandon", "remedy", "unused"} => ~Owing'
  PROVE  Tidy
<1>1. Only(Worker) /\ wpc' = "booking" /\ job'[W].goal = g
  BY ProcTypes, BookJob DEF Rec, Inv, wpc, W
<1>2. WorkerInv' BY <1>1 DEF WorkerInv, Resigned, Gates, Fenced
<1>. QED BY <1>1, <1>2, ProcTypes, OnlyTidy DEF wpc, W

LEMMA WorkerRefusesTidy ==
  ASSUME Rec, job' = [job EXCEPT ![W].pc = "refuse", ![W].goal = "refuse"], UNCHANGED db
  PROVE  Tidy
<1>1. job[W] \in Job BY ProcTypes DEF Rec, Inv, JobsOK, W
<1>2. job' = [job EXCEPT ![W] = [job[W] EXCEPT !.pc = "refuse", !.goal = "refuse"]]
  BY DEF Rec, Inv, JobsOK
<1>3. Only(Worker) /\ job'[W] = [job[W] EXCEPT !.pc = "refuse", !.goal = "refuse"]
  BY <1>2, ProcTypes, ExceptOnly DEF Rec, W
<1>4. wpc' = "refuse" BY <1>1, <1>3 DEF wpc, Job
<1>. QED BY <1>3, <1>4, QuietAll, WorkerTo DEF Posting, Gates, Fenced

LEMMA GatesTidy == ASSUME Rec, WorkerGates PROVE Tidy
<1>a. Release \in Bundles /\ {"refuse", "abandon"} \subseteq Goals
  BY BundleTypes DEF Goals
<1>1. CASE RestartLeased
  <2>1. wpc = "start" /\ control = "leased" /\ UNCHANGED db BY <1>1 DEF RestartLeased
  <2>2. RowStep /\ ControlEnds /\ IntentKeeps BY <2>1, QuietAll
  <2>3. UNCHANGED control BY <2>1 DEF db
  <2>4. \/ Goto(Worker, "checks") \/ Goto(Worker, "converge") \/ Book(Worker, Release, "refuse")
        \/ job' = [job EXCEPT ![W].pc = "refuse", ![W].goal = "refuse"]
    BY <1>1 DEF RestartLeased, W
  <2>. QED BY <1>a, <2>1, <2>2, <2>3, <2>4, WorkerGotoTidy, WorkerBookTidy, WorkerRefusesTidy
       DEF Posting, Gates, Fenced
<1>2. CASE RestartFenced
  <2>1. wpc = "start" /\ UNCHANGED db /\ Goto(Worker, "converge") BY <1>2 DEF RestartFenced, W
  <2>. QED BY <2>1, QuietAll, WorkerGotoTidy DEF Posting, Gates, Fenced
<1>3. CASE RestartEnded
  <2>1. wpc = "start" /\ UNCHANGED db /\ Finish(Worker) /\ ~Owing
    BY <1>3 DEF RestartEnded, W, Owing, Pending
  <2>2. ~Owing' BY <2>1 DEF Owing, db
  <2>. QED BY <2>1, <2>2, QuietAll, WorkerFinishTidy
<1>4. CASE RestartUncertain
  <2>1. /\ wpc = "start" /\ UNCHANGED <<control, pay>> /\ Finish(Worker)
        /\ row' = [row EXCEPT !.state = "reconciliation_required"] /\ row.state = "pending"
    BY <1>4 DEF RestartUncertain, W, Pending
  <2>2. RowStep /\ ~Owing'
    BY <2>1 DEF RowStep, RowEnds, RowSame, Owing, Rec, Inv, DataOK, Row, Open
  <2>3. ControlEnds /\ IntentKeeps BY <2>1 DEF ControlEnds, IntentKeeps
  <2>. QED BY <2>1, <2>2, <2>3, WorkerFinishTidy
<1>5. CASE ChecksPass
  <2>1. wpc = "checks" /\ UNCHANGED db /\ Goto(Worker, "before")
    BY <1>5 DEF ChecksPass, ByWorker, At, wpc, W
  <2>2. control' \in {"leased", "cancelled"}
    BY <2>1 DEF Rec, RecInv, WorkerInv, Gates, db
  <2>. QED BY <2>1, <2>2, QuietAll, WorkerGotoTidy DEF Posting, Gates, Fenced
<1>6. CASE ChecksStop
  <2>1. wpc = "checks" /\ UNCHANGED db /\ Finish(Worker) /\ control # "leased"
    BY <1>6 DEF ChecksStop, W
  <2>2. ~Owing' BY <2>1 DEF Rec, RecInv, WorkerInv, Gates, db, Owing
  <2>. QED BY <2>1, <2>2, QuietAll, WorkerFinishTidy
<1>7. CASE ChecksRefuse
  BY <1>7, WorkerRefusesTidy DEF ChecksRefuse
<1>8. CASE BeforeRelease
  <2>1. wpc = "before" /\ UNCHANGED db BY <1>8 DEF BeforeRelease
  <2>2. control \in {"leased", "cancelled"} BY <2>1 DEF Rec, RecInv, WorkerInv, Gates
  <2>3. UNCHANGED control BY <2>1 DEF db
  <2>4. \/ control = "cancelled" /\ Book(Worker, Release, "abandon")
        \/ Goto(Worker, "challenge") \/ Book(Worker, Release, "refuse")
    BY <1>8, <2>2 DEF BeforeRelease, W
  <2>5. control = "cancelled" => ~Owing' BY <2>3 DEF Owing
  <2>6. RowStep /\ ControlEnds /\ IntentKeeps BY <2>1, QuietAll
  <2>. QED BY <1>a, <2>1, <2>2, <2>3, <2>4, <2>5, <2>6, WorkerGotoTidy, WorkerBookTidy
       DEF Posting, Gates, Fenced
<1>. QED BY <1>1, <1>2, <1>3, <1>4, <1>5, <1>6, <1>7, <1>8 DEF WorkerGates

(* Behind the fence the control is not leased, up to the checkpoint.        *)
LEMMA WorkerOnTidy ==
  ASSUME Rec, NEW pc, Goto(Worker, pc),
         UNCHANGED <<row, control>>, pay'.intent => pay.intent \/ control # "leased",
         pc \notin Posting \cup Gates \cup {"done", "claim"},
         pc \in Fenced => control # "leased"
  PROVE  Tidy
<1>1. RowStep /\ ControlEnds /\ IntentKeeps BY RowQuiet DEF ControlEnds, IntentKeeps
<1>. QED BY <1>1, WorkerGotoTidy

LEMMA IntentFields ==
  ASSUME Rec
  PROVE  /\ [pay EXCEPT !.state = "prepared"].intent = pay.intent
         /\ [pay EXCEPT !.state = "possibly_submitted", !.started = TRUE].intent = pay.intent
         /\ [pay EXCEPT !.observed = TRUE].intent = pay.intent
         /\ \A s : [pay EXCEPT !.status = s].intent = pay.intent
         /\ [pay EXCEPT !.state = "observed", !.settlement = "not_settled",
                        !.observed = TRUE].intent = pay.intent
BY DEF Rec, Inv, DataOK, Pay

LEMMA PaysTidy ==
  ASSUME Rec, ChallengeRefused \/ Prepare \/ Fence \/ Mark \/ Reread \/ Sign
  PROVE  Tidy
<1>1. CASE ChallengeRefused
  <2>1. wpc = "challenge" /\ UNCHANGED <<row, control, pay>> /\ Goto(Worker, "unsubmitted")
    BY <1>1 DEF ChallengeRefused, ByWorker, At, wpc, W, db
  <2>. QED BY <2>1, WorkerOnTidy DEF Posting, Gates, Fenced
<1>2. CASE Prepare
  <2>1. wpc = "challenge" /\ UNCHANGED <<row, control>> /\ (pay'.intent => pay.intent)
    BY <1>2, IntentFields DEF Prepare
  <2>2. Goto(Worker, "fence") \/ Goto(Worker, "unsubmitted") BY <1>2 DEF Prepare, W
  <2>3. RowStep /\ ControlEnds /\ IntentKeeps BY <2>1, RowQuiet DEF ControlEnds, IntentKeeps
  <2>4. control' \in {"leased", "cancelled"}
    BY <2>1 DEF Rec, RecInv, WorkerInv, Gates
  <2>. QED BY <2>1, <2>2, <2>3, <2>4, WorkerGotoTidy DEF Posting, Gates, Fenced
<1>3. CASE Fence
  <2>1. wpc = "fence" /\ UNCHANGED <<row, pay>> BY <1>3 DEF Fence
  <2>2. \/ control = "leased" /\ control' = "fenced" /\ Goto(Worker, "mark")
        \/ UNCHANGED control /\ Goto(Worker, "unsubmitted")
    BY <1>3 DEF Fence, MayFence, W
  <2>3. RowStep /\ ControlEnds /\ IntentKeeps
    BY <2>1, <2>2, RowQuiet DEF ControlEnds, IntentKeeps
  <2>. QED BY <2>1, <2>2, <2>3, WorkerGotoTidy DEF Posting, Gates, Fenced
<1>4. CASE Mark
  <2>1. wpc = "mark" /\ UNCHANGED <<row, control, pay>> BY <1>4 DEF Mark
  <2>2. control # "leased" BY <2>1 DEF Rec, RecInv, WorkerInv, Fenced
  <2>3. CASE MayMark
    <3>1. job[W] \in Job BY ProcTypes DEF Rec, Inv, JobsOK, W
    <3>2. job' = [job EXCEPT ![W] = [job[W] EXCEPT !.pc = "reread", !.marked = TRUE]]
      BY <1>4, <2>3 DEF Mark, Rec, Inv, JobsOK
    <3>3. Only(Worker) /\ job'[W] = [job[W] EXCEPT !.pc = "reread", !.marked = TRUE]
      BY <3>2, ProcTypes, ExceptOnly DEF Rec, W
    <3>4. wpc' = "reread" BY <3>1, <3>3 DEF wpc, Job
    <3>5. RowStep /\ ControlEnds /\ IntentKeeps BY <2>1, RowQuiet DEF ControlEnds, IntentKeeps
    <3>. QED BY <2>1, <2>2, <3>3, <3>4, <3>5, WorkerTo DEF Posting, Gates, Fenced
  <2>4. CASE ~MayMark
    <3>1. Goto(Worker, "unsubmitted") BY <1>4, <2>4 DEF Mark, Goto, W
    <3>. QED BY <2>1, <3>1, WorkerOnTidy DEF Posting, Gates, Fenced
  <2>. QED BY <2>3, <2>4
<1>5. CASE Reread
  <2>1. wpc = "reread" /\ UNCHANGED <<row, control, pay>>
        /\ (Goto(Worker, "sign") \/ Goto(Worker, "unsubmitted"))
    BY <1>5 DEF Reread, ByWorker, At, wpc, W, db
  <2>2. control # "leased" BY <2>1 DEF Rec, RecInv, WorkerInv, Fenced
  <2>. QED BY <2>1, <2>2, WorkerOnTidy DEF Posting, Gates, Fenced
<1>6. CASE Sign
  <2>1. wpc = "sign" /\ UNCHANGED <<row, control>>
        /\ (Goto(Worker, "custody") \/ Goto(Worker, "unsubmitted"))
    BY <1>6 DEF Sign, W
  <2>2. control # "leased" BY <2>1 DEF Rec, RecInv, WorkerInv, Fenced
  <2>. QED BY <2>1, <2>2, WorkerOnTidy DEF Posting, Gates, Fenced
<1>. QED BY <1>1, <1>2, <1>3, <1>4, <1>5, <1>6

LEMMA SendsTidy ==
  ASSUME Rec, \/ CustodySigns \/ CustodyRefuses \/ Signature \/ Submit \/ Send
              \/ \E answer \in {"none", "unpaid", "ok", "error"} : Await(answer)
  PROVE  Tidy
<1>1. CASE CustodySigns \/ CustodyRefuses \/ Signature
  <2>1. wpc \in {"custody", "signature"} /\ UNCHANGED <<row, control, pay>>
    BY <1>1 DEF CustodySigns, CustodyRefuses, Signature, ByWorker, At, wpc, W, db
  <2>2. control # "leased" BY <2>1 DEF Rec, RecInv, WorkerInv, Fenced
  <2>3. \/ Goto(Worker, "signature") \/ Goto(Worker, "submit") \/ Goto(Worker, "unsubmitted")
    BY <1>1 DEF CustodySigns, CustodyRefuses, Signature, ByWorker, W
  <2>. QED BY <2>1, <2>2, <2>3, WorkerOnTidy DEF Posting, Gates, Fenced
<1>2. CASE Submit
  <2>1. wpc = "submit" /\ UNCHANGED <<row, control>> /\ (pay'.intent => pay.intent)
    BY <1>2, IntentFields DEF Submit
  <2>2. control # "leased" BY <2>1 DEF Rec, RecInv, WorkerInv, Fenced
  <2>3. Goto(Worker, "send") \/ Goto(Worker, "unsubmitted") BY <1>2 DEF Submit, W
  <2>. QED BY <2>1, <2>2, <2>3, WorkerOnTidy DEF Posting, Gates, Fenced
<1>3. CASE Send
  <2>1. wpc = "send" /\ UNCHANGED <<row, control, pay>>
        /\ (Goto(Worker, "await") \/ Goto(Worker, "observe"))
    BY <1>3 DEF Send, ByWorker, At, wpc, W, db
  <2>2. control # "leased" BY <2>1 DEF Rec, RecInv, WorkerInv, Fenced
  <2>. QED BY <2>1, <2>2, WorkerOnTidy DEF Posting, Gates, Fenced
<1>4. ASSUME NEW answer \in {"none", "unpaid", "ok", "error"}, Await(answer) PROVE Tidy
  <2>1. wpc = "await" /\ UNCHANGED <<row, control, pay>> BY <1>4 DEF Await, db
  <2>2. control # "leased" BY <2>1 DEF Rec, RecInv, WorkerInv, Fenced
  <2>3. PICK pc \in {"observe", "checkpoint"} :
          job' = [job EXCEPT ![W] = [job[W] EXCEPT !.seen = answer, !.pc = pc]]
    BY <1>4 DEF Await, Rec, Inv, JobsOK
  <2>4. job[W] \in Job BY ProcTypes DEF Rec, Inv, JobsOK, W
  <2>5. Only(Worker) /\ job'[W] = [job[W] EXCEPT !.seen = answer, !.pc = pc]
    BY <2>3, ProcTypes, ExceptOnly DEF Rec, W
  <2>6. wpc' = pc BY <2>4, <2>5 DEF wpc, Job
  <2>7. RowStep /\ ControlEnds /\ IntentKeeps BY <2>1, RowQuiet DEF ControlEnds, IntentKeeps
  <2>. QED BY <2>1, <2>2, <2>3, <2>5, <2>6, <2>7, WorkerTo DEF Posting, Gates, Fenced
<1>. QED BY <1>1, <1>2, <1>3, <1>4

(* A job goes on and makes the first step of a recovery chain due.          *)
LEMMA ArmsTidy ==
  ASSUME Rec, NEW p \in Procs, NEW q \in Procs, job[p].pc \notin {"none", "due"},
         \A o \in Procs \ {p, q} : job'[o] = job[o],
         job'[q] = job[q] \/ (job'[q].pc = "due" /\ (IsExpiry(q) => row'.state # "pending")),
         p # q, RowStep, ControlEnds, control' # "leased", WorkerInv'
  PROVE  Tidy
<1>1. \A k \in Steps : job[Response(k)].pc = "due" => job'[Response(k)].pc = "due"
  BY ProcTypes
<1>2. \A k \in Steps : job[Expiry(k)].pc = "due" => job'[Expiry(k)].pc = "due"
  BY ProcTypes
<1>3. \A k \in Steps : job'[Expiry(k)].pc # "none" =>
        job[Expiry(k)].pc # "none" \/ (job'[Expiry(k)].pc = "due" /\ row'.state # "pending")
  BY ProcTypes, ProcNames
<1>4. LeaseKeeps BY DEF LeaseKeeps
<1>5. RowKeeps BY <1>1 DEF RowKeeps, RowStep, ResponseDue
<1>6. ExpiryKeeps BY <1>2, <1>3 DEF ExpiryKeeps, ExpiryArmed, Begun
<1>. QED BY <1>4, <1>5, <1>6 DEF Tidy, RowStep

LEMMA FirstStep == 0 \in Steps /\ Response(0) \in Procs /\ Expiry(0) \in Procs
                   /\ Worker # Response(0) /\ Worker # Expiry(0)
<1>1. 0 \in Steps BY PaidCallAssumption DEF Steps
<1>. QED BY <1>1, ProcTypes, ProcsDiffer

LEMMA CheckpointTidy == ASSUME Rec, Checkpoint PROVE Tidy
<1>1. wpc = "checkpoint" /\ UNCHANGED <<row, control>> /\ (pay'.intent => pay.intent)
  BY IntentFields DEF Checkpoint
<1>2. control # "leased" BY <1>1 DEF Rec, RecInv, WorkerInv, Fenced
<1>3. RowStep /\ ControlEnds /\ IntentKeeps BY <1>1, RowQuiet DEF ControlEnds, IntentKeeps
<1>4. CASE Goto(Worker, "markUnknown")
  BY <1>1, <1>2, <1>4, WorkerOnTidy DEF Posting, Gates, Fenced
<1>5. CASE job' = [job EXCEPT ![W].pc = "observe",
                     ![Response(0)] = IF job[W].seen = "unpaid" THEN @ ELSE NewJob("due")]
  <2>1. PICK j : job' = [job EXCEPT ![W] = [job[W] EXCEPT !.pc = "observe"], ![Response(0)] = j]
                 /\ (j = job[Response(0)] \/ j = NewJob("due"))
    BY <1>5, FirstStep DEF Rec, Inv, JobsOK, W
  <2>2. /\ \A o \in Procs \ {Worker, Response(0)} : job'[o] = job[o]
        /\ job'[Worker] = [job[Worker] EXCEPT !.pc = "observe"]
        /\ job'[Response(0)] = j
    BY <2>1, FirstStep, ProcTypes DEF Rec, Inv, JobsOK, W
  <2>3. job[Worker] \in Job BY ProcTypes DEF Rec, Inv, JobsOK
  <2>4. wpc' = "observe" BY <2>2, <2>3 DEF wpc, W, Job
  <2>5. job'[Response(0)] = job[Response(0)] \/ job'[Response(0)].pc = "due"
    BY <2>1, <2>2, NewJobType, PCs
  <2>6. WorkerInv' BY <2>4 DEF WorkerInv, Resigned, Gates, Fenced, Posting
  <2>7. control' # "leased" BY <1>1, <1>2
  <2>. QED BY <1>1, <1>3, <2>2, <2>5, <2>6, <2>7, FirstStep, ProcTypes, ProcNames, ArmsTidy
       DEF wpc, W
<1>. QED BY <1>4, <1>5 DEF Checkpoint, W

LEMMA JudgesTidy == ASSUME Rec, Observe \/ Record \/ Judge \/ Unsubmitted PROVE Tidy
<1>a. /\ Release \in Bundles /\ WorkerSettlement \in Bundles
      /\ {"deliver", "charge"} \subseteq Goals
  BY BundleTypes DEF Goals
<1>b. ASSUME UNCHANGED <<row, control>>, pay'.intent => pay.intent
      PROVE RowStep /\ ControlEnds /\ IntentKeeps
  BY <1>b, RowQuiet DEF ControlEnds, IntentKeeps
<1>1. CASE Observe
  <2>1. wpc = "observe" /\ UNCHANGED <<row, control>> BY <1>1 DEF Observe
  <2>3. ASSUME pay.state = "possibly_submitted" PROVE pay'.intent = pay.intent
    <3>1. PICK v \in Verdicts(job[W].seen), d \in Digests(job[W].seen) :
            pay' = [pay EXCEPT !.settlement = v, !.digest = d,
                      !.state = IF v = "unknown" THEN "reconciliation_required" ELSE "observed"]
      BY <1>1, <2>3 DEF Observe
    <3>. QED BY <3>1 DEF Rec, Inv, DataOK, Pay
  <2>4. pay'.intent => pay.intent BY <1>1, <2>3 DEF Observe
  <2>2. Goto(Worker, "record") \/ Goto(Worker, "markUnknown") BY <1>1 DEF Observe, W
  <2>. QED BY <2>1, <2>2, <2>4, WorkerOnTidy DEF Posting, Gates, Fenced
<1>2. CASE Record
  <2>1. wpc = "record" /\ UNCHANGED <<row, control>> /\ (pay'.intent => pay.intent)
        /\ (Goto(Worker, "markUnknown") \/ Goto(Worker, "judge"))
    BY <1>2, IntentFields DEF Record, ByWorker, At, wpc, W
  <2>. QED BY <2>1, WorkerOnTidy DEF Posting, Gates, Fenced
<1>3. CASE Judge
  <2>1. wpc = "judge" /\ UNCHANGED <<row, control, pay>>
        /\ (Book(Worker, WorkerSettlement, "charge") \/ Goto(Worker, "markUnknown"))
    BY <1>3 DEF Judge, W, db
  <2>. QED BY <1>a, <1>b, <2>1, WorkerOnTidy, WorkerBookTidy DEF Posting, Gates, Fenced
<1>4. CASE Unsubmitted
  <2>1. wpc = "unsubmitted" /\ UNCHANGED <<row, control>> /\ (pay'.intent => pay.intent)
    BY <1>4, IntentFields DEF Unsubmitted
  <2>2. Book(Worker, Release, "deliver") \/ Goto(Worker, "markUnknown")
    BY <1>4 DEF Unsubmitted, W
  <2>. QED BY <1>a, <1>b, <2>1, <2>2, WorkerOnTidy, WorkerBookTidy DEF Posting, Gates, Fenced
<1>. QED BY <1>1, <1>2, <1>3, <1>4

-----------------------------------------------------------------------------
(* The worker records its result, is retried, or gives up.                  *)

LEMMA ThrowsTidy ==
  ASSUME Rec, Throws, UNCHANGED db PROVE Tidy
<1>1. PICK pc \in {"start", "failed"} : job' = [job EXCEPT ![Worker] = NewJob(pc)]
  BY DEF Throws, W
<1>2. Only(Worker) /\ job'[Worker] = NewJob(pc) BY <1>1, ProcTypes, ExceptOnly DEF Rec
<1>3. wpc' = pc BY <1>2, PCs, NewJobType DEF wpc, W
<1>. QED BY <1>2, <1>3, QuietAll, WorkerTo DEF Posting, Gates, Fenced

LEMMA DiesTidy == ASSUME Rec, WorkerDies \/ WorkerThrow PROVE Tidy
<1>1. CASE WorkerThrow
  BY <1>1, ThrowsTidy DEF WorkerThrow
<1>2. CASE WorkerDies
  BY <1>2, ThrowsTidy DEF WorkerDies
<1>. QED BY <1>1, <1>2

(* The result and the ended control are written together.                   *)
LEMMA ProjectRow ==
  ASSUME Rec, NEW state \in {"completed", "refused", "reconciliation_required"}, NEW receipt,
         MayProject, row' = [row EXCEPT !.state = state, !.receipt = receipt],
         control' \in {"completed", "uncertain"}
  PROVE  RowStep /\ ControlEnds /\ IntentKeeps /\ ~Owing' /\ row'.state = state
<1>1. row' = [row EXCEPT !.state = state, !.receipt = receipt] /\ row \in Row
  BY DEF Rec, Inv, DataOK
<1>2. row'.state = state /\ row'.owner = row.owner /\ row'.step = row.step
      /\ row'.manual = row.manual
  BY <1>1 DEF Row
<1>3. RowStep BY <1>2 DEF RowStep, RowEnds, RowSame, MayProject, Pending, Open
<1>. QED BY <1>2, <1>3 DEF ControlEnds, IntentKeeps, MayProject, Owing

LEMMA ProjectEndsTidy ==
  ASSUME Rec, ProjectRefused \/ \E state \in {"completed", "refused"} : ProjectCompleted(state)
  PROVE  Tidy
<1>1. PICK state \in {"completed", "refused"} :
        /\ MayProject /\ row' = [row EXCEPT !.state = state, !.receipt = TRUE]
        /\ control' = "completed" /\ Finish(Worker)
  BY DEF ProjectRefused, ProjectCompleted, Project, W
<1>2. RowStep /\ ControlEnds /\ IntentKeeps /\ ~Owing'
  BY <1>1, ProjectRow
<1>. QED BY <1>1, <1>2, WorkerFinishTidy

LEMMA ArmedTidy ==
  ASSUME Rec, wpc \in {"unknown", "converge"}, NEW next \in Job, next.pc \in {"claim", "done"},
         Armed(next), RowStep, ControlEnds, control' # "leased", ~Owing',
         row'.state # "pending"
  PROVE  Tidy
<1>1. PICK j : job' = [job EXCEPT ![W] = next, ![Expiry(0)] = j]
               /\ (j = job[Expiry(0)] \/ j = NewJob("due"))
  BY FirstStep DEF Armed, Rec, Inv, JobsOK, W
<1>2. /\ \A o \in Procs \ {Worker, Expiry(0)} : job'[o] = job[o]
      /\ job'[Worker] = next /\ job'[Expiry(0)] = j
  BY <1>1, FirstStep, ProcTypes DEF Rec, Inv, JobsOK, W
<1>3. job'[Expiry(0)] = job[Expiry(0)] \/ job'[Expiry(0)].pc = "due"
  BY <1>1, <1>2, NewJobType, PCs
<1>4. wpc' \in {"claim", "done"} BY <1>2 DEF wpc, W
<1>5. WorkerInv' BY <1>4 DEF WorkerInv, Gates, Fenced
<1>. QED BY <1>2, <1>3, <1>5, FirstStep, ProcTypes, ArmsTidy DEF wpc, W

LEMMA ProjectArmsTidy == ASSUME Rec, ProjectUnknown \/ ProjectConverged PROVE Tidy
<1>a. "claim" \in PC /\ "done" \in PC BY DEF PC
<1>b. /\ NewJob("claim") \in Job /\ NewJob("claim").pc = "claim"
      /\ NewJob("done") \in Job /\ NewJob("done").pc = "done"
  BY <1>a, NewJobType
<1>c. [NewJob("claim") EXCEPT !.bundle = ErrorRemedy] \in Job
      /\ [NewJob("claim") EXCEPT !.bundle = ErrorRemedy].pc = "claim"
  BY <1>b, BundleTypes DEF Job
<1>1. PICK next \in Job, receipt \in BOOLEAN :
        /\ next.pc \in {"claim", "done"} /\ wpc \in {"unknown", "converge"}
        /\ MayProject /\ control' = "uncertain" /\ Armed(next)
        /\ row' = [row EXCEPT !.state = "reconciliation_required", !.receipt = receipt]
  <2>1. CASE ProjectUnknown
    BY <1>b, <1>c, <2>1 DEF ProjectUnknown, Project
  <2>2. CASE ProjectConverged
    BY <1>b, <2>2 DEF ProjectConverged, Project
  <2>. QED BY <2>1, <2>2
<1>2. RowStep /\ ControlEnds /\ ~Owing' /\ row'.state = "reconciliation_required"
  BY <1>1, ProjectRow
<1>. QED BY <1>1, <1>2, ArmedTidy

LEMMA EndsTidy == ASSUME Rec, MarkUnknown \/ Caught \/ ProjectFails \/ WorkFails PROVE Tidy
<1>a. Release \in Bundles /\ "caught" \in Goals BY BundleTypes DEF Goals
<1>b. ASSUME UNCHANGED <<row, control, pay>> PROVE RowStep /\ ControlEnds /\ IntentKeeps
  BY <1>b, RowQuiet DEF ControlEnds, IntentKeeps
<1>1. CASE MarkUnknown
  <2>1. UNCHANGED <<row, control, pay>> /\ Goto(Worker, "unknown")
    BY <1>1 DEF MarkUnknown, ByWorker, W
  <2>. QED BY <2>1, WorkerOnTidy DEF Posting, Gates, Fenced
<1>2. CASE Caught
  <2>1. UNCHANGED <<row, control, pay>>
        /\ (Goto(Worker, "converge") \/ Book(Worker, Release, "caught"))
    BY <1>2 DEF Caught, W
  <2>. QED BY <1>a, <1>b, <2>1, WorkerOnTidy, WorkerBookTidy DEF Posting, Gates, Fenced
<1>3. CASE ProjectFails
  <2>1. UNCHANGED <<row, control, pay>> /\ UNCHANGED db /\ (Throws \/ Goto(Worker, "caught"))
    BY <1>3 DEF ProjectFails, W, db
  <2>. QED BY <2>1, ThrowsTidy, WorkerOnTidy DEF Posting, Gates, Fenced
<1>4. CASE WorkFails
  <2>1. UNCHANGED <<control, pay>> /\ Finish(Worker) BY <1>4 DEF WorkFails, W
  <2>2. \/ UNCHANGED row /\ row.state # "pending"
        \/ \E state \in {"reconciliation_required", "refused"} :
             row' = [row EXCEPT !.state = state] /\ row.state = "pending"
    BY <1>4 DEF WorkFails, Pending
  <2>3. row'.owner = row.owner /\ row'.step = row.step /\ row'.manual = row.manual
        /\ row'.state # "pending" /\ (Open' => Open)
    BY <2>2 DEF Rec, Inv, DataOK, Row, Open
  <2>4. RowStep /\ ~Owing' BY <2>3 DEF RowStep, RowEnds, RowSame, Owing
  <2>5. ControlEnds /\ IntentKeeps BY <2>1 DEF ControlEnds, IntentKeeps
  <2>. QED BY <2>1, <2>4, <2>5, WorkerFinishTidy
<1>. QED BY <1>1, <1>2, <1>3, <1>4

LEMMA WorkerTidy == ASSUME Rec, WorkerSteps \/ WorkerDies PROVE Tidy
BY GatesTidy, PaysTidy, SendsTidy, CheckpointTidy, JudgesTidy, EndsTidy, ProjectEndsTidy,
   ProjectArmsTidy, DiesTidy
   DEF WorkerSteps, WorkerPays, WorkerRecords

-----------------------------------------------------------------------------
(* The ways to end the hold.                                                *)

LEMMA EndPcs ==
  /\ \A g \in Goals \ {"none"} :
       {AcceptedPc[g], RefusedPc[g]} \cap (Posting \cup Gates \cup Fenced \cup {"claim"}) = {}
  /\ \A g \in Goals \ {"none", "abandon", "remedy", "unused"} :
       AcceptedPc[g] # "done" /\ RefusedPc[g] # "done"
BY DEF AcceptedPc, RefusedPc, Goals, Posting, Gates, Fenced

(* A job between its booking and its record, whoever it belongs to.         *)
LEMMA PostingTidy ==
  ASSUME Rec, NEW p \in Procs, job[p].pc \in Posting, UNCHANGED control, RowStep, IntentKeeps,
         Accepted(p) \/ Refused(p)
           \/ (Only(p) /\ job'[p].pc \in Posting /\ job'[p].goal = job[p].goal)
  PROVE  Tidy
<1>1. ControlEnds BY DEF ControlEnds
<1>2. job[p].goal \in Goals \ {"none"} BY Knows, FitsGoal DEF Rec, JobKnows, Posting
<1>3. Only(p) /\ \/ job'[p].pc \in {AcceptedPc[job[p].goal], RefusedPc[job[p].goal]}
                 \/ job'[p].pc \in Posting /\ job'[p].goal = job[p].goal
  BY GotoPc DEF Accepted, Refused, Rec
<1>4. job[p].pc \notin {"none", "due"} BY DEF Posting
<1>5. CASE p = Worker
  <2>1. wpc' \notin Gates \cup Fenced
    BY <1>2, <1>3, <1>5, EndPcs DEF wpc, W, Posting, Gates, Fenced
  <2>2. ASSUME Resigned' PROVE Resigned
    BY <1>2, <1>3, <1>5, <2>2, EndPcs DEF Resigned, wpc, W, Posting
  <2>3. WorkerInv'
    BY <1>1, <2>1, <2>2, OwingEnds DEF WorkerInv, Rec, RecInv, RowStep
  <2>. QED BY <1>1, <1>3, <1>4, <2>3, OnlyTidy
<1>6. CASE p # Worker
  <2>1. WorkerStill BY <1>3, <1>6, StillWorker
  <2>. QED BY <1>1, <1>3, <1>4, <2>1, OnlyTidy
<1>. QED BY <1>5, <1>6

LEMMA PostTidy ==
  ASSUME Rec, NEW p \in Procs,
         \/ BookingRelease(p) \/ BookingSettlement(p) \/ BookingRemedy(p)
         \/ PostBooked(p) \/ PostUnknown(p) \/ PostDelayed(p) \/ PostConflicts(p)
         \/ FinalizeRelease(p) \/ FinalizeSettlement(p)
  PROVE  Tidy
<1>1. /\ job[p].pc \in Posting /\ UNCHANGED <<row, control, pay>>
  BY DEF BookingRelease, BookingSettlement, BookingRemedy, PostBooked, PostUnknown, PostDelayed,
         PostConflicts, FinalizeRelease, FinalizeSettlement, At, Posting, db
<1>2. RowStep /\ IntentKeeps BY <1>1, RowQuiet DEF IntentKeeps
<1>3. job[p] \in Job BY DEF Rec, Inv, JobsOK
<1>4. CASE Accepted(p) \/ Refused(p) BY <1>1, <1>2, <1>4, PostingTidy
<1>5. CASE Goto(p, "post") \/ Goto(p, "finalize")
  <2>1. "post" \in PC /\ "finalize" \in PC BY DEF PC
  <2>2. Only(p) /\ job'[p].pc \in Posting /\ job'[p].goal = job[p].goal
    BY <1>5, <2>1, GotoJob DEF Rec, Inv, Posting
  <2>. QED BY <1>1, <1>2, <2>2, PostingTidy
<1>6. CASE job' = [job EXCEPT ![p].bundle = ledger, ![p].pc = "finalize"]
  <2>1. job' = [job EXCEPT ![p] = [job[p] EXCEPT !.bundle = ledger, !.pc = "finalize"]]
    BY <1>6 DEF Rec, Inv, JobsOK
  <2>2. Only(p) /\ job'[p] = [job[p] EXCEPT !.bundle = ledger, !.pc = "finalize"]
    BY <2>1, ExceptOnly DEF Rec
  <2>3. job'[p].pc = "finalize" /\ job'[p].goal = job[p].goal BY <1>3, <2>2 DEF Job
  <2>. QED BY <1>1, <1>2, <2>2, <2>3, PostingTidy DEF Posting
<1>. QED BY <1>4, <1>5, <1>6
     DEF BookingRelease, BookingSettlement, BookingRemedy, PostBooked, PostUnknown, PostDelayed,
         PostConflicts, FinalizeRelease, FinalizeSettlement

(* Whoever may stop may stop, or end the hold for good.                     *)
LEMMA ResignedTidy ==
  ASSUME Rec, NEW p \in Procs, p = Worker => Resigned, Only(p), job'[p].pc \in {"done", "booking"},
         job[p].pc \notin {"none", "due"}, UNCHANGED control, RowStep, IntentKeeps
  PROVE  Tidy
<1>1. ControlEnds BY DEF ControlEnds
<1>2. CASE p = Worker
  <2>1. WorkerInv'
    BY <1>1, <1>2, OwingEnds DEF WorkerInv, Rec, RecInv, RowStep, wpc, W, Gates, Fenced
  <2>. QED BY <1>1, <2>1, OnlyTidy
<1>3. CASE p # Worker BY <1>1, <1>3, StillWorker, OnlyTidy
<1>. QED BY <1>2, <1>3

LEMMA EndedRow ==
  ASSUME Rec, NEW state \in {"completed", "refused"},
         row' = row \/ row' = [Cleared(row) EXCEPT !.state = state]
  PROVE  RowStep
<1>1. CASE row' = row BY <1>1, RowQuiet
<1>2. CASE row' = [Cleared(row) EXCEPT !.state = state]
  <2>a. PICK s \in {"pending", "completed", "refused", "cancelled", "reconciliation_required"} :
          s = state
    OBVIOUS
  <2>b. row \in Row /\ row' = [Cleared(row) EXCEPT !.state = s]
    BY <1>2, <2>a DEF Rec, Inv, DataOK
  <2>1. row'.state = state /\ row'.owner = "none" BY <2>a, <2>b, ClearedRow
  <2>. QED BY <2>1 DEF RowStep, RowEnds, RowPasses, Open
<1>. QED BY <1>1, <1>2

LEMMA FinishTidy == ASSUME Rec, NEW p \in Procs, FinishUnused(p) \/ FinishRemedy(p) PROVE Tidy
<1>1. /\ job[p].pc = "finalize" /\ job[p].goal \in {"unused", "remedy"} /\ Finish(p)
      /\ UNCHANGED control
      /\ row' = row \/ row' = [Cleared(row) EXCEPT !.state = "refused"]
  BY DEF FinishUnused, FinishRemedy, At
<1>2. IntentKeeps
  BY DEF FinishUnused, FinishRemedy, IntentKeeps, Rec, Inv, DataOK, Pay
<1>3. RowStep BY <1>1, EndedRow
<1>4. Only(p) /\ job'[p].pc = "done" BY <1>1, FinishPc DEF Rec
<1>5. p = Worker => Resigned BY <1>1 DEF Resigned, wpc, W, Posting
<1>. QED BY <1>1, <1>2, <1>3, <1>4, <1>5, ResignedTidy

LEMMA ClaimTidy == ASSUME Rec, NEW p \in Procs, ClaimRemedy(p) PROVE Tidy
<1>1. job[p].pc = "claim" /\ UNCHANGED <<control, pay>> BY DEF ClaimRemedy, At
<1>2. p = Worker => Resigned BY <1>1 DEF Resigned, wpc, W
<1>3. IntentKeeps BY <1>1 DEF IntentKeeps
<1>4. CASE UNCHANGED row /\ Finish(p)
  BY <1>1, <1>2, <1>3, <1>4, FinishPc, RowQuiet, ResignedTidy DEF Rec
<1>5. CASE /\ row' = [row EXCEPT !.owner = RemedyOwner(job[p].bundle), !.live = TRUE,
                                 !.manual = TRUE]
           /\ Book(p, job[p].bundle, "remedy")
  <2>1. row'.manual /\ row'.state = row.state BY <1>5 DEF Rec, Inv, DataOK, Row
  <2>2. RowStep BY <2>1 DEF RowStep, RowEnds, RowPasses, Open
  <2>3. Only(p) /\ job'[p].pc = "booking"
    BY <1>5, BookPc DEF Rec
  <2>. QED BY <1>1, <1>2, <1>3, <2>2, <2>3, ResignedTidy
<1>. QED BY <1>4, <1>5 DEF ClaimRemedy

LEMMA EndHoldTidy == ASSUME Rec, NEW p \in Procs, EndHold(p) PROVE Tidy
BY PostTidy, FinishTidy, ClaimTidy DEF EndHold

-----------------------------------------------------------------------------
(* Cancellation and the sweep.                                              *)

LEMMA StateRow ==
  ASSUME Rec, NEW s \in {"completed", "refused", "cancelled", "reconciliation_required"},
         NEW r \in BOOLEAN,
         \/ row' = row
         \/ Open /\ row' \in {[row EXCEPT !.state = s], [row EXCEPT !.state = s, !.receipt = r]}
  PROVE  RowStep
<1>1. CASE row' = row BY <1>1, RowQuiet
<1>2. CASE Open /\ row' \in {[row EXCEPT !.state = s], [row EXCEPT !.state = s, !.receipt = r]}
  <2>1. row'.state = s /\ row'.owner = row.owner /\ row'.step = row.step
        /\ row'.manual = row.manual
    BY <1>2 DEF Rec, Inv, DataOK, Row
  <2>. QED BY <1>2, <2>1 DEF RowStep, RowEnds, RowSame, Open
<1>. QED BY <1>1, <1>2

LEMMA CancelTidy == ASSUME Rec, CancelRequest \/ CancelJob PROVE Tidy
<1>a. Canceller \in Procs /\ Canceller # Worker BY ProcTypes, ProcsDiffer
<1>1. CASE CancelRequest
  <2>1. /\ job[Canceller].pc \in {"idle", "done"} /\ UNCHANGED <<control, pay>>
        /\ Only(Canceller)
    BY <1>1, <1>a, ExceptOnly DEF CancelRequest, Idle, Rec
  <2>2. Open BY <1>1 DEF CancelRequest, Open
  <2>3. \/ row' = row \/ row' = [row EXCEPT !.state = "cancelled"]
        \/ row' = [row EXCEPT !.state = "reconciliation_required", !.receipt = FALSE]
    BY <1>1 DEF CancelRequest, WithoutReceipt
  <2>4. RowStep BY <2>2, <2>3, StateRow
  <2>. QED BY <1>a, <2>1, <2>4, OtherTidy
<1>2. CASE CancelLoad
  <2>1. job' = [job EXCEPT ![Canceller] =
                  [job[Canceller] EXCEPT !.pc = "cancel", !.seen = control,
                                         !.reserved = (fin = "reserved")]]
    BY <1>2 DEF CancelLoad, Rec, Inv, JobsOK
  <2>2. job[Canceller].pc = "load" /\ UNCHANGED db /\ Only(Canceller)
    BY <1>2, <1>a, <2>1, ExceptOnly DEF CancelLoad, At, Rec
  <2>. QED BY <1>a, <2>2, OtherQuiet
<1>3. CASE CancelControl
  <2>1. job[Canceller].pc = "cancel" /\ UNCHANGED <<row, pay>> BY <1>3 DEF CancelControl, At
  <2>2. Only(Canceller)
    <3>1. CASE job' = [job EXCEPT ![Canceller].pc = "refuse", ![Canceller].seen = control]
      <4>1. job' = [job EXCEPT ![Canceller] =
                      [job[Canceller] EXCEPT !.pc = "refuse", !.seen = control]]
        BY <3>1 DEF Rec, Inv, JobsOK
      <4>. QED BY <1>a, <4>1, ExceptOnly DEF Rec
    <3>2. CASE Book(Canceller, Release, "cancel") BY <1>a, <3>2, BookPc DEF Rec
    <3>3. CASE Goto(Canceller, "required") BY <1>a, <3>3, GotoPc DEF Rec
    <3>. QED BY <1>3, <3>1, <3>2, <3>3 DEF CancelControl
  <2>3. control' = control \/ (control # "cancelled" /\ control' = Cancelled(control))
    BY <1>3 DEF CancelControl
  <2>4. ControlEnds /\ (control = "leased" => control' \in {"leased", "cancelled"})
    BY <2>3 DEF ControlEnds, Cancelled
  <2>5. WorkerStill BY <1>a, <2>2, <2>4, ProcTypes DEF WorkerStill, Only, W
  <2>6. RowStep /\ IntentKeeps BY <2>1, RowQuiet DEF IntentKeeps
  <2>. QED BY <1>a, <2>1, <2>2, <2>4, <2>5, <2>6, OnlyTidy
<1>4. CASE CancelRefused \/ CancelDone \/ CancelRequired
  <2>1. /\ job[Canceller].pc \in {"refuse", "cancelled", "required"}
        /\ UNCHANGED <<control, pay>> /\ Finish(Canceller)
    BY <1>4 DEF CancelRefused, CancelDone, CancelRequired, At
  <2>2. Only(Canceller) BY <1>a, <2>1, FinishPc DEF Rec
  <2>3. \/ row' = row
        \/ Open /\ \/ row' = [row EXCEPT !.state = "cancelled"]
                   \/ row' = [row EXCEPT !.state = "reconciliation_required"]
                   \/ row' = [row EXCEPT !.state = "reconciliation_required", !.receipt = FALSE]
    BY <1>4 DEF CancelRefused, CancelDone, CancelRequired, Open, WithoutReceipt
  <2>4. RowStep BY <2>3, StateRow
  <2>. QED BY <1>a, <2>1, <2>2, <2>4, OtherTidy
<1>. QED BY <1>1, <1>2, <1>3, <1>4 DEF CancelJob

LEMMA SweepTidy == ASSUME Rec, SweepObserve \/ SweepQueue PROVE Tidy
<1>a. Sweep \in Procs /\ Sweep # Worker BY ProcTypes, ProcsDiffer
<1>1. CASE SweepObserve
  <2>1. /\ job[Sweep].pc \in {"idle", "done"} /\ UNCHANGED <<row, pay>> /\ pay.intent
        /\ control' = control \/ (control \in {"leased", "fenced"} /\ control' = "uncertain")
    BY <1>1 DEF SweepObserve, Idle
  <2>2. control # "leased" BY <2>1 DEF Rec, RecInv, LeasedInv
  <2>3. job' = [job EXCEPT ![Sweep] =
                  [job[Sweep] EXCEPT !.pc = "queue", !.seen = control',
                                     !.marked = (control' \in {"contested", "uncertain"})]]
    BY <1>1 DEF SweepObserve, Rec, Inv, JobsOK
  <2>4. Only(Sweep) BY <1>a, <2>3, ExceptOnly DEF Rec
  <2>5. ControlEnds BY <2>1, <2>2 DEF ControlEnds
  <2>6. WorkerStill BY <1>a, <2>2, <2>4, ProcTypes DEF WorkerStill, Only, W
  <2>7. RowStep /\ IntentKeeps BY <2>1, RowQuiet DEF IntentKeeps
  <2>. QED BY <1>a, <2>1, <2>4, <2>5, <2>6, <2>7, OnlyTidy
<1>2. CASE SweepQueue
  <2>1. job[Sweep].pc = "queue" /\ UNCHANGED control /\ Finish(Sweep)
    BY <1>2 DEF SweepQueue, At
  <2>2. Only(Sweep) BY <1>a, <2>1, FinishPc DEF Rec
  <2>3. CASE UNCHANGED <<pay, row>> BY <1>a, <2>1, <2>2, <2>3, RowQuiet, OtherTidy
  <2>4. CASE /\ row.state = "pending" /\ pay' = [pay EXCEPT !.state = "reconciliation_required"]
             /\ row' = [Cleared(WithoutReceipt) EXCEPT !.manual = ~job[Sweep].marked]
    <3>1. row'.state = "reconciliation_required" /\ row'.owner = "none"
      BY <2>4, PaidCallAssumption DEF Cleared, WithoutReceipt, Rec, Inv, DataOK, Row
    <3>2. RowEnds BY <2>4, <3>1 DEF RowEnds, Open
    <3>3. UNCHANGED pay.intent BY <2>4 DEF Rec, Inv, DataOK, Pay
    <3>4. /\ \A k \in Steps : job'[Expiry(k)] = job[Expiry(k)]
          /\ \A k \in Steps : job[Response(k)].pc = "none" => job'[Response(k)].pc = "none"
      BY <2>1, <2>2, ProcTypes, ProcNames DEF Only
    <3>5. ~Begun BY <2>4 DEF Rec, RecInv, ChainInv
    <3>6. ~Begun' /\ ExpiryKeeps BY <3>4, <3>5 DEF Begun, ExpiryKeeps, ExpiryArmed
    <3>7. RowKeeps BY <3>1, <3>6 DEF RowKeeps
    <3>8. LeaseKeeps BY <3>3, <3>4 DEF LeaseKeeps
    <3>9. ControlEnds /\ WorkerStill BY <1>a, <2>1, <2>2, StillWorker DEF ControlEnds
    <3>. QED BY <3>2, <3>6, <3>7, <3>8, <3>9 DEF Tidy
  <2>. QED BY <1>2, <2>3, <2>4 DEF SweepQueue
<1>. QED BY <1>1, <1>2

-----------------------------------------------------------------------------
(* Recovery of a retained response.                                         *)

(* A due response or a response at work was armed behind the fence.         *)
LEMMA ResponseFenced ==
  ASSUME Rec, NEW k \in Steps, job[Response(k)].pc # "none" PROVE control # "leased"
BY DEF Rec, RecInv, LeasedInv

LEMMA BeginTidy == ASSUME Rec, NEW k \in Steps, BeginResponse(k) PROVE Tidy
<1>a. Response(k) \in Procs /\ Response(k) # Worker BY ProcTypes, ProcsDiffer
<1>1. /\ job[Response(k)].pc = "due" /\ UNCHANGED <<control, pay>> /\ control # "leased"
  BY ResponseFenced DEF BeginResponse, At
<1>2. ControlEnds /\ LeaseKeeps BY <1>1 DEF ControlEnds, LeaseKeeps
<1>3. CASE ~MayBegin(k)
  <2>1. UNCHANGED row /\ Finish(Response(k)) BY <1>3 DEF BeginResponse
  <2>2. Only(Response(k)) BY <1>a, <2>1, FinishPc DEF Rec
  <2>3. RowEnds /\ RowSame BY <2>1 DEF RowEnds, RowSame, Open
  <2>4. ASSUME Open', ~row'.manual, row.owner \in {"response", "http_error"}, ResponseDue
        PROVE  job'[Response(row.step)].pc = "due"
    <3>1. Open /\ row.step # k
      BY <1>3, <2>1, <2>4 DEF MayBegin, Open, ResponseDue, Steps
    <3>2. Response(row.step) \in Procs /\ Response(row.step) # Response(k)
      BY <2>4, <3>1, ProcTypes DEF ResponseDue, Response
    <3>. QED BY <2>2, <2>4, <3>2 DEF Only, ResponseDue
  <2>5. RowKeeps BY <2>3, <2>4 DEF RowKeeps
  <2>6. \A l \in Steps : job'[Expiry(l)] = job[Expiry(l)]
    BY <2>2, ProcTypes, ProcsDiffer DEF Only
  <2>7. ExpiryKeeps BY <2>6 DEF ExpiryKeeps, ExpiryArmed, Begun
  <2>8. WorkerStill BY <1>a, <1>1, <2>2, StillWorker
  <2>. QED BY <1>2, <2>3, <2>5, <2>7, <2>8 DEF Tidy
<1>4. CASE MayBegin(k)
  <2>1. row' = [row EXCEPT !.owner = IF @ = "http_error" THEN @ ELSE "response",
                           !.live = TRUE, !.step = k + 1, !.manual = (k = LastStep)]
    BY <1>4 DEF BeginResponse
  <2>2. /\ row'.state = row.state /\ row'.owner \in {"response", "http_error"}
        /\ row'.step = k + 1 /\ row'.manual = (k = LastStep)
    BY <2>1 DEF Rec, Inv, DataOK, Row
  <2>3. RowEnds BY <2>2 DEF RowEnds, Open
  <2>4. CASE k = LastStep
    <3>1. Finish(Response(k)) BY <1>4, <2>4 DEF BeginResponse, Finish
    <3>2. Only(Response(k)) BY <1>a, <3>1, FinishPc DEF Rec
    <3>3. \A l \in Steps : job'[Expiry(l)] = job[Expiry(l)]
      BY <3>2, ProcTypes, ProcsDiffer DEF Only
    <3>4. ExpiryKeeps BY <3>3 DEF ExpiryKeeps, ExpiryArmed, Begun
    <3>5. RowKeeps BY <2>2, <2>4 DEF RowKeeps, RowPasses
    <3>6. WorkerStill BY <1>a, <1>1, <3>2, StillWorker
    <3>. QED BY <1>2, <2>3, <3>4, <3>5, <3>6 DEF Tidy
  <2>5. CASE k # LastStep
    <3>1. job' = [job EXCEPT ![Response(k)].pc = "recover", ![Response(k + 1)] = NewJob("due")]
      BY <1>4, <2>5 DEF BeginResponse
    <3>2. /\ k + 1 \in Steps /\ Response(k + 1) \in Procs /\ Response(k) # Response(k + 1)
          /\ Response(k + 1) # Worker
      BY <2>5, StepSucc, StepsNat, ProcTypes, ProcsDiffer
    <3>3. /\ \A p \in Procs \ {Response(k), Response(k + 1)} : job'[p] = job[p]
          /\ job'[Response(k + 1)] = NewJob("due")
      BY <1>a, <3>1, <3>2 DEF Rec, Inv, JobsOK
    <3>4. ResponseDue' BY <2>2, <3>2, <3>3, PCs, NewJobType DEF ResponseDue
    <3>5. RowKeeps BY <2>2, <3>4 DEF RowKeeps
    <3>6. \A l \in Steps : job'[Expiry(l)] = job[Expiry(l)]
      BY <3>3, ProcTypes, ProcsDiffer
    <3>7. ExpiryKeeps BY <3>6 DEF ExpiryKeeps, ExpiryArmed, Begun
    <3>8. job'[Worker] = job[Worker] BY <1>a, <3>2, <3>3, ProcTypes
    <3>9. WorkerStill BY <1>1, <3>8 DEF WorkerStill, W
    <3>. QED BY <1>2, <2>3, <3>5, <3>7, <3>9 DEF Tidy
  <2>. QED BY <2>4, <2>5
<1>. QED BY <1>3, <1>4

(* A response at work changes the row and the control.                      *)
LEMMA ResponseTidy ==
  ASSUME Rec, NEW k \in Steps, Only(Response(k)), job[Response(k)].pc \notin {"none", "due"},
         control' = control \/ (control # "cancelled" /\ control' # "leased"), RowStep
  PROVE  Tidy
<1>a. Response(k) \in Procs /\ Response(k) # Worker BY ProcTypes, ProcsDiffer
<1>1. control # "leased" BY ResponseFenced
<1>2. ControlEnds /\ IntentKeeps BY <1>1 DEF ControlEnds, IntentKeeps
<1>3. WorkerStill BY <1>a, <1>1, ProcTypes DEF WorkerStill, Only, W
<1>. QED BY <1>a, <1>2, <1>3, OnlyTidy

LEMMA ResponseWorks ==
  ASSUME Rec, NEW k \in Steps, ResponseJob(k), ~BeginResponse(k)
  PROVE  Only(Response(k)) /\ job[Response(k)].pc \notin {"none", "due"}
<1>a. Response(k) \in Procs BY ProcTypes
<1>1. job[Response(k)].pc \notin {"none", "due"}
  BY DEF ResponseJob, RecoverResponse, RetainedLeased, RetainedStops, RetainedRecovers, VerifyPaid,
         VerifyConflicts, VerifyFails, Reconcile, ResponseRequired, Accept, At
<1>2. CASE RetainedRecovers(k)
  <2>1. \E j : job' = [job EXCEPT ![Response(k)] = j]
    <3>1. \/ job' = [job EXCEPT ![Response(k)] =
                       [job[Response(k)] EXCEPT !.pc = "claim", !.bundle = ErrorRemedy]]
          \/ job' = [job EXCEPT ![Response(k)] =
                       [job[Response(k)] EXCEPT !.pc = "verify", !.goal = "repair"]]
      BY <1>a, <1>2 DEF RetainedRecovers, Rec, Inv, JobsOK
    <3>. QED BY <3>1
  <2>. QED BY <1>a, <1>1, <2>1, ExceptOnly DEF Rec
<1>3. CASE VerifyPaid(k)
  BY <1>a, <1>1, <1>3, BookPc DEF VerifyPaid, Rec
<1>4. CASE ~RetainedRecovers(k) /\ ~VerifyPaid(k)
  <2>1. Finish(Response(k)) \/ \E pc : Goto(Response(k), pc)
    BY <1>4 DEF ResponseJob, RecoverResponse, RetainedLeased, RetainedStops,
       VerifyConflicts, VerifyFails, Reconcile, ResponseRequired, Accept
  <2>. QED BY <1>a, <1>1, <2>1, FinishPc, GotoPc DEF Rec
<1>. QED BY <1>2, <1>3, <1>4

LEMMA ResponseJobTidy == ASSUME Rec, NEW k \in Steps, ResponseJob(k) PROVE Tidy
<1>1. CASE BeginResponse(k) BY <1>1, BeginTidy
<1>2. CASE ~BeginResponse(k)
  <2>1. Only(Response(k)) /\ job[Response(k)].pc \notin {"none", "due"}
    BY <1>2, ResponseWorks
  <2>2. control # "leased" BY <2>1, ResponseFenced
  <2>3. control' = control \/ (control # "cancelled" /\ control' # "leased")
    BY <1>2, <2>2
       DEF ResponseJob, RecoverResponse, RetainedLeased, RetainedStops, RetainedRecovers,
           VerifyPaid, VerifyConflicts, VerifyFails, Reconcile, ResponseRequired, Accept, db
  <2>4. RowStep
    <3>1. CASE ResponseRequired(k)
      <4>1. PICK r \in BOOLEAN : r = (job[Response(k)].goal = "repair") OBVIOUS
      <4>2. row' = row \/ (Open /\ row' = [WithoutReceipt EXCEPT !.receipt = r])
        BY <3>1, <4>1 DEF ResponseRequired
      <4>3. [WithoutReceipt EXCEPT !.receipt = r]
              = [row EXCEPT !.state = "reconciliation_required", !.receipt = r]
        BY DEF WithoutReceipt, Rec, Inv, DataOK, Row
      <4>. QED BY <4>2, <4>3, StateRow
    <3>2. ASSUME NEW state \in {"completed", "refused"}, Accept(k, state) PROVE RowStep
      <4>1. CASE row' = row \/ row' = [Cleared(row) EXCEPT !.state = state] BY <4>1, EndedRow
      <4>2. CASE row.state = "pending" /\ row' = [row EXCEPT !.state = state]
        <5>1. Open BY <4>2 DEF Open
        <5>. QED BY <4>2, <5>1, StateRow
      <4>. QED BY <3>2, <4>1, <4>2 DEF Accept
    <3>3. CASE UNCHANGED row BY <3>3, RowQuiet
    <3>. QED BY <1>2, <3>1, <3>2, <3>3
         DEF ResponseJob, RecoverResponse, RetainedLeased, RetainedStops, RetainedRecovers,
             VerifyPaid, VerifyConflicts, VerifyFails, Reconcile, db
  <2>. QED BY <2>1, <2>3, <2>4, ResponseTidy
<1>. QED BY <1>1, <1>2

-----------------------------------------------------------------------------
(* Recovery of an authorization that expired unused.                        *)

LEMMA ArmTidy == ASSUME Rec, NEW k \in Steps, ArmSuccessor(k) PROVE Tidy
<1>a. Expiry(k) \in Procs /\ Expiry(k) # Worker /\ k \in Nat /\ LastStep \in Nat /\ k <= LastStep
  BY ProcTypes, ProcsDiffer, StepsNat DEF Steps, LastStep
<1>1. /\ job[Expiry(k)].pc = "due" /\ UNCHANGED <<control, pay>>
      /\ row' = [row EXCEPT !.manual =
                   @ \/ (row.state = "reconciliation_required" /\ k = LastStep)]
  BY DEF ArmSuccessor, At, Exhausted
<1>2. /\ row'.state = row.state /\ row'.owner = row.owner /\ row'.step = row.step
      /\ row.manual => row'.manual
      /\ row.state = "reconciliation_required" /\ k = LastStep => row'.manual
  BY <1>1 DEF Rec, Inv, DataOK, Row
<1>3. RowEnds /\ RowSame BY <1>2 DEF RowEnds, RowSame, Open
<1>4. ControlEnds BY <1>1 DEF ControlEnds
<1>5. Begun BY <1>1 DEF Begun
<1>6. CASE Finish(Expiry(k)) /\ (row.state # "reconciliation_required" \/ k = LastStep)
  <2>1. Only(Expiry(k)) BY <1>a, <1>6, FinishPc DEF Rec
  <2>2. \A l \in Steps : job'[Response(l)] = job[Response(l)]
    BY <2>1, ProcTypes, ProcsDiffer DEF Only
  <2>3. LeaseKeeps BY <1>1, <2>2 DEF LeaseKeeps
  <2>4. RowKeeps BY <1>3, <2>2 DEF RowKeeps, ResponseDue
  <2>5. ExpiryKeeps BY <1>2, <1>5, <1>6 DEF ExpiryKeeps
  <2>6. WorkerStill BY <1>a, <1>1, <2>1, StillWorker
  <2>. QED BY <1>3, <1>4, <2>3, <2>4, <2>5, <2>6 DEF Tidy
<1>7. CASE /\ k # LastStep
           /\ job' = [job EXCEPT ![Expiry(k)].pc = "proof", ![Expiry(k + 1)] = NewJob("due")]
  <2>1. /\ k + 1 \in Steps /\ Expiry(k + 1) \in Procs /\ Expiry(k) # Expiry(k + 1)
        /\ Expiry(k + 1) # Worker
    BY <1>7, StepSucc, StepsNat, ProcTypes, ProcsDiffer
  <2>2. /\ \A p \in Procs \ {Expiry(k), Expiry(k + 1)} : job'[p] = job[p]
        /\ job'[Expiry(k + 1)] = NewJob("due")
    BY <1>a, <1>7, <2>1 DEF Rec, Inv, JobsOK
  <2>3. \A l \in Steps : job'[Response(l)] = job[Response(l)]
    BY <2>2, ProcTypes, ProcsDiffer
  <2>4. LeaseKeeps BY <1>1, <2>3 DEF LeaseKeeps
  <2>5. RowKeeps BY <1>3, <2>3 DEF RowKeeps, ResponseDue
  <2>6. ExpiryArmed' BY <2>1, <2>2, PCs, NewJobType DEF ExpiryArmed
  <2>7. ExpiryKeeps BY <1>5, <2>6 DEF ExpiryKeeps
  <2>8. job'[Worker] = job[Worker] BY <1>a, <2>1, <2>2, ProcTypes
  <2>9. WorkerStill BY <1>1, <2>8 DEF WorkerStill, W
  <2>. QED BY <1>3, <1>4, <2>4, <2>5, <2>7, <2>9 DEF Tidy
<1>. QED BY <1>a, <1>6, <1>7 DEF ArmSuccessor, Finish

LEMMA ExpiryJobTidy == ASSUME Rec, NEW k \in Steps, ExpiryJob(k) PROVE Tidy
<1>a. Expiry(k) \in Procs /\ Expiry(k) # Worker BY ProcTypes, ProcsDiffer
<1>1. CASE ArmSuccessor(k) BY <1>1, ArmTidy
<1>2. CASE ProveUnused(k)
  <2>1. /\ job[Expiry(k)].pc = "proof" /\ UNCHANGED db
        /\ Finish(Expiry(k)) \/ Goto(Expiry(k), "claim")
    BY <1>2 DEF ProveUnused, At
  <2>2. Only(Expiry(k)) BY <1>a, <2>1, FinishPc, GotoPc DEF Rec
  <2>. QED BY <1>a, <2>1, <2>2, OtherQuiet
<1>3. CASE ClaimUnused(k)
  <2>1. job[Expiry(k)].pc = "claim" /\ UNCHANGED control BY <1>3 DEF ClaimUnused, At
  <2>2. CASE UNCHANGED <<pay, row>> /\ Finish(Expiry(k))
    <3>1. Only(Expiry(k)) BY <1>a, <2>2, FinishPc DEF Rec
    <3>. QED BY <1>a, <2>1, <2>2, <3>1, RowQuiet, OtherTidy
  <2>3. CASE MayClaimUnused
    <3>1. job' = [job EXCEPT ![Expiry(k)] = [job[Expiry(k)] EXCEPT
                    !.pc = "post", !.bundle = Pinned(k), !.goal = "unused"]]
      BY <1>a, <1>3, <2>3 DEF ClaimUnused, Rec, Inv, JobsOK
    <3>2. Only(Expiry(k)) BY <1>a, <3>1, ExceptOnly DEF Rec
    <3>3. pay'.intent = pay.intent
      BY <1>3, <2>3 DEF ClaimUnused, Rec, Inv, DataOK, Pay
    <3>4. CASE UNCHANGED row BY <1>a, <2>1, <3>2, <3>3, <3>4, RowQuiet, OtherTidy
    <3>5. CASE row' = [row EXCEPT !.owner = "expired_unused", !.live = TRUE, !.manual = FALSE]
      <4>1. row'.state = row.state /\ row'.owner = "expired_unused"
        BY <3>5 DEF Rec, Inv, DataOK, Row
      <4>2. RowStep BY <4>1 DEF RowStep, RowEnds, RowPasses, Open
      <4>. QED BY <1>a, <2>1, <3>2, <3>3, <4>2, OtherTidy
    <3>. QED BY <1>3, <2>3, <3>4, <3>5 DEF ClaimUnused
  <2>. QED BY <1>3, <2>2, <2>3 DEF ClaimUnused
<1>. QED BY <1>1, <1>2, <1>3 DEF ExpiryJob

-----------------------------------------------------------------------------
(* The operator, deaths, and the world.                                     *)

LEMMA OthersTidy ==
  ASSUME Rec, \/ \E b \in {ErrorRemedy, LossRemedy} : OperatorRemedies(b)
              \/ \E p \in Procs : JobDies(p)
  PROVE  Tidy
<1>1. ASSUME NEW b \in {ErrorRemedy, LossRemedy}, OperatorRemedies(b) PROVE Tidy
  <2>1. /\ job[Operator].pc \in {"idle", "done"} /\ UNCHANGED db
        /\ job' = [job EXCEPT ![Operator] = [NewJob("claim") EXCEPT !.bundle = b]]
    BY <1>1 DEF OperatorRemedies, Idle
  <2>2. Operator \in Procs /\ Operator # Worker BY ProcTypes, ProcsDiffer
  <2>3. Only(Operator) BY <2>1, <2>2, ExceptOnly DEF Rec
  <2>. QED BY <2>1, <2>2, <2>3, OtherQuiet
<1>2. ASSUME NEW p \in Procs, JobDies(p) PROVE Tidy
  <2>1. /\ p # Worker /\ job[p].pc \notin {"none", "due"} /\ UNCHANGED db /\ Finish(p)
    BY <1>2 DEF JobDies
  <2>2. Only(p) BY <2>1, FinishPc DEF Rec
  <2>. QED BY <2>1, <2>2, OtherQuiet
<1>. QED BY <1>1, <1>2

LEMMA OutsideTidy ==
  ASSUME Rec, World \/ (\E b \in Bundles : LateWrite(b)) \/ UNCHANGED vars PROVE Tidy
<1>1. CASE ResponseLeaseLapses
  <2>1. UNCHANGED <<job, control, pay>> /\ row' = [row EXCEPT !.live = FALSE]
    BY <1>1 DEF ResponseLeaseLapses
  <2>2. RowEnds /\ RowSame
    BY <2>1 DEF RowEnds, RowSame, Open, Rec, Inv, DataOK, Row
  <2>. QED BY <2>1, <2>2, WorldTidy
<1>2. CASE UNCHANGED <<job, control, pay, row>>
  <2>1. RowEnds /\ RowSame BY <1>2 DEF RowEnds, RowSame, Open
  <2>. QED BY <1>2, <2>1, WorldTidy
<1>. QED BY <1>1, <1>2
     DEF World, LeaseLapses, AuthorizationExpires, ProviderPays, LateWrite, db, vars

LEMMA NextTidy == ASSUME Rec, [Next]_vars PROVE Tidy
<1>1. CASE Recoveries
  BY <1>1, CancelTidy, SweepTidy, ResponseJobTidy, ExpiryJobTidy, OthersTidy DEF Recoveries
<1>. QED BY <1>1, WorkerTidy, EndHoldTidy, OthersTidy, OutsideTidy DEF Next

LEMMA InitRec == ASSUME Init PROVE RecInv
<1>1. \A p \in Procs : job[p] = NewJob(IF p = Worker THEN "checks"
                         ELSE IF p \in {Canceller, Sweep, Operator} THEN "idle" ELSE "none")
  BY DEF Init
<1>2. wpc = "checks" BY <1>1, ProcTypes, PCs, NewJobType DEF wpc, W
<1>3. \A k \in Steps : job[Response(k)].pc = "none" /\ job[Expiry(k)].pc = "none"
  <2>. SUFFICES ASSUME NEW k \in Steps
                PROVE  job[Response(k)].pc = "none" /\ job[Expiry(k)].pc = "none"
    OBVIOUS
  <2>1. {Response(k), Expiry(k)} \cap {Worker, Canceller, Sweep, Operator} = {}
    BY DEF Response, Expiry, Worker, Canceller, Sweep, Operator
  <2>2. job[Response(k)] = NewJob("none") /\ job[Expiry(k)] = NewJob("none")
    BY <1>1, <2>1, ProcTypes
  <2>. QED BY <2>2, PCs, NewJobType
<1>4. WorkerInv BY <1>2 DEF Init, WorkerInv, Gates, Fenced, Posting, Resigned
<1>5. LeasedInv BY <1>3 DEF Init, LeasedInv
<1>6. ChainInv BY <1>3 DEF Init, ChainInv, Begun
<1>. QED BY <1>4, <1>5, <1>6 DEF RecInv

-----------------------------------------------------------------------------
(* The theorems.                                                            *)

(* The invariant behind them: before the fence nothing is signed and no     *)
(* response is recovered, a worker on its way out has decided its Call, and *)
(* a chain that holds a Call in reconciliation has its next step due.       *)
THEOREM RecoveryInvariant == Spec => []Rec
<1>1. Init => Rec BY InitInv, InitRec DEF Rec
<1>2. Rec /\ [Next]_vars => Rec'
  BY NextTidy, RecFrame, NextGood, StutterGood, GoodKeeps DEF Rec
<1>. QED BY <1>1, <1>2, PTL DEF Spec

(* The safety half of PendingEnds: whatever dies and whatever cancels, a    *)
(* worker that is done leaves its Call decided, or cancelled under it.      *)
THEOREM WorkerDecides == Spec => []WorkerOwes
<1>1. Rec => WorkerOwes BY DEF Rec, RecInv, WorkerInv, Resigned, Owing, WorkerOwes
<1>. QED BY <1>1, RecoveryInvariant, PTL

(* The safety half of RecoveryNeverForgotten: no step, death or lapse lets  *)
(* go of a Call in reconciliation whose expiry chain was armed.             *)
THEOREM RecoveryIsWatched == Spec => []RecoveryWatched
<1>1. Rec => RecoveryWatched
  BY DEF Rec, Inv, DataOK, Row, RecInv, ChainInv, RecoveryWatched, Open
<1>. QED BY <1>1, RecoveryInvariant, PTL
=============================================================================
