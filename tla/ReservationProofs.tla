------------------------- MODULE ReservationProofs -------------------------
(***************************************************************************)
(* What Reservation guarantees for any number of Calls, requests, jobs,    *)
(* attempts and crashes: types, the inductive invariant of the attempts    *)
(* and what follows from it.                                               *)
(***************************************************************************)
EXTENDS Reservation, TLAPS

-----------------------------------------------------------------------------
(* Types.  A request or job in flight works on a Call, and a schedule that  *)
(* is still automatic has attempts left: TypeOK alone is not inductive.     *)

GoodRow == {x \in Row : ~x.rec.manual => x.rec.tries < MaxAttempts}
GoodRequest == {q \in Request : q.pc # "idle" => q.call \in Calls}
GoodJob == {b \in Job : b.pc # "idle" => b.call \in Calls}
GoodQuote == [state : {"issued", "consumed"}, live : BOOLEAN]

RowOK == row \in [Calls -> GoodRow]
RequestOK == req \in [Requests -> GoodRequest]
JobOK == job \in [Jobs -> GoodJob]
QuoteOK == quote \in [Calls -> GoodQuote]
LedgerOK == ledger \in [Calls -> SUBSET Bundles]
WireOK == wire \subseteq Calls \X Bundles
RestOK ==
  /\ grant \subseteq Credits
  /\ claimed \in [Calls -> BOOLEAN]
  /\ crashes \in 0..MaxCrashes

TypeInv == RowOK /\ RequestOK /\ JobOK /\ QuoteOK /\ LedgerOK /\ WireOK /\ RestOK

LEMMA TypeInvImpliesTypeOK == TypeInv => TypeOK
BY DEF TypeInv, TypeOK, RowOK, RequestOK, JobOK, QuoteOK, LedgerOK, WireOK, RestOK,
       GoodRow, GoodRequest, GoodJob, GoodQuote

LEMMA NoScheduleType == NoSchedule \in Schedule /\ ~NoSchedule.manual /\ NoSchedule.tries = 0
BY ReservationAssumption DEF NoSchedule, Schedule

LEMMA AbsentRowType == AbsentRow \in GoodRow
BY NoScheduleType, ReservationAssumption DEF AbsentRow, GoodRow, Row

LEMMA IdleRequestType == IdleRequest \in GoodRequest
BY ReservationAssumption DEF IdleRequest, GoodRequest, Request, RequestPC

LEMMA IdleJobType == IdleJob \in GoodJob
BY DEF IdleJob, GoodJob, Job, JobPC

LEMMA InitType == Init => TypeInv
<1>. SUFFICES ASSUME Init PROVE TypeInv
  OBVIOUS
<1>1. RowOK BY AbsentRowType DEF Init, RowOK
<1>2. RequestOK BY IdleRequestType DEF Init, RequestOK
<1>3. JobOK BY IdleJobType DEF Init, JobOK
<1>4. QuoteOK BY DEF Init, QuoteOK, GoodQuote
<1>5. LedgerOK /\ WireOK BY DEF Init, LedgerOK, WireOK
<1>6. RestOK BY ReservationAssumption DEF Init, RestOK
<1>. QED BY <1>1, <1>2, <1>3, <1>4, <1>5, <1>6 DEF TypeInv

(* The helpers of the actions keep the types of what they assign. *)
LEMMA RowBecomesType ==
  ASSUME RowOK, NEW c \in Calls, NEW x \in GoodRow, RowBecomes(c, x)
  PROVE  RowOK'
BY DEF RowOK, RowBecomes

LEMMA GotoType ==
  ASSUME RequestOK, NEW r \in Requests, req[r].pc # "idle", NEW pc \in RequestPC, Goto(r, pc)
  PROVE  RequestOK'
<1>1. req[r] \in GoodRequest BY DEF RequestOK
<1>2. [req[r] EXCEPT !.pc = pc] \in GoodRequest BY <1>1 DEF GoodRequest, Request
<1>. QED BY <1>2 DEF Goto, RequestBecomes, RequestOK

LEMMA StopType ==
  ASSUME RequestOK, NEW r \in Requests, Stop(r)
  PROVE  RequestOK'
BY IdleRequestType DEF RequestOK, Stop, RequestBecomes

LEMMA AnswerType ==
  ASSUME RequestOK, NEW r \in Requests, req[r].pc # "idle",
         NEW result \in {"needs_authority", "pending", "reconciliation_required"},
         Answer(r, result)
  PROVE  RequestOK'
<1>1. req[r] \in GoodRequest BY DEF RequestOK
<1>2. [req[r] EXCEPT !.pc = "record", !.result = result] \in GoodRequest
  BY <1>1 DEF GoodRequest, Request, RequestPC
<1>. QED BY <1>2, StopType DEF Answer, RequestBecomes, RequestOK

LEMMA GotoJobType ==
  ASSUME JobOK, NEW j \in Jobs, job[j].pc # "idle", NEW pc \in JobPC, GotoJob(j, pc)
  PROVE  JobOK'
<1>1. job[j] \in GoodJob BY DEF JobOK
<1>2. [job[j] EXCEPT !.pc = pc] \in GoodJob BY <1>1 DEF GoodJob, Job
<1>. QED BY <1>2 DEF GotoJob, JobBecomes, JobOK

LEMMA StopJobType ==
  ASSUME JobOK, NEW j \in Jobs, StopJob(j)
  PROVE  JobOK'
BY IdleJobType DEF JobOK, StopJob, JobBecomes

LEMMA OutcomeType ==
  ASSUME JobOK, NEW j \in Jobs, job[j].pc # "idle",
         NEW outcome \in {"success", "terminal", "retry", "error"}, Outcome(j, outcome)
  PROVE  JobOK'
<1>1. job[j] \in GoodJob BY DEF JobOK
<1>2. [job[j] EXCEPT !.pc = "finish", !.outcome = outcome] \in GoodJob
  BY <1>1 DEF GoodJob, Job, JobPC
<1>. QED BY <1>2 DEF Outcome, JobBecomes, JobOK

LEMMA PostType ==
  ASSUME LedgerOK, NEW c \in Calls, NEW b \in Bundles, Post(c, b)
  PROVE  LedgerOK'
BY DEF LedgerOK, Post

LEMMA QuoteBecomesType ==
  ASSUME QuoteOK, NEW c \in Calls, NEW q \in GoodQuote, QuoteBecomes(c, q)
  PROVE  QuoteOK'
BY DEF QuoteOK, QuoteBecomes

LEMMA AbandonRowType ==
  ASSUME TypeInv, NEW c \in Calls, AbandonRow(c)
  PROVE  RowOK' /\ QuoteOK' /\ grant' \subseteq Credits
<1>1. RowOK' BY AbsentRowType, RowBecomesType DEF AbandonRow, TypeInv
<1>2. quote[c] \in GoodQuote BY DEF TypeInv, QuoteOK
<1>3. [quote[c] EXCEPT !.state = IF quote[c].live THEN "issued" ELSE @] \in GoodQuote
  BY <1>2 DEF GoodQuote
<1>4. QuoteOK' BY <1>3, QuoteBecomesType DEF AbandonRow, TypeInv
<1>5. row[c].credit \subseteq Credits BY DEF TypeInv, RowOK, GoodRow, Row
<1>. QED BY <1>1, <1>4, <1>5 DEF AbandonRow, TypeInv, RestOK

LEMMA AutomaticScheduleType ==
  ASSUME NEW reason \in {"refund_pending", "recovery_failed"}
  PROVE  /\ AutomaticSchedule(reason) \in Schedule
         /\ AutomaticSchedule(reason).tries < MaxAttempts
<1>1. AutomaticSchedule(reason) \in Schedule
  BY NoScheduleType DEF AutomaticSchedule, Schedule
<1>2. AutomaticSchedule(reason).tries = NoSchedule.tries
  BY NoScheduleType DEF AutomaticSchedule, Schedule
<1>. QED BY <1>1, <1>2, NoScheduleType, ReservationAssumption

LEMMA WithRefundType == ASSUME NEW x \in GoodRow PROVE WithRefund(x) \in GoodRow
BY AutomaticScheduleType DEF WithRefund, GoodRow, Row

LEMMA WithRecoveryType == ASSUME NEW x \in GoodRow PROVE WithRecovery(x) \in GoodRow
BY AutomaticScheduleType DEF WithRecovery, GoodRow, Row

LEMMA EnqueuedType == ASSUME NEW x \in GoodRow PROVE Enqueued(x) \in GoodRow
BY DEF Enqueued, GoodRow, Row

(* The request in flight, its Call and the Call's row have their types. *)
LEMMA InFlight ==
  ASSUME TypeInv, NEW r \in Requests, req[r].pc # "idle"
  PROVE  /\ req[r].call \in Calls /\ req[r] \in GoodRequest
         /\ row[req[r].call] \in GoodRow /\ quote[req[r].call] \in GoodQuote
BY DEF TypeInv, RequestOK, RowOK, QuoteOK, GoodRequest

LEMMA JobInFlight ==
  ASSUME TypeInv, NEW j \in Jobs, job[j].pc # "idle"
  PROVE  job[j].call \in Calls /\ job[j] \in GoodJob /\ row[job[j].call] \in GoodRow
BY DEF TypeInv, JobOK, RowOK, GoodJob

LEMMA RequestStepType ==
  ASSUME TypeInv, NEW r \in Requests, RequestStep(r)
  PROVE  TypeInv'
<1> DEFINE c == req[r].call
<1>a. req[r].pc # "idle"
  BY DEF RequestStep, AnswerStored, ReserveNew, ReserveReplayed, ReserveRefused, ReadBooking,
         BookingRefused, ClaimAttempt, ClaimBusy, WriteCompleted, WriteUnknown, WriteRejected,
         Attach, MarkUnknown, Abandon, Replay, Dispatch, NeedsAuthority, RefuseBeforeDispatch, Record
<1>b. /\ c \in Calls /\ req[r] \in GoodRequest /\ row[c] \in GoodRow
      /\ quote[c] \in GoodQuote
  BY <1>a, InFlight
<1>c. /\ RowOK /\ RequestOK /\ JobOK /\ QuoteOK /\ LedgerOK /\ WireOK /\ RestOK
      /\ grant \subseteq Credits
  BY DEF TypeInv, RestOK
<1>d. RequestPC = {"idle", "stored", "reserve", "booking", "claim", "write", "attach",
              "markUnknown", "abandon", "replay", "dispatch", "record"}
  BY DEF RequestPC
<1> HIDE DEF c
<1>1. CASE AnswerStored(r) \/ ReserveRefused(r) \/ BookingRefused(r) \/ ClaimBusy(r)
  BY <1>1, <1>c, StopType DEF AnswerStored, ReserveRefused, BookingRefused, ClaimBusy, TypeInv, RowOK, JobOK,
     QuoteOK, LedgerOK, WireOK, RestOK
<1>2. CASE ReserveNew(r)
  <2>1. PICK taken \in SUBSET grant :
          RowBecomes(c, [AbsentRow EXCEPT !.state = "pending", !.credit = taken])
          /\ grant' = grant \ taken
    BY <1>2 DEF ReserveNew, c
  <2>2. [AbsentRow EXCEPT !.state = "pending", !.credit = taken] \in GoodRow
    BY <1>c, AbsentRowType DEF GoodRow, Row
  <2>3. RowOK' BY <1>b, <1>c, <2>1, <2>2, RowBecomesType
  <2>4. [quote[c] EXCEPT !.state = "consumed"] \in GoodQuote BY <1>b DEF GoodQuote
  <2>5. QuoteOK' BY <1>2, <1>b, <1>c, <2>4, QuoteBecomesType DEF ReserveNew, c
  <2>6. [req[r] EXCEPT !.pc = "booking", !.initial = TRUE] \in GoodRequest
    BY <1>a, <1>b DEF GoodRequest, Request, RequestPC
  <2>7. RequestOK' BY <1>2, <1>c, <2>6 DEF ReserveNew, RequestBecomes, RequestOK
  <2>. QED BY <1>2, <1>c, <2>1, <2>3, <2>5, <2>7
           DEF ReserveNew, TypeInv, JobOK, LedgerOK, WireOK, RestOK
<1>3. CASE ReserveReplayed(r) \/ NeedsAuthority(r) \/ WriteRejected(r) \/ Replay(r)
  <2>1. RequestOK'
    BY <1>3, <1>a, <1>c, <1>d, GotoType, StopType, AnswerType
       DEF ReserveReplayed, NeedsAuthority, WriteRejected, Replay
  <2>. QED BY <2>1, <1>3, <1>c DEF ReserveReplayed, NeedsAuthority, WriteRejected, Replay,
           TypeInv, RowOK, JobOK, QuoteOK, LedgerOK, WireOK, RestOK
<1>4. CASE ReadBooking(r)
  <2>1. [req[r] EXCEPT !.pc = "replay", !.initial = FALSE] \in GoodRequest
    BY <1>a, <1>b DEF GoodRequest, Request, RequestPC
  <2>2. ASSUME Stop(r) PROVE RequestOK'
    BY <2>2, <1>c, StopType
  <2>3. ASSUME RequestBecomes(r, [req[r] EXCEPT !.pc = "replay", !.initial = FALSE])
        PROVE  RequestOK'
    BY <2>1, <2>3, <1>c DEF RequestBecomes, RequestOK
  <2>4. ASSUME NEW pc \in {"dispatch", "replay", "claim"}, Goto(r, pc) PROVE RequestOK'
    BY <2>4, <1>a, <1>c, <1>d, GotoType
  <2>5. RequestOK'
    BY <1>4, <2>2, <2>3, <2>4 DEF ReadBooking, c
  <2>. QED BY <2>5, <1>4, <1>c DEF ReadBooking, TypeInv, RowOK, JobOK, QuoteOK, LedgerOK,
           WireOK, RestOK
<1>5. CASE ClaimAttempt(r)
  <2>1. row[c].gen + 1 \in 0..MaxGeneration
    BY <1>5, <1>b, ReservationAssumption DEF ClaimAttempt, GoodRow, Row, c
  <2>2. Ambiguous(c, req[r].initial) \in BOOLEAN BY DEF Ambiguous
  <2>3. [row[c] EXCEPT !.gen = row[c].gen + 1, !.leased = TRUE,
           !.ambiguous = Ambiguous(c, req[r].initial)] \in GoodRow
    BY <1>b, <2>1, <2>2 DEF GoodRow, Row
  <2>4. RowOK' BY <1>5, <1>b, <1>c, <2>3, RowBecomesType DEF ClaimAttempt, c
  <2>5. [req[r] EXCEPT !.pc = "write", !.gen = row[c].gen + 1] \in GoodRequest
    BY <1>a, <1>b, <2>1 DEF GoodRequest, Request, RequestPC
  <2>6. RequestOK' BY <1>5, <1>c, <2>5 DEF ClaimAttempt, RequestBecomes, RequestOK, c
  <2>. QED BY <1>5, <1>c, <2>4, <2>6
           DEF ClaimAttempt, TypeInv, JobOK, QuoteOK, LedgerOK, WireOK, RestOK
<1>6. CASE WriteCompleted(r)
  <2>1. LedgerOK' BY <1>6, <1>b, <1>c, PostType DEF WriteCompleted, Bundles, c
  <2>2. RequestOK' BY <1>6, <1>a, <1>c, <1>d, GotoType DEF WriteCompleted
  <2>. QED BY <1>6, <1>c, <2>1, <2>2
           DEF WriteCompleted, TypeInv, RowOK, JobOK, QuoteOK, WireOK, RestOK
<1>7. CASE WriteUnknown(r)
  <2>1. WireOK' BY <1>7, <1>b, <1>c DEF WriteUnknown, WireOK, Bundles, c
  <2>2. RequestOK' BY <1>7, <1>a, <1>c, <1>d, GotoType DEF WriteUnknown
  <2>. QED BY <1>7, <1>c, <2>1, <2>2
           DEF WriteUnknown, TypeInv, RowOK, JobOK, QuoteOK, LedgerOK, RestOK
<1>8. CASE Attach(r)
  <2>1. [row[c] EXCEPT !.state = "pending", !.fin = "reserved", !.refs = TRUE,
           !.result = IF Recovering(c) THEN "none" ELSE @] \in GoodRow
    BY <1>b DEF GoodRow, Row
  <2>2. RowOK' BY <1>8, <1>b, <1>c, <2>1, RowBecomesType DEF Attach, RowOK, c
  <2>3. RequestOK' BY <1>8, <1>a, <1>c, <1>d, GotoType DEF Attach
  <2>. QED BY <1>8, <1>c, <2>2, <2>3
           DEF Attach, TypeInv, JobOK, QuoteOK, LedgerOK, WireOK, RestOK
<1>9. CASE MarkUnknown(r)
  <2>1. [row[c] EXCEPT !.fin = "outcome_unknown", !.state = "reconciliation_required",
           !.result = "reconciliation_required"] \in GoodRow
    BY <1>b DEF GoodRow, Row
  <2>2. RowOK' BY <1>9, <1>b, <1>c, <2>1, RowBecomesType DEF MarkUnknown, RowOK, c
  <2>3. [req[r] EXCEPT !.pc = "replay", !.initial = FALSE] \in GoodRequest
    BY <1>a, <1>b DEF GoodRequest, Request, RequestPC
  <2>4. RequestOK' BY <1>9, <1>c, <2>3 DEF MarkUnknown, RequestBecomes, RequestOK
  <2>. QED BY <1>9, <1>c, <2>2, <2>4
           DEF MarkUnknown, TypeInv, JobOK, QuoteOK, LedgerOK, WireOK, RestOK
<1>10. CASE Abandon(r)
  <2>1. RowOK' /\ QuoteOK' /\ grant' \subseteq Credits
    BY <1>10, <1>b, <1>c, AbandonRowType DEF Abandon, RowOK, QuoteOK, c
  <2>2. RequestOK' BY <1>10, <1>c, StopType DEF Abandon
  <2>. QED BY <1>10, <1>c, <2>1, <2>2
           DEF Abandon, TypeInv, JobOK, LedgerOK, WireOK, RestOK
<1>11. CASE Dispatch(r)
  <2>1. RowOK'
    BY <1>11, <1>b, <1>c, EnqueuedType, RowBecomesType DEF Dispatch, c
  <2>2. RequestOK' BY <1>11, <1>a, <1>c, AnswerType DEF Dispatch
  <2>. QED BY <1>11, <1>c, <2>1, <2>2
           DEF Dispatch, TypeInv, JobOK, QuoteOK, LedgerOK, WireOK, RestOK
<1>12. CASE RefuseBeforeDispatch(r)
  <2>1. RowOK' /\ QuoteOK' /\ grant' \subseteq Credits
    BY <1>12, <1>b, <1>c, AbandonRowType DEF RefuseBeforeDispatch, RowOK, QuoteOK, c
  <2>2. RequestOK'
    BY <1>12, <1>a, <1>c, StopType, AnswerType DEF RefuseBeforeDispatch
  <2>. QED BY <1>12, <1>c, <2>1, <2>2
           DEF RefuseBeforeDispatch, TypeInv, JobOK, LedgerOK, WireOK, RestOK
<1>13. CASE Record(r)
  <2> DEFINE s == IF req[r].result = "reconciliation_required"
                  THEN "reconciliation_required" ELSE "pending"
  <2>1. [row[c] EXCEPT !.state = s, !.result = req[r].result] \in GoodRow
    BY <1>b DEF GoodRow, Row, GoodRequest, Request
  <2> DEFINE x == [row[c] EXCEPT !.state = s, !.result = req[r].result]
  <2>2. RowBecomes(c, WithRecovery(x)) \/ RowBecomes(c, WithRecovery(row[c]))
    BY <1>13 DEF Record, c
  <2>3. RowOK'
    <3> HIDE DEF x
    <3>. QED BY <2>1, <2>2, <1>b, <1>c, WithRecoveryType, RowBecomesType DEF x
  <2>4. RequestOK' BY <1>13, <1>c, StopType DEF Record
  <2>. QED BY <1>13, <1>c, <2>3, <2>4
           DEF Record, TypeInv, JobOK, QuoteOK, LedgerOK, WireOK, RestOK
<1>. QED BY <1>1, <1>2, <1>3, <1>4, <1>5, <1>6, <1>7, <1>8, <1>9, <1>10, <1>11, <1>12, <1>13
         DEF RequestStep

LEMMA JobStepType ==
  ASSUME TypeInv, NEW j \in Jobs, JobStep(j)
  PROVE  TypeInv'
<1> DEFINE c == job[j].call
<1>a. job[j].pc # "idle"
  BY DEF JobStep, JobLease, JobStatus, JobProof, JobBooking, JobWriteCompleted, JobWriteFailed,
         JobFinalize, JobFinish
<1>b. c \in Calls /\ job[j] \in GoodJob /\ row[c] \in GoodRow
  BY <1>a, JobInFlight
<1>c. /\ RowOK /\ RequestOK /\ JobOK /\ QuoteOK /\ LedgerOK /\ WireOK /\ RestOK
      /\ grant \subseteq Credits
  BY DEF TypeInv, RestOK
<1>d. JobPC = {"idle", "lease", "proof", "status", "booking", "write", "finalize", "finish"}
  BY DEF JobPC
<1>e. row[c].rec \in Schedule
  BY <1>b DEF GoodRow, Row
<1> HIDE DEF c
<1>1. CASE JobLease(j)
  <2>1. [row[c].rec EXCEPT !.owner = j] \in Schedule BY <1>e DEF Schedule
  <2>2. Due(c) => ~row[c].rec.manual BY DEF Due
  <2>3. Due(c) => [row[c] EXCEPT !.rec = [row[c].rec EXCEPT !.owner = j]] \in GoodRow
    BY <1>b, <1>e, <2>1, <2>2 DEF GoodRow, Row, Schedule
  <2>4. RowOK' BY <1>1, <1>b, <1>c, <2>3, RowBecomesType DEF JobLease, RowOK, c
  <2>5. JobOK' BY <1>1, <1>a, <1>c, <1>d, GotoJobType, StopJobType DEF JobLease
  <2>. QED BY <1>1, <1>c, <2>4, <2>5
           DEF JobLease, TypeInv, RequestOK, QuoteOK, LedgerOK, WireOK, RestOK
<1>2. CASE JobStatus(j)
  <2>1. JobOK' BY <1>2, <1>a, <1>c, OutcomeType DEF JobStatus
  <2>. QED BY <1>2, <1>c, <2>1
           DEF JobStatus, TypeInv, RowOK, RequestOK, QuoteOK, LedgerOK, WireOK, RestOK
<1>3. CASE JobProof(j)
  <2>1. JobOK' BY <1>3, <1>a, <1>c, <1>d, OutcomeType, GotoJobType DEF JobProof
  <2>. QED BY <1>3, <1>c, <2>1
           DEF JobProof, TypeInv, RowOK, RequestOK, QuoteOK, LedgerOK, WireOK, RestOK
<1>4. CASE JobBooking(j)
  <2>1. JobOK' BY <1>4, <1>a, <1>c, <1>d, OutcomeType, GotoJobType DEF JobBooking
  <2>. QED BY <1>4, <1>c, <2>1
           DEF JobBooking, TypeInv, RowOK, RequestOK, QuoteOK, LedgerOK, WireOK, RestOK
<1>5. CASE JobWriteCompleted(j)
  <2>1. JobOK' BY <1>5, <1>a, <1>c, <1>d, GotoJobType DEF JobWriteCompleted
  <2>2. LedgerOK' BY <1>5, <1>b, <1>c, PostType DEF JobWriteCompleted, Bundles, c
  <2>. QED BY <1>5, <1>c, <2>1, <2>2
           DEF JobWriteCompleted, TypeInv, RowOK, RequestOK, QuoteOK, WireOK, RestOK
<1>6. CASE JobWriteFailed(j)
  <2>1. JobOK' BY <1>6, <1>a, <1>c, OutcomeType DEF JobWriteFailed
  <2>2. WireOK' BY <1>6, <1>b, <1>c DEF JobWriteFailed, WireOK, Bundles, c
  <2>. QED BY <1>6, <1>c, <2>1, <2>2
           DEF JobWriteFailed, TypeInv, RowOK, RequestOK, QuoteOK, LedgerOK, RestOK
<1>7. CASE JobFinalize(j)
  <2>1. [row[c] EXCEPT !.fin = "released"] \in GoodRow BY <1>b DEF GoodRow, Row
  <2>2. RowOK' BY <1>7, <1>b, <1>c, <2>1, RowBecomesType DEF JobFinalize, RowOK, c
  <2>3. row[c].credit \subseteq Credits BY <1>b DEF GoodRow, Row
  <2>4. grant' \subseteq Credits BY <1>7, <1>c, <2>3 DEF JobFinalize, c
  <2>5. JobOK' BY <1>7, <1>a, <1>c, OutcomeType DEF JobFinalize
  <2>. QED BY <1>7, <1>c, <2>2, <2>4, <2>5
           DEF JobFinalize, TypeInv, RequestOK, QuoteOK, LedgerOK, WireOK, RestOK
<1>8. CASE JobFinish(j)
  <2> DEFINE tries == row[c].rec.tries + 1
             retry(reason) == [reason |-> reason, manual |-> tries >= MaxAttempts,
                               tries |-> tries, owner |-> None]
  <2>1. ASSUME HasLease(j, c) PROVE tries \in 0..MaxAttempts
    BY <1>b, <1>e, <2>1, ReservationAssumption DEF HasLease, GoodRow, Schedule
  <2>2. ASSUME HasLease(j, c), NEW reason \in {"none", "refund_pending", "recovery_failed"}
        PROVE  /\ retry(reason) \in Schedule
               /\ ~retry(reason).manual => retry(reason).tries < MaxAttempts
    <3>1. tries \in 0..MaxAttempts BY <2>1, <2>2
    <3>2. MaxAttempts \in Nat BY ReservationAssumption
    <3> DEFINE manual == tries >= MaxAttempts
    <3>3. manual \in BOOLEAN /\ (~manual => tries < MaxAttempts) BY <3>1, <3>2
    <3>4. retry(reason) = [reason |-> reason, manual |-> manual, tries |-> tries, owner |-> None]
      OBVIOUS
    <3> HIDE DEF tries, manual, retry
    <3>. QED BY <2>2, <3>1, <3>3, <3>4 DEF Schedule
  <2>3. ASSUME NEW x \in Schedule, ~x.manual => x.tries < MaxAttempts
        PROVE  [row[c] EXCEPT !.rec = x] \in GoodRow
    BY <1>b, <2>3 DEF GoodRow, Row
  <2>4. row[c].rec.reason \in {"none", "refund_pending", "recovery_failed"}
    BY <1>e DEF Schedule
  <2>5. NoSchedule \in Schedule /\ (~NoSchedule.manual => NoSchedule.tries < MaxAttempts)
    BY NoScheduleType, ReservationAssumption
  <2>6. ASSUME HasLease(j, c)
        PROVE  \E x \in Schedule : /\ ~x.manual => x.tries < MaxAttempts
                                   /\ RowBecomes(c, [row[c] EXCEPT !.rec = x])
    <3>1. \/ RowBecomes(c, [row[c] EXCEPT !.rec = NoSchedule])
          \/ RowBecomes(c, [row[c] EXCEPT !.rec = retry("refund_pending")])
          \/ RowBecomes(c, [row[c] EXCEPT !.rec = retry("recovery_failed")])
          \/ RowBecomes(c, [row[c] EXCEPT !.rec = retry(row[c].rec.reason)])
      BY <1>8, <2>6 DEF JobFinish, GivesUp, c
    <3> HIDE DEF retry
    <3>. QED BY <3>1, <2>2, <2>4, <2>5, <2>6
  <2>7. RowOK' BY <1>8, <1>b, <1>c, <2>3, <2>6, RowBecomesType DEF JobFinish, RowOK, c
  <2>8. JobOK' BY <1>8, <1>c, StopJobType DEF JobFinish
  <2>. QED BY <1>8, <1>c, <2>7, <2>8
           DEF JobFinish, TypeInv, RequestOK, QuoteOK, LedgerOK, WireOK, RestOK
<1>. QED BY <1>1, <1>2, <1>3, <1>4, <1>5, <1>6, <1>7, <1>8 DEF JobStep

LEMMA CallStepType ==
  ASSUME TypeInv, NEW c \in Calls, CallStep(c)
  PROVE  TypeInv'
<1>b. row[c] \in GoodRow /\ quote[c] \in GoodQuote
  BY DEF TypeInv, RowOK, QuoteOK
<1>c. RowOK /\ RequestOK /\ JobOK /\ QuoteOK /\ LedgerOK /\ WireOK /\ RestOK
  BY DEF TypeInv
<1>e. row[c].rec \in Schedule
  BY <1>b DEF GoodRow, Row
<1>f. ASSUME RowOK', UNCHANGED <<quote, ledger, wire, grant, claimed, req, job, crashes>>
      PROVE  TypeInv'
  BY <1>c, <1>f DEF TypeInv, RequestOK, JobOK, QuoteOK, LedgerOK, WireOK, RestOK
<1>g. ASSUME NEW x \in GoodRow PROVE RowBecomes(c, x) => RowOK'
  BY <1>c, RowBecomesType
<1>1. CASE AttemptLeaseLapses(c)
  <2>1. [row[c] EXCEPT !.leased = FALSE] \in GoodRow BY <1>b DEF GoodRow, Row
  <2>. QED BY <1>1, <1>f, <1>g, <2>1 DEF AttemptLeaseLapses
<1>2. CASE JobLeaseLapses(c)
  <2>1. [row[c].rec EXCEPT !.owner = None] \in Schedule BY <1>e DEF Schedule
  <2>2. [row[c] EXCEPT !.rec = [row[c].rec EXCEPT !.owner = None]] \in GoodRow
    BY <1>b, <1>e, <2>1 DEF GoodRow, Row, Schedule
  <2>. QED BY <1>2, <1>f, <1>g, <2>2 DEF JobLeaseLapses
<1>3. CASE QuoteExpires(c)
  <2>1. [quote[c] EXCEPT !.live = FALSE] \in GoodQuote BY <1>b DEF GoodQuote
  <2>2. QuoteOK' BY <1>3, <1>c, <2>1, QuoteBecomesType DEF QuoteExpires
  <2>. QED BY <1>3, <1>c, <2>2
           DEF QuoteExpires, TypeInv, RowOK, RequestOK, JobOK, LedgerOK, WireOK, RestOK
<1>4. CASE Approve(c)
  BY <1>4, <1>b, <1>f, <1>g, EnqueuedType DEF Approve
<1>5. CASE Deny(c)
  <2> DEFINE rec == IF row[c].fin = "reserved"
                    THEN AutomaticSchedule("refund_pending") ELSE row[c].rec
  <2>1. rec \in Schedule /\ (~rec.manual => rec.tries < MaxAttempts)
    BY <1>b, <1>e, AutomaticScheduleType DEF GoodRow
  <2>2. RowBecomes(c, [row[c] EXCEPT !.state = "refused", !.result = "refused", !.rec = rec])
    BY <1>5, <1>b DEF Deny, GoodRow, Row
  <2> HIDE DEF rec
  <2>3. [row[c] EXCEPT !.state = "refused", !.result = "refused", !.rec = rec] \in GoodRow
    BY <1>b, <2>1 DEF GoodRow, Row
  <2>. QED BY <1>5, <1>f, <1>g, <2>2, <2>3 DEF Deny
<1>6. CASE Cancel(c)
  <2>1. [row[c] EXCEPT !.state = "cancelled", !.result = "refused", !.work = FALSE] \in GoodRow
    BY <1>b DEF GoodRow, Row
  <2>. QED BY <1>6, <1>f, <1>g, <2>1, WithRefundType DEF Cancel
<1>7. CASE CancelRefused(c)
  BY <1>7, <1>b, <1>f, <1>g, WithRecoveryType DEF CancelRefused
<1>8. CASE WorkerClaim(c)
  BY <1>8, <1>c DEF WorkerClaim, TypeInv, RowOK, RequestOK, JobOK, QuoteOK, LedgerOK, WireOK,
     RestOK
<1>9. CASE WorkerRefuse(c)
  <2>1. [row[c] EXCEPT !.state = "refused", !.result = "refused"] \in GoodRow
    BY <1>b DEF GoodRow, Row
  <2>. QED BY <1>9, <1>f, <1>g, <2>1, WithRefundType DEF WorkerRefuse
<1>10. CASE WorkFails(c)
  <2>1. [row[c] EXCEPT !.state = "reconciliation_required",
            !.result = "reconciliation_required"] \in GoodRow
    BY <1>b DEF GoodRow, Row
  <2>2. [row[c] EXCEPT !.state = "refused", !.result = "refused"] \in GoodRow
    BY <1>b DEF GoodRow, Row
  <2>. QED BY <1>10, <1>f, <1>g, <2>1, <2>2, WithRecoveryType DEF WorkFails
<1>. QED BY <1>1, <1>2, <1>3, <1>4, <1>5, <1>6, <1>7, <1>8, <1>9, <1>10 DEF CallStep

LEMMA OtherStepType ==
  ASSUME TypeInv,
         \/ \E r \in Requests, c \in Calls : Admit(r, c)
         \/ \E r \in Requests : CrashRequest(r)
         \/ \E j \in Jobs, c \in Calls : JobStart(j, c)
         \/ \E j \in Jobs : CrashJob(j)
         \/ \E c \in Calls, b \in Bundles : LateWrite(c, b) \/ LostWrite(c, b)
  PROVE  TypeInv'
<1>c. RowOK /\ RequestOK /\ JobOK /\ QuoteOK /\ LedgerOK /\ WireOK /\ RestOK
  BY DEF TypeInv
<1>1. ASSUME NEW r \in Requests, NEW c \in Calls, Admit(r, c) PROVE TypeInv'
  <2>1. [IdleRequest EXCEPT !.pc = IF Offered(c) THEN "reserve" ELSE "stored", !.call = c]
          \in GoodRequest
    BY IdleRequestType DEF GoodRequest, Request, RequestPC
  <2>2. RequestOK' BY <1>1, <1>c, <2>1 DEF Admit, RequestBecomes, RequestOK
  <2>. QED BY <1>1, <1>c, <2>2
           DEF Admit, TypeInv, RowOK, JobOK, QuoteOK, LedgerOK, WireOK, RestOK
<1>2. ASSUME NEW r \in Requests, CrashRequest(r) PROVE TypeInv'
  <2>1. req[r].call \in Calls BY <1>2, InFlight DEF CrashRequest
  <2>2. WireOK' BY <1>2, <1>c, <2>1 DEF CrashRequest, WireOK, Bundles
  <2>3. RequestOK' BY <1>2, <1>c, StopType DEF CrashRequest
  <2>4. crashes' \in 0..MaxCrashes
    BY <1>2, <1>c, ReservationAssumption DEF CrashRequest, RestOK
  <2>. QED BY <1>2, <1>c, <2>2, <2>3, <2>4
           DEF CrashRequest, TypeInv, RowOK, JobOK, QuoteOK, LedgerOK, RestOK
<1>3. ASSUME NEW j \in Jobs, NEW c \in Calls, JobStart(j, c) PROVE TypeInv'
  <2>1. [IdleJob EXCEPT !.pc = "lease", !.call = c] \in GoodJob
    BY IdleJobType DEF GoodJob, Job, JobPC
  <2>2. JobOK' BY <1>3, <1>c, <2>1 DEF JobStart, JobBecomes, JobOK
  <2>. QED BY <1>3, <1>c, <2>2
           DEF JobStart, TypeInv, RowOK, RequestOK, QuoteOK, LedgerOK, WireOK, RestOK
<1>4. ASSUME NEW j \in Jobs, CrashJob(j) PROVE TypeInv'
  <2>1. job[j].call \in Calls BY <1>4, JobInFlight DEF CrashJob
  <2>2. WireOK' BY <1>4, <1>c, <2>1 DEF CrashJob, WireOK, Bundles
  <2>3. JobOK' BY <1>4, <1>c, StopJobType DEF CrashJob
  <2>4. crashes' \in 0..MaxCrashes
    BY <1>4, <1>c, ReservationAssumption DEF CrashJob, RestOK
  <2>. QED BY <1>4, <1>c, <2>2, <2>3, <2>4
           DEF CrashJob, TypeInv, RowOK, RequestOK, QuoteOK, LedgerOK, RestOK
<1>5. ASSUME NEW c \in Calls, NEW b \in Bundles, LateWrite(c, b) PROVE TypeInv'
  <2>1. LedgerOK' BY <1>5, <1>c, PostType DEF LateWrite, LedgerOK
  <2>. QED BY <1>5, <1>c, <2>1
           DEF LateWrite, TypeInv, RowOK, RequestOK, JobOK, QuoteOK, WireOK, RestOK
<1>6. ASSUME NEW c \in Calls, NEW b \in Bundles, LostWrite(c, b) PROVE TypeInv'
  BY <1>6, <1>c
     DEF LostWrite, TypeInv, RowOK, RequestOK, JobOK, QuoteOK, LedgerOK, WireOK, RestOK
<1>. QED BY <1>1, <1>2, <1>3, <1>4, <1>5, <1>6

LEMMA StutterType == ASSUME TypeInv, UNCHANGED vars PROVE TypeInv'
BY DEF TypeInv, RowOK, RequestOK, JobOK, QuoteOK, LedgerOK, WireOK, RestOK, vars

LEMMA NextType == TypeInv /\ [Next]_vars => TypeInv'
BY RequestStepType, JobStepType, CallStepType, OtherStepType, StutterType DEF Next

LEMMA TypeInvariant == Spec => []TypeInv
<1>1. QED BY InitType, NextType, PTL DEF Spec

(* Every state of the program has the declared types: in particular attempt *)
(* and retry counters stay within their bounds.                             *)
THEOREM TypeCorrect == Spec => []TypeOK
BY TypeInvariant, TypeInvImpliesTypeOK, PTL

-----------------------------------------------------------------------------
(* The attempts.  Most steps leave alone what AttemptInv speaks of; three   *)
(* frame conditions say so, for the rows, the ledger and the requests.      *)

Reserved(c) == "reserve" \in ledger[c] \/ <<c, "reserve">> \in wire

SameAttempt(x, y) ==
  /\ x.gen = y.gen
  /\ x.ambiguous = y.ambiguous
  /\ x.state = "absent" <=> y.state = "absent"

RowsKept == \A c \in Calls : SameAttempt(row'[c], row[c])
ReservesKept == \A c \in Calls : Reserved(c)' => Reserved(c)
RequestsKept == \A r \in Requests : req'[r].pc \in PostClaim =>
  /\ req[r].pc \in PostClaim
  /\ req'[r].call = req[r].call
  /\ req'[r].gen = req[r].gen
  /\ req'[r].pc \in {"write", "abandon"} => req[r].pc \in {"write", "abandon"}

LEMMA AttemptFrame ==
  ASSUME TypeInv, AttemptInv, RowsKept, ReservesKept, RequestsKept
  PROVE  AttemptInv'
<1>1. AbandonedNeverHeld'
  BY DEF AttemptInv, AbandonedNeverHeld, RowsKept, ReservesKept, SameAttempt, Present, Reserved
<1>2. ASSUME NEW r \in Requests, req'[r].pc \in PostClaim
      PROVE  /\ req'[r].call \in Calls
             /\ Present(req[r].call)'
             /\ req'[r].gen \in 1..row'[req'[r].call].gen
  BY <1>2 DEF AttemptInv, RowsKept, RequestsKept, SameAttempt, Present
<1>3. ASSUME NEW r \in Requests, NEW s \in Requests,
             req'[r].pc \in PostClaim, req'[s].pc \in PostClaim,
             req'[r].call = req'[s].call, req'[r].gen = req'[s].gen
      PROVE  r = s
  BY <1>3 DEF AttemptInv, RequestsKept
<1>4. ASSUME NEW c \in Calls
      PROVE  /\ ~row'[c].ambiguous => row'[c].gen <= 1
             /\ row'[c].gen = 0 => "reserve" \notin ledger'[c] /\ <<c, "reserve">> \notin wire'
  BY DEF AttemptInv, RowsKept, SameAttempt, ReservesKept, Reserved
<1>5. ASSUME NEW r \in Requests, req'[r].pc \in {"write", "abandon"},
             ~row'[req'[r].call].ambiguous
      PROVE  "reserve" \notin ledger'[req'[r].call] /\ <<req'[r].call, "reserve">> \notin wire'
  <2>1. req'[r].pc \in PostClaim BY <1>5 DEF PostClaim
  <2>. QED BY <2>1, <1>5 DEF AttemptInv, RowsKept, SameAttempt, ReservesKept, Reserved, RequestsKept
<1>. QED BY <1>1, <1>2, <1>3, <1>4, <1>5 DEF AttemptInv, Present

LEMMA RowsKeptBy ==
  ASSUME RowOK, NEW c \in Calls, NEW x, RowBecomes(c, x), SameAttempt(x, row[c])
  PROVE  RowsKept
BY DEF RowOK, RowBecomes, RowsKept, SameAttempt

LEMMA GotoKept ==
  ASSUME RequestOK, NEW r \in Requests, NEW pc, Goto(r, pc),
         pc \in PostClaim => req[r].pc \in PostClaim,
         pc \in {"write", "abandon"} => req[r].pc \in {"write", "abandon"}
  PROVE  RequestsKept
BY DEF RequestOK, GoodRequest, Request, Goto, RequestBecomes, RequestsKept

LEMMA BecomesKept ==
  ASSUME RequestOK, NEW r \in Requests, NEW q, RequestBecomes(r, q), q.pc \notin PostClaim
  PROVE  RequestsKept
BY DEF RequestOK, RequestBecomes, RequestsKept

LEMMA StopKept == ASSUME RequestOK, NEW r \in Requests, Stop(r) PROVE RequestsKept
BY BecomesKept DEF Stop, IdleRequest, PostClaim

LEMMA AnswerKept ==
  ASSUME RequestOK, NEW r \in Requests, NEW result, Answer(r, result)
  PROVE  RequestsKept
<1>1. [req[r] EXCEPT !.pc = "record", !.result = result].pc \notin PostClaim
  BY DEF RequestOK, GoodRequest, Request, PostClaim
<1>. QED BY <1>1, StopKept, BecomesKept DEF Answer

LEMMA WithRefundKept ==
  ASSUME NEW x \in GoodRow PROVE SameAttempt(WithRefund(x), x)
BY DEF WithRefund, SameAttempt, GoodRow, Row

LEMMA WithRecoveryKept ==
  ASSUME NEW x \in GoodRow PROVE SameAttempt(WithRecovery(x), x)
BY DEF WithRecovery, SameAttempt, GoodRow, Row

LEMMA EnqueuedKept ==
  ASSUME NEW x \in GoodRow PROVE SameAttempt(Enqueued(x), x)
BY DEF Enqueued, SameAttempt, GoodRow, Row

(* A step that ends the write of attempt r, whatever it put on the ledger   *)
(* or left on the wire for its Call: no other attempt relied on its absence.*)
LEMMA AttemptPost ==
  ASSUME TypeInv, AttemptInv, NEW r \in Requests, req[r].pc = "write",
         UNCHANGED row, RequestsKept,
         req'[r].pc \notin {"write", "abandon"},
         \A c \in Calls : c # req[r].call => (Reserved(c)' => Reserved(c))
  PROVE  AttemptInv'
<1> DEFINE c == req[r].call
<1>a. /\ req[r].pc \in PostClaim /\ c \in Calls /\ Present(c)
      /\ req[r].gen \in 1..row[c].gen /\ row[c].gen \in Nat
  BY ReservationAssumption DEF AttemptInv, PostClaim, TypeInv, RowOK, GoodRow, Row
<1>b. \A s \in Requests : req[s].pc \in PostClaim => req[s].gen \in Nat
  BY DEF TypeInv, RequestOK, GoodRequest, Request
<1> HIDE DEF c
<1>1. AbandonedNeverHeld'
  BY <1>a DEF AttemptInv, AbandonedNeverHeld, Present, Reserved, c
<1>2. ASSUME NEW s \in Requests, req'[s].pc \in PostClaim
      PROVE  /\ req'[s].call \in Calls
             /\ Present(req[s].call)'
             /\ req'[s].gen \in 1..row'[req'[s].call].gen
  BY <1>2 DEF AttemptInv, RequestsKept, Present
<1>3. ASSUME NEW s \in Requests, NEW t \in Requests,
             req'[t].pc \in PostClaim, req'[s].pc \in PostClaim,
             req'[t].call = req'[s].call, req'[t].gen = req'[s].gen
      PROVE  t = s
  BY <1>3 DEF AttemptInv, RequestsKept
<1>4. ASSUME NEW d \in Calls
      PROVE  /\ ~row'[d].ambiguous => row'[d].gen <= 1
             /\ row'[d].gen = 0 => "reserve" \notin ledger'[d] /\ <<d, "reserve">> \notin wire'
  BY <1>a DEF AttemptInv, Reserved, c
<1>5. ASSUME NEW s \in Requests, req'[s].pc \in {"write", "abandon"},
             ~row'[req'[s].call].ambiguous
      PROVE  "reserve" \notin ledger'[req'[s].call] /\ <<req'[s].call, "reserve">> \notin wire'
  <2>1. req'[s].pc \in PostClaim BY <1>5 DEF PostClaim
  <2>2. /\ req[s].pc \in {"write", "abandon"} /\ req[s].pc \in PostClaim
        /\ req'[s].call = req[s].call /\ req[s].call \in Calls
    BY <2>1, <1>5 DEF RequestsKept, AttemptInv
  <2>3. CASE req[s].call # c
    BY <2>2, <2>3, <1>5 DEF AttemptInv, Reserved, c
  <2>4. CASE req[s].call = c
    <3>1. row[c].gen <= 1 BY <2>2, <2>4, <1>5 DEF AttemptInv
    <3>2. req[s].gen \in 1..row[c].gen BY <2>2, <2>4 DEF AttemptInv
    <3>3. req[s].gen = req[r].gen BY <3>1, <3>2, <1>a
    <3>4. s = r BY <3>3, <2>2, <2>4, <1>a DEF AttemptInv, c
    <3>. QED BY <3>4, <1>5
  <2>. QED BY <2>3, <2>4
<1>. QED BY <1>1, <1>2, <1>3, <1>4, <1>5 DEF AttemptInv, Present

(* Abandoning an undecided Call: it has at most this one attempt, and the   *)
(* ledger holds nothing for it.                                             *)
LEMMA AttemptAbandon ==
  ASSUME TypeInv, AttemptInv, NEW r \in Requests, NEW g \in Nat,
         req[r].pc # "idle",
         req[r].pc = "abandon" => g = req[r].gen,
         req[r].pc # "abandon" => g = 0,
         MayAbandon(req[r].call, g), AbandonRow(req[r].call), Stop(r),
         UNCHANGED <<ledger, wire>>
  PROVE  AttemptInv'
<1> DEFINE c == req[r].call
<1>a. c \in Calls /\ row[c] \in GoodRow BY InFlight
<1>b. /\ row' = [row EXCEPT ![c] = AbsentRow] /\ row' [c] = AbsentRow
      /\ \A d \in Calls : d # c => row'[d] = row[d]
  BY <1>a DEF AbandonRow, RowBecomes, TypeInv, RowOK
<1>c. RequestsKept BY StopKept DEF TypeInv
<1>d. AbsentRow.state = "absent" /\ AbsentRow.gen = 0 /\ AbsentRow.ambiguous = FALSE
  BY DEF AbsentRow
<1>e. req'[r].pc = "idle"
  BY DEF Stop, RequestBecomes, IdleRequest, TypeInv, RequestOK
<1>f. \A s \in Requests : req[s].pc \in PostClaim => req[s].gen \in Nat
  BY DEF TypeInv, RequestOK, GoodRequest, Request
<1>g. row[c].gen \in Nat BY <1>a, ReservationAssumption DEF GoodRow, Row
<1>h. \A d \in Calls : Reserved(d)' <=> Reserved(d)
  BY DEF Reserved
<1> HIDE DEF c
(* nobody else is past the claim of this Call, and nothing is held for it *)
<1>1. ASSUME NEW s \in Requests, req[s].pc \in PostClaim, req[s].call = c PROVE s = r
  <2>1. req[s].gen \in 1..row[c].gen BY <1>1 DEF AttemptInv
  <2>2. row[c].gen > 0 BY <2>1, <1>g
  <2>3. ~row[c].ambiguous /\ row[c].gen = g BY <2>2 DEF MayAbandon, c
  <2>4. req[r].pc = "abandon" /\ g = req[r].gen BY <2>2, <2>3
  <2>5. row[c].gen <= 1 BY <2>3, <1>a DEF AttemptInv
  <2>6. req[s].gen = req[r].gen BY <2>1, <2>3, <2>4, <2>5
  <2>. QED BY <2>4, <2>6, <1>1 DEF AttemptInv, PostClaim, c
<1>2. ~Reserved(c)
  <2>1. CASE row[c].gen = 0 BY <2>1, <1>a DEF AttemptInv, Reserved
  <2>2. CASE row[c].gen # 0
    <3>1. row[c].gen > 0 BY <2>2, <1>g
    <3>2. ~row[c].ambiguous /\ row[c].gen = g BY <3>1 DEF MayAbandon, c
    <3>3. req[r].pc = "abandon" BY <3>1, <3>2
    <3>. QED BY <3>2, <3>3 DEF AttemptInv, Reserved, c
  <2>. QED BY <2>1, <2>2
<1>3. AbandonedNeverHeld'
  BY <1>2, <1>h, <1>b DEF AttemptInv, AbandonedNeverHeld, Present, Reserved
<1>4. ASSUME NEW s \in Requests, req'[s].pc \in PostClaim
      PROVE  /\ req[s].pc \in PostClaim /\ req'[s].call = req[s].call /\ req[s].call \in Calls
             /\ req'[s].gen = req[s].gen /\ req[s].call # c
             /\ row'[req[s].call] = row[req[s].call]
  <2>1. /\ req[s].pc \in PostClaim /\ req'[s].call = req[s].call /\ req[s].call \in Calls
        /\ req'[s].gen = req[s].gen
    BY <1>4, <1>c DEF RequestsKept, AttemptInv
  <2>2. s # r BY <1>4, <1>e DEF PostClaim
  <2>. QED BY <2>1, <2>2, <1>1, <1>b
<1>5. ASSUME NEW s \in Requests, req'[s].pc \in PostClaim
      PROVE  /\ req'[s].call \in Calls
             /\ Present(req[s].call)'
             /\ req'[s].gen \in 1..row'[req'[s].call].gen
  BY <1>4, <1>5 DEF AttemptInv, Present
<1>6. ASSUME NEW s \in Requests, NEW t \in Requests,
             req'[t].pc \in PostClaim, req'[s].pc \in PostClaim,
             req'[t].call = req'[s].call, req'[t].gen = req'[s].gen
      PROVE  t = s
  BY <1>4, <1>6 DEF AttemptInv
<1>7. ASSUME NEW d \in Calls
      PROVE  /\ ~row'[d].ambiguous => row'[d].gen <= 1
             /\ row'[d].gen = 0 => "reserve" \notin ledger'[d] /\ <<d, "reserve">> \notin wire'
  <2>1. CASE d = c BY <2>1, <1>b, <1>d, <1>2, <1>h DEF Reserved
  <2>2. CASE d # c BY <2>2, <1>b DEF AttemptInv
  <2>. QED BY <2>1, <2>2
<1>8. ASSUME NEW s \in Requests, req'[s].pc \in {"write", "abandon"},
             ~row'[req'[s].call].ambiguous
      PROVE  "reserve" \notin ledger'[req'[s].call] /\ <<req'[s].call, "reserve">> \notin wire'
  <2>1. req'[s].pc \in PostClaim BY <1>8 DEF PostClaim
  <2>2. req[s].pc \in {"write", "abandon"} BY <2>1, <1>8, <1>c DEF RequestsKept
  <2>. QED BY <1>4, <1>8, <2>1, <2>2 DEF AttemptInv
<1>. QED BY <1>3, <1>5, <1>6, <1>7, <1>8 DEF AttemptInv, Present

(* A new attempt is unambiguous only when it is the first; then nothing was *)
(* ever sent for the Call.                                                  *)
LEMMA AttemptClaim ==
  ASSUME TypeInv, AttemptInv, NEW r \in Requests, ClaimAttempt(r)
  PROVE  AttemptInv'
<1> DEFINE c == req[r].call
           x == [row[c] EXCEPT !.gen = row[c].gen + 1, !.leased = TRUE,
                   !.ambiguous = Ambiguous(c, req[r].initial)]
           q == [req[r] EXCEPT !.pc = "write", !.gen = row[c].gen + 1]
<1>a. req[r].pc = "claim" /\ c \in Calls /\ row[c] \in GoodRow /\ req[r] \in GoodRequest
  BY InFlight DEF ClaimAttempt
<1>b. row' = [row EXCEPT ![c] = x] /\ req' = [req EXCEPT ![r] = q]
  BY DEF ClaimAttempt, RowBecomes, RequestBecomes
<1>c. x.gen = row[c].gen + 1 /\ x.ambiguous = Ambiguous(c, req[r].initial) /\ x.state = row[c].state
  <2>1. Ambiguous(c, req[r].initial) \in BOOLEAN BY DEF Ambiguous
  <2>2. \A b \in BOOLEAN, n \in Nat :
          LET y == [row[c] EXCEPT !.gen = n, !.leased = TRUE, !.ambiguous = b]
          IN  y.gen = n /\ y.ambiguous = b /\ y.state = row[c].state
    BY <1>a DEF GoodRow, Row
  <2>3. row[c].gen + 1 \in Nat BY <1>a, ReservationAssumption DEF GoodRow, Row
  <2> HIDE DEF c
  <2>. QED BY <2>1, <2>2, <2>3
<1>d. q.pc = "write" /\ q.call = c /\ q.gen = row[c].gen + 1
  BY <1>a DEF GoodRequest, Request
<1>e. row[c].gen \in Nat BY <1>a, ReservationAssumption DEF GoodRow, Row
<1>f. /\ row'[c] = x /\ \A d \in Calls : d # c => row'[d] = row[d]
      /\ req'[r] = q /\ \A s \in Requests : s # r => req'[s] = req[s]
  <2> HIDE DEF x, q, c
  <2>. QED BY <1>a, <1>b DEF TypeInv, RowOK, RequestOK
<1>g. \A s \in Requests : req[s].pc \in PostClaim => req[s].gen \in Nat
  BY DEF TypeInv, RequestOK, GoodRequest, Request
<1>h. UNCHANGED <<ledger, wire>> /\ Present(c)
  BY DEF ClaimAttempt, Claimable
<1> HIDE DEF x, q, c
<1>1. AbandonedNeverHeld'
  BY <1>c, <1>f, <1>h DEF AttemptInv, AbandonedNeverHeld, Present
<1>2. ~x.ambiguous => row[c].gen = 0 /\ ~Reserved(c)
  <2>1. ~x.ambiguous => ~Ambiguous(c, req[r].initial) BY <1>c
  <2>2. ~Ambiguous(c, req[r].initial) => row[c].gen = 0 BY <1>e DEF Ambiguous
  <2>3. row[c].gen = 0 => ~Reserved(c) BY <1>a DEF AttemptInv, Reserved
  <2>. QED BY <2>1, <2>2, <2>3
<1>3. ASSUME NEW s \in Requests, req[s].pc \in PostClaim, req[s].call = c
      PROVE  req[s].gen \in 1..row[c].gen
  BY <1>3 DEF AttemptInv
<1>4. ASSUME NEW s \in Requests, req'[s].pc \in PostClaim
      PROVE  /\ req'[s].call \in Calls
             /\ Present(req[s].call)'
             /\ req'[s].gen \in 1..row'[req'[s].call].gen
  <2>1. CASE s = r BY <2>1, <1>a, <1>c, <1>d, <1>e, <1>f, <1>h DEF Present
  <2>2. CASE s # r /\ req[s].call = c
    BY <2>2, <1>3, <1>4, <1>a, <1>c, <1>e, <1>f, <1>h DEF Present
  <2>3. CASE s # r /\ req[s].call # c
    BY <2>3, <1>4, <1>f DEF AttemptInv, Present
  <2>. QED BY <2>1, <2>2, <2>3
<1>5. ASSUME NEW s \in Requests, NEW t \in Requests,
             req'[t].pc \in PostClaim, req'[s].pc \in PostClaim,
             req'[t].call = req'[s].call, req'[t].gen = req'[s].gen
      PROVE  t = s
  <2>1. CASE s # r /\ t # r BY <2>1, <1>5, <1>f DEF AttemptInv
  <2>2. CASE s = r /\ t # r BY <2>2, <1>3, <1>5, <1>d, <1>e, <1>f
  <2>3. CASE s # r /\ t = r BY <2>3, <1>3, <1>5, <1>d, <1>e, <1>f
  <2>. QED BY <2>1, <2>2, <2>3
<1>6. ASSUME NEW d \in Calls
      PROVE  /\ ~row'[d].ambiguous => row'[d].gen <= 1
             /\ row'[d].gen = 0 => "reserve" \notin ledger'[d] /\ <<d, "reserve">> \notin wire'
  <2>1. CASE d = c BY <2>1, <1>2, <1>c, <1>e, <1>f
  <2>2. CASE d # c BY <2>2, <1>f, <1>h DEF AttemptInv
  <2>. QED BY <2>1, <2>2
<1>7. ASSUME NEW s \in Requests, req'[s].pc \in {"write", "abandon"},
             ~row'[req'[s].call].ambiguous
      PROVE  "reserve" \notin ledger'[req'[s].call] /\ <<req'[s].call, "reserve">> \notin wire'
  <2>1. CASE req'[s].call = c
    BY <2>1, <1>2, <1>7, <1>f, <1>h DEF Reserved
  <2>2. CASE req'[s].call # c
    <3>1. s # r BY <2>2, <1>d, <1>f
    <3>2. req'[s].pc \in PostClaim /\ req'[s] = req[s] /\ req[s].call \in Calls
      BY <3>1, <1>7, <1>f DEF PostClaim, AttemptInv
    <3>. QED BY <2>2, <3>2, <1>7, <1>f, <1>h DEF AttemptInv
  <2>. QED BY <2>1, <2>2
<1>. QED BY <1>1, <1>4, <1>5, <1>6, <1>7 DEF AttemptInv, Present

LEMMA AttemptNew ==
  ASSUME TypeInv, AttemptInv, NEW r \in Requests, ReserveNew(r)
  PROVE  AttemptInv'
<1> DEFINE c == req[r].call
<1>a. c \in Calls /\ row[c] \in GoodRow /\ ~Present(c) /\ UNCHANGED <<ledger, wire>>
  BY InFlight DEF ReserveNew
<1>b. PICK taken \in SUBSET grant :
        RowBecomes(c, [AbsentRow EXCEPT !.state = "pending", !.credit = taken])
  BY DEF ReserveNew
<1> DEFINE x == [AbsentRow EXCEPT !.state = "pending", !.credit = taken]
<1>c. x.gen = AbsentRow.gen /\ x.ambiguous = AbsentRow.ambiguous /\ x.state = "pending"
  BY <1>b, AbsentRowType DEF GoodRow, Row
<1>d. AbsentRow.gen = 0 /\ AbsentRow.ambiguous = FALSE
  BY DEF AbsentRow
<1> HIDE DEF x
<1>e. row'[c] = x /\ \A d \in Calls : d # c => row'[d] = row[d]
  BY <1>a, <1>b DEF RowBecomes, TypeInv, RowOK, x
<1>f. RequestsKept
  <2>1. [req[r] EXCEPT !.pc = "booking", !.initial = TRUE].pc \notin PostClaim
    BY DEF TypeInv, RequestOK, GoodRequest, Request, PostClaim
  <2>. QED BY <2>1, BecomesKept DEF ReserveNew, TypeInv
<1>g. ~Reserved(c)
  BY <1>a DEF AttemptInv, AbandonedNeverHeld, Reserved
<1> HIDE DEF c
<1>1. AbandonedNeverHeld'
  BY <1>a, <1>c, <1>e DEF AttemptInv, AbandonedNeverHeld, Present
<1>2. ASSUME NEW s \in Requests, req'[s].pc \in PostClaim
      PROVE  /\ req[s].pc \in PostClaim /\ req'[s].call = req[s].call /\ req[s].call \in Calls
             /\ req'[s].gen = req[s].gen /\ req[s].call # c
             /\ row'[req[s].call] = row[req[s].call]
  BY <1>2, <1>a, <1>e, <1>f DEF RequestsKept, AttemptInv
<1>3. ASSUME NEW s \in Requests, req'[s].pc \in PostClaim
      PROVE  /\ req'[s].call \in Calls
             /\ Present(req[s].call)'
             /\ req'[s].gen \in 1..row'[req'[s].call].gen
  BY <1>2, <1>3 DEF AttemptInv, Present
<1>4. ASSUME NEW s \in Requests, NEW t \in Requests,
             req'[t].pc \in PostClaim, req'[s].pc \in PostClaim,
             req'[t].call = req'[s].call, req'[t].gen = req'[s].gen
      PROVE  t = s
  BY <1>2, <1>4 DEF AttemptInv
<1>5. ASSUME NEW d \in Calls
      PROVE  /\ ~row'[d].ambiguous => row'[d].gen <= 1
             /\ row'[d].gen = 0 => "reserve" \notin ledger'[d] /\ <<d, "reserve">> \notin wire'
  <2>1. CASE d = c BY <2>1, <1>a, <1>c, <1>d, <1>e, <1>g DEF Reserved
  <2>2. CASE d # c BY <2>2, <1>a, <1>e DEF AttemptInv
  <2>. QED BY <2>1, <2>2
<1>6. ASSUME NEW s \in Requests, req'[s].pc \in {"write", "abandon"},
             ~row'[req'[s].call].ambiguous
      PROVE  "reserve" \notin ledger'[req'[s].call] /\ <<req'[s].call, "reserve">> \notin wire'
  <2>1. req'[s].pc \in PostClaim BY <1>6 DEF PostClaim
  <2>2. req[s].pc \in {"write", "abandon"} BY <2>1, <1>6, <1>f DEF RequestsKept
  <2>. QED BY <1>2, <1>6, <1>a, <2>1, <2>2 DEF AttemptInv
<1>. QED BY <1>1, <1>3, <1>4, <1>5, <1>6 DEF AttemptInv, Present

LEMMA AttemptRequestStep ==
  ASSUME TypeInv, AttemptInv, NEW r \in Requests, RequestStep(r)
  PROVE  AttemptInv'
<1> DEFINE c == req[r].call
<1>a. req[r].pc # "idle"
  BY DEF RequestStep, AnswerStored, ReserveNew, ReserveReplayed, ReserveRefused, ReadBooking,
         BookingRefused, ClaimAttempt, ClaimBusy, WriteCompleted, WriteUnknown, WriteRejected,
         Attach, MarkUnknown, Abandon, Replay, Dispatch, NeedsAuthority, RefuseBeforeDispatch, Record
<1>b. c \in Calls /\ row[c] \in GoodRow /\ req[r] \in GoodRequest
  BY <1>a, InFlight
<1>c. RowOK /\ RequestOK
  BY DEF TypeInv
<1>d. ASSUME UNCHANGED row PROVE RowsKept
  BY <1>d DEF RowsKept, SameAttempt
<1>e. ASSUME UNCHANGED <<ledger, wire>> PROVE ReservesKept
  BY <1>e DEF ReservesKept, Reserved
<1>f. [req[r] EXCEPT !.pc = "replay", !.initial = FALSE].pc \notin PostClaim
  BY <1>b DEF GoodRequest, Request, PostClaim
<1>g. ASSUME NEW x, RowBecomes(c, x), SameAttempt(x, row[c]) PROVE RowsKept
  BY <1>b, <1>c, <1>g, RowsKeptBy
<1>h. \A pc \in {"booking", "claim", "dispatch", "replay"} : pc \notin PostClaim
  BY DEF PostClaim
<1> HIDE DEF c
<1>1. CASE AnswerStored(r) \/ ReserveRefused(r) \/ BookingRefused(r) \/ ClaimBusy(r)
  BY <1>1, <1>c, <1>d, <1>e, StopKept, AttemptFrame DEF AnswerStored, ReserveRefused, BookingRefused, ClaimBusy
<1>2. CASE ReserveNew(r)
  BY <1>2, AttemptNew
<1>3. CASE ReserveReplayed(r) \/ NeedsAuthority(r) \/ Replay(r)
  <2>1. RequestsKept
    BY <1>3, <1>c, <1>h, GotoKept, StopKept, AnswerKept
       DEF ReserveReplayed, NeedsAuthority, Replay, PostClaim
  <2>. QED BY <2>1, <1>3, <1>d, <1>e, AttemptFrame DEF ReserveReplayed, NeedsAuthority, Replay
<1>4. CASE ReadBooking(r)
  <2>1. ASSUME NEW pc \in {"dispatch", "replay", "claim"}, Goto(r, pc) PROVE RequestsKept
    BY <2>1, <1>c, <1>h, GotoKept DEF PostClaim
  <2>2. RequestsKept
    BY <1>4, <1>c, <1>f, <2>1, StopKept, BecomesKept DEF ReadBooking, c
  <2>. QED BY <2>2, <1>4, <1>d, <1>e, AttemptFrame DEF ReadBooking
<1>5. CASE ClaimAttempt(r)
  BY <1>5, AttemptClaim
<1>6. CASE WriteCompleted(r)
  <2>1. RequestsKept BY <1>6, <1>c, GotoKept DEF WriteCompleted, PostClaim
  <2>2. req'[r].pc = "attach"
    BY <1>6, <1>b, <1>c DEF WriteCompleted, Goto, RequestBecomes, RequestOK, GoodRequest, Request
  <2>3. \A d \in Calls : d # req[r].call => (Reserved(d)' => Reserved(d))
    BY <1>6 DEF WriteCompleted, Post, Reserved, TypeInv, LedgerOK
  <2>. QED BY <2>1, <2>2, <2>3, <1>6, AttemptPost DEF WriteCompleted
<1>7. CASE WriteUnknown(r)
  <2>1. RequestsKept BY <1>7, <1>c, GotoKept DEF WriteUnknown, PostClaim
  <2>2. req'[r].pc = "markUnknown"
    BY <1>7, <1>b, <1>c DEF WriteUnknown, Goto, RequestBecomes, RequestOK, GoodRequest, Request
  <2>3. \A d \in Calls : d # req[r].call => (Reserved(d)' => Reserved(d))
    BY <1>7 DEF WriteUnknown, Reserved
  <2>. QED BY <2>1, <2>2, <2>3, <1>7, AttemptPost DEF WriteUnknown
<1>8. CASE WriteRejected(r)
  <2>1. RequestsKept BY <1>8, <1>c, GotoKept DEF WriteRejected, PostClaim
  <2>. QED BY <2>1, <1>8, <1>d, <1>e, AttemptFrame DEF WriteRejected
<1>9. CASE Attach(r)
  <2>1. Attachable(c) => Present(c) BY DEF Attachable, Recovering, Present
  <2>2. Present(c) => SameAttempt([row[c] EXCEPT !.state = "pending", !.fin = "reserved",
          !.refs = TRUE, !.result = IF Recovering(c) THEN "none" ELSE @], row[c])
    BY <1>b DEF SameAttempt, GoodRow, Row, Present
  <2>3. RowsKept BY <1>9, <1>d, <1>g, <2>1, <2>2 DEF Attach, c
  <2>4. RequestsKept
    BY <1>9, <1>c, <1>h, GotoKept DEF Attach, PostClaim
  <2>. QED BY <2>3, <2>4, <1>9, <1>e, AttemptFrame DEF Attach
<1>10. CASE MarkUnknown(r)
  <2>1. Present(c) => SameAttempt([row[c] EXCEPT !.fin = "outcome_unknown",
          !.state = "reconciliation_required", !.result = "reconciliation_required"], row[c])
    BY <1>b DEF SameAttempt, GoodRow, Row, Present
  <2>2. RowsKept BY <1>10, <1>d, <1>g, <2>1 DEF MarkUnknown, MayMarkUnknown, c
  <2>3. RequestsKept BY <1>10, <1>c, <1>f, BecomesKept DEF MarkUnknown
  <2>. QED BY <2>2, <2>3, <1>10, <1>e, AttemptFrame DEF MarkUnknown
<1>11. CASE Abandon(r)
  <2>1. CASE MayAbandon(c, req[r].gen)
    <3>1. req[r].gen \in Nat BY <1>b, ReservationAssumption DEF GoodRequest, Request
    <3>. QED BY <2>1, <3>1, <1>11, <1>a, AttemptAbandon DEF Abandon, c
  <2>2. CASE ~MayAbandon(c, req[r].gen)
    BY <2>2, <1>11, <1>c, <1>d, <1>e, StopKept, AttemptFrame DEF Abandon, c
  <2>. QED BY <2>1, <2>2
<1>12. CASE Dispatch(r)
  <2>1. RowsKept BY <1>12, <1>b, <1>g, EnqueuedKept DEF Dispatch, SameAttempt, c
  <2>2. RequestsKept BY <1>12, <1>c, AnswerKept DEF Dispatch
  <2>. QED BY <2>1, <2>2, <1>12, <1>e, AttemptFrame DEF Dispatch
<1>13. CASE RefuseBeforeDispatch(r)
  <2>1. CASE MayAbandon(c, 0)
    BY <2>1, <1>13, <1>a, AttemptAbandon DEF RefuseBeforeDispatch, c
  <2>2. CASE ~MayAbandon(c, 0)
    BY <2>2, <1>13, <1>c, <1>d, <1>e, StopKept, AnswerKept, AttemptFrame
       DEF RefuseBeforeDispatch, c
  <2>. QED BY <2>1, <2>2
<1>14. CASE Record(r)
  <2> DEFINE s == IF req[r].result = "reconciliation_required"
                  THEN "reconciliation_required" ELSE "pending"
             x == [row[c] EXCEPT !.state = s, !.result = req[r].result]
  <2>1. x \in GoodRow
    BY <1>b DEF GoodRow, Row, GoodRequest, Request
  <2>2. Recordable(c, s) => SameAttempt(x, row[c])
    BY <1>b DEF SameAttempt, GoodRow, Row, Recordable
  <2>3. IF Recordable(c, s) THEN RowBecomes(c, WithRecovery(x))
        ELSE RowBecomes(c, WithRecovery(row[c]))
    BY <1>14 DEF Record, c
  <2> HIDE DEF x, s
  <2>4. SameAttempt(WithRecovery(x), x) /\ SameAttempt(WithRecovery(row[c]), row[c])
    BY <2>1, <1>b, WithRecoveryKept
  <2>5. RowsKept BY <2>2, <2>3, <2>4, <1>g DEF SameAttempt
  <2>6. RequestsKept BY <1>14, <1>c, StopKept DEF Record
  <2>. QED BY <2>5, <2>6, <1>14, <1>e, AttemptFrame DEF Record
<1>. QED BY <1>1, <1>2, <1>3, <1>4, <1>5, <1>6, <1>7, <1>8, <1>9, <1>10, <1>11, <1>12, <1>13,
            <1>14 DEF RequestStep

LEMMA AttemptJobStep ==
  ASSUME TypeInv, AttemptInv, NEW j \in Jobs, JobStep(j)
  PROVE  AttemptInv'
<1> DEFINE c == job[j].call
<1>a. job[j].pc # "idle"
  BY DEF JobStep, JobLease, JobStatus, JobProof, JobBooking, JobWriteCompleted, JobWriteFailed,
         JobFinalize, JobFinish
<1>b. c \in Calls /\ row[c] \in GoodRow
  BY <1>a, JobInFlight
<1>c. UNCHANGED req => RequestsKept
  BY DEF RequestsKept
<1>d. UNCHANGED row => RowsKept
  BY DEF RowsKept, SameAttempt
<1>e. UNCHANGED <<ledger, wire>> => ReservesKept
  BY DEF ReservesKept, Reserved
<1>f. ASSUME NEW x PROVE RowBecomes(c, x) /\ SameAttempt(x, row[c]) => RowsKept
  BY <1>b, RowsKeptBy DEF TypeInv
<1>g. \A sched : SameAttempt([row[c] EXCEPT !.rec = sched], row[c])
  BY <1>b DEF SameAttempt, GoodRow, Row
<1>h. SameAttempt([row[c] EXCEPT !.fin = "released"], row[c])
  BY <1>b DEF SameAttempt, GoodRow, Row
<1> HIDE DEF c
<1>1. CASE JobLease(j)
  <2>1. RowsKept BY <1>1, <1>d, <1>f, <1>g DEF JobLease, c
  <2>. QED BY <2>1, <1>1, <1>c, <1>e, AttemptFrame DEF JobLease
<1>2. CASE JobStatus(j) \/ JobProof(j) \/ JobBooking(j)
  BY <1>2, <1>c, <1>d, <1>e, AttemptFrame DEF JobStatus, JobProof, JobBooking
<1>3. CASE JobWriteCompleted(j)
  <2>1. ReservesKept
    BY <1>3 DEF JobWriteCompleted, Post, ReservesKept, Reserved, TypeInv, LedgerOK
  <2>. QED BY <2>1, <1>3, <1>c, <1>d, AttemptFrame DEF JobWriteCompleted
<1>4. CASE JobWriteFailed(j)
  <2>1. ReservesKept BY <1>4 DEF JobWriteFailed, ReservesKept, Reserved
  <2>. QED BY <2>1, <1>4, <1>c, <1>d, AttemptFrame DEF JobWriteFailed
<1>5. CASE JobFinalize(j)
  <2>1. RowsKept BY <1>5, <1>d, <1>f, <1>h DEF JobFinalize, c
  <2>. QED BY <2>1, <1>5, <1>c, <1>e, AttemptFrame DEF JobFinalize
<1>6. CASE JobFinish(j)
  <2>1. RowsKept BY <1>6, <1>d, <1>f, <1>g DEF JobFinish, c
  <2>. QED BY <2>1, <1>6, <1>c, <1>e, AttemptFrame DEF JobFinish
<1>. QED BY <1>1, <1>2, <1>3, <1>4, <1>5, <1>6 DEF JobStep

LEMMA AttemptCallStep ==
  ASSUME TypeInv, AttemptInv, NEW c \in Calls, CallStep(c)
  PROVE  AttemptInv'
<1>b. row[c] \in GoodRow
  BY DEF TypeInv, RowOK
<1>c. UNCHANGED req => RequestsKept
  BY DEF RequestsKept
<1>d. UNCHANGED row => RowsKept
  BY DEF RowsKept, SameAttempt
<1>e. UNCHANGED <<ledger, wire>> => ReservesKept
  BY DEF ReservesKept, Reserved
<1>f. ASSUME NEW x PROVE RowBecomes(c, x) /\ SameAttempt(x, row[c]) => RowsKept
  BY <1>b, RowsKeptBy DEF TypeInv
<1>g. \A x, y, z : SameAttempt(x, y) /\ SameAttempt(y, z) => SameAttempt(x, z)
  BY DEF SameAttempt
<1>1. CASE AttemptLeaseLapses(c)
  <2>1. SameAttempt([row[c] EXCEPT !.leased = FALSE], row[c])
    BY <1>b DEF SameAttempt, GoodRow, Row
  <2>. QED BY <1>1, <2>1, <1>c, <1>e, <1>f, AttemptFrame DEF AttemptLeaseLapses
<1>2. CASE JobLeaseLapses(c)
  <2>1. SameAttempt([row[c] EXCEPT !.rec = [row[c].rec EXCEPT !.owner = None]], row[c])
    BY <1>b DEF SameAttempt, GoodRow, Row
  <2>. QED BY <1>2, <2>1, <1>c, <1>e, <1>f, AttemptFrame DEF JobLeaseLapses
<1>3. CASE QuoteExpires(c) \/ WorkerClaim(c)
  BY <1>3, <1>c, <1>d, <1>e, AttemptFrame DEF QuoteExpires, WorkerClaim
<1>4. CASE Approve(c)
  BY <1>4, <1>b, <1>c, <1>e, <1>f, EnqueuedKept, AttemptFrame DEF Approve
<1>5. CASE Deny(c)
  <2>1. row[c].state # "absent" BY <1>5 DEF Deny
  <2>2. \A sched : SameAttempt(
          [row[c] EXCEPT !.state = "refused", !.result = "refused", !.rec = sched], row[c])
    BY <2>1, <1>b DEF SameAttempt, GoodRow, Row
  <2>3. RowsKept BY <1>5, <1>f, <2>2 DEF Deny
  <2>. QED BY <1>5, <2>3, <1>c, <1>e, AttemptFrame DEF Deny
<1>6. CASE Cancel(c)
  <2> DEFINE x == [row[c] EXCEPT !.state = "cancelled", !.result = "refused", !.work = FALSE]
  <2>1. row[c].state # "absent" BY <1>6 DEF Cancel
  <2>2. x \in GoodRow /\ SameAttempt(x, row[c])
    BY <2>1, <1>b DEF SameAttempt, GoodRow, Row
  <2>3. RowBecomes(c, WithRefund(x)) BY <1>6 DEF Cancel
  <2> HIDE DEF x
  <2>4. RowsKept BY <2>2, <2>3, <1>f, <1>g, WithRefundKept
  <2>. QED BY <1>6, <2>4, <1>c, <1>e, AttemptFrame DEF Cancel
<1>7. CASE CancelRefused(c)
  BY <1>7, <1>b, <1>c, <1>e, <1>f, WithRecoveryKept, AttemptFrame DEF CancelRefused
<1>8. CASE WorkerRefuse(c)
  <2> DEFINE x == [row[c] EXCEPT !.state = "refused", !.result = "refused"]
  <2>1. row[c].state # "absent" BY <1>8 DEF WorkerRefuse
  <2>2. x \in GoodRow /\ SameAttempt(x, row[c])
    BY <2>1, <1>b DEF SameAttempt, GoodRow, Row
  <2>3. RowBecomes(c, WithRefund(x)) BY <1>8 DEF WorkerRefuse
  <2> HIDE DEF x
  <2>4. RowsKept BY <2>2, <2>3, <1>f, <1>g, WithRefundKept
  <2>. QED BY <1>8, <2>4, <1>c, <1>e, AttemptFrame DEF WorkerRefuse
<1>9. CASE WorkFails(c)
  <2> DEFINE x == [row[c] EXCEPT !.state = "reconciliation_required",
                     !.result = "reconciliation_required"]
             y == [row[c] EXCEPT !.state = "refused", !.result = "refused"]
  <2>1. row[c].state # "absent" BY <1>9 DEF WorkFails
  <2>2. x \in GoodRow /\ SameAttempt(x, row[c]) /\ SameAttempt(y, row[c])
    BY <2>1, <1>b DEF SameAttempt, GoodRow, Row
  <2>3. RowBecomes(c, WithRecovery(x)) \/ RowBecomes(c, y) BY <1>9 DEF WorkFails
  <2> HIDE DEF x, y
  <2>4. RowsKept BY <2>2, <2>3, <1>f, <1>g, WithRecoveryKept
  <2>. QED BY <1>9, <2>4, <1>c, <1>e, AttemptFrame DEF WorkFails
<1>. QED BY <1>1, <1>2, <1>3, <1>4, <1>5, <1>6, <1>7, <1>8, <1>9 DEF CallStep

LEMMA AttemptNext == TypeInv /\ AttemptInv /\ [Next]_vars => AttemptInv'
<1>. SUFFICES ASSUME TypeInv, AttemptInv, [Next]_vars PROVE AttemptInv'
  OBVIOUS
<1>d. UNCHANGED row => RowsKept
  BY DEF RowsKept, SameAttempt
<1>e. UNCHANGED <<ledger, wire>> => ReservesKept
  BY DEF ReservesKept, Reserved
<1>r. UNCHANGED req => RequestsKept
  BY DEF RequestsKept
<1>1. ASSUME NEW r \in Requests, RequestStep(r) PROVE AttemptInv'
  BY <1>1, AttemptRequestStep
<1>2. ASSUME NEW r \in Requests, CrashRequest(r) PROVE AttemptInv'
  <2>1. RequestsKept BY <1>2, StopKept DEF CrashRequest, TypeInv
  <2>2. CASE req[r].pc = "write"
    <3>1. req'[r].pc = "idle"
      BY <1>2 DEF CrashRequest, Stop, RequestBecomes, IdleRequest, TypeInv, RequestOK
    <3>2. \A d \in Calls : d # req[r].call => (Reserved(d)' => Reserved(d))
      BY <1>2 DEF CrashRequest, Reserved
    <3>. QED BY <2>1, <2>2, <3>1, <3>2, <1>2, AttemptPost DEF CrashRequest
  <2>3. CASE req[r].pc # "write"
    BY <2>1, <2>3, <1>2, <1>d, <1>e, AttemptFrame DEF CrashRequest
  <2>. QED BY <2>2, <2>3
<1>3. ASSUME NEW r \in Requests, NEW c \in Calls, Admit(r, c) PROVE AttemptInv'
  <2> DEFINE q == [IdleRequest EXCEPT !.pc = IF Offered(c) THEN "reserve" ELSE "stored",
                     !.call = c]
  <2>1. q.pc \notin PostClaim
    BY IdleRequestType DEF GoodRequest, Request, PostClaim
  <2>2. RequestBecomes(r, q) BY <1>3 DEF Admit
  <2> HIDE DEF q
  <2>3. RequestsKept BY <2>1, <2>2, BecomesKept DEF TypeInv
  <2>. QED BY <2>3, <1>3, <1>d, <1>e, AttemptFrame DEF Admit
<1>4. ASSUME NEW j \in Jobs, JobStep(j) PROVE AttemptInv'
  BY <1>4, AttemptJobStep
<1>5. ASSUME NEW j \in Jobs, CrashJob(j) PROVE AttemptInv'
  <2>1. ReservesKept BY <1>5 DEF CrashJob, ReservesKept, Reserved
  <2>. QED BY <2>1, <1>5, <1>d, <1>r, AttemptFrame DEF CrashJob
<1>6. ASSUME NEW j \in Jobs, NEW c \in Calls, JobStart(j, c) PROVE AttemptInv'
  BY <1>6, <1>d, <1>e, <1>r, AttemptFrame DEF JobStart
<1>7. ASSUME NEW c \in Calls, CallStep(c) PROVE AttemptInv'
  BY <1>7, AttemptCallStep
<1>8. ASSUME NEW c \in Calls, NEW b \in Bundles, LateWrite(c, b) \/ LostWrite(c, b)
      PROVE  AttemptInv'
  <2>1. ReservesKept
    BY <1>8 DEF LateWrite, LostWrite, Post, ReservesKept, Reserved, TypeInv, LedgerOK
  <2>. QED BY <2>1, <1>8, <1>d, <1>r, AttemptFrame DEF LateWrite, LostWrite
<1>9. CASE UNCHANGED vars
  BY <1>9, <1>d, <1>e, <1>r, AttemptFrame DEF vars
<1>. QED BY <1>1, <1>2, <1>3, <1>4, <1>5, <1>6, <1>7, <1>8, <1>9 DEF Next

LEMMA AttemptInit == Init => AttemptInv
BY DEF Init, AttemptInv, AbandonedNeverHeld, IdleRequest, AbsentRow, PostClaim

(* The attempts on a Call keep their numbers apart and only an undisputed   *)
(* first attempt may hand the Quote back.                                   *)
THEOREM AttemptsDisciplined == Spec => []AttemptInv
<1>1. TypeInv /\ AttemptInv /\ [Next]_vars => AttemptInv'
  BY AttemptNext
<1>. QED BY <1>1, AttemptInit, TypeInvariant, PTL DEF Spec

(* An abandoned Call never has the buyer's money held for it.               *)
THEOREM AbandonedIsSafe == Spec => []AbandonedNeverHeld
<1>1. AttemptInv => AbandonedNeverHeld
  BY DEF AttemptInv
<1>. QED BY <1>1, AttemptsDisciplined, PTL
=============================================================================
