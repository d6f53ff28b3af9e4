---------------------------- MODULE HoldProofs ----------------------------
(***************************************************************************)
(* The buyer's money in Reservation, for any number of Calls, requests and *)
(* jobs: the rows say what the ledger did, a claimed Call is not refunded, *)
(* a Call that ended is, credit is conserved, and BuyerHold is implemented.*)
(***************************************************************************)
EXTENDS ReservationProofs

-----------------------------------------------------------------------------
(* HoldInv is preserved by any step that moves rows, the ledger, requests   *)
(* and jobs in the ways below.                                              *)

Ended(x) == x.state \in {"refused", "cancelled"}

(* RowConsistent of a record *)
Consistent(x) ==
  /\ x.refs <=> x.fin \in {"reserved", "released"}
  /\ x.work \/ x.result = "needs_authority" \/ Ended(x) => x.refs
  /\ x.state = "absent" => ~x.refs /\ x.result = "none"
  /\ x.state \notin {"absent", "pending"} => x.result # "none"
  /\ Ended(x) /\ x.fin = "reserved" => x.rec.reason = "refund_pending"

Moves(x, y) ==
  /\ Consistent(y)
  /\ x.refs => y.refs
  /\ Ended(x) => y.state = x.state
  /\ x.refs \/ x.result # "none" => y.refs \/ y.result # "none"

(* what a row may become, given what the ledger has *)
MovesOn(c, y) ==
  /\ Moves(row[c], y)
  /\ y.refs /\ ~row[c].refs => "reserve" \in ledger[c]
  /\ y.fin = "released" /\ row[c].fin # "released" => "release" \in ledger[c]

RowsMove == \A c \in Calls :
  /\ MovesOn(c, row'[c])
  /\ claimed'[c] => row'[c].work /\ ~Ended(row'[c])

Refunded(c) == "release" \in ledger[c] \/ <<c, "release">> \in wire

LedgerMoves == \A c \in Calls :
  /\ ledger[c] \subseteq ledger'[c]
  /\ Refunded(c)' => Refunded(c) \/ Terminal(c)

RequestsMove == \A r \in Requests : req'[r] = req[r] \/ RequestKnows(r)'
JobsMove == \A j \in Jobs : job'[j] = job[j] \/ JobKnows(j)'

LEMMA ConsistentRow == \A c : RowConsistent(c) <=> Consistent(row[c])
BY DEF RowConsistent, Consistent, Terminal, Ended, Present, Answered

LEMMA HoldFrame ==
  ASSUME TypeInv, HoldInv, RowsMove, LedgerMoves, RequestsMove, JobsMove
  PROVE  HoldInv'
<1>a. \A c \in Calls : Consistent(row[c]) /\ RowBacked(c)
  BY ConsistentRow DEF HoldInv
<1>1. ASSUME NEW c \in Calls PROVE RowConsistent(c)'
  BY <1>1 DEF RowsMove, MovesOn, Moves, Consistent, RowConsistent, Terminal, Ended, Present,
            Answered
<1>2. ASSUME NEW c \in Calls PROVE RowBacked(c)'
  <2>1. row'[c].refs => "reserve" \in ledger'[c]
    BY <1>a DEF RowsMove, MovesOn, LedgerMoves, RowBacked
  <2>2. row'[c].fin = "released" => "release" \in ledger'[c]
    BY <1>a DEF RowsMove, MovesOn, LedgerMoves, RowBacked
  <2>3. claimed'[c] => row'[c].work /\ ~Terminal(c)'
    BY DEF RowsMove, Terminal, Ended
  <2>4. Refunded(c)' => Terminal(c)'
    BY <1>a DEF RowsMove, MovesOn, Moves, LedgerMoves, RowBacked, Refunded, Terminal, Ended
  <2>. QED BY <2>1, <2>2, <2>3, <2>4 DEF RowBacked, Refunded
<1>3. ASSUME NEW r \in Requests PROVE RequestKnows(r)'
  <2>1. CASE req'[r] # req[r] BY <2>1 DEF RequestsMove
  <2>2. CASE req'[r] = req[r]
    <3>1. req[r].pc # "idle" => req[r].call \in Calls
      BY InFlight
    <3>2. RequestKnows(r) BY DEF HoldInv
    <3>3. req[r].pc # "idle" => /\ ledger[req[r].call] \subseteq ledger'[req[r].call]
                                /\ Moves(row[req[r].call], row'[req[r].call])
      BY <3>1 DEF RowsMove, MovesOn, LedgerMoves
    <3>. QED BY <2>2, <3>2, <3>3 DEF RequestKnows, Answered, Moves
  <2>. QED BY <2>1, <2>2
<1>4. ASSUME NEW j \in Jobs PROVE JobKnows(j)'
  <2>1. CASE job'[j] # job[j] BY <2>1 DEF JobsMove
  <2>2. CASE job'[j] = job[j]
    <3>1. job[j].pc # "idle" => job[j].call \in Calls
      BY JobInFlight
    <3>2. JobKnows(j) BY DEF HoldInv
    <3>3. job[j].pc # "idle" => /\ ledger[job[j].call] \subseteq ledger'[job[j].call]
                                /\ Moves(row[job[j].call], row'[job[j].call])
      BY <3>1 DEF RowsMove, MovesOn, LedgerMoves
    <3>. QED BY <2>2, <3>2, <3>3 DEF JobKnows, Terminal, Moves, Ended
  <2>. QED BY <2>1, <2>2
<1>. QED BY <1>1, <1>2, <1>3, <1>4 DEF HoldInv

HoldMoves == RowsMove /\ LedgerMoves /\ RequestsMove /\ JobsMove

LEMMA AllMove == RowsMove /\ LedgerMoves /\ RequestsMove /\ JobsMove => HoldMoves
BY DEF HoldMoves

-----------------------------------------------------------------------------
(* How the helpers of the actions move things.                              *)

LEMMA RowsStay ==
  ASSUME HoldInv, UNCHANGED <<row, claimed>>
  PROVE  RowsMove
BY ConsistentRow DEF HoldInv, RowBacked, RowsMove, MovesOn, Moves, Terminal, Ended

LEMMA RowMoves ==
  ASSUME TypeInv, HoldInv, NEW c \in Calls, NEW x, RowBecomes(c, x), UNCHANGED claimed,
         MovesOn(c, x), claimed[c] => x.work /\ ~Ended(x)
  PROVE  RowsMove
<1>1. row'[c] = x /\ \A d \in Calls : d # c => row'[d] = row[d]
  BY DEF RowBecomes, TypeInv, RowOK
<1>2. \A d \in Calls : MovesOn(d, row[d]) /\ (claimed[d] => row[d].work /\ ~Ended(row[d]))
  BY ConsistentRow DEF HoldInv, RowBacked, MovesOn, Moves, Terminal, Ended
<1>. QED BY <1>1, <1>2 DEF RowsMove

LEMMA LedgerStays ==
  ASSUME UNCHANGED <<ledger, wire>>
  PROVE  LedgerMoves
BY DEF LedgerMoves, Refunded

LEMMA RequestMoves ==
  ASSUME TypeInv, NEW r \in Requests, NEW q, RequestBecomes(r, q), RequestKnows(r)'
  PROVE  RequestsMove
BY DEF RequestBecomes, RequestsMove, TypeInv, RequestOK

Careful == {"attach", "replay", "dispatch", "record"}

LEMMA RequestLeaves ==
  ASSUME TypeInv, NEW r \in Requests, NEW q, RequestBecomes(r, q), q.pc \notin Careful
  PROVE  RequestsMove
<1>1. req'[r] = q BY DEF RequestBecomes, TypeInv, RequestOK
<1>2. RequestKnows(r)' BY <1>1 DEF RequestKnows, Careful
<1>. QED BY <1>2, RequestMoves

LEMMA GotoMoves ==
  ASSUME TypeInv, NEW r \in Requests, NEW pc, Goto(r, pc)
  PROVE  req'[r] = [req[r] EXCEPT !.pc = pc] /\ req'[r].pc = pc /\ req'[r].call = req[r].call
BY DEF Goto, RequestBecomes, TypeInv, RequestOK, GoodRequest, Request

LEMMA GotoLeaves ==
  ASSUME TypeInv, NEW r \in Requests, NEW pc, Goto(r, pc), pc \notin Careful
  PROVE  RequestsMove
<1>1. [req[r] EXCEPT !.pc = pc].pc = pc
  BY DEF TypeInv, RequestOK, GoodRequest, Request
<1>. QED BY <1>1, RequestLeaves DEF Goto

LEMMA StopMoves == ASSUME TypeInv, NEW r \in Requests, Stop(r) PROVE RequestsMove
BY RequestLeaves DEF Stop, IdleRequest, Careful

LEMMA AnswerMoves ==
  ASSUME TypeInv, NEW r \in Requests, req[r].pc # "idle", NEW result, result # "none",
         Answer(r, result), row'[req[r].call].refs
  PROVE  RequestsMove
<1>1. CASE Stop(r) BY <1>1, StopMoves
<1>2. CASE RequestBecomes(r, [req[r] EXCEPT !.pc = "record", !.result = result])
  <2>1. /\ req'[r].pc = "record" /\ req'[r].result = result /\ req'[r].call = req[r].call
    BY <1>2 DEF RequestBecomes, TypeInv, RequestOK, GoodRequest, Request
  <2>2. RequestKnows(r)' BY <2>1 DEF RequestKnows
  <2>. QED BY <1>2, <2>2, RequestMoves
<1>. QED BY <1>1, <1>2 DEF Answer

LEMMA RequestsStay == UNCHANGED req => RequestsMove
BY DEF RequestsMove

LEMMA JobsStay == UNCHANGED job => JobsMove
BY DEF JobsMove

LEMMA JobMoves ==
  ASSUME TypeInv, NEW j \in Jobs, NEW b, JobBecomes(j, b), JobKnows(j)'
  PROVE  JobsMove
BY DEF JobBecomes, JobsMove, TypeInv, JobOK

LEMMA JobLeaves ==
  ASSUME TypeInv, NEW j \in Jobs, NEW b, JobBecomes(j, b),
         b.pc \notin {"booking", "write", "finalize"}
  PROVE  JobsMove
<1>1. job'[j] = b BY DEF JobBecomes, TypeInv, JobOK
<1>2. JobKnows(j)' BY <1>1 DEF JobKnows
<1>. QED BY <1>2, JobMoves

LEMMA GotoJobLeaves ==
  ASSUME TypeInv, NEW j \in Jobs, NEW pc, GotoJob(j, pc),
         pc \notin {"booking", "write", "finalize"}
  PROVE  JobsMove
<1>1. [job[j] EXCEPT !.pc = pc].pc = pc BY DEF TypeInv, JobOK, GoodJob, Job
<1>. QED BY <1>1, JobLeaves DEF GotoJob

LEMMA OutcomeLeaves ==
  ASSUME TypeInv, NEW j \in Jobs, NEW outcome, Outcome(j, outcome)
  PROVE  JobsMove
<1>1. [job[j] EXCEPT !.pc = "finish", !.outcome = outcome].pc = "finish"
  BY DEF TypeInv, JobOK, GoodJob, Job
<1>. QED BY <1>1, JobLeaves DEF Outcome

LEMMA StopJobLeaves == ASSUME TypeInv, NEW j \in Jobs, StopJob(j) PROVE JobsMove
BY JobLeaves DEF StopJob, IdleJob

LEMMA GotoJobMoves ==
  ASSUME TypeInv, NEW j \in Jobs, NEW pc, GotoJob(j, pc)
  PROVE  job'[j].pc = pc /\ job'[j].call = job[j].call
BY DEF GotoJob, JobBecomes, TypeInv, JobOK, GoodJob, Job

-----------------------------------------------------------------------------
(* Rows.  What the handlers write keeps HoldMovess view of a row.            *)

LEMMA WithRefundConsistent ==
  ASSUME NEW x \in GoodRow, x.refs <=> x.fin \in {"reserved", "released"},
         x.refs, x.state # "absent", x.result # "none"
  PROVE  /\ Consistent(WithRefund(x))
         /\ WithRefund(x).refs = x.refs /\ WithRefund(x).state = x.state
         /\ WithRefund(x).result = x.result /\ WithRefund(x).fin = x.fin
         /\ WithRefund(x).work = x.work
<1> DEFINE s == AutomaticSchedule("refund_pending")
<1>1. s.reason = "refund_pending"
  BY NoScheduleType DEF AutomaticSchedule, Schedule
<1>2. s \in Schedule BY AutomaticScheduleType
<1> HIDE DEF s
<1>3. CASE x.fin = "reserved" /\ x.rec.reason # "refund_pending"
  <2>1. WithRefund(x) = [x EXCEPT !.rec = s] BY <1>3 DEF WithRefund, s
  <2>. QED BY <1>1, <1>2, <2>1 DEF Consistent, Ended, GoodRow, Row
<1>4. CASE ~(x.fin = "reserved" /\ x.rec.reason # "refund_pending")
  <2>1. WithRefund(x) = x BY <1>4 DEF WithRefund
  <2>. QED BY <1>4, <2>1 DEF Consistent, Ended
<1>. QED BY <1>3, <1>4

LEMMA WithRecoveryConsistent ==
  ASSUME NEW x \in GoodRow, Consistent(x)
  PROVE  /\ Consistent(WithRecovery(x))
         /\ WithRecovery(x).refs = x.refs /\ WithRecovery(x).state = x.state
         /\ WithRecovery(x).result = x.result /\ WithRecovery(x).fin = x.fin
         /\ WithRecovery(x).work = x.work
<1> DEFINE s == AutomaticSchedule("recovery_failed")
<1>1. s \in Schedule BY AutomaticScheduleType
<1> HIDE DEF s
<1>2. CASE x.state = "reconciliation_required" /\ x.rec.reason = "none"
  <2>1. WithRecovery(x) = [x EXCEPT !.rec = s] BY <1>2 DEF WithRecovery, s
  <2>. QED BY <1>1, <1>2, <2>1 DEF Consistent, Ended, GoodRow, Row
<1>3. CASE ~(x.state = "reconciliation_required" /\ x.rec.reason = "none")
  <2>1. WithRecovery(x) = x BY <1>3 DEF WithRecovery
  <2>. QED BY <2>1
<1>. QED BY <1>2, <1>3

LEMMA EnqueuedConsistent ==
  ASSUME NEW x \in GoodRow, Consistent(x), x.refs, x.state = "pending"
  PROVE  /\ Consistent(Enqueued(x))
         /\ Enqueued(x).refs = x.refs /\ Enqueued(x).state = x.state
         /\ Enqueued(x).result # "none" /\ Enqueued(x).fin = x.fin /\ Enqueued(x).work
BY DEF Enqueued, Consistent, Ended, GoodRow, Row

LEMMA AbsentConsistent == Consistent(AbsentRow) /\ ~AbsentRow.refs /\ AbsentRow.result = "none"
BY DEF AbsentRow, Consistent, Ended

(* An abandoned row was undecided, so nobody depended on its hold.          *)
LEMMA AbandonMoves ==
  ASSUME TypeInv, HoldInv, NEW c \in Calls, NEW g, MayAbandon(c, g), AbandonRow(c),
         UNCHANGED claimed
  PROVE  RowsMove
<1>1. row[c].state = "pending" /\ ~row[c].refs /\ row[c].result = "none" /\ ~row[c].work
  BY ConsistentRow DEF HoldInv, Consistent, MayAbandon, DispatchStarted
<1>2. ~claimed[c] BY <1>1 DEF HoldInv, RowBacked
<1>3. MovesOn(c, AbsentRow)
  <2>1. AbsentRow.fin # "released" BY DEF AbsentRow
  <2>. QED BY <1>1, <2>1, AbsentConsistent DEF MovesOn, Moves, Ended
<1>. QED BY <1>2, <1>3, RowMoves DEF AbandonRow

-----------------------------------------------------------------------------
(* One lemma per group of actions.                                          *)

LEMMA HoldRequestStep ==
  ASSUME TypeInv, AttemptInv, HoldInv, NEW r \in Requests, RequestStep(r)
  PROVE  HoldMoves
<1> DEFINE c == req[r].call
<1>a. req[r].pc # "idle"
  BY DEF RequestStep, AnswerStored, ReserveNew, ReserveReplayed, ReserveRefused, ReadBooking,
         BookingRefused, ClaimAttempt, ClaimBusy, WriteCompleted, WriteUnknown, WriteRejected,
         Attach, MarkUnknown, Abandon, Replay, Dispatch, NeedsAuthority, RefuseBeforeDispatch, Record
<1>b. c \in Calls /\ row[c] \in GoodRow /\ req[r] \in GoodRequest
  BY <1>a, InFlight
<1>c. Consistent(row[c]) /\ RowBacked(c) /\ RequestKnows(r)
  BY <1>b, ConsistentRow DEF HoldInv
<1>d. UNCHANGED job => JobsMove
  BY JobsStay
<1>e. UNCHANGED <<ledger, wire>> => LedgerMoves
  BY LedgerStays
<1>f. UNCHANGED <<row, claimed>> => RowsMove
  BY RowsStay
<1>g. (UNCHANGED <<row, ledger, wire, claimed, job>> /\ RequestsMove) => HoldMoves
  BY <1>d, <1>e, <1>f, AllMove
<1>h. ASSUME NEW x, MovesOn(c, x), claimed[c] => x.work /\ ~Ended(x),
             RowBecomes(c, x), UNCHANGED <<ledger, wire, claimed, job>>, RequestsMove
      PROVE  HoldMoves
  BY <1>b, <1>d, <1>e, <1>h, RowMoves, AllMove
<1>i. row[c] \in Row BY <1>b DEF GoodRow
<1> HIDE DEF c
<1>1. CASE AnswerStored(r) \/ ReserveRefused(r) \/ BookingRefused(r) \/ ClaimBusy(r)
  BY <1>1, <1>g, StopMoves DEF AnswerStored, ReserveRefused, BookingRefused, ClaimBusy
<1>2. CASE ReserveNew(r)
  <2>1. PICK taken \in SUBSET grant :
          RowBecomes(c, [AbsentRow EXCEPT !.state = "pending", !.credit = taken])
    BY <1>2 DEF ReserveNew, c
  <2> DEFINE x == [AbsentRow EXCEPT !.state = "pending", !.credit = taken]
  <2>2. /\ x.refs = AbsentRow.refs /\ x.fin = AbsentRow.fin /\ x.work = AbsentRow.work
        /\ x.result = AbsentRow.result /\ x.state = "pending"
    BY AbsentRowType DEF GoodRow, Row
  <2>3. /\ ~AbsentRow.refs /\ AbsentRow.fin = "reservation_pending" /\ ~AbsentRow.work
        /\ AbsentRow.result = "none"
    BY DEF AbsentRow
  <2>4. row[c].state = "absent" BY <1>2 DEF ReserveNew, Present, c
  <2>5. ~row[c].refs /\ row[c].result = "none" BY <2>4, <1>c DEF Consistent
  <2>6. ~claimed[c] BY <2>5, <1>c DEF RowBacked, Consistent
  <2>7. RowBecomes(c, x) BY <2>1
  <2> HIDE DEF x
  <2>8. MovesOn(c, x)
    BY <2>2, <2>3, <2>4, <2>5 DEF MovesOn, Moves, Consistent, Ended
  <2>9. [req[r] EXCEPT !.pc = "booking", !.initial = TRUE].pc \notin Careful
    BY <1>b DEF GoodRequest, Request, Careful
  <2>10. RequestsMove BY <1>2, <2>9, RequestLeaves DEF ReserveNew
  <2>. QED BY <1>2, <1>h, <2>6, <2>7, <2>8, <2>10 DEF ReserveNew
<1>3. CASE ReserveReplayed(r)
  BY <1>3, <1>g, GotoLeaves DEF ReserveReplayed, Careful
<1>4. CASE ReadBooking(r)
  <2>1. CASE ~Present(c)
    BY <1>4, <1>g, <2>1, StopMoves DEF ReadBooking, c
  <2>2. CASE Present(c) /\ row[c].fin = "outcome_unknown" /\ row[c].refs
    BY <1>c, <2>2 DEF Consistent
  <2>3. CASE Present(c) /\ row[c].fin = "reserved"
    <3>1. PICK pc \in {"dispatch", "replay"} : Goto(r, pc)
      BY <1>4, <2>3 DEF ReadBooking, c
    <3>2. row'[c].refs BY <1>4, <1>c, <2>3 DEF ReadBooking, Consistent
    <3>3. RequestKnows(r)'
      BY <3>1, <3>2, GotoMoves DEF RequestKnows, Answered, c
    <3>. QED BY <1>4, <1>g, <3>1, <3>3, RequestMoves DEF Goto, ReadBooking
  <2>4. CASE Present(c) /\ row[c].fin # "reserved" /\ ~row[c].refs
    <3>1. Goto(r, "claim") BY <1>4, <2>4 DEF ReadBooking, c
    <3>. QED BY <1>4, <1>g, <3>1, GotoLeaves DEF ReadBooking, Careful
  <2>5. CASE Present(c) /\ row[c].fin \notin {"reserved", "outcome_unknown"} /\ row[c].refs
    <3>1. Goto(r, "claim") BY <1>4, <2>5 DEF ReadBooking, c
    <3>. QED BY <1>4, <1>g, <3>1, GotoLeaves DEF ReadBooking, Careful
  <2>. QED BY <2>1, <2>2, <2>3, <2>4, <2>5
<1>5. CASE ClaimAttempt(r)
  <2> DEFINE b == Ambiguous(c, req[r].initial)
             x == [row[c] EXCEPT !.gen = row[c].gen + 1, !.leased = TRUE, !.ambiguous = b]
  <2>1. /\ x.refs = row[c].refs /\ x.fin = row[c].fin /\ x.work = row[c].work
        /\ x.result = row[c].result /\ x.state = row[c].state /\ x.rec = row[c].rec
    BY <1>i DEF Row
  <2>2. RowBecomes(c, x) BY <1>5 DEF ClaimAttempt, c
  <2>3. [req[r] EXCEPT !.pc = "write", !.gen = row[c].gen + 1].pc \notin Careful
    BY <1>b DEF GoodRequest, Request, Careful
  <2>4. RequestsMove BY <1>5, <2>3, RequestLeaves DEF ClaimAttempt, c
  <2> HIDE DEF x
  <2>5. MovesOn(c, x) BY <1>c, <2>1 DEF MovesOn, Moves, Consistent, Ended
  <2>6. claimed[c] => x.work /\ ~Ended(x) BY <1>c, <2>1 DEF RowBacked, Terminal, Ended
  <2>. QED BY <1>5, <1>h, <2>2, <2>4, <2>5, <2>6 DEF ClaimAttempt
<1>6. CASE WriteCompleted(r)
  <2>1. LedgerMoves
    BY <1>6, <1>b DEF WriteCompleted, Post, LedgerMoves, Refunded, TypeInv, LedgerOK, c
  <2>2. "reserve" \in ledger'[c]
    BY <1>6, <1>b DEF WriteCompleted, Post, TypeInv, LedgerOK, c
  <2>a. req'[r].pc = "attach" /\ req'[r].call = c
    BY <1>6, GotoMoves DEF WriteCompleted, c
  <2>3. RequestKnows(r)' BY <2>2, <2>a DEF RequestKnows
  <2>4. RequestsMove BY <1>6, <2>3, RequestMoves DEF WriteCompleted, Goto
  <2>. QED BY <1>6, <1>d, <1>f, <2>1, <2>4, AllMove DEF WriteCompleted
<1>7. CASE WriteUnknown(r)
  <2>1. LedgerMoves BY <1>7 DEF WriteUnknown, LedgerMoves, Refunded
  <2>2. RequestsMove BY <1>7, GotoLeaves DEF WriteUnknown, Careful
  <2>. QED BY <1>7, <1>d, <1>f, <2>1, <2>2, AllMove DEF WriteUnknown
<1>8. CASE WriteRejected(r)
  BY <1>8, <1>g, GotoLeaves DEF WriteRejected, Careful
<1>9. CASE Attach(r)
  <2> DEFINE x == [row[c] EXCEPT !.state = "pending", !.fin = "reserved", !.refs = TRUE,
                     !.result = IF Recovering(c) THEN "none" ELSE @]
  <2>1. CASE Attachable(c)
    <3>1. RowBecomes(c, x) BY <1>9, <2>1 DEF Attach, c
    <3>2. /\ x.refs /\ x.fin = "reserved" /\ x.state = "pending" /\ x.work = row[c].work
      BY <1>i DEF Row
    <3> HIDE DEF x
    <3>3. row[c].state \in {"pending", "reconciliation_required"} /\ ~row[c].refs
      BY <2>1 DEF Attachable, Recovering
    <3>4. "reserve" \in ledger[c] BY <1>9, <1>c DEF Attach, RequestKnows, c
    <3>5. MovesOn(c, x) BY <3>2, <3>3, <3>4 DEF MovesOn, Moves, Consistent, Ended
    <3>6. ~claimed[c] BY <1>c, <3>3 DEF RowBacked, Consistent
    <3>7. row'[c].refs
      BY <1>b, <3>1, <3>2 DEF RowBecomes, TypeInv, RowOK
    <3>8. PICK pc \in {"dispatch", "replay"} : Goto(r, pc)
      BY <1>9, <2>1 DEF Attach, c
    <3>9. RequestKnows(r)' BY <3>7, <3>8, GotoMoves DEF RequestKnows, Answered, c
    <3>10. RequestsMove BY <3>8, <3>9, RequestMoves DEF Goto
    <3>. QED BY <1>9, <1>h, <3>1, <3>5, <3>6, <3>10 DEF Attach
  <2>2. CASE ~Attachable(c) /\ row[c].refs
    <3>1. PICK pc \in {"dispatch", "replay"} : Goto(r, pc)
      BY <1>9, <2>2 DEF Attach, c
    <3>2. row'[c].refs BY <1>9, <2>2 DEF Attach, c
    <3>3. RequestKnows(r)' BY <3>1, <3>2, GotoMoves DEF RequestKnows, Answered, c
    <3>4. RequestsMove BY <3>1, <3>3, RequestMoves DEF Goto
    <3>. QED BY <1>9, <1>g, <2>2, <3>4 DEF Attach, c
  <2>3. CASE ~Attachable(c) /\ ~row[c].refs
    <3>1. Goto(r, "markUnknown") BY <1>9, <2>3 DEF Attach, c
    <3>2. RequestsMove BY <3>1, GotoLeaves DEF Careful
    <3>. QED BY <1>9, <1>g, <2>3, <3>2 DEF Attach, c
  <2>. QED BY <2>1, <2>2, <2>3
<1>10. CASE MarkUnknown(r)
  <2> DEFINE x == [row[c] EXCEPT !.fin = "outcome_unknown",
                     !.state = "reconciliation_required", !.result = "reconciliation_required"]
             q == [req[r] EXCEPT !.pc = "replay", !.initial = FALSE]
  <2>1. q.pc = "replay" /\ q.call = c BY <1>b DEF GoodRequest, Request, c
  <2>2. RequestBecomes(r, q) BY <1>10 DEF MarkUnknown
  <2>3. req'[r] = q BY <2>2 DEF RequestBecomes, TypeInv, RequestOK
  <2>4. /\ x.refs = row[c].refs /\ x.fin = "outcome_unknown" /\ x.work = row[c].work
        /\ x.state = "reconciliation_required" /\ x.result = "reconciliation_required"
    BY <1>i DEF Row
  <2>5. CASE MayMarkUnknown(c)
    <3>1. RowBecomes(c, x) BY <1>10, <2>5 DEF MarkUnknown, c
    <3>2. row'[c] = x BY <1>b, <3>1 DEF RowBecomes, TypeInv, RowOK
    <3> HIDE DEF x, q
    <3>3. ~row[c].refs BY <2>5 DEF MayMarkUnknown
    <3>4. ~Ended(row[c]) /\ ~row[c].work BY <1>c, <3>3 DEF Consistent
    <3>5. MovesOn(c, x) BY <2>4, <3>3, <3>4 DEF MovesOn, Moves, Consistent, Ended
    <3>6. ~claimed[c] BY <1>c, <3>4 DEF RowBacked
    <3>7. row'[c].result # "none" BY <2>4, <3>2
    <3>8. RequestKnows(r)' BY <2>1, <2>3, <3>7 DEF RequestKnows, Answered
    <3>9. RequestsMove BY <2>2, <3>8, RequestMoves
    <3>. QED BY <1>10, <1>h, <3>1, <3>5, <3>6, <3>9 DEF MarkUnknown
  <2>6. CASE ~MayMarkUnknown(c)
    <3> HIDE DEF x, q
    <3>1. Present(c) BY <1>10 DEF MarkUnknown, AttemptInv, PostClaim, c
    <3>2. row[c].refs \/ row[c].result # "none"
      BY <1>c, <2>6, <3>1 DEF MayMarkUnknown, Consistent, Present
    <3>3. UNCHANGED row BY <1>10, <2>6 DEF MarkUnknown, c
    <3>4. RequestKnows(r)' BY <2>1, <2>3, <3>2, <3>3 DEF RequestKnows, Answered
    <3>5. RequestsMove BY <2>2, <3>4, RequestMoves
    <3>. QED BY <1>10, <1>g, <3>3, <3>5 DEF MarkUnknown
  <2>. QED BY <2>5, <2>6
<1>11. CASE Abandon(r)
  <2>1. RequestsMove BY <1>11, StopMoves DEF Abandon
  <2>2. CASE MayAbandon(c, req[r].gen)
    <3>1. RowsMove BY <1>11, <1>b, <2>2, AbandonMoves DEF Abandon, c
    <3>. QED BY <1>11, <1>d, <1>e, <2>1, <3>1, AllMove DEF Abandon
  <2>3. CASE ~MayAbandon(c, req[r].gen)
    BY <1>11, <1>g, <2>1, <2>3 DEF Abandon, c
  <2>. QED BY <2>2, <2>3
<1>12. CASE Replay(r)
  <2>1. CASE row[c].result # "none"
    BY <1>12, <1>g, <2>1, StopMoves DEF Replay, c
  <2>2. CASE row[c].result = "none"
    <3>1. Goto(r, "dispatch") BY <1>12, <2>2 DEF Replay, c
    <3>2. row'[c].refs BY <1>12, <1>c, <2>2 DEF Replay, RequestKnows, Answered, c
    <3>a. req'[r].pc = "dispatch" /\ req'[r].call = c BY <3>1, GotoMoves DEF c
    <3>3. RequestKnows(r)' BY <3>2, <3>a DEF RequestKnows
    <3>4. RequestsMove BY <3>1, <3>3, RequestMoves DEF Goto
    <3>. QED BY <1>12, <1>g, <3>4 DEF Replay
  <2>. QED BY <2>1, <2>2
<1>13. CASE Dispatch(r)
  <2>1. row[c].refs BY <1>13, <1>c DEF Dispatch, RequestKnows, c
  <2>2. PICK x \in {row[c], Enqueued(row[c])} : RowBecomes(c, x)
    BY <1>13 DEF Dispatch, c
  <2>3. row[c].state = "pending" BY <1>13 DEF Dispatch, c
  <2>4. x.refs /\ x.state = "pending" /\ x.fin = row[c].fin /\ Consistent(x)
    BY <1>b, <1>c, <2>1, <2>2, <2>3, EnqueuedConsistent
  <2>5. row[c].work => x.work BY <1>b, <1>c, <2>1, <2>2, <2>3, EnqueuedConsistent
  <2>6. MovesOn(c, x) BY <2>1, <2>3, <2>4 DEF MovesOn, Moves, Ended
  <2>7. claimed[c] => x.work /\ ~Ended(x) BY <1>c, <2>4, <2>5 DEF RowBacked, Ended
  <2>8. row'[c].refs BY <1>b, <2>2, <2>4 DEF RowBecomes, TypeInv, RowOK
  <2>9. RequestsMove BY <1>13, <1>a, <2>8, AnswerMoves DEF Dispatch, c
  <2>. QED BY <1>13, <1>h, <2>2, <2>6, <2>7, <2>9 DEF Dispatch
<1>14. CASE NeedsAuthority(r)
  <2>1. row'[c].refs BY <1>14, <1>c DEF NeedsAuthority, RequestKnows, c
  <2>2. RequestsMove BY <1>14, <1>a, <2>1, AnswerMoves DEF NeedsAuthority, c
  <2>. QED BY <1>14, <1>g, <2>2 DEF NeedsAuthority
<1>15. CASE RefuseBeforeDispatch(r)
  <2>1. row[c].refs BY <1>15, <1>c DEF RefuseBeforeDispatch, RequestKnows, c
  <2>2. ~MayAbandon(c, 0)
    BY <1>c, <2>1 DEF MayAbandon, DispatchStarted, Consistent
  <2>3. UNCHANGED row /\ row'[c].refs
    BY <1>15, <2>1, <2>2 DEF RefuseBeforeDispatch, c
  <2>4. RequestsMove
    BY <1>15, <1>a, <2>2, <2>3, StopMoves, AnswerMoves DEF RefuseBeforeDispatch, c
  <2>. QED BY <1>15, <1>g, <2>3, <2>4 DEF RefuseBeforeDispatch
<1>16. CASE Record(r)
  <2> DEFINE s == IF req[r].result = "reconciliation_required"
                  THEN "reconciliation_required" ELSE "pending"
             x == [row[c] EXCEPT !.state = s, !.result = req[r].result]
  <2>1. row[c].refs /\ req[r].result # "none"
    BY <1>16, <1>c DEF Record, RequestKnows, c
  <2>2. x \in GoodRow BY <1>b DEF GoodRow, Row, GoodRequest, Request
  <2>3. /\ x.refs = row[c].refs /\ x.fin = row[c].fin /\ x.work = row[c].work
        /\ x.state = s /\ x.result = req[r].result
    BY <1>i DEF Row
  <2>4. s \in {"pending", "reconciliation_required"} OBVIOUS
  <2>5. IF Recordable(c, s) THEN RowBecomes(c, WithRecovery(x))
        ELSE RowBecomes(c, WithRecovery(row[c]))
    BY <1>16 DEF Record, c
  <2> HIDE DEF x, s
  <2>6. Consistent(x) BY <1>c, <2>1, <2>3, <2>4 DEF Consistent, Ended
  <2>7. RequestsMove BY <1>16, StopMoves DEF Record
  <2>8. CASE Recordable(c, s)
    <3>1. RowBecomes(c, WithRecovery(x)) BY <2>5, <2>8
    <3>2. row[c].state \in {"pending", "reconciliation_required"}
      BY <2>4, <2>8 DEF Recordable
    <3>3. MovesOn(c, WithRecovery(x))
      BY <2>1, <2>2, <2>3, <2>6, <3>2, WithRecoveryConsistent DEF MovesOn, Moves, Ended
    <3>4. claimed[c] => WithRecovery(x).work /\ ~Ended(WithRecovery(x))
      BY <1>c, <2>2, <2>3, <2>4, <2>6, WithRecoveryConsistent DEF RowBacked, Ended
    <3>. QED BY <1>16, <1>h, <2>7, <3>1, <3>3, <3>4 DEF Record
  <2>9. CASE ~Recordable(c, s)
    <3>1. RowBecomes(c, WithRecovery(row[c])) BY <2>5, <2>9
    <3>2. MovesOn(c, WithRecovery(row[c]))
      BY <1>b, <1>c, <2>1, WithRecoveryConsistent DEF MovesOn, Moves, Ended
    <3>3. claimed[c] => WithRecovery(row[c]).work /\ ~Ended(WithRecovery(row[c]))
      BY <1>b, <1>c, WithRecoveryConsistent DEF RowBacked, Ended, Terminal
    <3>. QED BY <1>16, <1>h, <2>7, <3>1, <3>2, <3>3 DEF Record
  <2>. QED BY <2>8, <2>9
<1>. QED BY <1>1, <1>2, <1>3, <1>4, <1>5, <1>6, <1>7, <1>8, <1>9, <1>10, <1>11, <1>12, <1>13,
            <1>14, <1>15, <1>16 DEF RequestStep

(* JobFinish leaves a refund schedule unless the hold is released.          *)
LEMMA FinishConsistent ==
  ASSUME TypeInv, NEW j \in Jobs, JobFinish(j), NEW c \in Calls, c = job[j].call,
         Consistent(row[c]), UNCHANGED claimed, HoldInv
  PROVE  RowsMove
<1> DEFINE retry(reason) == [reason |-> reason, manual |-> GivesUp(row[c].rec.tries + 1),
                             tries |-> row[c].rec.tries + 1, owner |-> None]
<1>a. row[c] \in Row BY DEF TypeInv, RowOK, GoodRow
<1>b. \A sched : /\ [row[c] EXCEPT !.rec = sched].rec = sched
                 /\ [row[c] EXCEPT !.rec = sched].refs = row[c].refs
                 /\ [row[c] EXCEPT !.rec = sched].fin = row[c].fin
                 /\ [row[c] EXCEPT !.rec = sched].work = row[c].work
                 /\ [row[c] EXCEPT !.rec = sched].result = row[c].result
                 /\ [row[c] EXCEPT !.rec = sched].state = row[c].state
  BY <1>a DEF Row
<1>1. ASSUME NEW sched, RowBecomes(c, [row[c] EXCEPT !.rec = sched]),
             Ended(row[c]) /\ row[c].fin = "reserved" => sched.reason = "refund_pending"
      PROVE  RowsMove
  <2> DEFINE x == [row[c] EXCEPT !.rec = sched]
  <2>1. RowBecomes(c, x) BY <1>1
  <2>2. /\ x.rec = sched /\ x.refs = row[c].refs /\ x.fin = row[c].fin
        /\ x.work = row[c].work /\ x.result = row[c].result /\ x.state = row[c].state
    BY <1>b
  <2> HIDE DEF x
  <2>3. MovesOn(c, x) BY <1>1, <2>2 DEF MovesOn, Moves, Consistent, Ended
  <2>4. claimed[c] => x.work /\ ~Ended(x) BY <2>2 DEF HoldInv, RowBacked, Terminal, Ended
  <2>. QED BY <2>1, <2>3, <2>4, RowMoves
<1>2. CASE ~HasLease(j, c)
  BY <1>2, RowsStay DEF JobFinish
<1>3. CASE HasLease(j, c) /\ Ended(row[c]) /\ row[c].fin = "reserved"
  <2>1. IsRefund(c) /\ Early(c) BY <1>3 DEF IsRefund, Early, Consistent, Ended
  <2>2. RowBecomes(c, [row[c] EXCEPT !.rec = retry("refund_pending")])
    BY <1>3, <2>1 DEF JobFinish
  <2>3. retry("refund_pending").reason = "refund_pending" OBVIOUS
  <2> HIDE DEF retry
  <2>. QED BY <1>1, <2>2, <2>3
<1>4. CASE HasLease(j, c) /\ ~(Ended(row[c]) /\ row[c].fin = "reserved")
  <2>1. \/ RowBecomes(c, [row[c] EXCEPT !.rec = NoSchedule])
        \/ RowBecomes(c, [row[c] EXCEPT !.rec = retry("refund_pending")])
        \/ RowBecomes(c, [row[c] EXCEPT !.rec = retry("recovery_failed")])
        \/ RowBecomes(c, [row[c] EXCEPT !.rec = retry(row[c].rec.reason)])
    BY <1>4 DEF JobFinish
  <2> HIDE DEF retry
  <2>. QED BY <1>1, <1>4, <2>1
<1>. QED BY <1>2, <1>3, <1>4

LEMMA HoldJobStep ==
  ASSUME TypeInv, HoldInv, NEW j \in Jobs, JobStep(j)
  PROVE  HoldMoves
<1> DEFINE c == job[j].call
<1>a. job[j].pc # "idle"
  BY DEF JobStep, JobLease, JobStatus, JobProof, JobBooking, JobWriteCompleted, JobWriteFailed,
         JobFinalize, JobFinish
<1>b. c \in Calls /\ row[c] \in GoodRow
  BY <1>a, JobInFlight
<1>c. Consistent(row[c]) /\ RowBacked(c) /\ JobKnows(j)
  BY <1>b, ConsistentRow DEF HoldInv
<1>d. UNCHANGED req => RequestsMove
  BY RequestsStay
<1>e. UNCHANGED <<ledger, wire>> => LedgerMoves
  BY LedgerStays
<1>f. UNCHANGED <<row, claimed>> => RowsMove
  BY RowsStay
<1>g. (UNCHANGED <<row, ledger, wire, claimed, req>> /\ JobsMove) => HoldMoves
  BY <1>d, <1>e, <1>f, AllMove
<1>h. ASSUME NEW x, MovesOn(c, x), claimed[c] => x.work /\ ~Ended(x),
             RowBecomes(c, x), UNCHANGED <<ledger, wire, claimed, req>>, JobsMove
      PROVE  HoldMoves
  BY <1>b, <1>d, <1>e, <1>h, RowMoves, AllMove
<1>i. row[c] \in Row /\ row[c].rec \in Schedule BY <1>b DEF GoodRow, Row
<1> HIDE DEF c
<1>1. CASE JobLease(j)
  <2> DEFINE s == [row[c].rec EXCEPT !.owner = j]
             x == [row[c] EXCEPT !.rec = s]
  <2>1. CASE Due(c)
    <3>1. RowBecomes(c, x) BY <1>1, <2>1 DEF JobLease, c
    <3>2. s.reason = row[c].rec.reason BY <1>i DEF Schedule
    <3>3. /\ x.rec = s /\ x.refs = row[c].refs /\ x.fin = row[c].fin
          /\ x.work = row[c].work /\ x.result = row[c].result /\ x.state = row[c].state
      BY <1>i DEF Row
    <3> HIDE DEF x, s
    <3>4. MovesOn(c, x) BY <1>c, <3>2, <3>3 DEF MovesOn, Moves, Consistent, Ended
    <3>5. claimed[c] => x.work /\ ~Ended(x) BY <1>c, <3>3 DEF RowBacked, Terminal, Ended
    <3>6. PICK pc \in {"proof", "status"} : GotoJob(j, pc) BY <1>1, <2>1 DEF JobLease, c
    <3>7. JobsMove BY <3>6, GotoJobLeaves
    <3>. QED BY <1>1, <1>h, <3>1, <3>4, <3>5, <3>7 DEF JobLease
  <2>2. CASE ~Due(c)
    BY <1>1, <1>g, <2>2, StopJobLeaves DEF JobLease, c
  <2>. QED BY <2>1, <2>2
<1>2. CASE JobStatus(j)
  BY <1>2, <1>g, OutcomeLeaves DEF JobStatus
<1>3. CASE JobProof(j)
  <2>1. CASE RefundProof(c)
    <3>1. GotoJob(j, "booking") BY <1>3, <2>1 DEF JobProof, c
    <3>2. job'[j].pc = "booking" /\ job'[j].call = c BY <3>1, GotoJobMoves DEF c
    <3>3. Ended(row'[c]) BY <1>3, <2>1 DEF JobProof, RefundProof, IsRefund, Ended
    <3>4. JobKnows(j)' BY <3>2, <3>3 DEF JobKnows, Terminal, Ended
    <3>5. JobsMove BY <3>1, <3>4, JobMoves DEF GotoJob
    <3>. QED BY <1>3, <1>g, <3>5 DEF JobProof
  <2>2. CASE ~RefundProof(c)
    BY <1>3, <1>g, <2>2, OutcomeLeaves DEF JobProof, c
  <2>. QED BY <2>1, <2>2
<1>4. CASE JobBooking(j)
  <2>1. CASE GotoJob(j, "write")
    <3>2. job'[j].pc = "write" /\ job'[j].call = c BY <2>1, GotoJobMoves DEF c
    <3>3. Ended(row'[c]) BY <1>4, <1>c DEF JobBooking, JobKnows, Terminal, Ended, c
    <3>4. JobKnows(j)' BY <3>2, <3>3 DEF JobKnows, Terminal, Ended
    <3>5. JobsMove BY <2>1, <3>4, JobMoves DEF GotoJob
    <3>. QED BY <1>4, <1>g, <3>5 DEF JobBooking
  <2>2. CASE \E outcome \in {"success", "retry"} : Outcome(j, outcome)
    BY <1>4, <1>g, <2>2, OutcomeLeaves DEF JobBooking
  <2>. QED BY <1>4, <2>1, <2>2 DEF JobBooking
<1>5. CASE JobWriteCompleted(j)
  <2>0. Terminal(c) BY <1>5, <1>c DEF JobWriteCompleted, JobKnows, c
  <2>1. Post(c, "release") BY <1>5 DEF JobWriteCompleted, c
  <2>2. LedgerMoves
    BY <1>5, <1>b, <2>0, <2>1 DEF JobWriteCompleted, Post, LedgerMoves, Refunded, TypeInv, LedgerOK
  <2>3. "release" \in ledger'[c]
    BY <1>b, <2>1 DEF Post, TypeInv, LedgerOK
  <2>4. GotoJob(j, "finalize") BY <1>5 DEF JobWriteCompleted
  <2>5. job'[j].pc = "finalize" /\ job'[j].call = c BY <2>4, GotoJobMoves DEF c
  <2>6. Ended(row'[c]) BY <1>5, <2>0 DEF JobWriteCompleted, Terminal, Ended
  <2>7. JobKnows(j)' BY <2>3, <2>5, <2>6 DEF JobKnows, Terminal, Ended
  <2>8. JobsMove BY <2>4, <2>7, JobMoves DEF GotoJob
  <2>. QED BY <1>5, <1>d, <1>f, <2>2, <2>8, AllMove DEF JobWriteCompleted
<1>6. CASE JobWriteFailed(j)
  <2>1. Terminal(c) BY <1>6, <1>c DEF JobWriteFailed, JobKnows, c
  <2>2. LedgerMoves
    BY <1>6, <2>1 DEF JobWriteFailed, LedgerMoves, Refunded, c
  <2>3. JobsMove BY <1>6, OutcomeLeaves DEF JobWriteFailed
  <2>. QED BY <1>6, <1>d, <1>f, <2>2, <2>3, AllMove DEF JobWriteFailed
<1>7. CASE JobFinalize(j)
  <2>1. JobsMove BY <1>7, OutcomeLeaves DEF JobFinalize
  <2>2. CASE Releasable(c)
    <3> DEFINE x == [row[c] EXCEPT !.fin = "released"]
    <3>1. RowBecomes(c, x) BY <1>7, <2>2 DEF JobFinalize, c
    <3>2. /\ x.rec = row[c].rec /\ x.refs = row[c].refs /\ x.fin = "released"
          /\ x.work = row[c].work /\ x.result = row[c].result /\ x.state = row[c].state
      BY <1>i DEF Row
    <3> HIDE DEF x
    <3>3. "release" \in ledger[c] BY <1>7, <1>c DEF JobFinalize, JobKnows, c
    <3>4. row[c].fin = "reserved" BY <2>2 DEF Releasable
    <3>5. MovesOn(c, x)
      BY <1>c, <3>2, <3>3, <3>4 DEF MovesOn, Moves, Consistent, Ended
    <3>6. claimed[c] => x.work /\ ~Ended(x) BY <1>c, <3>2 DEF RowBacked, Terminal, Ended
    <3>. QED BY <1>7, <1>h, <2>1, <3>1, <3>5, <3>6 DEF JobFinalize
  <2>3. CASE ~Releasable(c)
    BY <1>7, <1>g, <2>1, <2>3 DEF JobFinalize, c
  <2>. QED BY <2>2, <2>3
<1>8. CASE JobFinish(j)
  <2>1. RowsMove BY <1>8, <1>b, <1>c, FinishConsistent DEF JobFinish, c
  <2>2. JobsMove BY <1>8, StopJobLeaves DEF JobFinish
  <2>. QED BY <1>8, <1>d, <1>e, <2>1, <2>2, AllMove DEF JobFinish
<1>. QED BY <1>1, <1>2, <1>3, <1>4, <1>5, <1>6, <1>7, <1>8 DEF JobStep

LEMMA HoldCallStep ==
  ASSUME TypeInv, HoldInv, NEW c \in Calls, CallStep(c)
  PROVE  HoldMoves
<1>b. row[c] \in GoodRow /\ row[c] \in Row /\ row[c].rec \in Schedule
  BY DEF TypeInv, RowOK, GoodRow, Row
<1>c. Consistent(row[c]) /\ RowBacked(c)
  BY ConsistentRow DEF HoldInv
<1>d. UNCHANGED <<req, job>> => RequestsMove /\ JobsMove
  BY RequestsStay, JobsStay
<1>e. UNCHANGED <<ledger, wire>> => LedgerMoves
  BY LedgerStays
<1>h. ASSUME NEW x, MovesOn(c, x), claimed[c] => x.work /\ ~Ended(x),
             RowBecomes(c, x), UNCHANGED <<ledger, wire, claimed, req, job>>
      PROVE  HoldMoves
  BY <1>d, <1>e, <1>h, RowMoves, AllMove
<1>i. ASSUME NEW x, x.refs = row[c].refs, x.fin = row[c].fin, x.work = row[c].work,
             x.result = row[c].result, x.state = row[c].state,
             x.rec.reason = row[c].rec.reason
      PROVE  MovesOn(c, x) /\ (claimed[c] => x.work /\ ~Ended(x))
  BY <1>c, <1>i DEF MovesOn, Moves, Consistent, Ended, RowBacked, Terminal
<1>j. ASSUME NEW x \in GoodRow, ~claimed[c], row[c].state = "pending", row[c].refs,
             x.refs = row[c].refs, x.fin = row[c].fin, x.result = "refused", Ended(x)
      PROVE  MovesOn(c, WithRefund(x))
  <2>1. x.state # "absent" /\ x.result # "none" BY <1>j DEF Ended
  <2>2. x.refs <=> x.fin \in {"reserved", "released"} BY <1>c, <1>j DEF Consistent
  <2>3. /\ Consistent(WithRefund(x)) /\ WithRefund(x).refs /\ WithRefund(x).fin = row[c].fin
    BY <1>j, <2>1, <2>2, WithRefundConsistent
  <2>. QED BY <1>j, <2>3 DEF MovesOn, Moves, Ended
<1>k. ~Uncertain(c) => row[c].refs
  BY <1>b, <1>c DEF Uncertain, Consistent, Row
<1>1. CASE AttemptLeaseLapses(c)
  <2> DEFINE x == [row[c] EXCEPT !.leased = FALSE]
  <2>1. /\ x.rec = row[c].rec /\ x.refs = row[c].refs /\ x.fin = row[c].fin
        /\ x.work = row[c].work /\ x.result = row[c].result /\ x.state = row[c].state
    BY <1>b DEF Row
  <2>2. RowBecomes(c, x) BY <1>1 DEF AttemptLeaseLapses
  <2> HIDE DEF x
  <2>. QED BY <1>1, <1>h, <1>i, <2>1, <2>2 DEF AttemptLeaseLapses
<1>2. CASE JobLeaseLapses(c)
  <2> DEFINE s == [row[c].rec EXCEPT !.owner = None]
             x == [row[c] EXCEPT !.rec = s]
  <2>1. /\ x.rec = s /\ x.refs = row[c].refs /\ x.fin = row[c].fin
        /\ x.work = row[c].work /\ x.result = row[c].result /\ x.state = row[c].state
    BY <1>b DEF Row
  <2>2. s.reason = row[c].rec.reason BY <1>b DEF Schedule
  <2>3. RowBecomes(c, x) BY <1>2 DEF JobLeaseLapses
  <2> HIDE DEF x, s
  <2>. QED BY <1>2, <1>h, <1>i, <2>1, <2>2, <2>3 DEF JobLeaseLapses
<1>3. CASE QuoteExpires(c)
  BY <1>3, <1>d, <1>e, RowsStay, AllMove DEF QuoteExpires
<1>4. CASE Approve(c)
  <2>1. row[c].refs /\ row[c].state = "pending" BY <1>4, <1>c DEF Approve, Consistent
  <2>2. /\ Consistent(Enqueued(row[c])) /\ Enqueued(row[c]).refs /\ Enqueued(row[c]).work
        /\ Enqueued(row[c]).state = "pending" /\ Enqueued(row[c]).fin = row[c].fin
    BY <1>b, <1>c, <2>1, EnqueuedConsistent
  <2>3. MovesOn(c, Enqueued(row[c])) BY <2>1, <2>2 DEF MovesOn, Moves, Ended
  <2>. QED BY <1>4, <1>h, <2>2, <2>3 DEF Approve, Ended
<1>5. CASE Deny(c)
  <2> DEFINE s == IF row[c].fin = "reserved" THEN AutomaticSchedule("refund_pending")
                  ELSE row[c].rec
             x == [row[c] EXCEPT !.state = "refused", !.result = "refused", !.rec = s]
  <2>1. /\ x.rec = s /\ x.refs = row[c].refs /\ x.fin = row[c].fin
        /\ x.result = "refused" /\ x.state = "refused"
    BY <1>b DEF Row
  <2>2. row[c].fin = "reserved" => s.reason = "refund_pending"
    BY NoScheduleType DEF AutomaticSchedule, Schedule
  <2>3. RowBecomes(c, x) BY <1>5 DEF Deny
  <2>4. row[c].refs /\ row[c].state = "pending" /\ ~row[c].work BY <1>5, <1>k DEF Deny
  <2> HIDE DEF x, s
  <2>5. ~claimed[c] BY <1>c, <2>4 DEF RowBacked
  <2>6. MovesOn(c, x) BY <1>c, <2>1, <2>2, <2>4 DEF MovesOn, Moves, Consistent, Ended
  <2>. QED BY <1>5, <1>h, <2>3, <2>5, <2>6 DEF Deny
<1>6. CASE Cancel(c)
  <2> DEFINE x == [row[c] EXCEPT !.state = "cancelled", !.result = "refused", !.work = FALSE]
  <2>1. /\ x.refs = row[c].refs /\ x.fin = row[c].fin /\ x.result = "refused"
        /\ x.state = "cancelled" /\ x \in GoodRow
    BY <1>b DEF GoodRow, Row
  <2>2. RowBecomes(c, WithRefund(x)) BY <1>6 DEF Cancel
  <2>3. row[c].refs /\ row[c].state = "pending" /\ ~claimed[c] BY <1>6, <1>k DEF Cancel
  <2> HIDE DEF x
  <2>4. MovesOn(c, WithRefund(x)) BY <1>j, <2>1, <2>3 DEF Ended
  <2>. QED BY <1>6, <1>h, <2>2, <2>3, <2>4 DEF Cancel
<1>7. CASE CancelRefused(c)
  <2>1. /\ Consistent(WithRecovery(row[c])) /\ WithRecovery(row[c]).refs = row[c].refs
        /\ WithRecovery(row[c]).state = row[c].state /\ WithRecovery(row[c]).fin = row[c].fin
        /\ WithRecovery(row[c]).result = row[c].result
    BY <1>b, <1>c, WithRecoveryConsistent
  <2>2. MovesOn(c, WithRecovery(row[c])) BY <2>1 DEF MovesOn, Moves
  <2>. QED BY <1>7, <1>h, <2>2 DEF CancelRefused
<1>8. CASE WorkerClaim(c)
  <2>1. \A d \in Calls : claimed'[d] => claimed[d] \/ d = c
    BY <1>8 DEF WorkerClaim, TypeInv, RestOK
  <2>2. \A d \in Calls : Moves(row[d], row[d]) /\ (claimed[d] => row[d].work /\ ~Ended(row[d]))
    BY ConsistentRow DEF HoldInv, Moves, RowBacked, Terminal, Ended
  <2>3. row' = row /\ row[c].work /\ ~Ended(row[c]) BY <1>8 DEF WorkerClaim, Ended
  <2>4. RowsMove BY <2>1, <2>2, <2>3 DEF RowsMove, MovesOn
  <2>. QED BY <1>8, <1>d, <1>e, <2>4, AllMove DEF WorkerClaim
<1>9. CASE WorkerRefuse(c)
  <2> DEFINE x == [row[c] EXCEPT !.state = "refused", !.result = "refused"]
  <2>1. /\ x.refs = row[c].refs /\ x.fin = row[c].fin /\ x.result = "refused"
        /\ x.state = "refused" /\ x \in GoodRow
    BY <1>b DEF GoodRow, Row
  <2>2. RowBecomes(c, WithRefund(x)) BY <1>9 DEF WorkerRefuse
  <2>3. row[c].refs /\ row[c].state = "pending" /\ ~claimed[c]
    BY <1>9, <1>k DEF WorkerRefuse
  <2> HIDE DEF x
  <2>4. MovesOn(c, WithRefund(x)) BY <1>j, <2>1, <2>3 DEF Ended
  <2>. QED BY <1>9, <1>h, <2>2, <2>3, <2>4 DEF WorkerRefuse
<1>10. CASE WorkFails(c)
  <2> DEFINE x == [row[c] EXCEPT !.state = "reconciliation_required",
                     !.result = "reconciliation_required"]
             y == [row[c] EXCEPT !.state = "refused", !.result = "refused"]
  <2>1. /\ x.refs = row[c].refs /\ x.fin = row[c].fin /\ x.result = "reconciliation_required"
        /\ x.state = "reconciliation_required" /\ x \in GoodRow /\ x.work = row[c].work
    BY <1>b DEF GoodRow, Row
  <2>2. /\ y.refs = row[c].refs /\ y.fin = row[c].fin /\ y.result = "refused"
        /\ y.state = "refused"
    BY <1>b DEF Row
  <2>3. row[c].refs /\ row[c].state = "pending" /\ ~claimed[c]
    BY <1>10, <1>c DEF WorkFails, Consistent
  <2>4. \/ RowBecomes(c, WithRecovery(x))
        \/ row[c].fin = "released" /\ RowBecomes(c, y)
    BY <1>10, <2>3 DEF WorkFails
  <2> HIDE DEF x, y
  <2>5. Consistent(x) BY <1>c, <2>1, <2>3 DEF Consistent, Ended
  <2>6. MovesOn(c, WithRecovery(x))
    BY <2>1, <2>3, <2>5, WithRecoveryConsistent DEF MovesOn, Moves, Ended
  <2>7. row[c].fin = "released" => MovesOn(c, y)
    BY <1>c, <2>2, <2>3 DEF MovesOn, Moves, Consistent, Ended
  <2>. QED BY <1>10, <1>h, <2>3, <2>4, <2>6, <2>7 DEF WorkFails
<1>. QED BY <1>1, <1>2, <1>3, <1>4, <1>5, <1>6, <1>7, <1>8, <1>9, <1>10 DEF CallStep

LEMMA HoldStep == TypeInv /\ AttemptInv /\ HoldInv /\ [Next]_vars => HoldMoves
<1>. SUFFICES ASSUME TypeInv, AttemptInv, HoldInv, [Next]_vars PROVE HoldMoves
  OBVIOUS
<1>a. UNCHANGED <<row, claimed>> => RowsMove
  BY RowsStay
<1>b. UNCHANGED <<ledger, wire>> => LedgerMoves
  BY LedgerStays
<1>c. UNCHANGED req => RequestsMove
  BY RequestsStay
<1>d. UNCHANGED job => JobsMove
  BY JobsStay
<1>1. ASSUME NEW r \in Requests, RequestStep(r) PROVE HoldMoves
  BY <1>1, HoldRequestStep
<1>2. ASSUME NEW r \in Requests, CrashRequest(r) PROVE HoldMoves
  <2>1. RequestsMove BY <1>2, StopMoves DEF CrashRequest
  <2>2. LedgerMoves BY <1>2 DEF CrashRequest, LedgerMoves, Refunded
  <2>. QED BY <1>2, <1>a, <1>d, <2>1, <2>2, AllMove DEF CrashRequest
<1>3. ASSUME NEW r \in Requests, NEW c \in Calls, Admit(r, c) PROVE HoldMoves
  <2> DEFINE q == [IdleRequest EXCEPT !.pc = IF Offered(c) THEN "reserve" ELSE "stored",
                     !.call = c]
  <2>1. q.pc \notin Careful
    BY IdleRequestType DEF GoodRequest, Request, Careful
  <2>2. RequestBecomes(r, q) BY <1>3 DEF Admit
  <2> HIDE DEF q
  <2>3. RequestsMove BY <2>1, <2>2, RequestLeaves
  <2>. QED BY <2>3, <1>3, <1>a, <1>b, <1>d, AllMove DEF Admit
<1>4. ASSUME NEW j \in Jobs, JobStep(j) PROVE HoldMoves
  BY <1>4, HoldJobStep
<1>5. ASSUME NEW j \in Jobs, CrashJob(j) PROVE HoldMoves
  <2>1. JobsMove BY <1>5, StopJobLeaves DEF CrashJob
  <2>2. job[j].pc = "write" => Terminal(job[j].call)
    BY DEF HoldInv, JobKnows
  <2>3. LedgerMoves BY <1>5, <2>2 DEF CrashJob, LedgerMoves, Refunded
  <2>. QED BY <2>1, <2>3, <1>5, <1>a, <1>c, AllMove DEF CrashJob
<1>6. ASSUME NEW j \in Jobs, NEW c \in Calls, JobStart(j, c) PROVE HoldMoves
  <2>1. [IdleJob EXCEPT !.pc = "lease", !.call = c].pc = "lease"
    BY IdleJobType DEF GoodJob, Job
  <2>2. JobsMove BY <1>6, <2>1, JobLeaves DEF JobStart
  <2>. QED BY <2>2, <1>6, <1>a, <1>b, <1>c, AllMove DEF JobStart
<1>7. ASSUME NEW c \in Calls, CallStep(c) PROVE HoldMoves
  BY <1>7, HoldCallStep
<1>8. ASSUME NEW c \in Calls, NEW b \in Bundles, LateWrite(c, b) \/ LostWrite(c, b)
      PROVE  HoldMoves
  <2>1. LedgerMoves
    BY <1>8 DEF LateWrite, LostWrite, Post, LedgerMoves, Refunded, TypeInv, LedgerOK
  <2>. QED BY <2>1, <1>8, <1>a, <1>c, <1>d, AllMove DEF LateWrite, LostWrite
<1>9. CASE UNCHANGED vars
  BY <1>9, <1>a, <1>b, <1>c, <1>d, AllMove DEF vars
<1>. QED BY <1>1, <1>2, <1>3, <1>4, <1>5, <1>6, <1>7, <1>8, <1>9 DEF Next

LEMMA HoldInit == Init => HoldInv
<1>. SUFFICES ASSUME Init PROVE HoldInv
  OBVIOUS
<1>1. \A c \in Calls : RowConsistent(c)
  BY AbsentConsistent, ConsistentRow DEF Init
<1>2. AbsentRow.fin # "released" BY DEF AbsentRow
<1>3. \A c \in Calls : RowBacked(c) BY <1>2, AbsentConsistent DEF Init, RowBacked
<1>4. \A r \in Requests : RequestKnows(r) BY DEF Init, RequestKnows, IdleRequest
<1>5. \A j \in Jobs : JobKnows(j) BY DEF Init, JobKnows, IdleJob
<1>. QED BY <1>1, <1>3, <1>4, <1>5 DEF HoldInv

-----------------------------------------------------------------------------
(* Rows, requests and jobs agree with the ledger in the sense of HoldInv.   *)
THEOREM HoldsAgree == Spec => []HoldInv
<1>1. TypeInv /\ AttemptInv /\ HoldInv /\ [Next]_vars => HoldInv'
  BY HoldStep, HoldFrame DEF HoldMoves
<1>. QED BY <1>1, HoldInit, TypeInvariant, AttemptsDisciplined, PTL DEF Spec

(* A Call recorded as reserved or released is so in the ledger, and only a  *)
(* Call whose money is held is enqueued.                                    *)
THEOREM RowsAreBacked == Spec => []RowBackedByLedger
<1>1. TypeInv /\ HoldInv => RowBackedByLedger
  BY DEF HoldInv, RowBacked, RowConsistent, RowBackedByLedger, Uncertain
<1>. QED BY <1>1, HoldsAgree, TypeInvariant, PTL

(* The hold of a Call that a worker claimed is not released by a refund.    *)
THEOREM ClaimedIsSafe == Spec => []ClaimedNeverRefunded
<1>1. HoldInv => ClaimedNeverRefunded
  BY DEF HoldInv, RowBacked, ClaimedNeverRefunded
<1>. QED BY <1>1, HoldsAgree, PTL

(* A Call that ended while its money is held is on a refund schedule.       *)
THEOREM RefundsAreScheduled == Spec => []RefundNotForgotten
<1>1. HoldInv => RefundNotForgotten
  BY DEF HoldInv, RowConsistent, RefundNotForgotten
<1>. QED BY <1>1, HoldsAgree, PTL

(* Nothing revives a Call that was refused or cancelled.                    *)
THEOREM EndedStays == Spec => TerminalStays
<1>1. ASSUME TypeInv, AttemptInv, HoldInv, [Next]_vars
      PROVE  [\A c \in Calls : Terminal(c) => row'[c].state = row[c].state]_vars
  <2>1. RowsMove BY <1>1, HoldStep DEF HoldMoves
  <2>. QED BY <2>1 DEF RowsMove, MovesOn, Moves, Terminal, Ended
<1>. QED BY <1>1, HoldsAgree, TypeInvariant, AttemptsDisciplined, PTL DEF Spec, TerminalStays
=============================================================================
