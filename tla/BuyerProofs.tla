---------------------------- MODULE BuyerProofs ----------------------------
(***************************************************************************)
(* What Reservation promises its buyer, for any number of Calls, requests  *)
(* and jobs: no unit of promotional credit is lost or spent twice, and     *)
(* every step is a step of BuyerHold or none that the buyer can see.       *)
(***************************************************************************)
EXTENDS HoldProofs

-----------------------------------------------------------------------------
(* What a step may do to credit and to the ledger.                          *)

SameCredit(x, y) ==
  /\ x.credit = y.credit
  /\ x.state = "absent" <=> y.state = "absent"
  /\ x.fin = "released" <=> y.fin = "released"

RowsAlike == \A c \in Calls : SameCredit(row'[c], row[c])

OthersStay(c) == \A d \in Calls : d # c => row'[d] = row[d]

Kept == RowsAlike /\ UNCHANGED <<grant, ledger>>

Posted ==
  /\ RowsAlike
  /\ UNCHANGED grant
  /\ \E c \in Calls, b \in Bundles : CanPost(c, b) /\ Post(c, b)

Took == \E c \in Calls, taken \in SUBSET grant :
  /\ ~Present(c)
  /\ row'[c].state # "absent" /\ row'[c].fin # "released" /\ row'[c].credit = taken
  /\ OthersStay(c)
  /\ grant' = grant \ taken
  /\ UNCHANGED ledger

GaveBack == \E c \in Calls :
  /\ Outstanding(c)
  /\ \/ row'[c].state = "absent"
     \/ row'[c].state # "absent" /\ row'[c].fin = "released" /\ "release" \in ledger[c]
  /\ OthersStay(c)
  /\ grant' = grant \cup row[c].credit
  /\ UNCHANGED ledger

BuyerMove == Kept \/ Posted \/ Took \/ GaveBack

LEMMA AlikeRow ==
  ASSUME TypeInv, NEW c \in Calls, NEW x, RowBecomes(c, x), SameCredit(x, row[c])
  PROVE  RowsAlike
BY DEF RowBecomes, RowsAlike, SameCredit, TypeInv, RowOK

LEMMA AlikeRows == UNCHANGED row => RowsAlike
BY DEF RowsAlike, SameCredit

LEMMA PostMoves ==
  ASSUME TypeInv, NEW c \in Calls, NEW b \in Bundles, Post(c, b),
         b \in ledger[c] \/ CanPost(c, b), UNCHANGED <<row, grant>>
  PROVE  BuyerMove
<1>1. RowsAlike BY AlikeRows
<1>2. CASE b \in ledger[c]
  <2>1. ledger' = ledger BY <1>2 DEF Post, TypeInv, LedgerOK
  <2>. QED BY <1>1, <2>1 DEF BuyerMove, Kept
<1>3. CASE CanPost(c, b)
  BY <1>1, <1>3 DEF BuyerMove, Posted
<1>. QED BY <1>2, <1>3

LEMMA AbandonGives ==
  ASSUME TypeInv, NEW c \in Calls, NEW g, MayAbandon(c, g), AbandonRow(c), UNCHANGED ledger
  PROVE  BuyerMove
<1>1. Outstanding(c) BY DEF MayAbandon, DispatchStarted, Outstanding
<1>2. row'[c] = AbsentRow /\ OthersStay(c)
  BY DEF AbandonRow, RowBecomes, TypeInv, RowOK, OthersStay
<1>3. AbsentRow.state = "absent" BY DEF AbsentRow
<1>4. grant' = grant \cup row[c].credit BY DEF AbandonRow
<1>. QED BY <1>1, <1>2, <1>3, <1>4 DEF GaveBack, BuyerMove

LEMMA AlikeSchedule ==
  ASSUME NEW x \in Row, NEW s
  PROVE  SameCredit([x EXCEPT !.rec = s], x)
BY DEF SameCredit, Row

LEMMA AlikeHelpers ==
  ASSUME NEW x \in Row
  PROVE  /\ SameCredit(WithRefund(x), x)
         /\ SameCredit(WithRecovery(x), x)
         /\ SameCredit(Enqueued(x), x)
<1>1. SameCredit(x, x) BY DEF SameCredit
<1>2. SameCredit(WithRefund(x), x) BY <1>1, AlikeSchedule DEF WithRefund
<1>3. SameCredit(WithRecovery(x), x) BY <1>1, AlikeSchedule DEF WithRecovery
<1>4. SameCredit(Enqueued(x), x) BY DEF SameCredit, Enqueued, Row
<1>. QED BY <1>2, <1>3, <1>4

LEMMA AlikeTransitive == \A x, y, z : SameCredit(x, y) /\ SameCredit(y, z) => SameCredit(x, z)
BY DEF SameCredit

LEMMA BuyerRequestStep ==
  ASSUME TypeInv, HoldInv, NEW r \in Requests, RequestStep(r)
  PROVE  BuyerMove
<1> DEFINE c == req[r].call
<1>a. req[r].pc # "idle"
  BY DEF RequestStep, AnswerStored, ReserveNew, ReserveReplayed, ReserveRefused, ReadBooking,
         BookingRefused, ClaimAttempt, ClaimBusy, WriteCompleted, WriteUnknown, WriteRejected,
         Attach, MarkUnknown, Abandon, Replay, Dispatch, NeedsAuthority, RefuseBeforeDispatch, Record
<1>b. c \in Calls /\ row[c] \in GoodRow /\ row[c] \in Row /\ req[r] \in GoodRequest
  BY <1>a, InFlight DEF GoodRow
<1>c. Consistent(row[c]) BY <1>b, ConsistentRow DEF HoldInv
<1>d. UNCHANGED <<row, grant, ledger>> => BuyerMove
  BY AlikeRows DEF BuyerMove, Kept
<1>e. ASSUME NEW x, SameCredit(x, row[c]) PROVE
        RowBecomes(c, x) /\ UNCHANGED <<grant, ledger>> => BuyerMove
  BY <1>b, <1>e, AlikeRow DEF BuyerMove, Kept
<1> HIDE DEF c
<1>1. CASE \/ AnswerStored(r) \/ ReserveRefused(r) \/ BookingRefused(r) \/ ClaimBusy(r)
           \/ ReserveReplayed(r) \/ ReadBooking(r) \/ WriteUnknown(r) \/ WriteRejected(r)
           \/ Replay(r) \/ NeedsAuthority(r)
  BY <1>1, <1>d DEF AnswerStored, ReserveRefused, BookingRefused, ClaimBusy, ReserveReplayed,
     ReadBooking, WriteUnknown, WriteRejected, Replay, NeedsAuthority
<1>2. CASE ReserveNew(r)
  <2>1. PICK taken \in SUBSET grant :
          /\ RowBecomes(c, [AbsentRow EXCEPT !.state = "pending", !.credit = taken])
          /\ grant' = grant \ taken
    BY <1>2 DEF ReserveNew, c
  <2> DEFINE x == [AbsentRow EXCEPT !.state = "pending", !.credit = taken]
  <2>2. x.state = "pending" /\ x.fin = AbsentRow.fin /\ x.credit = taken
    BY AbsentRowType DEF GoodRow, Row
  <2>3. AbsentRow.fin = "reservation_pending" BY DEF AbsentRow
  <2>4. RowBecomes(c, x) BY <2>1
  <2> HIDE DEF x
  <2>5. row'[c] = x /\ OthersStay(c)
    BY <1>b, <2>4 DEF RowBecomes, TypeInv, RowOK, OthersStay
  <2>6. ~Present(c) /\ UNCHANGED ledger BY <1>2 DEF ReserveNew, c
  <2>. QED BY <1>b, <2>1, <2>2, <2>3, <2>5, <2>6 DEF Took, BuyerMove
<1>3. CASE ClaimAttempt(r)
  <2> DEFINE b == Ambiguous(c, req[r].initial)
             x == [row[c] EXCEPT !.gen = row[c].gen + 1, !.leased = TRUE, !.ambiguous = b]
  <2>1. SameCredit(x, row[c]) BY <1>b DEF SameCredit, Row
  <2>2. RowBecomes(c, x) BY <1>3 DEF ClaimAttempt, c
  <2> HIDE DEF x
  <2>. QED BY <1>3, <1>e, <2>1, <2>2 DEF ClaimAttempt
<1>4. CASE WriteCompleted(r)
  <2>1. Post(c, "reserve") /\ UNCHANGED <<row, grant>> BY <1>4 DEF WriteCompleted, c
  <2>2. "reserve" \in ledger[c] \/ CanPost(c, "reserve") BY DEF CanPost
  <2>. QED BY <1>b, <2>1, <2>2, PostMoves DEF Bundles
<1>5. CASE Attach(r)
  <2> DEFINE x == [row[c] EXCEPT !.state = "pending", !.fin = "reserved", !.refs = TRUE,
                     !.result = IF Recovering(c) THEN "none" ELSE @]
  <2>1. /\ x.state = "pending" /\ x.fin = "reserved" /\ x.credit = row[c].credit
    BY <1>b DEF Row
  <2>2. CASE Attachable(c)
    <3>1. RowBecomes(c, x) BY <1>5, <2>2 DEF Attach, c
    <3> HIDE DEF x
    <3>2. row[c].state # "absent" /\ row[c].fin # "released"
      BY <1>c, <2>2 DEF Attachable, Recovering, Consistent
    <3>3. SameCredit(x, row[c]) BY <2>1, <3>2 DEF SameCredit
    <3>. QED BY <1>5, <1>e, <3>1, <3>3 DEF Attach
  <2>3. CASE ~Attachable(c)
    BY <1>5, <1>d, <2>3 DEF Attach, c
  <2>. QED BY <2>2, <2>3
<1>6. CASE MarkUnknown(r)
  <2> DEFINE x == [row[c] EXCEPT !.fin = "outcome_unknown",
                     !.state = "reconciliation_required", !.result = "reconciliation_required"]
  <2>1. /\ x.state = "reconciliation_required" /\ x.fin = "outcome_unknown"
        /\ x.credit = row[c].credit
    BY <1>b DEF Row
  <2>2. CASE MayMarkUnknown(c)
    <3>1. RowBecomes(c, x) BY <1>6, <2>2 DEF MarkUnknown, c
    <3> HIDE DEF x
    <3>2. row[c].state # "absent" /\ row[c].fin # "released"
      BY <1>c, <2>2 DEF MayMarkUnknown, Present, Consistent
    <3>3. SameCredit(x, row[c]) BY <2>1, <3>2 DEF SameCredit
    <3>. QED BY <1>6, <1>e, <3>1, <3>3 DEF MarkUnknown
  <2>3. CASE ~MayMarkUnknown(c)
    BY <1>6, <1>d, <2>3 DEF MarkUnknown, c
  <2>. QED BY <2>2, <2>3
<1>7. CASE Abandon(r)
  <2>1. CASE MayAbandon(c, req[r].gen)
    BY <1>7, <1>b, <2>1, AbandonGives DEF Abandon, c
  <2>2. CASE ~MayAbandon(c, req[r].gen)
    BY <1>7, <1>d, <2>2 DEF Abandon, c
  <2>. QED BY <2>1, <2>2
<1>8. CASE Dispatch(r)
  <2>1. PICK x \in {row[c], Enqueued(row[c])} : RowBecomes(c, x)
    BY <1>8 DEF Dispatch, c
  <2>2. SameCredit(x, row[c]) BY <1>b, <2>1, AlikeHelpers DEF SameCredit
  <2>. QED BY <1>8, <1>e, <2>1, <2>2 DEF Dispatch
<1>9. CASE RefuseBeforeDispatch(r)
  <2>1. CASE MayAbandon(c, 0)
    BY <1>9, <1>b, <2>1, AbandonGives DEF RefuseBeforeDispatch, c
  <2>2. CASE ~MayAbandon(c, 0)
    BY <1>9, <1>d, <2>2 DEF RefuseBeforeDispatch, c
  <2>. QED BY <2>1, <2>2
<1>10. CASE Record(r)
  <2> DEFINE s == IF req[r].result = "reconciliation_required"
                  THEN "reconciliation_required" ELSE "pending"
             x == [row[c] EXCEPT !.state = s, !.result = req[r].result]
  <2>1. x \in Row BY <1>b DEF GoodRow, Row, GoodRequest, Request
  <2>2. x.state = s /\ x.fin = row[c].fin /\ x.credit = row[c].credit BY <1>b DEF Row
  <2>3. s \in {"pending", "reconciliation_required"} OBVIOUS
  <2>4. IF Recordable(c, s) THEN RowBecomes(c, WithRecovery(x))
        ELSE RowBecomes(c, WithRecovery(row[c]))
    BY <1>10 DEF Record, c
  <2> HIDE DEF x, s
  <2>5. Recordable(c, s) => SameCredit(x, row[c])
    BY <2>2, <2>3 DEF Recordable, SameCredit
  <2>6. Recordable(c, s) => SameCredit(WithRecovery(x), row[c])
    BY <2>1, <2>5, AlikeHelpers, AlikeTransitive
  <2>7. SameCredit(WithRecovery(row[c]), row[c]) BY <1>b, AlikeHelpers
  <2>. QED BY <1>10, <1>e, <2>4, <2>6, <2>7 DEF Record
<1>. QED BY <1>1, <1>2, <1>3, <1>4, <1>5, <1>6, <1>7, <1>8, <1>9, <1>10 DEF RequestStep

LEMMA BuyerJobStep ==
  ASSUME TypeInv, HoldInv, NEW j \in Jobs, JobStep(j)
  PROVE  BuyerMove
<1> DEFINE c == job[j].call
<1>a. job[j].pc # "idle"
  BY DEF JobStep, JobLease, JobStatus, JobProof, JobBooking, JobWriteCompleted, JobWriteFailed,
         JobFinalize, JobFinish
<1>b. c \in Calls /\ row[c] \in Row
  BY <1>a, JobInFlight DEF GoodRow
<1>c. JobKnows(j) BY DEF HoldInv
<1>d. UNCHANGED <<row, grant, ledger>> => BuyerMove
  BY AlikeRows DEF BuyerMove, Kept
<1>e. ASSUME NEW s PROVE
        RowBecomes(c, [row[c] EXCEPT !.rec = s]) /\ UNCHANGED <<grant, ledger>> => BuyerMove
  BY <1>b, AlikeRow, AlikeSchedule DEF BuyerMove, Kept
<1> HIDE DEF c
<1>1. CASE JobLease(j)
  BY <1>1, <1>d, <1>e DEF JobLease, c
<1>2. CASE JobStatus(j) \/ JobProof(j) \/ JobBooking(j) \/ JobWriteFailed(j)
  BY <1>2, <1>d DEF JobStatus, JobProof, JobBooking, JobWriteFailed
<1>3. CASE JobWriteCompleted(j)
  <2>1. /\ Post(c, "release") /\ UNCHANGED <<row, grant>>
        /\ "release" \in ledger[c] \/ CanPost(c, "release")
    BY <1>3 DEF JobWriteCompleted, c
  <2>. QED BY <1>b, <2>1, PostMoves DEF Bundles
<1>4. CASE JobFinalize(j)
  <2>1. CASE Releasable(c)
    <3> DEFINE x == [row[c] EXCEPT !.fin = "released"]
    <3>1. x.fin = "released" /\ x.state = row[c].state BY <1>b DEF Row
    <3>2. RowBecomes(c, x) /\ grant' = grant \cup row[c].credit /\ UNCHANGED ledger
      BY <1>4, <2>1 DEF JobFinalize, c
    <3> HIDE DEF x
    <3>3. row'[c] = x /\ OthersStay(c)
      BY <1>b, <3>2 DEF RowBecomes, TypeInv, RowOK, OthersStay
    <3>4. Terminal(c) /\ "release" \in ledger[c] BY <1>4, <1>c DEF JobFinalize, JobKnows, c
    <3>5. Outstanding(c)
      BY <2>1, <3>4 DEF Releasable, Outstanding, Present, Terminal
    <3>. QED BY <1>b, <3>1, <3>2, <3>3, <3>4, <3>5 DEF GaveBack, BuyerMove, Terminal
  <2>2. CASE ~Releasable(c)
    BY <1>4, <1>d, <2>2 DEF JobFinalize, c
  <2>. QED BY <2>1, <2>2
<1>5. CASE JobFinish(j)
  BY <1>5, <1>d, <1>e DEF JobFinish, c
<1>. QED BY <1>1, <1>2, <1>3, <1>4, <1>5 DEF JobStep

LEMMA BuyerCallStep ==
  ASSUME TypeInv, NEW c \in Calls, CallStep(c)
  PROVE  BuyerMove
<1>b. row[c] \in Row
  BY DEF TypeInv, RowOK, GoodRow
<1>d. UNCHANGED <<row, grant, ledger>> => BuyerMove
  BY AlikeRows DEF BuyerMove, Kept
<1>e. ASSUME NEW x, SameCredit(x, row[c]) PROVE
        RowBecomes(c, x) /\ UNCHANGED <<grant, ledger>> => BuyerMove
  BY <1>e, AlikeRow DEF BuyerMove, Kept
<1>1. CASE AttemptLeaseLapses(c)
  <2>1. SameCredit([row[c] EXCEPT !.leased = FALSE], row[c]) BY <1>b DEF SameCredit, Row
  <2>. QED BY <1>1, <1>e, <2>1 DEF AttemptLeaseLapses
<1>2. CASE JobLeaseLapses(c)
  BY <1>2, <1>b, <1>e, AlikeSchedule DEF JobLeaseLapses
<1>3. CASE QuoteExpires(c) \/ WorkerClaim(c)
  BY <1>3, <1>d DEF QuoteExpires, WorkerClaim
<1>4. CASE Approve(c)
  BY <1>4, <1>b, <1>e, AlikeHelpers DEF Approve
<1>5. CASE Deny(c)
  <2>1. row[c].state # "absent" BY <1>5 DEF Deny
  <2>2. \A s : SameCredit(
          [row[c] EXCEPT !.state = "refused", !.result = "refused", !.rec = s], row[c])
    BY <1>b, <2>1 DEF SameCredit, Row
  <2>. QED BY <1>5, <1>e, <2>2 DEF Deny
<1>6. CASE Cancel(c)
  <2> DEFINE x == [row[c] EXCEPT !.state = "cancelled", !.result = "refused", !.work = FALSE]
  <2>1. row[c].state # "absent" BY <1>6 DEF Cancel
  <2>2. x \in Row /\ SameCredit(x, row[c]) BY <1>b, <2>1 DEF SameCredit, Row
  <2>3. RowBecomes(c, WithRefund(x)) BY <1>6 DEF Cancel
  <2> HIDE DEF x
  <2>4. SameCredit(WithRefund(x), row[c]) BY <2>2, AlikeHelpers, AlikeTransitive
  <2>. QED BY <1>6, <1>e, <2>3, <2>4 DEF Cancel
<1>7. CASE CancelRefused(c)
  BY <1>7, <1>b, <1>e, AlikeHelpers DEF CancelRefused
<1>8. CASE WorkerRefuse(c)
  <2> DEFINE x == [row[c] EXCEPT !.state = "refused", !.result = "refused"]
  <2>1. row[c].state # "absent" BY <1>8 DEF WorkerRefuse
  <2>2. x \in Row /\ SameCredit(x, row[c]) BY <1>b, <2>1 DEF SameCredit, Row
  <2>3. RowBecomes(c, WithRefund(x)) BY <1>8 DEF WorkerRefuse
  <2> HIDE DEF x
  <2>4. SameCredit(WithRefund(x), row[c]) BY <2>2, AlikeHelpers, AlikeTransitive
  <2>. QED BY <1>8, <1>e, <2>3, <2>4 DEF WorkerRefuse
<1>9. CASE WorkFails(c)
  <2> DEFINE x == [row[c] EXCEPT !.state = "reconciliation_required",
                     !.result = "reconciliation_required"]
             y == [row[c] EXCEPT !.state = "refused", !.result = "refused"]
  <2>1. row[c].state # "absent" BY <1>9 DEF WorkFails
  <2>2. x \in Row /\ SameCredit(x, row[c]) /\ SameCredit(y, row[c])
    BY <1>b, <2>1 DEF SameCredit, Row
  <2>3. RowBecomes(c, WithRecovery(x)) \/ RowBecomes(c, y) BY <1>9 DEF WorkFails
  <2> HIDE DEF x, y
  <2>4. SameCredit(WithRecovery(x), row[c]) BY <2>2, AlikeHelpers, AlikeTransitive
  <2>. QED BY <1>9, <1>e, <2>2, <2>3, <2>4 DEF WorkFails
<1>. QED BY <1>1, <1>2, <1>3, <1>4, <1>5, <1>6, <1>7, <1>8, <1>9 DEF CallStep

LEMMA BuyerNext == TypeInv /\ HoldInv /\ [Next]_vars => BuyerMove
<1>. SUFFICES ASSUME TypeInv, HoldInv, [Next]_vars PROVE BuyerMove
  OBVIOUS
<1>d. UNCHANGED <<row, grant, ledger>> => BuyerMove
  BY AlikeRows DEF BuyerMove, Kept
<1>1. ASSUME NEW r \in Requests, RequestStep(r) PROVE BuyerMove
  BY <1>1, BuyerRequestStep
<1>2. ASSUME NEW r \in Requests, CrashRequest(r) PROVE BuyerMove
  BY <1>2, <1>d DEF CrashRequest
<1>3. ASSUME NEW r \in Requests, NEW c \in Calls, Admit(r, c) PROVE BuyerMove
  BY <1>3, <1>d DEF Admit
<1>4. ASSUME NEW j \in Jobs, JobStep(j) PROVE BuyerMove
  BY <1>4, BuyerJobStep
<1>5. ASSUME NEW j \in Jobs, CrashJob(j) PROVE BuyerMove
  BY <1>5, <1>d DEF CrashJob
<1>6. ASSUME NEW j \in Jobs, NEW c \in Calls, JobStart(j, c) PROVE BuyerMove
  BY <1>6, <1>d DEF JobStart
<1>7. ASSUME NEW c \in Calls, CallStep(c) PROVE BuyerMove
  BY <1>7, BuyerCallStep
<1>8. ASSUME NEW c \in Calls, NEW b \in Bundles, LateWrite(c, b) PROVE BuyerMove
  <2>1. CASE CanPost(c, b) BY <1>8, <2>1, PostMoves DEF LateWrite
  <2>2. CASE ~CanPost(c, b) BY <1>8, <1>d, <2>2 DEF LateWrite
  <2>. QED BY <2>1, <2>2
<1>9. ASSUME NEW c \in Calls, NEW b \in Bundles, LostWrite(c, b) PROVE BuyerMove
  BY <1>9, <1>d DEF LostWrite
<1>10. CASE UNCHANGED vars
  BY <1>10, <1>d DEF vars
<1>. QED BY <1>1, <1>2, <1>3, <1>4, <1>5, <1>6, <1>7, <1>8, <1>9, <1>10 DEF Next

-----------------------------------------------------------------------------
(* Credit.  A unit is available or has exactly one holder.                  *)

LEMMA CreditMove == ASSUME TypeInv, CreditConserved, BuyerMove PROVE CreditConserved'
<1> DEFINE One(u) == IF u \in grant THEN Holders(u) = {} ELSE \E c \in Calls : Holders(u) = {c}
<1>. SUFFICES ASSUME NEW u \in Credits PROVE One(u)'
  BY DEF CreditConserved
<1>a. One(u) BY DEF CreditConserved
<1>1. ASSUME RowsAlike, UNCHANGED grant PROVE One(u)'
  <2>1. \A c \in Calls : /\ Outstanding(c)' <=> Outstanding(c)
                         /\ row'[c].credit = row[c].credit
    BY <1>1 DEF RowsAlike, SameCredit, Outstanding, Present
  <2>2. Holders(u)' = Holders(u) BY <2>1 DEF Holders
  <2>. QED BY <1>1, <1>a, <2>2
<1>2. CASE Took
  <2>1. PICK c \in Calls, taken \in SUBSET grant :
          /\ ~Present(c)
          /\ row'[c].state # "absent" /\ row'[c].fin # "released" /\ row'[c].credit = taken
          /\ OthersStay(c)
          /\ grant' = grant \ taken
    BY <1>2 DEF Took
  <2>2. c \notin Holders(u) BY <2>1 DEF Holders, Outstanding
  <2>3. \A d \in Calls : d # c => (d \in Holders(u)' <=> d \in Holders(u))
    BY <2>1 DEF Holders, Outstanding, Present, OthersStay
  <2>4. c \in Holders(u)' <=> u \in taken
    BY <2>1 DEF Holders, Outstanding, Present
  <2>5. Holders(u) \subseteq Calls /\ Holders(u)' \subseteq Calls BY DEF Holders
  <2>6. CASE u \in taken
    <3>1. Holders(u) = {} BY <1>a, <2>1, <2>6
    <3>2. Holders(u)' = {c} BY <2>3, <2>4, <2>5, <2>6, <3>1
    <3>. QED BY <2>1, <2>6, <3>2
  <2>7. CASE u \notin taken
    <3>1. Holders(u)' = Holders(u) BY <2>2, <2>3, <2>4, <2>5, <2>7
    <3>2. u \in grant' <=> u \in grant BY <2>1, <2>7
    <3>. QED BY <1>a, <3>1, <3>2
  <2>. QED BY <2>6, <2>7
<1>3. CASE GaveBack
  <2>1. PICK c \in Calls :
          /\ Outstanding(c)
          /\ row'[c].state = "absent" \/ row'[c].fin = "released"
          /\ OthersStay(c)
          /\ grant' = grant \cup row[c].credit
    BY <1>3 DEF GaveBack
  <2>2. c \notin Holders(u)' BY <2>1 DEF Holders, Outstanding, Present
  <2>3. \A d \in Calls : d # c => (d \in Holders(u)' <=> d \in Holders(u))
    BY <2>1 DEF Holders, Outstanding, Present, OthersStay
  <2>4. c \in Holders(u) <=> u \in row[c].credit BY <2>1 DEF Holders
  <2>5. Holders(u) \subseteq Calls /\ Holders(u)' \subseteq Calls BY DEF Holders
  <2>6. CASE u \in row[c].credit
    <3>1. Holders(u) = {c} BY <1>a, <2>4, <2>6
    <3>2. Holders(u)' = {} BY <2>2, <2>3, <2>5, <3>1
    <3>. QED BY <2>1, <2>6, <3>2
  <2>7. CASE u \notin row[c].credit
    <3>1. Holders(u)' = Holders(u) BY <2>2, <2>3, <2>4, <2>5, <2>7
    <3>2. u \in grant' <=> u \in grant BY <2>1, <2>7
    <3>. QED BY <1>a, <3>1, <3>2
  <2>. QED BY <2>6, <2>7
<1>. QED BY <1>1, <1>2, <1>3 DEF BuyerMove, Kept, Posted

LEMMA CreditInit == Init => CreditConserved
<1>. SUFFICES ASSUME Init PROVE CreditConserved
  OBVIOUS
<1>1. AbsentRow.state = "absent" BY DEF AbsentRow
<1>2. \A c \in Calls : ~Outstanding(c) BY <1>1 DEF Init, Outstanding, Present
<1>3. \A u : Holders(u) = {} BY <1>2 DEF Holders
<1>. QED BY <1>3 DEF Init, CreditConserved

(* No unit of promotional credit is lost, and none is used by two Calls.    *)
THEOREM CreditIsConserved == Spec => []CreditConserved
<1>1. TypeInv /\ HoldInv /\ CreditConserved /\ [Next]_vars => CreditConserved'
  BY BuyerNext, CreditMove
<1>. QED BY <1>1, CreditInit, TypeInvariant, HoldsAgree, PTL DEF Spec

-----------------------------------------------------------------------------
(* Refinement.  The buyer's view of one Call, and how each move changes it. *)

Offer(c) == IF Present(c) THEN "taken" ELSE "open"
Hold(c) == IF "release" \in ledger[c] THEN "returned"
           ELSE IF "reserve" \in ledger[c] THEN "held" ELSE "free"
Credit(c) == IF Outstanding(c) THEN "out" ELSE "back"

offered == [c \in Calls |-> Offer(c)]
held == [c \in Calls |-> Hold(c)]
credited == [c \in Calls |-> Credit(c)]

LEMMA OfferKept ==
  ASSUME RowsAlike PROVE UNCHANGED <<offered, credited>>
<1>1. \A c \in Calls : (Present(c)' <=> Present(c)) /\ (Outstanding(c)' <=> Outstanding(c))
  BY DEF RowsAlike, SameCredit, Present, Outstanding
<1>. QED BY <1>1 DEF offered, credited, Offer, Credit

LEMMA HeldKept == UNCHANGED ledger => UNCHANGED held
BY DEF held, Hold

(* The buyer's view of the others does not move.                            *)
LEMMA OffersMove ==
  ASSUME NEW c \in Calls, OthersStay(c)
  PROVE  /\ offered' = [offered EXCEPT ![c] = Offer(c)']
         /\ credited' = [credited EXCEPT ![c] = Credit(c)']
<1>1. ASSUME NEW d \in Calls, d # c PROVE Offer(d)' = Offer(d) /\ Credit(d)' = Credit(d)
  BY <1>1 DEF OthersStay, Offer, Credit, Present, Outstanding
<1>. QED BY <1>1 DEF offered, credited

LEMMA HoldMove ==
  ASSUME TypeInv, NEW c \in Calls, NEW b, Post(c, b)
  PROVE  /\ held' = [held EXCEPT ![c] = Hold(c)']
         /\ ledger'[c] = ledger[c] \cup {b}
<1>1. \A d \in Calls \ {c} : ledger'[d] = ledger[d]
  BY DEF Post, TypeInv, LedgerOK
<1>2. \A d \in Calls \ {c} : Hold(d)' = Hold(d)
  BY <1>1 DEF Hold
<1>3. ledger'[c] = ledger[c] \cup {b}
  BY DEF Post, TypeInv, LedgerOK
<1>. QED BY <1>2, <1>3 DEF held

LEMMA BuyerStep ==
  ASSUME TypeInv, HoldInv, AttemptInv', BuyerMove
  PROVE  [Buyer!Next]_(Buyer!vars)
<1>a. \A c \in Calls : "release" \in ledger[c] => "reserve" \in ledger[c]
  BY DEF HoldInv, RowConsistent, RowBacked
<1>b. \A c \in Calls : ~Present(c)' => "reserve" \notin ledger'[c]
  BY DEF AttemptInv, AbandonedNeverHeld
<1>c. \A c \in Calls : offered[c] = Offer(c) /\ held[c] = Hold(c) /\ credited[c] = Credit(c)
  BY DEF offered, held, credited
<1>s. ASSUME UNCHANGED <<offered, held, credited>> PROVE [Buyer!Next]_(Buyer!vars)
  BY <1>s DEF Buyer!vars, offered, held, credited, Offer, Hold, Credit
<1>1. CASE Kept
  BY <1>1, <1>s, OfferKept, HeldKept DEF Kept
<1>2. CASE Posted
  <2>1. PICK c \in Calls, b \in Bundles : CanPost(c, b) /\ Post(c, b)
    BY <1>2 DEF Posted
  <2>2. UNCHANGED <<offered, credited>> BY <1>2, OfferKept DEF Posted
  <2>3. held' = [held EXCEPT ![c] = Hold(c)'] /\ ledger'[c] = ledger[c] \cup {b}
    BY <2>1, HoldMove
  <2>4. CASE b = "reserve"
    <3>1. Hold(c) = "free" /\ Hold(c)' = "held"
      BY <1>a, <2>1, <2>3, <2>4 DEF CanPost, Hold
    <3>2. Present(c)' BY <1>b, <2>3, <2>4
    <3>3. Present(c)
      BY <1>2, <3>2 DEF Posted, RowsAlike, SameCredit, Present
    <3>4. Offer(c) = "taken" BY <3>3 DEF Offer
    <3>5. /\ offered[c] = "taken" /\ held[c] = "free"
          /\ held' = [held EXCEPT ![c] = "held"]
      BY <1>c, <2>3, <3>1, <3>4
    <3>6. Buyer!Hold(c)
      BY <2>2, <3>5 DEF Buyer!Hold, offered, held, credited, Offer, Hold, Credit
    <3>. QED BY <3>6 DEF Buyer!Next
  <2>5. CASE b = "release"
    <3>1. Hold(c) = "held" /\ Hold(c)' = "returned"
      BY <2>1, <2>3, <2>5 DEF CanPost, Hold
    <3>2. held[c] = "held" /\ held' = [held EXCEPT ![c] = "returned"]
      BY <1>c, <2>3, <3>1
    <3>3. Buyer!Return(c)
      BY <2>2, <3>2 DEF Buyer!Return, offered, held, credited, Offer, Hold, Credit
    <3>. QED BY <3>3 DEF Buyer!Next
  <2>. QED BY <2>4, <2>5 DEF Bundles
<1>3. CASE Took
  <2>1. PICK c \in Calls :
          /\ ~Present(c)
          /\ row'[c].state # "absent" /\ row'[c].fin # "released"
          /\ OthersStay(c)
          /\ UNCHANGED ledger
    BY <1>3 DEF Took
  <2>2. Offer(c) = "open" /\ Offer(c)' = "taken" /\ Credit(c)' = "out"
    BY <2>1 DEF Offer, Credit, Outstanding, Present
  <2>3. /\ offered[c] = "open" /\ offered' = [offered EXCEPT ![c] = "taken"]
        /\ credited' = [credited EXCEPT ![c] = "out"] /\ UNCHANGED held
    BY <1>c, <2>1, <2>2, OffersMove, HeldKept
  <2>4. Buyer!Take(c)
    BY <2>3 DEF Buyer!Take, offered, held, credited, Offer, Hold, Credit
  <2>. QED BY <2>4 DEF Buyer!Next
<1>4. CASE GaveBack
  <2>1. PICK c \in Calls :
          /\ Outstanding(c)
          /\ \/ row'[c].state = "absent"
             \/ row'[c].state # "absent" /\ row'[c].fin = "released" /\ "release" \in ledger[c]
          /\ OthersStay(c)
          /\ UNCHANGED ledger
    BY <1>4 DEF GaveBack
  <2>2. Offer(c) = "taken" /\ Credit(c) = "out" /\ Credit(c)' = "back"
    BY <2>1 DEF Offer, Credit, Outstanding, Present
  <2>3. UNCHANGED held BY <2>1, HeldKept
  <2>4. CASE row'[c].state = "absent"
    <3>1. Offer(c)' = "open" BY <2>4 DEF Offer, Present
    <3>2. "reserve" \notin ledger[c] BY <1>b, <2>1, <2>4 DEF Present
    <3>3. Hold(c) = "free" BY <1>a, <3>2 DEF Hold
    <3>4. /\ offered[c] = "taken" /\ held[c] = "free"
          /\ offered' = [offered EXCEPT ![c] = "open"]
          /\ credited' = [credited EXCEPT ![c] = "back"]
      BY <1>c, <2>1, <2>2, <3>1, <3>3, OffersMove
    <3>5. Buyer!Reopen(c)
      BY <2>3, <3>4 DEF Buyer!Reopen, offered, held, credited, Offer, Hold, Credit
    <3>. QED BY <3>5 DEF Buyer!Next
  <2>5. CASE row'[c].state # "absent" /\ row'[c].fin = "released" /\ "release" \in ledger[c]
    <3>1. Offer(c)' = "taken" /\ Hold(c) = "returned" BY <2>5 DEF Offer, Present, Hold
    <3>2. /\ held[c] = "returned" /\ credited[c] = "out"
          /\ credited' = [credited EXCEPT ![c] = "back"]
      BY <1>c, <2>1, <2>2, <3>1, OffersMove
    <3>3. offered' = [offered EXCEPT ![c] = offered[c]]
      BY <1>c, <2>1, <2>2, <3>1, OffersMove
    <3>4. UNCHANGED offered BY <3>3 DEF offered
    <3>5. Buyer!CreditBack(c)
      BY <2>3, <3>2, <3>4 DEF Buyer!CreditBack, offered, held, credited, Offer, Hold, Credit
    <3>. QED BY <3>5 DEF Buyer!Next
  <2>. QED BY <2>1, <2>4, <2>5
<1>. QED BY <1>1, <1>2, <1>3, <1>4 DEF BuyerMove

LEMMA BuyerInit == Init => Buyer!Init
<1>. SUFFICES ASSUME Init PROVE Buyer!Init
  OBVIOUS
<1>1. AbsentRow.state = "absent" BY DEF AbsentRow
<1>2. \A c \in Calls : ~Present(c) /\ ledger[c] = {}
  BY <1>1 DEF Init, Present
<1>. QED BY <1>2 DEF Buyer!Init, Outstanding

(* Whatever requests and jobs do, the buyer sees only steps of BuyerHold.   *)
THEOREM Refines == Spec => ImplementsBuyerHold
<1>1. TypeInv /\ AttemptInv' /\ HoldInv /\ [Next]_vars => [Buyer!Next]_(Buyer!vars)
  BY BuyerNext, BuyerStep
<1>2. Init => Buyer!Init
  BY BuyerInit
<1>. QED BY <1>1, <1>2, TypeInvariant, HoldsAgree, AttemptsDisciplined, PTL
         DEF Spec, ImplementsBuyerHold, Buyer!Spec
=============================================================================
