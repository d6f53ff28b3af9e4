--------------------------- MODULE PaidCallProofs ---------------------------
(***************************************************************************)
(* What PaidCall guarantees for chains of any length, any number of deaths *)
(* and any set of actors: types, and the invariant of the money.           *)
(***************************************************************************)
EXTENDS PaidCall, TLAPS

-----------------------------------------------------------------------------
(* Bundles are told apart by their kind, processes by their name.          *)

LEMMA StepsNat == Steps \subseteq Nat /\ MaxAttempts \in Nat /\ LastStep \in Steps
BY PaidCallAssumption DEF Steps, LastStep

LEMMA StepSucc == \A k \in Steps : k + 1 \in 0..MaxAttempts /\ (k # LastStep => k + 1 \in Steps)
BY PaidCallAssumption DEF Steps, LastStep

LEMMA Kinds ==
  /\ Kind(Held) = "held" /\ Kind(NoEvidence) = "none"
  /\ Kind(Release) = "release"
  /\ Kind(WorkerSettlement) = "settle" /\ Kind(RetainedSettlement) = "settle"
  /\ Kind(ErrorRemedy) = "remedy" /\ Kind(LossRemedy) = "remedy"
  /\ \A k : Kind(UnusedRelease(k)) = "unused"
BY DEF Kind, Held, NoEvidence, Release, WorkerSettlement, RetainedSettlement, ErrorRemedy,
       LossRemedy, UnusedRelease

LEMMA BundleTypes ==
  /\ {Release, WorkerSettlement, RetainedSettlement, ErrorRemedy, LossRemedy} \subseteq Bundles
  /\ \A k \in Steps : UnusedRelease(k) \in Bundles
BY DEF Bundles

LEMMA BundleKinds ==
  ASSUME NEW b \in Bundles
  PROVE  /\ Kind(b) \in {"release", "settle", "remedy", "unused"}
         /\ Kind(b) = "release" <=> b = Release
         /\ Kind(b) = "settle" <=> b \in {WorkerSettlement, RetainedSettlement}
         /\ Kind(b) = "remedy" <=> b \in {ErrorRemedy, LossRemedy}
BY Kinds DEF Bundles

LEMMA ProcTypes ==
  /\ Worker \in Procs /\ Canceller \in Procs /\ Sweep \in Procs /\ Operator \in Procs
  /\ \A k \in Steps : Response(k) \in Procs /\ Expiry(k) \in Procs
BY DEF Procs

IsExpiry(p) == p[1] = "expiry"

LEMMA ProcNames ==
  /\ ~IsExpiry(Worker) /\ ~IsExpiry(Canceller) /\ ~IsExpiry(Sweep) /\ ~IsExpiry(Operator)
  /\ \A k : ~IsExpiry(Response(k)) /\ IsExpiry(Expiry(k))
BY DEF IsExpiry, Worker, Canceller, Sweep, Operator, Response, Expiry

LEMMA ProcsDiffer ==
  /\ Worker # Canceller /\ Worker # Sweep /\ Worker # Operator
  /\ \A k : Worker # Response(k) /\ Worker # Expiry(k)
  /\ \A k \in Nat : Response(k) # Response(k + 1) /\ Expiry(k) # Expiry(k + 1)
  /\ \A k, l : Response(k) # Expiry(l)
BY DEF Worker, Canceller, Sweep, Operator, Response, Expiry

-----------------------------------------------------------------------------
(* What a step does to the jobs.                                           *)

JobsOK == job \in [Procs -> Job]
Only(p) == \A q \in Procs : q # p => job'[q] = job[q]

LEMMA NewJobType ==
  ASSUME NEW pc \in PC
  PROVE  /\ NewJob(pc) \in Job
         /\ NewJob(pc).pc = pc /\ NewJob(pc).bundle = Held /\ NewJob(pc).goal = "none"
BY DEF NewJob, Job, Goals

LEMMA JobFields ==
  ASSUME NEW j \in Job
  PROVE  /\ \A pc \in PC : [j EXCEPT !.pc = pc] \in Job
         /\ \A b \in Bundles \cup {Held} : [j EXCEPT !.bundle = b] \in Job
         /\ \A g \in Goals : [j EXCEPT !.goal = g] \in Job
         /\ j.pc \in PC /\ j.bundle \in Bundles \cup {Held} /\ j.goal \in Goals
BY DEF Job

LEMMA JobBecomes ==
  ASSUME JobsOK, NEW p \in Procs, NEW j \in Job, job' = [job EXCEPT ![p] = j]
  PROVE  JobsOK' /\ job'[p] = j /\ Only(p)
BY DEF JobsOK, Only

LEMMA GotoJob ==
  ASSUME JobsOK, NEW p \in Procs, NEW pc \in PC, Goto(p, pc)
  PROVE  /\ JobsOK' /\ Only(p)
         /\ job'[p].pc = pc /\ job'[p].bundle = job[p].bundle /\ job'[p].goal = job[p].goal
<1>1. job[p] \in Job BY DEF JobsOK
<1>2. [job[p] EXCEPT !.pc = pc] \in Job BY <1>1, JobFields
<1>3. job' = [job EXCEPT ![p] = [job[p] EXCEPT !.pc = pc]] BY DEF Goto, JobsOK
<1>4. JobsOK' /\ job'[p] = [job[p] EXCEPT !.pc = pc] /\ Only(p)
  BY <1>2, <1>3, JobBecomes
<1>. QED BY <1>1, <1>4 DEF Job

LEMMA FinishJob ==
  ASSUME JobsOK, NEW p \in Procs, Finish(p)
  PROVE  JobsOK' /\ Only(p) /\ job'[p].pc = "done" /\ job'[p].bundle = Held
<1>1. "done" \in PC BY DEF PC
<1>2. NewJob("done") \in Job BY <1>1, NewJobType
<1>3. JobsOK' /\ job'[p] = NewJob("done") /\ Only(p) BY <1>2, JobBecomes DEF Finish
<1>. QED BY <1>1, <1>3, NewJobType

LEMMA BookJob ==
  ASSUME JobsOK, NEW p \in Procs, NEW b \in Bundles, NEW g \in Goals, Book(p, b, g)
  PROVE  /\ JobsOK' /\ Only(p)
         /\ job'[p].pc = "booking" /\ job'[p].bundle = b /\ job'[p].goal = g
<1>1. job[p] \in Job BY DEF JobsOK
<1>2. job' = [job EXCEPT ![p] = [job[p] EXCEPT !.pc = "booking", !.bundle = b, !.goal = g]]
  BY DEF Book, JobsOK
<1>3. [job[p] EXCEPT !.pc = "booking", !.bundle = b, !.goal = g] \in Job
  BY <1>1 DEF Job, PC
<1>4. /\ JobsOK' /\ Only(p)
      /\ job'[p] = [job[p] EXCEPT !.pc = "booking", !.bundle = b, !.goal = g]
  BY <1>2, <1>3, JobBecomes
<1>. QED BY <1>1, <1>4 DEF Job

-----------------------------------------------------------------------------
(* The invariant.  A bundle that a job is about to book, that is on its way *)
(* or booked, or that is pinned as evidence, is sound: what it assumes of   *)
(* the chain holds and will go on to hold.  A job at a step that relies on  *)
(* an earlier read still has what it read.                                  *)

Dead == expired /\ chain # "paid"
Sound(b) ==
  /\ Kind(b) \in {"settle", "remedy"} => chain = "paid"
  /\ Kind(b) = "unused" => Dead

Fits(goal, b) ==
  \/ goal \in {"abandon", "refuse", "deliver", "caught", "cancel"} /\ b = Release
  \/ goal \in {"charge", "repair"} /\ b \in {WorkerSettlement, RetainedSettlement}
  \/ goal = "remedy" /\ b \in {ErrorRemedy, LossRemedy}
  \/ goal = "unused" /\ b \in Bundles /\ Kind(b) = "unused"

Knowing == {"booking", "post", "finalize", "reread", "sign", "custody",
            "complete", "reconcile", "accept", "claim", "checkpoint"}
JobKnows(p) ==
  /\ job[p].pc \in {"booking", "post", "finalize"} =>
       Fits(job[p].goal, job[p].bundle) /\ Sound(job[p].bundle)
  /\ job[p].pc = "finalize" => ledger = job[p].bundle
  /\ job[p].pc \in {"reread", "sign", "custody"} => fin # "reserved"
  /\ job[p].pc \in {"complete", "reconcile", "accept"} => fin = "settled"
  /\ job[p].pc = "claim" /\ IsExpiry(p) => Dead
  /\ job[p].pc = "checkpoint" => job[p].seen \in {"unpaid", "ok", "error"}

CompletedIsSettled == row.state = "completed" => fin = "settled"
EvidencePinned == row.owner = "expired_unused" => pay.evidence # NoEvidence
EvidenceSound == pay.evidence # Release /\ Sound(pay.evidence)
SettledIsPaid == pay.settlement = "settled" => chain = "paid"

MoneyInv ==
  /\ BooksAgree /\ CreditFollows /\ SignedOnlyWhenMarked
  /\ CompletedIsSettled /\ EvidencePinned /\ EvidenceSound /\ SettledIsPaid
  /\ Sound(ledger) /\ \A b \in wire : Sound(b)
  /\ \A p \in Procs : JobKnows(p)

DataOK ==
  /\ row \in Row /\ pay \in Pay
  /\ fin \in {"reserved", "possibly_submitted", "outcome_unknown", "settled", "released"}
  /\ obligation \in {"accrued", "held", "settled", "reversed"}
  /\ restored \in Nat /\ control \in Controls
  /\ leaseLive \in BOOLEAN /\ expired \in BOOLEAN /\ sent \in BOOLEAN
  /\ chain \in {"none", "signed", "paid"}
  /\ ledger \in {Held} \cup Bundles /\ wire \subseteq Bundles
  /\ deaths \in 0..MaxDeaths

LEMMA TypeSplits == TypeOK <=> DataOK /\ JobsOK
BY DEF TypeOK, DataOK, JobsOK

-----------------------------------------------------------------------------
(* Every step moves each part of the state in one of these ways.            *)

MoneyMoves ==
  \/ UNCHANGED money
  \/ /\ fin = "reserved" /\ fin' = "possibly_submitted" /\ UNCHANGED <<obligation, restored>>
  \/ /\ fin \in {"reserved", "possibly_submitted"} /\ fin' = "outcome_unknown"
     /\ obligation' = "held" /\ UNCHANGED restored
  \/ /\ fin \in {"possibly_submitted", "outcome_unknown"} /\ fin' = "settled"
     /\ obligation' = "settled" /\ UNCHANGED restored
     /\ Kind(ledger) = "settle"
  \/ /\ fin \notin {"settled", "released"} /\ fin' = "released" /\ restored' = restored + 1
     /\ \/ Kind(ledger) \in {"release", "unused"} /\ obligation' = "reversed"
        \/ Kind(ledger) = "remedy" /\ obligation' = "settled"

LedgerMoves ==
  /\ ledger' = ledger \/ (ledger = Held /\ Sound(ledger'))
  /\ \A b \in wire' : b \in wire \/ Sound(b)

WorldMoves ==
  /\ chain = "paid" => chain' = "paid"
  /\ Dead => Dead'
  /\ chain' # "none" => chain # "none" \/ fin # "reserved"

RowMoves ==
  /\ row'.state = "completed" => row.state = "completed" \/ fin = "settled"
  /\ row'.owner = "expired_unused" => row.owner = "expired_unused" \/ pay'.evidence # NoEvidence

PayMoves ==
  /\ pay'.settlement = "settled" => pay.settlement = "settled" \/ chain = "paid"
  /\ \/ pay'.evidence = pay.evidence
     \/ /\ pay'.evidence \notin {Release, NoEvidence} /\ Sound(pay'.evidence)
        /\ row.owner = "expired_unused" => row'.owner # "expired_unused"

JobsMove == \A p \in Procs : job'[p] = job[p] \/ JobKnows(p)'

Moves == MoneyMoves /\ LedgerMoves /\ WorldMoves /\ RowMoves /\ PayMoves

LEMMA SoundStays == ASSUME WorldMoves, NEW b PROVE Sound(b) => (Sound(b))'
BY DEF WorldMoves, Sound, Dead, Kind

LEMMA JobsFrame ==
  ASSUME DataOK, MoneyInv, Moves, JobsMove
  PROVE  \A p \in Procs : JobKnows(p)'
<1>. SUFFICES ASSUME NEW p \in Procs, job'[p] = job[p] PROVE JobKnows(p)'
  BY DEF JobsMove
<1>1. JobKnows(p) BY DEF MoneyInv
<1>2. Sound(job[p].bundle) => Sound(job[p].bundle)'
  BY DEF Moves, WorldMoves, Sound, Dead, Kind
<1>3. Fits(job[p].goal, job[p].bundle) => Fits(job[p].goal, job[p].bundle)'
  BY DEF Fits, Kind
<1>4. job[p].pc = "finalize" => ledger' = job[p].bundle
  <2>1. job[p].pc = "finalize" => job[p].bundle # Held
    BY <1>1, Kinds, BundleTypes DEF JobKnows, Fits
  <2>. QED BY <2>1, <1>1 DEF JobKnows, Moves, LedgerMoves
<1>5. fin # "reserved" => fin' # "reserved"
  BY DEF Moves, MoneyMoves, money
<1>6. fin = "settled" => fin' = "settled"
  BY DEF Moves, MoneyMoves, money
<1>7. Dead => Dead'
  BY DEF Moves, WorldMoves
<1>. QED BY <1>1, <1>2, <1>3, <1>4, <1>5, <1>6, <1>7 DEF JobKnows

LEMMA MoneyFrame ==
  ASSUME DataOK, MoneyInv, Moves, JobsMove
  PROVE  MoneyInv'
<1>1. BooksAgree'
  <2>1. BooksAgree BY DEF MoneyInv
  <2>2. ledger = Held => fin \notin {"settled", "released"}
    BY <2>1, Kinds DEF BooksAgree
  <2>3. Kind(ledger) \in {"settle", "remedy", "release", "unused"} => ledger' = ledger
    BY Kinds DEF Moves, LedgerMoves
  <2>4. UNCHANGED money => BooksAgree'
    BY <2>1, <2>2 DEF Moves, LedgerMoves, BooksAgree, money
  <2>. QED BY <2>1, <2>3, <2>4 DEF Moves, MoneyMoves, BooksAgree
<1>2. CreditFollows'
  BY DEF MoneyInv, Moves, MoneyMoves, CreditFollows, money, DataOK
<1>3. fin # "reserved" => fin' # "reserved"
  BY DEF Moves, MoneyMoves, money
<1>4. fin = "settled" => fin' = "settled"
  BY DEF Moves, MoneyMoves, money
<1>5. SignedOnlyWhenMarked'
  BY <1>3 DEF MoneyInv, SignedOnlyWhenMarked, Moves, WorldMoves
<1>6. CompletedIsSettled'
  BY <1>4 DEF MoneyInv, CompletedIsSettled, Moves, RowMoves
<1>7. EvidencePinned' 
  BY DEF MoneyInv, EvidencePinned, Moves, RowMoves, PayMoves
<1>8. EvidenceSound'
  <2>1. Sound(pay.evidence) BY DEF MoneyInv, EvidenceSound
  <2>2. Sound(pay'.evidence) BY <2>1 DEF Moves, PayMoves
  <2>. QED BY <2>2 DEF MoneyInv, EvidenceSound, Moves, PayMoves, WorldMoves, Sound, Dead, Kind
<1>9. SettledIsPaid'
  BY DEF MoneyInv, SettledIsPaid, Moves, PayMoves, WorldMoves
<1>10. Sound(ledger)'
  <2>1. Sound(ledger') BY DEF MoneyInv, Moves, LedgerMoves
  <2>. QED BY <2>1 DEF Moves, WorldMoves, Sound, Dead, Kind
<1>11. \A b \in wire' : Sound(b)'
  <2>. SUFFICES ASSUME NEW b \in wire' PROVE Sound(b)' OBVIOUS
  <2>1. Sound(b) BY DEF MoneyInv, Moves, LedgerMoves
  <2>. QED BY <2>1 DEF Moves, WorldMoves, Sound, Dead, Kind
<1>12. \A p \in Procs : JobKnows(p)' BY JobsFrame
<1>. QED BY <1>1, <1>2, <1>5, <1>6, <1>7, <1>8, <1>9, <1>10, <1>11, <1>12 DEF MoneyInv

(* A step of the jobs alone moves nothing else.                             *)
LEMMA QuietMoves ==
  ASSUME DataOK, MoneyInv, UNCHANGED <<db, world, books, deaths>>
  PROVE  DataOK' /\ Moves
<1>1. DataOK' BY DEF DataOK, db, world, books, money
<1>2. MoneyMoves BY DEF MoneyMoves, db
<1>3. LedgerMoves BY DEF LedgerMoves, books
<1>4. WorldMoves BY DEF WorldMoves, Dead, world
<1>5. RowMoves /\ PayMoves BY DEF RowMoves, PayMoves, db
<1>. QED BY <1>1, <1>2, <1>3, <1>4, <1>5 DEF Moves

(* A step that leaves the hold, the ledger and the world alone moves if the *)
(* row and the payment do.                                                  *)
LEMMA RecordMoves ==
  ASSUME DataOK, MoneyInv, UNCHANGED <<money, world, books>>, RowMoves, PayMoves
  PROVE  Moves
<1>1. MoneyMoves BY DEF MoneyMoves
<1>2. LedgerMoves BY DEF LedgerMoves, books
<1>3. WorldMoves BY DEF WorldMoves, Dead, world
<1>. QED BY <1>1, <1>2, <1>3 DEF Moves

LEMMA MarkMoves ==
  ASSUME DataOK, MoneyInv, MoneyMoves, UNCHANGED <<row, pay, world, books>>
  PROVE  Moves
<1>1. LedgerMoves BY DEF LedgerMoves, books
<1>2. WorldMoves BY DEF WorldMoves, Dead, world
<1>3. RowMoves /\ PayMoves BY DEF RowMoves, PayMoves
<1>. QED BY <1>1, <1>2, <1>3 DEF Moves

(* Jobs that go to a step where nothing has to be known.                    *)
LEMMA Ignorant ==
  ASSUME NEW p, job'[p].pc \notin Knowing PROVE JobKnows(p)'
BY DEF Knowing, JobKnows

LEMMA OneMoves ==
  ASSUME NEW p \in Procs, Only(p), JobKnows(p)' PROVE JobsMove
BY DEF Only, JobsMove

LEMMA GotoMoves ==
  ASSUME JobsOK, NEW p \in Procs, NEW pc \in PC \ Knowing, Goto(p, pc)
  PROVE  JobsOK' /\ JobsMove
<1>1. JobsOK' /\ Only(p) /\ job'[p].pc = pc BY GotoJob
<1>2. JobKnows(p)' BY <1>1, Ignorant
<1>. QED BY <1>1, <1>2, OneMoves

LEMMA FinishMoves ==
  ASSUME JobsOK, NEW p \in Procs, Finish(p)
  PROVE  JobsOK' /\ JobsMove
<1>1. JobsOK' /\ Only(p) /\ job'[p].pc = "done" BY FinishJob
<1>2. job'[p].pc \notin Knowing BY <1>1 DEF Knowing
<1>3. JobKnows(p)' BY <1>2, Ignorant
<1>. QED BY <1>1, <1>3, OneMoves

LEMMA BookMoves ==
  ASSUME JobsOK, NEW p \in Procs, NEW b \in Bundles, NEW g \in Goals, Book(p, b, g),
         Fits(g, b), (Sound(b))'
  PROVE  JobsOK' /\ JobsMove
<1>1. /\ JobsOK' /\ Only(p)
      /\ job'[p].pc = "booking" /\ job'[p].bundle = b /\ job'[p].goal = g
  BY BookJob
<1>2. Fits(job'[p].goal, job'[p].bundle) BY <1>1
<1>3. Sound(job[p].bundle)' BY <1>1 DEF Sound, Kind
<1>4. Fits(job[p].goal, job[p].bundle)' BY <1>2 DEF Fits, Kind
<1>5. JobKnows(p)' BY <1>1, <1>3, <1>4 DEF JobKnows
<1>. QED BY <1>1, <1>5, OneMoves

-----------------------------------------------------------------------------
(* The ways to end the hold.                                                *)

Inv == DataOK /\ JobsOK /\ MoneyInv
Good == DataOK' /\ JobsOK' /\ Moves /\ JobsMove

LEMMA GoodKeeps == ASSUME Inv, Good PROVE Inv'
BY MoneyFrame DEF Inv, Good

LEMMA QuietGood ==
  ASSUME Inv, UNCHANGED <<db, world, books, deaths>>, JobsOK', JobsMove PROVE Good
BY QuietMoves DEF Inv, Good

LEMMA Knows == ASSUME Inv, NEW p \in Procs PROVE JobKnows(p) /\ job[p] \in Job
BY DEF Inv, MoneyInv, JobsOK

LEMMA AcceptedPcs ==
  /\ \A g \in Goals \ {"none"} : AcceptedPc[g] \in PC /\ RefusedPc[g] \in PC \ Knowing
  /\ \A g \in {"abandon", "refuse", "deliver", "caught", "cancel", "remedy", "unused"} :
       AcceptedPc[g] \notin Knowing
  /\ \A g \in {"charge", "repair"} : AcceptedPc[g] \in {"complete", "reconcile"}
BY DEF AcceptedPc, RefusedPc, Goals, PC, Knowing

LEMMA FitsGoal == ASSUME NEW g, NEW b, Fits(g, b) PROVE g \in Goals \ {"none"} /\ b \in Bundles
BY BundleTypes DEF Fits, Goals

LEMMA RefusedMoves ==
  ASSUME Inv, NEW p \in Procs, job[p].pc \in {"booking", "post", "finalize"}, Refused(p)
  PROVE  JobsOK' /\ JobsMove
<1>1. job[p].goal \in Goals \ {"none"} BY Knows, FitsGoal DEF JobKnows
<1>2. RefusedPc[job[p].goal] \in PC \ Knowing BY <1>1, AcceptedPcs
<1>3. PICK pc \in PC \ Knowing : Goto(p, pc) BY <1>2 DEF Refused
<1>. QED BY <1>3, GotoMoves DEF Inv

LEMMA AcceptedMoves ==
  ASSUME Inv, NEW p \in Procs, job[p].pc \in {"booking", "post", "finalize"}, Accepted(p),
         job[p].goal \in {"charge", "repair"} => fin' = "settled"
  PROVE  JobsOK' /\ JobsMove
<1>1. job[p].goal \in Goals \ {"none"} BY Knows, FitsGoal DEF JobKnows
<1>2. CASE job[p].goal \in {"charge", "repair"}
  <2>1. PICK pc \in PC : Goto(p, pc) /\ pc \in {"complete", "reconcile"}
    BY <1>1, <1>2, AcceptedPcs DEF Accepted
  <2>2. JobsOK' /\ Only(p) /\ job'[p].pc = pc BY <2>1, GotoJob DEF Inv
  <2>3. JobKnows(p)' BY <2>1, <2>2, <1>2 DEF JobKnows
  <2>. QED BY <2>2, <2>3, OneMoves
<1>3. CASE job[p].goal \notin {"charge", "repair"}
  <2>1. AcceptedPc[job[p].goal] \in PC \ Knowing BY <1>1, <1>3, AcceptedPcs DEF Goals
  <2>2. PICK pc \in PC \ Knowing : Goto(p, pc) BY <2>1 DEF Accepted
  <2>. QED BY <2>2, GotoMoves DEF Inv
<1>. QED BY <1>2, <1>3

(* The bundle of a job that ends the hold tells its goal.                   *)
LEMMA GoalOf ==
  ASSUME Inv, NEW p \in Procs, job[p].pc \in {"booking", "post", "finalize"}
  PROVE  /\ Fits(job[p].goal, job[p].bundle) /\ Sound(job[p].bundle)
         /\ job[p].bundle \in Bundles
         /\ job[p].goal \in {"charge", "repair"}
              <=> job[p].bundle \in {WorkerSettlement, RetainedSettlement}
<1>1. Fits(job[p].goal, job[p].bundle) /\ Sound(job[p].bundle) BY Knows DEF JobKnows
<1>2. job[p].bundle \in Bundles BY <1>1, FitsGoal
<1>3. job[p].goal \in {"charge", "repair"}
        <=> job[p].bundle \in {WorkerSettlement, RetainedSettlement}
  BY <1>1, Kinds DEF Fits
<1>. QED BY <1>1, <1>2, <1>3

(* A job may go on to post what fits, and to finalize what is booked.       *)
LEMMA PostMoves ==
  ASSUME Inv, NEW p \in Procs, job[p].pc = "booking", Goto(p, "post"), UNCHANGED world
  PROVE  JobsOK' /\ JobsMove
<1>1. "post" \in PC BY DEF PC
<1>2. /\ JobsOK' /\ Only(p) /\ job'[p].pc = "post"
      /\ job'[p].bundle = job[p].bundle /\ job'[p].goal = job[p].goal
  BY <1>1, GotoJob DEF Inv
<1>3. Fits(job[p].goal, job[p].bundle) /\ Sound(job[p].bundle) BY GoalOf
<1>4. JobKnows(p)' BY <1>2, <1>3 DEF JobKnows, Fits, Sound, Dead, Kind, world
<1>. QED BY <1>2, <1>4, OneMoves

LEMMA BookingReleaseGood == ASSUME Inv, NEW p \in Procs, BookingRelease(p) PROVE Good
<1>1. job[p].pc = "booking" /\ job[p].bundle = Release BY DEF BookingRelease, At
<1>2. job[p].goal \notin {"charge", "repair"} BY <1>1, GoalOf, Kinds
<1>3. UNCHANGED <<db, world, books, deaths>> BY DEF BookingRelease
<1>4. CASE Accepted(p) BY <1>1, <1>2, <1>3, <1>4, AcceptedMoves, QuietGood
<1>5. CASE Refused(p) BY <1>1, <1>3, <1>5, RefusedMoves, QuietGood
<1>6. CASE Goto(p, "post") BY <1>1, <1>3, <1>6, PostMoves, QuietGood
<1>. QED BY <1>4, <1>5, <1>6 DEF BookingRelease

LEMMA BookingRemedyGood == ASSUME Inv, NEW p \in Procs, BookingRemedy(p) PROVE Good
<1>1. job[p].pc = "booking" /\ UNCHANGED <<db, world, books, deaths>>
  BY DEF BookingRemedy, At
<1>2. CASE Refused(p) BY <1>1, <1>2, RefusedMoves, QuietGood
<1>3. CASE Goto(p, "post") BY <1>1, <1>3, PostMoves, QuietGood
<1>. QED BY <1>2, <1>3 DEF BookingRemedy

LEMMA BookingSettlementGood == ASSUME Inv, NEW p \in Procs, BookingSettlement(p) PROVE Good
<1>1. job[p].pc = "booking" /\ UNCHANGED <<db, world, books, deaths>>
  BY DEF BookingSettlement, At
<1>2. CASE Refused(p) BY <1>1, <1>2, RefusedMoves, QuietGood
<1>3. CASE Goto(p, "post") BY <1>1, <1>3, PostMoves, QuietGood
<1>4. CASE /\ fin = "settled"
           /\ job' = [job EXCEPT ![p].bundle = ledger, ![p].pc = "finalize"]
  <2>1. Kind(ledger) = "settle" /\ Sound(ledger) BY <1>4 DEF Inv, MoneyInv, BooksAgree
  <2>2. ledger \in {WorkerSettlement, RetainedSettlement}
    BY <2>1, BundleKinds, Kinds DEF Inv, DataOK
  <2>3. job[p].goal \in {"charge", "repair"} BY <1>1, GoalOf DEF BookingSettlement
  <2>4. job[p] \in Job BY Knows
  <2>5. [job[p] EXCEPT !.bundle = ledger, !.pc = "finalize"] \in Job
    BY <2>4 DEF Job, PC, Inv, DataOK
  <2>6. job' = [job EXCEPT ![p] = [job[p] EXCEPT !.bundle = ledger, !.pc = "finalize"]]
    BY <1>4 DEF Inv, JobsOK
  <2>7. /\ JobsOK' /\ Only(p)
        /\ job'[p] = [job[p] EXCEPT !.bundle = ledger, !.pc = "finalize"]
    BY <2>5, <2>6, JobBecomes DEF Inv
  <2>8. job'[p].pc = "finalize" /\ job'[p].bundle = ledger /\ job'[p].goal = job[p].goal
    BY <2>4, <2>7 DEF Job
  <2>9. UNCHANGED <<ledger, chain, expired>> BY <1>1 DEF books, world
  <2>10. JobKnows(p)'
    BY <2>1, <2>2, <2>3, <2>8, <2>9 DEF JobKnows, Fits, Sound, Dead, Kind
  <2>. QED BY <1>1, <2>7, <2>10, OneMoves, QuietGood
<1>. QED BY <1>2, <1>3, <1>4 DEF BookingSettlement

(* Posting: the bundle of the job is sound, so whatever it does is.         *)
LEMMA PostGood ==
  ASSUME Inv, NEW p \in Procs, PostBooked(p) \/ PostUnknown(p) \/ PostDelayed(p)
  PROVE  Good
<1>1. job[p].pc = "post" /\ UNCHANGED <<db, world, deaths>>
  BY DEF PostBooked, PostUnknown, PostDelayed, At
<1>2. Sound(job[p].bundle) /\ job[p].bundle \in Bundles BY <1>1, GoalOf
<1>3. /\ ledger' \in {ledger, job[p].bundle} /\ wire' \subseteq wire \cup {job[p].bundle}
      /\ ledger # Held => ledger' = ledger
  BY DEF PostBooked, PostUnknown, PostDelayed
<1>4. DataOK' BY <1>1, <1>2, <1>3 DEF Inv, DataOK, db, money, world
<1>5. LedgerMoves BY <1>2, <1>3 DEF LedgerMoves
<1>6. MoneyMoves /\ WorldMoves /\ RowMoves /\ PayMoves
  BY <1>1 DEF MoneyMoves, WorldMoves, RowMoves, PayMoves, Dead, db, world
<1>7. Moves BY <1>5, <1>6 DEF Moves
<1>8. CASE Refused(p) BY <1>1, <1>4, <1>7, <1>8, RefusedMoves DEF Good
<1>9. CASE PostBooked(p)
  <2>1. "finalize" \in PC BY DEF PC
  <2>2. /\ JobsOK' /\ Only(p) /\ job'[p].pc = "finalize"
        /\ job'[p].bundle = job[p].bundle /\ job'[p].goal = job[p].goal
    BY <1>9, <2>1, GotoJob DEF PostBooked, Inv
  <2>3. Fits(job[p].goal, job[p].bundle) BY <1>1, GoalOf
  <2>4. ledger' = job[p].bundle BY <1>9 DEF PostBooked
  <2>5. UNCHANGED <<chain, expired>> BY <1>1 DEF world
  <2>6. JobKnows(p)'
    BY <1>2, <2>2, <2>3, <2>4, <2>5 DEF JobKnows, Fits, Sound, Dead, Kind
  <2>. QED BY <1>4, <1>7, <2>2, <2>6, OneMoves DEF Good
<1>. QED BY <1>8, <1>9 DEF PostUnknown, PostDelayed

LEMMA PostConflictsGood == ASSUME Inv, NEW p \in Procs, PostConflicts(p) PROVE Good
BY RefusedMoves, QuietGood DEF PostConflicts, At

LEMMA LateWriteGood == ASSUME Inv, NEW b \in Bundles, LateWrite(b) PROVE Good
<1>1. Sound(b) BY DEF LateWrite, Inv, MoneyInv
<1>2. DataOK' BY DEF LateWrite, Inv, DataOK, db, money, world
<1>3. LedgerMoves BY <1>1 DEF LateWrite, LedgerMoves
<1>4. MoneyMoves /\ WorldMoves /\ RowMoves /\ PayMoves
  BY DEF LateWrite, MoneyMoves, WorldMoves, RowMoves, PayMoves, Dead, db, world
<1>5. JobsOK' /\ JobsMove BY DEF LateWrite, Inv, JobsOK, JobsMove
<1>. QED BY <1>2, <1>3, <1>4, <1>5 DEF Good, Moves

(* Finalizing: the ledger booked the bundle of the job.                     *)
LEMMA FinalizeReleaseGood == ASSUME Inv, NEW p \in Procs, FinalizeRelease(p) PROVE Good
<1>1. /\ job[p].pc = "finalize" /\ job[p].bundle = Release
      /\ UNCHANGED <<row, control, pay, world, books, deaths>>
  BY DEF FinalizeRelease, At
<1>2. Kind(ledger) = "release" BY <1>1, Knows, Kinds DEF JobKnows
<1>3. job[p].goal \notin {"charge", "repair"} BY <1>1, GoalOf, Kinds
<1>4. MoneyMoves BY <1>2 DEF FinalizeRelease, MoneyMoves, Restores
<1>5. Moves BY <1>1, <1>4, MarkMoves DEF Inv
<1>6. DataOK' BY <1>1 DEF FinalizeRelease, Inv, DataOK, money, world, books
<1>7. JobsOK' /\ JobsMove
  BY <1>1, <1>3, AcceptedMoves, RefusedMoves DEF FinalizeRelease
<1>. QED BY <1>5, <1>6, <1>7 DEF Good

LEMMA FinalizeSettlementGood == ASSUME Inv, NEW p \in Procs, FinalizeSettlement(p) PROVE Good
<1>1. /\ job[p].pc = "finalize" /\ job[p].bundle \in {WorkerSettlement, RetainedSettlement}
      /\ UNCHANGED <<row, restored, control, pay, world, books, deaths>>
  BY DEF FinalizeSettlement, At
<1>2. Kind(ledger) = "settle" BY <1>1, Knows, Kinds DEF JobKnows
<1>3. MoneyMoves BY <1>1, <1>2 DEF FinalizeSettlement, MoneyMoves, MaySettle, money
<1>4. Moves BY <1>1, <1>3, MarkMoves DEF Inv
<1>5. DataOK' BY <1>1 DEF FinalizeSettlement, Inv, DataOK, world, books
<1>6. Refused(p) \/ (Accepted(p) /\ fin' = "settled") BY DEF FinalizeSettlement
<1>7. JobsOK' /\ JobsMove BY <1>1, <1>6, AcceptedMoves, RefusedMoves
<1>. QED BY <1>4, <1>5, <1>7 DEF Good

LEMMA ClearedRow ==
  ASSUME NEW r \in Row, NEW state \in {"pending", "completed", "refused", "cancelled",
                                       "reconciliation_required"}
  PROVE  /\ Cleared(r) \in Row /\ [Cleared(r) EXCEPT !.state = state] \in Row
         /\ [Cleared(r) EXCEPT !.state = state].state = state
         /\ [Cleared(r) EXCEPT !.state = state].owner = "none"
         /\ Cleared(r).owner = "none"
<1>1. 0 \in 0..MaxAttempts BY PaidCallAssumption
<1>2. Cleared(r) \in Row /\ Cleared(r).owner = "none" BY <1>1 DEF Cleared, Row
<1>3. \A q \in Row : /\ [q EXCEPT !.state = state] \in Row
                    /\ [q EXCEPT !.state = state].state = state
                    /\ [q EXCEPT !.state = state].owner = q.owner
  BY DEF Row
<1>. QED BY <1>2, <1>3

LEMMA FinishUnusedGood == ASSUME Inv, NEW p \in Procs, FinishUnused(p) PROVE Good
<1>1. /\ job[p].pc = "finalize" /\ job[p].goal = "unused" /\ Finish(p)
      /\ UNCHANGED <<control, world, books, deaths>>
  BY DEF FinishUnused, At
<1>2. Kind(ledger) = "unused" BY <1>1, Knows DEF JobKnows, Fits
<1>3. row' \in Row
  BY ClearedRow DEF FinishUnused, Inv, DataOK
<1>a. pay' \in Pay
  <2>1. [pay EXCEPT !.state = "observed", !.settlement = "not_settled"] \in Pay
    BY DEF Inv, DataOK, Pay
  <2>. QED BY <2>1 DEF FinishUnused, Inv, DataOK
<1>4. DataOK'
  BY <1>1, <1>3, <1>a DEF FinishUnused, Inv, DataOK, money, world, books
<1>5. MoneyMoves BY <1>2 DEF FinishUnused, MoneyMoves
<1>6. RowMoves BY ClearedRow DEF FinishUnused, RowMoves, Inv, DataOK
<1>7. PayMoves
  BY DEF FinishUnused, PayMoves, Inv, DataOK, Pay
<1>8. LedgerMoves /\ WorldMoves BY <1>1 DEF LedgerMoves, WorldMoves, Dead, books, world
<1>. QED BY <1>1, <1>4, <1>5, <1>6, <1>7, <1>8, FinishMoves DEF Good, Moves, Inv

LEMMA FinishRemedyGood == ASSUME Inv, NEW p \in Procs, FinishRemedy(p) PROVE Good
<1>1. /\ job[p].pc = "finalize" /\ job[p].goal = "remedy" /\ Finish(p)
      /\ UNCHANGED <<control, world, books, deaths>>
  BY DEF FinishRemedy, At
<1>2. Kind(ledger) = "remedy" /\ job[p].bundle \in Bundles /\ job[p].bundle # Release
      /\ Sound(job[p].bundle) /\ chain = "paid" /\ job[p].bundle # NoEvidence
  BY <1>1, Knows, GoalOf, Kinds DEF JobKnows, Fits, Sound
<1>3. row' \in Row
  BY ClearedRow DEF FinishRemedy, Inv, DataOK
<1>a. pay' \in Pay
  <2>1. [pay EXCEPT !.state = "observed", !.settlement = "settled",
                    !.evidence = job[p].bundle] \in Pay
    BY <1>2 DEF Inv, DataOK, Pay
  <2>. QED BY <2>1 DEF FinishRemedy, Inv, DataOK
<1>4. DataOK'
  BY <1>1, <1>3, <1>a DEF FinishRemedy, Inv, DataOK, money, world, books
<1>5. MoneyMoves BY <1>2 DEF FinishRemedy, MoneyMoves
<1>6. RowMoves BY ClearedRow DEF FinishRemedy, RowMoves, Inv, DataOK
<1>7. PayMoves
  <2>1. CASE UNCHANGED pay BY <2>1 DEF PayMoves
  <2>2. CASE /\ pay' = [pay EXCEPT !.state = "observed", !.settlement = "settled",
                                   !.evidence = job[p].bundle]
             /\ row' = [Cleared(row) EXCEPT !.state = "refused"]
    <3>1. pay'.evidence = job[p].bundle BY <2>2 DEF Inv, DataOK, Pay
    <3>2. row'.owner # "expired_unused" BY <2>2, ClearedRow DEF Inv, DataOK
    <3>. QED BY <1>2, <3>1, <3>2 DEF PayMoves
  <2>. QED BY <2>1, <2>2 DEF FinishRemedy
<1>8. LedgerMoves /\ WorldMoves BY <1>1 DEF LedgerMoves, WorldMoves, Dead, books, world
<1>. QED BY <1>1, <1>4, <1>5, <1>6, <1>7, <1>8, FinishMoves DEF Good, Moves, Inv

LEMMA ClaimRemedyGood == ASSUME Inv, NEW p \in Procs, ClaimRemedy(p) PROVE Good
<1>1. /\ UNCHANGED <<money, control, pay, world, books, deaths>>
      /\ job[p].bundle \in {ErrorRemedy, LossRemedy}
  BY DEF ClaimRemedy
<1>2. CASE UNCHANGED row /\ Finish(p)
  <2>1. UNCHANGED <<db, world, books, deaths>> BY <1>1, <1>2 DEF db
  <2>. QED BY <1>2, <2>1, FinishMoves, QuietGood DEF Inv
<1>3. CASE /\ row' = [row EXCEPT !.owner = RemedyOwner(job[p].bundle), !.live = TRUE,
                                 !.manual = TRUE]
           /\ chain = "paid" /\ Book(p, job[p].bundle, "remedy")
  <2>1. RemedyOwner(job[p].bundle) \in {"http_error", "lost_result"} BY DEF RemedyOwner
  <2>2. /\ row' \in Row /\ row'.state = row.state /\ row'.owner # "expired_unused"
    BY <1>3, <2>1 DEF Inv, DataOK, Row
  <2>3. DataOK' BY <1>1, <2>2 DEF Inv, DataOK, money, world, books
  <2>4. RowMoves /\ PayMoves BY <1>1, <2>2 DEF RowMoves, PayMoves
  <2>5. Moves BY <1>1, <2>4, RecordMoves DEF Inv
  <2>6. Kind(job[p].bundle) = "remedy" /\ job[p].bundle \in Bundles
    BY <1>1, Kinds, BundleTypes
  <2>7. Sound(job[p].bundle) BY <1>3, <2>6 DEF Sound
  <2>8. PICK b \in Bundles : b = job[p].bundle /\ Book(p, b, "remedy") BY <1>3, <2>6
  <2>9. (Sound(b))' BY <1>1, <2>7, <2>8 DEF Sound, Dead, Kind, world
  <2>10. Fits("remedy", b) /\ "remedy" \in Goals BY <1>1, <2>8 DEF Fits, Goals
  <2>11. JobsOK' /\ JobsMove BY <2>8, <2>9, <2>10, BookMoves DEF Inv
  <2>. QED BY <2>3, <2>5, <2>11 DEF Good
<1>. QED BY <1>1, <1>2, <1>3 DEF ClaimRemedy, RemedyFits

LEMMA EndHoldGood == ASSUME Inv, NEW p \in Procs, EndHold(p) PROVE Good
BY BookingReleaseGood, BookingSettlementGood, BookingRemedyGood, PostGood, PostConflictsGood,
   FinalizeReleaseGood, FinalizeSettlementGood, FinishUnusedGood, ClaimRemedyGood,
   FinishRemedyGood DEF EndHold

-----------------------------------------------------------------------------
(* Steps that move one part of the records.                                 *)

LEMMA PayOnly ==
  ASSUME Inv, UNCHANGED <<row, money, control, world, books, deaths>>,
         pay' \in Pay, pay'.evidence = pay.evidence,
         pay'.settlement = "settled" => pay.settlement = "settled" \/ chain = "paid",
         JobsOK', JobsMove
  PROVE  Good
<1>1. RowMoves /\ PayMoves BY DEF RowMoves, PayMoves
<1>2. Moves BY <1>1, RecordMoves DEF Inv
<1>3. DataOK' BY DEF Inv, DataOK, money, world, books
<1>. QED BY <1>2, <1>3 DEF Good

LEMMA RowOnly ==
  ASSUME Inv, UNCHANGED <<money, pay, world, books, deaths>>,
         row' \in Row, control' \in Controls,
         row'.owner = row.owner \/ row'.owner # "expired_unused",
         row'.state = "completed" => row.state = "completed" \/ fin = "settled",
         JobsOK', JobsMove
  PROVE  Good
<1>1. RowMoves /\ PayMoves BY DEF RowMoves, PayMoves
<1>2. Moves BY <1>1, RecordMoves DEF Inv
<1>3. DataOK' BY DEF Inv, DataOK, money, world, books
<1>. QED BY <1>2, <1>3 DEF Good

LEMMA MoneyOnly ==
  ASSUME Inv, UNCHANGED <<row, control, pay, world, books, deaths>>, MoneyMoves,
         JobsOK', JobsMove
  PROVE  Good
<1>1. Moves BY MarkMoves DEF Inv
<1>2. DataOK' BY DEF Inv, DataOK, MoneyMoves, money, world, books
<1>. QED BY <1>1, <1>2 DEF Good

LEMMA NewJobMoves ==
  ASSUME JobsOK, NEW p \in Procs, NEW pc \in PC \ Knowing, job' = [job EXCEPT ![p] = NewJob(pc)]
  PROVE  JobsOK' /\ JobsMove
<1>1. NewJob(pc) \in Job /\ NewJob(pc).pc = pc BY NewJobType
<1>2. JobsOK' /\ Only(p) /\ job'[p] = NewJob(pc) BY <1>1, JobBecomes
<1>. QED BY <1>1, <1>2, Ignorant, OneMoves

(* A job moves on and starts another, at steps where nothing has to be known. *)
LEMMA TwoJobsMove ==
  ASSUME JobsOK, NEW p \in Procs, NEW q \in Procs, p # q, NEW j \in Job, NEW i \in Job,
         job' = [job EXCEPT ![p] = j, ![q] = i],
         j.pc \notin Knowing, i = job[q] \/ i.pc \notin Knowing
  PROVE  JobsOK' /\ JobsMove
<1>1. JobsOK' BY DEF JobsOK
<1>2. job'[p] = j /\ job'[q] = i BY DEF JobsOK
<1>3. \A o \in Procs \ {p, q} : job'[o] = job[o] BY DEF JobsOK
<1>4. JobKnows(p)' BY <1>2, Ignorant
<1>5. job'[q] = job[q] \/ JobKnows(q)' BY <1>2, Ignorant
<1>. QED BY <1>1, <1>3, <1>4, <1>5 DEF JobsMove

LEMMA OneJobMoves ==
  ASSUME JobsOK, NEW p \in Procs, NEW j \in Job, job' = [job EXCEPT ![p] = j],
         j.pc \notin Knowing
  PROVE  JobsOK' /\ JobsMove
BY JobBecomes, Ignorant, OneMoves

LEMMA ReleaseBook ==
  ASSUME Inv, NEW p \in Procs, NEW g \in {"abandon", "refuse", "deliver", "caught", "cancel"},
         Book(p, Release, g)
  PROVE  JobsOK' /\ JobsMove
<1>1. PICK b \in Bundles : b = Release /\ Book(p, b, g) BY BundleTypes
<1>2. g \in Goals /\ Fits(g, b) BY <1>1 DEF Goals, Fits
<1>3. (Sound(b))' BY <1>1, Kinds DEF Sound, Kind
<1>. QED BY <1>1, <1>2, <1>3, BookMoves DEF Inv

-----------------------------------------------------------------------------
(* The worker.                                                              *)

LEMMA PCs ==
  /\ {"none", "throw", "idle", "due", "start", "checks", "before", "challenge", "fence", "mark",
      "signature", "submit", "send", "await", "observe", "record", "judge",
      "unsubmitted", "markUnknown", "refuse", "unknown", "converge", "caught", "failed",
      "load", "cancel", "cancelled", "required", "queue", "recover", "retained", "verify",
      "proof", "done"} \subseteq PC \ Knowing
  /\ Knowing \subseteq PC
BY DEF PC, Knowing

LEMMA ThrowsGood == ASSUME Inv, Throws, UNCHANGED <<db, world, books>> PROVE Good
<1>1. DataOK' BY PaidCallAssumption
      DEF Inv, DataOK, Throws, RetriesLeft, db, money, world, books
<1>2. MoneyMoves /\ LedgerMoves /\ WorldMoves /\ RowMoves /\ PayMoves
  BY DEF MoneyMoves, LedgerMoves, WorldMoves, RowMoves, PayMoves, Dead, db, world, books
<1>3. \E pc \in {"start", "failed"} : job' = [job EXCEPT ![Worker] = NewJob(pc)]
  BY DEF Throws, W
<1>4. JobsOK' /\ JobsMove BY <1>3, PCs, ProcTypes, NewJobMoves DEF Inv
<1>. QED BY <1>1, <1>2, <1>4 DEF Good, Moves

(* The worker goes on and nothing else happens.                             *)
LEMMA WorkerGoes ==
  ASSUME Inv, UNCHANGED <<db, world, books, deaths>>, NEW pc \in PC \ Knowing, Goto(Worker, pc)
  PROVE  Good
BY GotoMoves, QuietGood, ProcTypes DEF Inv

LEMMA WorkerEnds ==
  ASSUME Inv, UNCHANGED <<db, world, books, deaths>>, Finish(Worker) PROVE Good
BY FinishMoves, QuietGood, ProcTypes DEF Inv

LEMMA WorkerBooksRelease ==
  ASSUME Inv, UNCHANGED <<db, world, books, deaths>>,
         NEW g \in {"abandon", "refuse", "deliver", "caught", "cancel"}, Book(Worker, Release, g)
  PROVE  Good
BY ReleaseBook, QuietGood, ProcTypes

LEMMA WorkerRefuses ==
  ASSUME Inv, UNCHANGED <<db, world, books, deaths>>,
         job' = [job EXCEPT ![Worker].pc = "refuse", ![Worker].goal = "refuse"]
  PROVE  Good
<1>a. job[Worker] \in Job BY ProcTypes DEF Inv, JobsOK
<1>1. [job[Worker] EXCEPT !.pc = "refuse", !.goal = "refuse"] \in Job
  BY <1>a DEF Job, PC, Goals
<1>2. [job[Worker] EXCEPT !.pc = "refuse", !.goal = "refuse"].pc \notin Knowing
  BY <1>a DEF Job, Knowing
<1>3. job' = [job EXCEPT ![Worker] = [job[Worker] EXCEPT !.pc = "refuse", !.goal = "refuse"]]
  BY DEF Inv, JobsOK
<1>. QED BY <1>1, <1>2, <1>3, ProcTypes, OneJobMoves, QuietGood DEF Inv

LEMMA WorkerGatesGood == ASSUME Inv, WorkerGates PROVE Good
<1>1. CASE RestartLeased
  <2>1. \/ Goto(Worker, "checks") \/ Goto(Worker, "converge") \/ Book(Worker, Release, "refuse")
        \/ job' = [job EXCEPT ![Worker].pc = "refuse", ![Worker].goal = "refuse"]
    BY <1>1 DEF RestartLeased, W
  <2>2. UNCHANGED <<db, world, books, deaths>> BY <1>1 DEF RestartLeased
  <2>. QED BY <2>1, <2>2, PCs, WorkerGoes, WorkerBooksRelease, WorkerRefuses
<1>2. CASE RestartFenced BY <1>2, PCs, WorkerGoes DEF RestartFenced, W
<1>3. CASE RestartEnded BY <1>3, WorkerEnds DEF RestartEnded, W
<1>4. CASE RestartUncertain
  <2>1. row' = [row EXCEPT !.state = "reconciliation_required"] BY <1>4 DEF RestartUncertain
  <2>2. row' \in Row /\ row'.state # "completed" /\ row'.owner = row.owner
    BY <2>1 DEF Inv, DataOK, Row
  <2>3. JobsOK' /\ JobsMove
    BY <1>4, FinishMoves, ProcTypes DEF RestartUncertain, W, Inv
  <2>4. control' \in Controls BY <1>4 DEF RestartUncertain, Inv, DataOK
  <2>. QED BY <1>4, <2>2, <2>3, <2>4, RowOnly DEF RestartUncertain
<1>5. CASE ChecksPass BY <1>5, PCs, WorkerGoes DEF ChecksPass, ByWorker, W
<1>6. CASE ChecksStop BY <1>6, WorkerEnds DEF ChecksStop, W
<1>7. CASE ChecksRefuse BY <1>7, WorkerRefuses DEF ChecksRefuse, W
<1>8. CASE BeforeRelease
  <2>1. \/ Book(Worker, Release, "abandon") \/ Finish(Worker) \/ Goto(Worker, "challenge")
        \/ Book(Worker, Release, "refuse")
    BY <1>8 DEF BeforeRelease, W
  <2>2. UNCHANGED <<db, world, books, deaths>> BY <1>8 DEF BeforeRelease
  <2>. QED BY <2>1, <2>2, PCs, WorkerGoes, WorkerEnds, WorkerBooksRelease
<1>. QED BY <1>1, <1>2, <1>3, <1>4, <1>5, <1>6, <1>7, <1>8 DEF WorkerGates

LEMMA GotoKnowing ==
  ASSUME Inv, NEW pc \in PC, Goto(Worker, pc),
         pc \notin {"booking", "post", "finalize", "checkpoint"},
         pc \in {"reread", "sign", "custody"} => fin' # "reserved",
         pc \in {"complete", "reconcile", "accept"} => fin' = "settled"
  PROVE  JobsOK' /\ JobsMove
<1>1. JobsOK' /\ Only(Worker) /\ job'[Worker].pc = pc BY GotoJob, ProcTypes DEF Inv
<1>2. JobKnows(Worker)' BY <1>1, ProcNames DEF JobKnows
<1>. QED BY <1>1, <1>2, OneMoves, ProcTypes

(* A payment row that changes only in its marks.                            *)
LEMMA PayMarks ==
  ASSUME NEW q \in Pay
  PROVE  /\ [q EXCEPT !.state = "prepared"] \in Pay
         /\ [q EXCEPT !.intent = TRUE] \in Pay
         /\ [q EXCEPT !.state = "possibly_submitted", !.started = TRUE] \in Pay
         /\ [q EXCEPT !.observed = TRUE] \in Pay
         /\ \A r \in {[q EXCEPT !.state = "prepared"], [q EXCEPT !.intent = TRUE],
                      [q EXCEPT !.state = "possibly_submitted", !.started = TRUE],
                      [q EXCEPT !.observed = TRUE]} :
              r.evidence = q.evidence /\ r.settlement = q.settlement
BY DEF Pay

LEMMA PreparedGood ==
  ASSUME Inv, UNCHANGED <<row, money, control, world, books, deaths>>,
         pay' \in {pay, [pay EXCEPT !.state = "prepared"], [pay EXCEPT !.intent = TRUE],
                   [pay EXCEPT !.state = "possibly_submitted", !.started = TRUE],
                   [pay EXCEPT !.observed = TRUE]},
         JobsOK', JobsMove
  PROVE  Good
<1>1. pay \in Pay BY DEF Inv, DataOK
<1>2. pay' \in Pay /\ pay'.evidence = pay.evidence /\ pay'.settlement = pay.settlement
  BY <1>1, PayMarks
<1>. QED BY <1>2, PayOnly

LEMMA PrepareGood == ASSUME Inv, Prepare PROVE Good
<1>1. pay' \in {pay, [pay EXCEPT !.state = "prepared"]} BY DEF Prepare
<1>2. PICK pc \in {"fence", "unsubmitted"} : Goto(Worker, pc) BY DEF Prepare, W
<1>3. JobsOK' /\ JobsMove BY <1>2, PCs, GotoMoves, ProcTypes DEF Inv
<1>. QED BY <1>1, <1>3, PreparedGood DEF Prepare

LEMMA FenceGood == ASSUME Inv, Fence PROVE Good
<1>1. control' \in Controls BY DEF Fence, Inv, DataOK, Controls
<1>2. PICK pc \in {"mark", "unsubmitted"} : Goto(Worker, pc) BY DEF Fence, W
<1>3. JobsOK' /\ JobsMove BY <1>2, PCs, GotoMoves, ProcTypes DEF Inv
<1>4. row' \in Row BY DEF Fence, Inv, DataOK
<1>. QED BY <1>1, <1>3, <1>4, RowOnly DEF Fence

LEMMA MarkGood == ASSUME Inv, Mark PROVE Good
<1>1. MoneyMoves BY DEF Mark, MoneyMoves, money
<1>2. job[Worker] \in Job BY ProcTypes DEF Inv, JobsOK
<1>3. CASE job' = [job EXCEPT ![Worker].pc = "unsubmitted"]
  <2>1. Goto(Worker, "unsubmitted") BY <1>3 DEF Goto
  <2>2. JobsOK' /\ JobsMove BY <2>1, PCs, GotoMoves, ProcTypes DEF Inv
  <2>. QED BY <1>1, <2>2, MoneyOnly DEF Mark
<1>4. CASE job' = [job EXCEPT ![Worker].pc = "reread", ![Worker].marked = TRUE]
  <2>1. [job[Worker] EXCEPT !.pc = "reread", !.marked = TRUE] \in Job
    BY <1>2 DEF Job, PC
  <2>2. job' = [job EXCEPT ![Worker] = [job[Worker] EXCEPT !.pc = "reread", !.marked = TRUE]]
    BY <1>4 DEF Inv, JobsOK
  <2>3. /\ JobsOK' /\ Only(Worker)
        /\ job'[Worker] = [job[Worker] EXCEPT !.pc = "reread", !.marked = TRUE]
    BY <2>1, <2>2, JobBecomes, ProcTypes DEF Inv
  <2>4. job'[Worker].pc = "reread" BY <1>2, <2>3 DEF Job
  <2>5. fin' # "reserved" BY DEF Mark
  <2>6. JobKnows(Worker)' BY <2>4, <2>5 DEF JobKnows
  <2>7. JobsMove BY <2>3, <2>6, OneMoves, ProcTypes
  <2>. QED BY <1>1, <2>3, <2>7, MoneyOnly DEF Mark
<1>. QED BY <1>3, <1>4 DEF Mark, W

LEMMA RereadGood == ASSUME Inv, Reread PROVE Good
<1>1. job[Worker].pc = "reread" /\ UNCHANGED <<db, world, books, deaths>>
  BY DEF Reread, ByWorker, At, W
<1>2. fin # "reserved" /\ fin' = fin
  BY <1>1, Knows, ProcTypes DEF JobKnows, db, money
<1>3. PICK pc \in {"sign", "unsubmitted"} : Goto(Worker, pc) BY DEF Reread, ByWorker, W
<1>4. pc \in PC BY DEF PC
<1>5. JobsOK' /\ JobsMove BY <1>2, <1>3, <1>4, GotoKnowing
<1>. QED BY <1>1, <1>5, QuietGood

LEMMA SignGood == ASSUME Inv, Sign PROVE Good
<1>1. job[Worker].pc = "sign" /\ UNCHANGED <<row, money, control, world, books, deaths>>
  BY DEF Sign, wpc, W
<1>2. fin' # "reserved" BY <1>1, Knows, ProcTypes DEF JobKnows, money
<1>3. PICK pc \in {"custody", "unsubmitted"} : Goto(Worker, pc) BY DEF Sign, W
<1>4. pc \in PC BY DEF PC
<1>5. JobsOK' /\ JobsMove BY <1>2, <1>3, <1>4, GotoKnowing
<1>6. pay' \in {pay, [pay EXCEPT !.intent = TRUE]} BY DEF Sign
<1>. QED BY <1>1, <1>5, <1>6, PreparedGood

LEMMA CustodySignsGood == ASSUME Inv, CustodySigns PROVE Good
<1>1. /\ job[Worker].pc = "custody" /\ chain = "none" /\ chain' = "signed"
      /\ UNCHANGED <<db, leaseLive, expired, sent, books, deaths>>
  BY DEF CustodySigns, wpc, W
<1>2. fin # "reserved" BY <1>1, Knows, ProcTypes DEF JobKnows
<1>3. DataOK' BY <1>1 DEF Inv, DataOK, db, money, books
<1>4. WorldMoves BY <1>1, <1>2 DEF WorldMoves, Dead
<1>5. MoneyMoves /\ LedgerMoves /\ RowMoves /\ PayMoves
  BY <1>1 DEF MoneyMoves, LedgerMoves, RowMoves, PayMoves, db, books
<1>6. PICK pc \in {"signature", "unsubmitted"} : Goto(Worker, pc) BY DEF CustodySigns, W
<1>7. JobsOK' /\ JobsMove BY <1>6, PCs, GotoMoves, ProcTypes DEF Inv
<1>. QED BY <1>3, <1>4, <1>5, <1>7 DEF Good, Moves

LEMMA SubmitGood == ASSUME Inv, Submit PROVE Good
<1>1. pay' \in {pay, [pay EXCEPT !.state = "possibly_submitted", !.started = TRUE]}
  BY DEF Submit
<1>2. PICK pc \in {"send", "unsubmitted"} : Goto(Worker, pc) BY DEF Submit, W
<1>3. JobsOK' /\ JobsMove BY <1>2, PCs, GotoMoves, ProcTypes DEF Inv
<1>. QED BY <1>1, <1>3, PreparedGood DEF Submit

LEMMA SendGood == ASSUME Inv, Send PROVE Good
<1>1. UNCHANGED <<db, leaseLive, expired, chain, books, deaths>> /\ sent' \in BOOLEAN
  BY DEF Send, Inv, DataOK
<1>2. DataOK' BY <1>1 DEF Inv, DataOK, db, money, books
<1>3. MoneyMoves /\ LedgerMoves /\ WorldMoves /\ RowMoves /\ PayMoves
  BY <1>1 DEF MoneyMoves, LedgerMoves, WorldMoves, RowMoves, PayMoves, Dead, db, books
<1>4. PICK pc \in {"await", "observe"} : Goto(Worker, pc) BY DEF Send, ByWorker, W
<1>5. JobsOK' /\ JobsMove BY <1>4, PCs, GotoMoves, ProcTypes DEF Inv
<1>. QED BY <1>2, <1>3, <1>5 DEF Good, Moves

LEMMA AwaitGood ==
  ASSUME Inv, NEW answer \in {"none", "unpaid", "ok", "error"}, Await(answer) PROVE Good
<1>1. job[Worker] \in Job BY ProcTypes DEF Inv, JobsOK
<1>2. PICK pc \in {"observe", "checkpoint"} :
        /\ job' = [job EXCEPT ![Worker].seen = answer, ![Worker].pc = pc]
        /\ pc = IF answer = "none" THEN "observe" ELSE "checkpoint"
  BY DEF Await, W
<1>3. [job[Worker] EXCEPT !.seen = answer, !.pc = pc] \in Job BY <1>1 DEF Job, PC
<1>4. job' = [job EXCEPT ![Worker] = [job[Worker] EXCEPT !.seen = answer, !.pc = pc]]
  BY <1>2 DEF Inv, JobsOK
<1>5. /\ JobsOK' /\ Only(Worker)
      /\ job'[Worker] = [job[Worker] EXCEPT !.seen = answer, !.pc = pc]
  BY <1>3, <1>4, JobBecomes, ProcTypes DEF Inv
<1>6. job'[Worker].seen = answer /\ job'[Worker].pc = pc BY <1>1, <1>5 DEF Job
<1>7. pc = "checkpoint" => answer # "none" BY <1>2
<1>8. JobKnows(Worker)' BY <1>6, <1>7 DEF JobKnows
<1>. QED BY <1>5, <1>8, ProcTypes, OneMoves, QuietGood DEF Inv, Await

(* Starting a scheduled job while the worker goes on.                       *)
LEMMA DueJob == NewJob("due") \in Job /\ NewJob("due").pc \notin Knowing
BY NewJobType DEF PC, Knowing

LEMMA ZeroStep == 0 \in Steps /\ Response(0) \in Procs /\ Expiry(0) \in Procs
BY PaidCallAssumption, ProcTypes DEF Steps

LEMMA CheckpointGood == ASSUME Inv, Checkpoint PROVE Good
<1>1. /\ job[Worker].pc = "checkpoint"
      /\ UNCHANGED <<row, money, control, world, books, deaths>>
  BY DEF Checkpoint, wpc, W
<1>2. job[Worker].seen \in {"unpaid", "ok", "error"} /\ job[Worker] \in Job
  BY <1>1, Knows, ProcTypes DEF JobKnows
<1>3. CASE UNCHANGED pay /\ Goto(Worker, "markUnknown")
  <2>1. UNCHANGED <<db, world, books, deaths>> BY <1>1, <1>3 DEF db
  <2>. QED BY <1>3, <2>1, PCs, WorkerGoes
<1>4. CASE /\ pay' = [pay EXCEPT !.status = job[Worker].seen]
           /\ job' = [job EXCEPT ![Worker].pc = "observe",
                        ![Response(0)] = IF job[Worker].seen = "unpaid" THEN @ ELSE NewJob("due")]
  <2>1. /\ pay' \in Pay /\ pay'.evidence = pay.evidence /\ pay'.settlement = pay.settlement
    BY <1>2, <1>4 DEF Inv, DataOK, Pay
  <2>a. /\ [job[Worker] EXCEPT !.pc = "observe"] \in Job
        /\ [job[Worker] EXCEPT !.pc = "observe"].pc = "observe"
    BY <1>2 DEF Job, PC
  <2>2. PICK j \in Job : j = [job[Worker] EXCEPT !.pc = "observe"] /\ j.pc = "observe"
    BY <2>a
  <2>3. PICK i \in Job :
          /\ i = IF job[Worker].seen = "unpaid" THEN job[Response(0)] ELSE NewJob("due")
          /\ i = job[Response(0)] \/ i.pc \notin Knowing
    BY DueJob, ZeroStep DEF Inv, JobsOK
  <2>4. Worker # Response(0) BY ProcsDiffer
  <2>5. job' = [job EXCEPT ![Worker] = j, ![Response(0)] = i]
    BY <1>4, <2>2, <2>3, <2>4, ProcTypes, ZeroStep DEF Inv, JobsOK
  <2>6. j.pc \notin Knowing BY <2>2 DEF Knowing
  <2>7. JobsOK' /\ JobsMove
    BY <2>3, <2>4, <2>5, <2>6, ProcTypes, ZeroStep, TwoJobsMove DEF Inv
  <2>. QED BY <1>1, <2>1, <2>7, PayOnly
<1>. QED BY <1>3, <1>4 DEF Checkpoint, W

LEMMA ObserveGood == ASSUME Inv, Observe PROVE Good
<1>1. UNCHANGED <<row, money, control, world, books, deaths>> BY DEF Observe
<1>2. CASE UNCHANGED pay /\ Goto(Worker, "markUnknown")
  <2>1. UNCHANGED <<db, world, books, deaths>> BY <1>1, <1>2 DEF db
  <2>. QED BY <1>2, <2>1, PCs, WorkerGoes
<1>3. ASSUME NEW v \in Verdicts(job[Worker].seen), NEW d \in Digests(job[Worker].seen),
             pay' = [pay EXCEPT !.settlement = v, !.digest = d,
                       !.state = IF v = "unknown" THEN "reconciliation_required" ELSE "observed"],
             Goto(Worker, "record")
      PROVE  Good
  <2>1. v \in {"unknown", "not_settled", "settled"} /\ (v = "settled" => chain = "paid")
    BY DEF Verdicts
  <2>2. d \in BOOLEAN BY DEF Digests
  <2>3. pay \in Pay BY DEF Inv, DataOK
  <2>4. pay' \in Pay BY <1>3, <2>1, <2>2, <2>3 DEF Pay
  <2>5. pay'.evidence = pay.evidence /\ pay'.settlement = v BY <1>3, <2>3 DEF Pay
  <2>6. JobsOK' /\ JobsMove BY <1>3, PCs, GotoMoves, ProcTypes DEF Inv
  <2>. QED BY <1>1, <2>1, <2>4, <2>5, <2>6, PayOnly
<1>. QED BY <1>2, <1>3 DEF Observe, W

LEMMA RecordGood == ASSUME Inv, Record PROVE Good
<1>1. PICK pc \in {"markUnknown", "judge"} : Goto(Worker, pc) BY DEF Record, ByWorker, W
<1>2. JobsOK' /\ JobsMove BY <1>1, PCs, GotoMoves, ProcTypes DEF Inv
<1>. QED BY <1>2, PreparedGood DEF Record

LEMMA JudgeGood == ASSUME Inv, Judge PROVE Good
<1>1. UNCHANGED <<db, world, books, deaths>> BY DEF Judge
<1>2. CASE Goto(Worker, "markUnknown") BY <1>1, <1>2, PCs, WorkerGoes
<1>3. CASE Charged /\ Book(Worker, WorkerSettlement, "charge")
  <2>1. chain = "paid" BY <1>3 DEF Charged, Inv, MoneyInv, SettledIsPaid
  <2>2. PICK b \in Bundles : b = WorkerSettlement /\ Book(Worker, b, "charge")
    BY <1>3, BundleTypes
  <2>3. (Sound(b))' BY <1>1, <2>1, <2>2, Kinds DEF Sound, Kind, world
  <2>4. Fits("charge", b) /\ "charge" \in Goals BY <2>2 DEF Fits, Goals
  <2>5. JobsOK' /\ JobsMove BY <2>2, <2>3, <2>4, BookMoves, ProcTypes DEF Inv
  <2>. QED BY <1>1, <2>5, QuietGood
<1>. QED BY <1>2, <1>3 DEF Judge, W

LEMMA UnsubmittedGood == ASSUME Inv, Unsubmitted PROVE Good
<1>1. UNCHANGED <<row, money, control, world, books, deaths>> BY DEF Unsubmitted
<1>2. CASE UNCHANGED pay /\ (Goto(Worker, "markUnknown") \/ Book(Worker, Release, "deliver"))
  <2>1. UNCHANGED <<db, world, books, deaths>> BY <1>1, <1>2 DEF db
  <2>. QED BY <1>2, <2>1, PCs, WorkerGoes, WorkerBooksRelease
<1>3. CASE /\ pay' = [pay EXCEPT !.state = "observed", !.settlement = "not_settled",
                                 !.observed = TRUE]
           /\ Book(Worker, Release, "deliver")
  <2>1. /\ pay' \in Pay /\ pay'.evidence = pay.evidence /\ pay'.settlement = "not_settled"
    BY <1>3 DEF Inv, DataOK, Pay
  <2>2. JobsOK' /\ JobsMove BY <1>3, ReleaseBook, ProcTypes
  <2>. QED BY <1>1, <2>1, <2>2, PayOnly
<1>. QED BY <1>2, <1>3 DEF Unsubmitted, W

LEMMA WorkerPaysGood == ASSUME Inv, WorkerPays PROVE Good
<1>1. CASE ChallengeRefused BY <1>1, PCs, WorkerGoes DEF ChallengeRefused, ByWorker, W
<1>2. CASE CustodyRefuses BY <1>2, PCs, WorkerGoes DEF CustodyRefuses, ByWorker, W
<1>3. CASE Signature
  <2>1. PICK pc \in {"submit", "unsubmitted"} : Goto(Worker, pc)
    BY <1>3 DEF Signature, ByWorker, W
  <2>. QED BY <1>3, <2>1, PCs, WorkerGoes DEF Signature
<1>. QED BY <1>1, <1>2, <1>3, PrepareGood, FenceGood, MarkGood, RereadGood, SignGood,
        CustodySignsGood, SubmitGood, SendGood, AwaitGood, CheckpointGood, ObserveGood,
        RecordGood, JudgeGood, UnsubmittedGood DEF WorkerPays

(* The worker's result: the row and the control change together.            *)
LEMMA ProjectGood ==
  ASSUME Inv, NEW pc, NEW state \in {"completed", "refused", "reconciliation_required"},
         NEW receipt \in BOOLEAN, NEW to \in Controls, NEW next,
         Project(pc, state, receipt, to, next),
         state = "completed" => fin = "settled",
         JobsOK', JobsMove
  PROVE  Good
<1>1. row' = [row EXCEPT !.state = state, !.receipt = receipt] /\ control' = to
      /\ UNCHANGED <<money, pay, world, books, deaths>>
  BY DEF Project
<1>2. row' \in Row /\ row'.owner = row.owner /\ row'.state = state
  BY <1>1 DEF Inv, DataOK, Row
<1>3. control' \in Controls BY <1>1
<1>. QED BY <1>1, <1>2, <1>3, RowOnly

LEMMA ArmedMoves ==
  ASSUME Inv, NEW j \in Job, j.pc \notin Knowing \/ (j.pc = "claim"), Armed(j)
  PROVE  JobsOK' /\ JobsMove
<1>1. PICK i \in Job :
        /\ i = IF ArmsExpiry THEN NewJob("due") ELSE job[Expiry(0)]
        /\ i = job[Expiry(0)] \/ i.pc \notin Knowing
  BY DueJob, ZeroStep DEF Inv, JobsOK
<1>2. Worker # Expiry(0) /\ Worker \in Procs /\ Expiry(0) \in Procs
  BY ProcsDiffer, ProcTypes, ZeroStep
<1>3. job' = [job EXCEPT ![Worker] = j, ![Expiry(0)] = i]
  BY <1>1, <1>2 DEF Armed, W, Inv, JobsOK
<1>4. JobsOK' BY <1>3 DEF Inv, JobsOK
<1>5. job'[Worker] = j /\ job'[Expiry(0)] = i BY <1>2, <1>3 DEF Inv, JobsOK
<1>6. \A o \in Procs \ {Worker, Expiry(0)} : job'[o] = job[o] BY <1>3 DEF Inv, JobsOK
<1>7. JobKnows(Worker)'
  <2>1. CASE j.pc \notin Knowing BY <1>5, <2>1, Ignorant
  <2>2. CASE j.pc = "claim" BY <1>5, <2>2, ProcNames DEF JobKnows
  <2>. QED BY <2>1, <2>2
<1>8. job'[Expiry(0)] = job[Expiry(0)] \/ JobKnows(Expiry(0))' BY <1>1, <1>5, Ignorant
<1>. QED BY <1>4, <1>6, <1>7, <1>8 DEF JobsMove

LEMMA DoneJob == NewJob("done") \in Job /\ NewJob("done").pc \notin Knowing
BY NewJobType DEF PC, Knowing

LEMMA ClaimJob ==
  ASSUME NEW b \in Bundles
  PROVE  /\ [NewJob("claim") EXCEPT !.bundle = b] \in Job
         /\ [NewJob("claim") EXCEPT !.bundle = b].pc = "claim"
BY DEF NewJob, Job, PC, Goals

LEMMA ProjectsGood ==
  ASSUME Inv, ProjectRefused \/ ProjectUnknown \/ ProjectConverged
              \/ \E state \in {"completed", "refused"} : ProjectCompleted(state)
  PROVE  Good
<1>c. {"completed", "uncertain"} \subseteq Controls BY DEF Controls
<1>1. CASE ProjectRefused
  <2>1. Finish(Worker) BY <1>1 DEF ProjectRefused, Project, W
  <2>2. JobsOK' /\ JobsMove BY <2>1, FinishMoves, ProcTypes DEF Inv
  <2>. QED BY <1>c, <1>1, <2>2, ProjectGood DEF ProjectRefused
<1>2. ASSUME NEW state \in {"completed", "refused"}, ProjectCompleted(state) PROVE Good
  <2>1. Finish(Worker) /\ job[Worker].pc = "complete"
    BY <1>2 DEF ProjectCompleted, Project, W, wpc
  <2>2. JobsOK' /\ JobsMove BY <2>1, FinishMoves, ProcTypes DEF Inv
  <2>3. fin = "settled" BY <2>1, Knows, ProcTypes DEF JobKnows
  <2>. QED BY <1>c, <1>2, <2>2, <2>3, ProjectGood DEF ProjectCompleted
<1>3. CASE ProjectUnknown
  <2>1. PICK j \in Job : (j.pc \notin Knowing \/ j.pc = "claim") /\ Armed(j)
    BY <1>3, DoneJob, ClaimJob, BundleTypes DEF ProjectUnknown, Project
  <2>2. JobsOK' /\ JobsMove BY <2>1, ArmedMoves
  <2>3. row' = [row EXCEPT !.state = "reconciliation_required", !.receipt = TRUE]
    BY <1>3 DEF ProjectUnknown, Project
  <2>4. row' \in Row /\ row'.owner = row.owner /\ row'.state = "reconciliation_required"
    BY <2>3 DEF Inv, DataOK, Row
  <2>5. control' \in Controls /\ UNCHANGED <<money, pay, world, books, deaths>>
    BY <1>c, <1>3 DEF ProjectUnknown, Project
  <2>. QED BY <2>2, <2>4, <2>5, RowOnly
<1>4. CASE ProjectConverged
  <2>1. PICK j \in Job : (j.pc \notin Knowing \/ j.pc = "claim") /\ Armed(j)
    BY <1>4, DoneJob DEF ProjectConverged, Project
  <2>2. JobsOK' /\ JobsMove BY <2>1, ArmedMoves
  <2>. QED BY <1>c, <1>4, <2>2, ProjectGood DEF ProjectConverged
<1>. QED BY <1>1, <1>2, <1>3, <1>4

LEMMA UnknownMoves == ASSUME Inv, OutcomeUnknown, UNCHANGED restored PROVE MoneyMoves
BY DEF OutcomeUnknown, MayMarkUnknown, MoneyMoves, money

LEMMA MarkUnknownGood == ASSUME Inv, MarkUnknown PROVE Good
<1>1. MoneyMoves BY UnknownMoves DEF MarkUnknown
<1>2. Goto(Worker, "unknown") BY DEF MarkUnknown, ByWorker, W
<1>3. JobsOK' /\ JobsMove BY <1>2, PCs, GotoMoves, ProcTypes DEF Inv
<1>. QED BY <1>1, <1>3, MoneyOnly DEF MarkUnknown

LEMMA CaughtGood == ASSUME Inv, Caught PROVE Good
<1>1. MoneyMoves BY UnknownMoves DEF Caught, MoneyMoves, money
<1>2. Goto(Worker, "converge") \/ Book(Worker, Release, "caught") BY DEF Caught, W
<1>3. JobsOK' /\ JobsMove BY <1>2, PCs, GotoMoves, ReleaseBook, ProcTypes DEF Inv
<1>. QED BY <1>1, <1>3, MoneyOnly DEF Caught

LEMMA WorkFailsGood == ASSUME Inv, WorkFails PROVE Good
<1>1. PICK state \in {"reconciliation_required", "refused"} :
        row' \in {row, [row EXCEPT !.state = state]}
  BY DEF WorkFails
<1>2. /\ row' \in Row /\ row'.owner = row.owner
      /\ row'.state = "completed" => row.state = "completed"
  BY <1>1 DEF Inv, DataOK, Row
<1>3. Finish(Worker) BY DEF WorkFails, W
<1>4. JobsOK' /\ JobsMove BY <1>3, FinishMoves, ProcTypes DEF Inv
<1>5. control' \in Controls BY DEF WorkFails, Inv, DataOK
<1>. QED BY <1>2, <1>4, <1>5, RowOnly DEF WorkFails

LEMMA WorkerRecordsGood == ASSUME Inv, WorkerRecords PROVE Good
<1>1. CASE ProjectFails
  <2>1. CASE Throws BY <1>1, <2>1, ThrowsGood DEF ProjectFails
  <2>2. CASE Goto(Worker, "caught") /\ UNCHANGED deaths
    BY <1>1, <2>2, PCs, WorkerGoes DEF ProjectFails
  <2>. QED BY <1>1, <2>1, <2>2 DEF ProjectFails, W
<1>2. CASE WorkerThrow BY <1>2, ThrowsGood DEF WorkerThrow
<1>. QED BY <1>1, <1>2, MarkUnknownGood, CaughtGood, ProjectsGood, WorkFailsGood
     DEF WorkerRecords

LEMMA WorkerGood == ASSUME Inv, WorkerSteps \/ WorkerDies PROVE Good
BY WorkerGatesGood, WorkerPaysGood, WorkerRecordsGood, ThrowsGood DEF WorkerSteps, WorkerDies

-----------------------------------------------------------------------------
(* Cancellation and the sweep.                                              *)

LEMMA JobGoes ==
  ASSUME Inv, NEW p \in Procs, UNCHANGED <<db, world, books, deaths>>,
         (\E pc \in PC \ Knowing : Goto(p, pc)) \/ Finish(p)
  PROVE  Good
BY GotoMoves, FinishMoves, QuietGood DEF Inv

(* A job takes note of what it read and goes to a step where nothing has to *)
(* be known.                                                                *)
LEMMA SeenMoves ==
  ASSUME Inv, NEW p \in Procs, NEW pc \in PC \ Knowing, NEW seen \in Controls,
         NEW r \in BOOLEAN, NEW m \in BOOLEAN,
         job' \in {[job EXCEPT ![p].pc = pc, ![p].seen = seen],
                   [job EXCEPT ![p].pc = pc, ![p].seen = seen, ![p].reserved = r],
                   [job EXCEPT ![p].pc = pc, ![p].seen = seen, ![p].marked = m]}
  PROVE  JobsOK' /\ JobsMove
<1>1. job[p] \in Job BY DEF Inv, JobsOK
<1>2. /\ [job[p] EXCEPT !.pc = pc, !.seen = seen] \in Job
      /\ [job[p] EXCEPT !.pc = pc, !.seen = seen, !.reserved = r] \in Job
      /\ [job[p] EXCEPT !.pc = pc, !.seen = seen, !.marked = m] \in Job
  BY <1>1 DEF Job, Controls
<1>3. PICK j \in Job : job' = [job EXCEPT ![p] = j] /\ j.pc = pc
  BY <1>1, <1>2 DEF Inv, JobsOK, Job
<1>. QED BY <1>3, OneJobMoves DEF Inv

LEMMA RowState ==
  ASSUME NEW r \in Row, NEW b \in BOOLEAN,
         NEW state \in {"pending", "completed", "refused", "cancelled", "reconciliation_required"}
  PROVE  /\ [r EXCEPT !.state = state] \in Row
         /\ [r EXCEPT !.state = state].state = state
         /\ [r EXCEPT !.state = state].owner = r.owner
         /\ [r EXCEPT !.state = state, !.receipt = b] \in Row
         /\ [r EXCEPT !.state = state, !.receipt = b].state = state
         /\ [r EXCEPT !.state = state, !.receipt = b].owner = r.owner
BY DEF Row

LEMMA OpenRow ==
  ASSUME Inv,
         row' \in {row, WithoutReceipt, [row EXCEPT !.state = "cancelled"],
                   [row EXCEPT !.state = "reconciliation_required"]}
  PROVE  row' \in Row /\ row'.owner = row.owner /\ (row'.state = "completed" => row.state = "completed")
<1>1. row \in Row /\ FALSE \in BOOLEAN BY DEF Inv, DataOK
<1>2. CASE row' = row BY <1>1, <1>2
<1>3. CASE row' = WithoutReceipt BY <1>1, <1>3, RowState DEF WithoutReceipt
<1>4. CASE row' = [row EXCEPT !.state = "cancelled"] BY <1>1, <1>4, RowState
<1>5. CASE row' = [row EXCEPT !.state = "reconciliation_required"] BY <1>1, <1>5, RowState
<1>. QED BY <1>2, <1>3, <1>4, <1>5

LEMMA CancelRequestGood == ASSUME Inv, CancelRequest PROVE Good
<1>1. row' \in Row /\ row'.owner = row.owner /\ (row'.state = "completed" => row.state = "completed")
  <2>1. row' \in {row, [row EXCEPT !.state = "cancelled"], WithoutReceipt}
    BY DEF CancelRequest
  <2>. QED BY <2>1, OpenRow
<1>2. PICK pc \in {"load", "done"} : job' = [job EXCEPT ![Canceller] = NewJob(pc)]
  BY DEF CancelRequest
<1>3. JobsOK' /\ JobsMove BY <1>2, PCs, NewJobMoves, ProcTypes DEF Inv
<1>4. control' \in Controls BY DEF CancelRequest, Inv, DataOK
<1>. QED BY <1>1, <1>3, <1>4, RowOnly DEF CancelRequest

LEMMA CancelLoadGood == ASSUME Inv, CancelLoad PROVE Good
<1>1. control \in Controls /\ (fin = "reserved") \in BOOLEAN BY DEF Inv, DataOK
<1>2. job' = [job EXCEPT ![Canceller].pc = "cancel", ![Canceller].seen = control,
                         ![Canceller].reserved = (fin = "reserved")]
  BY DEF CancelLoad
<1>3. "cancel" \in PC \ Knowing BY PCs
<1>4. JobsOK' /\ JobsMove
  BY <1>1, <1>2, <1>3, SeenMoves, ProcTypes
<1>. QED BY <1>4, QuietGood DEF CancelLoad

LEMMA CancelControlGood == ASSUME Inv, CancelControl PROVE Good
<1>1. UNCHANGED <<row, money, pay, world, books, deaths>> BY DEF CancelControl
<1>2. control \in Controls /\ row \in Row BY DEF Inv, DataOK
<1>3. control' \in Controls
  BY <1>2 DEF CancelControl, Cancelled, Controls
<1>4. JobsOK' /\ JobsMove
  <2>1. CASE job' = [job EXCEPT ![Canceller].pc = "refuse", ![Canceller].seen = control]
    <3>1. "refuse" \in PC \ Knowing BY PCs
    <3>. QED BY <1>2, <2>1, <3>1, SeenMoves, ProcTypes
  <2>2. CASE Book(Canceller, Release, "cancel") BY <2>2, ReleaseBook, ProcTypes
  <2>3. CASE Goto(Canceller, "required") BY <2>3, PCs, GotoMoves, ProcTypes DEF Inv
  <2>. QED BY <2>1, <2>2, <2>3 DEF CancelControl
<1>. QED BY <1>1, <1>2, <1>3, <1>4, RowOnly

LEMMA CancelEndsGood == ASSUME Inv, CancelRefused \/ CancelDone \/ CancelRequired PROVE Good
<1>1. row' \in {row, [row EXCEPT !.state = "reconciliation_required"],
                [row EXCEPT !.state = "cancelled"], WithoutReceipt}
  BY DEF CancelRefused, CancelDone, CancelRequired
<1>2. row' \in Row /\ row'.owner = row.owner /\ (row'.state = "completed" => row.state = "completed")
  BY <1>1, OpenRow
<1>3. Finish(Canceller) /\ UNCHANGED <<money, control, pay, world, books, deaths>>
  BY DEF CancelRefused, CancelDone, CancelRequired
<1>4. JobsOK' /\ JobsMove BY <1>3, FinishMoves, ProcTypes DEF Inv
<1>5. control' \in Controls BY <1>3 DEF Inv, DataOK
<1>. QED BY <1>2, <1>3, <1>4, <1>5, RowOnly

LEMMA SweepGood == ASSUME Inv, SweepObserve \/ SweepQueue PROVE Good
<1>1. CASE SweepObserve
  <2>1. control' \in Controls BY <1>1 DEF SweepObserve, Inv, DataOK, Controls
  <2>2. (control' \in {"contested", "uncertain"}) \in BOOLEAN OBVIOUS
  <2>3. job' = [job EXCEPT ![Sweep].pc = "queue", ![Sweep].seen = control',
                           ![Sweep].marked = (control' \in {"contested", "uncertain"})]
    BY <1>1 DEF SweepObserve
  <2>4. "queue" \in PC \ Knowing BY PCs
  <2>5. JobsOK' /\ JobsMove BY <2>1, <2>2, <2>3, <2>4, SeenMoves, ProcTypes
  <2>6. row' \in Row /\ row' = row BY <1>1 DEF SweepObserve, Inv, DataOK
  <2>. QED BY <1>1, <2>1, <2>5, <2>6, RowOnly DEF SweepObserve
<1>2. CASE SweepQueue
  <2>1. Finish(Sweep) /\ UNCHANGED <<money, control, world, books, deaths>>
    BY <1>2 DEF SweepQueue
  <2>2. JobsOK' /\ JobsMove BY <2>1, FinishMoves, ProcTypes DEF Inv
  <2>3. CASE UNCHANGED <<pay, row>>
    <3>1. UNCHANGED <<db, world, books, deaths>> BY <2>1, <2>3 DEF db
    <3>. QED BY <2>2, <3>1, QuietGood
  <2>4. CASE /\ pay' = [pay EXCEPT !.state = "reconciliation_required"]
             /\ row' = [Cleared(WithoutReceipt) EXCEPT !.manual = ~job[Sweep].marked]
    <3>1. pay' \in Pay /\ pay'.evidence = pay.evidence /\ pay'.settlement = pay.settlement
      BY <2>4 DEF Inv, DataOK, Pay
    <3>2. WithoutReceipt \in Row /\ WithoutReceipt.state = "reconciliation_required"
      BY RowState DEF WithoutReceipt, Inv, DataOK
    <3>3. /\ Cleared(WithoutReceipt) \in Row /\ Cleared(WithoutReceipt).owner = "none"
          /\ Cleared(WithoutReceipt).state = "reconciliation_required"
      BY <3>2, ClearedRow DEF Cleared, Row
    <3>4. row' \in Row /\ row'.owner = "none" /\ row'.state = "reconciliation_required"
      BY <2>4, <3>3 DEF Row
    <3>5. RowMoves /\ PayMoves BY <3>1, <3>4 DEF RowMoves, PayMoves
    <3>6. Moves BY <2>1, <3>5, RecordMoves DEF Inv
    <3>7. DataOK' BY <2>1, <3>1, <3>4 DEF Inv, DataOK, money, world, books
    <3>. QED BY <2>2, <3>6, <3>7 DEF Good
  <2>. QED BY <1>2, <2>3, <2>4 DEF SweepQueue
<1>. QED BY <1>1, <1>2

-----------------------------------------------------------------------------
(* Recovery of a retained response.                                         *)

LEMMA BeginResponseGood == ASSUME Inv, NEW k \in Steps, BeginResponse(k) PROVE Good
<1>1. UNCHANGED <<money, control, pay, world, books, deaths>> BY DEF BeginResponse
<1>2. Response(k) \in Procs /\ job[Response(k)] \in Job BY ProcTypes DEF Inv, JobsOK
<1>3. CASE UNCHANGED row /\ Finish(Response(k))
  <2>1. UNCHANGED <<db, world, books, deaths>> BY <1>1, <1>3 DEF db
  <2>. QED BY <1>2, <1>3, <2>1, JobGoes
<1>4. CASE MayBegin(k)
  <2>1. row' = [row EXCEPT !.owner = IF @ = "http_error" THEN @ ELSE "response",
                           !.live = TRUE, !.step = k + 1, !.manual = (k = LastStep)]
    BY <1>4 DEF BeginResponse
  <2>2. k + 1 \in 0..MaxAttempts BY StepSucc
  <2>3. /\ row' \in Row /\ row'.state = row.state
        /\ row'.owner \in {"http_error", "response"}
    BY <2>1, <2>2 DEF Inv, DataOK, Row
  <2>4. JobsOK' /\ JobsMove
    <3>1. CASE k = LastStep
      <4>1. job' = [job EXCEPT ![Response(k)] = NewJob("done")]
        BY <1>4, <3>1 DEF BeginResponse
      <4>. QED BY <1>2, <4>1, PCs, NewJobMoves DEF Inv
    <3>2. CASE k # LastStep
      <4>1. job' = [job EXCEPT ![Response(k)].pc = "recover", ![Response(k + 1)] = NewJob("due")]
        BY <1>4, <3>2 DEF BeginResponse
      <4>2. /\ Response(k + 1) \in Procs /\ Response(k) # Response(k + 1)
        BY <3>2, StepSucc, StepsNat, ProcTypes, ProcsDiffer
      <4>3. /\ [job[Response(k)] EXCEPT !.pc = "recover"] \in Job
            /\ [job[Response(k)] EXCEPT !.pc = "recover"].pc = "recover"
        BY <1>2 DEF Job, PC
      <4>4. PICK j \in Job : j = [job[Response(k)] EXCEPT !.pc = "recover"] /\ j.pc \notin Knowing
        BY <4>3 DEF Knowing
      <4>5. PICK i \in Job : i = NewJob("due") /\ i.pc \notin Knowing BY DueJob
      <4>6. job' = [job EXCEPT ![Response(k)] = j, ![Response(k + 1)] = i]
        BY <1>2, <4>1, <4>2, <4>4, <4>5 DEF Inv, JobsOK
      <4>. QED BY <1>2, <4>2, <4>4, <4>5, <4>6, TwoJobsMove DEF Inv
    <3>. QED BY <3>1, <3>2
  <2>5. control' \in Controls BY <1>1 DEF Inv, DataOK
  <2>. QED BY <1>1, <2>3, <2>4, <2>5, RowOnly
<1>. QED BY <1>3, <1>4 DEF BeginResponse

LEMMA RecoverResponseGood == ASSUME Inv, NEW k \in Steps, RecoverResponse(k) PROVE Good
<1>1. Response(k) \in Procs BY ProcTypes
<1>. QED BY <1>1, PCs, JobGoes DEF RecoverResponse

LEMMA RetainedControlGood ==
  ASSUME Inv, NEW k \in Steps, RetainedLeased(k) \/ Reconcile(k) PROVE Good
<1>1. UNCHANGED <<row, money, pay, world, books, deaths>> /\ Response(k) \in Procs
  BY ProcTypes DEF RetainedLeased, Reconcile
<1>2. control' \in Controls /\ row' \in Row
  BY <1>1 DEF RetainedLeased, Reconcile, Inv, DataOK, Controls
<1>3. JobsOK' /\ JobsMove
  <2>1. CASE Finish(Response(k)) BY <1>1, <2>1, FinishMoves DEF Inv
  <2>2. CASE Goto(Response(k), "required") BY <1>1, <2>2, PCs, GotoMoves DEF Inv
  <2>3. CASE At(Response(k), "reconcile") /\ Goto(Response(k), "accept")
    <3>1. fin = "settled" /\ fin' = "settled"
      BY <1>1, <2>3, Knows DEF JobKnows, At, money
    <3>2. "accept" \in PC BY PCs DEF Knowing
    <3>3. JobsOK' /\ Only(Response(k)) /\ job'[Response(k)].pc = "accept"
      BY <1>1, <2>3, <3>2, GotoJob DEF Inv
    <3>4. JobKnows(Response(k))' BY <3>1, <3>3 DEF JobKnows
    <3>. QED BY <1>1, <3>3, <3>4, OneMoves
  <2>. QED BY <2>1, <2>2, <2>3 DEF RetainedLeased, Reconcile
<1>. QED BY <1>1, <1>2, <1>3, RowOnly

LEMMA RetainedStopsGood == ASSUME Inv, NEW k \in Steps, RetainedStops(k) PROVE Good
<1>1. Response(k) \in Procs BY ProcTypes
<1>. QED BY <1>1, JobGoes DEF RetainedStops

LEMMA ObservedPay ==
  ASSUME Inv PROVE Observed \in Pay /\ Observed.evidence = pay.evidence
                   /\ (Observed.settlement = "settled" => pay.settlement = "settled")
<1>1. pay \in Pay BY DEF Inv, DataOK
<1>2. CASE pay.observed BY <1>1, <1>2 DEF Observed
<1>3. CASE ~pay.observed
  <2>1. PICK v \in {"unknown", "not_settled", "settled"},
             state \in {"reconciliation_required", "observed"} :
          /\ Observed = [pay EXCEPT !.observed = TRUE, !.digest = TRUE, !.settlement = v,
                                    !.state = state]
          /\ v = "settled" => pay.settlement = "settled"
    BY <1>1, <1>3 DEF Observed, Pay
  <2>. QED BY <1>1, <2>1 DEF Pay
<1>. QED BY <1>2, <1>3

LEMMA RetainedRecoversGood == ASSUME Inv, NEW k \in Steps, RetainedRecovers(k) PROVE Good
<1>1. UNCHANGED <<row, money, control, world, books, deaths>> /\ pay' = Observed
  BY DEF RetainedRecovers
<1>2. Response(k) \in Procs /\ ~IsExpiry(Response(k)) BY ProcTypes, ProcNames
<1>3. job[Response(k)] \in Job BY <1>2 DEF Inv, JobsOK
<1>4. JobsOK' /\ JobsMove
  <2>1. CASE job' = [job EXCEPT ![Response(k)].pc = "claim", ![Response(k)].bundle = ErrorRemedy]
    <3>1. [job[Response(k)] EXCEPT !.pc = "claim", !.bundle = ErrorRemedy] \in Job
      BY <1>3, BundleTypes DEF Job, PC
    <3>2. job' = [job EXCEPT ![Response(k)] =
                    [job[Response(k)] EXCEPT !.pc = "claim", !.bundle = ErrorRemedy]]
      BY <1>2, <2>1 DEF Inv, JobsOK
    <3>3. /\ JobsOK' /\ Only(Response(k))
          /\ job'[Response(k)] = [job[Response(k)] EXCEPT !.pc = "claim", !.bundle = ErrorRemedy]
      BY <1>2, <3>1, <3>2, JobBecomes DEF Inv
    <3>4. job'[Response(k)].pc = "claim" BY <1>3, <3>3 DEF Job
    <3>5. JobKnows(Response(k))' BY <1>2, <3>4 DEF JobKnows
    <3>. QED BY <1>2, <3>3, <3>5, OneMoves
  <2>2. CASE job' = [job EXCEPT ![Response(k)].pc = "verify", ![Response(k)].goal = "repair"]
    <3>1. /\ [job[Response(k)] EXCEPT !.pc = "verify", !.goal = "repair"] \in Job
          /\ [job[Response(k)] EXCEPT !.pc = "verify", !.goal = "repair"].pc = "verify"
      BY <1>3 DEF Job, PC, Goals
    <3>2. job' = [job EXCEPT ![Response(k)] =
                    [job[Response(k)] EXCEPT !.pc = "verify", !.goal = "repair"]]
      BY <1>2, <2>2 DEF Inv, JobsOK
    <3>3. PICK j \in Job : j.pc \notin Knowing /\ job' = [job EXCEPT ![Response(k)] = j]
      BY <3>1, <3>2 DEF Knowing
    <3>. QED BY <1>2, <3>3, OneJobMoves DEF Inv
  <2>. QED BY <2>1, <2>2 DEF RetainedRecovers
<1>5. pay' \in Pay /\ pay'.evidence = pay.evidence
      /\ (pay'.settlement = "settled" => pay.settlement = "settled")
  BY <1>1, ObservedPay
<1>. QED BY <1>1, <1>4, <1>5, PayOnly

LEMMA VerifyPaidGood == ASSUME Inv, NEW k \in Steps, VerifyPaid(k) PROVE Good
<1>1. /\ UNCHANGED <<row, money, control, world, books, deaths>>
      /\ chain = "paid" /\ pay.evidence \in {NoEvidence, RetainedSettlement}
      /\ Book(Response(k), RetainedSettlement, "repair")
      /\ pay' = [pay EXCEPT !.evidence = RetainedSettlement, !.settlement = "settled",
                            !.state = "observed"]
  BY DEF VerifyPaid, Verified
<1>2. RetainedSettlement \in Bundles /\ Kind(RetainedSettlement) = "settle"
      /\ RetainedSettlement # Release /\ RetainedSettlement # NoEvidence
  BY BundleTypes, Kinds
<1>3. pay \in Pay BY DEF Inv, DataOK
<1>4. /\ pay' \in Pay /\ pay'.evidence = RetainedSettlement /\ pay'.settlement = "settled"
  BY <1>1, <1>2, <1>3 DEF Pay
<1>5. Sound(RetainedSettlement) BY <1>1, <1>2 DEF Sound
<1>6. PayMoves
  BY <1>1, <1>2, <1>4, <1>5 DEF PayMoves, Inv, MoneyInv, EvidencePinned
<1>7. RowMoves BY <1>1, <1>2, <1>4 DEF RowMoves
<1>8. Moves BY <1>1, <1>6, <1>7, RecordMoves DEF Inv
<1>9. DataOK' BY <1>1, <1>4 DEF Inv, DataOK, money, world, books
<1>10. PICK b \in Bundles : b = RetainedSettlement /\ Book(Response(k), b, "repair")
  BY <1>1, <1>2
<1>11. (Sound(b))' BY <1>1, <1>2, <1>10 DEF Sound, Kind, world
<1>12. Fits("repair", b) /\ "repair" \in Goals BY <1>10 DEF Fits, Goals
<1>13. JobsOK' /\ JobsMove BY <1>10, <1>11, <1>12, BookMoves, ProcTypes DEF Inv
<1>. QED BY <1>8, <1>9, <1>13 DEF Good

LEMMA VerifyConflictsGood == ASSUME Inv, NEW k \in Steps, VerifyConflicts(k) PROVE Good
<1>1. /\ UNCHANGED <<row, restored, control, pay, world, books, deaths>>
      /\ Goto(Response(k), "required")
  BY DEF VerifyConflicts
<1>2. MoneyMoves BY DEF VerifyConflicts, MoneyMoves, money
<1>3. JobsOK' /\ JobsMove BY <1>1, PCs, GotoMoves, ProcTypes DEF Inv
<1>. QED BY <1>1, <1>2, <1>3, MoneyOnly

LEMMA VerifyFailsGood == ASSUME Inv, NEW k \in Steps, VerifyFails(k) PROVE Good
<1>1. Response(k) \in Procs BY ProcTypes
<1>. QED BY <1>1, PCs, JobGoes DEF VerifyFails

LEMMA AcceptGood ==
  ASSUME Inv, NEW k \in Steps, NEW state \in {"completed", "refused"}, Accept(k, state)
  PROVE  Good
<1>1. /\ UNCHANGED <<money, control, pay, world, books, deaths>>
      /\ Finish(Response(k)) /\ Response(k) \in Procs
  BY ProcTypes DEF Accept
<1>2. fin = "settled" BY <1>1, Knows DEF JobKnows, Accept, At
<1>3. /\ row' \in Row /\ (row'.owner = row.owner \/ row'.owner = "none")
  <2>1. row' \in {row, [row EXCEPT !.state = state], [Cleared(row) EXCEPT !.state = state]}
    BY DEF Accept
  <2>2. PICK r \in Row : r = row BY DEF Inv, DataOK
  <2>s. PICK s \in {"pending", "completed", "refused", "cancelled", "reconciliation_required"} :
          s = state
    OBVIOUS
  <2>3. CASE row' = row BY <2>2, <2>3
  <2>4. CASE row' = [row EXCEPT !.state = state]
    <3>1. [r EXCEPT !.state = s] \in Row /\ [r EXCEPT !.state = s].owner = r.owner
      BY DEF Row
    <3>. QED BY <2>2, <2>s, <2>4, <3>1
  <2>5. CASE row' = [Cleared(row) EXCEPT !.state = state]
    <3>1. /\ [Cleared(r) EXCEPT !.state = s] \in Row
          /\ [Cleared(r) EXCEPT !.state = s].owner = "none"
      BY ClearedRow
    <3>. QED BY <2>2, <2>s, <2>5, <3>1
  <2>. QED BY <2>1, <2>3, <2>4, <2>5
<1>4. JobsOK' /\ JobsMove BY <1>1, FinishMoves DEF Inv
<1>5. control' \in Controls BY <1>1 DEF Inv, DataOK
<1>6. row'.owner = row.owner \/ row'.owner # "expired_unused" BY <1>3
<1>. QED BY <1>1, <1>2, <1>3, <1>4, <1>5, <1>6, RowOnly

LEMMA ResponseRequiredGood == ASSUME Inv, NEW k \in Steps, ResponseRequired(k) PROVE Good
<1>1. /\ UNCHANGED <<money, control, pay, world, books, deaths>>
      /\ Finish(Response(k)) /\ Response(k) \in Procs
  BY ProcTypes DEF ResponseRequired
<1>2. row' \in Row /\ row'.owner = row.owner /\ (row'.state = "completed" => row.state = "completed")
  <2>1. row \in Row BY DEF Inv, DataOK
  <2>2. CASE row' = row BY <2>1, <2>2
  <2>3. CASE row' = [WithoutReceipt EXCEPT !.receipt = (job[Response(k)].goal = "repair")]
    <3>1. /\ WithoutReceipt \in Row /\ WithoutReceipt.owner = row.owner
          /\ WithoutReceipt.state = "reconciliation_required"
      BY <2>1, RowState DEF WithoutReceipt
    <3>. QED BY <2>3, <3>1 DEF Row
  <2>. QED BY <2>2, <2>3 DEF ResponseRequired
<1>3. JobsOK' /\ JobsMove BY <1>1, FinishMoves DEF Inv
<1>4. control' \in Controls BY <1>1 DEF Inv, DataOK
<1>. QED BY <1>1, <1>2, <1>3, <1>4, RowOnly

LEMMA ResponseGood == ASSUME Inv, NEW k \in Steps, ResponseJob(k) PROVE Good
BY BeginResponseGood, RecoverResponseGood, RetainedControlGood, RetainedStopsGood,
   RetainedRecoversGood, VerifyPaidGood, VerifyConflictsGood, VerifyFailsGood, AcceptGood,
   ResponseRequiredGood DEF ResponseJob

-----------------------------------------------------------------------------
(* Recovery of an authorization that expired unused.                        *)

LEMMA ArmSuccessorGood == ASSUME Inv, NEW k \in Steps, ArmSuccessor(k) PROVE Good
<1>1. UNCHANGED <<money, control, pay, world, books, deaths>> BY DEF ArmSuccessor
<1>2. Expiry(k) \in Procs /\ job[Expiry(k)] \in Job BY ProcTypes DEF Inv, JobsOK
<1>3. row' \in Row /\ row'.owner = row.owner /\ row'.state = row.state
  BY DEF ArmSuccessor, Inv, DataOK, Row
<1>4. JobsOK' /\ JobsMove
  <2>1. CASE job' = [job EXCEPT ![Expiry(k)] = NewJob("done")]
    BY <1>2, <2>1, PCs, NewJobMoves DEF Inv
  <2>2. CASE /\ k < LastStep
             /\ job' = [job EXCEPT ![Expiry(k)].pc = "proof", ![Expiry(k + 1)] = NewJob("due")]
    <3>1. Expiry(k + 1) \in Procs /\ Expiry(k) # Expiry(k + 1)
      BY <2>2, StepSucc, StepsNat, ProcTypes, ProcsDiffer
    <3>2. /\ [job[Expiry(k)] EXCEPT !.pc = "proof"] \in Job
          /\ [job[Expiry(k)] EXCEPT !.pc = "proof"].pc = "proof"
      BY <1>2 DEF Job, PC
    <3>3. PICK j \in Job : j = [job[Expiry(k)] EXCEPT !.pc = "proof"] /\ j.pc \notin Knowing
      BY <3>2 DEF Knowing
    <3>4. PICK i \in Job : i = NewJob("due") /\ i.pc \notin Knowing BY DueJob
    <3>5. job' = [job EXCEPT ![Expiry(k)] = j, ![Expiry(k + 1)] = i]
      BY <1>2, <2>2, <3>1, <3>3, <3>4 DEF Inv, JobsOK
    <3>. QED BY <1>2, <3>1, <3>3, <3>4, <3>5, TwoJobsMove DEF Inv
  <2>. QED BY <2>1, <2>2 DEF ArmSuccessor
<1>5. control' \in Controls BY <1>1 DEF Inv, DataOK
<1>. QED BY <1>1, <1>3, <1>4, <1>5, RowOnly

LEMMA ProveUnusedGood == ASSUME Inv, NEW k \in Steps, ProveUnused(k) PROVE Good
<1>1. UNCHANGED <<db, world, books, deaths>> /\ Expiry(k) \in Procs
  BY ProcTypes DEF ProveUnused
<1>2. CASE Finish(Expiry(k)) BY <1>1, <1>2, JobGoes
<1>3. CASE UnusedOnChain /\ Goto(Expiry(k), "claim")
  <2>1. Dead /\ Dead' BY <1>1, <1>3 DEF UnusedOnChain, Dead, world
  <2>2. "claim" \in PC BY PCs DEF Knowing
  <2>3. JobsOK' /\ Only(Expiry(k)) /\ job'[Expiry(k)].pc = "claim"
    BY <1>1, <1>3, <2>2, GotoJob DEF Inv
  <2>4. JobKnows(Expiry(k))' BY <2>1, <2>3 DEF JobKnows
  <2>. QED BY <1>1, <2>3, <2>4, OneMoves, QuietGood
<1>. QED BY <1>2, <1>3 DEF ProveUnused

(* What a claim pins is a proof, and it still holds.                        *)
LEMMA PinnedSound ==
  ASSUME Inv, NEW k \in Steps, Dead
  PROVE  Pinned(k) \in Bundles /\ Kind(Pinned(k)) = "unused" /\ Sound(Pinned(k))
         /\ Pinned(k) \notin {Release, NoEvidence}
<1>1. CASE row.owner = "expired_unused" /\ pay.evidence # NoEvidence
  <2>1. pay.evidence \in Bundles BY <1>1 DEF Inv, DataOK, Pay
  <2>2. Sound(pay.evidence) /\ pay.evidence # Release BY DEF Inv, MoneyInv, EvidenceSound
  <2>3. Kind(pay.evidence) = "unused" BY <2>1, <2>2, BundleKinds DEF Sound, Dead
  <2>. QED BY <1>1, <2>1, <2>2, <2>3 DEF Pinned
<1>2. CASE ~(row.owner = "expired_unused" /\ pay.evidence # NoEvidence)
  BY <1>2, BundleTypes, Kinds DEF Pinned, Sound
<1>. QED BY <1>1, <1>2

LEMMA ClaimUnusedGood == ASSUME Inv, NEW k \in Steps, ClaimUnused(k) PROVE Good
<1>1. /\ UNCHANGED <<money, control, world, books, deaths>> /\ Expiry(k) \in Procs
      /\ job[Expiry(k)].pc = "claim"
  BY ProcTypes DEF ClaimUnused, At
<1>2. job[Expiry(k)] \in Job /\ IsExpiry(Expiry(k)) BY <1>1, ProcNames DEF Inv, JobsOK
<1>3. Dead BY <1>1, <1>2, Knows DEF JobKnows
<1>4. CASE UNCHANGED <<pay, row>> /\ Finish(Expiry(k))
  <2>1. UNCHANGED <<db, world, books, deaths>> BY <1>1, <1>4 DEF db
  <2>. QED BY <1>1, <1>4, <2>1, JobGoes
<1>5. CASE /\ pay' = [pay EXCEPT !.evidence = Pinned(k)]
           /\ row' = IF row.owner = "expired_unused" /\ pay.evidence # NoEvidence THEN row
                     ELSE [row EXCEPT !.owner = "expired_unused", !.live = TRUE, !.manual = FALSE]
           /\ job' = [job EXCEPT ![Expiry(k)].pc = "post", ![Expiry(k)].bundle = Pinned(k),
                                 ![Expiry(k)].goal = "unused"]
  <2>1. PICK b \in Bundles : /\ b = Pinned(k) /\ Kind(b) = "unused" /\ Sound(b)
                             /\ b \notin {Release, NoEvidence}
    BY <1>3, PinnedSound
  <2>2. pay' \in Pay /\ pay'.evidence = b /\ pay'.settlement = pay.settlement
    BY <1>5, <2>1 DEF Inv, DataOK, Pay
  <2>3. row' \in Row /\ row'.state = row.state /\ row'.owner = "expired_unused"
    BY <1>5 DEF Inv, DataOK, Row
  <2>4. row.owner = "expired_unused" => pay.evidence = b
    BY <2>1 DEF Pinned, Inv, MoneyInv, EvidencePinned
  <2>5. PayMoves
    BY <2>1, <2>2, <2>4 DEF PayMoves
  <2>6. RowMoves BY <2>1, <2>2, <2>3 DEF RowMoves
  <2>7. Moves BY <1>1, <2>5, <2>6, RecordMoves DEF Inv
  <2>8. DataOK' BY <1>1, <2>2, <2>3 DEF Inv, DataOK, money, world, books
  <2>9. [job[Expiry(k)] EXCEPT !.pc = "post", !.bundle = b, !.goal = "unused"] \in Job
    BY <1>2 DEF Job, PC, Goals
  <2>10. job' = [job EXCEPT ![Expiry(k)] =
                   [job[Expiry(k)] EXCEPT !.pc = "post", !.bundle = b, !.goal = "unused"]]
    BY <1>1, <1>5, <2>1 DEF Inv, JobsOK
  <2>11. /\ JobsOK' /\ Only(Expiry(k))
         /\ job'[Expiry(k)] = [job[Expiry(k)] EXCEPT !.pc = "post", !.bundle = b, !.goal = "unused"]
    BY <1>1, <2>9, <2>10, JobBecomes DEF Inv
  <2>12. /\ job'[Expiry(k)].pc = "post" /\ job'[Expiry(k)].bundle = b
         /\ job'[Expiry(k)].goal = "unused"
    BY <1>2, <2>11 DEF Job
  <2>13. JobKnows(Expiry(k))'
    BY <1>1, <2>1, <2>12 DEF JobKnows, Fits, Sound, Dead, Kind, world
  <2>. QED BY <1>1, <2>7, <2>8, <2>11, <2>13, OneMoves DEF Good
<1>. QED BY <1>4, <1>5 DEF ClaimUnused

LEMMA ExpiryGood == ASSUME Inv, NEW k \in Steps, ExpiryJob(k) PROVE Good
BY ArmSuccessorGood, ProveUnusedGood, ClaimUnusedGood DEF ExpiryJob

-----------------------------------------------------------------------------
(* The operator, deaths, and the world.                                     *)

LEMMA OperatorGood ==
  ASSUME Inv, NEW b \in {ErrorRemedy, LossRemedy}, OperatorRemedies(b) PROVE Good
<1>1. PICK j \in Job : j.pc = "claim" /\ job' = [job EXCEPT ![Operator] = j]
  BY BundleTypes, ClaimJob DEF OperatorRemedies
<1>2. JobsOK' /\ job'[Operator] = j /\ Only(Operator)
  BY <1>1, JobBecomes, ProcTypes DEF Inv
<1>3. JobKnows(Operator)' BY <1>1, <1>2, ProcNames DEF JobKnows
<1>. QED BY <1>2, <1>3, ProcTypes, OneMoves, QuietGood DEF OperatorRemedies

LEMMA JobDiesGood == ASSUME Inv, NEW p \in Procs, JobDies(p) PROVE Good
BY JobGoes DEF JobDies

LEMMA WorldGood == ASSUME Inv, World PROVE Good
<1>1. CASE ResponseLeaseLapses
  <2>1. row' \in Row /\ row'.state = row.state /\ row'.owner = row.owner
    BY <1>1 DEF ResponseLeaseLapses, Inv, DataOK, Row
  <2>2. JobsOK' /\ JobsMove BY <1>1 DEF ResponseLeaseLapses, Inv, JobsOK, JobsMove
  <2>3. control' \in Controls BY <1>1 DEF ResponseLeaseLapses, Inv, DataOK
  <2>. QED BY <1>1, <2>1, <2>2, <2>3, RowOnly DEF ResponseLeaseLapses
<1>2. CASE LeaseLapses \/ AuthorizationExpires \/ ProviderPays
  <2>1. UNCHANGED <<db, sent, books, job, deaths>>
    BY <1>2 DEF LeaseLapses, AuthorizationExpires, ProviderPays
  <2>2. DataOK'
    BY <1>2, <2>1 DEF LeaseLapses, AuthorizationExpires, ProviderPays, Inv, DataOK, db, money, books
  <2>3. WorldMoves
    BY <1>2 DEF LeaseLapses, AuthorizationExpires, ProviderPays, WorldMoves, Dead
  <2>4. MoneyMoves /\ LedgerMoves /\ RowMoves /\ PayMoves
    BY <2>1 DEF MoneyMoves, LedgerMoves, RowMoves, PayMoves, db, books
  <2>5. JobsOK' /\ JobsMove BY <2>1 DEF Inv, JobsOK, JobsMove
  <2>. QED BY <2>2, <2>3, <2>4, <2>5 DEF Good, Moves
<1>. QED BY <1>1, <1>2 DEF World

LEMMA NextGood == ASSUME Inv, Next PROVE Good
<1>1. CASE Recoveries
  BY <1>1, CancelRequestGood, CancelLoadGood, CancelControlGood, CancelEndsGood, SweepGood,
     ResponseGood, ExpiryGood, OperatorGood DEF Recoveries, CancelJob
<1>. QED BY <1>1, WorkerGood, EndHoldGood, JobDiesGood, LateWriteGood, WorldGood DEF Next

LEMMA StutterGood == ASSUME Inv, UNCHANGED vars PROVE Good
<1>1. UNCHANGED <<db, world, books, deaths>> /\ UNCHANGED job BY DEF vars
<1>2. JobsOK' /\ JobsMove BY <1>1 DEF Inv, JobsOK, JobsMove
<1>. QED BY <1>1, <1>2, QuietGood

LEMMA InitInv == ASSUME Init PROVE Inv
<1>1. DataOK
  <2>1. row \in Row BY PaidCallAssumption DEF Init, Row
  <2>2. pay \in Pay BY DEF Init, Pay
  <2>3. 0 \in 0..MaxDeaths BY PaidCallAssumption
  <2>. QED BY <2>1, <2>2, <2>3 DEF Init, DataOK, Controls
<1>2. \A p \in Procs : \E pc \in {"checks", "idle", "none"} : job[p] = NewJob(pc)
  BY DEF Init
<1>3. JobsOK
  <2>1. \A p \in Procs : job[p] \in Job BY <1>2, PCs, NewJobType
  <2>. QED BY <2>1 DEF Init, JobsOK
<1>4. \A p \in Procs : JobKnows(p)
  <2>. SUFFICES ASSUME NEW p \in Procs PROVE JobKnows(p) OBVIOUS
  <2>1. job[p].pc \in {"checks", "idle", "none"} BY <1>2, PCs, NewJobType
  <2>. QED BY <2>1 DEF JobKnows
<1>5. MoneyInv
  BY <1>4, Kinds DEF Init, MoneyInv, BooksAgree, CreditFollows, SignedOnlyWhenMarked,
     CompletedIsSettled, EvidencePinned, EvidenceSound, SettledIsPaid, Sound
<1>. QED BY <1>1, <1>3, <1>5 DEF Inv

-----------------------------------------------------------------------------
(* The theorems.                                                            *)

(* The invariant holds in every reachable state.                            *)
THEOREM Invariant == Spec => []Inv
<1>1. Init => Inv BY InitInv
<1>2. Inv /\ [Next]_vars => Inv' BY NextGood, StutterGood, GoodKeeps
<1>. QED BY <1>1, <1>2, PTL DEF Spec

(* The state of a Call and of every job around it has its type: no step     *)
(* leaves a job at a place, or with a bundle, that does not exist.          *)
THEOREM TypeCorrect == Spec => []TypeOK
<1>1. Inv => TypeOK BY TypeSplits DEF Inv
<1>. QED BY <1>1, Invariant, PTL

(* The ledger books a charge, or a compensation, only if the Provider was   *)
(* paid on the chain, whatever the order of the jobs, the deaths and the    *)
(* lost and late answers of the ledger.                                     *)
THEOREM ChargeProved == Spec => []ChargedOnlyIfPaid
<1>1. Inv => ChargedOnlyIfPaid BY DEF Inv, MoneyInv, Sound, ChargedOnlyIfPaid
<1>. QED BY <1>1, Invariant, PTL

(* The ledger gives a hold back as unused only if the authorization has     *)
(* expired and was not paid; then it never will be.                         *)
THEOREM UnusedProved == Spec => []UnusedOnlyIfDead
<1>1. Inv => UnusedOnlyIfDead BY DEF Inv, MoneyInv, Sound, Dead, UnusedOnlyIfDead
<1>. QED BY <1>1, Invariant, PTL

(* The ending in the database is the ending in the ledger.                  *)
THEOREM BooksProved == Spec => []BooksAgree
<1>1. Inv => BooksAgree BY DEF Inv, MoneyInv
<1>. QED BY <1>1, Invariant, PTL

(* The promotional credit of a Call goes back at most once, with the hold.  *)
THEOREM CreditProved == Spec => []CreditFollows
<1>1. Inv => CreditFollows BY DEF Inv, MoneyInv
<1>. QED BY <1>1, Invariant, PTL

(* While the database calls the money reserved, nothing was signed.         *)
THEOREM MarkedProved == Spec => []SignedOnlyWhenMarked
<1>1. Inv => SignedOnlyWhenMarked BY DEF Inv, MoneyInv
<1>. QED BY <1>1, Invariant, PTL

(* A completed Call is charged and its Provider was paid.                   *)
THEOREM CompletedProved == Spec => []CompletedIsPaid
<1>1. Inv => CompletedIsPaid
  BY Kinds DEF Inv, MoneyInv, CompletedIsSettled, BooksAgree, Sound, CompletedIsPaid
<1>. QED BY <1>1, Invariant, PTL

(* A pinned proof stays pinned while its claim stands, in every step.       *)
THEOREM PinnedProved == Spec => PinnedStays
<1>1. Inv /\ [Next]_vars
        => [row.owner = "expired_unused" /\ row'.owner = "expired_unused"
              => pay'.evidence = pay.evidence]_vars
  BY NextGood, StutterGood DEF Good, Moves, PayMoves
<1>. QED BY <1>1, Invariant, PTL DEF Spec, PinnedStays
=============================================================================
