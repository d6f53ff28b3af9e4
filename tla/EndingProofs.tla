---------------------------- MODULE EndingProofs ----------------------------
(***************************************************************************)
(* A Call keeps the promise of HoldEnding unless its worker is retried     *)
(* while it could still fence and its own release is posted, or on its way *)
(* to the ledger, and not yet recorded.  What the types and the money say  *)
(* (Inv of PaidCallProofs) leaves open is whether a signature can come     *)
(* after a release: it cannot, because what releases has stopped the       *)
(* worker or found it beyond its signing.                                  *)
(***************************************************************************)
EXTENDS PaidCallProofs

(* The retry that breaks the promise (run paid_reuse), and a Call without it. *)
ReleaseOut == ledger = Release \/ Release \in wire
MayRepeat == MayFence /\ fin = "reserved"
RetriesReleased == wpc # "start" /\ wpc' = "start" /\ MayRepeat /\ ReleaseOut
CarefulNext == Next /\ ~RetriesReleased
CarefulSpec == Init /\ [][CarefulNext]_vars

Early == {"start", "checks", "before", "challenge", "fence"}
Signing == {"mark", "reread", "sign", "custody"}
PastSigning == wpc \notin Early \cup Signing
(* No attempt passes the fence from here, or from the start.                *)
Shut == ~MayFence \/ (fin # "reserved" /\ wpc # "fence")
NeverSigns == wpc \notin Signing /\ (wpc \in Early => Shut)
Stopped == wpc \notin Signing /\ Shut

(* A bundle that ends the hold without a payment comes from a job that      *)
(* knows that nothing will be signed any more; only the worker's own        *)
(* release rests on where the worker is, and does not survive its retry.    *)
Safe(b) ==
  /\ b = Release => NeverSigns
  /\ Kind(b) = "unused" => Stopped
JobSafe(p) ==
  /\ Safe(job[p].bundle)
  /\ job[p].bundle = Release /\ p # Worker => Stopped
  /\ Kind(job[p].bundle) = "unused" => p # Worker
  /\ job[p].bundle = Release /\ job[p].pc \in {"post", "finalize"} => chain = "none"
  /\ IsExpiry(p) /\ job[p].pc # "none" => Stopped

EndingInv ==
  /\ wpc \in Signing => control \notin {"leased", "cancelled"}
  /\ Safe(ledger) /\ Safe(pay.evidence) /\ \A b \in wire : Safe(b)
  /\ ReleaseOut => chain = "none"
  /\ \A p \in Procs : JobSafe(p)

-----------------------------------------------------------------------------
(* Every step moves the parts in one of these ways, or is a retry.          *)

Stays == (fin # "reserved" => fin' # "reserved") /\ (leaseLive' => leaseLive)
Fences == wpc \in Early /\ ~Shut /\ control' = "fenced"
WorkerMoves ==
  /\ wpc' = "start" => wpc = "start"
  /\ wpc' \in Early => wpc \in Early
  /\ wpc' = "fence" => wpc = "fence" \/ fin = "reserved"
  /\ wpc' \in Signing => wpc \in Signing \/ Fences
ControlMoves ==
  /\ control = "cancelled" => control' = "cancelled"
  /\ control' \in {"leased", "cancelled"} => control \in {"leased", "cancelled"}
ChainMoves == chain = "none" => chain' = "none" \/ wpc = "custody"
EndMoves ==
  /\ ledger' = ledger \/ (Safe(ledger)' /\ (ledger' = Release => chain' = "none"))
  /\ \A b \in wire' : b \in wire \/ (Safe(b)' /\ (b = Release => chain' = "none"))
  /\ pay'.evidence = pay.evidence \/ Safe(pay.evidence)'
JobsSafe == \A p \in Procs : job'[p] = job[p] \/ JobSafe(p)'

Fine == WorkerMoves /\ ControlMoves /\ ChainMoves /\ EndMoves /\ JobsSafe
All == Inv /\ EndingInv

LEMMA StaysPast ==
  ASSUME Stays, WorkerMoves, ControlMoves
  PROVE  (NeverSigns => NeverSigns') /\ (Stopped => Stopped')
<1>1. Shut => Shut' BY DEF Stays, WorkerMoves, ControlMoves, Shut, MayFence
<1>2. wpc \notin Signing /\ (wpc \in Early => Shut) => wpc' \notin Signing
  BY DEF WorkerMoves, Fences
<1>. QED BY <1>1, <1>2 DEF WorkerMoves, NeverSigns, Stopped

LEMMA PastNeverSigns == (PastSigning => NeverSigns) /\ (PastSigning' => NeverSigns')
BY DEF PastSigning, NeverSigns

LEMMA SafeStays ==
  ASSUME Stays, WorkerMoves, ControlMoves, NEW b PROVE Safe(b) => (Safe(b))'
BY StaysPast DEF Safe, Kind

(* Who signs has neither been stopped nor gone past signing.                *)
LEMMA SignerNotStopped == ASSUME wpc = "custody" PROVE ~NeverSigns /\ ~Stopped
BY DEF NeverSigns, Stopped, Signing

LEMMA EndingFrame == ASSUME All, Stays, Fine PROVE EndingInv'
<1>1. WorkerMoves /\ ControlMoves BY DEF Fine
<1>3. (wpc \in Signing => control \notin {"leased", "cancelled"})'
  BY <1>1 DEF WorkerMoves, Fences, ControlMoves, All, EndingInv
<1>4. Safe(ledger)'
  <2>1. ledger' = ledger /\ Safe(ledger) => Safe(ledger)' BY <1>1, StaysPast DEF Safe, Kind
  <2>. QED BY <2>1 DEF Fine, EndMoves, All, EndingInv
<1>5. Safe(pay.evidence)'
  <2>1. pay'.evidence = pay.evidence /\ Safe(pay.evidence) => Safe(pay.evidence)'
    BY <1>1, StaysPast DEF Safe, Kind
  <2>. QED BY <2>1 DEF Fine, EndMoves, All, EndingInv
<1>6. \A b \in wire' : Safe(b)'
  <2>. SUFFICES ASSUME NEW b \in wire' PROVE Safe(b)' OBVIOUS
  <2>1. Safe(b) => Safe(b)' BY <1>1, SafeStays
  <2>. QED BY <2>1 DEF Fine, EndMoves, All, EndingInv
<1>7. chain = "none" /\ NeverSigns => chain' = "none"
  BY SignerNotStopped DEF Fine, ChainMoves
<1>8. (ReleaseOut => chain = "none")'
  <2>1. ReleaseOut => chain' = "none" BY <1>7 DEF All, EndingInv, Safe, ReleaseOut
  <2>. QED BY <2>1 DEF Fine, EndMoves, ReleaseOut
<1>9. \A p \in Procs : JobSafe(p)'
  <2>. SUFFICES ASSUME NEW p \in Procs, job'[p] = job[p] PROVE JobSafe(p)'
    BY DEF Fine, JobsSafe
  <2>1. JobSafe(p) BY DEF All, EndingInv
  <2>2. Safe(job[p].bundle)' BY <1>1, <2>1, StaysPast DEF JobSafe, Safe, Kind
  <2>3. job[p].bundle = Release /\ job[p].pc \in {"post", "finalize"} => chain' = "none"
    BY <1>7, <2>1 DEF JobSafe, Safe
  <2>4. /\ IsExpiry(p) /\ job[p].pc # "none" => Stopped'
        /\ job[p].bundle = Release /\ p # Worker => Stopped'
        /\ Kind(job[p].bundle) = "unused" => p # Worker
    BY <1>1, <2>1, StaysPast DEF JobSafe
  <2>. QED BY <2>2, <2>3, <2>4 DEF JobSafe, Kind
<1>. QED BY <1>3, <1>4, <1>5, <1>6, <1>8, <1>9 DEF EndingInv

-----------------------------------------------------------------------------
(* What a step of one job does.                                             *)

LEMMA GotoPc ==
  ASSUME Inv, NEW p \in Procs, NEW pc, Goto(p, pc)
  PROVE  Only(p) /\ job'[p].pc = pc /\ job'[p].bundle = job[p].bundle
<1>1. job[p] \in Job BY DEF Inv, JobsOK
<1>2. job' = [job EXCEPT ![p] = [job[p] EXCEPT !.pc = pc]] BY DEF Goto, Inv, JobsOK
<1>3. Only(p) /\ job'[p] = [job[p] EXCEPT !.pc = pc] BY <1>2 DEF Inv, JobsOK, Only
<1>. QED BY <1>1, <1>3 DEF Job

LEMMA FinishPc ==
  ASSUME Inv, NEW p \in Procs, Finish(p)
  PROVE  Only(p) /\ job'[p].pc = "done" /\ job'[p].bundle = Held
BY FinishJob DEF Inv

LEMMA BookPc ==
  ASSUME Inv, NEW p \in Procs, NEW b, NEW g, Book(p, b, g)
  PROVE  Only(p) /\ job'[p].pc = "booking" /\ job'[p].bundle = b
<1>1. job[p] \in Job BY DEF Inv, JobsOK
<1>2. job' = [job EXCEPT ![p] = [job[p] EXCEPT !.pc = "booking", !.bundle = b, !.goal = g]]
  BY DEF Book, Inv, JobsOK
<1>3. Only(p) /\ job'[p] = [job[p] EXCEPT !.pc = "booking", !.bundle = b, !.goal = g]
  BY <1>2 DEF Inv, JobsOK, Only
<1>. QED BY <1>1, <1>3 DEF Job

LEMMA OneFine ==
  ASSUME All, Stays, NEW p \in Procs, Only(p), ControlMoves, ChainMoves, EndMoves,
         p = Worker => WorkerMoves, JobSafe(p)'
  PROVE  Fine
<1>1. p # Worker => job'[Worker] = job[Worker] BY ProcTypes DEF Only
<1>2. p # Worker => WorkerMoves
  BY <1>1 DEF WorkerMoves, wpc, W
<1>. QED BY <1>2 DEF Fine, JobsSafe, Only

(* A job that ends the hold is, if it is the worker, past signing.          *)
LEMMA Beyond ==
  ASSUME All, Stays, NEW p \in Procs, p = Worker => wpc' \notin Early \cup Signing
  PROVE  p = Worker => WorkerMoves
BY DEF WorkerMoves, Early

(* Bundles that neither release nor return anything need no care.           *)
Harmless == {Held, WorkerSettlement, RetainedSettlement, ErrorRemedy, LossRemedy}
LEMMA HarmlessSafe == \A b \in Harmless : Safe(b) /\ Safe(b)' /\ b # Release
BY Kinds DEF Harmless, Safe, Kind

LEMMA HarmlessKinds == \A b \in Harmless : Kind(b) # "unused"
BY Kinds DEF Harmless, Kind

LEMMA CalmSafe ==
  ASSUME All, Stays, NEW p \in Procs, WorkerMoves, ControlMoves,
         job'[p].bundle = job[p].bundle \/ job'[p].bundle \in Harmless,
         job'[p].pc \notin {"post", "finalize"},
         IsExpiry(p) => job[p].pc # "none"
  PROVE  JobSafe(p)'
<1>1. JobSafe(p) BY DEF All, EndingInv
<1>2. Safe(job[p].bundle)'
  <2>1. CASE job'[p].bundle = job[p].bundle
    BY <1>1, <2>1, StaysPast DEF JobSafe, Safe, Kind
  <2>2. CASE job'[p].bundle \in Harmless BY <2>2, Kinds DEF Harmless, Safe, Kind
  <2>. QED BY <2>1, <2>2
<1>3. IsExpiry(p) => Stopped' BY <1>1, StaysPast DEF JobSafe
<1>4. job'[p].bundle = Release /\ p # Worker => Stopped'
  BY <1>1, StaysPast, HarmlessSafe DEF JobSafe
<1>5. Kind(job'[p].bundle) = "unused" => p # Worker
  BY <1>1, HarmlessKinds DEF JobSafe
<1>. QED BY <1>2, <1>3, <1>4, <1>5 DEF JobSafe, Kind

-----------------------------------------------------------------------------
(* The ways to end the hold.                                                *)

Later == PC \ (Early \cup Signing \cup {"post", "finalize"})

LEMMA LaterPcs ==
  /\ \A g \in Goals \ {"none"} : AcceptedPc[g] \in Later /\ RefusedPc[g] \in Later
  /\ "done" \in Later /\ "booking" \in Later
BY DEF AcceptedPc, RefusedPc, Goals, PC, Later, Early, Signing

(* A job that holds on to its bundle and goes elsewhere than to the ledger. *)
LEMMA LaterFine ==
  ASSUME All, Stays, NEW p \in Procs, Only(p), ControlMoves, ChainMoves, EndMoves,
         job[p].pc # "none", job'[p].pc \in Later,
         job'[p].bundle = job[p].bundle \/ job'[p].bundle \in Harmless
  PROVE  Fine
<1>1. p = Worker => wpc' \notin Early \cup Signing BY DEF Later, wpc, W
<1>2. p = Worker => WorkerMoves BY <1>1, Beyond
<1>3. WorkerMoves
  <2>1. p # Worker => job'[Worker] = job[Worker] BY ProcTypes DEF Only
  <2>. QED BY <1>2, <2>1 DEF WorkerMoves, wpc, W
<1>4. JobSafe(p)' BY <1>3, CalmSafe DEF Later
<1>. QED BY <1>2, <1>4, OneFine

LEMMA CalmMoves ==
  ASSUME UNCHANGED <<db, world, books>> PROVE ControlMoves /\ ChainMoves /\ EndMoves
BY DEF ControlMoves, ChainMoves, EndMoves, db, world, books

LEMMA EndsLater ==
  ASSUME All, Stays, NEW p \in Procs, job[p].pc \in {"booking", "post", "finalize"},
         Accepted(p) \/ Refused(p), ControlMoves, ChainMoves, EndMoves
  PROVE  Fine
<1>1. job[p].goal \in Goals \ {"none"} BY Knows, FitsGoal DEF All, JobKnows
<1>2. PICK pc \in Later : Goto(p, pc) BY <1>1, LaterPcs DEF Accepted, Refused
<1>3. Only(p) /\ job'[p].pc = pc /\ job'[p].bundle = job[p].bundle BY <1>2, GotoPc DEF All
<1>. QED BY <1>2, <1>3, LaterFine

LEMMA FinishFine ==
  ASSUME All, Stays, NEW p \in Procs, job[p].pc # "none", Finish(p), ControlMoves, ChainMoves, EndMoves
  PROVE  Fine
<1>1. Only(p) /\ job'[p].pc = "done" /\ job'[p].bundle = Held BY FinishPc DEF All
<1>. QED BY <1>1, LaterPcs, LaterFine DEF Harmless

(* A job goes on to post, or to finalize, a bundle that fits the hold.      *)
LEMMA PostFine ==
  ASSUME All, Stays, NEW p \in Procs, Only(p), UNCHANGED <<control, chain>>, EndMoves,
         job[p].pc # "none", job'[p].pc \in {"post", "finalize"},
         job'[p].bundle = job[p].bundle \/ job'[p].bundle \in Harmless,
         job'[p].bundle = Release => chain = "none"
  PROVE  Fine
<1>1. ControlMoves /\ ChainMoves BY DEF ControlMoves, ChainMoves
<1>2. p = Worker => wpc' \notin Early \cup Signing BY DEF Early, Signing, wpc, W
<1>3. p = Worker => WorkerMoves BY <1>2, Beyond
<1>4. WorkerMoves
  <2>1. p # Worker => job'[Worker] = job[Worker] BY ProcTypes DEF Only
  <2>. QED BY <1>3, <2>1 DEF WorkerMoves, wpc, W
<1>5. JobSafe(p) BY DEF All, EndingInv
<1>6. Safe(job[p].bundle)'
  <2>1. CASE job'[p].bundle = job[p].bundle
    BY <1>1, <1>4, <1>5, <2>1, StaysPast DEF JobSafe, Safe, Kind
  <2>2. CASE job'[p].bundle \in Harmless BY <2>2, Kinds DEF Harmless, Safe, Kind
  <2>. QED BY <2>1, <2>2
<1>7. /\ IsExpiry(p) => Stopped'
      /\ job'[p].bundle = Release /\ p # Worker => Stopped'
  BY <1>1, <1>4, <1>5, StaysPast, HarmlessSafe DEF JobSafe
<1>8. Kind(job'[p].bundle) = "unused" => p # Worker
  BY <1>5, HarmlessKinds DEF JobSafe
<1>9. JobSafe(p)' BY <1>6, <1>7, <1>8 DEF JobSafe, Kind
<1>. QED BY <1>1, <1>3, <1>9, OneFine

LEMMA ToPost ==
  ASSUME All, Stays, NEW p \in Procs, job[p].pc = "booking", Goto(p, "post"),
         UNCHANGED <<db, world, books>>, job[p].bundle = Release => fin = "reserved"
  PROVE  Fine
<1>1. Only(p) /\ job'[p].pc = "post" /\ job'[p].bundle = job[p].bundle BY GotoPc DEF All
<1>2. job'[p].bundle = Release => chain = "none"
  BY <1>1 DEF All, Inv, MoneyInv, SignedOnlyWhenMarked
<1>3. EndMoves /\ UNCHANGED <<control, chain>> BY CalmMoves DEF db, world
<1>. QED BY <1>1, <1>2, <1>3, PostFine

LEMMA BookingFine ==
  ASSUME All, Stays, NEW p \in Procs, BookingRelease(p) \/ BookingSettlement(p) \/ BookingRemedy(p)
  PROVE  Fine
<1>1. job[p].pc = "booking" /\ UNCHANGED <<db, world, books>>
  BY DEF BookingRelease, BookingSettlement, BookingRemedy, At
<1>2. CASE Accepted(p) \/ Refused(p) BY <1>1, <1>2, EndsLater, CalmMoves
<1>3. CASE Goto(p, "post") /\ (job[p].bundle = Release => fin = "reserved")
  BY <1>1, <1>3, ToPost
<1>4. CASE /\ fin = "settled"
           /\ job' = [job EXCEPT ![p].bundle = ledger, ![p].pc = "finalize"]
  <2>1. ledger \in {WorkerSettlement, RetainedSettlement}
    BY <1>4, BundleKinds, Kinds DEF All, Inv, DataOK, MoneyInv, BooksAgree
  <2>2. job[p] \in Job BY DEF All, Inv, JobsOK
  <2>3. Only(p) /\ job'[p] = [job[p] EXCEPT !.bundle = ledger, !.pc = "finalize"]
    BY <1>4 DEF All, Inv, JobsOK, Only
  <2>4. job'[p].bundle = ledger /\ job'[p].pc = "finalize" BY <2>2, <2>3 DEF Job
  <2>5. ledger \in Harmless /\ ledger # Release BY <2>1, HarmlessSafe DEF Harmless
  <2>6. EndMoves /\ UNCHANGED <<control, chain>> BY <1>1, CalmMoves DEF db, world
  <2>. QED BY <1>1, <2>3, <2>4, <2>5, <2>6, PostFine
<1>5. job[p].bundle \in {WorkerSettlement, RetainedSettlement, ErrorRemedy, LossRemedy}
        => job[p].bundle # Release
  BY HarmlessSafe DEF Harmless
<1>. QED BY <1>2, <1>3, <1>4, <1>5
     DEF BookingRelease, BookingSettlement, BookingRemedy, MayRelease

LEMMA PostsFine ==
  ASSUME All, Stays, NEW p \in Procs,
         PostBooked(p) \/ PostUnknown(p) \/ PostDelayed(p) \/ PostConflicts(p)
  PROVE  Fine
<1>1. job[p].pc = "post" /\ UNCHANGED <<db, world>>
  BY DEF PostBooked, PostUnknown, PostDelayed, PostConflicts, At
<1>2. /\ ledger' \in {ledger, job[p].bundle} /\ wire' \subseteq wire \cup {job[p].bundle}
  BY DEF PostBooked, PostUnknown, PostDelayed, PostConflicts, books
<1>3. UNCHANGED <<control, chain, pay>> BY <1>1 DEF db, world
<1>4. JobSafe(p) BY DEF All, EndingInv
<1>5. ControlMoves /\ ChainMoves BY <1>3 DEF ControlMoves, ChainMoves
<1>6. job'[p].bundle = job[p].bundle /\ Only(p)
      /\ (job'[p].pc = "finalize" \/ Accepted(p) \/ Refused(p))
      /\ job'[p].pc \notin Early \cup Signing
  <2>1. CASE Goto(p, "finalize") BY <2>1, GotoPc DEF All, Early, Signing
  <2>2. CASE Refused(p)
    <3>1. job[p].goal \in Goals \ {"none"} BY <1>1, Knows, FitsGoal DEF All, JobKnows
    <3>2. PICK pc \in Later : Goto(p, pc) BY <2>2, <3>1, LaterPcs DEF Refused
    <3>. QED BY <2>2, <3>2, GotoPc DEF All, Later
  <2>. QED BY <2>1, <2>2 DEF PostBooked, PostUnknown, PostDelayed, PostConflicts
<1>7. WorkerMoves
  <2>1. p # Worker => job'[Worker] = job[Worker] BY <1>6, ProcTypes DEF Only
  <2>2. p = Worker => WorkerMoves BY <1>6, Beyond DEF wpc, W
  <2>. QED BY <2>1, <2>2 DEF WorkerMoves, wpc, W
<1>8. \A b : b = job[p].bundle => Safe(b)' /\ (b = Release => chain' = "none")
  BY <1>1, <1>3, <1>4, <1>5, <1>7, StaysPast DEF JobSafe, Safe, Kind
<1>9. EndMoves
  <2>1. ledger' = job[p].bundle => Safe(ledger)' BY <1>8 DEF Safe, Kind
  <2>. QED BY <1>2, <1>3, <1>8, <2>1 DEF EndMoves
<1>10. CASE Accepted(p) \/ Refused(p) BY <1>1, <1>5, <1>9, <1>10, EndsLater
<1>11. CASE job'[p].pc = "finalize"
  <2>1. job'[p].bundle = Release => chain = "none" BY <1>1, <1>4, <1>6 DEF JobSafe
  <2>. QED BY <1>1, <1>3, <1>6, <1>9, <1>11, <2>1, PostFine
<1>. QED BY <1>6, <1>10, <1>11

LEMMA LateWriteFine == ASSUME All, Stays, NEW b \in Bundles, LateWrite(b) PROVE Fine
<1>1. /\ b \in wire /\ UNCHANGED <<db, world, job>>
      /\ ledger' \in {ledger, b} /\ wire' \subseteq wire
  BY DEF LateWrite
<1>2. UNCHANGED <<control, chain, pay>> BY <1>1 DEF db, world
<1>3. ControlMoves /\ ChainMoves BY <1>2 DEF ControlMoves, ChainMoves
<1>4. WorkerMoves BY <1>1 DEF WorkerMoves, wpc
<1>5. Safe(b) /\ (b = Release => chain = "none") BY <1>1 DEF All, EndingInv, ReleaseOut
<1>6. ledger' = b => Safe(ledger)' BY <1>3, <1>4, <1>5, StaysPast DEF Safe, Kind
<1>7. EndMoves BY <1>1, <1>2, <1>5, <1>6 DEF EndMoves
<1>8. JobsSafe BY <1>1 DEF JobsSafe
<1>. QED BY <1>3, <1>4, <1>7, <1>8 DEF Fine

LEMMA FinalizeFine ==
  ASSUME All, Stays, NEW p \in Procs, FinalizeRelease(p) \/ FinalizeSettlement(p) PROVE Fine
<1>1. job[p].pc = "finalize" /\ UNCHANGED <<control, pay, world, books>>
  BY DEF FinalizeRelease, FinalizeSettlement, At
<1>2. ControlMoves /\ ChainMoves /\ EndMoves
  BY <1>1 DEF ControlMoves, ChainMoves, EndMoves, world, books
<1>3. Accepted(p) \/ Refused(p) BY DEF FinalizeRelease, FinalizeSettlement
<1>. QED BY <1>1, <1>2, <1>3, EndsLater

LEMMA FinishesFine ==
  ASSUME All, Stays, NEW p \in Procs, FinishUnused(p) \/ FinishRemedy(p) PROVE Fine
<1>1. job[p].pc = "finalize" /\ Finish(p) /\ UNCHANGED <<control, world, books>>
  BY DEF FinishUnused, FinishRemedy, At
<1>2. pay'.evidence = pay.evidence \/ Safe(pay.evidence)'
  <2>1. CASE FinishUnused(p) BY <2>1 DEF FinishUnused, All, Inv, DataOK, Pay
  <2>2. CASE FinishRemedy(p)
    <3>1. CASE UNCHANGED pay BY <3>1
    <3>2. CASE pay' = [pay EXCEPT !.state = "observed", !.settlement = "settled",
                                  !.evidence = job[p].bundle]
      <4>1. pay'.evidence = job[p].bundle BY <3>2 DEF All, Inv, DataOK, Pay
      <4>2. job[p].bundle \in {ErrorRemedy, LossRemedy}
        BY <1>1, <2>2, Knows DEF FinishRemedy, All, JobKnows, Fits
      <4>. QED BY <4>1, <4>2, Kinds DEF Safe, Kind
    <3>. QED BY <2>2, <3>1, <3>2 DEF FinishRemedy
  <2>. QED BY <2>1, <2>2
<1>3. ControlMoves /\ ChainMoves BY <1>1 DEF ControlMoves, ChainMoves, world
<1>4. EndMoves BY <1>1, <1>2 DEF EndMoves, books
<1>. QED BY <1>1, <1>3, <1>4, FinishFine

LEMMA ClaimRemedyFine == ASSUME All, Stays, NEW p \in Procs, ClaimRemedy(p) PROVE Fine
<1>1. /\ job[p].pc = "claim" /\ UNCHANGED <<control, pay, world, books>>
      /\ Finish(p) \/ Book(p, job[p].bundle, "remedy")
  BY DEF ClaimRemedy, At
<1>2. ControlMoves /\ ChainMoves /\ EndMoves
  BY <1>1 DEF ControlMoves, ChainMoves, EndMoves, world, books
<1>3. CASE Finish(p) BY <1>1, <1>2, <1>3, FinishFine
<1>4. CASE Book(p, job[p].bundle, "remedy")
  <2>1. Only(p) /\ job'[p].pc = "booking" /\ job'[p].bundle = job[p].bundle
    BY <1>4, BookPc DEF All
  <2>. QED BY <1>1, <1>2, <2>1, LaterPcs, LaterFine
<1>. QED BY <1>1, <1>3, <1>4

LEMMA EndHoldFine == ASSUME All, Stays, NEW p \in Procs, EndHold(p) PROVE Fine
BY BookingFine, PostsFine, FinalizeFine, FinishesFine, ClaimRemedyFine DEF EndHold

-----------------------------------------------------------------------------
(* The worker.                                                              *)

Started(q) ==
  job'[q] = NewJob("due") /\ (IsExpiry(q) => wpc' \in Later /\ control' # "leased")
Prepares(pc) ==
  /\ pc \in (Early \cup Signing) \ {"start"} /\ ~PastSigning
  /\ pc \in Early => wpc \in Early
  /\ pc = "fence" => fin = "reserved"
  /\ pc \in Signing => wpc \in Signing \/ Fences

Carries(b) == b = job[Worker].bundle \/ b \in {Release} \cup Harmless

LEMMA WorkerFine ==
  ASSUME All, Stays, ControlMoves, ChainMoves, UNCHANGED books, pay'.evidence = pay.evidence,
         \A q \in Procs : q # Worker => job'[q] = job[q] \/ Started(q),
         \/ wpc' \in Later /\ Carries(job'[Worker].bundle)
         \/ Prepares(wpc') /\ job'[Worker].bundle = job[Worker].bundle
  PROVE  Fine
<1>1. WorkerMoves BY DEF WorkerMoves, Prepares, Later, Early, Signing
<1>2. EndMoves BY DEF EndMoves, books
<1>3. JobSafe(Worker)'
  <2>1. CASE wpc' \in Later /\ Carries(job'[Worker].bundle)
    <3>1. NeverSigns' BY <2>1 DEF Later, NeverSigns
    <3>2. JobSafe(Worker) BY ProcTypes DEF All, EndingInv
    <3>3. Kind(job'[Worker].bundle) # "unused"
      BY <2>1, <3>2, HarmlessKinds, Kinds DEF Carries, JobSafe
    <3>. QED BY <2>1, <3>1, <3>3, ProcNames DEF JobSafe, Safe, Kind, Later, wpc, W
  <2>2. CASE wpc' \in Early \cup Signing /\ job'[Worker].bundle = job[Worker].bundle
    <3>1. job'[Worker].pc \notin {"post", "finalize"} BY <2>2 DEF Early, Signing, wpc, W
    <3>. QED BY <1>1, <2>2, <3>1, CalmSafe, ProcTypes, ProcNames
  <2>. QED BY <2>1, <2>2 DEF Prepares
<1>4. ASSUME NEW q \in Procs, Started(q) PROVE JobSafe(q)'
  <2>1. job'[q].bundle = Held /\ job'[q].pc = "due"
    BY <1>4, PCs, NewJobType DEF Started
  <2>2. IsExpiry(q) => Stopped' BY <1>4 DEF Started, Later, Stopped, Shut, MayFence
  <2>. QED BY <2>1, <2>2, Kinds DEF JobSafe, Safe, Kind
<1>. QED BY <1>1, <1>2, <1>3, <1>4 DEF Fine, JobsSafe

(* The worker goes beyond its signing, or ends, and starts nothing.         *)
LEMMA WorkerLeaves ==
  ASSUME All, Stays, ControlMoves, ChainMoves, UNCHANGED books, pay'.evidence = pay.evidence,
         Only(Worker), wpc' \in Later, Carries(job'[Worker].bundle)
  PROVE  Fine
BY WorkerFine DEF Only

LEMMA LaterNames ==
  {"throw", "refuse", "unsubmitted", "markUnknown", "unknown", "converge", "caught", "failed",
   "signature", "submit", "send", "await", "checkpoint", "observe", "record", "judge", "claim",
   "complete", "done", "booking"} \subseteq Later
BY DEF Later, PC, Early, Signing

LEMMA WorkerGoto ==
  ASSUME All, Stays, ControlMoves, ChainMoves, UNCHANGED books, pay'.evidence = pay.evidence,
         \/ \E pc \in Later : Goto(Worker, pc)
         \/ Finish(Worker)
         \/ \E b \in {Release} \cup Harmless : \E g : Book(Worker, b, g)
  PROVE  Fine
<1>1. Only(Worker) /\ wpc' \in Later /\ Carries(job'[Worker].bundle)
  BY GotoPc, FinishPc, BookPc, LaterNames, ProcTypes DEF All, wpc, W, Carries, Harmless
<1>. QED BY <1>1, WorkerLeaves

LEMMA WorkerPrepares ==
  ASSUME All, Stays, ControlMoves, ChainMoves, UNCHANGED books, pay'.evidence = pay.evidence,
         NEW pc, Goto(Worker, pc), Prepares(pc)
  PROVE  Fine
<1>1. Only(Worker) /\ wpc' = pc /\ job'[Worker].bundle = job[Worker].bundle
  BY GotoPc, ProcTypes DEF All, wpc, W
<1>. QED BY <1>1, WorkerFine DEF Only

(* Nothing but the worker's place changes, and it books or leaves.          *)
LEMMA StillMoves ==
  ASSUME All, Stays, UNCHANGED <<control, chain, books>>
  PROVE  ControlMoves /\ ChainMoves /\ UNCHANGED books
BY DEF ControlMoves, ChainMoves

(* An attempt that ends in an error is retried, or was the last one.        *)
Retry ==
  /\ RetriesLeft /\ wpc # "start"
  /\ job' = [job EXCEPT ![Worker] = NewJob("start")] /\ UNCHANGED <<db, world, books>>

LEMMA ThrowsFine ==
  ASSUME All, Stays, Throws, wpc # "start", UNCHANGED <<db, world, books>> PROVE Fine \/ Retry
<1>. SUFFICES ASSUME job' = [job EXCEPT ![Worker] = NewJob("failed")] PROVE Fine
  BY DEF Throws, Retry, W
<1>2. NewJob("failed").pc = "failed" /\ NewJob("failed").bundle = Held BY PCs, NewJobType
<1>3. Only(Worker) /\ wpc' \in Later /\ Carries(job'[Worker].bundle)
  BY <1>2, LaterNames, ProcTypes DEF All, Inv, JobsOK, Only, wpc, W, Carries, Harmless
<1>4. ControlMoves /\ ChainMoves BY CalmMoves
<1>. QED BY <1>3, <1>4, WorkerLeaves DEF db

LEMMA WorkerGatesFine == ASSUME All, Stays, WorkerGates PROVE Fine
<1>1. UNCHANGED <<control, pay, world, books>>
  BY DEF WorkerGates, RestartLeased, RestartFenced, RestartEnded, RestartUncertain, ChecksPass,
     ChecksStop, ChecksRefuse, BeforeRelease, db
<1>2. ControlMoves /\ ChainMoves /\ UNCHANGED books /\ pay'.evidence = pay.evidence
  BY <1>1 DEF ControlMoves, ChainMoves, world
<1>3. ASSUME job' = [job EXCEPT ![W].pc = "refuse", ![W].goal = "refuse"] PROVE Fine
  <2>1. job[Worker] \in Job BY ProcTypes DEF All, Inv, JobsOK
  <2>2. /\ Only(Worker)
        /\ job'[Worker] = [job[Worker] EXCEPT !.pc = "refuse", !.goal = "refuse"]
    BY <1>3, ProcTypes DEF All, Inv, JobsOK, Only, W
  <2>3. wpc' = "refuse" /\ job'[Worker].bundle = job[Worker].bundle
    BY <2>1, <2>2 DEF wpc, W, Job
  <2>. QED BY <1>2, <2>2, <2>3, LaterNames, WorkerLeaves DEF Carries
<1>4. CASE RestartLeased
  <2>1. CASE Goto(Worker, "checks")
    <3>1. Prepares("checks")
      BY <1>4 DEF RestartLeased, Prepares, PastSigning, Early, Signing
    <3>. QED BY <1>2, <2>1, <3>1, WorkerPrepares
  <2>2. CASE Book(Worker, Release, "refuse") \/ Goto(Worker, "converge")
    BY <1>2, <2>2, LaterNames, WorkerGoto
  <2>. QED BY <1>3, <1>4, <2>1, <2>2 DEF RestartLeased, W
<1>5. CASE RestartFenced \/ RestartEnded \/ RestartUncertain \/ ChecksStop
  BY <1>2, <1>5, LaterNames, WorkerGoto
  DEF RestartFenced, RestartEnded, RestartUncertain, ChecksStop, W
<1>6. CASE ChecksPass
  <2>1. Prepares("before") /\ Goto(Worker, "before")
    BY <1>6 DEF ChecksPass, ByWorker, At, Prepares, PastSigning, Early, Signing, wpc, W
  <2>. QED BY <1>2, <2>1, WorkerPrepares
<1>7. CASE ChecksRefuse BY <1>3, <1>7 DEF ChecksRefuse
<1>8. CASE BeforeRelease
  <2>1. CASE Goto(Worker, "challenge")
    <3>1. Prepares("challenge")
      BY <1>8 DEF BeforeRelease, Prepares, PastSigning, Early, Signing
    <3>. QED BY <1>2, <2>1, <3>1, WorkerPrepares
  <2>2. CASE Finish(Worker) \/ \E g : Book(Worker, Release, g)
    BY <1>2, <2>2, WorkerGoto
  <2>. QED BY <1>8, <2>1, <2>2 DEF BeforeRelease, W
<1>. QED BY <1>4, <1>5, <1>6, <1>7, <1>8 DEF WorkerGates

LEMMA PreparesFine ==
  ASSUME All, Stays, ChallengeRefused \/ Prepare \/ Fence \/ Mark \/ Reread \/ Sign \/ CustodyRefuses
  PROVE  Fine
<1>1. wpc \in Early \cup Signing /\ ~PastSigning
  BY DEF ChallengeRefused, Prepare, Fence, Mark, Reread, Sign, CustodyRefuses, ByWorker, At,
         PastSigning, Early, Signing, wpc, W
<1>2. UNCHANGED <<chain, books>> /\ ChainMoves
  BY DEF ChallengeRefused, Prepare, Fence, Mark, Reread, Sign, CustodyRefuses, world, ChainMoves
<1>3. ControlMoves
  BY DEF ChallengeRefused, Prepare, Fence, MayFence, Mark, Reread, Sign, CustodyRefuses, db,
         ControlMoves
<1>4. pay'.evidence = pay.evidence
  <2>1. pay \in Pay BY DEF All, Inv, DataOK
  <2>2. pay' \in {pay, [pay EXCEPT !.state = "prepared"], [pay EXCEPT !.intent = TRUE]}
    BY DEF ChallengeRefused, Prepare, Fence, Mark, Reread, Sign, CustodyRefuses, db
  <2>. QED BY <2>1, <2>2 DEF Pay
<1>5. CASE Goto(Worker, "unsubmitted") BY <1>2, <1>3, <1>4, <1>5, LaterNames, WorkerGoto
<1>6. CASE Prepare /\ Goto(Worker, "fence")
  <2>1. wpc = "challenge" BY <1>6 DEF Prepare
  <2>2. fin = "reserved"
    <3>1. job'[Worker].pc = "fence" BY <1>6, GotoPc, ProcTypes DEF All
    <3>2. Goto(Worker, "unsubmitted") => job'[Worker].pc = "unsubmitted"
      BY GotoPc, ProcTypes DEF All
    <3>. QED BY <1>6, <3>1, <3>2 DEF Prepare, W
  <2>3. Prepares("fence") BY <1>1, <2>1, <2>2 DEF Prepares, Early, Signing
  <2>. QED BY <1>2, <1>3, <1>4, <1>6, <2>3, WorkerPrepares
<1>7. CASE Fence /\ MayFence /\ control' = "fenced" /\ Goto(Worker, "mark")
  <2>1. Fences BY <1>7 DEF Fence, Fences, Early, Shut
  <2>2. Prepares("mark") BY <1>1, <2>1 DEF Prepares, Early, Signing
  <2>. QED BY <1>2, <1>3, <1>4, <1>7, <2>2, WorkerPrepares
<1>8. CASE wpc \in Signing /\ \E pc \in Signing : Goto(Worker, pc)
  <2>1. PICK pc \in Signing : Goto(Worker, pc) BY <1>8
  <2>2. Prepares(pc) BY <1>1, <1>8, <2>1 DEF Prepares, Early, Signing
  <2>. QED BY <1>2, <1>3, <1>4, <1>8, <2>1, <2>2, WorkerPrepares
<1>9. CASE Mark /\ job' = [job EXCEPT ![W].pc = "reread", ![W].marked = TRUE]
  <2>1. job[Worker] \in Job BY ProcTypes DEF All, Inv, JobsOK
  <2>2. Only(Worker) /\ job'[Worker] = [job[Worker] EXCEPT !.pc = "reread", !.marked = TRUE]
    BY <1>9, ProcTypes DEF All, Inv, JobsOK, Only, W
  <2>3. wpc' = "reread" /\ job'[Worker].bundle = job[Worker].bundle
    BY <2>1, <2>2 DEF wpc, W, Job
  <2>4. Prepares(wpc') BY <1>1, <1>9, <2>3 DEF Prepares, Mark, Signing, Early
  <2>. QED BY <1>2, <1>3, <1>4, <2>2, <2>3, <2>4, WorkerFine DEF Only
<1>10. CASE Mark
  <2>1. CASE job' = [job EXCEPT ![W].pc = "unsubmitted"]
    BY <1>5, <2>1 DEF Goto, W
  <2>. QED BY <1>9, <1>10, <2>1 DEF Mark
<1>11. CASE Reread \/ Sign \/ CustodyRefuses
  <2>1. wpc \in Signing
    BY <1>11 DEF Reread, Sign, CustodyRefuses, ByWorker, At, Signing, wpc, W
  <2>2. Goto(Worker, "unsubmitted") \/ \E pc \in Signing : Goto(Worker, pc)
    BY <1>11 DEF Reread, Sign, CustodyRefuses, ByWorker, Signing, W
  <2>. QED BY <1>5, <1>8, <2>1, <2>2
<1>. QED BY <1>5, <1>6, <1>7, <1>10, <1>11
     DEF ChallengeRefused, Prepare, Fence, ByWorker, W

LEMMA CustodySignsFine == ASSUME All, Stays, CustodySigns PROVE Fine
<1>1. /\ wpc = "custody" /\ UNCHANGED <<control, pay, books>>
      /\ \E pc \in {"signature", "unsubmitted"} : Goto(Worker, pc)
  BY DEF CustodySigns, db, W
<1>2. ControlMoves /\ ChainMoves BY <1>1 DEF ControlMoves, ChainMoves
<1>. QED BY <1>1, <1>2, LaterNames, WorkerGoto

LEMMA PaidFine ==
  ASSUME All, Stays, \/ Signature \/ Submit \/ Send \/ Observe \/ Record \/ Judge \/ Unsubmitted
  PROVE  Fine
<1>1. UNCHANGED <<control, chain, books>>
  BY DEF Signature, Submit, Send, Observe, Record, Judge, Unsubmitted, db, world
<1>2. ControlMoves /\ ChainMoves BY <1>1 DEF ControlMoves, ChainMoves
<1>3. \/ \E pc \in Later : Goto(Worker, pc)
      \/ \E b \in {Release} \cup Harmless : \E g : Book(Worker, b, g)
  BY LaterNames DEF Harmless, Signature, Submit, Send, Observe, Record, Judge, Unsubmitted, ByWorker, W
<1>4. pay'.evidence = pay.evidence
  <2>1. pay \in Pay BY DEF All, Inv, DataOK
  <2>2. CASE Observe
    <3>1. ASSUME NEW v, NEW d,
                 pay' = [pay EXCEPT !.settlement = v, !.digest = d,
                           !.state = IF v = "unknown" THEN "reconciliation_required" ELSE "observed"]
          PROVE  pay'.evidence = pay.evidence
      BY <2>1, <3>1 DEF Pay
    <3>. QED BY <2>2, <3>1 DEF Observe
  <2>3. CASE Signature \/ Send \/ Judge BY <2>3 DEF Signature, Send, Judge, db
  <2>4. CASE Submit \/ Record \/ Unsubmitted
    BY <2>1, <2>4 DEF Submit, Record, Unsubmitted, Pay
  <2>. QED BY <2>2, <2>3, <2>4
<1>. QED BY <1>1, <1>2, <1>3, <1>4, WorkerGoto

LEMMA AwaitFine ==
  ASSUME All, Stays, NEW answer \in {"none", "unpaid", "ok", "error"}, Await(answer) PROVE Fine
<1>1. job[Worker] \in Job BY ProcTypes DEF All, Inv, JobsOK
<1>2. PICK pc \in {"observe", "checkpoint"} :
        job' = [job EXCEPT ![Worker].seen = answer, ![Worker].pc = pc]
  BY DEF Await, W
<1>3. Only(Worker) /\ job'[Worker] = [job[Worker] EXCEPT !.seen = answer, !.pc = pc]
  BY <1>2, ProcTypes DEF All, Inv, JobsOK, Only
<1>4. wpc' = pc /\ job'[Worker].bundle = job[Worker].bundle BY <1>1, <1>3 DEF wpc, W, Job
<1>5. ControlMoves /\ ChainMoves /\ UNCHANGED books /\ pay'.evidence = pay.evidence
  BY CalmMoves DEF Await, db
<1>. QED BY <1>3, <1>4, <1>5, LaterNames, WorkerLeaves DEF Carries

LEMMA CheckpointFine == ASSUME All, Stays, Checkpoint PROVE Fine
<1>1. UNCHANGED <<control, chain, books>> BY DEF Checkpoint, world
<1>2. ControlMoves /\ ChainMoves BY <1>1 DEF ControlMoves, ChainMoves
<1>3. CASE UNCHANGED pay /\ Goto(Worker, "markUnknown")
  BY <1>1, <1>2, <1>3, LaterNames, WorkerGoto
<1>4. CASE /\ pay' = [pay EXCEPT !.status = job[Worker].seen]
           /\ job' = [job EXCEPT ![Worker].pc = "observe",
                        ![Response(0)] = IF job[Worker].seen = "unpaid" THEN @ ELSE NewJob("due")]
  <2>1. pay'.evidence = pay.evidence BY <1>4 DEF All, Inv, DataOK, Pay
  <2>2. Worker # Response(0) /\ Response(0) \in Procs /\ ~IsExpiry(Response(0))
    BY ProcsDiffer, ZeroStep, ProcNames
  <2>3. job[Worker] \in Job BY ProcTypes DEF All, Inv, JobsOK
  <2>4. \A q \in Procs : q \notin {Worker, Response(0)} => job'[q] = job[q]
    BY <1>4 DEF All, Inv, JobsOK
  <2>5. job'[Response(0)] \in {job[Response(0)], NewJob("due")}
    BY <1>4, <2>2, ProcTypes DEF All, Inv, JobsOK
  <2>6. job'[Worker] = [job[Worker] EXCEPT !.pc = "observe"]
    BY <1>4, <2>2, ProcTypes DEF All, Inv, JobsOK
  <2>7. wpc' = "observe" /\ job'[Worker].bundle = job[Worker].bundle
    BY <2>3, <2>6 DEF Job, wpc, W
  <2>8. \A q \in Procs : q # Worker => job'[q] = job[q] \/ Started(q)
    BY <2>2, <2>4, <2>5 DEF Started
  <2>. QED BY <1>1, <1>2, <2>1, <2>7, <2>8, LaterNames, WorkerFine DEF Carries
<1>. QED BY <1>3, <1>4 DEF Checkpoint, W

LEMMA ArmedFine ==
  ASSUME All, Stays, NEW j, j.pc \in Later, j.bundle \in Harmless, Armed(j),
         UNCHANGED <<pay, world, books>>, ControlMoves, control' # "leased"
  PROVE  Fine
<1>1. ChainMoves BY DEF ChainMoves, world
<1>2. Worker # Expiry(0) /\ Expiry(0) \in Procs BY ProcsDiffer, ZeroStep
<1>3. \A q \in Procs : q \notin {Worker, Expiry(0)} => job'[q] = job[q]
  BY DEF Armed, W, All, Inv, JobsOK
<1>4. job'[Expiry(0)] \in {job[Expiry(0)], NewJob("due")}
  BY <1>2, ProcTypes DEF Armed, W, All, Inv, JobsOK
<1>5. job'[Worker] = j BY <1>2, ProcTypes DEF Armed, W, All, Inv, JobsOK
<1>6. wpc' \in Later BY <1>5 DEF wpc, W
<1>7. \A q \in Procs : q # Worker => job'[q] = job[q] \/ Started(q)
  BY <1>3, <1>4, <1>6 DEF Started
<1>. QED BY <1>1, <1>5, <1>6, <1>7, WorkerFine DEF Carries

LEMMA RecordsFine == ASSUME All, Stays, WorkerRecords PROVE Fine \/ Retry
<1>1. CASE MarkUnknown \/ Caught \/ WorkFails
  <2>1. UNCHANGED <<control, pay, chain, books>> BY <1>1 DEF MarkUnknown, Caught, WorkFails, world
  <2>2. ControlMoves /\ ChainMoves BY <2>1 DEF ControlMoves, ChainMoves
  <2>3. \/ \E pc \in Later : Goto(Worker, pc)
        \/ Finish(Worker) \/ \E b \in {Release} \cup Harmless : \E g : Book(Worker, b, g)
    BY <1>1, LaterNames DEF MarkUnknown, Caught, WorkFails, ByWorker, W
  <2>. QED BY <2>1, <2>2, <2>3, WorkerGoto
<1>2. CASE ProjectRefused \/ \E state \in {"completed", "refused"} : ProjectCompleted(state)
  <2>1. /\ MayProject /\ control' = "completed" /\ Finish(Worker)
        /\ UNCHANGED <<pay, world, books>>
    BY <1>2 DEF ProjectRefused, ProjectCompleted, Project, W
  <2>2. ControlMoves /\ ChainMoves
    BY <2>1 DEF ControlMoves, ChainMoves, MayProject, world
  <2>. QED BY <2>1, <2>2, WorkerGoto
<1>3. CASE ProjectUnknown \/ ProjectConverged
  <2>1. /\ MayProject /\ control' = "uncertain" /\ UNCHANGED <<pay, world, books>>
    BY <1>3 DEF ProjectUnknown, ProjectConverged, Project
  <2>2. ControlMoves BY <2>1 DEF ControlMoves, MayProject
  <2>3. /\ NewJob("done").pc \in Later /\ NewJob("done").bundle \in Harmless
        /\ [NewJob("claim") EXCEPT !.bundle = ErrorRemedy].pc \in Later
        /\ [NewJob("claim") EXCEPT !.bundle = ErrorRemedy].bundle \in Harmless
    BY DoneJob, ClaimJob, BundleTypes, LaterNames DEF NewJob, Harmless
  <2>4. \E j : j.pc \in Later /\ j.bundle \in Harmless /\ Armed(j)
    BY <1>3, <2>3 DEF ProjectUnknown, ProjectConverged, Project
  <2>. QED BY <2>1, <2>2, <2>4, ArmedFine
<1>4. CASE ProjectFails
  <2>1. UNCHANGED <<db, world, books>> BY <1>4 DEF ProjectFails
  <2>2. CASE Throws BY <1>4, <2>1, <2>2, ThrowsFine DEF ProjectFails
  <2>3. CASE Goto(Worker, "caught")
    BY <2>1, <2>3, CalmMoves, LaterNames, WorkerGoto DEF db
  <2>. QED BY <1>4, <2>2, <2>3 DEF ProjectFails, W
<1>5. CASE WorkerThrow BY <1>5, ThrowsFine DEF WorkerThrow
<1>. QED BY <1>1, <1>2, <1>3, <1>4, <1>5 DEF WorkerRecords

LEMMA WorkerStepsFine ==
  ASSUME All, Stays, WorkerSteps \/ WorkerDies PROVE Fine \/ Retry
BY WorkerGatesFine, PreparesFine, CustodySignsFine, PaidFine, AwaitFine, CheckpointFine,
   RecordsFine, ThrowsFine DEF WorkerSteps, WorkerPays, WorkerDies

-----------------------------------------------------------------------------
(* The recoveries.                                                          *)

(* One job goes to a later step and carries no bundle that releases.        *)
LEMMA JobFine ==
  ASSUME All, Stays, NEW p \in Procs, p # Worker, Only(p), ControlMoves, ChainMoves, EndMoves,
         job'[p].pc \notin {"post", "finalize"},
         job'[p].bundle = job[p].bundle \/ job'[p].bundle \in Harmless,
         IsExpiry(p) => job[p].pc # "none"
  PROVE  Fine
<1>1. job'[Worker] = job[Worker] BY ProcTypes DEF Only
<1>2. WorkerMoves BY <1>1 DEF WorkerMoves, wpc, W
<1>3. JobSafe(p)' BY <1>2, CalmSafe
<1>. QED BY <1>3, OneFine

LEMMA JobGotoFine ==
  ASSUME All, Stays, NEW p \in Procs, p # Worker, ControlMoves, ChainMoves, EndMoves,
         Finish(p) \/ \E pc : pc \notin {"post", "finalize"} /\ Goto(p, pc),
         IsExpiry(p) => job[p].pc # "none"
  PROVE  Fine
<1>1. /\ Only(p) /\ job'[p].pc \notin {"post", "finalize"}
      /\ job'[p].bundle = job[p].bundle \/ job'[p].bundle \in Harmless
  BY GotoPc, FinishPc DEF All, Harmless
<1>. QED BY <1>1, JobFine

(* Changes of one job to a new one or in some of its fields.                *)
LEMMA JobFieldsFine ==
  ASSUME All, Stays, NEW p \in Procs, p # Worker, ControlMoves, ChainMoves, EndMoves,
         NEW j, job' = [job EXCEPT ![p] = j], j.pc \notin {"post", "finalize"},
         j.bundle = job[p].bundle \/ j.bundle \in Harmless,
         IsExpiry(p) => job[p].pc # "none"
  PROVE  Fine
<1>1. Only(p) /\ job'[p] = j BY DEF All, Inv, JobsOK, Only
<1>. QED BY <1>1, JobFine

LEMMA NotWorker ==
  /\ Canceller # Worker /\ Sweep # Worker /\ Operator # Worker
  /\ \A k : Response(k) # Worker /\ Expiry(k) # Worker
BY ProcsDiffer

LEMMA CancelFine == ASSUME All, Stays, CancelRequest \/ CancelJob PROVE Fine
<1>1. UNCHANGED <<pay, world, books>>
  BY DEF CancelRequest, CancelJob, CancelLoad, CancelControl, CancelRefused, CancelDone,
         CancelRequired, db
<1>2. ChainMoves /\ EndMoves BY <1>1 DEF ChainMoves, EndMoves, world, books
<1>3. ControlMoves
  BY DEF CancelRequest, CancelJob, CancelLoad, CancelControl, Cancelled, CancelRefused,
         CancelDone, CancelRequired, db, ControlMoves
<1>4. Canceller \in Procs /\ ~IsExpiry(Canceller) /\ Canceller # Worker
  BY ProcTypes, ProcNames, NotWorker
<1>5. job[Canceller] \in Job BY <1>4 DEF All, Inv, JobsOK
<1>6. CASE CancelRequest
  <2>1. PICK pc \in {"load", "done"} : job' = [job EXCEPT ![Canceller] = NewJob(pc)]
    BY <1>6 DEF CancelRequest
  <2>2. NewJob(pc).pc = pc /\ NewJob(pc).bundle \in Harmless BY <2>1, PCs, NewJobType DEF Harmless
  <2>. QED BY <1>2, <1>3, <1>4, <2>1, <2>2, JobFieldsFine
<1>7. CASE CancelLoad
  <2>1. PICK j : /\ j = [job[Canceller] EXCEPT !.pc = "cancel", !.seen = control,
                                               !.reserved = (fin = "reserved")]
                 /\ job' = [job EXCEPT ![Canceller] = j]
    BY <1>4, <1>7 DEF CancelLoad, All, Inv, JobsOK
  <2>2. j.pc = "cancel" /\ j.bundle = job[Canceller].bundle BY <1>5, <2>1 DEF Job
  <2>. QED BY <1>2, <1>3, <1>4, <2>1, <2>2, JobFieldsFine
<1>8. CASE CancelControl
  <2>1. CASE job' = [job EXCEPT ![Canceller].pc = "refuse", ![Canceller].seen = control]
    <3>1. PICK j : /\ j = [job[Canceller] EXCEPT !.pc = "refuse", !.seen = control]
                   /\ job' = [job EXCEPT ![Canceller] = j]
      BY <1>4, <2>1 DEF All, Inv, JobsOK
    <3>2. j.pc = "refuse" /\ j.bundle = job[Canceller].bundle BY <1>5, <3>1 DEF Job
    <3>. QED BY <1>2, <1>3, <1>4, <3>1, <3>2, JobFieldsFine
  <2>2. CASE control' = "cancelled" /\ Book(Canceller, Release, "cancel")
    <3>1. Only(Canceller) /\ job'[Canceller].pc = "booking" /\ job'[Canceller].bundle = Release
      BY <1>4, <2>2, BookPc DEF All
    <3>2. control = "leased" \/ control = "cancelled"
      BY <1>8, <2>2 DEF CancelControl, Cancelled
    <3>3. Stopped' /\ NeverSigns'
      <4>1. wpc \notin Signing BY <3>2 DEF All, EndingInv
      <4>2. wpc' = wpc BY <1>4, <3>1, ProcTypes DEF Only, wpc, W
      <4>. QED BY <2>2, <4>1, <4>2 DEF Stopped, NeverSigns, Shut, MayFence
    <3>4. JobSafe(Canceller)'
      BY <1>4, <3>1, <3>3, Kinds DEF JobSafe, Safe, Kind
    <3>. QED BY <1>2, <1>3, <1>4, <3>1, <3>4, OneFine
  <2>3. CASE Goto(Canceller, "required") BY <1>2, <1>3, <1>4, <2>3, JobGotoFine
  <2>. QED BY <1>8, <2>1, <2>2, <2>3 DEF CancelControl
<1>9. CASE CancelRefused \/ CancelDone \/ CancelRequired
  BY <1>2, <1>3, <1>4, <1>9, JobGotoFine DEF CancelRefused, CancelDone, CancelRequired
<1>. QED BY <1>6, <1>7, <1>8, <1>9 DEF CancelJob

LEMMA SweepFine == ASSUME All, Stays, SweepObserve \/ SweepQueue PROVE Fine
<1>1. UNCHANGED <<world, books>> BY DEF SweepObserve, SweepQueue
<1>2. pay'.evidence = pay.evidence
  BY DEF SweepObserve, SweepQueue, All, Inv, DataOK, Pay
<1>3. ChainMoves /\ EndMoves BY <1>1, <1>2 DEF ChainMoves, EndMoves, world, books
<1>4. ControlMoves BY DEF SweepObserve, SweepQueue, ControlMoves
<1>5. Sweep \in Procs /\ ~IsExpiry(Sweep) /\ Sweep # Worker BY ProcTypes, ProcNames, NotWorker
<1>6. CASE SweepObserve
  <2>1. job[Sweep] \in Job BY <1>5 DEF All, Inv, JobsOK
  <2>2. PICK j : /\ j = [job[Sweep] EXCEPT !.pc = "queue", !.seen = control',
                                           !.marked = (control' \in {"contested", "uncertain"})]
                 /\ job' = [job EXCEPT ![Sweep] = j]
    BY <1>5, <1>6 DEF SweepObserve, All, Inv, JobsOK
  <2>3. j.pc = "queue" /\ j.bundle = job[Sweep].bundle BY <2>1, <2>2 DEF Job
  <2>. QED BY <1>3, <1>4, <1>5, <2>2, <2>3, JobFieldsFine
<1>7. CASE SweepQueue BY <1>3, <1>4, <1>5, <1>7, JobGotoFine DEF SweepQueue
<1>. QED BY <1>6, <1>7

(* Two jobs change: one goes on, the other is new.                          *)
LEMMA TwoFine ==
  ASSUME All, Stays, NEW p \in Procs, NEW q \in Procs, p # Worker, q # Worker, p # q,
         ControlMoves, ChainMoves, EndMoves, NEW pc, pc \notin {"post", "finalize"},
         job' = [job EXCEPT ![p].pc = pc, ![q] = NewJob("due")],
         IsExpiry(p) \/ IsExpiry(q) => IsExpiry(p) /\ job[p].pc # "none"
  PROVE  Fine
<1>1. job[p] \in Job BY DEF All, Inv, JobsOK
<1>2. /\ job'[p] = [job[p] EXCEPT !.pc = pc] /\ job'[q] = NewJob("due")
      /\ \A o \in Procs : o \notin {p, q} => job'[o] = job[o]
  BY DEF All, Inv, JobsOK
<1>3. job'[p].pc = pc /\ job'[p].bundle = job[p].bundle BY <1>1, <1>2 DEF Job
<1>4. job'[q].pc = "due" /\ job'[q].bundle = Held BY <1>2, PCs, NewJobType
<1>5. job'[Worker] = job[Worker] BY <1>2, ProcTypes
<1>6. WorkerMoves BY <1>5 DEF WorkerMoves, wpc, W
<1>7. JobSafe(p)' BY <1>3, <1>6, CalmSafe
<1>8. IsExpiry(p) /\ job[p].pc # "none" => Stopped'
  BY <1>6, StaysPast DEF All, EndingInv, JobSafe
<1>9. JobSafe(q)' BY <1>4, <1>8, Kinds DEF JobSafe, Safe, Kind
<1>. QED BY <1>2, <1>6, <1>7, <1>9 DEF Fine, JobsSafe

LEMMA ResponseFine == ASSUME All, Stays, NEW k \in Steps, ResponseJob(k) PROVE Fine
<1>1. /\ Response(k) \in Procs /\ ~IsExpiry(Response(k)) /\ Response(k) # Worker
  BY ProcTypes, ProcNames, NotWorker
<1>2. job[Response(k)] \in Job BY <1>1 DEF All, Inv, JobsOK
<1>3. UNCHANGED <<world, books>> /\ ChainMoves
  BY DEF ResponseJob, BeginResponse, RecoverResponse, RetainedLeased, RetainedStops,
     RetainedRecovers, VerifyPaid, VerifyConflicts, VerifyFails, Reconcile, ResponseRequired,
     Accept, ChainMoves, world
<1>4. ControlMoves
  BY DEF ResponseJob, BeginResponse, RecoverResponse, RetainedLeased, RetainedStops,
     RetainedRecovers, VerifyPaid, VerifyConflicts, VerifyFails, Reconcile, ResponseRequired,
     Accept, ControlMoves, db
<1>5. CASE VerifyPaid(k)
  <2>1. pay'.evidence = RetainedSettlement BY <1>5 DEF VerifyPaid, All, Inv, DataOK, Pay
  <2>2. EndMoves BY <1>3, <2>1, Kinds DEF EndMoves, books, Safe, Kind
  <2>3. Only(Response(k)) /\ job'[Response(k)].pc = "booking"
        /\ job'[Response(k)].bundle = RetainedSettlement
    BY <1>1, <1>5, BookPc DEF VerifyPaid, All
  <2>. QED BY <1>1, <1>3, <1>4, <2>2, <2>3, JobFine DEF Harmless
<1>6. CASE RetainedRecovers(k)
  <2>1. EndMoves
    BY <1>3, <1>6, ObservedPay DEF RetainedRecovers, EndMoves, books, All
  <2>2. PICK j : /\ \/ j = [job[Response(k)] EXCEPT !.pc = "claim", !.bundle = ErrorRemedy]
                    \/ j = [job[Response(k)] EXCEPT !.pc = "verify", !.goal = "repair"]
                 /\ job' = [job EXCEPT ![Response(k)] = j]
    BY <1>1, <1>6 DEF RetainedRecovers, All, Inv, JobsOK
  <2>3. /\ j.pc \in {"claim", "verify"}
        /\ j.bundle = job[Response(k)].bundle \/ j.bundle \in Harmless
    BY <1>2, <2>2 DEF Job, Harmless
  <2>. QED BY <1>1, <1>3, <1>4, <2>1, <2>2, <2>3, JobFieldsFine
<1>7. CASE ~VerifyPaid(k) /\ ~RetainedRecovers(k)
  <2>1. UNCHANGED pay
    BY <1>7 DEF ResponseJob, BeginResponse, RecoverResponse, RetainedLeased, RetainedStops,
       VerifyConflicts, VerifyFails, Reconcile, ResponseRequired, Accept, db
  <2>2. EndMoves BY <1>3, <2>1 DEF EndMoves, books
  <2>3. CASE BeginResponse(k)
    <3>1. CASE Finish(Response(k)) BY <1>1, <1>3, <1>4, <2>2, <3>1, JobGotoFine
    <3>2. CASE job' = [job EXCEPT ![Response(k)] = NewJob("done")]
      BY <3>1, <3>2 DEF Finish
    <3>3. CASE k # LastStep /\ job' = [job EXCEPT ![Response(k)].pc = "recover",
                                                  ![Response(k + 1)] = NewJob("due")]
      <4>1. /\ Response(k + 1) \in Procs /\ Response(k) # Response(k + 1)
            /\ Response(k + 1) # Worker /\ ~IsExpiry(Response(k + 1))
        BY <3>3, StepSucc, StepsNat, ProcTypes, ProcsDiffer, ProcNames
      <4>2. PICK q \in Procs : q = Response(k + 1) BY <4>1
      <4>3. PICK pc : pc = "recover" /\ pc \notin {"post", "finalize"} OBVIOUS
      <4>4. job' = [job EXCEPT ![Response(k)].pc = pc, ![q] = NewJob("due")]
        BY <3>3, <4>2, <4>3
      <4>. QED BY <1>1, <1>3, <1>4, <2>2, <4>1, <4>2, <4>3, <4>4, TwoFine
    <3>. QED BY <2>3, <3>1, <3>2, <3>3 DEF BeginResponse
  <2>4. CASE ~BeginResponse(k)
    <3>1. Finish(Response(k)) \/ \E pc : pc \notin {"post", "finalize"} /\ Goto(Response(k), pc)
      BY <1>7, <2>4 DEF ResponseJob, RecoverResponse, RetainedLeased, RetainedStops,
         VerifyConflicts, VerifyFails, Reconcile, ResponseRequired, Accept
    <3>. QED BY <1>1, <1>3, <1>4, <2>2, <3>1, JobGotoFine
  <2>. QED BY <2>3, <2>4
<1>. QED BY <1>5, <1>6, <1>7

LEMMA ExpiryFine == ASSUME All, Stays, NEW k \in Steps, ExpiryJob(k) PROVE Fine
<1>1. /\ Expiry(k) \in Procs /\ IsExpiry(Expiry(k)) /\ Expiry(k) # Worker
  BY ProcTypes, ProcNames, NotWorker
<1>2. job[Expiry(k)] \in Job BY <1>1 DEF All, Inv, JobsOK
<1>3. UNCHANGED <<control, world, books>>
  BY DEF ExpiryJob, ArmSuccessor, ProveUnused, ClaimUnused, db
<1>4. ControlMoves /\ ChainMoves BY <1>3 DEF ControlMoves, ChainMoves, world
<1>5. job[Expiry(k)].pc # "none" BY DEF ExpiryJob, ArmSuccessor, ProveUnused, ClaimUnused, At
<1>6. Stopped BY <1>1, <1>5 DEF All, EndingInv, JobSafe
<1>7. CASE ArmSuccessor(k)
  <2>1. EndMoves BY <1>3, <1>7 DEF ArmSuccessor, EndMoves, books
  <2>2. CASE job' = [job EXCEPT ![Expiry(k)] = NewJob("done")]
    BY <1>1, <1>4, <1>5, <2>1, <2>2, JobGotoFine DEF Finish
  <2>3. CASE k < LastStep /\ job' = [job EXCEPT ![Expiry(k)].pc = "proof",
                                                ![Expiry(k + 1)] = NewJob("due")]
    <3>1. /\ Expiry(k + 1) \in Procs /\ Expiry(k) # Expiry(k + 1) /\ Expiry(k + 1) # Worker
      BY <2>3, StepSucc, StepsNat, ProcTypes, ProcsDiffer
    <3>2. PICK q \in Procs : q = Expiry(k + 1) BY <3>1
    <3>3. PICK pc : pc = "proof" /\ pc \notin {"post", "finalize"} OBVIOUS
    <3>4. job' = [job EXCEPT ![Expiry(k)].pc = pc, ![q] = NewJob("due")]
      BY <2>3, <3>2, <3>3
    <3>. QED BY <1>1, <1>4, <1>5, <2>1, <3>1, <3>2, <3>3, <3>4, TwoFine
  <2>. QED BY <1>7, <2>2, <2>3 DEF ArmSuccessor
<1>8. CASE ProveUnused(k)
  <2>1. EndMoves BY <1>3, <1>8 DEF ProveUnused, db, EndMoves, books
  <2>. QED BY <1>1, <1>4, <1>5, <1>8, <2>1, JobGotoFine DEF ProveUnused
<1>9. CASE ClaimUnused(k)
  <2>1. CASE UNCHANGED pay /\ Finish(Expiry(k))
    <3>1. EndMoves BY <1>3, <2>1 DEF EndMoves, books
    <3>. QED BY <1>1, <1>4, <1>5, <2>1, <3>1, JobGotoFine
  <2>2. CASE /\ pay' = [pay EXCEPT !.evidence = Pinned(k)]
             /\ job' = [job EXCEPT ![Expiry(k)].pc = "post", ![Expiry(k)].bundle = Pinned(k),
                                   ![Expiry(k)].goal = "unused"]
    <3>1. job'[Worker] = job[Worker] /\ Only(Expiry(k))
      BY <1>1, <2>2, ProcTypes DEF All, Inv, JobsOK, Only
    <3>2. WorkerMoves BY <3>1 DEF WorkerMoves, wpc, W
    <3>3. Stopped' /\ NeverSigns' BY <1>4, <1>6, <3>2, StaysPast DEF Stopped, NeverSigns
    <3>4. EndMoves BY <1>3, <3>2, <3>3 DEF EndMoves, books, Safe
    <3>5. Dead BY <1>1, <1>9, Knows DEF ClaimUnused, At, All, JobKnows
    <3>6. PICK b : b = Pinned(k) /\ b # Release BY <3>5, PinnedSound DEF All
    <3>7. job' = [job EXCEPT ![Expiry(k)] =
                    [job[Expiry(k)] EXCEPT !.pc = "post", !.bundle = b, !.goal = "unused"]]
      BY <1>1, <2>2, <3>6 DEF All, Inv, JobsOK
    <3>8. job'[Expiry(k)] = [job[Expiry(k)] EXCEPT !.pc = "post", !.bundle = b, !.goal = "unused"]
      BY <1>1, <3>7 DEF All, Inv, JobsOK
    <3>9. job'[Expiry(k)].bundle = b BY <1>2, <3>8 DEF Job
    <3>10. JobSafe(Expiry(k))' BY <1>1, <3>3, <3>6, <3>9 DEF JobSafe, Safe
    <3>. QED BY <1>1, <1>4, <3>1, <3>2, <3>4, <3>10, OneFine
  <2>. QED BY <1>9, <2>1, <2>2 DEF ClaimUnused
<1>. QED BY <1>7, <1>8, <1>9 DEF ExpiryJob

LEMMA OthersFine ==
  ASSUME All, Stays, \/ \E b \in {ErrorRemedy, LossRemedy} : OperatorRemedies(b)
              \/ \E p \in Procs : JobDies(p)
  PROVE  Fine
<1>1. UNCHANGED <<db, world, books>> BY DEF OperatorRemedies, JobDies
<1>2. ControlMoves /\ ChainMoves /\ EndMoves BY <1>1, CalmMoves
<1>3. ASSUME NEW b \in {ErrorRemedy, LossRemedy}, OperatorRemedies(b) PROVE Fine
  <2>1. PICK j : j = [NewJob("claim") EXCEPT !.bundle = b] /\ job' = [job EXCEPT ![Operator] = j]
    BY <1>3 DEF OperatorRemedies
  <2>2. j.pc = "claim" /\ j.bundle \in Harmless BY <2>1 DEF NewJob, Harmless
  <2>. QED BY <1>2, <2>1, <2>2, NotWorker, ProcTypes, ProcNames, JobFieldsFine
<1>4. ASSUME NEW p \in Procs, JobDies(p) PROVE Fine
  BY <1>2, <1>4, JobGotoFine DEF JobDies
<1>. QED BY <1>3, <1>4

LEMMA WorldFine == ASSUME All, Stays, World PROVE Fine
<1>1. UNCHANGED <<control, books, job>> /\ pay'.evidence = pay.evidence
  BY DEF World, LeaseLapses, AuthorizationExpires, ProviderPays, ResponseLeaseLapses, db
<1>2. ChainMoves
  BY DEF World, LeaseLapses, AuthorizationExpires, ProviderPays, ResponseLeaseLapses,
         ChainMoves, world
<1>3. ControlMoves /\ EndMoves BY <1>1 DEF ControlMoves, EndMoves, books
<1>4. WorkerMoves BY <1>1 DEF WorkerMoves, wpc
<1>5. JobsSafe BY <1>1 DEF JobsSafe
<1>. QED BY <1>2, <1>3, <1>4, <1>5 DEF Fine

LEMMA NextFine == ASSUME All, Stays, Next PROVE Fine \/ Retry
<1>1. CASE Recoveries BY <1>1, CancelFine, SweepFine, ResponseFine, ExpiryFine, OthersFine
      DEF Recoveries
<1>. QED BY <1>1, WorkerStepsFine, EndHoldFine, OthersFine, LateWriteFine, WorldFine DEF Next

LEMMA StutterFine == ASSUME All, Stays, UNCHANGED vars PROVE Fine
<1>1. UNCHANGED <<db, world, books, job>> BY DEF vars
<1>2. ControlMoves /\ ChainMoves /\ EndMoves BY <1>1, CalmMoves
<1>3. WorkerMoves BY <1>1 DEF WorkerMoves, wpc
<1>4. JobsSafe BY <1>1 DEF JobsSafe
<1>. QED BY <1>2, <1>3, <1>4 DEF Fine

-----------------------------------------------------------------------------
(* The refinement.                                                          *)

Outside == <<ledger, chain, expired>>
Ends == ledger = Held /\ UNCHANGED <<chain, expired>>

LEMMA WorkerOutside == ASSUME WorkerSteps \/ WorkerDies PROVE UNCHANGED Outside \/ CustodySigns
<1>1. CASE WorkerDies \/ WorkerGates
  BY <1>1 DEF WorkerDies, WorkerGates, RestartLeased, RestartFenced, RestartEnded,
     RestartUncertain, ChecksPass, ChecksStop, ChecksRefuse, BeforeRelease, Outside, world, books
<1>2. CASE WorkerPays
  BY <1>2 DEF WorkerPays, ChallengeRefused, Prepare, Fence, Mark, Reread, Sign, CustodyRefuses,
     Signature, Submit, Send, Await, Checkpoint, Observe, Record, Judge, Unsubmitted, Outside,
     world, books
<1>3. CASE WorkerRecords
  BY <1>3 DEF WorkerRecords, MarkUnknown, Caught, ProjectRefused, ProjectUnknown,
     ProjectConverged, ProjectCompleted, Project, ProjectFails, WorkFails, WorkerThrow, Outside,
     world, books
<1>. QED BY <1>1, <1>2, <1>3 DEF WorkerSteps

LEMMA RecoveriesOutside == ASSUME Recoveries PROVE UNCHANGED <<world, books>> /\ UNCHANGED Outside
<1>1. UNCHANGED <<world, books>>
  <2>1. CASE CancelRequest \/ CancelJob \/ SweepObserve \/ SweepQueue
    BY <2>1 DEF CancelRequest, CancelJob, CancelLoad, CancelControl, CancelRefused, CancelDone,
       CancelRequired, SweepObserve, SweepQueue
  <2>2. ASSUME NEW k \in Steps, ResponseJob(k) PROVE UNCHANGED <<world, books>>
    BY <2>2 DEF ResponseJob, BeginResponse, RecoverResponse, RetainedLeased, RetainedStops,
       RetainedRecovers, VerifyPaid, VerifyConflicts, VerifyFails, Reconcile, ResponseRequired,
       Accept
  <2>3. ASSUME NEW k \in Steps, ExpiryJob(k) PROVE UNCHANGED <<world, books>>
    BY <2>3 DEF ExpiryJob, ArmSuccessor, ProveUnused, ClaimUnused
  <2>4. ASSUME NEW b, OperatorRemedies(b) PROVE UNCHANGED <<world, books>>
    BY <2>4 DEF OperatorRemedies
  <2>. QED BY <2>1, <2>2, <2>3, <2>4 DEF Recoveries
<1>. QED BY <1>1 DEF Outside, world, books

LEMMA EndHoldOutside ==
  ASSUME NEW p, EndHold(p) \/ JobDies(p) PROVE UNCHANGED Outside \/ Ends
BY DEF EndHold, BookingRelease, BookingSettlement, BookingRemedy, PostBooked, PostUnknown,
   PostDelayed, PostConflicts, FinalizeRelease, FinalizeSettlement, FinishUnused, ClaimRemedy,
   FinishRemedy, JobDies, Outside, Ends, world, books

LEMMA NextOutside ==
  ASSUME [Next]_vars
  PROVE  UNCHANGED Outside \/ Ends \/ CustodySigns \/ AuthorizationExpires \/ ProviderPays
<1>1. CASE World
  BY <1>1 DEF World, LeaseLapses, ResponseLeaseLapses, Outside, world, books
<1>2. ASSUME NEW b, LateWrite(b) PROVE UNCHANGED Outside \/ Ends
  BY <1>2 DEF LateWrite, Outside, Ends, world
<1>3. CASE UNCHANGED vars BY <1>3 DEF vars, world, books, Outside
<1>. QED BY <1>1, <1>2, <1>3, WorkerOutside, RecoveriesOutside, EndHoldOutside DEF Next

LEMMA Holds ==
  ASSUME NEW b \in {Held} \cup Bundles
  PROVE  /\ HoldOf[Kind(b)] = "held" <=> b = Held
         /\ Kind(b) \in {"release", "unused"} => HoldOf[Kind(b)] = "refunded"
         /\ Kind(b) = "settle" => HoldOf[Kind(b)] = "charged"
         /\ Kind(b) = "remedy" => HoldOf[Kind(b)] = "compensated"
         /\ b = Held \/ Kind(b) \in {"release", "unused", "settle", "remedy"}
<1>1. b = Held \/ Kind(b) \in {"release", "unused", "settle", "remedy"} BY BundleKinds
<1>2. b = Held => Kind(b) = "held" BY Kinds
<1>. QED BY <1>1, <1>2 DEF HoldOf

LEMMA InitEnds == Init => Ending!Init
BY Kinds, Holds DEF Init, Ending!Init, Payment, HoldOf

LEMMA StepEnds ==
  ASSUME All, All', [Next]_vars
  PROVE  [Ending!Next]_<<HoldOf[Kind(ledger)], Payment>>
<1>1. ledger \in {Held} \cup Bundles /\ ledger' \in {Held} \cup Bundles
      /\ chain \in {"none", "signed", "paid"} /\ expired \in BOOLEAN
  BY DEF All, Inv, DataOK
<1>2. Kind(ledger)' = Kind(ledger') BY DEF Kind
<1>3. CASE UNCHANGED Outside
  BY <1>3, <1>2 DEF Outside, Payment
<1>4. CASE Ends
  <2>1. HoldOf[Kind(ledger)] = "held" /\ UNCHANGED Payment
    BY <1>1, <1>4, Holds DEF Ends, Payment
  <2>2. CASE ledger' = Held
    BY <1>2, <1>4, <2>1, <2>2 DEF Ends
  <2>3. CASE Kind(ledger') = "settle"
    <3>1. HoldOf[Kind(ledger)]' = "charged" BY <1>1, <1>2, <2>3, Holds
    <3>2. Payment = "paid"
      BY <1>2, <1>4, <2>3 DEF All, Inv, MoneyInv, Sound, Ends, Payment
    <3>. QED BY <2>1, <3>1, <3>2 DEF Ending!Next, Ending!Charge
  <2>4. CASE Kind(ledger') = "remedy"
    <3>1. HoldOf[Kind(ledger)]' = "compensated" BY <1>1, <1>2, <2>4, Holds
    <3>2. Payment = "paid"
      BY <1>2, <1>4, <2>4 DEF All, Inv, MoneyInv, Sound, Ends, Payment
    <3>. QED BY <2>1, <3>1, <3>2 DEF Ending!Next, Ending!Compensate
  <2>5. CASE Kind(ledger') = "unused" \/ ledger' = Release
    <3>1. HoldOf[Kind(ledger)]' = "refunded" BY <1>1, <1>2, <2>5, Holds, Kinds
    <3>2. CASE ledger' = Release
      <4>1. Payment = "none" BY <1>4, <3>2 DEF All, EndingInv, ReleaseOut, Ends, Payment
      <4>. QED BY <2>1, <3>1, <4>1 DEF Ending!Next, Ending!Refund
    <3>3. CASE Kind(ledger') = "unused"
      <4>1. Dead BY <1>2, <1>4, <3>3 DEF All, Inv, MoneyInv, Sound, Dead, Ends
      <4>2. Payment \in {"none", "void"} BY <1>1, <4>1 DEF Dead, Payment
      <4>. QED BY <2>1, <3>1, <4>2 DEF Ending!Next, Ending!Refund
    <3>. QED BY <2>5, <3>2, <3>3
  <2>. QED BY <1>1, <2>2, <2>3, <2>4, <2>5, BundleKinds
<1>5. CASE CustodySigns
  <2>1. /\ chain = "none" /\ chain' = "signed" /\ UNCHANGED <<expired, ledger>> /\ wpc = "custody"
    BY <1>5 DEF CustodySigns, books
  <2>2. ~NeverSigns /\ ~Stopped BY <2>1, SignerNotStopped
  <2>3. ledger = Held
    BY <1>1, <2>1, <2>2, BundleKinds DEF All, Inv, MoneyInv, Sound, EndingInv, Safe
  <2>4. HoldOf[Kind(ledger)] = "held" /\ HoldOf[Kind(ledger)]' = HoldOf[Kind(ledger)]
    BY <1>1, <1>2, <2>1, <2>3, Holds
  <2>5. Payment = "none" /\ Payment' \in {"open", "void"} BY <2>1 DEF Payment
  <2>. QED BY <2>4, <2>5 DEF Ending!Next, Ending!Sign
<1>6. CASE AuthorizationExpires
  <2>1. /\ ~expired /\ expired' = TRUE /\ chain' = chain /\ ledger' = ledger
    BY <1>6 DEF AuthorizationExpires, books
  <2>2. HoldOf[Kind(ledger)]' = HoldOf[Kind(ledger)] BY <1>2, <2>1
  <2>3. CASE chain = "signed"
    <3>1. Payment = "open" /\ Payment' = "void" BY <2>1, <2>3 DEF Payment
    <3>. QED BY <2>2, <3>1 DEF Ending!Next, Ending!Lapse
  <2>4. CASE chain # "signed"
    <3>1. Payment' = Payment BY <2>1, <2>4 DEF Payment
    <3>. QED BY <2>2, <3>1
  <2>. QED BY <2>3, <2>4
<1>7. CASE ProviderPays
  <2>1. /\ ~expired /\ expired' = expired /\ chain = "signed" /\ chain' = "paid" /\ ledger' = ledger
    BY <1>7 DEF ProviderPays, books
  <2>2. HoldOf[Kind(ledger)]' = HoldOf[Kind(ledger)] BY <1>2, <2>1
  <2>3. Payment = "open" /\ Payment' = "paid" BY <2>1 DEF Payment
  <2>. QED BY <2>2, <2>3 DEF Ending!Next, Ending!Pay
<1>. QED BY <1>3, <1>4, <1>5, <1>6, <1>7, NextOutside

LEMMA InitEndingInv == ASSUME Init PROVE EndingInv
<1>1. \A p \in Procs : \E pc \in {"checks", "idle", "none"} : job[p] = NewJob(pc)
  BY DEF Init
<1>2. \A p \in Procs : job[p].bundle = Held /\ job[p].pc \in {"checks", "idle", "none"}
  BY <1>1, PCs, NewJobType
<1>3. job[Worker].pc = "checks" BY ProcTypes, PCs, NewJobType DEF Init
<1>4. \A p \in Procs : IsExpiry(p) => job[p].pc = "none"
  <2>. SUFFICES ASSUME NEW p \in Procs, IsExpiry(p) PROVE job[p].pc = "none" OBVIOUS
  <2>1. job[p] = NewJob("none") BY ProcNames DEF Init
  <2>. QED BY <2>1, PCs, NewJobType
<1>5. \A p \in Procs : JobSafe(p) BY <1>2, <1>4, Kinds DEF JobSafe, Safe
<1>. QED BY <1>3, <1>5, Kinds DEF Init, EndingInv, ReleaseOut, Safe, Signing, wpc, W

-----------------------------------------------------------------------------
(* The theorems.                                                            *)

(* The worker's lease, once lapsed, is not taken again.                     *)
LEMMA LeaseStays == ASSUME [Next]_vars PROVE leaseLive' => leaseLive
<1>1. CASE WorkerDies \/ WorkerGates
  BY <1>1 DEF WorkerDies, WorkerGates, RestartLeased, RestartFenced, RestartEnded,
     RestartUncertain, ChecksPass, ChecksStop, ChecksRefuse, BeforeRelease, world
<1>2. CASE WorkerPays
  BY <1>2 DEF WorkerPays, ChallengeRefused, Prepare, Fence, Mark, Reread, Sign, CustodySigns,
     CustodyRefuses, Signature, Submit, Send, Await, Checkpoint, Observe, Record, Judge,
     Unsubmitted, world
<1>3. CASE WorkerRecords
  BY <1>3 DEF WorkerRecords, MarkUnknown, Caught, ProjectRefused, ProjectUnknown,
     ProjectConverged, ProjectCompleted, Project, ProjectFails, WorkFails, WorkerThrow, world
<1>4. CASE Recoveries BY <1>4, RecoveriesOutside DEF world
<1>5. ASSUME NEW p, EndHold(p) \/ JobDies(p) PROVE UNCHANGED world
  BY <1>5 DEF EndHold, BookingRelease, BookingSettlement, BookingRemedy, PostBooked, PostUnknown,
     PostDelayed, PostConflicts, FinalizeRelease, FinalizeSettlement, FinishUnused, ClaimRemedy,
     FinishRemedy, JobDies
<1>6. ASSUME NEW b, LateWrite(b) PROVE UNCHANGED world BY <1>6 DEF LateWrite
<1>7. CASE World
  BY <1>7 DEF World, LeaseLapses, AuthorizationExpires, ProviderPays, ResponseLeaseLapses, world
<1>8. CASE UNCHANGED vars BY <1>8 DEF vars, world
<1>. QED BY <1>1, <1>2, <1>3, <1>4, <1>5, <1>6, <1>7, <1>8 DEF Next, WorkerSteps, world

LEMMA NextStays == ASSUME All, [Next]_vars PROVE Stays /\ Inv'
<1>1. Good BY NextGood, StutterGood DEF All
<1>2. fin # "reserved" => fin' # "reserved" BY <1>1 DEF Good, Moves, MoneyMoves, money
<1>. QED BY <1>1, <1>2, LeaseStays, GoodKeeps DEF Stays, All

(* A retry reopens the way to the fence at most, and only for a Call that   *)
(* nobody else has stopped.                                                 *)
LEMMA RetryKeeps == ASSUME All, Retry, ~RetriesReleased PROVE EndingInv'
<1>1. /\ UNCHANGED <<control, fin, leaseLive, pay, chain, ledger, wire>>
      /\ Only(Worker) /\ job'[Worker] = NewJob("start")
  BY ProcTypes DEF Retry, Only, All, Inv, JobsOK, db, money, world, books, W
<1>2. wpc' = "start" /\ job'[Worker].bundle = Held BY <1>1, PCs, NewJobType DEF wpc, W
<1>3. wpc' \notin Signing BY <1>2 DEF Signing
<1>4. CASE MayRepeat
  <2>1. ~Stopped BY <1>4 DEF Stopped, Shut, MayRepeat
  <2>2. ~ReleaseOut BY <1>2, <1>4 DEF RetriesReleased, Retry
  <2>3. pay.evidence # Release BY DEF All, Inv, MoneyInv, EvidenceSound
  <2>4. Safe(ledger)' /\ Safe(pay.evidence)' /\ \A b \in wire' : Safe(b)'
    BY <1>1, <2>1, <2>2, <2>3 DEF All, EndingInv, Safe, ReleaseOut, Kind
  <2>5. ASSUME NEW p \in Procs PROVE JobSafe(p)'
    <3>1. CASE p = Worker
      BY <1>2, <3>1, Kinds, ProcNames DEF JobSafe, Safe, Kind
    <3>2. CASE p # Worker
      BY <1>1, <2>1, <3>2 DEF All, EndingInv, JobSafe, Safe, Kind, Only
    <3>. QED BY <3>1, <3>2
  <2>. QED BY <1>1, <1>3, <2>2, <2>4, <2>5 DEF EndingInv, ReleaseOut
<1>5. CASE ~MayRepeat
  <2>1. Stopped' /\ NeverSigns'
    BY <1>1, <1>2, <1>3, <1>5 DEF Stopped, NeverSigns, Shut, MayRepeat, MayFence
  <2>2. \A b : Safe(b)' BY <2>1 DEF Safe
  <2>3. Safe(ledger)' /\ Safe(pay.evidence)' /\ \A b \in wire' : Safe(b)' BY <2>1 DEF Safe
  <2>4. ASSUME NEW p \in Procs PROVE JobSafe(p)'
    <3>1. CASE p = Worker
      BY <1>2, <3>1, Kinds, ProcNames DEF JobSafe, Safe, Kind
    <3>2. CASE p # Worker
      BY <1>1, <2>1, <3>2 DEF All, EndingInv, JobSafe, Safe, Only
    <3>. QED BY <3>1, <3>2
  <2>. QED BY <1>1, <1>3, <2>3, <2>4 DEF All, EndingInv, ReleaseOut
<1>. QED BY <1>4, <1>5

LEMMA StepKeeps == ASSUME All, [Next]_vars, ~RetriesReleased PROVE All'
<1>1. Stays /\ Inv' BY NextStays
<1>2. Fine \/ Retry BY <1>1, NextFine, StutterFine
<1>3. EndingInv' BY <1>1, <1>2, EndingFrame, RetryKeeps
<1>. QED BY <1>1, <1>3 DEF All

(* Without retries there is no such retry.                                  *)
LEMMA NeverRetried ==
  ASSUME MaxDeaths = 0, All, [Next]_vars PROVE ~RetriesReleased
<1>1. ~RetriesLeft BY DEF All, Inv, DataOK, RetriesLeft
<1>2. Fine \/ Retry BY NextStays, NextFine, StutterFine
<1>. QED BY <1>1, <1>2 DEF Retry, Fine, WorkerMoves, RetriesReleased

(* The invariant behind the refinement: what releases a hold, or returns it *)
(* as unused, leaves no worker that could still sign.                       *)
THEOREM EndingInvariant == CarefulSpec => []All
<1>1. Init => All BY InitInv, InitEndingInv DEF All
<1>2. All /\ [CarefulNext]_vars => All'
  <2>1. CASE UNCHANGED vars
    <3>1. wpc' = wpc BY <2>1 DEF vars, wpc
    <3>. QED BY <2>1, <3>1, StepKeeps DEF RetriesReleased
  <2>. QED BY <2>1, StepKeeps DEF CarefulNext
<1>. QED BY <1>1, <1>2, PTL DEF CarefulSpec

(* However often its worker dies and is retried, a Call implements          *)
(* HoldEnding as long as no retry begins between a posted release and its   *)
(* record: its hold ends once, for a payment that was made or that can no   *)
(* longer be made, and no payment is signed after the hold was given back.  *)
THEOREM EndingRefined == CarefulSpec => ImplementsHoldEnding
<1>1. Init => Ending!Init BY InitEnds
<1>2. All /\ All' /\ [CarefulNext]_vars => [Ending!Next]_<<HoldOf[Kind(ledger)], Payment>>
  BY StepEnds DEF CarefulNext
<1>. QED BY <1>1, <1>2, EndingInvariant, PTL DEF CarefulSpec, ImplementsHoldEnding, Ending!Spec

(* What run paid_reuse refutes for a retried worker holds in every Call     *)
(* without such a retry: a released hold was never at risk on the chain.    *)
THEOREM ReleasedUnsigned == CarefulSpec => []SignedUnderHold
<1>1. All => SignedUnderHold
  <2>. SUFFICES ASSUME All, Kind(ledger) = "release" PROVE chain = "none"
    BY DEF SignedUnderHold
  <2>1. ledger = Release BY BundleKinds, Kinds DEF All, Inv, DataOK
  <2>. QED BY <2>1 DEF All, EndingInv, ReleaseOut
<1>. QED BY <1>1, EndingInvariant, PTL

(* A Call whose worker is not retried implements HoldEnding.                *)
THEOREM EndingOnce == ASSUME MaxDeaths = 0 PROVE Spec => ImplementsHoldEnding
<1>1. Init => All BY InitInv, InitEndingInv DEF All
<1>2. All /\ [Next]_vars => All' /\ [CarefulNext]_vars
  BY NeverRetried, StepKeeps DEF CarefulNext
<1>3. Spec => CarefulSpec BY <1>1, <1>2, PTL DEF Spec, CarefulSpec
<1>. QED BY <1>3, EndingRefined, PTL
=============================================================================
