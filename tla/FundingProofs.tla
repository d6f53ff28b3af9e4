---------------------------- MODULE FundingProofs ----------------------------
(***************************************************************************)
(* What Funding promises of the ledger and of the inbox holds for every    *)
(* number of refunds, disputes, events, attempts and deaths.  A step works *)
(* on one event; what it writes for all of them, the command and the       *)
(* ledger, only goes forward (Progress), so that what is known of every    *)
(* other event stays true.                                                 *)
(***************************************************************************)
EXTENDS Funding, TLAPS

(* What the inbox means by applied. *)
Backed(e) ==
  /\ Kind(e) = "paid" => command.applied /\ Settlement \in ledger
  /\ FullRefund(e) \/ Kind(e) = "lost" => By # None /\ Reversal(By) \in ledger

MoneyInv ==
  /\ command.applied => Settlement \in ledger
  /\ command.state \in {"succeeded", "reversed"} => command.applied
  /\ command.asker = None <=> command.reversal = "none"
  /\ command.asker # None => ~Checkout(command.asker)
  /\ command.state = "reversed" \/ command.reversal = "succeeded" =>
       By # None /\ Reversal(By) \in ledger
  /\ \A b \in ledger \cup wire : b = Settlement \/ (By # None /\ b = Reversal(By))

JobInv(e) ==
  /\ job[e].pc \in {"book", "finalize", "mark"} =>
       IF Checkout(e) THEN job[e].bundle = Settlement
       ELSE By # None /\ job[e].bundle = Reversal(By)
  /\ job[e].pc = "finalize" => job[e].bundle \in ledger

PriorInv(e) ==
  /\ prior[e] = "applied" =>
       IF Checkout(e) THEN command.applied /\ Settlement \in ledger
       ELSE By # None /\ Reversal(By) \in ledger
  /\ prior[e] = "ignored" => ~FullRefund(e) /\ Kind(e) # "lost"

InboxInv(e) ==
  /\ inbox[e] = "applied" => Backed(e)
  /\ inbox[e] = "queued" => job[e].pc # "none"
  /\ e \in conflict => inbox[e] \in {"applied", "ignored", "reconciliation_required"}

EventInv(e) == JobInv(e) /\ PriorInv(e) /\ (e \in Webhooks => InboxInv(e))
Inv == TypeOK /\ MoneyInv /\ \A e \in Events : EventInv(e)

(* What no step undoes, and what a step on one event leaves of the others. *)
Progress ==
  /\ ledger \subseteq ledger'
  /\ command.applied => command'.applied
  /\ command.asker # None => command'.asker = command.asker
Same(d) ==
  /\ job'[d] = job[d] /\ prior'[d] = prior[d]
  /\ d \in Webhooks => inbox'[d] = inbox[d] /\ (d \in conflict' <=> d \in conflict)
Only(e) == \A d \in Events : d # e => Same(d)
Good(e) == TypeOK' /\ MoneyInv' /\ Progress /\ Only(e) /\ EventInv(e)'

USE FundingAssumption, EventsAssumption

LEMMA EventFacts ==
  /\ Webhooks \subseteq Events /\ Return \in Events /\ Return \notin Webhooks
  /\ Events = Webhooks \cup {Return}
  /\ Checkout(Return) /\ Kind(Return) = "return"
  /\ \A e \in Events : ~Checkout(e) => Of(e) \in Refunds \cup Disputes /\ Of(e) # None
  /\ \A e \in Events : FullRefund(e) => ~Checkout(e) /\ Kind(e) # "lost" /\ Kind(e) # "paid"
  /\ \A e \in Events : Kind(e) \in {"paid", "processing", "failed", "return"} => Checkout(e)
  /\ \A e \in Events : Kind(e) \in {"lost", "partial", "unsettled", "opened", "won", "other"}
                         => ~Checkout(e)
<1>1. Return \in Events
  BY DEF Return, Events, Kind, CheckoutKinds, RefundKinds, DisputeKinds, FullRefundKinds
<1>2. Checkout(Return) /\ Kind(Return) = "return"
  BY DEF Return, Kind, Checkout, CheckoutKinds
<1>3. ASSUME NEW e \in Events, ~Checkout(e)
      PROVE Of(e) \in Refunds \cup Disputes /\ Of(e) # None
  <2>1. e \notin CheckoutKinds \X {None}
    BY <1>3 DEF Checkout, Kind
  <2>2. e \in RefundKinds \X Refunds \/ e \in DisputeKinds \X Disputes
    BY <1>3, <2>1 DEF Events
  <2> QED BY <2>2 DEF Of
<1> QED
  BY <1>1, <1>2, <1>3 DEF Webhooks, FullRefund, Checkout, CheckoutKinds, FullRefundKinds

(* What is known of an event survives every step that leaves it alone. *)
LEMMA Stable ==
  ASSUME NEW d \in Events, MoneyInv, EventInv(d), Progress, Same(d)
  PROVE EventInv(d)'
<1>1. By # None => By' = By
  BY DEF Progress, By
<1>2. JobInv(d)'
  BY <1>1 DEF EventInv, JobInv, Progress, Same
<1>3. PriorInv(d)'
  BY <1>1 DEF EventInv, PriorInv, Progress, Same
<1>4. ASSUME d \in Webhooks PROVE InboxInv(d)'
  BY <1>1, <1>4 DEF EventInv, InboxInv, Backed, Progress, Same
<1> QED BY <1>2, <1>3, <1>4 DEF EventInv

LEMMA GoodInv ==
  ASSUME Inv, NEW e \in Events, Good(e) PROVE Inv'
<1>1. ASSUME NEW d \in Events PROVE EventInv(d)'
  <2>1. CASE d = e BY <2>1 DEF Good
  <2>2. CASE d # e BY <2>2, Stable DEF Good, Only, Inv
  <2> QED BY <2>1, <2>2
<1> QED BY <1>1 DEF Inv, Good

Answers == {"applied", "replayed", "ignored", "refused", "retry", "failed"}
LEMMA RowOfFacts ==
  /\ \A a \in Answers : RowOf[a] \in {"applied", "ignored", "reconciliation_required", "failed"}
  /\ \A a \in Answers : RowOf[a] = "applied" => a \in {"applied", "replayed"}
BY DEF RowOf, Answers

InboxType ==
  [Webhooks -> {"none", "queued", "applied", "ignored", "reconciliation_required", "failed"}]

(* A worker's end moves its own job and row only, calls a row applied only  *)
(* by its answer, and leaves no queued row without a worker.                *)
EndFacts(e, a) ==
  /\ job' \in [Events -> Job] /\ job'[e].pc \in {"none", "start"}
  /\ inbox' \in InboxType
  /\ \A d \in Events : d # e => job'[d] = job[d]
  /\ \A d \in Webhooks : d # e => inbox'[d] = inbox[d]
  /\ e \in Webhooks =>
       /\ inbox'[e] = "applied" => inbox[e] = "applied" \/ a \in {"applied", "replayed"}
       /\ inbox'[e] = "queued" => job'[e].pc # "none"
       /\ inbox'[e] = "none" => inbox[e] = "none"
       /\ e \in conflict => inbox'[e] \in {"applied", "ignored", "reconciliation_required"}

LEMMA JobTypes ==
  /\ NoJob \in Job
  /\ \A t \in 0..(MaxTries - 1) : NewJob(t) \in Job
BY DEF NoJob, NewJob, Job

LEMMA AnswerFacts ==
  ASSUME TypeOK, NEW e \in Events, EventInv(e), NEW a \in Answers, Answer(e, a)
  PROVE EndFacts(e, a)
<1>1. job[e] \in Job /\ job[e].try \in 0..(MaxTries - 1)
  BY DEF TypeOK, Job
<1>2. MayRetry(e, a) => NewJob(job[e].try + 1) \in Job
  BY <1>1, JobTypes DEF MayRetry
<1>3. CASE e \notin Webhooks
  <2>1. e = Return BY <1>3, EventFacts
  <2>2. job' = [job EXCEPT ![e] = NoJob] /\ inbox' = inbox
    BY <2>1 DEF Answer
  <2> QED BY <1>3, <2>2, JobTypes DEF EndFacts, TypeOK, InboxType, NoJob
<1>4. CASE e \in Webhooks
  <2>1. e # Return BY <1>4, EventFacts
  <2> DEFINE row == Completed(e, a)
             next == IF MayRetry(e, a) /\ inbox'[e] = "queued"
                     THEN NewJob(job[e].try + 1) ELSE NoJob
  <2>2. inbox' = [inbox EXCEPT ![e] = row]
    BY <2>1 DEF Answer
  <2>3. job' = [job EXCEPT ![e] = next]
    BY <2>1 DEF Answer
  <2>4. inbox \in InboxType /\ job \in [Events -> Job]
    BY DEF TypeOK, InboxType
  <2>5. row \in {inbox[e], RowOf[a]}
    BY DEF Completed
  <2>6. inbox'[e] = row /\ inbox' \in InboxType
    BY <1>4, <2>2, <2>4, <2>5, RowOfFacts DEF InboxType
  <2>7. next \in Job /\ next.pc \in {"none", "start"}
    BY <1>2, JobTypes DEF NoJob, NewJob
  <2>8. job'[e] = next /\ job' \in [Events -> Job]
    BY <2>3, <2>4, <2>7
  <2>9. e \in conflict => row = inbox[e] /\ row # "queued"
    BY <1>4 DEF Completed, EventInv, InboxInv
  <2>10. row = "queued" => next.pc # "none"
    BY <2>6, <2>9, RowOfFacts DEF Completed, NewJob
  <2>11. e \in conflict => row \in {"applied", "ignored", "reconciliation_required"}
    BY <1>4, <2>9 DEF EventInv, InboxInv
  <2>12. row = "applied" => inbox[e] = "applied" \/ a \in {"applied", "replayed"}
    BY <2>5, RowOfFacts
  <2>13. (\A d \in Events : d # e => job'[d] = job[d]) /\ (row = "none" => inbox[e] = "none")
    BY <2>3, <2>4, <2>5, RowOfFacts
  <2>14. \A d \in Webhooks : d # e => inbox'[d] = inbox[d]
    BY <2>2, <2>4 DEF InboxType
  <2> HIDE DEF row, next
  <2> QED BY <2>6, <2>7, <2>8, <2>10, <2>11, <2>12, <2>13, <2>14 DEF EndFacts
<1> QED BY <1>3, <1>4

LEMMA EndsFacts ==
  ASSUME TypeOK, NEW e \in Events, EventInv(e), ~At(e, "none"), NEW a \in Answers, Ends(e, a)
  PROVE EndFacts(e, a) /\ deaths' \in 0..MaxDeaths
<1>1. CASE Answer(e, a) /\ UNCHANGED deaths
  BY <1>1, AnswerFacts DEF TypeOK
<1>2. CASE Dies(e)
  <2>1. deaths' \in 0..MaxDeaths
    BY <1>2 DEF Dies, TypeOK
  <2>2. CASE Answer(e, "failed")
    <3>1. EndFacts(e, "failed")
      BY <2>2, AnswerFacts DEF Answers
    <3> QED BY <2>1, <3>1 DEF EndFacts
  <2>3. CASE /\ e # Return /\ inbox[e] = "queued"
             /\ job' = [job EXCEPT ![e] = NewJob(job[e].try)] /\ UNCHANGED inbox
    <3>1. e \in Webhooks BY <2>3, EventFacts
    <3>2. NewJob(job[e].try) \in Job BY JobTypes DEF TypeOK, Job
    <3>3. NewJob(job[e].try).pc = "start" BY DEF NewJob
    <3>4. inbox \in InboxType /\ job \in [Events -> Job]
      BY DEF TypeOK, InboxType
    <3>5. job'[e] = NewJob(job[e].try) /\ job' \in [Events -> Job]
          /\ \A d \in Events : d # e => job'[d] = job[d]
      BY <2>3, <3>2, <3>4
    <3>6. e \notin conflict
      BY <2>3, <3>1 DEF EventInv, InboxInv
    <3> QED BY <2>1, <2>3, <3>1, <3>3, <3>4, <3>5, <3>6 DEF EndFacts
  <2> QED BY <1>2, <2>2, <2>3 DEF Dies
<1> QED BY <1>1, <1>2 DEF Ends

(* A step that ends a worker is good if what it writes of the rows is.      *)
LEMMA EndsGood ==
  ASSUME Inv, NEW e \in Events, ~At(e, "none"), NEW a \in Answers, Ends(e, a),
         AtWork, UNCHANGED posted,
         command' \in Command,
         prior' \in [Events -> {"none", "received", "applied", "ignored"}],
         case' \in [{"dispute", "partial"} -> {"none", "open", "resolved"}],
         \A d \in Events : d # e => prior'[d] = prior[d],
         MoneyInv', Progress, PriorInv(e)',
         e \in Webhooks /\ a \in {"applied", "replayed"} => Backed(e)'
  PROVE Good(e)
<1>1. EndFacts(e, a) /\ deaths' \in 0..MaxDeaths
  BY EndsFacts DEF Inv
<1>2. TypeOK'
  BY <1>1 DEF Inv, TypeOK, EndFacts, AtWork, stripe, posted, InboxType
<1>3. Only(e)
  BY <1>1 DEF Only, Same, EndFacts, AtWork
<1>4. JobInv(e)'
  BY <1>1 DEF JobInv, EndFacts
<1>5. ASSUME e \in Webhooks PROVE InboxInv(e)'
  <2>1. inbox[e] = "applied" => Backed(e)
    BY <1>5 DEF Inv, EventInv, InboxInv
  <2>2. Backed(e) => Backed(e)'
    BY DEF Backed, Progress, By
  <2>3. conflict' = conflict BY DEF AtWork
  <2> QED BY <1>1, <1>5, <2>1, <2>2, <2>3 DEF InboxInv, EndFacts
<1> QED BY <1>2, <1>3, <1>4, <1>5 DEF Good, EventInv

(* A step that ends a worker and writes no row. *)
LEMMA EndsOnly ==
  ASSUME Inv, NEW e \in Events, ~At(e, "none"), NEW a \in Answers, Ends(e, a),
         AtWork, UNCHANGED <<rows, posted>>,
         e \in Webhooks /\ a \in {"applied", "replayed"} => Backed(e)
  PROVE Good(e)
<1>1. command' = command /\ prior' = prior /\ case' = case /\ ledger' = ledger /\ wire' = wire
  BY DEF rows, posted
<1>2. MoneyInv' /\ Progress
  BY <1>1 DEF Inv, MoneyInv, Progress, By
<1>3. PriorInv(e)'
  BY <1>1 DEF Inv, EventInv, PriorInv, By
<1>4. e \in Webhooks /\ a \in {"applied", "replayed"} => Backed(e)'
  BY <1>1 DEF Backed, By
<1> QED BY <1>1, <1>2, <1>3, <1>4, EndsGood DEF Inv, TypeOK, posted

(* A step that goes on to write the ledger. *)
LEMMA BookGood ==
  ASSUME Inv, NEW e \in Events, At(e, "start"), NEW b \in Bundles, ToBook(e, b),
         AtWork, UNCHANGED posted,
         command' \in Command,
         prior' \in [Events -> {"none", "received", "applied", "ignored"}],
         case' \in [{"dispute", "partial"} -> {"none", "open", "resolved"}],
         \A d \in Events : d # e => prior'[d] = prior[d],
         MoneyInv', Progress, PriorInv(e)',
         IF Checkout(e) THEN b = Settlement ELSE By' # None /\ b = Reversal(By')
  PROVE Good(e)
<1>1. /\ job' \in [Events -> Job] /\ job'[e].pc = "book" /\ job'[e].bundle = b
      /\ \A d \in Events : d # e => job'[d] = job[d]
  <2>1. job[e] \in Job BY DEF Inv, TypeOK
  <2>2. [job[e] EXCEPT !.pc = "book", !.bundle = b] \in Job
    BY <2>1 DEF Job
  <2> QED BY <2>1, <2>2 DEF ToBook, Inv, TypeOK, Job
<1>2. TypeOK'
  BY <1>1 DEF Inv, TypeOK, ToBook, AtWork, stripe, posted
<1>3. Only(e)
  BY <1>1 DEF Only, Same, ToBook, AtWork
<1>4. JobInv(e)'
  BY <1>1 DEF JobInv
<1>5. ASSUME e \in Webhooks PROVE InboxInv(e)'
  <2>1. inbox[e] = "applied" => Backed(e)
    BY <1>5 DEF Inv, EventInv, InboxInv
  <2>2. Backed(e) => Backed(e)'
    BY DEF Backed, Progress, By
  <2>3. conflict' = conflict /\ inbox' = inbox BY DEF AtWork, ToBook
  <2> QED BY <1>1, <1>5, <2>1, <2>2, <2>3 DEF InboxInv, Inv, EventInv
<1> QED BY <1>2, <1>3, <1>4, <1>5 DEF Good, EventInv

(* What a record in moneyStripeEvents changes. *)
LEMMA RecordFacts ==
  ASSUME Inv, NEW e \in Events, NEW s \in {"received", "applied", "ignored"}, Record(e, s)
  PROVE /\ prior' \in [Events -> {"none", "received", "applied", "ignored"}]
        /\ \A d \in Events : d # e => prior'[d] = prior[d]
        /\ prior'[e] = s
BY DEF Record, Inv, TypeOK

LEMMA CaseFacts ==
  ASSUME TypeOK, NEW k \in {"dispute", "partial"}
  PROVE /\ Opened(k) \in [{"dispute", "partial"} -> {"none", "open", "resolved"}]
        /\ Resolved(k) \in [{"dispute", "partial"} -> {"none", "open", "resolved"}]
        /\ case \in [{"dispute", "partial"} -> {"none", "open", "resolved"}]
BY DEF TypeOK, Opened, Resolved

(* A step that leaves the command and the ledger keeps what is known of them. *)
LEMMA MoneyStays ==
  ASSUME Inv, command' = command, UNCHANGED posted
  PROVE MoneyInv' /\ Progress /\ command' \in Command
BY DEF Inv, MoneyInv, Progress, By, posted, TypeOK

(***************************************************************************)
(* The actions.                                                            *)
(***************************************************************************)
LEMMA StepDie ==
  ASSUME Inv, NEW e \in Events, Die(e) PROVE Good(e)
<1>1. Ends(e, "failed") BY DEF Die, Ends
<1> QED BY <1>1, EndsOnly DEF Die, Answers

LEMMA StepStop ==
  ASSUME Inv, NEW e \in Events, Stop(e) \/ Unavailable(e) PROVE Good(e)
<1>1. CASE Stop(e) BY <1>1, EndsOnly DEF Stop, At, Answers
<1>2. CASE Unavailable(e) BY <1>2, EndsOnly DEF Unavailable, At, Answers
<1> QED BY <1>1, <1>2

LEMMA StepPrepareAgain ==
  ASSUME Inv, NEW e \in Events, PrepareAgain(e) PROVE Good(e)
<1> DEFINE a == IF Replays(e) THEN "replayed" ELSE "refused"
<1>1. a \in Answers BY DEF Answers
<1>2. Replays(e) => Backed(e)
  BY EventFacts DEF Replays, Inv, EventInv, PriorInv, Backed
<1>3. Ends(e, a) /\ AtWork /\ UNCHANGED <<rows, posted>> /\ ~At(e, "none")
  BY DEF PrepareAgain, At
<1>4. a \in {"applied", "replayed"} => Backed(e)
  BY <1>2
<1> HIDE DEF a
<1> QED BY <1>1, <1>3, <1>4, EndsOnly

LEMMA StepPrepareUnpaid ==
  ASSUME Inv, NEW e \in Events, PrepareUnpaid(e) PROVE Good(e)
<1>1. ~At(e, "none") /\ Checkout(e) BY EventFacts DEF PrepareUnpaid, Prepares, At
<1>2. command' \in Command /\ MoneyInv' /\ Progress
  <2>1. command' = command \/ command' = [command EXCEPT !.state = "failed"]
    BY DEF PrepareUnpaid
  <2>2. CASE command' = command BY <2>2, MoneyStays DEF PrepareUnpaid
  <2>3. CASE command' = [command EXCEPT !.state = "failed"]
    <3>1. command \in Command BY DEF Inv, TypeOK
    <3>2. /\ command' \in Command /\ command'.state = "failed"
          /\ command'.applied = command.applied /\ command'.asker = command.asker
          /\ command'.reversal = command.reversal
      BY <2>3, <3>1 DEF Command
    <3>3. UNCHANGED posted BY DEF PrepareUnpaid
    <3> QED BY <3>2, <3>3 DEF Inv, MoneyInv, Progress, By, posted
  <2> QED BY <2>1, <2>2, <2>3
<1>3. PriorInv(e)'
  BY <1>1, EventFacts, RecordFacts DEF PrepareUnpaid, PriorInv
<1> QED BY <1>1, <1>2, <1>3, RecordFacts, CaseFacts, EndsGood DEF PrepareUnpaid, Answers, Inv

LEMMA StepPreparePaid ==
  ASSUME Inv, NEW e \in Events, PreparePaid(e) PROVE Good(e)
<1>1. At(e, "start") /\ ~At(e, "none") /\ Checkout(e)
  BY EventFacts DEF PreparePaid, Prepares, At
<1>2. CASE Ends(e, "refused") /\ UNCHANGED prior
  BY <1>1, <1>2, EndsOnly DEF PreparePaid, Answers, rows
<1>3. CASE command.state = "succeeded" /\ Ends(e, "replayed") /\ UNCHANGED prior
  <2>1. Backed(e)
    BY <1>1, <1>3, EventFacts DEF Inv, MoneyInv, Backed
  <2> QED BY <1>1, <1>3, <2>1, EndsOnly DEF PreparePaid, Answers, rows
<1>4. CASE ToBook(e, Settlement) /\ Record(e, "received")
  <2>1. Settlement \in Bundles BY DEF Bundles
  <2>2. PriorInv(e)' BY <1>4, RecordFacts DEF PriorInv
  <2> QED
    BY <1>1, <1>4, <2>1, <2>2, RecordFacts, CaseFacts, MoneyStays, BookGood DEF PreparePaid, Inv
<1> QED BY <1>2, <1>3, <1>4 DEF PreparePaid

LEMMA StepPrepareEarly ==
  ASSUME Inv, NEW e \in Events, PrepareTooEarly(e) \/ PrepareChanged(e) PROVE Good(e)
<1>1. CASE PrepareTooEarly(e)
  BY <1>1, EndsOnly DEF PrepareTooEarly, Prepares, At, Answers
<1>2. CASE PrepareChanged(e)
  BY <1>2, EndsOnly DEF PrepareChanged, Prepares, At, Answers
<1> QED BY <1>1, <1>2

LEMMA StepPrepareIrreversible ==
  ASSUME Inv, NEW e \in Events, PrepareIrreversible(e) PROVE Good(e)
<1> DEFINE a == IF command.state = "reversed" /\ By = Of(e) THEN "replayed" ELSE "refused"
<1>1. a \in Answers BY DEF Answers
<1>2. ~Checkout(e) BY EventFacts DEF PrepareIrreversible
<1>3. command.state = "reversed" => Backed(e)
  BY <1>2, EventFacts DEF Inv, MoneyInv, Backed
<1>4. Ends(e, a) /\ AtWork /\ UNCHANGED <<rows, posted>> /\ ~At(e, "none")
  BY DEF PrepareIrreversible, Prepares, At
<1>5. a \in {"applied", "replayed"} => Backed(e)
  BY <1>3
<1> HIDE DEF a
<1> QED BY <1>1, <1>4, <1>5, EndsOnly

(* The events that are recorded as ignored and touch a case at most. *)
LEMMA StepPrepareIgnored ==
  ASSUME Inv, NEW e \in Events,
         \/ PrepareUnsettled(e) \/ PreparePartial(e) \/ PrepareOpened(e) \/ PrepareWon(e)
  PROVE Good(e)
<1>1. ~At(e, "none")
  BY DEF PrepareUnsettled, PreparePartial, PrepareOpened, PrepareWon, Prepares, At
<1>2. /\ Record(e, "ignored") /\ Ends(e, "ignored") /\ AtWork
      /\ UNCHANGED <<command, posted>>
  BY DEF PrepareUnsettled, PreparePartial, PrepareOpened, PrepareWon
<1>3. case' \in {case, Opened("partial"), Opened("dispute"), Resolved("dispute")}
  BY DEF PrepareUnsettled, PreparePartial, PrepareOpened, PrepareWon
<1>4. ~FullRefund(e) /\ Kind(e) # "lost"
  BY DEF PrepareUnsettled, PreparePartial, PrepareOpened, PrepareWon, FullRefund, FullRefundKinds
<1>5. PriorInv(e)' BY <1>2, <1>4, RecordFacts DEF PriorInv
<1>6. case' \in [{"dispute", "partial"} -> {"none", "open", "resolved"}]
  BY <1>3, CaseFacts DEF Inv
<1> QED BY <1>1, <1>2, <1>5, <1>6, RecordFacts, MoneyStays, EndsGood DEF Answers

(* Asking for the reversal, which nobody did before. *)
LEMMA AskGood ==
  ASSUME Inv, NEW e \in Events, ~Checkout(e), Ask(e), command.state = "succeeded",
         command.asker = None, UNCHANGED posted
  PROVE /\ command' \in Command /\ MoneyInv' /\ Progress
        /\ By' # None /\ By' = Of(e)
<1>1. command \in Command BY DEF Inv, TypeOK
<1>2. e \in Webhooks /\ e # None /\ Of(e) # None BY EventFacts
<1>3. /\ command' \in Command /\ command'.asker = e /\ command'.reversal = "pending"
      /\ command'.state = "succeeded" /\ command'.applied = command.applied
  BY <1>1, <1>2 DEF Ask, Command
<1>4. By' = Of(e)
  BY <1>2, <1>3 DEF By
<1>5. \A b \in ledger \cup wire : b = Settlement
  BY DEF Inv, MoneyInv, By
<1> QED BY <1>2, <1>3, <1>4, <1>5 DEF MoneyInv, Inv, Progress, posted

LEMMA ByFacts ==
  ASSUME Inv
  PROVE /\ command.asker # None => By # None /\ By = Of(command.asker)
        /\ By # None => Reversal(By) \in Bundles /\ By \in Refunds \cup Disputes
        /\ By = None => command.asker = None
<1>1. command.asker # None => command.asker \in Events
  BY EventFacts DEF Inv, TypeOK, Command
<1> QED BY <1>1, EventFacts DEF Inv, MoneyInv, By, Bundles

LEMMA StepPrepareRefund ==
  ASSUME Inv, NEW e \in Events, PrepareRefund(e) PROVE Good(e)
<1>1. At(e, "start") /\ ~At(e, "none") /\ ~Checkout(e)
  BY EventFacts DEF PrepareRefund, Prepares, At
<1>2. command.state = "succeeded" /\ AtWork /\ case' = case /\ UNCHANGED posted
  BY DEF PrepareRefund
<1>3. CASE command.reversal = "succeeded" /\ Ends(e, "replayed") /\ UNCHANGED <<prior, command>>
  <2>1. Backed(e) BY <1>1, <1>3, EventFacts DEF PrepareRefund, Inv, MoneyInv, Backed
  <2> QED BY <1>1, <1>2, <1>3, <2>1, EndsOnly DEF Answers, rows
<1>4. CASE /\ command.reversal \in {"pending", "outcome_unknown"}
           /\ ToBook(e, Booked(e)) /\ UNCHANGED command
           /\ IF By = Of(e) THEN Record(e, "received") ELSE UNCHANGED prior
  <2>1. By # None BY <1>4, ByFacts DEF Inv, MoneyInv
  <2>2. Booked(e) = Reversal(By) /\ Booked(e) \in Bundles
    BY <2>1, ByFacts DEF Booked
  <2>3. By' = By BY <1>4 DEF By
  <2>4. /\ prior' \in [Events -> {"none", "received", "applied", "ignored"}]
        /\ \A d \in Events : d # e => prior'[d] = prior[d]
        /\ PriorInv(e)'
    <3>1. CASE Record(e, "received") BY <3>1, RecordFacts DEF PriorInv
    <3>2. CASE prior' = prior
      BY <1>2, <1>4, <2>3, <3>2 DEF PriorInv, Inv, EventInv, TypeOK, posted
    <3> QED BY <1>4, <3>1, <3>2
  <2> QED
    BY <1>1, <1>2, <1>4, <2>1, <2>2, <2>3, <2>4, CaseFacts, MoneyStays, BookGood DEF Inv
<1>5. CASE /\ command.reversal = "none"
           /\ ToBook(e, Booked(e)) /\ Record(e, "received") /\ Ask(e)
  <2>1. By = None /\ command.asker = None BY <1>5 DEF Inv, MoneyInv, By
  <2>2. Booked(e) = Reversal(Of(e)) /\ Booked(e) \in Bundles
    BY <1>1, <2>1, EventFacts DEF Booked, Bundles
  <2>3. PriorInv(e)' BY <1>5, RecordFacts DEF PriorInv
  <2> QED
    BY <1>1, <1>2, <1>5, <2>1, <2>2, <2>3, AskGood, RecordFacts, CaseFacts, BookGood DEF Inv
<1>6. command.reversal \in {"none", "pending", "outcome_unknown", "succeeded"}
  BY DEF Inv, TypeOK, Command
<1> QED BY <1>3, <1>4, <1>5, <1>6 DEF PrepareRefund

LEMMA StepPrepareLost ==
  ASSUME Inv, NEW e \in Events, PrepareLost(e) PROVE Good(e)
<1>1. At(e, "start") /\ ~At(e, "none") /\ ~Checkout(e)
  BY EventFacts DEF PrepareLost, Prepares, At
<1>2. command.state = "succeeded" /\ AtWork /\ UNCHANGED posted
  BY DEF PrepareLost
<1>3. CASE Ends(e, "refused") /\ UNCHANGED rows
  BY <1>1, <1>2, <1>3, EndsOnly DEF Answers
<1>4. CASE /\ By \in {None, Of(e)} /\ case' = FreezesLost /\ Record(e, "received")
           /\ IF By = None THEN Ask(e) ELSE UNCHANGED command
           /\ ToBook(e, Reversal(Of(e)))
  <2>1. Reversal(Of(e)) \in Bundles BY <1>1, EventFacts DEF Bundles
  <2>2. PriorInv(e)' BY <1>4, RecordFacts DEF PriorInv
  <2>3. case' \in [{"dispute", "partial"} -> {"none", "open", "resolved"}]
    BY <1>4, CaseFacts DEF FreezesLost, Inv
  <2>4. /\ command' \in Command /\ MoneyInv' /\ Progress
        /\ By' # None /\ By' = Of(e)
    <3>1. CASE By = None BY <1>1, <1>2, <1>4, <3>1, ByFacts, AskGood
    <3>2. CASE By # None
      <4>1. By' = By BY <1>4, <3>2 DEF By
      <4> QED BY <1>2, <1>4, <3>2, <4>1, MoneyStays
    <3> QED BY <3>1, <3>2
  <2> QED BY <1>1, <1>2, <1>4, <2>1, <2>2, <2>3, <2>4, RecordFacts, BookGood
<1> QED BY <1>3, <1>4 DEF PrepareLost

(* Writing a bundle of the command to the ledger, or leaving it on its way. *)
LEMMA WriteGood ==
  ASSUME Inv, UNCHANGED command, ledger \subseteq ledger',
         ledger' \subseteq Bundles, wire' \subseteq Bundles,
         NEW b, b = Settlement \/ (By # None /\ b = Reversal(By)),
         ledger' \cup wire' \subseteq ledger \cup wire \cup {b}
  PROVE MoneyInv' /\ Progress
<1>1. By' = By BY DEF By
<1> QED BY <1>1 DEF Inv, MoneyInv, Progress

LEMMA StepWriteAnswer ==
  ASSUME Inv, NEW e \in Events, WriteUnavailable(e) \/ WriteRefused(e) PROVE Good(e)
<1>1. CASE WriteUnavailable(e)
  BY <1>1, EndsOnly DEF WriteUnavailable, Booking, At, Answers, rows, posted
<1>2. CASE WriteRefused(e)
  BY <1>2, EndsOnly DEF WriteRefused, Booking, At, Answers, rows, posted
<1> QED BY <1>1, <1>2

LEMMA StepWrite ==
  ASSUME Inv, NEW e \in Events, WriteCompleted(e) \/ WriteUnknown(e) PROVE Good(e)
<1> DEFINE b == job[e].bundle
<1>1. /\ job[e].pc = "book" /\ AtWork /\ UNCHANGED <<rows, inbox, deaths>>
      /\ ledger' \in {ledger, ledger \cup {b}} /\ wire' \in {wire, wire \cup {b}}
  BY DEF WriteCompleted, WriteUnknown, Booking, At
<1>2. PICK pc \in {"finalize", "mark"} : /\ job' = [job EXCEPT ![e].pc = pc]
                                         /\ pc = "finalize" => b \in ledger'
  BY DEF WriteCompleted, WriteUnknown
<1>3. command' = command /\ prior' = prior /\ case' = case
  BY <1>1 DEF rows
<1>4. IF Checkout(e) THEN b = Settlement ELSE By # None /\ b = Reversal(By)
  BY <1>1 DEF Inv, EventInv, JobInv
<1>5. b \in Bundles
  BY <1>4, ByFacts DEF Bundles
<1>6. /\ ledger \subseteq ledger' /\ ledger' \subseteq Bundles /\ wire' \subseteq Bundles
      /\ ledger' \cup wire' \subseteq ledger \cup wire \cup {b}
  BY <1>1, <1>5 DEF Inv, TypeOK
<1>7. MoneyInv' /\ Progress
  BY <1>3, <1>4, <1>6, WriteGood
<1>8. /\ job' \in [Events -> Job] /\ job'[e].pc = pc /\ job'[e].bundle = b
      /\ \A d \in Events : d # e => job'[d] = job[d]
  <2>1. job[e] \in Job BY DEF Inv, TypeOK
  <2>2. [job[e] EXCEPT !.pc = pc] \in Job BY <2>1 DEF Job
  <2> QED BY <1>2, <2>1, <2>2 DEF Inv, TypeOK, Job
<1>9. TypeOK'
  BY <1>1, <1>3, <1>6, <1>8 DEF Inv, TypeOK, AtWork, stripe
<1>10. Only(e)
  BY <1>1, <1>3, <1>8 DEF Only, Same, AtWork
<1>11. By' = By BY <1>3 DEF By
<1>12. JobInv(e)'
  BY <1>2, <1>4, <1>8, <1>11 DEF JobInv
<1>13. PriorInv(e)'
  BY <1>3, <1>6, <1>11 DEF Inv, EventInv, PriorInv
<1>14. ASSUME e \in Webhooks PROVE InboxInv(e)'
  <2>1. inbox' = inbox /\ conflict' = conflict BY <1>1 DEF AtWork
  <2>2. Backed(e) => Backed(e)' BY <1>3, <1>6, <1>11 DEF Backed
  <2> QED BY <1>2, <1>8, <1>14, <2>1, <2>2 DEF Inv, EventInv, InboxInv
<1> QED BY <1>7, <1>9, <1>10, <1>12, <1>13, <1>14 DEF Good, EventInv

(* Steps that touch no event. *)
LEMMA Elsewhere ==
  ASSUME Inv, TypeOK', MoneyInv', Progress, UNCHANGED <<job, prior, inbox, conflict>>
  PROVE Good(Return)
<1>1. Only(Return) /\ Same(Return) BY DEF Only, Same
<1> QED BY <1>1, EventFacts, Stable DEF Good, Inv

LEMMA StepLateWrite ==
  ASSUME Inv, NEW b \in Bundles, LateWrite(b) PROVE Good(Return)
<1>1. b \in wire /\ ledger' = ledger \cup {b} /\ wire' \subseteq wire /\ command' = command
  BY DEF LateWrite, rows
<1>2. b = Settlement \/ (By # None /\ b = Reversal(By))
  BY <1>1 DEF Inv, MoneyInv
<1>3. TypeOK'
  BY <1>1 DEF Inv, TypeOK, LateWrite, stripe, rows, work
<1>4. MoneyInv' /\ Progress
  BY <1>1, <1>2, WriteGood DEF Inv, TypeOK
<1> QED BY <1>3, <1>4, Elsewhere DEF LateWrite, rows, work

LEMMA StepCredit ==
  ASSUME Inv, NEW e \in Events, CreditApplied(e) \/ CreditReplayed(e) PROVE Good(e)
<1>1. At(e, "finalize") /\ ~At(e, "none") /\ Checkout(e) /\ AtWork /\ UNCHANGED posted
  BY DEF CreditApplied, CreditReplayed, Finalizing, FinalizePc, At
<1>2. Settlement \in ledger
  BY <1>1 DEF Inv, EventInv, JobInv, At
<1>3. ~FullRefund(e) /\ Kind(e) # "lost"
  BY <1>1, EventFacts
<1>4. CASE CreditReplayed(e)
  <2>1. Backed(e) BY <1>2, <1>3, <1>4 DEF CreditReplayed, Inv, MoneyInv, Backed
  <2> QED BY <1>1, <1>4, <2>1, EndsOnly DEF CreditReplayed, Answers
<1>5. CASE CreditApplied(e)
  <2>1. command \in Command BY DEF Inv, TypeOK
  <2>2. /\ command' \in Command /\ command'.state = "succeeded" /\ command'.applied
        /\ command'.asker = command.asker /\ command'.reversal = command.reversal
    BY <1>5, <2>1 DEF CreditApplied, Command
  <2>3. By' = By BY <2>2 DEF By
  <2>4. MoneyInv' /\ Progress
    BY <1>1, <1>2, <2>2, <2>3 DEF Inv, MoneyInv, Progress, posted
  <2>5. PriorInv(e)'
    BY <1>1, <1>2, <1>5, <2>2, RecordFacts DEF CreditApplied, PriorInv, posted
  <2>6. Backed(e)' BY <1>1, <1>2, <1>3, <2>2 DEF Backed, posted
  <2> QED
    BY <1>1, <1>5, <2>2, <2>4, <2>5, <2>6, RecordFacts, CaseFacts, EndsGood
    DEF CreditApplied, Answers, Inv
<1> QED BY <1>4, <1>5

LEMMA StepReversal ==
  ASSUME Inv, NEW e \in Events,
         ReversalApplied(e) \/ ReversalReplayed(e) \/ ReversalRefused(e)
  PROVE Good(e)
<1>1. At(e, "finalize") /\ ~At(e, "none") /\ ~Checkout(e) /\ AtWork /\ UNCHANGED posted
  BY DEF ReversalApplied, ReversalReplayed, ReversalRefused, Finalizing, FinalizePc, At
<1>2. By # None /\ Reversal(By) \in ledger
  BY <1>1 DEF Inv, EventInv, JobInv, At
<1>3. Kind(e) # "paid"
  BY <1>1, EventFacts
<1>4. Unfrozen(e) \in [{"dispute", "partial"} -> {"none", "open", "resolved"}]
  BY CaseFacts DEF Unfrozen, Inv
<1>5. CASE ReversalRefused(e)
  BY <1>1, <1>5, EndsOnly DEF ReversalRefused, Answers
<1>6. CASE ReversalReplayed(e)
  <2>1. Backed(e)' BY <1>1, <1>2, <1>3, <1>6 DEF ReversalReplayed, Backed, By, posted
  <2>2. PriorInv(e)'
    BY <1>1, <1>6 DEF ReversalReplayed, Inv, EventInv, PriorInv, By, posted
  <2> QED
    BY <1>1, <1>4, <1>6, <2>1, <2>2, MoneyStays, EndsGood
    DEF ReversalReplayed, Answers, Inv, TypeOK
<1>7. CASE ReversalApplied(e)
  <2>1. command \in Command BY DEF Inv, TypeOK
  <2>2. /\ command' \in Command /\ command'.state = "reversed"
        /\ command'.reversal = "succeeded"
        /\ command'.asker = command.asker /\ command'.applied = command.applied
    BY <1>7, <2>1 DEF ReversalApplied, Command
  <2>3. By' = By BY <2>2 DEF By
  <2>4. command.applied /\ command.asker # None
    BY <1>2, <1>7 DEF ReversalApplied, MayReverse, Inv, MoneyInv, By
  <2>5. MoneyInv' /\ Progress
    BY <1>1, <1>2, <2>2, <2>3, <2>4 DEF Inv, MoneyInv, Progress, posted
  <2>6. PriorInv(e)'
    BY <1>1, <1>2, <1>7, <2>3, RecordFacts DEF ReversalApplied, PriorInv, posted
  <2>7. Backed(e)' BY <1>1, <1>2, <1>3, <2>3 DEF Backed, posted
  <2> QED
    BY <1>1, <1>4, <1>7, <2>2, <2>5, <2>6, <2>7, RecordFacts, EndsGood
    DEF ReversalApplied, Answers
<1> QED BY <1>5, <1>6, <1>7

LEMMA StepMarkUnknown ==
  ASSUME Inv, NEW e \in Events, MarkUnknown(e) PROVE Good(e)
<1>1. ~At(e, "none") /\ AtWork /\ prior' = prior /\ case' = case /\ UNCHANGED posted
      /\ Ends(e, "retry")
  BY DEF MarkUnknown, At
<1>2. command \in Command BY DEF Inv, TypeOK
<1>3. /\ command' \in Command /\ command'.applied = command.applied
      /\ command'.asker = command.asker
      /\ command'.state \in {command.state, "outcome_unknown"}
      /\ \/ command'.reversal = command.reversal
         \/ command'.reversal = "outcome_unknown" /\ command.asker = e
  BY <1>2 DEF MarkUnknown, Command
<1>4. By' = By BY <1>3 DEF By
<1>5. e # None BY EventsAssumption
<1>6. MoneyInv' /\ Progress
  BY <1>1, <1>3, <1>4, <1>5 DEF Inv, MoneyInv, Progress, posted
<1>7. PriorInv(e)'
  BY <1>1, <1>3, <1>4 DEF Inv, EventInv, PriorInv, posted
<1> QED BY <1>1, <1>3, <1>6, <1>7, CaseFacts, EndsGood DEF Answers, Inv, TypeOK

LEMMA StepIngest ==
  ASSUME Inv, NEW e \in Webhooks, Ingest(e) PROVE Good(e)
<1>1. e \in Events BY EventFacts
<1>2. 0 \in 0..(MaxTries - 1) BY FundingAssumption
<1>3. NewJob(0) \in Job /\ NewJob(0).pc = "start"
  BY <1>2, JobTypes DEF NewJob
<1>4. /\ job' \in [Events -> Job] /\ job'[e].pc = "start" /\ inbox' \in InboxType
      /\ inbox'[e] = "queued"
      /\ \A d \in Events : d # e => job'[d] = job[d]
      /\ \A d \in Webhooks : d # e => inbox'[d] = inbox[d]
  BY <1>1, <1>3 DEF Ingest, Inv, TypeOK, InboxType
<1>5. /\ command' = command /\ prior' = prior /\ case' = case /\ conflict' = conflict
      /\ UNCHANGED posted
  BY DEF Ingest, rows
<1>6. TypeOK'
  BY <1>4, <1>5 DEF Ingest, Inv, TypeOK, InboxType, stripe, posted
<1>7. Only(e) BY <1>4, <1>5 DEF Only, Same
<1>8. e \notin conflict BY <1>1 DEF Ingest, Inv, EventInv, InboxInv
<1>9. JobInv(e)' /\ InboxInv(e)'
  BY <1>4, <1>5, <1>8 DEF JobInv, InboxInv
<1>10. PriorInv(e)' BY <1>1, <1>5 DEF Inv, EventInv, PriorInv, By, posted
<1> QED BY <1>5, <1>6, <1>7, <1>9, <1>10, MoneyStays DEF Good, EventInv

LEMMA StepConflict ==
  ASSUME Inv, NEW e \in Webhooks, IngestConflict(e) PROVE Good(e)
<1>1. e \in Events BY EventFacts
<1>2. /\ inbox' \in InboxType
      /\ inbox'[e] \in {"applied", "ignored", "reconciliation_required"}
      /\ inbox'[e] = "applied" => inbox[e] = "applied"
      /\ \A d \in Webhooks : d # e => inbox'[d] = inbox[d]
      /\ conflict' = conflict \cup {e}
  BY DEF IngestConflict, Inv, TypeOK, InboxType
<1>3. /\ command' = command /\ prior' = prior /\ case' = case /\ job' = job
      /\ UNCHANGED posted
  BY DEF IngestConflict, rows
<1>4. TypeOK'
  BY <1>2, <1>3 DEF IngestConflict, Inv, TypeOK, InboxType, stripe, posted
<1>5. Only(e) BY <1>2, <1>3 DEF Only, Same
<1>6. JobInv(e)' /\ PriorInv(e)'
  BY <1>1, <1>3 DEF Inv, EventInv, JobInv, PriorInv, By, posted
<1>7. Backed(e) => Backed(e)' BY <1>3 DEF Backed, By, posted
<1>8. InboxInv(e)'
  BY <1>1, <1>2, <1>7 DEF Inv, EventInv, InboxInv
<1> QED BY <1>3, <1>4, <1>5, <1>6, <1>8, MoneyStays DEF Good, EventInv

LEMMA StepReturn ==
  ASSUME Inv, CustomerReturns PROVE Good(Return)
<1>1. 0 \in 0..(MaxTries - 1) BY FundingAssumption
<1>2. NewJob(0) \in Job /\ NewJob(0).pc = "start"
  BY <1>1, JobTypes DEF NewJob
<1>3. Return \in Events /\ Return \notin Webhooks BY EventFacts
<1>4. /\ job' \in [Events -> Job] /\ job'[Return].pc = "start"
      /\ \A d \in Events : d # Return => job'[d] = job[d]
  BY <1>2, <1>3 DEF CustomerReturns, Inv, TypeOK
<1>5. /\ command' = command /\ prior' = prior /\ case' = case /\ conflict' = conflict
      /\ inbox' = inbox /\ UNCHANGED posted
  BY DEF CustomerReturns, rows
<1>6. TypeOK'
  BY <1>4, <1>5 DEF CustomerReturns, Inv, TypeOK, stripe, posted
<1>7. Only(Return) BY <1>4, <1>5 DEF Only, Same
<1>8. JobInv(Return)' BY <1>4 DEF JobInv
<1>9. PriorInv(Return)' BY <1>3, <1>5 DEF Inv, EventInv, PriorInv, By, posted
<1> QED BY <1>3, <1>5, <1>6, <1>7, <1>8, <1>9, MoneyStays DEF Good, EventInv

LEMMA StepOthers ==
  ASSUME Inv, CheckoutEnds \/ OwnerMarksUnknown \/ OwnerResolves PROVE Good(Return)
<1>1. UNCHANGED <<job, prior, inbox, conflict>> /\ UNCHANGED <<posted, deaths>>
  BY DEF CheckoutEnds, OwnerMarksUnknown, OwnerResolves, rows, work
<1>2. CASE CheckoutEnds
  BY <1>1, <1>2, MoneyStays, Elsewhere DEF CheckoutEnds, Inv, TypeOK, rows, posted
<1>3. CASE OwnerMarksUnknown
  <2>1. command \in Command BY DEF Inv, TypeOK
  <2>2. /\ command' \in Command /\ command'.state = "outcome_unknown"
        /\ command'.applied = command.applied /\ command'.asker = command.asker
        /\ command'.reversal = command.reversal
    BY <1>3, <2>1 DEF OwnerMarksUnknown, Command
  <2>3. MoneyInv' /\ Progress
    BY <1>1, <2>2 DEF Inv, MoneyInv, Progress, By, posted
  <2> QED BY <1>1, <1>3, <2>2, <2>3, Elsewhere DEF OwnerMarksUnknown, Inv, TypeOK, stripe, posted
<1>4. CASE OwnerResolves
  <2>1. case' \in [{"dispute", "partial"} -> {"none", "open", "resolved"}]
    BY <1>4, CaseFacts DEF OwnerResolves, Inv
  <2> QED
    BY <1>1, <1>4, <2>1, MoneyStays, Elsewhere DEF OwnerResolves, Inv, TypeOK, stripe, posted
<1> QED BY <1>2, <1>3, <1>4

(***************************************************************************)
(* The theorems.                                                           *)
(***************************************************************************)
LEMMA InitInv == Init => Inv
<1> SUFFICES ASSUME Init PROVE Inv OBVIOUS
<1>1. NoJob \in Job /\ NoJob.pc = "none" BY JobTypes DEF NoJob
<1>2. TypeOK BY <1>1 DEF Init, TypeOK, Command, Outcomes
<1>3. MoneyInv BY DEF Init, MoneyInv
<1>4. ASSUME NEW e \in Events PROVE EventInv(e)
  BY <1>1 DEF Init, EventInv, JobInv, PriorInv, InboxInv
<1> QED BY <1>2, <1>3, <1>4 DEF Inv

LEMMA PrepareGood ==
  ASSUME Inv, NEW e \in Events, Prepare(e) PROVE Good(e)
BY StepPrepareAgain, StepPrepareUnpaid, StepPreparePaid, StepPrepareEarly,
   StepPrepareIrreversible, StepPrepareIgnored, StepPrepareRefund, StepPrepareLost
DEF Prepare

LEMMA WorksGood ==
  ASSUME Inv, NEW e \in Events, Works(e) PROVE Good(e)
BY StepStop, PrepareGood, StepWrite, StepWriteAnswer, StepCredit, StepReversal,
   StepMarkUnknown
DEF Works

LEMMA NextInv == Inv /\ [Next]_vars => Inv'
<1> SUFFICES ASSUME Inv, [Next]_vars PROVE Inv' OBVIOUS
<1>1. CASE Next
  <2>1. ASSUME NEW e \in Webhooks, Ingest(e) \/ IngestConflict(e) PROVE Inv'
    BY <2>1, EventFacts, StepIngest, StepConflict, GoodInv
  <2>2. ASSUME CheckoutEnds \/ CustomerReturns \/ OwnerMarksUnknown \/ OwnerResolves
        PROVE Inv'
    BY <2>2, EventFacts, StepReturn, StepOthers, GoodInv
  <2>3. ASSUME NEW e \in Events, Works(e) \/ Die(e) PROVE Inv'
    BY <2>3, WorksGood, StepDie, GoodInv
  <2>4. ASSUME NEW b \in Bundles, LateWrite(b) PROVE Inv'
    BY <2>4, EventFacts, StepLateWrite, GoodInv
  <2> QED BY <1>1, <2>1, <2>2, <2>3, <2>4 DEF Next
<1>2. CASE UNCHANGED vars
  BY <1>2 DEF vars, stripe, rows, posted, work, Inv, TypeOK, MoneyInv, EventInv, JobInv,
              PriorInv, InboxInv, Backed, By
<1> QED BY <1>1, <1>2

LEMMA SpecInv == Spec => []Inv
BY InitInv, NextInv, PTL DEF Spec

(* The state the code can be in (Funding.TypeOK). *)
THEOREM Typed == Spec => []TypeOK
<1>1. Inv => TypeOK BY DEF Inv
<1> QED BY <1>1, SpecInv, PTL

(* However many refunds and disputes race, one reversal of a top-up is      *)
(* written at most (reversalRefundId in stripeRefundPipeline.ts).           *)
THEOREM OneReversal == Spec => []ReversedOnce
<1>1. Inv => ReversedOnce
  <2> SUFFICES ASSUME Inv, NEW x \in Refunds \cup Disputes, NEW y \in Refunds \cup Disputes,
                      {Reversal(x), Reversal(y)} \subseteq ledger \cup wire
               PROVE x = y
    BY DEF ReversedOnce
  <2>1. Reversal(x) # Settlement /\ Reversal(y) # Settlement
    BY DEF Reversal, Settlement
  <2>2. Reversal(x) = Reversal(By) /\ Reversal(y) = Reversal(By)
    BY <2>1 DEF Inv, MoneyInv
  <2> QED BY <2>2 DEF Reversal
<1> QED BY <1>1, SpecInv, PTL

(* A command that says succeeded or reversed says what the ledger did       *)
(* (finalizeFundingEventHandler, finalizeFundingReversal).                  *)
THEOREM CommandBacked == Spec => []RowBacked
<1>1. Inv => RowBacked BY DEF Inv, MoneyInv, RowBacked
<1> QED BY <1>1, SpecInv, PTL

(* What the inbox calls applied is in the ledger, after every retry, death, *)
(* conflict and redelivery (moneyStripeWebhookInbox.complete).              *)
THEOREM InboxBacked == Spec => []AppliedIsBooked
<1>1. Inv => AppliedIsBooked
  <2> SUFFICES ASSUME Inv, NEW e \in Webhooks, inbox[e] = "applied"
               PROVE /\ Kind(e) = "paid" => command.applied /\ Settlement \in ledger
                     /\ FullRefund(e) \/ Kind(e) = "lost" =>
                          \E x \in Refunds \cup Disputes : Reversal(x) \in ledger
    BY DEF AppliedIsBooked
  <2>1. Backed(e) BY EventFacts DEF Inv, EventInv, InboxInv
  <2> QED BY <2>1, ByFacts DEF Backed
<1> QED BY <1>1, SpecInv, PTL

(* A queued event has a worker or a scheduled one, whatever dies            *)
(* (enqueueProcess, requeue, complete).                                     *)
THEOREM QueuedIsWorked == Spec => []NoneForgotten
<1>1. Inv => NoneForgotten
  BY EventFacts DEF Inv, EventInv, InboxInv, NoneForgotten
<1> QED BY <1>1, SpecInv, PTL

(***************************************************************************)
(* The freeze of a lost dispute.  The loss is received only after the      *)
(* Account is frozen, and its dispute is then the one that reverses the    *)
(* credit.  The case is resolved only for a dispute whose victory was      *)
(* recorded or whose credit is reversed; of one dispute, that is enough.   *)
(***************************************************************************)
Told(e) == Kind(e) \in {"won", "lost", "other"} => outcome[Of(e)] = Kind(e)
Heard(e) ==
  /\ job[e].pc # "none" \/ prior[e] # "none" => inbox[e] # "none"
  /\ inbox[e] # "none" => Told(e)
(* A victory in a dispute was recorded. *)
Victory(e) == Kind(e) = "won" /\ prior[e] = "ignored"
SomeVictory == \E f \in Webhooks : Victory(f)
CaseInv ==
  case["dispute"] = "resolved" =>
    SomeVictory \/ (By # None /\ Reversal(By) \in ledger)
LossInv(e) ==
  Kind(e) = "lost" /\ prior[e] = "received" =>
    /\ By = Of(e)
    /\ case["dispute"] = "open" \/ Reversal(Of(e)) \in ledger \/ SomeVictory
FreezeInv == (\A e \in Webhooks : Heard(e) /\ LossInv(e)) /\ CaseInv

(* Once its loss is received, a lost dispute keeps the Account frozen until *)
(* the credit is reversed, or another dispute of the payment is won: the    *)
(* disputes share one case (prepareFundingDisputeEvent).                    *)
FrozenUnlessWon ==
  \A e \in Webhooks :
    Kind(e) = "lost" /\ prior[e] = "received" =>
      \/ case["dispute"] = "open"
      \/ Reversal(Of(e)) \in ledger
      \/ \E f \in Webhooks : Victory(f) /\ Of(f) # Of(e)

(* What a step on one event does to the inbox, the records and the case.    *)
Closes(e) ==
  \/ Kind(e) = "won" /\ prior'[e] = "ignored"
  \/ By = Of(e) /\ Reversal(Of(e)) \in ledger
Shape(e) ==
  /\ outcome' = outcome
  /\ \A d \in Webhooks : inbox'[d] = "none" => inbox[d] = "none"
  /\ e \in Webhooks /\ (job'[e].pc # "none" \/ prior'[e] # prior[e]) =>
       job[e].pc # "none" \/ inbox'[e] # "none"
  /\ e \in Webhooks /\ job[e].pc = "none" /\ inbox[e] = "none" /\ inbox'[e] # "none" => Told(e)
  /\ \/ case'["dispute"] = case["dispute"]
     \/ case["dispute"] = "none" /\ case'["dispute"] = "open"
     \/ e \in Webhooks /\ Closes(e)
  /\ prior[e] = "ignored" => prior'[e] = "ignored"
  /\ Kind(e) = "lost" /\ prior'[e] = "received" =>
       prior[e] = "received" \/ (case' = Opened("dispute") /\ By' = Of(e))

LEMMA DisputeEvents ==
  \A e \in Events : Kind(e) \in DisputeKinds => Of(e) \in Disputes /\ e \in Webhooks
<1> SUFFICES ASSUME NEW e \in Events, Kind(e) \in DisputeKinds
             PROVE Of(e) \in Disputes /\ e \in Webhooks
  OBVIOUS
<1>1. e \in CheckoutKinds \X {None} \cup RefundKinds \X Refunds \cup DisputeKinds \X Disputes
  BY DEF Events
<1>2. e \in DisputeKinds \X Disputes
  BY <1>1 DEF Kind, CheckoutKinds, RefundKinds, FullRefundKinds, DisputeKinds
<1> QED BY <1>2, EventFacts DEF Of, Kind, DisputeKinds

LEMMA ShapeFreeze ==
  ASSUME Inv, Inv', FreezeInv, NEW e \in Events, Shape(e), Only(e), Progress
  PROVE FreezeInv'
<1>1. outcome' = outcome /\ ledger \subseteq ledger'
  BY DEF Shape, Progress
<1>2. By # None => By' = By
  BY DEF Progress, By
<1>3. ASSUME NEW d \in Webhooks PROVE Heard(d)'
  <2>1. d \in Events /\ Heard(d) BY EventFacts DEF FreezeInv
  <2>2. Told(d)' <=> Told(d) BY <1>1 DEF Told
  <2>3. inbox'[d] = "none" => inbox[d] = "none" BY DEF Shape
  <2>4. CASE d # e
    BY <2>1, <2>2, <2>3, <2>4 DEF Only, Same, Heard
  <2>5. CASE d = e
    BY <2>1, <2>2, <2>3, <2>5 DEF Shape, Heard
  <2> QED BY <2>4, <2>5
<1>4. SomeVictory => SomeVictory'
  <2>1. ASSUME NEW f \in Webhooks, Victory(f) PROVE Victory(f)'
    BY <2>1, EventFacts DEF Victory, Only, Same, Shape
  <2> QED BY <2>1 DEF SomeVictory
<1>5. e \in Webhooks /\ Closes(e) => SomeVictory' \/ (By = Of(e) /\ Reversal(Of(e)) \in ledger)
  BY DEF Closes, SomeVictory, Victory
<1>6. e \in Webhooks /\ By = Of(e) /\ Reversal(Of(e)) \in ledger =>
        By # None /\ Reversal(By) \in ledger
  <2>1. ASSUME By = Of(e), Reversal(Of(e)) \in ledger PROVE By # None
    <3>1. Reversal(Of(e)) # Settlement BY DEF Reversal, Settlement
    <3> QED BY <2>1, <3>1 DEF Inv, MoneyInv
  <2> QED BY <2>1
<1>7. CaseInv'
  <2>1. CASE case'["dispute"] \in {case["dispute"], "open"}
    BY <1>1, <1>2, <1>4, <2>1 DEF CaseInv, FreezeInv
  <2>2. CASE e \in Webhooks /\ Closes(e)
    BY <1>1, <1>2, <1>5, <1>6, <2>2 DEF CaseInv
  <2> QED BY <2>1, <2>2 DEF Shape
<1>8. ASSUME NEW d \in Webhooks PROVE LossInv(d)'
  <2> SUFFICES ASSUME Kind(d) = "lost", prior'[d] = "received"
               PROVE /\ By' = Of(d)
                     /\ \/ case'["dispute"] = "open"
                        \/ Reversal(Of(d)) \in ledger'
                        \/ SomeVictory'
    BY DEF LossInv
  <2>1. Of(d) # None /\ d \in Events
    BY EventFacts
  <2>2. CASE prior[d] = "received"
    <3>1. /\ By = Of(d)
          /\ case["dispute"] = "open" \/ Reversal(Of(d)) \in ledger \/ SomeVictory
      BY <2>2 DEF FreezeInv, LossInv
    <3>2. By' = Of(d) BY <1>2, <2>1, <3>1
    <3>3. CASE case'["dispute"] \in {case["dispute"], "open"}
      BY <1>1, <1>4, <3>1, <3>2, <3>3
    <3>4. CASE e \in Webhooks /\ Closes(e)
      BY <1>1, <1>5, <3>1, <3>2, <3>4
    <3> QED BY <3>3, <3>4 DEF Shape
  <2>3. CASE prior[d] # "received"
    <3>1. d = e BY <2>1, <2>3 DEF Only, Same
    <3>2. case' = Opened("dispute") /\ By' = Of(d) BY <2>3, <3>1 DEF Shape
    <3>3. case["dispute"] \in {"none", "open", "resolved"} /\ "dispute" \in DOMAIN case
      BY DEF Inv, TypeOK
    <3>4. case'["dispute"] = "open" \/ case["dispute"] = "resolved"
      BY <3>2, <3>3 DEF Opened
    <3>5. CASE case["dispute"] = "resolved"
      BY <1>1, <1>2, <1>4, <3>2, <3>5 DEF FreezeInv, CaseInv
    <3> QED BY <3>2, <3>4, <3>5
  <2> QED BY <2>2, <2>3
<1> QED BY <1>3, <1>7, <1>8 DEF FreezeInv

(* A worker's step has the shape if its case and its record have it.        *)
CaseShape(e) ==
  \/ case' = case
  \/ case["dispute"] = "none" /\ case'["dispute"] = "open"
  \/ case'["dispute"] = case["dispute"]
  \/ e \in Webhooks /\ Closes(e)
RecordShape(e) ==
  \/ prior' = prior
  \/ /\ prior[e] # "ignored"
     /\ \/ Kind(e) # "lost" \/ prior'[e] # "received"
        \/ case' = Opened("dispute") /\ By' = Of(e)
LEMMA WorkShape ==
  ASSUME Inv, NEW e \in Events, ~At(e, "none"), AtWork,
         \A d \in Webhooks : inbox'[d] = "none" => inbox[d] = "none",
         CaseShape(e), RecordShape(e)
  PROVE Shape(e)
BY DEF Shape, At, AtWork, stripe, CaseShape, RecordShape

LEMMA EndsShape ==
  ASSUME Inv, NEW e \in Events, ~At(e, "none"), NEW a \in Answers, Ends(e, a), AtWork,
         CaseShape(e), RecordShape(e)
  PROVE Shape(e)
<1>1. EndFacts(e, a) BY EndsFacts DEF Inv
<1>2. \A d \in Webhooks : inbox'[d] = "none" => inbox[d] = "none"
  BY <1>1 DEF EndFacts
<1> QED BY <1>2, WorkShape

LEMMA OpenedShape ==
  ASSUME Inv
  PROVE /\ case' = Opened("partial") => case'["dispute"] = case["dispute"]
        /\ case' = Opened("dispute") =>
             case'["dispute"] = case["dispute"]
             \/ (case["dispute"] = "none" /\ case'["dispute"] = "open")
BY DEF Inv, TypeOK, Opened

LEMMA PrepareShape ==
  ASSUME Inv, NEW e \in Events, Prepare(e) PROVE Shape(e)
<1>0. ~At(e, "none")
  BY DEF Prepare, PrepareAgain, PrepareUnpaid, PreparePaid, PrepareTooEarly, PrepareChanged,
         PrepareIrreversible, PrepareUnsettled, PreparePartial, PrepareRefund, PrepareOpened,
         PrepareWon, PrepareLost, Prepares, At
<1> USE DEF CaseShape, RecordShape, rows
<1>a. Prepares(e) => prior[e] # "ignored"
  BY DEF Prepares
<1>1. CASE PrepareAgain(e)
  <2>1. PICK a \in Answers : Ends(e, a) BY <1>1 DEF PrepareAgain, Answers
  <2> QED BY <1>0, <1>1, <2>1, EndsShape DEF PrepareAgain
<1>2. CASE PrepareUnpaid(e)
  <2>1. prior'[e] = "ignored" BY <1>2, RecordFacts DEF PrepareUnpaid
  <2> QED BY <1>0, <1>a, <1>2, <2>1, EndsShape DEF PrepareUnpaid, Answers
<1>3. CASE PreparePaid(e)
  <2>1. CASE \E a \in {"refused", "replayed"} : Ends(e, a)
    BY <1>0, <1>a, <1>3, <2>1, EndsShape DEF PreparePaid, Answers
  <2>2. CASE ToBook(e, Settlement)
    BY <1>0, <1>a, <1>3, <2>2, EventFacts, WorkShape DEF PreparePaid, ToBook
  <2> QED BY <1>3, <2>1, <2>2 DEF PreparePaid
<1>4. CASE PrepareTooEarly(e)
  BY <1>0, <1>4, EndsShape DEF PrepareTooEarly, Answers
<1>5. CASE PrepareChanged(e)
  BY <1>0, <1>5, EndsShape DEF PrepareChanged, Answers
<1>6. CASE PrepareIrreversible(e)
  <2>1. PICK a \in Answers : Ends(e, a) BY <1>6 DEF PrepareIrreversible, Answers
  <2> QED BY <1>0, <1>6, <2>1, EndsShape DEF PrepareIrreversible
<1>7. CASE PrepareUnsettled(e)
  <2>1. prior'[e] = "ignored" BY <1>7, RecordFacts DEF PrepareUnsettled
  <2> QED BY <1>0, <1>a, <1>7, <2>1, EndsShape DEF PrepareUnsettled, Answers
<1>8. CASE PreparePartial(e)
  <2>1. prior'[e] = "ignored" BY <1>8, RecordFacts DEF PreparePartial
  <2> QED BY <1>0, <1>a, <1>8, <2>1, OpenedShape, EndsShape DEF PreparePartial, Answers
<1>9. CASE PrepareRefund(e)
  <2>1. Kind(e) # "lost" BY <1>9, EventFacts DEF PrepareRefund
  <2>2. CASE Ends(e, "replayed")
    BY <1>0, <1>a, <1>9, <2>1, <2>2, EndsShape DEF PrepareRefund, Answers
  <2>3. CASE ToBook(e, Booked(e))
    BY <1>0, <1>a, <1>9, <2>1, <2>3, WorkShape DEF PrepareRefund, ToBook
  <2> QED BY <1>9, <2>2, <2>3 DEF PrepareRefund
<1>10. CASE PrepareOpened(e)
  <2>1. prior'[e] = "ignored" BY <1>10, RecordFacts DEF PrepareOpened
  <2> QED BY <1>0, <1>a, <1>10, <2>1, OpenedShape, EndsShape DEF PrepareOpened, Answers
<1>11. CASE PrepareWon(e)
  <2>1. prior'[e] = "ignored" BY <1>11, RecordFacts DEF PrepareWon
  <2>2. e \in Webhooks /\ Closes(e)
    BY <1>11, <2>1, DisputeEvents DEF PrepareWon, Closes, DisputeKinds
  <2> QED BY <1>0, <1>a, <1>11, <2>1, <2>2, EndsShape DEF PrepareWon, Answers
<1>12. CASE PrepareLost(e)
  <2>1. CASE Ends(e, "refused") /\ UNCHANGED rows
    BY <1>0, <1>12, <2>1, EndsShape DEF PrepareLost, Answers
  <2>2. CASE /\ By \in {None, Of(e)} /\ case' = FreezesLost /\ ToBook(e, Reversal(Of(e)))
             /\ IF By = None THEN Ask(e) ELSE UNCHANGED command
    <3>1. By' = Of(e)
      <4>1. CASE By = None
        BY <1>12, <2>2, <4>1, ByFacts, AskGood, EventFacts DEF PrepareLost
      <4>2. CASE By # None BY <2>2, <4>2 DEF By
      <4> QED BY <4>1, <4>2
    <3> QED
      BY <1>0, <1>a, <1>12, <2>2, <3>1, OpenedShape, WorkShape
      DEF PrepareLost, ToBook, FreezesLost
  <2> QED BY <1>12, <2>1, <2>2 DEF PrepareLost
<1> QED
  BY <1>1, <1>2, <1>3, <1>4, <1>5, <1>6, <1>7, <1>8, <1>9, <1>10, <1>11, <1>12 DEF Prepare

LEMMA FinalizeShape ==
  ASSUME Inv, NEW e \in Events,
         \/ CreditApplied(e) \/ CreditReplayed(e)
         \/ ReversalApplied(e) \/ ReversalReplayed(e) \/ ReversalRefused(e)
  PROVE Shape(e)
<1>1. ~At(e, "none") /\ AtWork
  BY DEF CreditApplied, CreditReplayed, ReversalApplied, ReversalReplayed, ReversalRefused,
         Finalizing, FinalizePc, At
<1>2. PICK a \in Answers : Ends(e, a)
  BY DEF CreditApplied, CreditReplayed, ReversalApplied, ReversalReplayed, ReversalRefused,
         Answers
<1>3. RecordShape(e)
  <2>1. (prior[e] = "received" /\ Record(e, "applied")) \/ prior' = prior
    BY DEF CreditApplied, CreditReplayed, ReversalApplied, ReversalReplayed, ReversalRefused,
           MayReverse, rows
  <2> QED BY <2>1, RecordFacts DEF RecordShape
<1>4. CaseShape(e)
  <2>1. CASE case' = case BY <2>1 DEF CaseShape
  <2>2. CASE ReversalApplied(e) \/ ReversalReplayed(e)
    <3>1. At(e, "finalize") /\ ~Checkout(e) /\ By = Of(e) /\ case' = Unfrozen(e)
      BY <2>2 DEF ReversalApplied, ReversalReplayed, MayReverse, HasReversed, Finalizing,
                  FinalizePc, At
    <3>2. Reversal(Of(e)) \in ledger
      BY <3>1 DEF Inv, EventInv, JobInv, At
    <3>3. CASE Kind(e) = "lost"
      BY <3>1, <3>2, <3>3, DisputeEvents DEF CaseShape, Closes, DisputeKinds
    <3>4. CASE Kind(e) # "lost"
      BY <3>1, <3>4 DEF Unfrozen, CaseShape
    <3> QED BY <3>3, <3>4
  <2> QED BY <2>1, <2>2 DEF CreditApplied, CreditReplayed, ReversalRefused, rows
<1> QED BY <1>1, <1>2, <1>3, <1>4, EndsShape

LEMMA WorksShape ==
  ASSUME Inv, NEW e \in Events, Works(e) \/ Die(e) PROVE Shape(e)
<1> USE DEF CaseShape, RecordShape, rows
<1>1. CASE Stop(e)
  BY <1>1, EndsShape DEF Stop, At, Answers
<1>2. CASE Unavailable(e)
  BY <1>2, EndsShape DEF Unavailable, At, Answers
<1>3. CASE WriteCompleted(e) \/ WriteUnknown(e)
  BY <1>3, WorkShape DEF WriteCompleted, WriteUnknown, Booking, At
<1>4. CASE WriteUnavailable(e)
  BY <1>4, EndsShape DEF WriteUnavailable, Booking, At, Answers
<1>5. CASE WriteRefused(e)
  BY <1>5, EndsShape DEF WriteRefused, Booking, At, Answers
<1>6. CASE MarkUnknown(e)
  BY <1>6, EndsShape DEF MarkUnknown, At, Answers
<1>7. CASE Die(e)
  <2>1. Ends(e, "failed") BY <1>7 DEF Die, Ends
  <2> QED BY <1>7, <2>1, EndsShape DEF Die, Answers
<1> QED
  BY <1>1, <1>2, <1>3, <1>4, <1>5, <1>6, <1>7, PrepareShape, FinalizeShape DEF Works

LEMMA InboxShape ==
  ASSUME Inv, NEW e \in Webhooks, Ingest(e) \/ IngestConflict(e) PROVE Shape(e)
<1>1. /\ outcome' = outcome /\ prior' = prior /\ case' = case
      /\ \A d \in Webhooks : inbox'[d] = "none" => inbox[d] = "none"
      /\ inbox'[e] # "none"
  BY DEF Ingest, IngestConflict, stripe, rows, Inv, TypeOK
<1>2. inbox[e] = "none" => Told(e)
  <2>1. Ingest(e) => Emitted(e) BY DEF Ingest
  <2>2. Emitted(e) => Told(e)
    BY DEF Emitted, Told, FullRefund, FullRefundKinds
  <2> QED BY <2>1, <2>2 DEF IngestConflict
<1> QED BY <1>1, <1>2 DEF Shape

LEMMA OtherShape ==
  ASSUME Inv,
         \/ CheckoutEnds \/ CustomerReturns \/ OwnerMarksUnknown \/ OwnerResolves
         \/ \E b \in Bundles : LateWrite(b)
  PROVE Shape(Return)
<1>1. /\ outcome' = outcome /\ prior' = prior /\ inbox' = inbox
      /\ case' \in {case, Resolved("partial")}
  BY DEF CheckoutEnds, CustomerReturns, OwnerMarksUnknown, OwnerResolves, LateWrite,
         stripe, rows, work
<1>2. case'["dispute"] = case["dispute"]
  BY <1>1 DEF Resolved, Inv, TypeOK
<1> QED BY <1>1, <1>2, EventFacts DEF Shape

LEMMA NextFreeze ==
  ASSUME Inv, Inv', FreezeInv, [Next]_vars
  PROVE FreezeInv'
<1>1. ASSUME NEW e \in Events, Good(e), Shape(e) PROVE FreezeInv'
  BY <1>1, ShapeFreeze DEF Good
<1>2. CASE Next
  <2>1. ASSUME NEW e \in Webhooks, Ingest(e) \/ IngestConflict(e) PROVE FreezeInv'
    BY <1>1, <2>1, EventFacts, StepIngest, StepConflict, InboxShape
  <2>2. ASSUME CheckoutEnds \/ CustomerReturns \/ OwnerMarksUnknown \/ OwnerResolves
        PROVE FreezeInv'
    BY <1>1, <2>2, EventFacts, StepReturn, StepOthers, OtherShape
  <2>3. ASSUME NEW e \in Events, Works(e) \/ Die(e) PROVE FreezeInv'
    BY <1>1, <2>3, WorksGood, StepDie, WorksShape
  <2>4. ASSUME NEW b \in Bundles, LateWrite(b) PROVE FreezeInv'
    BY <1>1, <2>4, EventFacts, StepLateWrite, OtherShape
  <2> QED BY <1>2, <2>1, <2>2, <2>3, <2>4 DEF Next
<1>3. CASE UNCHANGED vars
  BY <1>3 DEF vars, stripe, rows, posted, work, FreezeInv, Heard, Told, CaseInv,
              LossInv, SomeVictory, Victory, By
<1> QED BY <1>2, <1>3

LEMMA InitFreeze == Init => FreezeInv
BY EventFacts DEF Init, FreezeInv, Heard, CaseInv, LossInv, NoJob

LEMMA SpecFreeze == Spec => [](Inv /\ FreezeInv)
<1>1. Inv /\ Inv' /\ FreezeInv /\ [Next]_vars => FreezeInv'
  BY NextFreeze
<1> QED BY <1>1, SpecInv, InitFreeze, PTL DEF Spec

(* A received loss keeps the Account frozen until the credit is reversed,   *)
(* in whatever order the events of however many disputes come, unless       *)
(* another of them is won (prepareFundingDisputeEvent).                     *)
THEOREM LossFrozenUnlessWon == Spec => []FrozenUnlessWon
<1>1. Inv /\ FreezeInv => FrozenUnlessWon
  <2> SUFFICES ASSUME Inv, FreezeInv, NEW e \in Webhooks, Kind(e) = "lost",
                      prior[e] = "received", case["dispute"] # "open",
                      Reversal(Of(e)) \notin ledger
               PROVE \E f \in Webhooks : Victory(f) /\ Of(f) # Of(e)
    BY DEF FrozenUnlessWon
  <2>1. PICK f \in Webhooks : Victory(f)
    BY DEF FreezeInv, LossInv, SomeVictory
  <2>2. Told(e) /\ Told(f)
    BY <2>1 DEF FreezeInv, Heard, Victory
  <2>3. Of(f) # Of(e)
    BY <2>1, <2>2 DEF Told, Victory
  <2> QED BY <2>1, <2>3
<1> QED BY <1>1, SpecFreeze, PTL

(* The Account of a payment with one dispute stays frozen from the moment   *)
(* the loss is received until its credit is reversed, in whatever order     *)
(* the dispute's events come (prepareFundingDisputeEvent).                  *)
THEOREM LossFrozen ==
  ASSUME \A c, d \in Disputes : c = d
  PROVE Spec => []LostStaysFrozen
<1>1. FrozenUnlessWon => LostStaysFrozen
  BY EventFacts, DisputeEvents DEF FrozenUnlessWon, LostStaysFrozen, Victory, DisputeKinds
<1> QED BY <1>1, LossFrozenUnlessWon, PTL

(***************************************************************************)
(* Funding implements TopUp.  That needs to know what each step was told:  *)
(* a worker writes the credit only for a session that was paid, and asks   *)
(* for the reversal only for a refund of the whole payment or a dispute    *)
(* that was lost (TruthInv).                                               *)
(***************************************************************************)
Writing == {"book", "finalize", "mark"}
Reverses(e) == FullRefund(e) \/ Kind(e) = "lost"
Pays(e) == Kind(e) \in {"return", "paid"}

(* What Stripe said when it gave the event, or when the customer returned. *)
Reliable(e) ==
  /\ Reverses(e) => outcome[Of(e)] \in {"full", "lost"}
  /\ Pays(e) => session = "paid"
Trusted(e) ==
  /\ e \in Webhooks => (job[e].pc # "none" => inbox[e] # "none")
                       /\ (inbox[e] # "none" => Reliable(e))
  /\ e = Return /\ job[e].pc # "none" => session = "paid"
  /\ Checkout(e) /\ job[e].pc \in Writing => session = "paid"
MoneyTruth ==
  /\ Settlement \in ledger \cup wire => session = "paid"
  /\ By # None => command.applied /\ outcome[By] \in {"full", "lost"}
TruthInv == MoneyTruth /\ \A e \in Events : Trusted(e)

(* What a step on an event writes, and for which event it may.             *)
Wrote(e) ==
  ledger' \cup wire' \subseteq
    ledger \cup wire \cup (IF job[e].pc = "book" THEN {job[e].bundle} ELSE {})
Asked(e) ==
  By' = By \/ (By' = Of(e) /\ Reverses(e) /\ command'.applied)
Worked(e) ==
  /\ job[e].pc # "none" /\ UNCHANGED stripe
  /\ e \in Webhooks => (inbox'[e] = "none" => inbox[e] = "none")
  /\ Checkout(e) /\ job'[e].pc \in Writing => Pays(e) \/ job[e].pc \in Writing
  /\ Wrote(e) /\ Asked(e)

LEMMA PaysFacts ==
  ASSUME NEW e \in Events, Pays(e) PROVE Checkout(e) /\ (e = Return \/ e \in Webhooks)
BY EventFacts DEF Pays

LEMMA WorkedTruth ==
  ASSUME Inv, TruthInv, NEW e \in Events, Worked(e), Only(e), Progress
  PROVE TruthInv'
<1>1. session' = session /\ outcome' = outcome
  BY DEF Worked, stripe
<1>2. \A d \in Events : Reliable(d)' <=> Reliable(d)
  BY <1>1 DEF Reliable
<1>3. Trusted(e) BY DEF TruthInv
<1>4. e \in Webhooks => inbox[e] # "none" /\ Reliable(e)
  BY <1>3 DEF Worked, Trusted
<1>5. Pays(e) => session = "paid"
  BY <1>3, <1>4, PaysFacts DEF Worked, Trusted, Reliable
<1>6. ASSUME NEW d \in Events PROVE Trusted(d)'
  <2>1. CASE d = e
    BY <1>1, <1>2, <1>3, <1>4, <1>5, <2>1 DEF Trusted, Worked
  <2>2. CASE d # e
    BY <1>1, <1>2, <2>2 DEF TruthInv, Trusted, Only, Same
  <2> QED BY <2>1, <2>2
<1>7. Settlement \in ledger' \cup wire' => session = "paid"
  <2>1. ASSUME job[e].pc = "book", job[e].bundle = Settlement PROVE session = "paid"
    <3>1. Reversal(By) # Settlement BY DEF Reversal, Settlement
    <3>2. Checkout(e) BY <2>1, <3>1 DEF Inv, EventInv, JobInv
    <3> QED BY <1>3, <2>1, <3>2 DEF Trusted, Writing
  <2> QED BY <2>1 DEF Worked, Wrote, TruthInv, MoneyTruth
<1>8. By' # None => command'.applied /\ outcome[By'] \in {"full", "lost"}
  <2>1. CASE By # None
    <3>1. By' = By BY <2>1 DEF Progress, By
    <3> QED BY <2>1, <3>1 DEF TruthInv, MoneyTruth, Progress
  <2>2. CASE By = None /\ By' # None
    <3>1. By' = Of(e) /\ Reverses(e) /\ command'.applied
      BY <2>2 DEF Worked, Asked
    <3>2. e \in Webhooks BY <3>1, EventFacts DEF Reverses
    <3> QED BY <1>4, <3>1, <3>2 DEF Reliable
  <2> QED BY <2>1, <2>2
<1> QED BY <1>1, <1>6, <1>7, <1>8 DEF TruthInv, MoneyTruth

(***************************************************************************)
(* The steps of a worker.                                                  *)
(***************************************************************************)
LEMMA EndsWorked ==
  ASSUME Inv, NEW e \in Events, ~At(e, "none"), NEW a \in Answers, Ends(e, a),
         AtWork, UNCHANGED posted, command'.asker = command.asker
  PROVE Worked(e)
<1>1. EndFacts(e, a) BY EndsFacts DEF Inv
<1>2. job'[e].pc \notin Writing BY <1>1 DEF EndFacts, Writing
<1>3. By' = By BY DEF By
<1>4. e \in Webhooks => (inbox'[e] = "none" => inbox[e] = "none")
  BY <1>1 DEF EndFacts
<1> QED BY <1>2, <1>3, <1>4 DEF Worked, Wrote, Asked, At, AtWork, posted

LEMMA BookWorked ==
  ASSUME Inv, NEW e \in Events, At(e, "start"), NEW b, ToBook(e, b),
         AtWork, UNCHANGED posted, ~Checkout(e) \/ Pays(e), Asked(e)
  PROVE Worked(e)
BY DEF Worked, Wrote, ToBook, At, AtWork, posted

LEMMA PrepareWorked ==
  ASSUME Inv, NEW e \in Events, Prepare(e) PROVE Worked(e)
<1>1. At(e, "start") /\ ~At(e, "none") /\ AtWork /\ UNCHANGED posted
  BY DEF Prepare, PrepareAgain, PrepareUnpaid, PreparePaid, PrepareTooEarly, PrepareChanged,
         PrepareIrreversible, PrepareUnsettled, PreparePartial, PrepareRefund, PrepareOpened,
         PrepareWon, PrepareLost, Prepares, At
<1>2. ASSUME NEW a \in Answers, Ends(e, a), command'.asker = command.asker PROVE Worked(e)
  BY <1>1, <1>2, EndsWorked
<1>3. CASE PrepareUnpaid(e)
  <2>1. command'.asker = command.asker
    BY <1>3 DEF PrepareUnpaid, Inv, TypeOK, Command
  <2> QED BY <1>2, <1>3, <2>1 DEF PrepareUnpaid, Answers
<1>4. CASE PreparePaid(e)
  <2>1. CASE \E a \in {"refused", "replayed"} : Ends(e, a)
    BY <1>2, <1>4, <2>1 DEF PreparePaid, Answers
  <2>2. CASE ToBook(e, Settlement)
    <3>1. Asked(e) BY <1>4 DEF PreparePaid, Asked, By
    <3> QED BY <1>1, <1>4, <2>2, <3>1, BookWorked DEF PreparePaid, Pays
  <2> QED BY <1>4, <2>1, <2>2 DEF PreparePaid
<1>5. CASE PrepareRefund(e)
  <2>1. CASE Ends(e, "replayed") /\ UNCHANGED command
    BY <1>2, <2>1 DEF Answers
  <2>2. CASE ToBook(e, Booked(e)) /\ (command' = command \/ (command.reversal = "none" /\ Ask(e)))
    <3>1. ~Checkout(e) BY <1>5, EventFacts DEF PrepareRefund
    <3>2. Asked(e)
      <4>1. CASE command' = command BY <4>1 DEF Asked, By
      <4>2. CASE command.reversal = "none" /\ Ask(e)
        <5>1. command.asker = None /\ command.state = "succeeded"
          BY <1>5, <4>2 DEF PrepareRefund, Inv, MoneyInv
        <5>2. By' = Of(e) BY <1>1, <3>1, <4>2, <5>1, AskGood
        <5>3. command.applied /\ command'.applied
          BY <4>2, <5>1 DEF Ask, Inv, MoneyInv, TypeOK, Command
        <5> QED BY <1>5, <5>2, <5>3 DEF Asked, Reverses, PrepareRefund
      <4> QED BY <2>2, <4>1, <4>2
    <3> QED BY <1>1, <2>2, <3>1, <3>2, BookWorked
  <2>3. command.reversal \in {"none", "pending", "outcome_unknown", "succeeded"}
    BY DEF Inv, TypeOK, Command
  <2> QED BY <1>5, <2>1, <2>2, <2>3 DEF PrepareRefund
<1>6. CASE PrepareLost(e)
  <2>1. CASE Ends(e, "refused") /\ UNCHANGED rows
    BY <1>2, <2>1 DEF Answers, rows
  <2>2. CASE ToBook(e, Reversal(Of(e))) /\ IF By = None THEN Ask(e) ELSE UNCHANGED command
    <3>1. ~Checkout(e) BY <1>6, EventFacts DEF PrepareLost
    <3>2. Asked(e)
      <4>1. CASE By # None BY <2>2, <4>1 DEF Asked, By
      <4>2. CASE By = None
        <5>1. command.asker = None /\ command.state = "succeeded"
          BY <1>6, <4>2, ByFacts DEF PrepareLost
        <5>2. By' = Of(e) BY <1>1, <2>2, <3>1, <4>2, <5>1, AskGood
        <5>3. command.applied /\ command'.applied
          BY <2>2, <4>2, <5>1 DEF Ask, Inv, MoneyInv, TypeOK, Command
        <5> QED BY <1>6, <5>2, <5>3 DEF Asked, Reverses, PrepareLost
      <4> QED BY <4>1, <4>2
    <3> QED BY <1>1, <2>2, <3>1, <3>2, BookWorked
  <2> QED BY <1>6, <2>1, <2>2 DEF PrepareLost
<1>7. CASE \/ PrepareAgain(e) \/ PrepareTooEarly(e) \/ PrepareChanged(e)
           \/ PrepareIrreversible(e) \/ PrepareUnsettled(e) \/ PreparePartial(e)
           \/ PrepareOpened(e) \/ PrepareWon(e)
  <2>1. command'.asker = command.asker
    BY <1>7 DEF PrepareAgain, PrepareTooEarly, PrepareChanged, PrepareIrreversible,
                PrepareUnsettled, PreparePartial, PrepareOpened, PrepareWon, rows
  <2>2. \E a \in Answers : Ends(e, a)
    BY <1>7 DEF PrepareAgain, PrepareTooEarly, PrepareChanged, PrepareIrreversible,
                PrepareUnsettled, PreparePartial, PrepareOpened, PrepareWon, Answers
  <2> QED BY <1>2, <2>1, <2>2
<1> QED BY <1>3, <1>4, <1>5, <1>6, <1>7 DEF Prepare

LEMMA FinalizeWorked ==
  ASSUME Inv, NEW e \in Events,
         \/ CreditApplied(e) \/ CreditReplayed(e)
         \/ ReversalApplied(e) \/ ReversalReplayed(e) \/ ReversalRefused(e)
  PROVE Worked(e)
<1>1. ~At(e, "none") /\ AtWork /\ UNCHANGED posted
  BY DEF CreditApplied, CreditReplayed, ReversalApplied, ReversalReplayed, ReversalRefused,
         Finalizing, FinalizePc, At
<1>2. PICK a \in Answers : Ends(e, a)
  BY DEF CreditApplied, CreditReplayed, ReversalApplied, ReversalReplayed, ReversalRefused,
         Answers
<1>3. command'.asker = command.asker
  BY DEF CreditApplied, CreditReplayed, ReversalApplied, ReversalReplayed, ReversalRefused,
         rows, Inv, TypeOK, Command
<1> QED BY <1>1, <1>2, <1>3, EndsWorked

LEMMA WriteWorked ==
  ASSUME Inv, NEW e \in Events, WriteCompleted(e) \/ WriteUnknown(e) PROVE Worked(e)
BY DEF WriteCompleted, WriteUnknown, Booking, At, AtWork, rows, Worked, Wrote, Asked, By,
       Writing

LEMMA WorksWorked ==
  ASSUME Inv, NEW e \in Events, Works(e) \/ Die(e) PROVE Worked(e)
<1>1. CASE Stop(e)
  BY <1>1, EndsWorked DEF Stop, At, Answers, rows
<1>2. CASE Unavailable(e)
  BY <1>2, EndsWorked DEF Unavailable, At, Answers, rows
<1>3. CASE WriteUnavailable(e) \/ WriteRefused(e)
  BY <1>3, EndsWorked DEF WriteUnavailable, WriteRefused, Booking, At, Answers, rows
<1>4. CASE MarkUnknown(e)
  <2>1. command'.asker = command.asker
    BY <1>4 DEF MarkUnknown, Inv, TypeOK, Command
  <2> QED BY <1>4, <2>1, EndsWorked DEF MarkUnknown, At, Answers
<1>5. CASE Die(e)
  <2>1. Ends(e, "failed") BY <1>5 DEF Die, Ends
  <2> QED BY <1>5, <2>1, EndsWorked DEF Die, Answers, rows
<1> QED
  BY <1>1, <1>2, <1>3, <1>4, <1>5, PrepareWorked, FinalizeWorked, WriteWorked DEF Works

(***************************************************************************)
(* The other steps.                                                        *)
(***************************************************************************)
LEMMA IngestTruth ==
  ASSUME Inv, TruthInv, NEW e \in Webhooks, Ingest(e) \/ IngestConflict(e) PROVE TruthInv'
<1>1. UNCHANGED <<stripe, rows, posted>>
  BY DEF Ingest, IngestConflict
<1>2. e \in Events /\ Only(e) BY EventFacts, StepIngest, StepConflict DEF Good
<1>3. Ingest(e) => Reliable(e)
  BY EventFacts DEF Ingest, Emitted, Reliable, Reverses, Pays, FullRefund, FullRefundKinds,
                    Webhooks
<1>4. IngestConflict(e) => inbox[e] # "none" /\ job' = job
  BY DEF IngestConflict
<1>5. Ingest(e) => inbox'[e] # "none" /\ job'[e].pc = "start"
  BY <1>2 DEF Ingest, Inv, TypeOK, NewJob
<1>6. IngestConflict(e) => inbox'[e] # "none"
  BY <1>4 DEF IngestConflict, Inv, TypeOK
<1>7. ASSUME NEW d \in Events PROVE Trusted(d)'
  <2>1. Reliable(d)' <=> Reliable(d) BY <1>1 DEF Reliable, stripe
  <2>2. CASE d # e
    BY <1>1, <1>2, <2>1, <2>2 DEF TruthInv, Trusted, Only, Same, stripe
  <2>3. CASE d = e
    <3>1. d # Return BY <2>3, EventFacts
    <3>2. Trusted(d) BY DEF TruthInv
    <3>3. Reliable(d) BY <1>3, <1>4, <2>3, <3>2 DEF Trusted
    <3>4. Ingest(e) => job'[d].pc \notin Writing BY <1>5, <2>3 DEF Writing
    <3> QED BY <1>1, <1>4, <1>5, <1>6, <2>1, <2>3, <3>1, <3>2, <3>3, <3>4 DEF Trusted, stripe
  <2> QED BY <2>2, <2>3
<1> QED BY <1>1, <1>7 DEF TruthInv, MoneyTruth, stripe, rows, posted, By

LEMMA OtherTruth ==
  ASSUME Inv, TruthInv,
         \/ CheckoutEnds \/ CustomerReturns \/ OwnerMarksUnknown \/ OwnerResolves
         \/ \E b \in Bundles : LateWrite(b)
  PROVE TruthInv'
<1>1. /\ outcome' = outcome /\ inbox' = inbox
      /\ session' = session \/ session = "open"
      /\ ledger' \cup wire' = ledger \cup wire
  BY DEF CheckoutEnds, CustomerReturns, OwnerMarksUnknown, OwnerResolves, LateWrite,
         stripe, work, posted
<1>2. command'.asker = command.asker /\ command'.applied = command.applied
  BY DEF CheckoutEnds, CustomerReturns, OwnerMarksUnknown, OwnerResolves, LateWrite,
         rows, Inv, TypeOK, Command
<1>3. session = "paid" => session' = "paid" BY <1>1
<1>4. \A d \in Events : Reliable(d) => Reliable(d)'
  BY <1>1, <1>3 DEF Reliable
<1>5. CASE CustomerReturns
  <2>1. session = "paid" /\ session' = "paid"
    BY <1>5 DEF CustomerReturns, MayReturn, stripe
  <2>2. \A d \in Webhooks : job'[d] = job[d]
    BY <1>5, EventFacts DEF CustomerReturns, Inv, TypeOK
  <2>3. \A d \in Events : Trusted(d)'
    BY <1>1, <1>4, <2>1, <2>2 DEF TruthInv, Trusted
  <2> QED BY <1>1, <1>2, <2>1, <2>3 DEF TruthInv, MoneyTruth, By
<1>6. CASE ~CustomerReturns
  <2>1. job' = job
    BY <1>6 DEF CheckoutEnds, OwnerMarksUnknown, OwnerResolves, LateWrite, work
  <2>2. \A d \in Events : Trusted(d)'
    BY <1>1, <1>3, <1>4, <2>1 DEF TruthInv, Trusted
  <2> QED BY <1>1, <1>2, <1>3, <2>2 DEF TruthInv, MoneyTruth, By
<1> QED BY <1>5, <1>6

LEMMA NextTruth == Inv /\ TruthInv /\ [Next]_vars => TruthInv'
<1> SUFFICES ASSUME Inv, TruthInv, [Next]_vars PROVE TruthInv' OBVIOUS
<1>1. CASE Next
  <2>1. ASSUME NEW e \in Events, Works(e) \/ Die(e) PROVE TruthInv'
    BY <2>1, WorksGood, StepDie, WorksWorked, WorkedTruth DEF Good
  <2> QED BY <1>1, <2>1, IngestTruth, OtherTruth DEF Next
<1>2. CASE UNCHANGED vars
  BY <1>2 DEF vars, stripe, rows, posted, work, TruthInv, MoneyTruth, Trusted, Reliable, By
<1> QED BY <1>1, <1>2

LEMMA InitTruth == Init => TruthInv
BY DEF Init, TruthInv, MoneyTruth, Trusted, By, NoJob, Writing

LEMMA SpecTruth == Spec => [](Inv /\ TruthInv)
BY SpecInv, InitTruth, NextTruth, PTL DEF Spec

(***************************************************************************)
(* The refinement.                                                         *)
(***************************************************************************)
Reversals == {x \in Refunds \cup Disputes : Reversal(x) \in ledger}

LEMMA InitTopUp == Init => TopUp!Init
<1> SUFFICES ASSUME Init PROVE TopUp!Init OBVIOUS
<1>1. outcome \in Outcomes /\ ledger = {} /\ ~command.applied /\ session = "open"
  BY DEF Init
<1> QED BY <1>1 DEF TopUp!Init, Outcomes

LEMMA ReversalsAre ==
  ASSUME Inv
  PROVE Reversals = IF By # None /\ Reversal(By) \in ledger THEN {By} ELSE {}
<1>1. ASSUME NEW x \in Refunds \cup Disputes, Reversal(x) \in ledger
      PROVE x = By /\ By # None
  <2>1. Reversal(x) # Settlement BY DEF Reversal, Settlement
  <2>2. By # None /\ Reversal(x) = Reversal(By) BY <1>1, <2>1 DEF Inv, MoneyInv
  <2> QED BY <2>2 DEF Reversal
<1> QED BY <1>1, ByFacts DEF Reversals

(* A step that writes neither the ledger nor what the command has applied.  *)
LEMMA MapStutter ==
  ASSUME UNCHANGED stripe, ledger' = ledger, command'.applied = command.applied
  PROVE UNCHANGED TopUp!vars
BY DEF TopUp!vars, stripe

LEMMA MapPay ==
  ASSUME CheckoutEnds PROVE TopUp!Pay
BY DEF CheckoutEnds, TopUp!Pay, rows, posted

(* One more bundle in the ledger.                                           *)
LEMMA MapWrite ==
  ASSUME Inv, TruthInv, UNCHANGED stripe, UNCHANGED command,
         NEW b, b = Settlement \/ (By # None /\ b = Reversal(By)),
         b = Settlement => session = "paid",
         ledger' = ledger \cup {b}
  PROVE [TopUp!Next]_TopUp!vars
<1>1. session' = session /\ outcome' = outcome /\ command'.applied = command.applied
  BY DEF stripe
<1>2. CASE b \in ledger
  <2>1. ledger' = ledger BY <1>2
  <2> QED BY <1>1, <2>1, MapStutter
<1>3. CASE b \notin ledger /\ b = Settlement
  <2>1. \A x : Reversal(x) \in ledger' <=> Reversal(x) \in ledger
    BY <1>3 DEF Reversal, Settlement
  <2>2. {x \in Refunds \cup Disputes : Reversal(x) \in ledger'}
          = {x \in Refunds \cup Disputes : Reversal(x) \in ledger}
    BY <2>1
  <2>3. TopUp!Credit
    BY <1>1, <1>3, <2>2 DEF TopUp!Credit
  <2> QED BY <2>3 DEF TopUp!Next
<1>4. CASE b \notin ledger /\ By # None /\ b = Reversal(By)
  <2>1. Reversals = {} BY <1>4, ReversalsAre
  <2>2. By \in Refunds \cup Disputes BY <1>4, ByFacts
  <2>3. \A x : Reversal(x) \in ledger' <=> Reversal(x) \in ledger \/ x = By
    BY <1>4 DEF Reversal
  <2>4. {x \in Refunds \cup Disputes : Reversal(x) \in ledger'} = {By}
    BY <2>1, <2>2, <2>3 DEF Reversals
  <2>5. Settlement \in ledger' <=> Settlement \in ledger
    BY <1>4 DEF Reversal, Settlement
  <2>6. command.applied /\ outcome[By] \in {"full", "lost"}
    BY <1>4 DEF TruthInv, MoneyTruth
  <2>7. TopUp!Reverse(By)
    BY <1>1, <2>1, <2>4, <2>5, <2>6 DEF TopUp!Reverse, TopUp!Takes, Reversals
  <2> QED BY <2>2, <2>7 DEF TopUp!Next
<1> QED BY <1>2, <1>3, <1>4

LEMMA MapLedger ==
  ASSUME Inv, TruthInv,
         \/ \E e \in Events : WriteCompleted(e) \/ WriteUnknown(e)
         \/ \E b \in Bundles : LateWrite(b)
  PROVE [TopUp!Next]_TopUp!vars
<1>1. CASE \E e \in Events : WriteCompleted(e) \/ WriteUnknown(e)
  <2>1. PICK e \in Events : WriteCompleted(e) \/ WriteUnknown(e) BY <1>1
  <2> DEFINE b == job[e].bundle
  <2>2. /\ job[e].pc = "book" /\ UNCHANGED stripe /\ UNCHANGED command
        /\ ledger' = ledger \/ ledger' = ledger \cup {b}
    BY <2>1 DEF WriteCompleted, WriteUnknown, Booking, At, AtWork, rows
  <2>3. IF Checkout(e) THEN b = Settlement /\ session = "paid"
        ELSE By # None /\ b = Reversal(By)
    BY <2>2 DEF Inv, EventInv, JobInv, TruthInv, Trusted, Writing
  <2>4. Reversal(By) # Settlement BY DEF Reversal, Settlement
  <2>5. CASE ledger' = ledger BY <2>2, <2>5, MapStutter
  <2>6. CASE ledger' = ledger \cup {b} BY <2>2, <2>3, <2>4, <2>6, MapWrite
  <2> QED BY <2>2, <2>5, <2>6
<1>2. CASE \E b \in Bundles : LateWrite(b)
  <2>1. PICK b \in Bundles : LateWrite(b) BY <1>2
  <2>2. b = Settlement \/ (By # None /\ b = Reversal(By))
    BY <2>1 DEF LateWrite, Inv, MoneyInv
  <2>3. b = Settlement => session = "paid"
    BY <2>1 DEF LateWrite, TruthInv, MoneyTruth
  <2> QED BY <2>1, <2>2, <2>3, MapWrite DEF LateWrite, rows
<1> QED BY <1>1, <1>2

LEMMA MapCredit ==
  ASSUME Inv, NEW e \in Events, CreditApplied(e) PROVE [TopUp!Next]_TopUp!vars
<1>1. At(e, "finalize") /\ Checkout(e) /\ UNCHANGED stripe /\ ledger' = ledger
  BY DEF CreditApplied, Finalizing, FinalizePc, At, AtWork, posted
<1>2. Settlement \in ledger
  BY <1>1 DEF Inv, EventInv, JobInv, At
<1>3. command'.applied = TRUE /\ command.applied \in BOOLEAN
  BY DEF CreditApplied, Inv, TypeOK, Command
<1>4. CASE command.applied
  BY <1>1, <1>3, <1>4, MapStutter
<1>5. CASE ~command.applied
  BY <1>1, <1>2, <1>3, <1>5 DEF TopUp!Next, TopUp!Record, stripe
<1> QED BY <1>4, <1>5

LEMMA MapOther ==
  ASSUME Inv,
         \/ \E e \in Webhooks : Ingest(e) \/ IngestConflict(e)
         \/ CustomerReturns \/ OwnerMarksUnknown \/ OwnerResolves
         \/ \E e \in Events :
              \/ Stop(e) \/ Unavailable(e) \/ Prepare(e) \/ WriteUnavailable(e)
              \/ WriteRefused(e) \/ CreditReplayed(e) \/ ReversalApplied(e)
              \/ ReversalReplayed(e) \/ ReversalRefused(e) \/ MarkUnknown(e) \/ Die(e)
  PROVE UNCHANGED TopUp!vars
<1>1. CASE \/ \E e \in Webhooks : Ingest(e) \/ IngestConflict(e)
           \/ CustomerReturns \/ OwnerMarksUnknown \/ OwnerResolves
  <2>1. UNCHANGED stripe /\ ledger' = ledger /\ command'.applied = command.applied
    BY <1>1 DEF Ingest, IngestConflict, CustomerReturns, OwnerMarksUnknown, OwnerResolves,
                rows, posted, Inv, TypeOK, Command
  <2> QED BY <2>1, MapStutter
<1>2. ASSUME NEW e \in Events, Prepare(e) PROVE UNCHANGED TopUp!vars
  <2>1. UNCHANGED stripe /\ ledger' = ledger
    BY <1>2 DEF Prepare, PrepareAgain, PrepareUnpaid, PreparePaid, PrepareTooEarly,
                PrepareChanged, PrepareIrreversible, PrepareUnsettled, PreparePartial,
                PrepareRefund, PrepareOpened, PrepareWon, PrepareLost, AtWork, posted
  <2>2. \/ command' = command \/ command' = [command EXCEPT !.state = "failed"]
        \/ command' = [command EXCEPT !.reversal = "pending", !.asker = e]
    BY <1>2 DEF Prepare, PrepareAgain, PrepareUnpaid, PreparePaid, PrepareTooEarly,
                PrepareChanged, PrepareIrreversible, PrepareUnsettled, PreparePartial,
                PrepareRefund, PrepareOpened, PrepareWon, PrepareLost, Ask, rows
  <2>3. command'.applied = command.applied
    BY <2>2 DEF Inv, TypeOK, Command
  <2> QED BY <2>1, <2>3, MapStutter
<1>3. ASSUME NEW e \in Events,
             \/ Stop(e) \/ Unavailable(e) \/ WriteUnavailable(e) \/ WriteRefused(e)
             \/ CreditReplayed(e) \/ ReversalApplied(e) \/ ReversalReplayed(e)
             \/ ReversalRefused(e) \/ MarkUnknown(e) \/ Die(e)
      PROVE UNCHANGED TopUp!vars
  <2>1. UNCHANGED stripe /\ ledger' = ledger
    BY <1>3 DEF Stop, Unavailable, WriteUnavailable, WriteRefused, Booking, CreditReplayed,
                ReversalApplied, ReversalReplayed, ReversalRefused, Finalizing, MarkUnknown,
                Die, AtWork, posted
  <2>2. command'.applied = command.applied
    BY <1>3 DEF Stop, Unavailable, WriteUnavailable, WriteRefused, Booking, CreditReplayed,
                ReversalApplied, ReversalReplayed, ReversalRefused, MarkUnknown, Die, rows,
                Inv, TypeOK, Command
  <2> QED BY <2>1, <2>2, MapStutter
<1> QED BY <1>1, <1>2, <1>3

LEMMA StepTopUp == Inv /\ TruthInv /\ [Next]_vars => [TopUp!Next]_TopUp!vars
<1> SUFFICES ASSUME Inv, TruthInv, [Next]_vars PROVE [TopUp!Next]_TopUp!vars OBVIOUS
<1>1. CASE Next
  <2>1. CASE CheckoutEnds BY <2>1, MapPay DEF TopUp!Next
  <2>2. ASSUME NEW e \in Events, Works(e) PROVE [TopUp!Next]_TopUp!vars
    BY <2>2, MapLedger, MapCredit, MapOther DEF Works
  <2> QED BY <1>1, <2>1, <2>2, MapLedger, MapOther DEF Next
<1>2. CASE UNCHANGED vars
  BY <1>2, MapStutter DEF vars, rows, posted
<1> QED BY <1>1, <1>2

(* A top-up is credited once, only for a payment that was made; its credit  *)
(* is reversed once, only after the command recorded it, and only for a     *)
(* refund of the whole payment or a lost dispute, whatever Stripe delivers, *)
(* in whatever order, and whatever dies or is lost on the way               *)
(* (applyVerifiedEventFromInboxHandler, fulfillReturnHandler).              *)
THEOREM TopUpRefined == Spec => ImplementsTopUp
<1>1. Init => TopUp!Init BY InitTopUp
<1>2. Inv /\ TruthInv /\ [Next]_vars => [TopUp!Next]_TopUp!vars BY StepTopUp
<1> QED BY <1>1, <1>2, SpecTruth, PTL DEF Spec, ImplementsTopUp, TopUp!Spec
=============================================================================
