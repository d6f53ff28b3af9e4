----------------------------- MODULE SpendProofs -----------------------------
(***************************************************************************)
(* The limits of SpendAdmission hold for every number of Calls, payees,    *)
(* limits and clocks.  Only Admit adds exposure, and it adds what it has   *)
(* read to fit; every other step leaves the exposure or lets it shrink.    *)
(* What ties the exposure to the chain is kept Call by Call, in CallInv.   *)
(***************************************************************************)
EXTENDS SpendAdmission, FiniteSetTheorems, TLAPS

Before == {"idle", "intent", "screen", "admit"}
Signing == {"sign", "record", "submit", "send"}

(* The authorization of a Call can never be paid any more. *)
Dead(c) ==
  /\ attempt[c].settlement # "none"
  /\ \/ chain[c].state = "cancelled"
     \/ chain[c].state = "free" /\ block >= attempt[c].expiresAt

BeforeInv(c) ==
  worker[c].pc \in Before => /\ spend[c].state = "none" /\ ~chain[c].sent
                             /\ attempt[c].settlement = "none"
                             /\ attempt[c].evidence = "none"
SigningInv(c) == worker[c].pc \in Signing => spend[c].state # "none" /\ ~chain[c].sent
PaidInv(c) ==
  /\ chain[c].sent => spend[c].state # "none"
  /\ spend[c].state = "settled" => chain[c].state = "paid"
  /\ chain[c].state = "paid" =>
       /\ chain[c].sent /\ chain[c].paidAt <= now
       /\ spend[c].state \in {"liability", "settled"}
       /\ spend[c].state = "settled" => chain[c].paidAt <= spend[c].settledAt
DeadInv(c) ==
  attempt[c].evidence = "unused" \/ spend[c].state = "unused" => Dead(c)
FlagInv(c) ==
  /\ worker[c].screenedAt <= now /\ spend[c].reservedAt <= now
  /\ worker[c].clear => worker[c].screenedAt <= flaggedAt[Payee[c]]
  /\ spend[c].state # "none" => spend[c].reservedAt <= flaggedAt[Payee[c]] + Freshness

CallInv(c) ==
  BeforeInv(c) /\ SigningInv(c) /\ PaidInv(c) /\ DeadInv(c) /\ FlagInv(c)
Inv == TypeOK /\ \A c \in Calls : CallInv(c)

(* How a step treats the Calls other than c, and the reservation of c.      *)
Same(d) ==
  /\ worker'[d] = worker[d] /\ attempt'[d] = attempt[d]
  /\ spend'[d] = spend[d] /\ chain'[d] = chain[d]
Only(c) == \A d \in Calls : d # c => Same(d)
Resolved(c) ==
  \/ spend'[c] = spend[c]
  \/ /\ spend[c].state = "liability"
     /\ spend'[c].state \in {"settled", "unused"}
     /\ spend'[c].reservedAt = spend[c].reservedAt
Booked(c) ==
  /\ MayReserve(c) /\ spend[c].state = "none"
  /\ spend'[c] = [state |-> "liability", reservedAt |-> now, settledAt |-> 0]
Good(c) == TypeOK' /\ Only(c) /\ CallInv(c)' /\ UNCHANGED clocks

USE CallsAssumption, LimitsAssumption, TimeAssumption

LEMMA InitInv == Init => Inv
<1> SUFFICES ASSUME Init PROVE Inv OBVIOUS
<1>1. TypeOK
  BY DEF Init, TypeOK, Worker, WorkerPc, Attempt, Spend, Nonce, Clock, Never
<1>2. ASSUME NEW c \in Calls PROVE CallInv(c)
  BY DEF Init, CallInv, BeforeInv, SigningInv, PaidInv, DeadInv, Dead, FlagInv, Before,
         Signing, Never
<1> QED BY <1>1, <1>2 DEF Inv

(* A Call keeps its invariant while its rows rest and the clocks go on.     *)
LEMMA Rests ==
  ASSUME TypeOK, NEW d \in Calls, CallInv(d), Same(d),
         now' \in Int, block' \in Int, now' >= now, block' >= block,
         \A p \in Payees : flaggedAt'[p] = flaggedAt[p] \/ flaggedAt'[p] = now'
  PROVE  CallInv(d)'
<1> USE DEF Same
<1>1. /\ worker[d] \in Worker /\ attempt[d] \in Attempt /\ spend[d] \in Spend
      /\ chain[d] \in Nonce /\ Payee[d] \in Payees
      /\ now \in Nat /\ block \in Nat /\ flaggedAt[Payee[d]] \in Nat
  BY DEF TypeOK, Clock, Never
<1>2. BeforeInv(d)' /\ SigningInv(d)'
  BY DEF CallInv, BeforeInv, SigningInv
<1>3. PaidInv(d)'
  BY <1>1 DEF CallInv, PaidInv, Nonce, Spend, Clock
<1>4. DeadInv(d)'
  BY <1>1 DEF CallInv, DeadInv, Dead, Attempt
<1>5. FlagInv(d)'
  BY <1>1 DEF CallInv, FlagInv, Worker, Spend, Clock
<1> QED BY <1>2, <1>3, <1>4, <1>5 DEF CallInv

(* What every lemma about a step uses of the state before it.               *)
Known(c) ==
  /\ worker[c] \in Worker /\ attempt[c] \in Attempt /\ spend[c] \in Spend
  /\ chain[c] \in Nonce /\ Payee[c] \in Payees
  /\ now \in Clock /\ now \in Nat /\ block \in Nat /\ block <= now
  /\ flaggedAt[Payee[c]] \in Nat /\ generation \in 0..MaxGeneration
  /\ TypeOK
  /\ BeforeInv(c) /\ SigningInv(c) /\ PaidInv(c) /\ DeadInv(c) /\ FlagInv(c)
LEMMA Facts == ASSUME Inv, NEW c \in Calls PROVE Known(c)
BY DEF Inv, CallInv, Known, TypeOK, Clock, Never

-----------------------------------------------------------------------------
(* The steps of the worker of c.                                            *)

LEMMA PrepareGood ==
  ASSUME Inv, NEW c \in Calls, Prepare(c) PROVE Good(c) /\ Resolved(c)
<1>0. Known(c) BY Facts
<1> USE <1>0 DEF Known, Prepare, Goto, At, clocks
<1>a. worker' \in [Calls -> Worker] BY DEF TypeOK, Worker, WorkerPc
<1>b. attempt' \in [Calls -> Attempt] BY DEF TypeOK, Attempt
<1>1. TypeOK' BY <1>a, <1>b DEF TypeOK
<1>2. Only(c) BY DEF Only, Same, TypeOK
<1>3. /\ worker'[c] = [worker[c] EXCEPT !.pc = "intent"]
      /\ attempt'[c].settlement = attempt[c].settlement
      /\ attempt'[c].evidence = attempt[c].evidence
  BY DEF TypeOK, Attempt
<1>4. CallInv(c)'
  <2>1. BeforeInv(c)' /\ SigningInv(c)' /\ PaidInv(c)' /\ FlagInv(c)'
    BY <1>3 DEF BeforeInv, SigningInv, PaidInv, FlagInv, Before, Signing, Worker
  <2>2. DeadInv(c)'
    BY <1>3 DEF DeadInv, BeforeInv, Before
  <2> QED BY <2>1, <2>2 DEF CallInv
<1> QED BY <1>1, <1>2, <1>4 DEF Good, Resolved

LEMMA IntentGood ==
  ASSUME Inv, NEW c \in Calls, Intent(c) PROVE Good(c) /\ Resolved(c)
<1>0. Known(c) BY Facts
<1> USE <1>0 DEF Known, Intent, Goto, At, clocks
<1>a. worker' \in [Calls -> Worker] BY DEF TypeOK, Worker, WorkerPc
<1>b. attempt' \in [Calls -> Attempt]
  <2>1. now + Validity \in Nat OBVIOUS
  <2>2. [attempt[c] EXCEPT !.intent = TRUE, !.expiresAt = now + Validity] \in Attempt
    BY <2>1 DEF Attempt
  <2> QED BY <2>2 DEF TypeOK
<1>1. TypeOK' BY <1>a, <1>b DEF TypeOK
<1>2. Only(c) BY DEF Only, Same, TypeOK
<1>3. /\ \/ worker'[c] = [worker[c] EXCEPT !.pc = "screen"]
         \/ worker'[c] = [worker[c] EXCEPT !.pc = "unsubmitted"] /\ attempt' = attempt
      /\ attempt'[c].settlement = attempt[c].settlement
      /\ attempt'[c].evidence = attempt[c].evidence
  BY DEF TypeOK, Attempt
<1>4. CallInv(c)'
  BY <1>3 DEF CallInv, BeforeInv, SigningInv, PaidInv, DeadInv, Dead, FlagInv, Before,
              Signing, Worker
<1> QED BY <1>1, <1>2, <1>4 DEF Good, Resolved

LEMMA ScreenGood ==
  ASSUME Inv, NEW c \in Calls, Screen(c) PROVE Good(c) /\ Resolved(c)
<1>0. Known(c) BY Facts
<1> USE <1>0 DEF Known, Screen, At, clocks
<1>1. TypeOK' BY DEF TypeOK, Worker, WorkerPc
<1>2. Only(c) BY DEF Only, Same, TypeOK
<1>3. worker'[c] = [pc |-> "admit", screenedAt |-> now, clear |-> now < flaggedAt[Payee[c]]]
  BY DEF TypeOK
<1>4. CallInv(c)'
  <2>1. BeforeInv(c)' /\ SigningInv(c)' /\ PaidInv(c)' /\ DeadInv(c)'
    BY <1>3 DEF BeforeInv, SigningInv, PaidInv, DeadInv, Dead, Before, Signing
  <2>2. spend[c].state = "none"
    BY DEF BeforeInv, Before
  <2>3. /\ worker'[c].screenedAt = now
        /\ worker'[c].clear => now < flaggedAt[Payee[c]]
    <3>1. CASE now < flaggedAt[Payee[c]]
      <4>1. worker'[c] = [pc |-> "admit", screenedAt |-> now, clear |-> TRUE] BY <1>3, <3>1
      <4> QED BY <3>1, <4>1
    <3>2. CASE ~(now < flaggedAt[Payee[c]])
      <4>1. worker'[c] = [pc |-> "admit", screenedAt |-> now, clear |-> FALSE]
        <5>1. (now < flaggedAt[Payee[c]]) = FALSE BY <3>2, SMT
        <5> QED BY <1>3, <5>1, Zenon
      <4> QED BY <4>1
    <3> QED BY <3>1, <3>2
  <2>4. FlagInv(c)'
    BY <2>2, <2>3 DEF FlagInv
  <2> QED BY <2>1, <2>4 DEF CallInv
<1> QED BY <1>1, <1>2, <1>4 DEF Good, Resolved

LEMMA AdmitGood ==
  ASSUME Inv, NEW c \in Calls, Admit(c) PROVE Good(c) /\ Booked(c)
<1>0. Known(c) BY Facts
<1> USE <1>0 DEF Known, Admit, Goto, At, clocks
<1>a. worker' \in [Calls -> Worker] BY DEF TypeOK, Worker, WorkerPc
<1>b. spend' \in [Calls -> Spend]
  <2>1. [state |-> "liability", reservedAt |-> now, settledAt |-> 0] \in Spend
    BY DEF Spend, Clock
  <2> QED BY <2>1 DEF TypeOK
<1>1. TypeOK' BY <1>a, <1>b DEF TypeOK
<1>2. Only(c) BY DEF Only, Same, TypeOK
<1>3. /\ worker'[c] = [worker[c] EXCEPT !.pc = "sign"]
      /\ spend'[c] = [state |-> "liability", reservedAt |-> now, settledAt |-> 0]
  BY DEF TypeOK
<1>4. spend[c].state = "none" /\ ~chain[c].sent
  BY DEF BeforeInv, Before
<1>5. BeforeInv(c)' /\ SigningInv(c)' /\ PaidInv(c)' /\ DeadInv(c)'
  BY <1>3, <1>4 DEF BeforeInv, SigningInv, PaidInv, DeadInv, Dead, Before, Signing,
                    Worker
<1>6. FlagInv(c)'
  BY <1>3 DEF FlagInv, Screened, Worker, Clock
<1> QED BY <1>1, <1>2, <1>3, <1>4, <1>5, <1>6 DEF Good, Booked, CallInv

(* The steps that only move the worker on, without a signature sent.        *)
Onward(c) ==
  /\ \E pc \in WorkerPc : /\ Goto(c, pc) /\ pc \notin Before
                          /\ pc \in Signing => worker[c].pc \in Signing
  /\ UNCHANGED <<clocks, attempt, spend, chain>>
LEMMA OnwardGood ==
  ASSUME Inv, NEW c \in Calls, Onward(c) PROVE Good(c) /\ Resolved(c)
<1>0. Known(c) BY Facts
<1> USE <1>0 DEF Known, clocks
<1>1. PICK pc \in WorkerPc : /\ Goto(c, pc) /\ pc \notin Before
                             /\ pc \in Signing => worker[c].pc \in Signing
                             /\ UNCHANGED <<clocks, attempt, spend, chain>>
  BY DEF Onward
<1>2. TypeOK' BY <1>1 DEF TypeOK, Worker, Goto
<1>3. Only(c) BY <1>1 DEF Only, Same, TypeOK, Goto
<1>4. worker'[c] = [worker[c] EXCEPT !.pc = pc] BY <1>1 DEF TypeOK, Goto
<1>5. CallInv(c)'
  BY <1>1, <1>4 DEF CallInv, BeforeInv, SigningInv, PaidInv, DeadInv, Dead, FlagInv, Worker
<1> QED BY <1>1, <1>2, <1>3, <1>5 DEF Good, Resolved

LEMMA MovesOn ==
  ASSUME Inv, NEW c \in Calls, AdmitRefused(c) \/ CustodySigns(c) \/ Record(c) \/ Die(c)
  PROVE  Onward(c)
BY DEF AdmitRefused, CustodySigns, Record, Die, Onward, At, WorkerPc, Before, Signing

LEMMA SubmitGood ==
  ASSUME Inv, NEW c \in Calls, Submit(c) PROVE Good(c) /\ Resolved(c)
<1>0. Known(c) BY Facts
<1> USE <1>0 DEF Known, Submit, Mark, Goto, At, clocks
<1>a. worker' \in [Calls -> Worker]
  <2>1. [worker[c] EXCEPT !.pc = "send"] \in Worker BY DEF Worker, WorkerPc
  <2>2. [worker[c] EXCEPT !.pc = "unsubmitted"] \in Worker BY DEF Worker, WorkerPc
  <2> QED BY <2>1, <2>2 DEF TypeOK
<1>b. attempt' \in [Calls -> Attempt] BY DEF TypeOK, Attempt
<1>1. TypeOK' BY <1>a, <1>b DEF TypeOK
<1>2. Only(c) BY DEF Only, Same, TypeOK
<1>3. /\ worker'[c] \in {[worker[c] EXCEPT !.pc = "send"], [worker[c] EXCEPT !.pc = "unsubmitted"]}
      /\ \/ attempt'[c] = attempt[c]
         \/ attempt'[c] = [attempt[c] EXCEPT !.state = "possibly_submitted"]
  BY DEF TypeOK
<1>4. CallInv(c)'
  BY <1>3 DEF CallInv, BeforeInv, SigningInv, PaidInv, DeadInv, Dead, FlagInv, Before,
              Signing, Worker, Attempt
<1> QED BY <1>1, <1>2, <1>4 DEF Good, Resolved

LEMMA SendGood ==
  ASSUME Inv, NEW c \in Calls, Send(c) PROVE Good(c) /\ Resolved(c)
<1>0. Known(c) BY Facts
<1> USE <1>0 DEF Known, Send, Goto, At, clocks
<1>a. worker' \in [Calls -> Worker] BY DEF TypeOK, Worker, WorkerPc
<1>b. chain' \in [Calls -> Nonce] BY DEF TypeOK, Nonce
<1>1. TypeOK' BY <1>a, <1>b DEF TypeOK
<1>2. Only(c) BY DEF Only, Same, TypeOK
<1>3. /\ worker'[c] = [worker[c] EXCEPT !.pc = "observe"]
      /\ chain'[c].state = chain[c].state /\ chain'[c].paidAt = chain[c].paidAt
  BY DEF TypeOK, Nonce
<1>4. CallInv(c)'
  BY <1>3 DEF CallInv, BeforeInv, SigningInv, PaidInv, DeadInv, Dead, FlagInv, Before,
              Signing, Worker
<1> QED BY <1>1, <1>2, <1>4 DEF Good, Resolved

-----------------------------------------------------------------------------
(* A resolution changes a liability only, and dates what is settled.        *)
LEMMA ResolveResolves ==
  ASSUME Inv, NEW c \in Calls, NEW state \in {"settled", "unused"}, Resolve(c, state)
  PROVE  /\ spend' \in [Calls -> Spend]
         /\ \A d \in Calls : d # c => spend'[d] = spend[d]
         /\ Resolved(c)
         /\ spend'[c].state \in {"none", state}
         /\ spend'[c].state = "none" <=> spend[c].state = "none"
         /\ spend'[c].reservedAt = spend[c].reservedAt
         /\ spend[c].state = state => spend'[c].settledAt = spend[c].settledAt
         /\ spend[c].state # state /\ state = "settled" /\ spend[c].state # "none"
              => spend'[c].settledAt = now
<1>0. Known(c) BY Facts
<1>1. spend[c].state \in {"none", "liability", "settled", "unused"}
  BY <1>0 DEF Known, Spend
<1>2. CASE spend[c].state # "liability"
  <2>1. spend' = spend /\ spend[c].state \in {"none", state}
    BY <1>1, <1>2 DEF Resolve
  <2> QED BY <1>0, <2>1 DEF Known, TypeOK, Resolved
<1>3. CASE spend[c].state = "liability"
  <2> DEFINE r == [spend[c] EXCEPT !.state = state,
                     !.settledAt = IF state = "settled" THEN now ELSE @]
  <2>1. spend' = [spend EXCEPT ![c] = r]
    BY <1>3 DEF Resolve
  <2>2. /\ r \in Spend /\ r.state = state /\ r.reservedAt = spend[c].reservedAt
        /\ state = "settled" => r.settledAt = now
    BY <1>0 DEF Known, Spend
  <2>3. spend'[c] = r /\ spend' \in [Calls -> Spend]
        /\ \A d \in Calls : d # c => spend'[d] = spend[d]
    BY <1>0, <2>1, <2>2 DEF Known, TypeOK
  <2> QED BY <1>3, <2>2, <2>3 DEF Resolved
<1> QED BY <1>2, <1>3

(* The invariant of a Call whose reservation is resolved, while its nonce   *)
(* and its worker's verdict rest.                                           *)
Settles(c) ==
  /\ worker' \in [Calls -> Worker] /\ attempt' \in [Calls -> Attempt]
  /\ \A d \in Calls : d # c => worker'[d] = worker[d] /\ attempt'[d] = attempt[d]
  /\ UNCHANGED <<clocks, chain>>
  /\ worker'[c].pc \in Before \cup Signing => worker'[c].pc = worker[c].pc
  /\ worker'[c].screenedAt = worker[c].screenedAt /\ worker'[c].clear = worker[c].clear
  /\ attempt[c].settlement # "none" => attempt'[c].settlement # "none"
  /\ attempt'[c].expiresAt = attempt[c].expiresAt

LEMMA SettlesGood ==
  ASSUME Inv, NEW c \in Calls, Settles(c),
         \/ spend' = spend
         \/ Resolve(c, "settled") /\ chain[c].state = "paid"
         \/ Resolve(c, "unused") /\ Dead(c),
         attempt'[c].evidence = "unused" => attempt[c].evidence = "unused" \/ Dead(c),
         worker[c].pc \in Before => /\ attempt'[c].evidence = "none"
                                    /\ attempt'[c].settlement = "none"
  PROVE  Good(c) /\ Resolved(c)
<1>0. Known(c) BY Facts
<1> USE <1>0 DEF Known, Settles, clocks
<1>1. /\ spend' \in [Calls -> Spend]
      /\ \A d \in Calls : d # c => spend'[d] = spend[d]
      /\ Resolved(c)
      /\ spend'[c].state = "none" <=> spend[c].state = "none"
      /\ spend'[c].reservedAt = spend[c].reservedAt
  BY ResolveResolves DEF TypeOK, Resolved
<1>2. /\ spend'[c].state = "unused" => spend[c].state = "unused" \/ Dead(c)
      /\ chain[c].state = "paid" => spend'[c] = spend[c] \/ spend'[c].state = "settled"
      /\ spend'[c].state = "settled" => chain[c].state = "paid"
      /\ chain[c].state = "paid" /\ spend'[c] # spend[c] =>
           spend[c].state = "liability" /\ spend'[c].settledAt = now
  <2>1. CASE spend' = spend BY <2>1 DEF PaidInv
  <2>2. CASE Resolve(c, "settled") /\ chain[c].state = "paid"
    BY <2>2, ResolveResolves DEF Resolved, PaidInv
  <2>3. CASE Resolve(c, "unused") /\ Dead(c)
    BY <2>3, ResolveResolves DEF Dead
  <2> QED BY <2>1, <2>2, <2>3
<1>3. TypeOK' BY <1>1 DEF TypeOK
<1>4. Only(c) BY <1>1 DEF Only, Same
<1>5. BeforeInv(c)' /\ SigningInv(c)'
  BY <1>1 DEF BeforeInv, SigningInv
<1>6. PaidInv(c)'
  BY <1>1, <1>2 DEF PaidInv, Nonce, Clock
<1>7. DeadInv(c)'
  BY <1>2 DEF DeadInv, Dead
<1>8. FlagInv(c)'
  BY <1>1 DEF FlagInv
<1> QED BY <1>1, <1>3, <1>4, <1>5, <1>6, <1>7, <1>8 DEF Good, CallInv

(* What Keep and Reconcile write.                                           *)
LEMMA Writes ==
  ASSUME Inv, NEW c \in Calls, NEW a \in Attempt, attempt' = [attempt EXCEPT ![c] = a]
  PROVE  /\ attempt' \in [Calls -> Attempt] /\ attempt'[c] = a
         /\ \A d \in Calls : d # c => attempt'[d] = attempt[d]
BY DEF Inv, TypeOK

LEMMA Keeps ==
  ASSUME Inv, NEW c \in Calls,
         NEW state \in {"observed", "reconciliation_required"},
         NEW settlement \in {"unknown", "not_settled", "settled"},
         Keep(c, state, settlement)
  PROVE  /\ attempt' \in [Calls -> Attempt]
         /\ attempt'[c].settlement = settlement
         /\ attempt'[c].expiresAt = attempt[c].expiresAt
         /\ attempt'[c].evidence = attempt[c].evidence
         /\ \A d \in Calls : d # c => attempt'[d] = attempt[d]
<1> DEFINE a == [attempt[c] EXCEPT !.state = state, !.settlement = settlement]
<1>1. attempt[c] \in Attempt BY DEF Inv, TypeOK
<1>2. a \in Attempt /\ attempt' = [attempt EXCEPT ![c] = a]
      /\ a.settlement = settlement /\ a.expiresAt = attempt[c].expiresAt
      /\ a.evidence = attempt[c].evidence
  BY <1>1 DEF Keep, Attempt
<1> HIDE DEF a
<1> QED BY <1>2, Writes

LEMMA Reconciles ==
  ASSUME Inv, NEW c \in Calls, NEW evidence \in {"settled", "unused"},
         NEW settlement \in {"not_settled", "settled"}, Reconcile(c, evidence, settlement)
  PROVE  /\ attempt' \in [Calls -> Attempt]
         /\ attempt'[c].settlement = settlement
         /\ attempt'[c].expiresAt = attempt[c].expiresAt
         /\ attempt'[c].evidence = evidence
         /\ \A d \in Calls : d # c => attempt'[d] = attempt[d]
<1> DEFINE a == [attempt[c] EXCEPT !.state = "observed", !.settlement = settlement,
                                   !.evidence = evidence]
<1>1. attempt[c] \in Attempt BY DEF Inv, TypeOK
<1>2. a \in Attempt /\ attempt' = [attempt EXCEPT ![c] = a]
      /\ a.settlement = settlement /\ a.expiresAt = attempt[c].expiresAt
      /\ a.evidence = evidence
  BY <1>1 DEF Reconcile, Attempt
<1> HIDE DEF a
<1> QED BY <1>2, Writes

-----------------------------------------------------------------------------
(* The steps that resolve, or may resolve, a reservation.                   *)

LEMMA ObserveGood ==
  ASSUME Inv, NEW c \in Calls, Observe(c) PROVE Good(c) /\ Resolved(c)
<1>0. Known(c) BY Facts
<1>1. /\ worker' \in [Calls -> Worker] /\ worker'[c] = [worker[c] EXCEPT !.pc = "done"]
      /\ \A d \in Calls : d # c => worker'[d] = worker[d]
      /\ worker[c].pc = "observe" /\ UNCHANGED <<clocks, chain>>
  BY <1>0 DEF Known, TypeOK, Observe, Goto, At, Worker, WorkerPc
<1>2. /\ worker'[c].pc = "done" /\ worker'[c].screenedAt = worker[c].screenedAt
      /\ worker'[c].clear = worker[c].clear
  BY <1>0, <1>1 DEF Known, Worker
<1>3. /\ attempt' \in [Calls -> Attempt]
      /\ attempt[c].settlement # "none" => attempt'[c].settlement # "none"
      /\ attempt'[c].expiresAt = attempt[c].expiresAt
      /\ attempt'[c].evidence = attempt[c].evidence
      /\ \A d \in Calls : d # c => attempt'[d] = attempt[d]
  <2>1. \/ UNCHANGED attempt
        \/ Keep(c, "observed", "settled") \/ Keep(c, "reconciliation_required", "unknown")
        \/ Keep(c, "observed", "not_settled")
    BY DEF Observe
  <2> QED BY <1>0, <2>1, Keeps DEF Known, TypeOK
<1>4. Settles(c)
  BY <1>1, <1>2, <1>3 DEF Settles, Before, Signing
<1>5. spend' = spend \/ (Resolve(c, "settled") /\ chain[c].state = "paid")
  <2>1. \/ UNCHANGED spend
        \/ chain[c].state = "paid" /\ Resolve(c, "settled")
    BY Zenon DEF Observe
  <2> QED BY <2>1
<1>6. worker[c].pc \notin Before BY <1>1 DEF Before
<1> QED BY <1>3, <1>4, <1>5, <1>6, SettlesGood

LEMMA UnsubmittedGood ==
  ASSUME Inv, NEW c \in Calls, Unsubmitted(c) PROVE Good(c) /\ Resolved(c)
<1>0. Known(c) BY Facts
<1>1. /\ worker' \in [Calls -> Worker] /\ worker'[c] = [worker[c] EXCEPT !.pc = "done"]
      /\ \A d \in Calls : d # c => worker'[d] = worker[d]
      /\ worker[c].pc = "unsubmitted" /\ UNCHANGED <<clocks, spend, chain>>
  BY <1>0 DEF Known, TypeOK, Unsubmitted, Goto, At, Worker, WorkerPc
<1>2. /\ worker'[c].pc = "done" /\ worker'[c].screenedAt = worker[c].screenedAt
      /\ worker'[c].clear = worker[c].clear
  BY <1>0, <1>1 DEF Known, Worker
<1>3. /\ attempt' \in [Calls -> Attempt]
      /\ attempt[c].settlement # "none" => attempt'[c].settlement # "none"
      /\ attempt'[c].expiresAt = attempt[c].expiresAt
      /\ attempt'[c].evidence = attempt[c].evidence
      /\ \A d \in Calls : d # c => attempt'[d] = attempt[d]
  <2>1. UNCHANGED attempt \/ Keep(c, "observed", "not_settled")
    BY DEF Unsubmitted
  <2> QED BY <1>0, <2>1, Keeps DEF Known, TypeOK
<1>4. Settles(c)
  BY <1>1, <1>2, <1>3 DEF Settles, Before, Signing
<1>5. worker[c].pc \notin Before BY <1>1 DEF Before
<1> QED BY <1>1, <1>3, <1>4, <1>5, SettlesGood

(* A recovery leaves the worker alone; a known settlement is past Before.    *)
LEMMA RecoverGood ==
  ASSUME Inv, NEW c \in Calls,
         RecoverSettled(c) \/ RecoverFailed(c) \/ FinishExpired(c)
  PROVE  Good(c) /\ Resolved(c)
<1>0. Known(c) BY Facts
<1>1. \/ Reconcile(c, "settled", "settled") /\ Resolve(c, "settled")
           /\ chain[c].state = "paid" /\ attempt[c].settlement # "none"
      \/ Reconcile(c, "unused", "not_settled") /\ Resolve(c, "unused") /\ Dead(c)
  BY <1>0 DEF RecoverSettled, RecoverFailed, FinishExpired, ExpiredOnChain, Dead,
              Known, DeadInv
<1>2. UNCHANGED <<clocks, worker, chain>>
  BY DEF RecoverSettled, RecoverFailed, FinishExpired
<1>3. worker[c].pc \notin Before
  BY <1>0, <1>1 DEF Known, BeforeInv, Dead
<1>4. /\ attempt' \in [Calls -> Attempt]
      /\ attempt[c].settlement # "none" => attempt'[c].settlement # "none"
      /\ attempt'[c].expiresAt = attempt[c].expiresAt
      /\ attempt'[c].evidence = "unused" => Dead(c)
      /\ \A d \in Calls : d # c => attempt'[d] = attempt[d]
  BY <1>1, Reconciles
<1>5. Settles(c)
  BY <1>0, <1>2, <1>4 DEF Settles, Known, TypeOK
<1> QED BY <1>1, <1>3, <1>4, <1>5, SettlesGood

(* A proof of non-use, or the sweep, writes the attempt and nothing else.   *)
LEMMA ClaimGood ==
  ASSUME Inv, NEW c \in Calls, ClaimExpired(c) \/ SweepExpired(c)
  PROVE  Good(c) /\ Resolved(c)
<1>0. Known(c) BY Facts
<1>1. UNCHANGED <<clocks, worker, spend, chain>>
  BY DEF ClaimExpired, SweepExpired
<1>2. PICK a \in Attempt :
        /\ attempt' = [attempt EXCEPT ![c] = a]
        /\ a.settlement = attempt[c].settlement /\ a.expiresAt = attempt[c].expiresAt
        /\ a.evidence = attempt[c].evidence \/ Dead(c)
  <2>1. CASE ClaimExpired(c)
    <3> DEFINE a == [attempt[c] EXCEPT !.evidence = "unused"]
    <3>1. a \in Attempt /\ attempt' = [attempt EXCEPT ![c] = a] /\ Dead(c)
          /\ a.settlement = attempt[c].settlement /\ a.expiresAt = attempt[c].expiresAt
      BY <1>0, <2>1 DEF Known, ClaimExpired, ExpiredOnChain, Dead, Attempt
    <3> QED BY <3>1
  <2>2. CASE SweepExpired(c)
    <3> DEFINE a == [attempt[c] EXCEPT !.state = "reconciliation_required"]
    <3>1. a \in Attempt /\ attempt' = [attempt EXCEPT ![c] = a]
          /\ a.settlement = attempt[c].settlement /\ a.expiresAt = attempt[c].expiresAt
          /\ a.evidence = attempt[c].evidence
      BY <1>0, <2>2 DEF Known, SweepExpired, Attempt
    <3> QED BY <3>1
  <2> QED BY <2>1, <2>2
<1>3. /\ attempt' \in [Calls -> Attempt] /\ attempt'[c] = a
      /\ \A d \in Calls : d # c => attempt'[d] = attempt[d]
  BY <1>2, Writes
<1>4. Settles(c)
  BY <1>0, <1>1, <1>2, <1>3 DEF Settles, Known, TypeOK
<1>5. worker[c].pc \in Before => /\ attempt'[c].evidence = "none"
                                  /\ attempt'[c].settlement = "none"
  BY <1>0, <1>2, <1>3 DEF Known, BeforeInv, Dead
<1> QED BY <1>1, <1>2, <1>3, <1>4, <1>5, SettlesGood

(* The chain pays what was sent and has not expired, or never will.         *)
LEMMA ChainGood ==
  ASSUME Inv, NEW c \in Calls, Pay(c) \/ CancelNonce(c) PROVE Good(c) /\ Resolved(c)
<1>0. Known(c) BY Facts
<1> USE <1>0 DEF Known, clocks
<1>1. UNCHANGED <<clocks, worker, attempt, spend>> BY DEF Pay, CancelNonce
<1>2. CASE Pay(c)
  <2>1. /\ chain' \in [Calls -> Nonce] /\ \A d \in Calls : d # c => chain'[d] = chain[d]
        /\ chain'[c].sent = chain[c].sent /\ chain'[c].paidAt = now
        /\ chain[c].sent /\ chain[c].state = "free"
        /\ block < attempt[c].expiresAt
    BY <1>2 DEF Pay, TypeOK, Nonce
  <2>2. ~Dead(c) /\ spend[c].state \in {"liability", "settled"}
    BY <2>1 DEF Dead, DeadInv, PaidInv, Attempt, Spend
  <2> QED
    BY <1>1, <2>1, <2>2
    DEF Good, Resolved, TypeOK, Only, Same, CallInv, BeforeInv, SigningInv, PaidInv,
        DeadInv, FlagInv
<1>3. CASE CancelNonce(c)
  <2>1. /\ chain' \in [Calls -> Nonce] /\ \A d \in Calls : d # c => chain'[d] = chain[d]
        /\ chain'[c].sent = chain[c].sent /\ chain'[c].state = "cancelled"
    BY <1>3 DEF CancelNonce, TypeOK, Nonce
  <2>2. chain[c].state = "free" /\ spend[c].state # "settled"
    BY <1>3 DEF CancelNonce, PaidInv
  <2> QED
    BY <1>1, <2>1, <2>2
    DEF Good, Resolved, TypeOK, Only, Same, CallInv, BeforeInv, SigningInv, PaidInv,
        DeadInv, Dead, FlagInv
<1> QED BY <1>2, <1>3

-----------------------------------------------------------------------------
(* Steps of a Call, and the steps of the clocks and of the provider's list. *)

LEMMA CallStep ==
  ASSUME Inv, NEW c \in Calls, WorkerNext(c) \/ ChainNext(c)
  PROVE  Good(c) /\ (Resolved(c) \/ Booked(c))
<1>1. CASE Prepare(c) BY <1>1, PrepareGood
<1>2. CASE Intent(c) BY <1>2, IntentGood
<1>3. CASE Screen(c) BY <1>3, ScreenGood
<1>4. CASE Admit(c) BY <1>4, AdmitGood
<1>5. CASE AdmitRefused(c) \/ CustodySigns(c) \/ Record(c) \/ Die(c)
  BY <1>5, MovesOn, OnwardGood
<1>6. CASE Submit(c) BY <1>6, SubmitGood
<1>7. CASE Send(c) BY <1>7, SendGood
<1>8. CASE Observe(c) BY <1>8, ObserveGood
<1>9. CASE Unsubmitted(c) BY <1>9, UnsubmittedGood
<1>10. CASE RecoverSettled(c) \/ RecoverFailed(c) \/ FinishExpired(c)
  BY <1>10, RecoverGood
<1>11. CASE ClaimExpired(c) \/ SweepExpired(c) BY <1>11, ClaimGood
<1>12. CASE Pay(c) \/ CancelNonce(c) BY <1>12, ChainGood
<1> QED
  BY <1>1, <1>2, <1>3, <1>4, <1>5, <1>6, <1>7, <1>8, <1>9, <1>10, <1>11, <1>12
  DEF WorkerNext, ChainNext

Elapse == Tick \/ NewBlock \/ Rotate \/ \E p \in Payees : Flag(p)

LEMMA ElapseTypes ==
  ASSUME Inv, Elapse
  PROVE  /\ TypeOK' /\ UNCHANGED <<worker, attempt, spend, chain>>
         /\ now' \in Int /\ block' \in Int /\ now' >= now /\ block' >= block
         /\ \A p \in Payees : flaggedAt'[p] = flaggedAt[p] \/ flaggedAt'[p] = now'
<1> USE DEF Inv, TypeOK, Clock
<1>1. CASE Tick BY <1>1 DEF Tick
<1>2. CASE NewBlock BY <1>2 DEF NewBlock
<1>3. CASE Rotate BY <1>3 DEF Rotate, MayRotate
<1>4. ASSUME NEW p \in Payees, Flag(p)
      PROVE  /\ TypeOK' /\ UNCHANGED <<worker, attempt, spend, chain>>
             /\ now' \in Int /\ block' \in Int /\ now' >= now /\ block' >= block
             /\ \A q \in Payees : flaggedAt'[q] = flaggedAt[q] \/ flaggedAt'[q] = now'
  BY <1>4 DEF Flag, Never
<1> QED BY <1>1, <1>2, <1>3, <1>4 DEF Elapse

LEMMA InvStep == Inv /\ [Next]_vars => Inv'
<1> SUFFICES ASSUME Inv, [Next]_vars PROVE Inv' OBVIOUS
<1>1. ASSUME NEW c \in Calls, WorkerNext(c) \/ ChainNext(c) PROVE Inv'
  <2>1. Good(c) BY <1>1, CallStep
  <2>2. ASSUME NEW d \in Calls, d # c PROVE CallInv(d)'
    <3>1. /\ TypeOK /\ CallInv(d) /\ Same(d)
          /\ now' \in Int /\ block' \in Int /\ now' >= now /\ block' >= block
          /\ \A p \in Payees : flaggedAt'[p] = flaggedAt[p] \/ flaggedAt'[p] = now'
      BY <2>1, <2>2 DEF Inv, Good, Only, TypeOK, Clock, clocks
    <3> QED BY <3>1, Rests
  <2> QED BY <2>1, <2>2 DEF Inv, Good
<1>2. ASSUME Elapse PROVE Inv'
  <2>1. ASSUME NEW d \in Calls PROVE CallInv(d)'
    <3>1. TypeOK /\ CallInv(d) /\ Same(d) BY <1>2, ElapseTypes DEF Inv, Same
    <3> QED BY <1>2, <3>1, ElapseTypes, Rests
  <2> QED BY <1>2, <2>1, ElapseTypes DEF Inv
<1>3. CASE UNCHANGED vars
  BY <1>3 DEF vars, Inv, TypeOK, CallInv, BeforeInv, SigningInv, PaidInv, DeadInv, Dead,
              FlagInv
<1> QED BY <1>1, <1>2, <1>3 DEF Next, Elapse

LEMMA InvHolds == Spec => []Inv
<1> QED BY InitInv, InvStep, PTL DEF Spec

(* TypeOK: every variable keeps its type in every reachable state.          *)
THEOREM TypeCorrect == Spec => []TypeOK
<1>1. Inv => TypeOK BY DEF Inv
<1> QED BY <1>1, InvHolds, PTL

(* UnusedNeverPaid: a reservation freed as unused is never paid.            *)
THEOREM UnusedIsNeverPaid == Spec => []UnusedNeverPaid
<1>1. Inv => UnusedNeverPaid BY DEF Inv, CallInv, DeadInv, Dead, UnusedNeverPaid
<1> QED BY <1>1, InvHolds, PTL

(* FlaggedNotPaid: no Call let in more than Freshness after its payee was   *)
(* flagged sends a payment.                                                 *)
THEOREM FlaggedIsNotPaid == Spec => []FlaggedNotPaid
<1>1. Inv => FlaggedNotPaid BY DEF Inv, CallInv, PaidInv, FlagInv, FlaggedNotPaid
<1> QED BY <1>1, InvHolds, PTL

(* ResolvedOnce: a resolved reservation never changes again.                *)
THEOREM ResolvesOnce == Spec => ResolvedOnce
<1>1. Inv /\ [Next]_vars =>
        [\A c \in Calls : spend[c].state \in {"settled", "unused"} => spend'[c] = spend[c]]_vars
  <2> SUFFICES ASSUME Inv, Next, NEW d \in Calls, spend[d].state \in {"settled", "unused"}
               PROVE  spend'[d] = spend[d]
    BY DEF vars
  <2>1. ASSUME NEW c \in Calls, WorkerNext(c) \/ ChainNext(c) PROVE spend'[d] = spend[d]
    BY <2>1, CallStep DEF Good, Only, Same, Resolved, Booked
  <2>2. CASE Elapse BY <2>2, ElapseTypes
  <2> QED BY <2>1, <2>2 DEF Next, Elapse
<1> QED BY <1>1, InvHolds, PTL DEF Spec, ResolvedOnce

-----------------------------------------------------------------------------
(* The limits.                                                              *)

LEMMA TotalMonotone ==
  ASSUME NEW S \in SUBSET Calls, NEW T \in SUBSET S
  PROVE  Total(S) \in Nat /\ Total(T) \in Nat /\ Total(T) <= Total(S)
<1> DEFINE Units(A) == {u \in A \X (1..MaxAmount) : u[2] <= Amount[u[1]]}
<1>1. IsFiniteSet(S) BY FS_Subset
<1>2. IsFiniteSet(1..MaxAmount) BY FS_Interval
<1>3. IsFiniteSet(S \X (1..MaxAmount)) BY <1>1, <1>2, FS_Product
<1>4. Units(S) \in SUBSET (S \X (1..MaxAmount)) OBVIOUS
<1>5. IsFiniteSet(Units(S)) BY <1>3, <1>4, FS_Subset
<1>6. Units(T) \in SUBSET Units(S) OBVIOUS
<1>7. IsFiniteSet(Units(T)) /\ Cardinality(Units(T)) <= Cardinality(Units(S))
  BY <1>5, <1>6, FS_Subset
<1>8. Total(S) = Cardinality(Units(S)) /\ Total(T) = Cardinality(Units(T)) BY DEF Total
<1> QED BY <1>5, <1>7, <1>8, FS_CardinalityType

(* Less exposure, of a payee that is no newer, stays within the limits.     *)
LEMMA FewerWithin ==
  ASSUME NEW S \in SUBSET Calls, NEW T \in SUBSET S, NEW p, WithinLimits(S, p)
  PROVE  WithinLimits(T, p)
<1>1. OfPayee(S, p) \in SUBSET Calls /\ OfPayee(T, p) \in SUBSET OfPayee(S, p)
  BY DEF OfPayee
<1>2. Total(S) \in Nat /\ Total(T) \in Nat /\ Total(T) <= Total(S)
  BY TotalMonotone
<1>3. /\ Total(OfPayee(S, p)) \in Nat /\ Total(OfPayee(T, p)) \in Nat
      /\ Total(OfPayee(T, p)) <= Total(OfPayee(S, p))
  BY <1>1, TotalMonotone
<1> QED BY <1>2, <1>3 DEF WithinLimits

LEMMA OlderWithin ==
  ASSUME NEW S, NEW p, WithinLimits(S, p), NewPayee(p)' => NewPayee(p)
  PROVE  /\ Total(S) <= PlatformMax /\ Total(OfPayee(S, p)) <= PayeeMax
         /\ NewPayee(p)' => Total(OfPayee(S, p)) <= NewPayeeMax
BY DEF WithinLimits

(* Reservations that rest or are resolved, while the clock goes on, expose  *)
(* no more; and no payee becomes new again.                                 *)
LEMMA ExposesLess ==
  ASSUME TypeOK, TypeOK', now' >= now, \A c \in Calls : Resolved(c)
  PROVE  /\ Exposed' \in SUBSET Exposed
         /\ \A p : NewPayee(p)' => NewPayee(p)
<1>1. now \in Nat /\ now' \in Nat BY DEF TypeOK, Clock
<1>2. ASSUME NEW c \in Calls, c \in Exposed' PROVE c \in Exposed
  <2>1. spend[c] \in Spend BY DEF TypeOK
  <2> QED BY <1>1, <1>2, <2>1 DEF Exposed, Resolved, Spend, Clock
<1>3. ASSUME NEW p, NewPayee(p)', NEW c \in OfPayee(Calls, p), spend[c].state # "none"
      PROVE  now - spend[c].reservedAt < Window
  <2>1. c \in Calls /\ spend[c] \in Spend BY DEF OfPayee, TypeOK
  <2>2. spend'[c].state # "none" /\ spend'[c].reservedAt = spend[c].reservedAt
    BY <1>3, <2>1 DEF Resolved
  <2>3. now' - spend[c].reservedAt < Window BY <1>3, <2>2 DEF NewPayee
  <2> QED BY <1>1, <2>1, <2>3 DEF Spend, Clock
<1> QED BY <1>2, <1>3 DEF Exposed, NewPayee

LEMMA CapsShrink ==
  ASSUME Inv, TypeOK', WithinCaps, now' >= now, \A c \in Calls : Resolved(c)
  PROVE  WithinCaps'
<1> SUFFICES ASSUME NEW p \in Payees PROVE WithinLimits(Exposed, p)'
  BY DEF WithinCaps
<1>1. Exposed \in SUBSET Calls /\ WithinLimits(Exposed, p) BY DEF Exposed, WithinCaps
<1>2. Exposed' \in SUBSET Exposed /\ (NewPayee(p)' => NewPayee(p))
  BY ExposesLess DEF Inv
<1>3. WithinLimits(Exposed', p) BY <1>1, <1>2, FewerWithin
<1> QED BY <1>2, <1>3, OlderWithin DEF WithinLimits

(* An admission adds what it has read to fit its payee and the platform.    *)
LEMMA CapsAdmit ==
  ASSUME Inv, WithinCaps, NEW c \in Calls, Good(c), Booked(c)
  PROVE  WithinCaps'
<1> SUFFICES ASSUME NEW p \in Payees PROVE WithinLimits(Exposed, p)'
  BY DEF WithinCaps
<1>1. now' = now /\ now \in Nat BY DEF Good, clocks, Inv, TypeOK, Clock
<1>2. \A d \in Calls : d # c => spend'[d] = spend[d] BY DEF Good, Only, Same
<1>3. spend'[c].state = "liability" /\ spend'[c].reservedAt = now BY DEF Booked
<1>4. Exposed' = Exposed \cup {c} BY <1>1, <1>2, <1>3 DEF Exposed
<1>5. NewPayee(p)' => NewPayee(p)
  BY <1>1, <1>2 DEF NewPayee, OfPayee, Booked
<1>6. WithinLimits(Exposed \cup {c}, Payee[c]) /\ WithinLimits(Exposed, p)
  BY DEF Booked, MayReserve, WithinCaps
<1>7. WithinLimits(Exposed \cup {c}, p)
  <2>1. CASE p = Payee[c] BY <1>6, <2>1
  <2>2. CASE p # Payee[c]
    <3>1. OfPayee(Exposed \cup {c}, p) = OfPayee(Exposed, p) BY <2>2 DEF OfPayee
    <3> QED BY <1>6, <3>1 DEF WithinLimits
  <2> QED BY <2>1, <2>2
<1> QED BY <1>4, <1>5, <1>7, OlderWithin DEF WithinLimits

LEMMA CapsStep == Inv /\ WithinCaps /\ [Next]_vars => WithinCaps'
<1> SUFFICES ASSUME Inv, WithinCaps, [Next]_vars PROVE WithinCaps' OBVIOUS
<1>0. TypeOK' BY InvStep DEF Inv
<1>1. ASSUME NEW c \in Calls, WorkerNext(c) \/ ChainNext(c) PROVE WithinCaps'
  <2>1. Good(c) /\ (Resolved(c) \/ Booked(c)) BY <1>1, CallStep
  <2>2. CASE Resolved(c)
    <3>1. \A d \in Calls : Resolved(d) BY <2>1, <2>2 DEF Good, Only, Same, Resolved
    <3>2. now' >= now BY <2>1 DEF Good, clocks, Inv, TypeOK, Clock
    <3> QED BY <1>0, <3>1, <3>2, CapsShrink
  <2>3. CASE Booked(c) BY <2>1, <2>3, CapsAdmit
  <2> QED BY <2>1, <2>2, <2>3
<1>2. CASE Elapse BY <1>0, <1>2, ElapseTypes, CapsShrink DEF Resolved
<1>3. CASE UNCHANGED vars
  <2>1. now' >= now /\ \A c \in Calls : Resolved(c)
    BY <1>3 DEF vars, Inv, TypeOK, Clock, Resolved
  <2> QED BY <1>0, <2>1, CapsShrink
<1> QED BY <1>1, <1>2, <1>3 DEF Next, Elapse

LEMMA CapsInit == Init => WithinCaps
<1> SUFFICES ASSUME Init, NEW p \in Payees PROVE WithinLimits(Exposed, p)
  BY DEF WithinCaps
<1>1. Exposed = {} BY DEF Init, Exposed
<1>2. Total({}) = 0
  <2>1. {u \in {} \X (1..MaxAmount) : u[2] <= Amount[u[1]]} = {} OBVIOUS
  <2> QED BY <2>1, FS_EmptySet DEF Total
<1>3. OfPayee({}, p) = {} BY DEF OfPayee
<1> QED BY <1>1, <1>2, <1>3 DEF WithinLimits

(* WithinCaps: what is reserved or lately settled stays within the limits.  *)
THEOREM CapsHold == Spec => []WithinCaps
BY CapsInit, CapsStep, InvHolds, PTL DEF Spec

(* PaidWithinCaps: so do the payments of the last window, because a payment *)
(* is a liability until it is settled, and settled no earlier than paid.    *)
THEOREM PaymentsWithinCaps == Spec => []PaidWithinCaps
<1>1. Inv /\ WithinCaps => PaidWithinCaps
  <2> SUFFICES ASSUME Inv, WithinCaps, NEW p \in Payees
               PROVE  WithinLimits(PaidSince(now - Window), p)
    BY DEF PaidWithinCaps
  <2>1. PaidSince(now - Window) \in SUBSET Exposed
    <3> SUFFICES ASSUME NEW c \in PaidSince(now - Window) PROVE c \in Exposed OBVIOUS
    <3>1. /\ c \in Calls /\ chain[c].state = "paid" /\ chain[c].paidAt >= now - Window
          /\ spend[c] \in Spend /\ chain[c] \in Nonce /\ now \in Nat
      BY DEF PaidSince, Inv, TypeOK, Clock
    <3> QED BY <3>1 DEF Inv, CallInv, PaidInv, Exposed, Spend, Nonce, Clock
  <2> QED BY <2>1, FewerWithin DEF WithinCaps, Exposed
<1> QED BY <1>1, CapsHold, InvHolds, PTL
=============================================================================
