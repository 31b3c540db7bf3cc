----------------------------- MODULE SourceEvidence -----------------------------
(***************************************************************************)
(* Receivables across two chains: the source escrow records obligations    *)
(* and payouts of an account (contracts/gpu/source/SourceEscrow.sol) and   *)
(* logs them; proofs of the logged events reach the destination late and   *)
(* in any order, where EvidenceBook consumes each once and ReceivableBook  *)
(* keeps a copy that facilities draw against (contracts/gpu).              *)
(*                                                                         *)
(* One provider, one admitted token, one account; its issuers, payers and  *)
(* borrower are registered on both sides.  The native verifier is the      *)
(* channel: it returns an event exactly if it is in the source's log.      *)
(* ingest takes several claims of one topic atomically; a claim reads only *)
(* what the ones before it left, so a call is a sequence of Ingest steps.  *)
(* Each chain has its clock; the destination's block time is at most       *)
(* MaxLag behind the source's.                                             *)
(***************************************************************************)
EXTENDS Integers, Sequences, FiniteSets, FiniteSetsExt, Functions

CONSTANTS
    Refs,               \* obligation references
    NoRef,              \* obligationRef 0: a payout for no obligation
    Facilities,
    NoFacility,
    Amounts,            \* amounts of one call
    Deltas,             \* signed corrections
    SettlementIds,      \* a payer's settlement ids
    DueAt,              \* dueAt of an obligation, 0 for none
    MaxReservation,     \* MAX_RESERVATION, 15 minutes
    MaxValidity,        \* EvidenceBook's maxValidity
    MaxAge,             \* checkpointMaxAge of the policy
    Tolerance,          \* checkpointToleranceBps
    OverdueHaircut,     \* overdueHaircutBps
    Bps,                \* 10_000
    MaxLag,             \* how far the destination's clock may be behind
    MaxTime             \* bound of both clocks

ASSUME EvidenceConstants ==
    /\ IsFiniteSet(Refs)
    /\ NoRef \notin Refs /\ NoFacility \notin Facilities
    /\ Amounts \subseteq Nat /\ Deltas \subseteq Int
    /\ DueAt \in [Refs -> Nat]
    /\ MaxReservation \in Nat /\ MaxValidity \in Nat /\ MaxAge \in Nat
    /\ Tolerance \in Nat /\ OverdueHaircut \in 0 .. Bps /\ Bps \in Nat \ {0}
    /\ MaxLag \in Nat /\ MaxTime \in Nat

VARIABLES
    srcNow, dstNow,     \* block.timestamp of the two chains
    obligation,         \* SourceEscrow._obligations
    account,            \* its account totals, checkpointSeq and protectedUntil
    payouts,            \* _payouts, by settlementSeq
    settlementUsed,
    escrow,             \* token: balance, _tracked and _unattributed
    log,                \* the events the escrow has emitted
    consumed,           \* EvidenceBook._consumed: positions in the log
    evidencePaused,
    registered,         \* ReceivableBook._facilities
    receivable,         \* _receivables
    stats,              \* _stats of the account
    checkpoint,         \* _checkpoints of the account
    cancelledSeqs       \* settlements cancelled at the destination

sourceVars == <<obligation, account, payouts, settlementUsed, escrow, log>>
bookVars == <<consumed, evidencePaused, registered, receivable, stats, checkpoint,
              cancelledSeqs>>
vars == <<srcNow, dstNow, sourceVars, bookVars>>

NoObligation == [status |-> "NONE", net |-> 0, paid |-> 0, revision |-> 0,
                 assignedTo |-> NoFacility]

NoReceivable == [state |-> "NONE", net |-> 0, paid |-> 0, revision |-> 0,
                 facility |-> NoFacility, disputed |-> FALSE, validUntil |-> 0,
                 denominationProven |-> FALSE]

NoCheckpoint == [seq |-> 0, latestRevision |-> 0, openAmount |-> 0,
                 paidCumulative |-> 0, observedAt |-> 0, protectedUntil |-> 0]

Init ==
    /\ srcNow = 1 /\ dstNow = 1
    /\ obligation = [ref \in Refs |-> NoObligation]
    /\ account = [latestRevision |-> 0, openAmount |-> 0, paidCumulative |-> 0,
                  checkpointSeq |-> 0, protectedUntil |-> 0]
    /\ payouts = <<>>
    /\ settlementUsed = {}
    /\ escrow = [balance |-> 0, tracked |-> 0, unattributed |-> 0]
    /\ log = <<>>
    /\ consumed = {}
    /\ evidencePaused = FALSE
    /\ registered = {}
    /\ receivable = [ref \in Refs |-> NoReceivable]
    /\ stats = [eventsConsumed |-> 0, openAmount |-> 0, paidCumulative |-> 0]
    /\ checkpoint = NoCheckpoint
    /\ cancelledSeqs = {}

-----------------------------------------------------------------------------
(* The source escrow *)

NeverReserved == TRUE               \* mutant: the lock does not hold changes back

Unreserved == srcNow >= account.protectedUntil      \* _requireUnreserved

Emit(events) == log' = log \o events

(* An obligation event: one revision more, and the open amount moves by d. *)
Bumped(d) == [account EXCEPT !.latestRevision = @ + 1, !.openAmount = @ + d]

Recognition(ref, amount, v) ==
    [kind |-> "RECOGNIZED", version |-> v, ref |-> ref, revision |-> 1, amount |-> amount]

RecognizeObligation(ref, amount) ==         \* ISSUER; both log versions
    /\ Unreserved
    /\ amount # 0
    /\ obligation[ref].status = "NONE"
    /\ obligation' = [obligation EXCEPT ![ref] = [NoObligation EXCEPT
                          !.status = "OPEN", !.net = amount, !.revision = 1]]
    /\ account' = Bumped(amount)
    /\ Emit(<<Recognition(ref, amount, 1), Recognition(ref, amount, 2)>>)
    /\ UNCHANGED <<srcNow, dstNow, payouts, settlementUsed, escrow, bookVars>>

AssignObligation(ref, f) ==                 \* ISSUER or CONTROLLER
    LET o == obligation[ref]
    IN  /\ Unreserved
        /\ o.status = "OPEN"
        /\ o.assignedTo \in {NoFacility, f}
        /\ obligation' = [obligation EXCEPT ![ref] = [o EXCEPT !.assignedTo = f,
                                                               !.revision = @ + 1]]
        /\ account' = Bumped(0)
        /\ Emit(<<[kind |-> "ASSIGNED", ref |-> ref, facility |-> f,
                   revision |-> o.revision + 1]>>)
        /\ UNCHANGED <<srcNow, dstNow, payouts, settlementUsed, escrow, bookVars>>

CorrectObligation(ref, delta, cancel) ==    \* ISSUER; a CANCEL zeroes what is open
    LET o == obligation[ref]
    IN  /\ Unreserved
        /\ o.status = "OPEN"
        /\ o.net + delta >= o.paid
        /\ cancel => o.net + delta = o.paid
        /\ obligation' = [obligation EXCEPT ![ref] = [o EXCEPT
                              !.net = @ + delta, !.revision = @ + 1,
                              !.status = IF cancel THEN "CANCELLED" ELSE @]]
        /\ account' = Bumped(delta)
        /\ Emit(<<[kind |-> "CORRECTED", ref |-> ref, amount |-> delta,
                   revision |-> o.revision + 1, cancel |-> cancel]>>)
        /\ UNCHANGED <<srcNow, dstNow, payouts, settlementUsed, escrow, bookVars>>

CheckpointEvent(version, observedAt, until) ==
    [kind |-> "CHECKPOINT", version |-> version, seq |-> account.checkpointSeq + 1,
     latestRevision |-> account.latestRevision, openAmount |-> account.openAmount,
     paidCumulative |-> account.paidCumulative,
     observedAt |-> observedAt, protectedUntil |-> until]

PublishCheckpoint ==                        \* ISSUER; also while reserved
    /\ account' = [account EXCEPT !.checkpointSeq = @ + 1]
    /\ Emit(<<CheckpointEvent(1, 0, 0)>>)
    /\ UNCHANGED <<srcNow, dstNow, obligation, payouts, settlementUsed, escrow, bookVars>>

ReserveCheckpoint(until) ==                 \* ISSUER; locks the account until then
    /\ Unreserved
    /\ until \in srcNow + 1 .. srcNow + MaxReservation
    /\ account' = [account EXCEPT !.checkpointSeq = @ + 1, !.protectedUntil = until]
    /\ Emit(<<CheckpointEvent(2, srcNow, until)>>)
    /\ UNCHANGED <<srcNow, dstNow, obligation, payouts, settlementUsed, escrow, bookVars>>

Received(amount) == [escrow EXCEPT !.balance = @ + amount, !.tracked = @ + amount]

Settle(ref, amount, id) ==                  \* a registered payer
    /\ Unreserved
    /\ amount # 0
    /\ id \notin settlementUsed
    /\ settlementUsed' = settlementUsed \union {id}
    /\ \/ /\ ref = NoRef
          /\ account' = [account EXCEPT !.paidCumulative = @ + amount]
          /\ UNCHANGED obligation
       \/ /\ ref # NoRef
          /\ LET o == obligation[ref]
             IN  /\ o.status = "OPEN"
                 /\ amount <= o.net - o.paid
                 /\ obligation' = [obligation EXCEPT ![ref] = [o EXCEPT
                        !.paid = @ + amount, !.revision = @ + 1,
                        !.status = IF o.paid + amount = o.net THEN "PAID" ELSE @]]
          /\ account' = [Bumped(-amount) EXCEPT !.paidCumulative = @ + amount]
    /\ escrow' = Received(amount)
    /\ payouts' = Append(payouts, [ref |-> ref, amount |-> amount, cancelled |-> FALSE])
    /\ Emit(<<[kind |-> "PAYOUT", ref |-> ref, amount |-> amount,
               seq |-> Len(payouts) + 1]>>)
    /\ UNCHANGED <<srcNow, dstNow, bookVars>>

CancelPayout(seq) ==                        \* ISSUER; the tokens go back
    LET p == payouts[seq]
    IN  /\ Unreserved
        /\ ~p.cancelled
        /\ payouts' = [payouts EXCEPT ![seq].cancelled = TRUE]
        /\ \/ /\ p.ref = NoRef
              /\ account' = [account EXCEPT !.paidCumulative = @ - p.amount]
              /\ UNCHANGED obligation
           \/ /\ p.ref # NoRef
              /\ obligation' = [obligation EXCEPT ![p.ref] = [obligation[p.ref] EXCEPT
                     !.paid = @ - p.amount, !.revision = @ + 1,
                     !.status = IF @ = "PAID" THEN "OPEN" ELSE @]]
              /\ account' = [Bumped(p.amount) EXCEPT !.paidCumulative = @ - p.amount]
        /\ escrow.tracked >= p.amount
        /\ escrow' = [escrow EXCEPT !.balance = @ - p.amount, !.tracked = @ - p.amount]
        /\ Emit(<<[kind |-> "PAYOUT_CANCELLED", ref |-> p.ref, amount |-> p.amount,
                   seq |-> seq]>>)
        /\ UNCHANGED <<srcNow, dstNow, settlementUsed, bookVars>>

(* Token moves that are no payouts; none of them is logged for the book. *)

escrowOnly == <<srcNow, dstNow, obligation, account, payouts, settlementUsed, log, bookVars>>

DirectTransfer(amount) ==                   \* anyone, past the contract
    /\ escrow' = [escrow EXCEPT !.balance = @ + amount]
    /\ UNCHANGED escrowOnly

DepositUnattributed(amount) ==              \* anyone
    /\ amount # 0
    /\ escrow' = [Received(amount) EXCEPT !.unattributed = @ + amount]
    /\ UNCHANGED escrowOnly

RecordDirectDeposit ==                      \* anyone; sweeps direct transfers
    LET measured == escrow.balance - escrow.tracked
    IN  /\ measured > 0
        /\ escrow' = [escrow EXCEPT !.tracked = @ + measured, !.unattributed = @ + measured]
        /\ UNCHANGED escrowOnly

Withdraw(amount) ==                         \* OWNER; the unattributed bucket first
    /\ amount # 0
    /\ amount <= escrow.tracked
    /\ escrow' = [balance |-> escrow.balance - amount, tracked |-> escrow.tracked - amount,
                  unattributed |-> IF amount <= escrow.unattributed
                                   THEN escrow.unattributed - amount ELSE 0]
    /\ UNCHANGED escrowOnly

-----------------------------------------------------------------------------
(* The destination *)

(* _economicKey: both versions of a recognition are one economic event. *)
EconomicKey(e) ==
    CASE e.kind \in {"RECOGNIZED", "ASSIGNED", "CORRECTED"} -> <<e.kind, e.ref, e.revision>>
      [] e.kind \in {"PAYOUT", "PAYOUT_CANCELLED"} -> <<e.kind, e.ref, e.seq>>
      [] e.kind = "CHECKPOINT" -> <<e.kind, NoRef, e.seq>>

EconomicSeen(e) == \E i \in consumed : EconomicKey(log[i]) = EconomicKey(e)

IsOpen(ref) == receivable[ref].state \in {"OPEN", "ASSIGNED"}

Counted(d, paid) ==                         \* an obligation event reaches the stats
    [eventsConsumed |-> stats.eventsConsumed + 1, openAmount |-> stats.openAmount + d,
     paidCumulative |-> stats.paidCumulative + paid]

Recognize(e, validUntil) ==
    /\ receivable[e.ref].state = "NONE"
    /\ receivable' = [receivable EXCEPT ![e.ref] = [NoReceivable EXCEPT
                          !.state = "OPEN", !.net = e.amount, !.revision = 1,
                          !.validUntil = validUntil,
                          !.denominationProven = (e.version = 2)]]
    /\ stats' = Counted(e.amount, 0)
    /\ UNCHANGED <<checkpoint, cancelledSeqs>>

Assign(e, validUntil) ==
    /\ IsOpen(e.ref)
    /\ e.revision = receivable[e.ref].revision + 1
    /\ e.facility \in registered
    /\ receivable[e.ref].facility \in {NoFacility, e.facility}
    /\ receivable' = [receivable EXCEPT ![e.ref] = [receivable[e.ref] EXCEPT
                          !.state = "ASSIGNED", !.facility = e.facility,
                          !.revision = e.revision, !.validUntil = validUntil]]
    /\ stats' = Counted(0, 0)
    /\ UNCHANGED <<checkpoint, cancelledSeqs>>

Correct(e, validUntil) ==
    LET r == receivable[e.ref]
    IN  /\ IsOpen(e.ref)
        /\ e.revision = r.revision + 1
        /\ r.net + e.amount >= r.paid
        /\ e.cancel => r.net + e.amount = r.paid
        /\ receivable' = [receivable EXCEPT ![e.ref] = [r EXCEPT
                              !.state = IF e.cancel THEN "CANCELLED" ELSE @,
                              !.net = @ + e.amount, !.revision = e.revision,
                              !.validUntil = validUntil]]
        /\ stats' = Counted(e.amount, 0)
        /\ UNCHANGED <<checkpoint, cancelledSeqs>>

(* _payout: the log carries no revision; the receivable's goes up by one. *)
Payout(e) ==
    /\ \/ /\ e.ref = NoRef
          /\ stats' = [stats EXCEPT !.paidCumulative = @ + e.amount]
          /\ UNCHANGED receivable
       \/ /\ e.ref # NoRef
          /\ LET r == receivable[e.ref]
             IN  /\ IsOpen(e.ref)
                 /\ e.amount <= r.net - r.paid
                 /\ receivable' = [receivable EXCEPT ![e.ref] = [r EXCEPT
                        !.paid = @ + e.amount, !.revision = @ + 1,
                        !.state = IF r.paid + e.amount = r.net THEN "PAID" ELSE @]]
          /\ stats' = Counted(-e.amount, e.amount)
    /\ UNCHANGED <<checkpoint, cancelledSeqs>>

(* _settlements: the payouts consumed, with those cancelled since. *)
SettlementExists(seq) ==
    \E i \in consumed : log[i].kind = "PAYOUT" /\ log[i].seq = seq

PayoutCancelledUncounted(e) ==              \* mutant: the revision counter is left alone
    /\ SettlementExists(e.seq)
    /\ e.seq \notin cancelledSeqs
    /\ cancelledSeqs' = cancelledSeqs \union {e.seq}
    /\ receivable' = IF e.ref = NoRef THEN receivable
                     ELSE [receivable EXCEPT ![e.ref].paid = @ - e.amount,
                                             ![e.ref].revision = @ + 1]
    /\ stats' = [stats EXCEPT !.paidCumulative = @ - e.amount]
    /\ UNCHANGED checkpoint

PayoutCancelled(e) ==                       \* _cancelPayout
    /\ SettlementExists(e.seq)
    /\ e.seq \notin cancelledSeqs
    /\ cancelledSeqs' = cancelledSeqs \union {e.seq}
    /\ \/ /\ e.ref = NoRef
          /\ stats' = [stats EXCEPT !.paidCumulative = @ - e.amount]
          /\ UNCHANGED receivable
       \/ /\ e.ref # NoRef
          /\ receivable' = [receivable EXCEPT ![e.ref] = [receivable[e.ref] EXCEPT
                 !.paid = @ - e.amount, !.revision = @ + 1,
                 !.state = IF @ # "PAID" THEN @
                           ELSE IF receivable[e.ref].facility = NoFacility
                                THEN "OPEN" ELSE "ASSIGNED"]]
          /\ stats' = Counted(e.amount, -e.amount)
    /\ UNCHANGED checkpoint

Checkpoint(e) ==
    /\ e.version = 2 => /\ e.observedAt \in 1 .. dstNow
                        /\ e.protectedUntil > e.observedAt
                        /\ e.protectedUntil <= e.observedAt + MaxReservation
    /\ e.seq > checkpoint.seq
    /\ checkpoint' = [seq |-> e.seq, latestRevision |-> e.latestRevision,
                      openAmount |-> e.openAmount, paidCumulative |-> e.paidCumulative,
                      observedAt |-> e.observedAt, protectedUntil |-> e.protectedUntil]
    /\ UNCHANGED <<receivable, stats, cancelledSeqs>>

(* EvidenceBook.consume of one proven event: once, as source event and as   *)
(* economic event, with a validity the policy allows.                       *)
Consume(i, validUntil) ==
    /\ ~evidencePaused
    /\ i \notin consumed
    /\ validUntil \in dstNow + 1 .. dstNow + MaxValidity
    /\ ~EconomicSeen(log[i])
    /\ consumed' = consumed \union {i}

Apply(e, validUntil) ==
    \/ e.kind = "RECOGNIZED" /\ Recognize(e, validUntil)
    \/ e.kind = "ASSIGNED" /\ Assign(e, validUntil)
    \/ e.kind = "CORRECTED" /\ Correct(e, validUntil)
    \/ e.kind = "PAYOUT" /\ Payout(e)
    \/ e.kind = "PAYOUT_CANCELLED" /\ PayoutCancelled(e)
    \/ e.kind = "CHECKPOINT" /\ Checkpoint(e)

Ingest(i, validUntil) ==                    \* RELAYER or SERVICER
    /\ Consume(i, validUntil)
    /\ Apply(log[i], validUntil)
    /\ UNCHANGED <<srcNow, dstNow, sourceVars, evidencePaused, registered>>

PauseEvidenceIntake(paused) ==              \* GUARDIAN
    /\ evidencePaused' = paused
    /\ UNCHANGED <<srcNow, dstNow, sourceVars, consumed, registered, receivable, stats,
                   checkpoint, cancelledSeqs>>

RegisterFacility(f) ==                      \* UNDERWRITER
    /\ f \notin registered
    /\ registered' = registered \union {f}
    /\ UNCHANGED <<srcNow, dstNow, sourceVars, consumed, evidencePaused, receivable,
                   stats, checkpoint, cancelledSeqs>>

SetDisputed(ref, disputed) ==               \* UNDERWRITER or GUARDIAN
    /\ receivable[ref].state # "NONE"
    /\ receivable' = [receivable EXCEPT ![ref].disputed = disputed]
    /\ UNCHANGED <<srcNow, dstNow, sourceVars, consumed, evidencePaused, registered,
                   stats, checkpoint, cancelledSeqs>>

CheckpointOk ==                             \* _checkpointOk at block.timestamp
    LET hi == Max({checkpoint.openAmount, stats.openAmount})
        lo == Min({checkpoint.openAmount, stats.openAmount})
    IN  /\ checkpoint.observedAt # 0
        /\ dstNow \in checkpoint.observedAt .. checkpoint.protectedUntil - 1
        /\ dstNow - checkpoint.observedAt <= MaxAge
        /\ checkpoint.latestRevision = stats.eventsConsumed
        /\ checkpoint.paidCumulative = stats.paidCumulative
        /\ hi - lo <= (stats.openAmount * Tolerance) \div Bps

Counts(ref, f) ==                           \* the filters of eligibleUnpaid
    LET r == receivable[ref]
    IN  /\ r.state = "ASSIGNED" /\ ~r.disputed
        /\ r.facility = f
        /\ r.validUntil > dstNow
        /\ r.denominationProven
        /\ CheckpointOk

Unpaid(ref) ==                              \* after the haircut of an overdue one
    LET open == receivable[ref].net - receivable[ref].paid
    IN  IF DueAt[ref] # 0 /\ DueAt[ref] < dstNow
        THEN (open * (Bps - OverdueHaircut)) \div Bps
        ELSE open

EligibleUnpaid(f) ==
    IF f \in registered
    THEN SumFunctionOnSet([ref \in Refs |-> Unpaid(ref)], {ref \in Refs : Counts(ref, f)})
    ELSE 0

-----------------------------------------------------------------------------
SourceTick ==
    /\ srcNow < MaxTime
    /\ srcNow < dstNow + MaxLag
    /\ srcNow' = srcNow + 1
    /\ UNCHANGED <<dstNow, sourceVars, bookVars>>

DestinationTick ==
    /\ dstNow < MaxTime
    /\ dstNow' = dstNow + 1
    /\ UNCHANGED <<srcNow, sourceVars, bookVars>>

SourceNext ==
    \/ \E ref \in Refs :
          \/ \E a \in Amounts : RecognizeObligation(ref, a)
          \/ \E f \in Facilities : AssignObligation(ref, f)
          \/ \E d \in Deltas, cancel \in BOOLEAN : CorrectObligation(ref, d, cancel)
    \/ PublishCheckpoint
    \/ \E until \in 1 .. MaxTime : ReserveCheckpoint(until)
    \/ \E ref \in Refs \union {NoRef}, a \in Amounts, id \in SettlementIds : Settle(ref, a, id)
    \/ \E seq \in DOMAIN payouts : CancelPayout(seq)
    \/ \E a \in Amounts : DirectTransfer(a) \/ DepositUnattributed(a) \/ Withdraw(a)
    \/ RecordDirectDeposit

DestinationNext ==
    \/ \E i \in DOMAIN log, validUntil \in 1 .. MaxTime + MaxValidity : Ingest(i, validUntil)
    \/ \E paused \in BOOLEAN : PauseEvidenceIntake(paused)
    \/ \E f \in Facilities : RegisterFacility(f)
    \/ \E ref \in Refs, disputed \in BOOLEAN : SetDisputed(ref, disputed)

Next == SourceNext \/ DestinationNext \/ SourceTick \/ DestinationTick

Spec == Init /\ [][Next]_vars

-----------------------------------------------------------------------------
(* Properties *)

(* Types; in particular no total of either side is ever negative, whatever  *)
(* the order in which payouts and their cancellations are proved.           *)
TypeOK ==
    /\ srcNow \in 1 .. MaxTime /\ dstNow \in 1 .. MaxTime
    /\ obligation \in [Refs -> [status : {"NONE", "OPEN", "PAID", "CANCELLED"},
                                net : Nat, paid : Nat, revision : Nat,
                                assignedTo : Facilities \union {NoFacility}]]
    /\ account \in [latestRevision : Nat, openAmount : Nat, paidCumulative : Nat,
                    checkpointSeq : Nat, protectedUntil : Nat]
    /\ payouts \in Seq([ref : Refs \union {NoRef}, amount : Nat, cancelled : BOOLEAN])
    /\ settlementUsed \subseteq SettlementIds
    /\ escrow \in [balance : Nat, tracked : Nat, unattributed : Nat]
    /\ escrow.tracked <= escrow.balance
    /\ consumed \subseteq DOMAIN log
    /\ evidencePaused \in BOOLEAN
    /\ registered \subseteq Facilities
    /\ receivable \in [Refs -> [state : {"NONE", "OPEN", "ASSIGNED", "PAID", "CANCELLED"},
                                net : Nat, paid : Nat, revision : Nat,
                                facility : Facilities \union {NoFacility},
                                disputed : BOOLEAN, validUntil : Nat,
                                denominationProven : BOOLEAN]]
    /\ stats \in [eventsConsumed : Nat, openAmount : Nat, paidCumulative : Nat]
    /\ checkpoint \in [seq : Nat, latestRevision : Nat, openAmount : Nat,
                       paidCumulative : Nat, observedAt : Nat, protectedUntil : Nat]
    /\ cancelledSeqs \subseteq DOMAIN payouts

(* What a facility may draw against is owed to it on the source chain at    *)
(* that moment, although the copy is fed late and out of order: counting    *)
(* the consumed events against a checkpoint of a locked account is enough.  *)
(* Holds for MaxLag = 0, a destination clock that is never behind.          *)
SourceUnpaid(f) ==
    SumFunctionOnSet([ref \in Refs |-> obligation[ref].net - obligation[ref].paid],
                     {ref \in Refs : /\ obligation[ref].status = "OPEN"
                                     /\ obligation[ref].assignedTo = f})

EligibleIsOwed == \A f \in Facilities : EligibleUnpaid(f) <= SourceUnpaid(f)

(* Both totals are the sums of their parts: the escrow's latestRevision and *)
(* open amount over its obligations, the book's stats over its receivables, *)
(* and paidCumulative over the payouts not cancelled on each side.          *)
Paid(e) ==
    CASE e.kind = "PAYOUT" -> e.amount
      [] e.kind = "PAYOUT_CANCELLED" -> -e.amount
      [] OTHER -> 0

LivePayouts(events) == SumFunctionOnSet([i \in DOMAIN log |-> Paid(log[i])], events)

TotalsAgree ==
    /\ account.latestRevision = SumFunctionOnSet([ref \in Refs |-> obligation[ref].revision], Refs)
    /\ account.openAmount =
          SumFunctionOnSet([ref \in Refs |-> obligation[ref].net - obligation[ref].paid], Refs)
    /\ account.paidCumulative = LivePayouts(DOMAIN log)
    /\ stats.eventsConsumed = SumFunctionOnSet([ref \in Refs |-> receivable[ref].revision], Refs)
    /\ stats.openAmount =
          SumFunctionOnSet([ref \in Refs |-> receivable[ref].net - receivable[ref].paid], Refs)
    /\ stats.paidCumulative = LivePayouts(consumed)
=============================================================================
