------------------------------- MODULE Recovery -------------------------------
(***************************************************************************)
(* Cash back and losses: RepaymentRouter, SettlementReceiver and           *)
(* RecoveryManager (contracts/gpu), on the facility states of              *)
(* CreditFacilityManager.  Every repayment runs LEDGER.allocate (here: pay *)
(* down `debt', the rest is the borrower's), VAULT.onRepayment,            *)
(* observeAllocation and, at zero debt, the move to REPAID.  The token is  *)
(* standard, so a transfer delivers its amount; impairment amounts and     *)
(* shares are LendingVault's.  The reserve of a facility has one owner.    *)
(***************************************************************************)
EXTENDS Integers, FiniteSets, Functions, FacilityStates

CONSTANTS
    Facilities,
    SettlementIds, LossIds,
    NoLoss,             \* writeOffApproval before any approval
    Amounts,            \* amounts of one call
    MaxReceipt,         \* maxReceipt of the settlement route
    Graces,             \* graceSeconds of a schedule
    MaxTime

ASSUME RecoveryConstants ==
    /\ Amounts \subseteq Nat /\ Graces \subseteq Nat
    /\ MaxReceipt \in Nat /\ MaxTime \in Nat
    /\ NoLoss \notin LossIds
    /\ IsFiniteSet(Facilities) /\ IsFiniteSet(SettlementIds)

VARIABLES
    now,
    state, debt,            \* CreditFacilityManager, DebtLedger
    frozen,                 \* accrual frozen in the ledger
    schedule,               \* RecoveryManager._schedules
    totalAllocated,
    lossUsed,
    reserveCash,            \* token balance of the recovery manager
    receipts,               \* RepaymentRouter._receipts; total 0 = none
    routerCash,             \* token balance of the router
    arrived,                \* SettlementReceiver.received
    routeEnabled,
    refundable,             \* LendingVaultV2.refundableOf
    paidIn, paidOut         \* ghost: all cash paid in, and paid back to its owners

facilityVars == <<state, debt, frozen, totalAllocated, refundable>>
settleVars == <<receipts, routerCash, arrived, routeEnabled>>
recoveryVars == <<schedule, lossUsed, reserveCash>>
vars == <<now, facilityVars, settleVars, recoveryVars, paidIn, paidOut>>

Schedule == [dueAt : Nat, grace : Nat, disputeUntil : Nat, dueAmount : Nat,
             paidAtSchedule : Nat, pledgedReserve : Nat, defaultApproved : BOOLEAN,
             disputed : BOOLEAN, writtenOff : BOOLEAN,
             writeOffApproval : LossIds \union {NoLoss}]

-----------------------------------------------------------------------------
(* Shared internals *)

LesserOf(a, b) == IF a < b THEN a ELSE b

InstallmentPaid(f) ==
    \/ debt[f] = 0
    \/ /\ schedule[f].dueAt # 0
       /\ totalAllocated[f] - schedule[f].paidAtSchedule >= schedule[f].dueAmount

ApplyAllReceived(f, got) ==         \* mutant: the excess counts as paid as well
    LET applied == LesserOf(got, debt[f])
    IN  /\ debt' = [debt EXCEPT ![f] = @ - applied]
        /\ refundable' = [refundable EXCEPT ![f] = @ + got - applied]
        /\ totalAllocated' = [totalAllocated EXCEPT ![f] = @ + got]
        /\ state' = IF applied = debt[f] /\ state[f] \in SyncableStates
                    THEN [state EXCEPT ![f] = "REPAID"] ELSE state
        /\ UNCHANGED frozen

(* RepaymentRouter._apply: `got' has reached the vault. *)
Apply(f, got) ==
    LET applied == LesserOf(got, debt[f])
    IN  /\ debt' = [debt EXCEPT ![f] = @ - applied]
        /\ refundable' = [refundable EXCEPT ![f] = @ + got - applied]
        /\ totalAllocated' = [totalAllocated EXCEPT ![f] = @ + applied]
        /\ state' = IF applied = debt[f] /\ state[f] \in SyncableStates
                    THEN [state EXCEPT ![f] = "REPAID"] ELSE state
        /\ UNCHANGED frozen

RecoveryTransition(f, to) ==        \* the control agreement is usable at E2
    /\ <<state[f], to>> \in TransitionTable
    /\ state' = [state EXCEPT ![f] = to]

DefaultDue(f) ==                    \* _requireDefaultDue
    /\ schedule[f].dueAt # 0
    /\ now > schedule[f].dueAt + schedule[f].grace
    /\ ~InstallmentPaid(f)
    /\ ~schedule[f].disputed
    /\ now > schedule[f].disputeUntil
    /\ state[f] = "DELINQUENT"

-----------------------------------------------------------------------------
NoSchedule == [dueAt |-> 0, grace |-> 0, disputeUntil |-> 0, dueAmount |-> 0,
               paidAtSchedule |-> 0, pledgedReserve |-> 0, defaultApproved |-> FALSE,
               disputed |-> FALSE, writtenOff |-> FALSE, writeOffApproval |-> NoLoss]

Init ==
    /\ now = 0
    /\ state = [f \in Facilities |-> "ACTIVE"]
    /\ debt = [f \in Facilities |-> 0]
    /\ frozen = [f \in Facilities |-> FALSE]
    /\ schedule = [f \in Facilities |-> NoSchedule]
    /\ totalAllocated = [f \in Facilities |-> 0]
    /\ lossUsed = {}
    /\ reserveCash = 0 /\ routerCash = 0
    /\ receipts = [s \in SettlementIds |-> [total |-> 0, allocated |-> 0]]
    /\ arrived = {}
    /\ routeEnabled = TRUE
    /\ refundable = [f \in Facilities |-> 0]
    /\ paidIn = 0 /\ paidOut = 0

(* RepaymentRouter *)

RepayFor(f, amount) ==              \* anyone
    /\ amount # 0
    /\ debt[f] # 0
    /\ Apply(f, amount)
    /\ paidIn' = paidIn + amount
    /\ UNCHANGED <<now, settleVars, recoveryVars, paidOut>>

RepayExact(f, maxAmount) ==         \* anyone; capped at the debt before the transfer
    /\ maxAmount # 0
    /\ debt[f] # 0
    /\ Apply(f, LesserOf(maxAmount, debt[f]))
    /\ paidIn' = paidIn + LesserOf(maxAmount, debt[f])
    /\ UNCHANGED <<now, settleVars, recoveryVars, paidOut>>

RecordAgain(s, amount) ==           \* mutant: a known settlement recorded again
    receipts' = [receipts EXCEPT ![s] = [total |-> amount, allocated |-> 0]]

Record(s, amount) ==                \* _record
    /\ receipts[s].total = 0
    /\ receipts' = [receipts EXCEPT ![s] = [total |-> amount, allocated |-> 0]]

RecordDestinationReceipt(s, amount) ==      \* TREASURY or RELAYER
    /\ amount # 0
    /\ Record(s, amount)
    /\ routerCash' = routerCash + amount
    /\ paidIn' = paidIn + amount
    /\ UNCHANGED <<now, facilityVars, arrived, routeEnabled, recoveryVars, paidOut>>

Allocate(s, f, amount) ==           \* TREASURY or RELAYER; debt may be zero already
    /\ amount # 0
    /\ receipts[s].allocated + amount <= receipts[s].total
    /\ receipts' = [receipts EXCEPT ![s].allocated = @ + amount]
    /\ routerCash' = routerCash - amount
    /\ Apply(f, amount)
    /\ UNCHANGED <<now, arrived, routeEnabled, recoveryVars, paidIn, paidOut>>

(* receiveSettlement: record, then allocate all of it. *)
ReceiveSettlement(s, f, amount) ==
    /\ amount # 0
    /\ receipts[s].total = 0
    /\ receipts' = [receipts EXCEPT ![s] = [total |-> amount, allocated |-> amount]]
    /\ Apply(f, amount)
    /\ paidIn' = paidIn + amount
    /\ UNCHANGED <<now, routerCash, routeEnabled, recoveryVars, paidOut>>

RouterReceiveSettlement(s, f, amount) ==    \* TREASURY or RELAYER
    ReceiveSettlement(s, f, amount) /\ UNCHANGED arrived

RefundExcess(f) ==                  \* linked wallet or SERVICER, to the wallet
    /\ refundable[f] # 0
    /\ refundable' = [refundable EXCEPT ![f] = 0]
    /\ paidOut' = paidOut + refundable[f]
    /\ UNCHANGED <<now, state, debt, frozen, totalAllocated, settleVars, recoveryVars, paidIn>>

(* SettlementReceiver *)

SetRouteEnabled(enabled) ==         \* TREASURY
    /\ routeEnabled' = enabled
    /\ UNCHANGED <<now, facilityVars, receipts, routerCash, arrived, recoveryVars,
                   paidIn, paidOut>>

AdapterReceiveSettlement(s, f, amount) ==   \* the route's adapter, before its deadline
    /\ routeEnabled
    /\ amount <= MaxReceipt
    /\ s \notin arrived
    /\ arrived' = arrived \union {s}
    /\ ReceiveSettlement(s, f, amount)

(* CreditFacilityManager, as far as cash and recovery move it *)

Draw(f, amount) ==
    /\ amount # 0
    /\ state[f] = "ACTIVE"
    /\ debt' = [debt EXCEPT ![f] = @ + amount]
    /\ UNCHANGED <<now, state, frozen, totalAllocated, refundable, settleVars,
                   recoveryVars, paidIn, paidOut>>

ManagerRepay(f, amount) ==          \* manager.repayFor: REPAID only where the table says so
    LET applied == LesserOf(amount, debt[f])
    IN  /\ amount # 0
        /\ debt' = [debt EXCEPT ![f] = @ - applied]
        /\ refundable' = [refundable EXCEPT ![f] = @ + amount - applied]
        /\ totalAllocated' = [totalAllocated EXCEPT ![f] = @ + applied]
        /\ state' = IF applied = debt[f] /\ <<state[f], "REPAID">> \in TransitionTable
                    THEN [state EXCEPT ![f] = "REPAID"] ELSE state
        /\ paidIn' = paidIn + amount
        /\ UNCHANGED <<now, frozen, settleVars, recoveryVars, paidOut>>

FreezeDraws(f) ==                   \* GUARDIAN
    /\ state[f] = "ACTIVE"
    /\ state' = [state EXCEPT ![f] = "DRAW_FROZEN"]
    /\ UNCHANGED <<now, debt, frozen, totalAllocated, refundable, settleVars,
                   recoveryVars, paidIn, paidOut>>

LiftFreeze(f) ==                    \* transition DRAW_FROZEN -> ACTIVE by the UNDERWRITER
    /\ state[f] = "DRAW_FROZEN"
    /\ state' = [state EXCEPT ![f] = "ACTIVE"]
    /\ UNCHANGED <<now, debt, frozen, totalAllocated, refundable, settleVars,
                   recoveryVars, paidIn, paidOut>>

SyncRepaid(f) ==                    \* anyone
    /\ state[f] \in SyncableStates
    /\ debt[f] = 0
    /\ state' = [state EXCEPT ![f] = "REPAID"]
    /\ UNCHANGED <<now, debt, frozen, totalAllocated, refundable, settleVars,
                   recoveryVars, paidIn, paidOut>>

Release(f) ==                       \* transition REPAID -> RELEASED, SERVICER or TREASURY
    /\ debt[f] = 0
    /\ RecoveryTransition(f, "RELEASED")
    /\ UNCHANGED <<now, debt, frozen, totalAllocated, refundable, settleVars,
                   recoveryVars, paidIn, paidOut>>

(* RecoveryManager *)

OnlySchedule == <<now, facilityVars, settleVars, lossUsed, reserveCash, paidIn, paidOut>>

SetSchedule(f, dueAt, grace, disputeWindow, dueAmount) ==       \* UNDERWRITER
    /\ state[f] = "ACTIVE"
    /\ dueAt > now /\ grace # 0 /\ dueAmount # 0 /\ disputeWindow <= grace
    /\ schedule[f].dueAt # 0 =>
         /\ schedule[f].dueAt > now
         /\ ~schedule[f].defaultApproved
         /\ ~schedule[f].writtenOff
    /\ schedule' = [schedule EXCEPT
                      ![f].dueAt = dueAt,
                      ![f].grace = grace,
                      ![f].disputeUntil = dueAt + disputeWindow,
                      ![f].dueAmount = dueAmount,
                      ![f].paidAtSchedule = totalAllocated[f]]
    /\ UNCHANGED OnlySchedule

MarkDelinquent(f) ==                \* anyone
    /\ schedule[f].dueAt # 0
    /\ now > schedule[f].dueAt
    /\ ~InstallmentPaid(f)
    /\ RecoveryTransition(f, "DELINQUENT")
    /\ UNCHANGED <<now, debt, frozen, totalAllocated, refundable, settleVars,
                   recoveryVars, paidIn, paidOut>>

(* Anyone.  At zero debt syncRepaid, which leaves the other states alone. *)
CureState(f) ==
    \/ /\ debt[f] = 0
       /\ state' = IF state[f] \in SyncableStates
                   THEN [state EXCEPT ![f] = "REPAID"] ELSE state
    \/ /\ debt[f] # 0
       /\ RecoveryTransition(f, "ACTIVE")

CureKeepingApproval(f) ==           \* mutant: the approval of a default survives the cure
    /\ InstallmentPaid(f)
    /\ CureState(f)
    /\ UNCHANGED <<now, debt, frozen, totalAllocated, refundable, settleVars,
                   recoveryVars, paidIn, paidOut>>

Cure(f) ==
    /\ InstallmentPaid(f)
    /\ CureState(f)
    /\ schedule' = [schedule EXCEPT ![f].defaultApproved = FALSE]
    /\ UNCHANGED <<now, debt, frozen, totalAllocated, refundable, settleVars,
                   lossUsed, reserveCash, paidIn, paidOut>>

SetDispute(f, disputed) ==          \* SERVICER
    /\ schedule[f].dueAt # 0
    /\ schedule' = [schedule EXCEPT ![f].disputed = disputed,
                                    ![f].defaultApproved = @ /\ ~disputed]
    /\ UNCHANGED OnlySchedule

ApproveDefault(f) ==                \* UNDERWRITER
    /\ DefaultDue(f)
    /\ schedule' = [schedule EXCEPT ![f].defaultApproved = TRUE]
    /\ UNCHANGED OnlySchedule

DeclareDefault(f) ==                \* GUARDIAN; the facts are checked again
    /\ DefaultDue(f)
    /\ schedule[f].defaultApproved
    /\ schedule' = [schedule EXCEPT ![f].defaultApproved = FALSE]
    /\ RecoveryTransition(f, "DEFAULTED")
    /\ frozen' = [frozen EXCEPT ![f] = TRUE]
    /\ UNCHANGED <<now, debt, totalAllocated, refundable, settleVars, lossUsed,
                   reserveCash, paidIn, paidOut>>

BeginRecovery(f) ==                 \* SERVICER
    /\ RecoveryTransition(f, "RECOVERY")
    /\ UNCHANGED <<now, debt, frozen, totalAllocated, refundable, settleVars,
                   recoveryVars, paidIn, paidOut>>

FundReserve(f, amount) ==           \* the reserve's owner
    /\ amount # 0
    /\ schedule' = [schedule EXCEPT ![f].pledgedReserve = @ + amount]
    /\ reserveCash' = reserveCash + amount
    /\ paidIn' = paidIn + amount
    /\ UNCHANGED <<now, facilityVars, settleVars, lossUsed, paidOut>>

ReserveDue(f) == LesserOf(schedule[f].pledgedReserve, debt[f])

(* SERVICER.  _applyReserve; the payment is the router's repayExact. *)
ApplyReserve(f) ==
    /\ state[f] \in {"DEFAULTED", "RECOVERY"}
    /\ ReserveDue(f) # 0
    /\ schedule' = [schedule EXCEPT ![f].pledgedReserve = @ - ReserveDue(f)]
    /\ reserveCash' = reserveCash - ReserveDue(f)
    /\ Apply(f, ReserveDue(f))
    /\ UNCHANGED <<now, settleVars, lossUsed, paidIn, paidOut>>

ReturnReserve(f) ==                 \* the reserve's owner
    /\ debt[f] = 0
    /\ schedule' = [schedule EXCEPT ![f].pledgedReserve = 0]
    /\ reserveCash' = reserveCash - schedule[f].pledgedReserve
    /\ paidOut' = paidOut + schedule[f].pledgedReserve
    /\ UNCHANGED <<now, facilityVars, settleVars, lossUsed, paidIn>>

Impair(f, loss) ==                  \* UNDERWRITER; VAULT.recognizeImpairment within the debt
    /\ loss \notin lossUsed
    /\ debt[f] # 0
    /\ ~schedule[f].writtenOff
    /\ lossUsed' = lossUsed \union {loss}
    /\ UNCHANGED <<now, facilityVars, settleVars, schedule, reserveCash, paidIn, paidOut>>

ApproveWriteOff(f, loss) ==         \* UNDERWRITER
    /\ loss \notin lossUsed
    /\ state[f] = "RECOVERY"
    /\ schedule' = [schedule EXCEPT ![f].writeOffApproval = loss]
    /\ UNCHANGED OnlySchedule

WriteOffGuard(f, loss) ==
    /\ loss \notin lossUsed
    /\ ~schedule[f].writtenOff
    /\ schedule[f].writeOffApproval = loss
    /\ state[f] \in {"DEFAULTED", "RECOVERY"}       \* _applyReserve

LossState(left) == IF left = 0 THEN "REPAID" ELSE "CLOSED_WITH_LOSS"

(* TREASURY.  The reserve goes first; only what it leaves is a loss. *)
WriteOff(f, loss) ==
    LET left == debt[f] - ReserveDue(f)
    IN  /\ WriteOffGuard(f, loss)
        /\ left = 0 \/ <<state[f], "CLOSED_WITH_LOSS">> \in TransitionTable
        /\ debt' = [debt EXCEPT ![f] = left]
        /\ totalAllocated' = [totalAllocated EXCEPT ![f] = @ + ReserveDue(f)]
        /\ reserveCash' = reserveCash - ReserveDue(f)
        /\ schedule' = [schedule EXCEPT ![f].pledgedReserve = @ - ReserveDue(f),
                                        ![f].writtenOff = left # 0]
        /\ lossUsed' = IF left = 0 THEN lossUsed ELSE lossUsed \union {loss}
        /\ state' = [state EXCEPT ![f] = LossState(left)]
        /\ UNCHANGED <<now, frozen, refundable, settleVars, paidIn, paidOut>>

(* Time passes; a debt whose accrual is not frozen may grow by a unit. *)
Tick ==
    /\ now < MaxTime
    /\ now' = now + 1
    /\ \E grown \in SUBSET {f \in Facilities : debt[f] # 0 /\ ~frozen[f]} :
          debt' = [f \in Facilities |-> IF f \in grown THEN debt[f] + 1 ELSE debt[f]]
    /\ UNCHANGED <<state, frozen, totalAllocated, refundable, settleVars, recoveryVars,
                   paidIn, paidOut>>

Next ==
    \/ \E f \in Facilities, amount \in Amounts :
          \/ RepayFor(f, amount)
          \/ RepayExact(f, amount)
          \/ Draw(f, amount)
          \/ ManagerRepay(f, amount)
          \/ FundReserve(f, amount)
          \/ \E s \in SettlementIds :
                \/ Allocate(s, f, amount)
                \/ RouterReceiveSettlement(s, f, amount)
                \/ AdapterReceiveSettlement(s, f, amount)
          \/ \E dueAt \in 1 .. MaxTime, grace \in Graces : \E window \in 0 .. grace :
                SetSchedule(f, dueAt, grace, window, amount)
    \/ \E s \in SettlementIds, amount \in Amounts : RecordDestinationReceipt(s, amount)
    \/ \E enabled \in BOOLEAN : SetRouteEnabled(enabled)
    \/ \E f \in Facilities :
          \/ RefundExcess(f)
          \/ FreezeDraws(f)
          \/ LiftFreeze(f)
          \/ SyncRepaid(f)
          \/ Release(f)
          \/ MarkDelinquent(f)
          \/ Cure(f)
          \/ \E disputed \in BOOLEAN : SetDispute(f, disputed)
          \/ ApproveDefault(f)
          \/ DeclareDefault(f)
          \/ BeginRecovery(f)
          \/ ApplyReserve(f)
          \/ ReturnReserve(f)
          \/ \E loss \in LossIds :
                \/ Impair(f, loss)
                \/ ApproveWriteOff(f, loss)
                \/ WriteOff(f, loss)
    \/ Tick

Spec == Init /\ [][Next]_vars

-----------------------------------------------------------------------------
(* Properties *)

(* Types, and two facts the arithmetic of the contracts relies on: no receipt is
   allocated beyond what arrived, and an installment starts from cash already
   counted, so neither subtraction underflows. *)
TypeOK ==
    /\ now \in 0 .. MaxTime
    /\ state \in [Facilities -> States]
    /\ debt \in [Facilities -> Nat]
    /\ frozen \in [Facilities -> BOOLEAN]
    /\ schedule \in [Facilities -> Schedule]
    /\ totalAllocated \in [Facilities -> Nat]
    /\ \A f \in Facilities : schedule[f].paidAtSchedule <= totalAllocated[f]
    /\ lossUsed \subseteq LossIds
    /\ reserveCash \in Nat /\ routerCash \in Nat
    /\ receipts \in [SettlementIds -> [total : Nat, allocated : Nat]]
    /\ \A s \in SettlementIds : receipts[s].allocated <= receipts[s].total
    /\ arrived \subseteq SettlementIds
    /\ routeEnabled \in BOOLEAN
    /\ refundable \in [Facilities -> Nat]
    /\ paidIn \in Nat /\ paidOut \in Nat

(* What a facility was given, what of a receipt still waits, what is pledged. *)
Given == [f \in Facilities |-> totalAllocated[f] + refundable[f]]
Waiting == [s \in SettlementIds |-> receipts[s].total - receipts[s].allocated]
Pledged == [f \in Facilities |-> schedule[f].pledgedReserve]

(* Every unit ever paid in (by payers, settlement legs, adapters, reserve owners) is in
   the router, in a reserve, applied to a debt, refundable to a borrower or already
   back with its owner: no path loses cash or counts it twice.  The router holds exactly
   the arrived cash no facility was given yet, the recovery manager exactly the pledged
   reserves: neither spends another's money. *)
CashConserved ==
    /\ paidIn = paidOut + routerCash + reserveCash + SumFunctionOnSet(Given, Facilities)
    /\ routerCash = SumFunctionOnSet(Waiting, SettlementIds)
    /\ reserveCash = SumFunctionOnSet(Pledged, Facilities)

(* A settlement id is used once: its receipt, recorded by either the router or the
   adapter path, is never replaced and its allocation never taken back. *)
SettlementOnce ==
    \A s \in SettlementIds : receipts[s].total # 0 =>
       /\ receipts'[s].total = receipts[s].total
       /\ receipts'[s].allocated \in receipts[s].allocated .. receipts[s].total

(* An approved default never outlives the delinquency it was given for: a dispute or a
   cure withdraws it and no new schedule inherits it. *)
ApprovalCurrent ==
    \A f \in Facilities : schedule[f].defaultApproved =>
        /\ ~schedule[f].disputed
        /\ now > schedule[f].dueAt + schedule[f].grace
        /\ state[f] \in {"DELINQUENT", "REPAID", "RELEASED"}

(* Lenders take a loss only after the pledged reserve is used up. *)
ReserveAppliedFirst ==
    \A f \in Facilities :
       state[f] # "CLOSED_WITH_LOSS" /\ state'[f] = "CLOSED_WITH_LOSS" =>
          schedule'[f].pledgedReserve = 0

(* Cash is spent once and in order: neither a settlement nor a reserve is left out or
   counted again, in whatever order receipts, allocations and losses come. *)
CashInOrder == [][SettlementOnce /\ ReserveAppliedFirst]_vars
============================================================================
