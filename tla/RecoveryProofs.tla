---------------------------- MODULE RecoveryProofs ----------------------------
(***************************************************************************)
(* Cash and losses for any number of facilities, settlements and amounts:  *)
(* no path loses cash or counts it twice, an approved default never        *)
(* outlives its delinquency, and lenders lose only after the reserve.      *)
(*                                                                         *)
(* Types, conservation and the approval are inductive together: that the   *)
(* router can pay an allocation and the manager a reserve follows from the *)
(* sums, and the sums need the types.                                      *)
(***************************************************************************)
EXTENDS Recovery, Sums

IInv == TypeOK /\ CashConserved /\ ApprovalCurrent

-----------------------------------------------------------------------------
(* The three sums *)

(* The sums are over naturals, and bound each of their summands. *)
LEMMA SumsBound ==
    ASSUME TypeOK
    PROVE  /\ Given \in [Facilities -> Nat]
           /\ Waiting \in [SettlementIds -> Nat]
           /\ Pledged \in [Facilities -> Nat]
           /\ SumFunctionOnSet(Given, Facilities) \in Nat
           /\ \A s \in SettlementIds : Waiting[s] <= SumFunctionOnSet(Waiting, SettlementIds)
           /\ \A f \in Facilities : Pledged[f] <= SumFunctionOnSet(Pledged, Facilities)
<1>1. Given \in [Facilities -> Nat]
  BY DEF TypeOK, Given
<1>2. Waiting \in [SettlementIds -> Nat]
  BY DEF TypeOK, Waiting
<1>3. Pledged \in [Facilities -> Nat]
  BY DEF TypeOK, Pledged, Schedule
<1> QED
  BY <1>1, <1>2, <1>3, RecoveryConstants, SumNat

(* A step that changes one summand by d changes the sum by d. *)
LEMMA SumMoves ==
    ASSUME NEW S, IsFiniteSet(S), NEW f \in [S -> Nat], NEW g \in [S -> Nat], NEW a \in S,
           NEW d \in Int, g[a] = f[a] + d, \A x \in S \ {a} : g[x] = f[x]
    PROVE  SumFunctionOnSet(g, S) = SumFunctionOnSet(f, S) + d
<1>1. SumFunctionOnSet(g, S) = SumFunctionOnSet(f, S) - f[a] + g[a]
  BY SumChange
<1>2. SumFunctionOnSet(f, S) \in Int /\ f[a] \in Int
  BY SumInt
<1> QED
  BY <1>1, <1>2

SumGiven == SumFunctionOnSet(Given, Facilities)
SumWaiting == SumFunctionOnSet(Waiting, SettlementIds)
SumPledged == SumFunctionOnSet(Pledged, Facilities)

(* Facility f was given d more. *)
LEMMA GivenMoves ==
    ASSUME TypeOK, TypeOK', NEW f \in Facilities, NEW d \in Int,
           totalAllocated'[f] + refundable'[f] = totalAllocated[f] + refundable[f] + d,
           \A g \in Facilities \ {f} : /\ totalAllocated'[g] = totalAllocated[g]
                                      /\ refundable'[g] = refundable[g]
    PROVE  SumGiven' = SumGiven + d
<1>1. Given \in [Facilities -> Nat] /\ Given' \in [Facilities -> Nat]
  BY SumsBound DEF TypeOK, Given
<1>2. Given'[f] = Given[f] + d /\ \A g \in Facilities \ {f} : Given'[g] = Given[g]
  BY DEF Given
<1> HIDE DEF Given
<1> QED
  BY <1>1, <1>2, RecoveryConstants, SumMoves DEF SumGiven

(* Receipt s has d more waiting. *)
LEMMA WaitingMoves ==
    ASSUME TypeOK, TypeOK', NEW s \in SettlementIds, NEW d \in Int,
           receipts'[s].total - receipts'[s].allocated = receipts[s].total - receipts[s].allocated + d,
           \A r \in SettlementIds \ {s} : receipts'[r] = receipts[r]
    PROVE  SumWaiting' = SumWaiting + d
<1>1. Waiting \in [SettlementIds -> Nat] /\ Waiting' \in [SettlementIds -> Nat]
  BY DEF TypeOK, Waiting
<1>2. Waiting'[s] = Waiting[s] + d /\ \A r \in SettlementIds \ {s} : Waiting'[r] = Waiting[r]
  BY DEF Waiting
<1> HIDE DEF Waiting
<1> QED
  BY <1>1, <1>2, RecoveryConstants, SumMoves DEF SumWaiting

(* Facility f has d more pledged. *)
LEMMA PledgedMoves ==
    ASSUME TypeOK, TypeOK', NEW f \in Facilities, NEW d \in Int,
           schedule'[f].pledgedReserve = schedule[f].pledgedReserve + d,
           \A g \in Facilities \ {f} : schedule'[g].pledgedReserve = schedule[g].pledgedReserve
    PROVE  SumPledged' = SumPledged + d
<1>1. Pledged \in [Facilities -> Nat] /\ Pledged' \in [Facilities -> Nat]
  BY DEF TypeOK, Pledged, Schedule
<1>2. Pledged'[f] = Pledged[f] + d /\ \A g \in Facilities \ {f} : Pledged'[g] = Pledged[g]
  BY DEF Pledged
<1> HIDE DEF Pledged
<1> QED
  BY <1>1, <1>2, RecoveryConstants, SumMoves DEF SumPledged

(* A sum none of whose summands changed did not change. *)
LEMMA SumsStill ==
    /\ UNCHANGED <<totalAllocated, refundable>> => SumGiven' = SumGiven
    /\ UNCHANGED receipts => SumWaiting' = SumWaiting
    /\ (\A g \in Facilities : schedule'[g].pledgedReserve = schedule[g].pledgedReserve)
          => SumPledged' = SumPledged
<1>1. UNCHANGED <<totalAllocated, refundable>> => Given' = Given
  BY DEF Given
<1>2. UNCHANGED receipts => Waiting' = Waiting
  BY DEF Waiting
<1>3. (\A g \in Facilities : schedule'[g].pledgedReserve = schedule[g].pledgedReserve)
        => Pledged' = Pledged
  BY DEF Pledged
<1> QED
  BY <1>1, <1>2, <1>3 DEF SumGiven, SumWaiting, SumPledged

-----------------------------------------------------------------------------
(* What a step does to cash, approvals and losses *)

(* In and out, the cash the facilities were given (g), waits in the router (w) and is
   pledged (r) moves in balance. *)
Balanced(in, out, g, w, r) ==
    /\ paidIn' = paidIn + in /\ paidOut' = paidOut + out
    /\ SumGiven' = SumGiven + g
    /\ SumWaiting' = SumWaiting + w /\ routerCash' = routerCash + w
    /\ SumPledged' = SumPledged + r /\ reserveCash' = reserveCash + r
    /\ in = out + g + w + r

(* What an approval needs. *)
Approvable(f) ==
    /\ ~schedule[f].disputed
    /\ now > schedule[f].dueAt + schedule[f].grace
    /\ state[f] \in {"DELINQUENT", "REPAID", "RELEASED"}

(* An approval after the step is an old one of the same installment, or a new and due one. *)
ApprovalsKept ==
    /\ now <= now'
    /\ \A g \in Facilities : schedule'[g].defaultApproved =>
          \/ /\ schedule[g].defaultApproved
             /\ schedule'[g].disputed = schedule[g].disputed
             /\ schedule'[g].dueAt = schedule[g].dueAt
             /\ schedule'[g].grace = schedule[g].grace
             /\ state'[g] \in {state[g], "REPAID", "RELEASED"}
          \/ Approvable(g)'

NoNewLoss ==
    \A g \in Facilities : state'[g] = "CLOSED_WITH_LOSS" => state[g] = "CLOSED_WITH_LOSS"

(* Balanced cash stays conserved. *)
LEMMA Conserved ==
    ASSUME TypeOK, CashConserved, NEW in \in Int, NEW out \in Int, NEW g \in Int,
           NEW w \in Int, NEW r \in Int, Balanced(in, out, g, w, r)
    PROVE  CashConserved'
<1>1. SumGiven \in Nat
  BY SumsBound DEF SumGiven
<1>2. /\ paidIn = paidOut + routerCash + reserveCash + SumGiven
      /\ routerCash = SumWaiting /\ reserveCash = SumPledged
  BY DEF CashConserved, SumGiven, SumWaiting, SumPledged
<1>3. /\ paidIn' = paidOut' + routerCash' + reserveCash' + SumGiven'
      /\ routerCash' = SumWaiting' /\ reserveCash' = SumPledged'
  <2>1. paidIn \in Int /\ paidOut \in Int /\ routerCash \in Int /\ reserveCash \in Int
    BY DEF TypeOK
  <2> QED
    BY <1>1, <1>2, <2>1 DEF Balanced
<1> QED
  BY <1>3 DEF CashConserved, SumGiven, SumWaiting, SumPledged

(* Approvals stay current. *)
LEMMA Current ==
    ASSUME TypeOK, TypeOK', ApprovalCurrent, ApprovalsKept
    PROVE  ApprovalCurrent'
<1> SUFFICES ASSUME NEW f \in Facilities, schedule'[f].defaultApproved, ~Approvable(f)'
             PROVE  Approvable(f)'
  BY DEF ApprovalCurrent, Approvable
<1>1. schedule[f].dueAt \in Nat /\ schedule[f].grace \in Nat /\ now \in Nat /\ now' \in Nat
  BY RecoveryConstants DEF TypeOK, Schedule
<1>2. Approvable(f)
  BY DEF ApprovalsKept, ApprovalCurrent, Approvable
<1> QED
  BY <1>1, <1>2 DEF ApprovalsKept, Approvable

(* A receipt that is not touched is used once. *)
LEMMA ReceiptsStill ==
    ASSUME TypeOK, UNCHANGED receipts
    PROVE  SettlementOnce
<1> SUFFICES ASSUME NEW s \in SettlementIds
             PROVE  receipts[s].allocated \in receipts[s].allocated .. receipts[s].total
  BY DEF SettlementOnce
<1>1. receipts[s].allocated \in Nat /\ receipts[s].total \in Nat
      /\ receipts[s].allocated <= receipts[s].total
  BY DEF TypeOK
<1> QED
  BY <1>1

(* All a step owes, once its types are known. *)
Kept == IInv' /\ SettlementOnce /\ ReserveAppliedFirst

LEMMA Keeps ==
    ASSUME IInv, TypeOK', ApprovalsKept, NoNewLoss, SettlementOnce,
           NEW in \in Int, NEW out \in Int, NEW g \in Int, NEW w \in Int, NEW r \in Int,
           Balanced(in, out, g, w, r)
    PROVE  Kept
<1>1. CashConserved' /\ ApprovalCurrent'
  BY Conserved, Current DEF IInv
<1>2. ReserveAppliedFirst
  BY DEF NoNewLoss, ReserveAppliedFirst
<1> QED
  BY <1>1, <1>2 DEF Kept, IInv

-----------------------------------------------------------------------------
(* Steps that move no cash *)

(* Cash nobody touches is in balance. *)
LEMMA CashStill ==
    ASSUME TypeOK, CashConserved,
           UNCHANGED <<totalAllocated, refundable, receipts, routerCash, reserveCash, paidIn, paidOut>>,
           \A g \in Facilities : schedule'[g].pledgedReserve = schedule[g].pledgedReserve
    PROVE  Balanced(0, 0, 0, 0, 0) /\ SettlementOnce
<1>1. SumGiven \in Int /\ SumWaiting \in Int /\ SumPledged \in Int
  BY SumsBound DEF CashConserved, TypeOK, SumGiven, SumWaiting, SumPledged
<1>2. Balanced(0, 0, 0, 0, 0)
  BY <1>1, SumsStill DEF Balanced, TypeOK
<1> QED
  BY <1>2, ReceiptsStill

(* One facility changes state, and nothing else happens. *)
LEMMA StateStep ==
    ASSUME IInv, NEW f \in Facilities, NEW to \in States \ {"CLOSED_WITH_LOSS"},
           state' = [state EXCEPT ![f] = to],
           schedule[f].defaultApproved => to \in {state[f], "REPAID", "RELEASED"},
           UNCHANGED <<now, debt, frozen, totalAllocated, refundable, settleVars,
                       recoveryVars, paidIn, paidOut>>
    PROVE  Kept
<1>1. UNCHANGED <<now, debt, frozen, totalAllocated, refundable, receipts, routerCash, arrived,
                  routeEnabled, schedule, lossUsed, reserveCash, paidIn, paidOut>>
  BY DEF settleVars, recoveryVars
<1>2. TypeOK'
  BY <1>1 DEF IInv, TypeOK
<1>3. /\ \A g \in Facilities \ {f} : state'[g] = state[g]
      /\ state'[f] = to /\ now <= now'
  BY <1>1, RecoveryConstants DEF IInv, TypeOK
<1>4. ApprovalsKept /\ NoNewLoss
  BY <1>1, <1>3 DEF ApprovalsKept, NoNewLoss
<1> QED
  BY <1>1, <1>2, <1>4, CashStill, Keeps DEF IInv

(* The state machine: an approved default survives none of the moves but those of a
   repaid facility. *)
LEMMA MoveSteps ==
    ASSUME IInv, NEW f \in Facilities,
           \/ FreezeDraws(f) \/ LiftFreeze(f) \/ SyncRepaid(f) \/ Release(f)
           \/ MarkDelinquent(f) \/ BeginRecovery(f)
    PROVE  Kept
<1>1. schedule[f].defaultApproved => state[f] \in {"DELINQUENT", "REPAID", "RELEASED"}
  BY DEF IInv, ApprovalCurrent
<1>2. {"DRAW_FROZEN", "ACTIVE", "REPAID", "RELEASED", "DELINQUENT", "RECOVERY"}
         \subseteq States \ {"CLOSED_WITH_LOSS"}
  BY DEF States
<1>3. FreezeDraws(f) => Kept
  BY <1>1, <1>2, StateStep DEF FreezeDraws
<1>4. LiftFreeze(f) => Kept
  BY <1>1, <1>2, StateStep DEF LiftFreeze
<1>5. SyncRepaid(f) => Kept
  BY <1>1, <1>2, StateStep DEF SyncRepaid
<1>6. Release(f) => Kept
  BY <1>1, <1>2, StateStep DEF Release, RecoveryTransition
<1>7. MarkDelinquent(f) => Kept
  <2>1. MarkDelinquent(f) => state[f] \in {"ACTIVE", "DRAW_FROZEN"}
    BY DEF MarkDelinquent, RecoveryTransition, TransitionTable
  <2> QED
    BY <1>1, <1>2, <2>1, StateStep DEF MarkDelinquent, RecoveryTransition
<1>8. BeginRecovery(f) => Kept
  <2>1. BeginRecovery(f) => state[f] = "DEFAULTED"
    BY DEF BeginRecovery, RecoveryTransition, TransitionTable
  <2> QED
    BY <1>1, <1>2, <2>1, StateStep DEF BeginRecovery, RecoveryTransition
<1> QED
  BY <1>3, <1>4, <1>5, <1>6, <1>7, <1>8

(* A draw or the accrual of a Tick moves a debt; a route or a loss id is only noted. *)
LEMMA QuietSteps ==
    ASSUME IInv,
           \/ Tick
           \/ \E f \in Facilities, amount \in Amounts : Draw(f, amount)
           \/ \E enabled \in BOOLEAN : SetRouteEnabled(enabled)
           \/ \E f \in Facilities, loss \in LossIds : Impair(f, loss)
    PROVE  Kept
<1>1. UNCHANGED <<state, frozen, totalAllocated, refundable, receipts, routerCash, arrived,
                  schedule, reserveCash, paidIn, paidOut>>
  BY DEF Tick, Draw, SetRouteEnabled, Impair, settleVars, recoveryVars, facilityVars
<1>2. /\ now' \in 0 .. MaxTime /\ now <= now'
      /\ debt' \in [Facilities -> Nat]
      /\ lossUsed' \subseteq LossIds /\ routeEnabled' \in BOOLEAN
  <2>1. Tick => <1>2!:
    BY RecoveryConstants DEF Tick, IInv, TypeOK, settleVars, recoveryVars
  <2>2. ASSUME NEW f \in Facilities, NEW amount \in Amounts, Draw(f, amount)
        PROVE  <1>2!:
    BY <2>2, RecoveryConstants DEF Draw, IInv, TypeOK, settleVars, recoveryVars
  <2>3. ASSUME NEW enabled \in BOOLEAN, SetRouteEnabled(enabled)
        PROVE  <1>2!:
    BY <2>3, RecoveryConstants DEF SetRouteEnabled, IInv, TypeOK, facilityVars, recoveryVars
  <2>4. ASSUME NEW f \in Facilities, NEW loss \in LossIds, Impair(f, loss)
        PROVE  <1>2!:
    BY <2>4, RecoveryConstants DEF Impair, IInv, TypeOK, facilityVars, settleVars
  <2> QED
    BY <2>1, <2>2, <2>3, <2>4
<1>3. TypeOK'
  BY <1>1, <1>2 DEF IInv, TypeOK
<1>4. ApprovalsKept /\ NoNewLoss
  BY <1>1, <1>2 DEF ApprovalsKept, NoNewLoss
<1> QED
  BY <1>1, <1>3, <1>4, CashStill, Keeps DEF IInv

(* One schedule changes, with the reserve it holds, and maybe its facility's state. *)
LEMMA ScheduleStep ==
    ASSUME IInv, NEW f \in Facilities, NEW row \in Schedule,
           schedule' = [schedule EXCEPT ![f] = row],
           row.pledgedReserve = schedule[f].pledgedReserve,
           row.paidAtSchedule <= totalAllocated[f],
           row.defaultApproved => Approvable(f)',
           state' \in [Facilities -> States], frozen' \in [Facilities -> BOOLEAN],
           \A g \in Facilities \ {f} : state'[g] = state[g],
           state'[f] = state[f] \/ state'[f] # "CLOSED_WITH_LOSS",
           UNCHANGED <<now, debt, totalAllocated, refundable, settleVars, lossUsed,
                       reserveCash, paidIn, paidOut>>
    PROVE  Kept
<1>1. UNCHANGED <<now, debt, totalAllocated, refundable, receipts, routerCash, arrived,
                  routeEnabled, lossUsed, reserveCash, paidIn, paidOut>>
  BY DEF settleVars
<1>2. /\ \A g \in Facilities \ {f} : schedule'[g] = schedule[g]
      /\ schedule'[f] = row /\ now <= now'
  BY <1>1, RecoveryConstants DEF IInv, TypeOK
<1>3. TypeOK'
  <2>1. schedule' \in [Facilities -> Schedule]
    BY DEF IInv, TypeOK
  <2>2. \A g \in Facilities : schedule'[g].paidAtSchedule <= totalAllocated'[g]
    BY <1>1, <1>2 DEF IInv, TypeOK
  <2> QED
    BY <1>1, <2>1, <2>2 DEF IInv, TypeOK
<1>4. ApprovalsKept /\ NoNewLoss
  BY <1>1, <1>2 DEF ApprovalsKept, NoNewLoss
<1>5. \A g \in Facilities : schedule'[g].pledgedReserve = schedule[g].pledgedReserve
  BY <1>2
<1> QED
  BY <1>1, <1>3, <1>4, <1>5, CashStill, Keeps DEF IInv

(* setSchedule, the dispute, the approvals, the cure and the declaration: a new schedule
   starts unapproved, a dispute and a cure withdraw an approval. *)
LEMMA ScheduleSteps ==
    ASSUME IInv, NEW f \in Facilities,
           \/ \E dueAt \in 1 .. MaxTime, grace \in Graces, amount \in Amounts :
                 \E window \in 0 .. grace : SetSchedule(f, dueAt, grace, window, amount)
           \/ \E disputed \in BOOLEAN : SetDispute(f, disputed)
           \/ ApproveDefault(f) \/ DeclareDefault(f) \/ Cure(f)
           \/ \E loss \in LossIds : ApproveWriteOff(f, loss)
    PROVE  Kept
<1>1. /\ schedule \in [Facilities -> Schedule] /\ schedule[f] \in Schedule
      /\ state \in [Facilities -> States] /\ frozen \in [Facilities -> BOOLEAN]
      /\ totalAllocated[f] \in Nat /\ schedule[f].paidAtSchedule <= totalAllocated[f]
      /\ schedule[f].defaultApproved => Approvable(f)
  BY DEF IInv, TypeOK, ApprovalCurrent, Approvable
<1>2. ASSUME NEW dueAt \in 1 .. MaxTime, NEW grace \in Graces, NEW amount \in Amounts,
             NEW window \in 0 .. grace, SetSchedule(f, dueAt, grace, window, amount)
      PROVE  Kept
  <2> DEFINE row == [schedule[f] EXCEPT !.dueAt = dueAt, !.grace = grace,
                                        !.disputeUntil = dueAt + window, !.dueAmount = amount,
                                        !.paidAtSchedule = totalAllocated[f]]
  <2>1. dueAt \in Nat /\ grace \in Nat /\ dueAt + window \in Nat /\ amount \in Nat
    BY RecoveryConstants
  <2>2. row \in Schedule
    BY <1>1, <2>1 DEF Schedule
  <2>3. schedule' = [schedule EXCEPT ![f] = row]
    BY <1>2 DEF SetSchedule
  <2>4. /\ row.pledgedReserve = schedule[f].pledgedReserve
        /\ row.paidAtSchedule <= totalAllocated[f]
        /\ row.defaultApproved = schedule[f].defaultApproved
    BY <1>1 DEF Schedule
  <2>5. ~schedule[f].defaultApproved
    BY <1>1, <1>2 DEF SetSchedule, Approvable
  <2> HIDE DEF row
  <2> QED
    BY <1>1, <1>2, <2>2, <2>3, <2>4, <2>5, ScheduleStep DEF SetSchedule, OnlySchedule, facilityVars
<1>3. ASSUME NEW disputed \in BOOLEAN, SetDispute(f, disputed)
      PROVE  Kept
  <2> DEFINE approved == schedule[f].defaultApproved /\ ~disputed
             row == [schedule[f] EXCEPT !.disputed = disputed, !.defaultApproved = approved]
  <2>1. approved \in BOOLEAN
    OBVIOUS
  <2>2. schedule' = [schedule EXCEPT ![f] = row]
    BY <1>3 DEF SetDispute
  <2> HIDE DEF approved
  <2>3. row \in Schedule
    BY <1>1, <2>1 DEF Schedule
  <2>4. /\ row.pledgedReserve = schedule[f].pledgedReserve
        /\ row.paidAtSchedule = schedule[f].paidAtSchedule
        /\ row.dueAt = schedule[f].dueAt /\ row.grace = schedule[f].grace
        /\ row.defaultApproved = approved /\ row.disputed = disputed
    BY <1>1 DEF Schedule
  <2> HIDE DEF row
  <2>5. UNCHANGED <<now, state, frozen>> /\ schedule'[f] = row
    BY <1>1, <1>3, <2>2 DEF SetDispute, OnlySchedule, facilityVars
  <2>6. row.defaultApproved => Approvable(f)'
    BY <1>1, <2>4, <2>5 DEF Approvable, approved
  <2>7. UNCHANGED <<now, debt, totalAllocated, refundable, settleVars, lossUsed,
                    reserveCash, paidIn, paidOut>>
    BY <1>3 DEF SetDispute, OnlySchedule, facilityVars
  <2> QED
    BY <1>1, <2>2, <2>3, <2>4, <2>5, <2>6, <2>7, ScheduleStep
<1>4. ASSUME ApproveDefault(f)
      PROVE  Kept
  <2> DEFINE row == [schedule[f] EXCEPT !.defaultApproved = TRUE]
  <2>1. row \in Schedule
    BY <1>1 DEF Schedule
  <2>2. schedule' = [schedule EXCEPT ![f] = row]
    BY <1>4 DEF ApproveDefault
  <2>3. /\ row.pledgedReserve = schedule[f].pledgedReserve
        /\ row.paidAtSchedule = schedule[f].paidAtSchedule
        /\ row.dueAt = schedule[f].dueAt /\ row.grace = schedule[f].grace
        /\ row.disputed = schedule[f].disputed
    BY <1>1 DEF Schedule
  <2> HIDE DEF row
  <2>4. UNCHANGED <<now, state, frozen>> /\ schedule'[f] = row
    BY <1>1, <1>4, <2>2 DEF ApproveDefault, OnlySchedule, facilityVars
  <2>5. Approvable(f)'
    BY <1>4, <2>3, <2>4 DEF ApproveDefault, DefaultDue, Approvable
  <2>6. UNCHANGED <<now, debt, totalAllocated, refundable, settleVars, lossUsed,
                    reserveCash, paidIn, paidOut>>
    BY <1>4 DEF ApproveDefault, OnlySchedule, facilityVars
  <2> QED
    BY <1>1, <2>1, <2>2, <2>3, <2>4, <2>5, <2>6, ScheduleStep
<1>5. ASSUME DeclareDefault(f) \/ Cure(f)
      PROVE  Kept
  <2> DEFINE row == [schedule[f] EXCEPT !.defaultApproved = FALSE]
  <2>1. row \in Schedule
    BY <1>1 DEF Schedule
  <2>2. schedule' = [schedule EXCEPT ![f] = row]
    BY <1>5 DEF DeclareDefault, Cure
  <2>3. /\ row.pledgedReserve = schedule[f].pledgedReserve
        /\ row.paidAtSchedule = schedule[f].paidAtSchedule
        /\ row.defaultApproved = FALSE
    BY <1>1 DEF Schedule
  <2> HIDE DEF row
  <2>4. /\ state' = state \/ \E to \in {"DEFAULTED", "ACTIVE", "REPAID"} : state' = [state EXCEPT ![f] = to]
        /\ frozen' = frozen \/ frozen' = [frozen EXCEPT ![f] = TRUE]
    BY <1>5 DEF DeclareDefault, Cure, CureState, RecoveryTransition
  <2>5. /\ state' \in [Facilities -> States] /\ frozen' \in [Facilities -> BOOLEAN]
        /\ \A g \in Facilities \ {f} : state'[g] = state[g]
        /\ state'[f] = state[f] \/ state'[f] # "CLOSED_WITH_LOSS"
    BY <1>1, <2>4 DEF States
  <2>6. UNCHANGED <<now, debt, totalAllocated, refundable, settleVars, lossUsed,
                    reserveCash, paidIn, paidOut>>
    BY <1>5 DEF DeclareDefault, Cure
  <2> QED
    BY <1>1, <2>1, <2>2, <2>3, <2>5, <2>6, ScheduleStep
<1>6. ASSUME NEW loss \in LossIds, ApproveWriteOff(f, loss)
      PROVE  Kept
  <2> DEFINE row == [schedule[f] EXCEPT !.writeOffApproval = loss]
  <2>1. row \in Schedule
    BY <1>1 DEF Schedule
  <2>2. schedule' = [schedule EXCEPT ![f] = row]
    BY <1>6 DEF ApproveWriteOff
  <2>3. /\ row.pledgedReserve = schedule[f].pledgedReserve
        /\ row.paidAtSchedule = schedule[f].paidAtSchedule
        /\ row.defaultApproved = schedule[f].defaultApproved
    BY <1>1 DEF Schedule
  <2> HIDE DEF row
  <2>4. ~schedule[f].defaultApproved
    BY <1>1, <1>6 DEF ApproveWriteOff, Approvable
  <2> QED
    BY <1>1, <1>6, <2>1, <2>2, <2>3, <2>4, ScheduleStep
       DEF ApproveWriteOff, OnlySchedule, facilityVars
<1> QED
  BY <1>2, <1>3, <1>4, <1>5, <1>6

-----------------------------------------------------------------------------
(* Steps that move cash *)

(* The lesser of two naturals. *)
LEMMA Lesser ==
    ASSUME NEW a \in Nat, NEW b \in Nat
    PROVE  LesserOf(a, b) \in Nat /\ LesserOf(a, b) <= a /\ LesserOf(a, b) <= b
  BY DEF LesserOf

(* What a payment of `got' to a facility does to the facilities: it is applied or becomes
   refundable, to the last unit. *)
Paid(f, got) ==
    /\ debt' \in [Facilities -> Nat]
    /\ totalAllocated' \in [Facilities -> Nat]
    /\ refundable' \in [Facilities -> Nat]
    /\ state' \in [Facilities -> States] /\ UNCHANGED frozen
    /\ totalAllocated'[f] + refundable'[f] = totalAllocated[f] + refundable[f] + got
    /\ \A g \in Facilities \ {f} : /\ totalAllocated'[g] = totalAllocated[g]
                                  /\ refundable'[g] = refundable[g]
    /\ \A g \in Facilities : /\ totalAllocated[g] <= totalAllocated'[g]
                            /\ state'[g] \in {state[g], "REPAID"}

(* _apply, and the manager's repayFor, are payments. *)
LEMMA ApplyPays ==
    ASSUME TypeOK, NEW f \in Facilities, NEW got \in Nat,
           debt' = [debt EXCEPT ![f] = @ - LesserOf(got, debt[f])],
           refundable' = [refundable EXCEPT ![f] = @ + got - LesserOf(got, debt[f])],
           totalAllocated' = [totalAllocated EXCEPT ![f] = @ + LesserOf(got, debt[f])],
           state' = state \/ state' = [state EXCEPT ![f] = "REPAID"], UNCHANGED frozen
    PROVE  Paid(f, got)
<1>1. PICK n \in Nat : n = LesserOf(got, debt[f]) /\ n <= got /\ n <= debt[f]
  BY Lesser DEF TypeOK
<1>2. debt[f] \in Nat /\ refundable[f] \in Nat /\ totalAllocated[f] \in Nat
  BY DEF TypeOK
<1>3. debt[f] - n \in Nat /\ refundable[f] + got - n \in Nat /\ totalAllocated[f] + n \in Nat
  BY <1>1, <1>2
<1>4. /\ debt' = [debt EXCEPT ![f] = debt[f] - n]
      /\ refundable' = [refundable EXCEPT ![f] = refundable[f] + got - n]
      /\ totalAllocated' = [totalAllocated EXCEPT ![f] = totalAllocated[f] + n]
  BY <1>1
<1>5. /\ debt' \in [Facilities -> Nat] /\ refundable' \in [Facilities -> Nat]
      /\ totalAllocated' \in [Facilities -> Nat] /\ state' \in [Facilities -> States]
  BY <1>3, <1>4 DEF TypeOK, States
<1>6. totalAllocated'[f] + refundable'[f] = totalAllocated[f] + refundable[f] + got
  BY <1>1, <1>2, <1>4 DEF TypeOK
<1>7. \A g \in Facilities \ {f} : /\ totalAllocated'[g] = totalAllocated[g]
                                /\ refundable'[g] = refundable[g]
  BY <1>4 DEF TypeOK
<1>8. \A g \in Facilities : /\ totalAllocated[g] <= totalAllocated'[g]
                          /\ state'[g] \in {state[g], "REPAID"}
  BY <1>2, <1>4 DEF TypeOK
<1> QED
  BY <1>5, <1>6, <1>7, <1>8 DEF Paid

(* _apply is a payment. *)
LEMMA ApplyIsPaid ==
    ASSUME TypeOK, NEW f \in Facilities, NEW got \in Nat, Apply(f, got)
    PROVE  Paid(f, got)
  BY ApplyPays DEF Apply

(* A payment given to one facility, however it was funded. *)
LEMMA PaidStep ==
    ASSUME IInv, NEW f \in Facilities, NEW got \in Nat, Paid(f, got),
           routerCash' \in Nat, reserveCash' \in Nat, paidIn' \in Nat,
           receipts' \in [SettlementIds -> [total : Nat, allocated : Nat]],
           \A s \in SettlementIds : receipts'[s].allocated <= receipts'[s].total,
           arrived' \subseteq SettlementIds,
           schedule' \in [Facilities -> Schedule],
           \A g \in Facilities : /\ schedule'[g].paidAtSchedule = schedule[g].paidAtSchedule
                               /\ schedule'[g].defaultApproved = schedule[g].defaultApproved
                               /\ schedule'[g].disputed = schedule[g].disputed
                               /\ schedule'[g].dueAt = schedule[g].dueAt
                               /\ schedule'[g].grace = schedule[g].grace,
           UNCHANGED <<now, routeEnabled, lossUsed, paidOut>>
    PROVE  TypeOK' /\ ApprovalsKept /\ NoNewLoss /\ SumGiven' = SumGiven + got
<1>1. TypeOK'
  <2>1. \A g \in Facilities : schedule'[g].paidAtSchedule <= totalAllocated'[g]
    <3> SUFFICES ASSUME NEW g \in Facilities
                 PROVE  schedule'[g].paidAtSchedule <= totalAllocated'[g]
      OBVIOUS
    <3>1. /\ schedule[g].paidAtSchedule \in Nat /\ totalAllocated[g] \in Nat
          /\ totalAllocated'[g] \in Nat
          /\ schedule[g].paidAtSchedule <= totalAllocated[g]
      BY DEF IInv, TypeOK, Paid, Schedule
    <3> QED
      BY <3>1 DEF Paid
  <2> QED
    BY <2>1 DEF IInv, TypeOK, Paid
<1>2. now <= now'
  BY RecoveryConstants DEF IInv, TypeOK
<1>3. ApprovalsKept
  BY <1>2 DEF ApprovalsKept, Paid
<1>4. NoNewLoss
  BY DEF NoNewLoss, Paid
<1>5. SumGiven' = SumGiven + got
  BY <1>1, GivenMoves DEF IInv, Paid
<1> QED
  BY <1>1, <1>3, <1>4, <1>5

(* Repayments by anyone, through the router or the manager. *)
LEMMA RepaySteps ==
    ASSUME IInv, NEW f \in Facilities, NEW amount \in Amounts,
           RepayFor(f, amount) \/ RepayExact(f, amount) \/ ManagerRepay(f, amount)
    PROVE  Kept
<1>1. amount \in Nat /\ LesserOf(amount, debt[f]) \in Nat
  BY RecoveryConstants, Lesser DEF IInv, TypeOK
<1>2. PICK got \in Nat : Paid(f, got) /\ paidIn' = paidIn + got
  <2>1. RepayFor(f, amount) => Paid(f, amount) /\ paidIn' = paidIn + amount
    BY <1>1, ApplyIsPaid DEF RepayFor, IInv
  <2>2. ASSUME RepayExact(f, amount)
        PROVE  \E got \in Nat : Paid(f, got) /\ paidIn' = paidIn + got
    BY <1>1, <2>2, ApplyIsPaid DEF RepayExact, IInv
  <2>3. ManagerRepay(f, amount) => Paid(f, amount) /\ paidIn' = paidIn + amount
    BY <1>1, ApplyPays DEF ManagerRepay, IInv
  <2> QED
    BY <1>1, <2>1, <2>2, <2>3
<1>3. UNCHANGED <<now, receipts, routerCash, arrived, routeEnabled, schedule, lossUsed,
                  reserveCash, paidOut>>
  BY DEF RepayFor, RepayExact, ManagerRepay, settleVars, recoveryVars
<1>4. TypeOK' /\ ApprovalsKept /\ NoNewLoss /\ SumGiven' = SumGiven + got
  <2>1. paidIn' \in Nat
    BY <1>2 DEF IInv, TypeOK
  <2> QED
    BY <1>2, <1>3, <2>1, PaidStep DEF IInv, TypeOK
<1>5. Balanced(got, 0, got, 0, 0)
  <2>1. SumWaiting \in Int /\ SumPledged \in Int
    BY DEF IInv, CashConserved, TypeOK, SumWaiting, SumPledged
  <2> QED
    BY <1>2, <1>3, <1>4, <2>1, SumsStill DEF Balanced, IInv, TypeOK
<1> QED
  BY <1>3, <1>4, <1>5, Keeps, ReceiptsStill DEF IInv

(* The sums are integers. *)
LEMMA SumsInt ==
    ASSUME IInv
    PROVE  SumGiven \in Int /\ SumWaiting \in Int /\ SumPledged \in Int
  BY SumsBound DEF IInv, CashConserved, TypeOK, SumGiven, SumWaiting, SumPledged

(* allocate: the router can pay, because it holds all that waits. *)
LEMMA AllocateStep ==
    ASSUME IInv, NEW s \in SettlementIds, NEW f \in Facilities, NEW amount \in Amounts,
           Allocate(s, f, amount)
    PROVE  Kept
<1>1. /\ amount \in Nat /\ receipts[s].total \in Nat /\ receipts[s].allocated \in Nat
      /\ receipts[s].allocated + amount <= receipts[s].total
      /\ receipts[s] \in [total : Nat, allocated : Nat]
  BY RecoveryConstants DEF IInv, TypeOK, Allocate
<1>2. Paid(f, amount)
  BY <1>1, ApplyIsPaid DEF Allocate, IInv
<1>3. UNCHANGED <<now, arrived, routeEnabled, schedule, lossUsed, reserveCash, paidIn, paidOut>>
  BY DEF Allocate, recoveryVars
<1>4. routerCash' = routerCash - amount /\ routerCash' \in Nat
  <2>1. Waiting[s] = receipts[s].total - receipts[s].allocated
    BY DEF Waiting
  <2>2. Waiting[s] <= routerCash /\ routerCash \in Nat
    BY SumsBound DEF IInv, CashConserved, TypeOK
  <2> QED
    BY <1>1, <2>1, <2>2 DEF Allocate
<1>5. /\ \A r \in SettlementIds \ {s} : receipts'[r] = receipts[r]
      /\ receipts'[s].total = receipts[s].total
      /\ receipts'[s].allocated = receipts[s].allocated + amount
  BY <1>1 DEF Allocate, IInv, TypeOK
<1>6. /\ receipts' \in [SettlementIds -> [total : Nat, allocated : Nat]]
      /\ \A r \in SettlementIds : receipts'[r].allocated <= receipts'[r].total
  <2>1. receipts[s].allocated + amount \in Nat
    BY <1>1
  <2>2. [receipts[s] EXCEPT !.allocated = receipts[s].allocated + amount] \in [total : Nat, allocated : Nat]
    BY <1>1, <2>1
  <2>3. receipts' = [receipts EXCEPT ![s] = [receipts[s] EXCEPT !.allocated = receipts[s].allocated + amount]]
    BY DEF Allocate
  <2>4. receipts' \in [SettlementIds -> [total : Nat, allocated : Nat]]
    BY <2>2, <2>3 DEF IInv, TypeOK
  <2> QED
    BY <1>1, <1>5, <2>4 DEF IInv, TypeOK
<1>7. TypeOK' /\ ApprovalsKept /\ NoNewLoss /\ SumGiven' = SumGiven + amount
  BY <1>1, <1>2, <1>3, <1>4, <1>6, PaidStep DEF IInv, TypeOK
<1>8. SumWaiting' = SumWaiting + (-amount)
  BY <1>1, <1>5, <1>7, WaitingMoves DEF IInv
<1>9. Balanced(0, 0, amount, -amount, 0)
  BY <1>1, <1>3, <1>4, <1>7, <1>8, SumsInt, SumsStill DEF Balanced, IInv, TypeOK
<1>10. SettlementOnce
  <2> SUFFICES ASSUME NEW r \in SettlementIds
               PROVE  /\ receipts'[r].total = receipts[r].total
                      /\ receipts'[r].allocated \in receipts[r].allocated .. receipts[r].total
    BY DEF SettlementOnce
  <2>1. receipts[r].allocated \in Nat /\ receipts[r].total \in Nat
        /\ receipts[r].allocated <= receipts[r].total
    BY DEF IInv, TypeOK
  <2> QED
    BY <1>1, <1>5, <2>1
<1> QED
  BY <1>1, <1>7, <1>9, <1>10, Keeps

(* A receipt of an id that had none: it is recorded, and allocated or left waiting. *)
LEMMA FreshReceipt ==
    ASSUME IInv, NEW s \in SettlementIds, NEW amount \in Nat, NEW used \in {0, amount},
           receipts[s].total = 0,
           receipts' = [receipts EXCEPT ![s] = [total |-> amount, allocated |-> used]]
    PROVE  /\ receipts' \in [SettlementIds -> [total : Nat, allocated : Nat]]
           /\ \A r \in SettlementIds : receipts'[r].allocated <= receipts'[r].total
           /\ \A r \in SettlementIds \ {s} : receipts'[r] = receipts[r]
           /\ receipts'[s].total = amount /\ receipts'[s].allocated = used
           /\ receipts[s].allocated = 0
           /\ SettlementOnce
<1>1. receipts \in [SettlementIds -> [total : Nat, allocated : Nat]]
  BY DEF IInv, TypeOK
<1>2. \A r \in SettlementIds : /\ receipts[r].allocated \in Nat /\ receipts[r].total \in Nat
                               /\ receipts[r].allocated <= receipts[r].total
  BY DEF IInv, TypeOK
<1>3. /\ used \in Nat /\ used <= amount
      /\ [total |-> amount, allocated |-> used] \in [total : Nat, allocated : Nat]
  OBVIOUS
<1>4. /\ receipts' \in [SettlementIds -> [total : Nat, allocated : Nat]]
      /\ \A r \in SettlementIds \ {s} : receipts'[r] = receipts[r]
      /\ receipts'[s] = [total |-> amount, allocated |-> used]
  BY <1>1, <1>3
<1>5. \A r \in SettlementIds : receipts'[r].allocated <= receipts'[r].total
  BY <1>2, <1>3, <1>4
<1>6. receipts[s].allocated = 0
  BY <1>2
<1>7. SettlementOnce
  BY <1>2, <1>4 DEF SettlementOnce
<1> QED
  BY <1>4, <1>5, <1>6, <1>7

(* recordDestinationReceipt: the cash waits in the router. *)
LEMMA RecordStep ==
    ASSUME IInv, NEW s \in SettlementIds, NEW amount \in Amounts,
           RecordDestinationReceipt(s, amount)
    PROVE  Kept
<1>1. amount \in Nat /\ receipts[s].total = 0
      /\ receipts' = [receipts EXCEPT ![s] = [total |-> amount, allocated |-> 0]]
  BY RecoveryConstants DEF RecordDestinationReceipt, Record
<1>2. UNCHANGED <<now, state, debt, frozen, totalAllocated, refundable, arrived, routeEnabled,
                  schedule, lossUsed, reserveCash, paidOut>>
      /\ routerCash' = routerCash + amount /\ paidIn' = paidIn + amount
  BY DEF RecordDestinationReceipt, facilityVars, recoveryVars
<1>3. /\ receipts' \in [SettlementIds -> [total : Nat, allocated : Nat]]
      /\ \A r \in SettlementIds : receipts'[r].allocated <= receipts'[r].total
      /\ \A r \in SettlementIds \ {s} : receipts'[r] = receipts[r]
      /\ receipts'[s].total = amount /\ receipts'[s].allocated = 0
      /\ receipts[s].allocated = 0
      /\ SettlementOnce
  BY <1>1, FreshReceipt
<1>4. TypeOK'
  BY <1>1, <1>2, <1>3 DEF IInv, TypeOK
<1>5. SumWaiting' = SumWaiting + amount
  BY <1>1, <1>3, <1>4, WaitingMoves DEF IInv
<1>6. Balanced(amount, 0, 0, amount, 0)
  BY <1>1, <1>2, <1>5, SumsInt, SumsStill DEF Balanced, IInv, TypeOK
<1>7. ApprovalsKept /\ NoNewLoss
  BY <1>2, RecoveryConstants DEF ApprovalsKept, NoNewLoss, IInv, TypeOK
<1> QED
  BY <1>1, <1>3, <1>4, <1>6, <1>7, Keeps

(* receiveSettlement, by the router's own callers or through the adapter: recorded once
   and given to the facility in the same step. *)
LEMMA ReceiveStep ==
    ASSUME IInv, NEW s \in SettlementIds, NEW f \in Facilities, NEW amount \in Amounts,
           RouterReceiveSettlement(s, f, amount) \/ AdapterReceiveSettlement(s, f, amount)
    PROVE  Kept
<1>1. /\ amount \in Nat /\ receipts[s].total = 0 /\ Apply(f, amount)
      /\ receipts' = [receipts EXCEPT ![s] = [total |-> amount, allocated |-> amount]]
      /\ paidIn' = paidIn + amount /\ arrived' \subseteq SettlementIds
      /\ UNCHANGED <<now, routerCash, routeEnabled, schedule, lossUsed, reserveCash, paidOut>>
  BY RecoveryConstants DEF RouterReceiveSettlement, AdapterReceiveSettlement, ReceiveSettlement,
     recoveryVars, IInv, TypeOK
<1>2. Paid(f, amount)
  BY <1>1, ApplyIsPaid DEF IInv
<1>3. /\ receipts' \in [SettlementIds -> [total : Nat, allocated : Nat]]
      /\ \A r \in SettlementIds : receipts'[r].allocated <= receipts'[r].total
      /\ \A r \in SettlementIds \ {s} : receipts'[r] = receipts[r]
      /\ receipts'[s].total = amount /\ receipts'[s].allocated = amount
      /\ receipts[s].allocated = 0
      /\ SettlementOnce
  BY <1>1, FreshReceipt
<1>4. paidIn' \in Nat
  BY <1>1 DEF IInv, TypeOK
<1>5. TypeOK' /\ ApprovalsKept /\ NoNewLoss /\ SumGiven' = SumGiven + amount
  BY <1>1, <1>2, <1>3, <1>4, PaidStep DEF IInv, TypeOK
<1>6. SumWaiting' = SumWaiting + 0
  BY <1>1, <1>3, <1>5, WaitingMoves DEF IInv
<1>7. Balanced(amount, 0, amount, 0, 0)
  BY <1>1, <1>5, <1>6, SumsInt, SumsStill DEF Balanced, IInv, TypeOK
<1> QED
  BY <1>1, <1>3, <1>5, <1>7, Keeps

(* refundExcess pays what is refundable to its owner, once. *)
LEMMA RefundStep ==
    ASSUME IInv, NEW f \in Facilities, RefundExcess(f)
    PROVE  Kept
<1>1. /\ refundable[f] \in Nat /\ totalAllocated[f] \in Nat
      /\ refundable' = [refundable EXCEPT ![f] = 0] /\ paidOut' = paidOut + refundable[f]
      /\ UNCHANGED <<now, state, debt, frozen, totalAllocated, receipts, routerCash, arrived,
                     routeEnabled, schedule, lossUsed, reserveCash, paidIn>>
  BY DEF RefundExcess, settleVars, recoveryVars, IInv, TypeOK
<1>2. TypeOK'
  BY <1>1 DEF IInv, TypeOK
<1>3. refundable'[f] = 0 /\ \A g \in Facilities \ {f} : refundable'[g] = refundable[g]
  BY <1>1 DEF IInv, TypeOK
<1>4. SumGiven' = SumGiven + (-refundable[f])
  BY <1>1, <1>2, <1>3, GivenMoves DEF IInv
<1>5. Balanced(0, refundable[f], -refundable[f], 0, 0)
  BY <1>1, <1>4, SumsInt, SumsStill DEF Balanced, IInv, TypeOK
<1>6. ApprovalsKept /\ NoNewLoss
  BY <1>1, RecoveryConstants DEF ApprovalsKept, NoNewLoss, IInv, TypeOK
<1> QED
  BY <1>1, <1>2, <1>5, <1>6, Keeps, ReceiptsStill DEF IInv

(* A schedule with another reserve. *)
LEMMA ReserveRow ==
    ASSUME TypeOK, NEW f \in Facilities, NEW v \in Nat,
           schedule' = [schedule EXCEPT ![f].pledgedReserve = v]
    PROVE  /\ schedule' \in [Facilities -> Schedule]
           /\ schedule'[f].pledgedReserve = v
           /\ \A g \in Facilities \ {f} : schedule'[g].pledgedReserve = schedule[g].pledgedReserve
           /\ \A g \in Facilities : /\ schedule'[g].paidAtSchedule = schedule[g].paidAtSchedule
                                   /\ schedule'[g].defaultApproved = schedule[g].defaultApproved
                                   /\ schedule'[g].disputed = schedule[g].disputed
                                   /\ schedule'[g].dueAt = schedule[g].dueAt
                                   /\ schedule'[g].grace = schedule[g].grace
<1> DEFINE row == [schedule[f] EXCEPT !.pledgedReserve = v]
<1>1. schedule \in [Facilities -> Schedule] /\ schedule[f] \in Schedule
  BY DEF TypeOK
<1>2. row \in Schedule
  BY <1>1 DEF Schedule
<1>3. /\ row.pledgedReserve = v /\ row.paidAtSchedule = schedule[f].paidAtSchedule
      /\ row.defaultApproved = schedule[f].defaultApproved /\ row.disputed = schedule[f].disputed
      /\ row.dueAt = schedule[f].dueAt /\ row.grace = schedule[f].grace
  BY <1>1 DEF Schedule
<1>4. schedule' = [schedule EXCEPT ![f] = row]
  OBVIOUS
<1> HIDE DEF row
<1> QED
  BY <1>1, <1>2, <1>3, <1>4

(* A reserve goes from its pledge to v, with cash in or out. *)
ReserveMoves(f, in, out, d, v) ==
    /\ paidIn' = paidIn + in /\ paidOut' = paidOut + out
    /\ reserveCash' = reserveCash + d /\ reserveCash' \in Nat
    /\ schedule' = [schedule EXCEPT ![f].pledgedReserve = v]
    /\ v = schedule[f].pledgedReserve + d
    /\ in = out + d

(* fundReserve and returnReserve: the manager holds the reserves it was given. *)
LEMMA ReserveSteps ==
    ASSUME IInv, NEW f \in Facilities,
           ReturnReserve(f) \/ \E amount \in Amounts : FundReserve(f, amount)
    PROVE  Kept
<1>1. /\ schedule[f].pledgedReserve \in Nat
      /\ schedule[f].pledgedReserve <= reserveCash /\ reserveCash \in Nat
  <2>1. Pledged[f] = schedule[f].pledgedReserve
    BY DEF Pledged
  <2> QED
    BY <2>1, SumsBound DEF IInv, CashConserved, TypeOK, Schedule
<1>2. UNCHANGED <<now, state, debt, frozen, totalAllocated, refundable, receipts, routerCash,
                  arrived, routeEnabled, lossUsed>>
  BY DEF ReturnReserve, FundReserve, facilityVars, settleVars
<1>3. PICK in \in Nat, out \in Nat, d \in Int, v \in Nat : ReserveMoves(f, in, out, d, v)
  <2>1. ASSUME NEW amount \in Amounts, FundReserve(f, amount)
        PROVE  \E n \in Nat, v \in Nat : n \in Int /\ ReserveMoves(f, n, 0, n, v)
    <3>1. PICK n \in Nat : n = amount
      BY RecoveryConstants
    <3>2. /\ paidIn' = paidIn + n /\ paidOut' = paidOut + 0
          /\ reserveCash' = reserveCash + n /\ reserveCash' \in Nat
          /\ schedule' = [schedule EXCEPT ![f].pledgedReserve = schedule[f].pledgedReserve + n]
      BY <1>1, <2>1, <3>1 DEF FundReserve, IInv, TypeOK
    <3>3. schedule[f].pledgedReserve + n \in Nat /\ n = 0 + n /\ n \in Int
      BY <1>1, <3>1
    <3> QED
      BY <3>2, <3>3 DEF ReserveMoves
  <2>2. ASSUME ReturnReserve(f)
        PROVE  \E p \in Nat, d \in Int : ReserveMoves(f, 0, p, d, 0)
    <3>1. PICK p \in Nat, d \in Int : p = schedule[f].pledgedReserve /\ d = -p /\ p <= reserveCash
      BY <1>1
    <3>2. 0 = p + d /\ reserveCash - p = reserveCash + d /\ reserveCash + d \in Nat
      BY <1>1, <3>1
    <3>3. /\ paidIn' = paidIn + 0 /\ paidOut' = paidOut + p
          /\ reserveCash' = reserveCash - p
          /\ schedule' = [schedule EXCEPT ![f].pledgedReserve = 0]
      BY <2>2, <3>1 DEF ReturnReserve, IInv, TypeOK
    <3> QED
      BY <3>1, <3>2, <3>3 DEF ReserveMoves
  <2> QED
    BY <2>1, <2>2
<1>4. /\ schedule' \in [Facilities -> Schedule]
      /\ schedule'[f].pledgedReserve = v
      /\ \A g \in Facilities \ {f} : schedule'[g].pledgedReserve = schedule[g].pledgedReserve
      /\ \A g \in Facilities : /\ schedule'[g].paidAtSchedule = schedule[g].paidAtSchedule
                              /\ schedule'[g].defaultApproved = schedule[g].defaultApproved
                              /\ schedule'[g].disputed = schedule[g].disputed
                              /\ schedule'[g].dueAt = schedule[g].dueAt
                              /\ schedule'[g].grace = schedule[g].grace
  BY <1>3, ReserveRow DEF ReserveMoves, IInv
<1>5. TypeOK'
  <2>1. paidIn' \in Nat /\ paidOut' \in Nat /\ reserveCash' \in Nat
    BY <1>3 DEF ReserveMoves, IInv, TypeOK
  <2> QED
    BY <1>2, <1>4, <2>1 DEF IInv, TypeOK
<1>6. SumPledged' = SumPledged + d
  BY <1>3, <1>4, <1>5, PledgedMoves DEF ReserveMoves, IInv
<1>7. Balanced(in, out, 0, 0, d)
  BY <1>2, <1>3, <1>6, SumsInt, SumsStill DEF ReserveMoves, Balanced, IInv, TypeOK
<1>8. ApprovalsKept /\ NoNewLoss
  BY <1>2, <1>4, RecoveryConstants DEF ApprovalsKept, NoNewLoss, IInv, TypeOK
<1> QED
  BY <1>2, <1>5, <1>7, <1>8, Keeps, ReceiptsStill DEF IInv

(* applyReserve pays from the facility's own reserve. *)
LEMMA ApplyReserveStep ==
    ASSUME IInv, NEW f \in Facilities, ApplyReserve(f)
    PROVE  Kept
<1>1. /\ schedule[f].pledgedReserve \in Nat /\ debt[f] \in Nat
      /\ schedule[f].pledgedReserve <= reserveCash /\ reserveCash \in Nat
  <2>1. Pledged[f] = schedule[f].pledgedReserve
    BY DEF Pledged
  <2> QED
    BY <2>1, SumsBound DEF IInv, CashConserved, TypeOK, Schedule
<1>2. PICK n \in Nat : n = ReserveDue(f) /\ n <= schedule[f].pledgedReserve
  BY <1>1, Lesser DEF ReserveDue
<1>3. /\ schedule' = [schedule EXCEPT ![f].pledgedReserve = schedule[f].pledgedReserve + (-n)]
      /\ schedule[f].pledgedReserve + (-n) \in Nat
      /\ reserveCash' = reserveCash + (-n) /\ reserveCash' \in Nat
      /\ Apply(f, n)
      /\ UNCHANGED <<now, receipts, routerCash, arrived, routeEnabled, lossUsed, paidIn, paidOut>>
  <2>1. /\ schedule[f].pledgedReserve - n = schedule[f].pledgedReserve + (-n)
        /\ schedule[f].pledgedReserve + (-n) \in Nat
        /\ reserveCash - n = reserveCash + (-n) /\ reserveCash + (-n) \in Nat
    BY <1>1, <1>2
  <2>2. /\ schedule' = [schedule EXCEPT ![f].pledgedReserve = schedule[f].pledgedReserve - n]
        /\ reserveCash' = reserveCash - n /\ Apply(f, n)
        /\ UNCHANGED <<now, receipts, routerCash, arrived, routeEnabled, lossUsed, paidIn, paidOut>>
    BY <1>2 DEF ApplyReserve, settleVars
  <2> QED
    BY <2>1, <2>2
<1>4. Paid(f, n)
  BY <1>3, ApplyIsPaid DEF IInv
<1> DEFINE v == schedule[f].pledgedReserve + (-n)
<1>5. /\ schedule' \in [Facilities -> Schedule]
      /\ schedule'[f].pledgedReserve = v
      /\ \A g \in Facilities \ {f} : schedule'[g].pledgedReserve = schedule[g].pledgedReserve
      /\ \A g \in Facilities : /\ schedule'[g].paidAtSchedule = schedule[g].paidAtSchedule
                              /\ schedule'[g].defaultApproved = schedule[g].defaultApproved
                              /\ schedule'[g].disputed = schedule[g].disputed
                              /\ schedule'[g].dueAt = schedule[g].dueAt
                              /\ schedule'[g].grace = schedule[g].grace
  <2>1. v \in Nat /\ schedule' = [schedule EXCEPT ![f].pledgedReserve = v]
    BY <1>3
  <2> HIDE DEF v
  <2> QED
    BY <2>1, ReserveRow DEF IInv
<1>6. TypeOK' /\ ApprovalsKept /\ NoNewLoss /\ SumGiven' = SumGiven + n
  BY <1>3, <1>4, <1>5, PaidStep DEF IInv, TypeOK
<1>7. SumPledged' = SumPledged + (-n)
  BY <1>5, <1>6, PledgedMoves DEF IInv
<1>8. Balanced(0, 0, n, 0, -n)
  BY <1>3, <1>6, <1>7, SumsInt, SumsStill DEF Balanced, IInv, TypeOK
<1>9. n \in Int /\ -n \in Int
  BY <1>2
<1>10. SettlementOnce
  BY <1>3, ReceiptsStill DEF IInv
<1> QED
  BY <1>6, <1>8, <1>9, <1>10, Keeps

(* writeOff uses up the reserve before anything is a loss. *)
LEMMA WriteOffStep ==
    ASSUME IInv, NEW f \in Facilities, NEW loss \in LossIds, WriteOff(f, loss)
    PROVE  Kept
<1>1. /\ schedule[f].pledgedReserve \in Nat /\ debt[f] \in Nat /\ totalAllocated[f] \in Nat
      /\ schedule[f].pledgedReserve <= reserveCash /\ reserveCash \in Nat
      /\ schedule \in [Facilities -> Schedule] /\ schedule[f] \in Schedule
  <2>1. Pledged[f] = schedule[f].pledgedReserve
    BY DEF Pledged
  <2> QED
    BY <2>1, SumsBound DEF IInv, CashConserved, TypeOK, Schedule
<1>2. PICK n \in Nat, left \in Nat, rest \in Nat :
         /\ n = ReserveDue(f) /\ left = debt[f] - n /\ rest = schedule[f].pledgedReserve - n
         /\ n <= reserveCash /\ (left # 0 => rest = 0)
  BY <1>1 DEF ReserveDue, LesserOf
<1> DEFINE lost == left # 0
           row == [schedule[f] EXCEPT !.pledgedReserve = rest, !.writtenOff = lost]
<1>3. /\ debt' = [debt EXCEPT ![f] = left]
      /\ totalAllocated' = [totalAllocated EXCEPT ![f] = totalAllocated[f] + n]
      /\ reserveCash' = reserveCash - n
      /\ state' = [state EXCEPT ![f] = LossState(left)]
      /\ lossUsed' = IF left = 0 THEN lossUsed ELSE lossUsed \union {loss}
      /\ schedule' = [schedule EXCEPT ![f] = row]
      /\ UNCHANGED <<now, frozen, refundable, receipts, routerCash, arrived, routeEnabled,
                     paidIn, paidOut>>
  BY <1>2 DEF WriteOff, settleVars
<1>4. row \in Schedule
  <2>1. lost \in BOOLEAN
    OBVIOUS
  <2> HIDE DEF lost
  <2> QED
    BY <1>1, <1>2, <2>1 DEF Schedule
<1>5. /\ row.pledgedReserve = rest /\ row.paidAtSchedule = schedule[f].paidAtSchedule
      /\ row.defaultApproved = schedule[f].defaultApproved
  BY <1>1 DEF Schedule
<1> HIDE DEF row
<1>6. /\ schedule' \in [Facilities -> Schedule] /\ schedule'[f] = row
      /\ \A g \in Facilities \ {f} : schedule'[g] = schedule[g]
  BY <1>1, <1>3, <1>4
<1>7. LossState(left) \in States /\ reserveCash' \in Nat /\ totalAllocated[f] + n \in Nat
      /\ reserveCash' = reserveCash + (-n)
  BY <1>1, <1>2, <1>3 DEF LossState, States
<1>8. /\ totalAllocated'[f] = totalAllocated[f] + n
      /\ \A g \in Facilities \ {f} : /\ totalAllocated'[g] = totalAllocated[g]
                                    /\ state'[g] = state[g]
  BY <1>3 DEF IInv, TypeOK
<1>9. TypeOK'
  <2>1. \A g \in Facilities : schedule'[g].paidAtSchedule <= totalAllocated'[g]
    <3> SUFFICES ASSUME NEW g \in Facilities
                 PROVE  schedule'[g].paidAtSchedule <= totalAllocated'[g]
      OBVIOUS
    <3>1. schedule[g].paidAtSchedule \in Nat /\ schedule[g].paidAtSchedule <= totalAllocated[g]
      BY DEF IInv, TypeOK, Schedule
    <3> QED
      BY <1>1, <1>2, <1>5, <1>6, <1>8, <3>1
  <2>2. /\ debt' \in [Facilities -> Nat] /\ totalAllocated' \in [Facilities -> Nat]
        /\ state' \in [Facilities -> States] /\ lossUsed' \subseteq LossIds
    BY <1>2, <1>3, <1>7 DEF IInv, TypeOK
  <2> QED
    BY <1>3, <1>6, <1>7, <2>1, <2>2 DEF IInv, TypeOK
<1>10. SumGiven' = SumGiven + n /\ SumPledged' = SumPledged + (-n)
  <2>1. \A g \in Facilities : refundable'[g] = refundable[g] /\ refundable[g] \in Nat
    BY <1>3 DEF IInv, TypeOK
  <2>2. totalAllocated'[f] + refundable'[f] = totalAllocated[f] + refundable[f] + n
    BY <1>1, <1>2, <1>8, <2>1
  <2>3. SumGiven' = SumGiven + n
    BY <1>2, <1>8, <1>9, <2>1, <2>2, GivenMoves DEF IInv
  <2>4. schedule'[f].pledgedReserve = schedule[f].pledgedReserve + (-n)
    BY <1>1, <1>2, <1>5, <1>6
  <2>5. SumPledged' = SumPledged + (-n)
    BY <1>2, <1>6, <1>9, <2>4, PledgedMoves DEF IInv
  <2> QED
    BY <2>3, <2>5
<1>11. CashConserved'
  <2>1. Balanced(0, 0, n, 0, -n)
    BY <1>2, <1>3, <1>7, <1>10, SumsInt, SumsStill DEF Balanced, IInv, TypeOK
  <2>2. n \in Int /\ -n \in Int
    BY <1>2
  <2> QED
    BY <2>1, <2>2, Conserved DEF IInv
<1>12. ApprovalCurrent'
  <2>1. ~schedule[f].defaultApproved
    BY DEF WriteOff, WriteOffGuard, IInv, ApprovalCurrent
  <2>2. now <= now'
    BY <1>3, RecoveryConstants DEF IInv, TypeOK
  <2>3. ApprovalsKept
    BY <1>5, <1>6, <1>8, <2>1, <2>2 DEF ApprovalsKept
  <2> QED
    BY <1>9, <2>3, Current DEF IInv
<1>13. ReserveAppliedFirst
  <2>1. state'[f] = "CLOSED_WITH_LOSS" => schedule'[f].pledgedReserve = 0
    BY <1>2, <1>3, <1>5, <1>6 DEF LossState, IInv, TypeOK
  <2> QED
    BY <1>8, <2>1 DEF ReserveAppliedFirst
<1> QED
  BY <1>3, <1>9, <1>11, <1>12, <1>13, ReceiptsStill DEF Kept, IInv

-----------------------------------------------------------------------------
(* The theorems *)

(* Before any cash moves. *)
LEMMA InitInv == Init => IInv
<1> SUFFICES ASSUME Init PROVE IInv
  OBVIOUS
<1>1. NoSchedule \in Schedule
  BY DEF NoSchedule, Schedule
<1>2. TypeOK
  <2>1. /\ schedule \in [Facilities -> Schedule]
        /\ receipts \in [SettlementIds -> [total : Nat, allocated : Nat]]
    BY <1>1 DEF Init
  <2>2. /\ \A f \in Facilities : schedule[f].paidAtSchedule <= totalAllocated[f]
        /\ \A s \in SettlementIds : receipts[s].allocated <= receipts[s].total
    BY DEF Init, NoSchedule
  <2> QED
    BY <2>1, <2>2, RecoveryConstants DEF Init, TypeOK, States
<1>3. /\ Given = [f \in Facilities |-> 0] /\ Pledged = [f \in Facilities |-> 0]
      /\ Waiting = [s \in SettlementIds |-> 0]
  BY DEF Init, Given, Pledged, Waiting, NoSchedule
<1>4. /\ SumFunctionOnSet(Given, Facilities) = 0 /\ SumFunctionOnSet(Pledged, Facilities) = 0
      /\ SumFunctionOnSet(Waiting, SettlementIds) = 0
  BY <1>3, SumZero, RecoveryConstants
<1>5. CashConserved
  BY <1>4 DEF Init, CashConserved
<1>6. ApprovalCurrent
  BY DEF Init, ApprovalCurrent, NoSchedule
<1> QED
  BY <1>2, <1>5, <1>6 DEF IInv

(* Every step keeps the invariant, and spends cash once and in order. *)
LEMMA NextInv ==
    ASSUME IInv, [Next]_vars
    PROVE  Kept
<1>1. CASE UNCHANGED vars
  <2>1. UNCHANGED <<now, state, debt, frozen, totalAllocated, refundable, receipts, routerCash,
                    arrived, routeEnabled, schedule, lossUsed, reserveCash, paidIn, paidOut>>
    BY <1>1 DEF vars, facilityVars, settleVars, recoveryVars
  <2>2. TypeOK'
    BY <2>1 DEF IInv, TypeOK
  <2>3. ApprovalsKept /\ NoNewLoss
    BY <2>1, RecoveryConstants DEF ApprovalsKept, NoNewLoss, IInv, TypeOK
  <2> QED
    BY <2>1, <2>2, <2>3, CashStill, Keeps DEF IInv
<1>2. ASSUME NEW f \in Facilities, NEW amount \in Amounts,
             \/ RepayFor(f, amount) \/ RepayExact(f, amount) \/ Draw(f, amount)
             \/ ManagerRepay(f, amount) \/ FundReserve(f, amount)
      PROVE  Kept
  BY <1>2, RepaySteps, QuietSteps, ReserveSteps
<1>3. ASSUME NEW f \in Facilities, NEW amount \in Amounts, NEW s \in SettlementIds,
             \/ Allocate(s, f, amount) \/ RouterReceiveSettlement(s, f, amount)
             \/ AdapterReceiveSettlement(s, f, amount)
      PROVE  Kept
  BY <1>3, AllocateStep, ReceiveStep
<1>4. ASSUME NEW f \in Facilities, NEW amount \in Amounts, NEW dueAt \in 1 .. MaxTime,
             NEW grace \in Graces, NEW window \in 0 .. grace,
             SetSchedule(f, dueAt, grace, window, amount)
      PROVE  Kept
  BY <1>4, ScheduleSteps
<1>5. ASSUME NEW s \in SettlementIds, NEW amount \in Amounts, RecordDestinationReceipt(s, amount)
      PROVE  Kept
  BY <1>5, RecordStep
<1>6. ASSUME NEW enabled \in BOOLEAN, SetRouteEnabled(enabled)
      PROVE  Kept
  BY <1>6, QuietSteps
<1>7. ASSUME NEW f \in Facilities,
             \/ RefundExcess(f) \/ FreezeDraws(f) \/ LiftFreeze(f) \/ SyncRepaid(f)
             \/ Release(f) \/ MarkDelinquent(f) \/ BeginRecovery(f)
      PROVE  Kept
  BY <1>7, RefundStep, MoveSteps
<1>8. ASSUME NEW f \in Facilities,
             \/ Cure(f) \/ \E disputed \in BOOLEAN : SetDispute(f, disputed)
             \/ ApproveDefault(f) \/ DeclareDefault(f)
      PROVE  Kept
  BY <1>8, ScheduleSteps
<1>9. ASSUME NEW f \in Facilities, ApplyReserve(f) \/ ReturnReserve(f)
      PROVE  Kept
  BY <1>9, ApplyReserveStep, ReserveSteps
<1>10. ASSUME NEW f \in Facilities, NEW loss \in LossIds,
              Impair(f, loss) \/ ApproveWriteOff(f, loss) \/ WriteOff(f, loss)
       PROVE  Kept
  BY <1>10, QuietSteps, ScheduleSteps, WriteOffStep
<1>11. CASE Tick
  BY <1>11, QuietSteps
<1> QED
  BY <1>1, <1>2, <1>3, <1>4, <1>5, <1>6, <1>7, <1>8, <1>9, <1>10, <1>11 DEF Next

(* The inductive invariant holds throughout. *)
LEMMA RecoveryInv == Spec => []IInv
<1>1. IInv /\ [Next]_vars => IInv'
  BY NextInv DEF Kept
<1> QED
  BY <1>1, InitInv, PTL DEF Spec

(* Balances, receipts and schedules keep their types: in particular neither the router
   nor the recovery manager is ever asked for cash it does not hold. *)
THEOREM RecoveryType == Spec => []TypeOK
<1>1. IInv => TypeOK
  BY DEF IInv
<1> QED
  BY <1>1, RecoveryInv, PTL

(* For any number of facilities and settlements: every unit paid in is waiting, pledged,
   applied, refundable or paid back, and router and reserve hold exactly what is theirs. *)
THEOREM RecoveryCashConserved == Spec => []CashConserved
<1>1. IInv => CashConserved
  BY DEF IInv
<1> QED
  BY <1>1, RecoveryInv, PTL

(* No approved default outlives the delinquency it was given for. *)
THEOREM RecoveryApprovalCurrent == Spec => []ApprovalCurrent
<1>1. IInv => ApprovalCurrent
  BY DEF IInv
<1> QED
  BY <1>1, RecoveryInv, PTL

(* A settlement id is used once, and a loss is taken only when the reserve is used up. *)
THEOREM RecoveryCashInOrder == Spec => CashInOrder
<1>1. IInv /\ [Next]_vars => [SettlementOnce /\ ReserveAppliedFirst]_vars
  BY NextInv DEF Kept
<1> QED
  BY <1>1, RecoveryInv, PTL DEF Spec, CashInOrder
=============================================================================
