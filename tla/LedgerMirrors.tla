---------------------------- MODULE LedgerMirrors ----------------------------
(***************************************************************************)
(* The two off-chain copies of the facility ledger, run beside it:         *)
(*   proj  the read model replay folds from the ledger's events            *)
(*         (projections/indexer.py), as reconcile_views compares it;       *)
(*   ref   the reference model of accounting/reference.py, given the same  *)
(*         calls.  It compounds unpaid interest when a capitalising        *)
(*         facility draws and the contract only when capitalize is called, *)
(*         so it is kept for the facilities that do not capitalise.        *)
(***************************************************************************)
EXTENDS DebtLedger

VARIABLES proj, ref

mirrorVars == <<vars, proj, ref>>

-----------------------------------------------------------------------------
(* The events a ledger call emits *)

NoEvent == [name |-> "none"]

AccrualEvent(F) ==
    IF Accrues(F) /\ F.lastAccrualAt < now
    THEN [name |-> "Accrued", units |-> Units(Accrued(F, now).interestAccum) - Units(F.interestAccum)]
    ELSE NoEvent

DrawnEvent(F, amount) == [name |-> "Drawn", newPrincipal |-> F.principal + amount]

AllocatedEvent(F, received) ==
    LET A == Accrued(F, now)
        r == Waterfall(A, received)
    IN  [name |-> "Allocated", feePaid |-> r.feePaid, interestPaid |-> r.interestPaid,
         principalPaid |-> r.principalPaid, newDebt |-> LegalDebtAt(Allocated(A, r), now)]

CapitalizedEvent(F) ==
    LET unpaid == Units(Accrued(F, now).interestAccum)
    IN  IF unpaid = 0 THEN NoEvent
        ELSE [name |-> "Capitalized", units |-> unpaid, newPrincipal |-> F.principal + unpaid]

-----------------------------------------------------------------------------
(* replay: the read model of one facility *)

NoRow == [known |-> FALSE, principal |-> 0, fees |-> 0, interest |-> 0, frozen |-> FALSE, sound |-> TRUE]

FoldUncompounded(row, e) ==                     \* mutant: capitalised interest stays recorded
    CASE e.name = "Drawn" -> [row EXCEPT !.principal = e.newPrincipal, !.known = TRUE]
      [] e.name = "Capitalized" -> [row EXCEPT !.principal = e.newPrincipal]
      [] e.name = "Accrued" -> [row EXCEPT !.interest = @ + e.units]
      [] OTHER -> [row EXCEPT !.known = TRUE]

(* replay's event switch, field by field, without the state, rate and time  *)
(* it copies.                                                               *)
PrincipalAfter(row, e) ==
    CASE e.name \in {"Drawn", "Capitalized"} -> e.newPrincipal
      [] e.name = "Allocated" -> row.principal - e.principalPaid
      [] OTHER -> row.principal

FeesAfter(row, e) ==
    CASE e.name = "FeeCharged" -> row.fees + e.amount
      [] e.name = "Allocated" -> row.fees - e.feePaid
      [] OTHER -> row.fees

InterestAfter(row, e) ==
    CASE e.name = "Accrued" -> row.interest + e.units
      [] e.name = "Capitalized" -> row.interest - e.units
      [] e.name = "Allocated" -> row.interest - e.interestPaid
      [] OTHER -> row.interest

(* replay raises when an Allocated event's debt is not the folded one, and  *)
(* the table's check constraint when an amount is negative.                 *)
FoldsSoundly(row, e) ==
    /\ PrincipalAfter(row, e) >= 0 /\ FeesAfter(row, e) >= 0 /\ InterestAfter(row, e) >= 0
    /\ e.name = "Allocated" =>
          FeesAfter(row, e) + InterestAfter(row, e) + PrincipalAfter(row, e) = e.newDebt

FoldEvent(row, e) ==
    IF e.name = "none" THEN row
    ELSE [known |-> TRUE, principal |-> PrincipalAfter(row, e), fees |-> FeesAfter(row, e),
          interest |-> InterestAfter(row, e), frozen |-> row.frozen \/ e.name = "AccrualFrozen",
          sound |-> row.sound /\ FoldsSoundly(row, e)]

(* The events of one call, in the order they were emitted. *)
Projected(f, first, second) ==
    proj' = [proj EXCEPT ![f] = FoldEvent(FoldEvent(@, first), second)]

-----------------------------------------------------------------------------
(* The reference model of one facility *)

NoReference == [principal |-> 0, fees |-> 0, accum |-> 0, last |-> 0, frozen |-> FALSE,
                segments |-> [start \in {} |-> 0]]

(* current_rate: of the last segment started by then.  The list is sorted   *)
(* and has one segment for a start: a function from starts to rates.        *)
CurrentRate(segments, at) ==
    LET started == {s \in DOMAIN segments : s <= at}
    IN  segments[IF started = {} THEN Min(DOMAIN segments) ELSE Max(started)]

(* accrue: segment by segment, which is second by second at the second's rate. *)
ReferenceAccrued(R, t) ==
    [R EXCEPT !.last = t,
              !.accum = IF R.frozen THEN @
                        ELSE @ + SumFunctionOnSet(
                                    [s \in R.last .. t - 1 |-> R.principal * CurrentRate(R.segments, s)],
                                    R.last .. t - 1)]

ReferenceInterestAt(R, t) == ReferenceAccrued(R, t).accum \div Denom

(* set_rate: a segment of the same start is replaced. *)
ReferenceRate(R, t, rate) ==
    [ReferenceAccrued(R, t) EXCEPT !.segments =
        [s \in DOMAIN R.segments \union {t} |-> IF s = t THEN rate ELSE R.segments[s]]]

ReferenceBorrow(R, t, amount) == [ReferenceAccrued(R, t) EXCEPT !.principal = @ + amount]

ReferenceFee(R, t, amount) == [ReferenceAccrued(R, t) EXCEPT !.fees = @ + amount]

(* allocate_repayment *)
ReferenceRepaid(R, t, amount) ==
    LET A         == ReferenceAccrued(R, t)
        fees      == LesserOf(amount, A.fees)
        interest  == LesserOf(amount - fees, A.accum \div Denom)
        principal == LesserOf(amount - fees - interest, A.principal)
    IN  [A EXCEPT !.fees = @ - fees, !.accum = @ - interest * Denom, !.principal = @ - principal]

(* write_off: accrue, then stop accruing. *)
ReferenceFrozen(R, t) == [ReferenceAccrued(R, t) EXCEPT !.frozen = TRUE]

Referenced(f, R) == ref' = [ref EXCEPT ![f] = IF facility'[f].capitalizes THEN NoReference ELSE R]

-----------------------------------------------------------------------------
MirrorInit ==
    /\ Init
    /\ proj = [f \in Facilities |-> NoRow]
    /\ ref = [f \in Facilities |-> NoReference]

(* Each call of the ledger, with what its events and the same call do to the mirrors. *)
MirrorNext ==
    \/ /\ \/ \E w \in Accounts, enabled \in BOOLEAN : SetWriter(w, enabled)
          \/ FinalizeWiring
          \/ \E elapsed \in 1 .. MaxTime : Tick(elapsed)
       /\ UNCHANGED <<proj, ref>>
    \/ \E w \in Accounts, f \in Facilities, rate \in Rates, c \in BOOLEAN, maturityAt \in 0 .. MaxTime :
          /\ Open(w, f, rate, c, maturityAt)
          /\ Projected(f, [name |-> "FacilityOpened"], NoEvent)
          /\ Referenced(f, [NoReference EXCEPT !.last = now, !.segments = [start \in {now} |-> rate]])
    \/ \E w \in Accounts, f \in Facilities, s \in States :
          /\ SetState(w, f, s)
          /\ Projected(f, [name |-> "StateSet"], NoEvent)
          /\ UNCHANGED ref
    \/ \E w \in Accounts, f \in Facilities :
          /\ Accrue(w, f)
          /\ Projected(f, AccrualEvent(facility[f]), NoEvent)
          /\ Referenced(f, ReferenceAccrued(ref[f], now))
    \/ \E w \in Accounts, f \in Facilities, rate \in Rates :
          /\ SetRate(w, f, rate)
          /\ Projected(f, AccrualEvent(facility[f]), NoEvent)
          /\ Referenced(f, ReferenceRate(ref[f], now, rate))
    \/ \E w \in Accounts, f \in Facilities, a \in Amounts :
          /\ RecordDraw(w, f, a)
          /\ Projected(f, AccrualEvent(facility[f]), DrawnEvent(facility[f], a))
          /\ Referenced(f, ReferenceBorrow(ref[f], now, a))
    \/ \E w \in Accounts, f \in Facilities, a \in Amounts :
          /\ RecordFee(w, f, a)
          /\ Projected(f, AccrualEvent(facility[f]), [name |-> "FeeCharged", amount |-> a])
          /\ Referenced(f, ReferenceFee(ref[f], now, a))
    \/ \E w \in Accounts, f \in Facilities, a \in Amounts :
          /\ Allocate(w, f, a)
          /\ Projected(f, AccrualEvent(facility[f]), AllocatedEvent(facility[f], a))
          /\ Referenced(f, ReferenceRepaid(ref[f], now, a))
    \/ \E w \in Accounts, f \in Facilities :
          /\ FreezeAccrual(w, f)
          /\ Projected(f, AccrualEvent(facility[f]), [name |-> "AccrualFrozen"])
          /\ Referenced(f, ReferenceFrozen(ref[f], now))
    \/ \E w \in Accounts, f \in Facilities :
          /\ Capitalize(w, f)
          /\ Projected(f, AccrualEvent(facility[f]), CapitalizedEvent(facility[f]))
          /\ UNCHANGED ref

MirrorSpec == MirrorInit /\ [][MirrorNext]_mirrorVars

-----------------------------------------------------------------------------
(* reconcile_views: whatever calls were made and however often interest was *)
(* accrued, the read model folded from the events has the contract's        *)
(* principal and fees, its debt as of the last accrual, and never more      *)
(* interest than the contract reports now; replay never raises.             *)
ProjectionReconciles ==
    \A f \in Facilities : facility[f].exists =>
       LET F == facility[f]
           p == proj[f]
       IN  /\ p.known /\ p.sound
           /\ p.principal = F.principal
           /\ p.fees = F.fees
           /\ p.frozen = F.frozen
           /\ p.principal + p.fees + p.interest = LegalDebtAt(F, F.lastAccrualAt)
           /\ p.interest <= UnpaidInterestAt(F, now)

(* The contract and the reference model agree on principal, fees and unpaid *)
(* interest at every moment (no capitalisation): one settles each change of *)
(* rate at once, the other walks its list of segments.                      *)
ReferenceAgrees ==
    \A f \in Facilities : (facility[f].exists /\ ~facility[f].capitalizes) =>
       /\ ref[f].principal = facility[f].principal
       /\ ref[f].fees = facility[f].fees
       /\ ReferenceInterestAt(ref[f], now) = UnpaidInterestAt(facility[f], now)

(* Whoever reads the ledger reads the same debt: the vault by its total,    *)
(* the indexer by folding events, the reference model by its own segments.  *)
MirrorsAgree == TotalDebtConservation /\ ProjectionReconciles /\ ReferenceAgrees
=============================================================================
