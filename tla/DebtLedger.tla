------------------------------ MODULE DebtLedger ------------------------------
(***************************************************************************)
(* The facility ledger (contracts/gpu/DebtLedger.sol over InterestMath):   *)
(* principal, fees and the exact interest numerator of each facility,      *)
(* forward-only rate segments and the repayment waterfall.  Every external *)
(* function that changes state is an action, taken by any account of       *)
(* `Accounts' and guarded by the code's modifiers and reverts; `now' is    *)
(* the block timestamp.  `hist' is a history variable of the properties:   *)
(* what was drawn, charged, paid and, second by second, owed.              *)
(***************************************************************************)
EXTENDS Integers, Sequences, FiniteSets, SequencesExt

CONSTANTS
    Facilities,     \* facility ids
    Accounts,       \* accounts that may be allow-listed as writers
    States,         \* the facility states a writer may record
    Active,         \* GpuTypes.FacilityState.ACTIVE
    Rates,          \* rateBps values
    Amounts,        \* token amounts of one call (0 is tried too)
    Denom,          \* InterestMath.DENOM
    MaxPrincipal,   \* InterestMath.MAX_PRINCIPAL
    MaxTime         \* the last block timestamp (uint64 in the code)

ASSUME LedgerConstants ==
    /\ IsFiniteSet(Facilities)
    /\ Rates \subseteq Nat
    /\ Amounts \subseteq Nat
    /\ Denom \in Nat \ {0}
    /\ MaxPrincipal \in Nat
    /\ MaxTime \in Nat
    /\ Active \in States

VARIABLES
    now,            \* block.timestamp
    facility,       \* _facilities
    ids,            \* _ids
    isWriter,       \* the allow-listed writers
    wiringFinalized,
    hist            \* history of each facility, read by properties only

vars == <<now, facility, ids, isWriter, wiringFinalized, hist>>

RateSegment == [start : Nat, rateBps : Nat]

Facility ==
    [exists : BOOLEAN, frozen : BOOLEAN, state : States,
     capitalizes : BOOLEAN, principal : Nat, fees : Nat, interestAccum : Nat,
     lastAccrualAt : Nat, rateBps : Nat, segments : Seq(RateSegment)]

(* drawn, charged, applied: sums of amounts; compounded: units moved from   *)
(* interest to principal; interestPaid: units of interest paid; owed: the   *)
(* numerator that the passing seconds put on the facility.                  *)
History ==
    [drawn : Nat, charged : Nat, applied : Nat, compounded : Nat,
     interestPaid : Nat, owed : Nat]

-----------------------------------------------------------------------------
(* InterestMath *)

Growth(principal, rateBps, elapsed) == principal * rateBps * elapsed

Units(accum) == accum \div Denom

ToAccum(units) == units * Denom

LesserOf(a, b) == IF a < b THEN a ELSE b

-----------------------------------------------------------------------------
(* The internals and views on one Facility record F at time t *)

Accrues(F) == ~F.frozen /\ F.principal # 0

(* The numerator of the period since the last accrual, none going backwards. *)
Pending(F, t) ==
    IF Accrues(F) /\ F.lastAccrualAt < t
    THEN Growth(F.principal, F.rateBps, t - F.lastAccrualAt)
    ELSE 0

Accrued(F, t) ==
    [F EXCEPT !.lastAccrualAt = t,
              !.interestAccum = @ + Pending(F, t)]

UnpaidInterestAt(F, t) == Units(F.interestAccum + Pending(F, t))

LegalDebtAt(F, t) == F.principal + F.fees + UnpaidInterestAt(F, t)

TotalLegalDebtAt(t) ==
    SumFunctionOnSet([i \in DOMAIN ids |-> LegalDebtAt(facility[ids[i]], t)], DOMAIN ids)

(* The waterfall of allocate on an already accrued record. *)
Waterfall(F, received) ==
    LET feePaid       == LesserOf(received, F.fees)
        interestPaid  == LesserOf(received - feePaid, Units(F.interestAccum))
        principalPaid == LesserOf(received - feePaid - interestPaid, F.principal)
    IN  [feePaid       |-> feePaid,
         interestPaid  |-> interestPaid,
         principalPaid |-> principalPaid,
         applied       |-> feePaid + interestPaid + principalPaid,
         excess        |-> received - feePaid - interestPaid - principalPaid]

Allocated(F, r) ==
    [F EXCEPT !.fees = @ - r.feePaid,
              !.interestAccum = @ - ToAccum(r.interestPaid),
              !.principal = @ - r.principalPaid]

AppendRate(segments, t, rate) ==
    IF Last(segments).start = t
    THEN [segments EXCEPT ![Len(segments)].rateBps = rate]
    ELSE Append(segments, [start |-> t, rateBps |-> rate])

-----------------------------------------------------------------------------
NoFacility ==
    [exists |-> FALSE, frozen |-> FALSE, state |-> Active,
     capitalizes |-> FALSE, principal |-> 0, fees |-> 0, interestAccum |-> 0,
     lastAccrualAt |-> 0, rateBps |-> 0, segments |-> <<>>]

NoHistory ==
    [drawn |-> 0, charged |-> 0, applied |-> 0, compounded |-> 0,
     interestPaid |-> 0, owed |-> 0]

Init ==
    /\ now = 0
    /\ facility = [f \in Facilities |-> NoFacility]
    /\ ids = <<>>
    /\ isWriter = {}
    /\ wiringFinalized = FALSE
    /\ hist = [f \in Facilities |-> NoHistory]

LedgerWrite(w, f) ==                        \* onlyWriter, exists
    /\ w \in isWriter
    /\ facility[f].exists
    /\ UNCHANGED <<now, ids, isWriter, wiringFinalized>>

(* setWriter: the admin's call (the role check is ProtocolRoles'). *)
SetWriter(w, enabled) ==
    /\ ~wiringFinalized
    /\ isWriter' = IF enabled THEN isWriter \cup {w} ELSE isWriter \ {w}
    /\ UNCHANGED <<now, facility, ids, wiringFinalized, hist>>

FinalizeWiring ==
    /\ ~wiringFinalized
    /\ wiringFinalized' = TRUE
    /\ UNCHANGED <<now, facility, ids, isWriter, hist>>

(* open, once per id; maturityAt (0 for none) is only checked here. *)
Open(w, f, rate, capitalizes, maturityAt) ==
    /\ w \in isWriter
    /\ ~facility[f].exists
    /\ maturityAt = 0 \/ maturityAt > now
    /\ facility' = [facility EXCEPT ![f] =
           [NoFacility EXCEPT !.exists = TRUE,
                              !.capitalizes = capitalizes,
                              !.rateBps = rate,
                              !.lastAccrualAt = now,
                              !.segments = <<[start |-> now, rateBps |-> rate]>>]]
    /\ ids' = Append(ids, f)
    /\ UNCHANGED <<now, isWriter, wiringFinalized, hist>>

SetState(w, f, s) ==
    /\ LedgerWrite(w, f)
    /\ facility' = [facility EXCEPT ![f].state = s]
    /\ UNCHANGED hist

Accrue(w, f) ==
    /\ LedgerWrite(w, f)
    /\ facility' = [facility EXCEPT ![f] = Accrued(@, now)]
    /\ UNCHANGED hist

SetRateUnaccrued(w, f, rate) ==             \* mutant: the past is re-priced
    /\ LedgerWrite(w, f)
    /\ facility' = [facility EXCEPT ![f] =
           LET F == facility[f]
           IN  [F EXCEPT !.rateBps = rate,
                         !.segments = AppendRate(F.segments, now, rate)]]
    /\ UNCHANGED hist

SetRate(w, f, rate) ==
    /\ LedgerWrite(w, f)
    /\ facility' = [facility EXCEPT ![f] =
           LET F == Accrued(facility[f], now)
           IN  [F EXCEPT !.rateBps = rate,
                         !.segments = AppendRate(F.segments, now, rate)]]
    /\ UNCHANGED hist

RecordDraw(w, f, amount) ==
    /\ LedgerWrite(w, f)
    /\ amount # 0
    /\ ~facility[f].frozen
    /\ facility[f].principal + amount <= MaxPrincipal
    /\ facility' = [facility EXCEPT ![f] =
           LET F == Accrued(facility[f], now)
           IN  [F EXCEPT !.principal = F.principal + amount]]
    /\ hist' = [hist EXCEPT ![f].drawn = @ + amount]

RecordFee(w, f, amount) ==
    /\ LedgerWrite(w, f)
    /\ amount # 0
    /\ facility' = [facility EXCEPT ![f] =
           LET F == Accrued(facility[f], now)
           IN  [F EXCEPT !.fees = F.fees + amount]]
    /\ hist' = [hist EXCEPT ![f].charged = @ + amount]

Allocate(w, f, received) ==
    LET F == Accrued(facility[f], now)
        r == Waterfall(F, received)
    IN  /\ LedgerWrite(w, f)
        /\ received # 0
        /\ facility' = [facility EXCEPT ![f] = Allocated(F, r)]
        /\ hist' = [hist EXCEPT ![f].applied = @ + r.applied,
                                ![f].interestPaid = @ + r.interestPaid]

FreezeAccrualUnaccrued(w, f) ==             \* mutant: pending interest forgiven
    /\ LedgerWrite(w, f)
    /\ facility' = [facility EXCEPT ![f].frozen = TRUE]
    /\ UNCHANGED hist

FreezeAccrual(w, f) ==
    /\ LedgerWrite(w, f)
    /\ facility' = [facility EXCEPT ![f] = [Accrued(@, now) EXCEPT !.frozen = TRUE]]
    /\ UNCHANGED hist

CapitalizeRounded(w, f) ==                  \* mutant: a started unit is charged whole
    LET F      == Accrued(facility[f], now)
        unpaid == Units(F.interestAccum + Denom - 1)
    IN  /\ LedgerWrite(w, f)
        /\ F.capitalizes
        /\ ~F.frozen
        /\ unpaid = 0 \/ F.principal + unpaid <= MaxPrincipal
        /\ facility' = [facility EXCEPT ![f] =
               [F EXCEPT !.interestAccum = 0,
                         !.principal = F.principal + unpaid]]
        /\ hist' = [hist EXCEPT ![f].compounded = @ + unpaid]

Capitalize(w, f) ==
    LET F      == Accrued(facility[f], now)
        unpaid == Units(F.interestAccum)
    IN  /\ LedgerWrite(w, f)
        /\ F.capitalizes
        /\ ~F.frozen
        /\ unpaid = 0 \/ F.principal + unpaid <= MaxPrincipal
        /\ facility' = [facility EXCEPT ![f] =
               [F EXCEPT !.interestAccum = F.interestAccum - ToAccum(unpaid),
                         !.principal = F.principal + unpaid]]
        /\ hist' = [hist EXCEPT ![f].compounded = @ + unpaid]

(* Blocks move the clock; meanwhile each facility that accrues comes to owe *)
(* interest on its principal at its rate, whether or not anyone calls.      *)
Tick(elapsed) ==
    /\ now + elapsed <= MaxTime
    /\ now' = now + elapsed
    /\ hist' = [f \in Facilities |->
           IF Accrues(facility[f])
           THEN [hist[f] EXCEPT !.owed =
                    hist[f].owed + Growth(facility[f].principal, facility[f].rateBps, elapsed)]
           ELSE hist[f]]
    /\ UNCHANGED <<facility, ids, isWriter, wiringFinalized>>

Next ==
    \/ \E w \in Accounts, enabled \in BOOLEAN : SetWriter(w, enabled)
    \/ FinalizeWiring
    \/ \E w \in Accounts, f \in Facilities, rate \in Rates, c \in BOOLEAN,
          maturityAt \in 0 .. MaxTime : Open(w, f, rate, c, maturityAt)
    \/ \E w \in Accounts, f \in Facilities, s \in States : SetState(w, f, s)
    \/ \E w \in Accounts, f \in Facilities : Accrue(w, f)
    \/ \E w \in Accounts, f \in Facilities, rate \in Rates : SetRate(w, f, rate)
    \/ \E w \in Accounts, f \in Facilities, a \in Amounts : RecordDraw(w, f, a)
    \/ \E w \in Accounts, f \in Facilities, a \in Amounts : RecordFee(w, f, a)
    \/ \E w \in Accounts, f \in Facilities, a \in Amounts : Allocate(w, f, a)
    \/ \E w \in Accounts, f \in Facilities : FreezeAccrual(w, f)
    \/ \E w \in Accounts, f \in Facilities : Capitalize(w, f)
    \/ \E elapsed \in 1 .. MaxTime : Tick(elapsed)

Spec == Init /\ [][Next]_vars

-----------------------------------------------------------------------------
(* Type correctness: every field holds a natural, no subtraction of the     *)
(* waterfall underflows, no accrual point lies in the future.               *)
TypeOK ==
    /\ now \in 0 .. MaxTime
    /\ facility \in [Facilities -> Facility]
    /\ \A f \in Facilities : facility[f].lastAccrualAt <= now
    /\ ids \in Seq(Facilities)
    /\ isWriter \subseteq Accounts
    /\ wiringFinalized \in BOOLEAN
    /\ hist \in [Facilities -> History]

(* Exact interest (AC-02, AC-03): what the accumulator holds, plus what the *)
(* next accrual would add, is what the passing seconds made the facility    *)
(* owe less what was paid or capitalised, at whatever moments accrue,       *)
(* setRate, draws, fees, payments and freezes were called.                  *)
InterestConservation ==
    \A f \in Facilities :
        Accrued(facility[f], now).interestAccum
            = hist[f].owed - ToAccum(hist[f].interestPaid + hist[f].compounded)

(* Legal debt (AC-04, AC-08): at every moment, and also after a freeze, the *)
(* debt the ledger reports is the money drawn, the fees charged and the     *)
(* whole units of interest owed, less exactly what payments applied.        *)
DebtConservation ==
    \A f \in Facilities :
        LegalDebtAt(facility[f], now)
            = hist[f].drawn + hist[f].charged + Units(hist[f].owed)
                - hist[f].applied

(* The portfolio total the vault reads counts each opened facility once.    *)
TotalDebtConservation ==
    TotalLegalDebtAt(now)
        = SumFunctionOnSet([f \in Facilities |-> hist[f].drawn + hist[f].charged
                                                   + Units(hist[f].owed) - hist[f].applied],
                           Facilities)

(* Waterfall (AC-01): principal is repaid only by a call that leaves no fee *)
(* and no whole unit of interest unpaid.                                    *)
WaterfallOrder ==
    \A f \in Facilities :
        facility'[f].principal < facility[f].principal =>
           /\ facility'[f].fees = 0
           /\ LegalDebtAt(facility'[f], now') = facility'[f].principal

(* A call that draws nothing, charges nothing and pays nothing (accrue,     *)
(* setRate, freezeAccrual, capitalize, setState) changes nobody's debt as   *)
(* of that block: a new rate never reprices the past, a freeze forgives     *)
(* nothing, capitalising creates no debt.                                   *)
DebtMovesOnlyByCash ==
    \A f \in Facilities :
        (/\ now' = now
         /\ hist'[f].drawn = hist[f].drawn
         /\ hist'[f].charged = hist[f].charged
         /\ hist'[f].applied = hist[f].applied) =>
           LegalDebtAt(facility'[f], now') = LegalDebtAt(facility[f], now)

(* Debt moves by cash alone, and cash pays it in the waterfall's order,     *)
(* whatever accrual is pending when a call comes.                           *)
CashMovesDebt == [][WaterfallOrder /\ DebtMovesOnlyByCash]_vars
=============================================================================
