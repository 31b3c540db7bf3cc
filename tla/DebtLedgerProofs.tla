--------------------------- MODULE DebtLedgerProofs ---------------------------
(***************************************************************************)
(* Proofs about DebtLedger for every set of facilities, rates and amounts, *)
(* every denominator and every clock bound.                                *)
(***************************************************************************)
EXTENDS LedgerMirrors, Sums, TLAPS

-----------------------------------------------------------------------------
(* Arithmetic *)

(* Products of naturals are naturals. *)
LEMMA TimesNat == ASSUME NEW a \in Nat, NEW b \in Nat PROVE a * b \in Nat
  OBVIOUS

LEMMA GrowthNat ==
  ASSUME NEW p \in Nat, NEW r \in Nat, NEW e \in Nat
  PROVE  Growth(p, r, e) \in Nat
  BY TimesNat DEF Growth

(* The numerator of a split period is the sum of its parts. *)
LEMMA GrowthSplit ==
  ASSUME NEW p \in Nat, NEW r \in Nat, NEW d \in Nat, NEW e \in Nat
  PROVE  Growth(p, r, d + e) = Growth(p, r, d) + Growth(p, r, e)
<1>1. p * r \in Nat
  BY TimesNat
<1>2. \A x \in Nat : x * (d + e) = x * d + x * e
  OBVIOUS
<1> QED
  BY <1>1, <1>2 DEF Growth

(* Floor division is the only quotient with a remainder below the divisor. *)
LEMMA QuotientUnique ==
  ASSUME NEW D \in Nat \ {0}, NEW a \in Nat, NEW q \in Int,
         q * D <= a, a < (q + 1) * D
  PROVE  a \div D = q
<1> DEFINE p == a \div D
<1>1. p \in Int /\ p * D <= a /\ a < (p + 1) * D
  OBVIOUS
<1>2. \A x, y \in Int : x < y => (x + 1) * D <= y * D
  OBVIOUS
<1>3. p * D \in Int /\ q * D \in Int /\ (p + 1) * D \in Int /\ (q + 1) * D \in Int
  BY <1>1
<1>4. ~(p < q)
  BY <1>1, <1>2, <1>3
<1>5. ~(q < p)
  BY <1>1, <1>2, <1>3
<1> QED
  BY <1>1, <1>4, <1>5

(* Taking k whole units out of a numerator takes k out of its units. *)
LEMMA UnitsShift ==
  ASSUME NEW a \in Nat, NEW k \in Nat, a - ToAccum(k) >= 0
  PROVE  Units(a - ToAccum(k)) = Units(a) - k
<1>1. Denom \in Nat \ {0}
  BY LedgerConstants
<1> DEFINE q == a \div Denom
<1>2. q \in Int /\ q * Denom <= a /\ a < (q + 1) * Denom
  BY <1>1
<1>3. (q - k) * Denom = q * Denom - k * Denom
  BY <1>1, <1>2
<1>4. (q - k + 1) * Denom = (q + 1) * Denom - k * Denom
  BY <1>1, <1>2
<1>5. k * Denom \in Nat /\ q * Denom \in Int /\ (q + 1) * Denom \in Int
  BY <1>1, <1>2
<1>6. a - k * Denom \in Nat
  BY <1>5 DEF ToAccum
<1>7. (q - k) * Denom <= a - k * Denom /\ a - k * Denom < (q - k + 1) * Denom
  BY <1>2, <1>3, <1>4, <1>5
<1>8. (a - k * Denom) \div Denom = q - k
  <2> DEFINE b == a - k * Denom
             x == q - k
  <2>1. b \in Nat /\ x \in Int /\ x * Denom <= b /\ b < (x + 1) * Denom
    BY <1>2, <1>6, <1>7
  <2> HIDE DEF b, x
  <2>2. b \div Denom = x
    BY <1>1, <2>1, QuotientUnique
  <2> QED
    BY <2>2 DEF b, x
<1> QED
  BY <1>8 DEF Units, ToAccum

LEMMA UnitsNat ==
  ASSUME NEW a \in Nat
  PROVE  /\ Units(a) \in Nat
         /\ ToAccum(Units(a)) \in Nat
         /\ ToAccum(Units(a)) <= a
         /\ \A k \in 0 .. Units(a) : ToAccum(k) \in Nat /\ ToAccum(k) <= a
<1>1. Denom \in Nat \ {0}
  BY LedgerConstants
<1>2. Units(a) \in Nat
  BY <1>1 DEF Units
<1>3. Units(a) * Denom \in Nat /\ Units(a) * Denom <= a
  BY <1>1 DEF Units
<1>4. ASSUME NEW k \in 0 .. Units(a)
      PROVE  k * Denom \in Nat /\ k * Denom <= Units(a) * Denom
  BY <1>1, <1>2
<1> QED
  BY <1>2, <1>3, <1>4 DEF ToAccum

-----------------------------------------------------------------------------
(* One facility record *)

(* Accrual is typed and moves only the numerator and the accrual point. *)
LEMMA AccruedFacts ==
  ASSUME NEW F \in Facility, NEW t \in Nat, F.lastAccrualAt <= t
  PROVE  /\ Pending(F, t) \in Nat
         /\ Accrued(F, t) \in Facility
         /\ Accrued(F, t).interestAccum = F.interestAccum + Pending(F, t)
         /\ Accrued(F, t).lastAccrualAt = t
         /\ \A field \in {"exists", "frozen", "state", "capitalizes", "principal",
                           "fees", "rateBps", "segments"} :
               Accrued(F, t)[field] = F[field]
<1>1. /\ F.principal \in Nat /\ F.rateBps \in Nat /\ F.lastAccrualAt \in Nat
      /\ F.interestAccum \in Nat
  BY DEF Facility
<1>2. t - F.lastAccrualAt \in Nat
  BY <1>1
<1>3. Pending(F, t) \in Nat
  BY <1>1, <1>2, GrowthNat DEF Pending
<1>4. F.interestAccum + Pending(F, t) \in Nat
  BY <1>1, <1>3
<1>5. Accrued(F, t) \in Facility
  BY <1>4 DEF Accrued, Facility
<1> QED
  BY <1>3, <1>5 DEF Accrued, Facility

(* The reported debt is principal, fees and the units of the numerator the  *)
(* facility would have if it were accrued now.                              *)
LEMMA LegalDebtFacts ==
  ASSUME NEW F \in Facility, NEW t \in Nat, F.lastAccrualAt <= t
  PROVE  LegalDebtAt(F, t)
           = F.principal + F.fees + Units(Accrued(F, t).interestAccum)
  BY AccruedFacts DEF LegalDebtAt, UnpaidInterestAt

(* The waterfall splits a payment into four naturals, each payment within   *)
(* what it pays off.                                                        *)
LEMMA WaterfallFacts ==
  ASSUME NEW F \in Facility, NEW received \in Nat
  PROVE  LET r == Waterfall(F, received)
         IN  /\ r.feePaid \in 0 .. F.fees
             /\ r.interestPaid \in 0 .. Units(F.interestAccum)
             /\ r.principalPaid \in 0 .. F.principal
             /\ r.excess \in Nat
             /\ r.applied = r.feePaid + r.interestPaid + r.principalPaid
             /\ r.applied + r.excess = received
             /\ r.principalPaid > 0 =>
                   r.feePaid = F.fees /\ r.interestPaid = Units(F.interestAccum)
             /\ r.excess > 0 => r.principalPaid = F.principal
<1>1. Units(F.interestAccum) \in Nat
  BY UnitsNat DEF Facility
<1> DEFINE u == Units(F.interestAccum)
           feePaid == LesserOf(received, F.fees)
           interestPaid == LesserOf(received - feePaid, u)
           principalPaid == LesserOf(received - feePaid - interestPaid, F.principal)
<1>2. F.fees \in Nat /\ F.principal \in Nat /\ u \in Nat
  BY <1>1 DEF Facility
<1> HIDE DEF u
<1>3. /\ feePaid \in 0 .. F.fees /\ received - feePaid \in Nat
      /\ feePaid < received => feePaid = F.fees
  BY <1>2 DEF LesserOf
<1> HIDE DEF feePaid
<1>4. /\ interestPaid \in 0 .. u /\ received - feePaid - interestPaid \in Nat
      /\ interestPaid < received - feePaid => interestPaid = u
  BY <1>2, <1>3 DEF LesserOf
<1> HIDE DEF interestPaid
<1>5. /\ principalPaid \in 0 .. F.principal
      /\ received - feePaid - interestPaid - principalPaid \in Nat
      /\ principalPaid < received - feePaid - interestPaid
            => principalPaid = F.principal
  BY <1>2, <1>3, <1>4 DEF LesserOf
<1> HIDE DEF principalPaid
<1>6. Waterfall(F, received)
        = [feePaid |-> feePaid, interestPaid |-> interestPaid,
           principalPaid |-> principalPaid,
           applied |-> feePaid + interestPaid + principalPaid,
           excess |-> received - feePaid - interestPaid - principalPaid]
  BY DEF Waterfall, feePaid, interestPaid, principalPaid, u
<1> QED
  <2> DEFINE r == Waterfall(F, received)
  <2>1. /\ r.feePaid = feePaid /\ r.interestPaid = interestPaid
        /\ r.principalPaid = principalPaid
        /\ r.applied = feePaid + interestPaid + principalPaid
        /\ r.excess = received - feePaid - interestPaid - principalPaid
    BY <1>6
  <2> HIDE DEF r
  <2> SUFFICES
        /\ r.feePaid \in 0 .. F.fees
        /\ r.interestPaid \in 0 .. u
        /\ r.principalPaid \in 0 .. F.principal
        /\ r.excess \in Nat
        /\ r.applied = r.feePaid + r.interestPaid + r.principalPaid
        /\ r.applied + r.excess = received
        /\ r.principalPaid > 0 => r.feePaid = F.fees /\ r.interestPaid = u
        /\ r.excess > 0 => r.principalPaid = F.principal
    BY DEF r, u
  <2> QED
    BY <1>2, <1>3, <1>4, <1>5, <2>1

(* Applying it keeps the record typed. *)
LEMMA AllocatedFacts ==
  ASSUME NEW F \in Facility, NEW received \in Nat
  PROVE  LET r == Waterfall(F, received)
             A == Allocated(F, r)
         IN  /\ A \in Facility
             /\ ToAccum(r.interestPaid) \in Nat
             /\ A.fees = F.fees - r.feePaid
             /\ A.interestAccum = F.interestAccum - ToAccum(r.interestPaid)
             /\ A.principal = F.principal - r.principalPaid
             /\ \A field \in {"exists", "frozen", "state", "capitalizes",
                               "lastAccrualAt", "rateBps", "segments"} :
                   A[field] = F[field]
<1> DEFINE r == Waterfall(F, received)
<1>1. /\ r.feePaid \in 0 .. F.fees
      /\ r.interestPaid \in 0 .. Units(F.interestAccum)
      /\ r.principalPaid \in 0 .. F.principal
  BY WaterfallFacts
<1>2. /\ ToAccum(r.interestPaid) \in Nat
      /\ ToAccum(r.interestPaid) <= F.interestAccum
  BY <1>1, UnitsNat DEF Facility
<1> HIDE DEF r
<1>3. /\ F.fees - r.feePaid \in Nat
      /\ F.interestAccum - ToAccum(r.interestPaid) \in Nat
      /\ F.principal - r.principalPaid \in Nat
  <2>1. F.fees \in Nat /\ F.principal \in Nat /\ F.interestAccum \in Nat
    BY DEF Facility
  <2>2. F.fees - r.feePaid \in Nat /\ F.principal - r.principalPaid \in Nat
    BY <1>1, <2>1
  <2>3. F.interestAccum - ToAccum(r.interestPaid) \in Nat
    BY <1>2, <2>1
  <2> QED
    BY <2>2, <2>3
<1>4. Allocated(F, r) \in Facility
  BY <1>3 DEF Allocated, Facility
<1>5. /\ Allocated(F, r).fees = F.fees - r.feePaid
      /\ Allocated(F, r).interestAccum = F.interestAccum - ToAccum(r.interestPaid)
      /\ Allocated(F, r).principal = F.principal - r.principalPaid
      /\ \A field \in {"exists", "frozen", "state", "capitalizes",
                        "lastAccrualAt", "rateBps", "segments"} :
            Allocated(F, r)[field] = F[field]
  BY DEF Allocated, Facility
<1> QED
  BY <1>2, <1>4, <1>5 DEF r

LEMMA AppendRateType ==
  ASSUME NEW segments \in Seq(RateSegment), NEW t \in Nat, NEW rate \in Nat
  PROVE  AppendRate(segments, t, rate) \in Seq(RateSegment)
<1> DEFINE n == Len(segments)
           E == [segments EXCEPT ![n].rateBps = rate]
<1>1. /\ n \in Nat
      /\ segments \in [1 .. n -> RateSegment]
  OBVIOUS
<1>2. ASSUME NEW i \in 1 .. n PROVE E[i] \in RateSegment
  <2>1. segments[i] \in RateSegment
    BY <1>1
  <2> QED
    BY <1>1, <2>1 DEF RateSegment
<1>3. E \in [1 .. n -> RateSegment]
  BY <1>1, <1>2
<1>4. E \in Seq(RateSegment)
  BY <1>1, <1>3
<1>5. Append(segments, [start |-> t, rateBps |-> rate]) \in Seq(RateSegment)
  BY DEF RateSegment
<1> QED
  BY <1>4, <1>5 DEF AppendRate

-----------------------------------------------------------------------------
(* The inductive invariant *)

(* A facility that was never opened has no field set and no history. *)
Blank ==
    \A f \in Facilities :
        ~facility[f].exists => facility[f] = NoFacility /\ hist[f] = NoHistory

(* Principal and fees account for every amount drawn, charged, capitalised  *)
(* and paid, interest aside.                                                *)
PrincipalConservation ==
    \A f \in Facilities :
        facility[f].principal + facility[f].fees + hist[f].applied
            = hist[f].drawn + hist[f].charged
                + hist[f].compounded + hist[f].interestPaid

(* The part of the invariant about one record F with history h at time t. *)
Sound(F, h, t) ==
    /\ F \in Facility
    /\ h \in History
    /\ F.lastAccrualAt <= t
    /\ ~F.exists => F = NoFacility /\ h = NoHistory
    /\ F.interestAccum + Pending(F, t)
          = h.owed - ToAccum(h.interestPaid + h.compounded)
    /\ F.principal + F.fees + h.applied
          = h.drawn + h.charged + h.compounded + h.interestPaid

Rest ==
    /\ now \in 0 .. MaxTime
    /\ ids \in Seq(Facilities)
    /\ isWriter \subseteq Accounts
    /\ wiringFinalized \in BOOLEAN
    /\ facility \in [Facilities -> Facility]
    /\ hist \in [Facilities -> History]

IInv == Rest /\ \A f \in Facilities : Sound(facility[f], hist[f], now)

LEMMA FacilityNat ==
  ASSUME NEW F \in Facility
  PROVE  /\ F.principal \in Nat /\ F.fees \in Nat /\ F.interestAccum \in Nat
         /\ F.lastAccrualAt \in Nat /\ F.rateBps \in Nat
  BY DEF Facility

LEMMA HistoryNat ==
  ASSUME NEW h \in History
  PROVE  /\ h.drawn \in Nat /\ h.charged \in Nat /\ h.applied \in Nat
         /\ h.compounded \in Nat /\ h.interestPaid \in Nat /\ h.owed \in Nat
  BY DEF History

LEMMA ToAccumFacts ==
  ASSUME NEW a \in Nat, NEW b \in Nat
  PROVE  /\ ToAccum(a) \in Nat
         /\ ToAccum(a + b) = ToAccum(a) + ToAccum(b)
  BY LedgerConstants DEF ToAccum

LEMMA BlankSound ==
  ASSUME NEW t \in Nat
  PROVE  Sound(NoFacility, NoHistory, t)
<1>1. NoFacility \in Facility /\ NoHistory \in History
  BY LedgerConstants DEF NoFacility, NoHistory, Facility, History
<1>2. ToAccum(0) = 0 /\ Pending(NoFacility, t) = 0
  BY LedgerConstants DEF ToAccum, Pending, Accrues, NoFacility
<1> QED
  BY <1>1, <1>2 DEF Sound, NoFacility, NoHistory

(* A record accrued at t has nothing pending, so it is sound as soon as its *)
(* two balances are.                                                        *)
LEMMA SettledSound ==
  ASSUME NEW t \in Nat, NEW F \in Facility, NEW h \in History,
         F.lastAccrualAt = t, F.exists,
         F.interestAccum = h.owed - ToAccum(h.interestPaid + h.compounded),
         F.principal + F.fees + h.applied
           = h.drawn + h.charged + h.compounded + h.interestPaid
  PROVE  Sound(F, h, t)
<1>1. F.lastAccrualAt \in Nat /\ F.interestAccum \in Nat
  BY DEF Facility
<1>2. Pending(F, t) = 0
  BY <1>1 DEF Pending
<1> QED
  BY <1>1, <1>2 DEF Sound

(* Accruing a sound record settles it. *)
LEMMA AccruedSound ==
  ASSUME NEW t \in Nat, NEW F, NEW h, Sound(F, h, t), F.exists
  PROVE  LET A == Accrued(F, t)
         IN  /\ A \in Facility
             /\ A.lastAccrualAt = t
             /\ A.interestAccum = h.owed - ToAccum(h.interestPaid + h.compounded)
             /\ A.principal + A.fees + h.applied
                   = h.drawn + h.charged + h.compounded + h.interestPaid
             /\ \A field \in {"exists", "frozen", "state", "capitalizes",
                               "principal", "fees", "rateBps", "segments"} :
                   A[field] = F[field]
  BY AccruedFacts DEF Sound

LEMMA InitIInv == Init => IInv
<1> SUFFICES ASSUME Init PROVE IInv
  OBVIOUS
<1>1. Sound(NoFacility, NoHistory, 0)
  BY BlankSound
<1>2. NoFacility \in Facility /\ NoHistory \in History
  BY <1>1 DEF Sound
<1>3. ids \in Seq(Facilities)
  BY DEF Init
<1>4. now \in 0 .. MaxTime
  BY LedgerConstants DEF Init
<1> QED
  BY <1>1, <1>2, <1>3, <1>4 DEF Init, IInv, Rest

(* A step that writes only facility f, at the same time, keeps the          *)
(* invariant when the record and the history it writes are sound.           *)
LEMMA OneFacility ==
  ASSUME IInv, NEW f \in Facilities, NEW F, NEW h,
         facility' = [facility EXCEPT ![f] = F],
         hist' = [hist EXCEPT ![f] = h],
         now' = now, isWriter' = isWriter, wiringFinalized' = wiringFinalized,
         ids' \in Seq(Facilities),
         Sound(F, h, now)
  PROVE  IInv'
<1>1. F \in Facility /\ h \in History
  BY DEF Sound
<1>2. Rest'
  BY <1>1 DEF IInv, Rest
<1>3. \A g \in Facilities : Sound(facility'[g], hist'[g], now)
  BY DEF IInv, Rest
<1> QED
  BY <1>2, <1>3 DEF IInv

(* What an action on an open facility f may use. *)
LEMMA OpenFacility ==
  ASSUME IInv, NEW f \in Facilities, facility[f].exists
  PROVE  LET F == facility[f]  A == Accrued(F, now)  h == hist[f]
         IN  /\ now \in Nat
             /\ ids \in Seq(Facilities)
             /\ F \in Facility /\ h \in History /\ Sound(F, h, now)
             /\ A \in Facility
             /\ A.lastAccrualAt = now
             /\ A.exists
<1>1. now \in Nat /\ Sound(facility[f], hist[f], now) /\ ids \in Seq(Facilities)
  BY LedgerConstants DEF IInv, Rest
<1> QED
  BY <1>1, AccruedSound DEF Sound

(* Its two balances once accrued. *)
LEMMA OpenBalances ==
  ASSUME IInv, NEW f \in Facilities, facility[f].exists
  PROVE  LET A == Accrued(facility[f], now)  h == hist[f]
         IN  /\ A.interestAccum = h.owed - ToAccum(h.interestPaid + h.compounded)
             /\ A.principal + A.fees + h.applied
                   = h.drawn + h.charged + h.compounded + h.interestPaid
<1>1. now \in Nat /\ Sound(facility[f], hist[f], now)
  BY LedgerConstants DEF IInv, Rest
<1> QED
  BY <1>1, AccruedSound

LEMMA OpenIInv ==
  ASSUME IInv, NEW w, NEW f \in Facilities, NEW rate \in Rates,
         NEW c \in BOOLEAN, NEW m, Open(w, f, rate, c, m)
  PROVE  IInv'
<1> DEFINE F == [NoFacility EXCEPT !.exists = TRUE, !.capitalizes = c,
                     !.rateBps = rate, !.lastAccrualAt = now,
                     !.segments = <<[start |-> now, rateBps |-> rate]>>]
<1>1. now \in Nat /\ rate \in Nat /\ Sound(facility[f], hist[f], now)
  BY LedgerConstants DEF IInv, Rest
<1>2. hist[f] = NoHistory
  BY <1>1 DEF Open, Sound
<1>3. <<[start |-> now, rateBps |-> rate]>> \in Seq(RateSegment)
  BY <1>1 DEF RateSegment
<1>4. F \in Facility
  BY <1>1, <1>3, LedgerConstants DEF NoFacility, Facility
<1>5. /\ F.exists /\ F.lastAccrualAt = now /\ F.interestAccum = 0
      /\ F.principal = 0 /\ F.fees = 0
  BY DEF NoFacility
<1> HIDE DEF F
<1>6. Sound(F, NoHistory, now)
  <2>1. NoHistory \in History /\ ToAccum(0) = 0
    BY LedgerConstants DEF NoHistory, History, ToAccum
  <2> QED
    BY <1>1, <1>4, <1>5, <2>1, SettledSound DEF NoHistory
<1>7. hist' = [hist EXCEPT ![f] = NoHistory]
  BY <1>2 DEF Open, IInv, Rest
<1>8. ids' \in Seq(Facilities)
  BY DEF Open, IInv, Rest
<1>9. facility' = [facility EXCEPT ![f] = F]
  BY DEF Open, F
<1> QED
  BY <1>6, <1>7, <1>8, <1>9, OneFacility DEF Open

LEMMA SetStateIInv ==
  ASSUME IInv, NEW w, NEW f \in Facilities, NEW s \in States, SetState(w, f, s)
  PROVE  IInv'
<1> DEFINE F == [facility[f] EXCEPT !.state = s]
<1>1. /\ facility[f] \in Facility /\ facility[f].exists
      /\ Sound(facility[f], hist[f], now)
  BY OpenFacility DEF SetState, LedgerWrite
<1>2. /\ F \in Facility /\ F.exists
      /\ \A x \in {"principal", "fees", "interestAccum", "lastAccrualAt",
                    "rateBps", "frozen"} : F[x] = facility[f][x]
  BY <1>1 DEF Facility
<1> HIDE DEF F
<1>3. Pending(F, now) = Pending(facility[f], now)
  BY <1>2 DEF Pending, Accrues
<1>4. Sound(F, hist[f], now)
  BY <1>1, <1>2, <1>3 DEF Sound
<1>5. /\ facility' = [facility EXCEPT ![f] = F]
      /\ hist' = [hist EXCEPT ![f] = hist[f]]
      /\ ids' \in Seq(Facilities)
  BY DEF SetState, LedgerWrite, IInv, Rest, F
<1> QED
  BY <1>4, <1>5, OneFacility DEF SetState, LedgerWrite

LEMMA AccrueIInv ==
  ASSUME IInv, NEW w, NEW f \in Facilities, Accrue(w, f)
  PROVE  IInv'
<1> DEFINE A == Accrued(facility[f], now)
           h == hist[f]
<1>1. /\ now \in Nat /\ ids \in Seq(Facilities)
      /\ A \in Facility /\ h \in History /\ A.exists /\ A.lastAccrualAt = now
  BY OpenFacility DEF Accrue, LedgerWrite
<1>i. A.interestAccum = h.owed - ToAccum(h.interestPaid + h.compounded)
  BY OpenBalances DEF Accrue, LedgerWrite
<1>p. A.principal + A.fees + h.applied
        = h.drawn + h.charged + h.compounded + h.interestPaid
  BY OpenBalances DEF Accrue, LedgerWrite
<1>2. /\ facility' = [facility EXCEPT ![f] = A]
      /\ hist' = [hist EXCEPT ![f] = h]
  BY DEF Accrue, IInv, Rest
<1> HIDE DEF A, h
<1>3. Sound(A, h, now)
  BY <1>i, <1>p, <1>1, SettledSound
<1> QED
  BY <1>1, <1>2, <1>3, OneFacility DEF Accrue, LedgerWrite

LEMMA SetRateIInv ==
  ASSUME IInv, NEW w, NEW f \in Facilities, NEW rate \in Rates, SetRate(w, f, rate)
  PROVE  IInv'
<1> DEFINE A == Accrued(facility[f], now)
           h == hist[f]
           F == [A EXCEPT !.rateBps = rate,
                          !.segments = AppendRate(A.segments, now, rate)]
<1>1. /\ now \in Nat /\ ids \in Seq(Facilities)
      /\ A \in Facility /\ h \in History /\ A.exists /\ A.lastAccrualAt = now
  BY OpenFacility DEF SetRate, LedgerWrite
<1>i. A.interestAccum = h.owed - ToAccum(h.interestPaid + h.compounded)
  BY OpenBalances DEF SetRate, LedgerWrite
<1>p. A.principal + A.fees + h.applied
        = h.drawn + h.charged + h.compounded + h.interestPaid
  BY OpenBalances DEF SetRate, LedgerWrite
<1>2. /\ facility' = [facility EXCEPT ![f] = F]
      /\ hist' = [hist EXCEPT ![f] = h]
  <2>1. facility' = [facility EXCEPT ![f] = F]
    BY DEF SetRate
  <2>2. hist' = [hist EXCEPT ![f] = h]
    BY DEF SetRate, IInv, Rest
  <2> QED
    BY <2>1, <2>2
<1> HIDE DEF A, h
<1>3. rate \in Nat
  BY LedgerConstants
<1>4. A.segments \in Seq(RateSegment)
  BY <1>1 DEF Facility
<1>5. AppendRate(A.segments, now, rate) \in Seq(RateSegment)
  BY <1>1, <1>3, <1>4, AppendRateType
<1>6. /\ F \in Facility /\ F.exists
      /\ \A x \in {"principal", "fees", "interestAccum", "lastAccrualAt"} : F[x] = A[x]
  BY <1>1, <1>3, <1>5 DEF Facility
<1> HIDE DEF F
<1>7. Sound(F, h, now)
  BY <1>i, <1>p, <1>1, <1>6, SettledSound
<1> QED
  BY <1>1, <1>2, <1>7, OneFacility DEF SetRate, LedgerWrite

LEMMA RecordDrawIInv ==
  ASSUME IInv, NEW w, NEW f \in Facilities, NEW amount \in Amounts,
         RecordDraw(w, f, amount)
  PROVE  IInv'
<1> DEFINE A == Accrued(facility[f], now)
           h == hist[f]
           F == [A EXCEPT !.principal = A.principal + amount]
           k == [h EXCEPT !.drawn = h.drawn + amount]
<1>1. /\ now \in Nat /\ ids \in Seq(Facilities)
      /\ A \in Facility /\ h \in History /\ A.exists /\ A.lastAccrualAt = now
  BY OpenFacility DEF RecordDraw, LedgerWrite
<1>i. A.interestAccum = h.owed - ToAccum(h.interestPaid + h.compounded)
  BY OpenBalances DEF RecordDraw, LedgerWrite
<1>p. A.principal + A.fees + h.applied
        = h.drawn + h.charged + h.compounded + h.interestPaid
  BY OpenBalances DEF RecordDraw, LedgerWrite
<1>2. /\ facility' = [facility EXCEPT ![f] = F]
      /\ hist' = [hist EXCEPT ![f] = k]
  <2>1. facility' = [facility EXCEPT ![f] = F]
    BY DEF RecordDraw
  <2>2. hist' = [hist EXCEPT ![f] = k]
    BY DEF RecordDraw, IInv, Rest
  <2> QED
    BY <2>1, <2>2
<1> HIDE DEF A, h
<1>3. amount \in Nat
  BY LedgerConstants
<1>4. /\ F \in Facility /\ F.exists /\ F.principal = A.principal + amount
      /\ \A x \in {"fees", "interestAccum", "lastAccrualAt"} : F[x] = A[x]
  BY <1>1, <1>3 DEF Facility
<1>5. /\ k \in History /\ k.drawn = h.drawn + amount
      /\ \A x \in {"charged", "applied", "compounded", "interestPaid", "owed"} :
            k[x] = h[x]
  BY <1>1, <1>3 DEF History
<1> HIDE DEF F, k
<1>6. F.principal + F.fees + k.applied
        = k.drawn + k.charged + k.compounded + k.interestPaid
  <2>1. /\ A.principal \in Nat /\ A.fees \in Nat
        /\ h.drawn \in Nat /\ h.charged \in Nat /\ h.applied \in Nat
        /\ h.compounded \in Nat /\ h.interestPaid \in Nat
    BY <1>1, FacilityNat, HistoryNat
  <2>2. /\ k.applied = h.applied /\ k.compounded = h.compounded
        /\ k.interestPaid = h.interestPaid
        /\ k.charged = h.charged /\ F.fees = A.fees
        /\ F.principal = A.principal + amount /\ k.drawn = h.drawn + amount
    BY <1>4, <1>5
  <2>3. (A.principal + amount) + A.fees + h.applied
          = (h.drawn + amount) + h.charged + h.compounded + h.interestPaid
    BY <1>p, <1>3, <2>1
  <2> QED
    BY <2>2, <2>3, Zenon
<1>7. Sound(F, k, now)
  BY <1>i, <1>p, <1>1, <1>4, <1>5, <1>6, SettledSound
<1> QED
  BY <1>1, <1>2, <1>7, OneFacility DEF RecordDraw, LedgerWrite

LEMMA RecordFeeIInv ==
  ASSUME IInv, NEW w, NEW f \in Facilities, NEW amount \in Amounts,
         RecordFee(w, f, amount)
  PROVE  IInv'
<1> DEFINE A == Accrued(facility[f], now)
           h == hist[f]
           F == [A EXCEPT !.fees = A.fees + amount]
           k == [h EXCEPT !.charged = h.charged + amount]
<1>1. /\ now \in Nat /\ ids \in Seq(Facilities)
      /\ A \in Facility /\ h \in History /\ A.exists /\ A.lastAccrualAt = now
  BY OpenFacility DEF RecordFee, LedgerWrite
<1>i. A.interestAccum = h.owed - ToAccum(h.interestPaid + h.compounded)
  BY OpenBalances DEF RecordFee, LedgerWrite
<1>p. A.principal + A.fees + h.applied
        = h.drawn + h.charged + h.compounded + h.interestPaid
  BY OpenBalances DEF RecordFee, LedgerWrite
<1>2. /\ facility' = [facility EXCEPT ![f] = F]
      /\ hist' = [hist EXCEPT ![f] = k]
  <2>1. facility' = [facility EXCEPT ![f] = F]
    BY DEF RecordFee
  <2>2. hist' = [hist EXCEPT ![f] = k]
    BY DEF RecordFee, IInv, Rest
  <2> QED
    BY <2>1, <2>2
<1> HIDE DEF A, h
<1>3. amount \in Nat
  BY LedgerConstants
<1>4. /\ F \in Facility /\ F.exists /\ F.fees = A.fees + amount
      /\ \A x \in {"principal", "interestAccum", "lastAccrualAt"} : F[x] = A[x]
  BY <1>1, <1>3 DEF Facility
<1>5. /\ k \in History /\ k.charged = h.charged + amount
      /\ \A x \in {"drawn", "applied", "compounded", "interestPaid", "owed"} :
            k[x] = h[x]
  BY <1>1, <1>3 DEF History
<1> HIDE DEF F, k
<1>6. F.principal + F.fees + k.applied
        = k.drawn + k.charged + k.compounded + k.interestPaid
  <2>1. /\ A.principal \in Nat /\ A.fees \in Nat
        /\ h.drawn \in Nat /\ h.charged \in Nat /\ h.applied \in Nat
        /\ h.compounded \in Nat /\ h.interestPaid \in Nat
    BY <1>1, FacilityNat, HistoryNat
  <2>2. /\ k.applied = h.applied /\ k.compounded = h.compounded
        /\ k.interestPaid = h.interestPaid
        /\ k.drawn = h.drawn /\ F.principal = A.principal
    BY <1>4, <1>5
  <2> QED
    BY <1>p, <1>3, <1>4, <1>5, <2>1, <2>2
<1>7. Sound(F, k, now)
  BY <1>i, <1>p, <1>1, <1>4, <1>5, <1>6, SettledSound
<1> QED
  BY <1>1, <1>2, <1>7, OneFacility DEF RecordFee, LedgerWrite

LEMMA AllocateIInv ==
  ASSUME IInv, NEW w, NEW f \in Facilities, NEW received \in Amounts,
         Allocate(w, f, received)
  PROVE  IInv'
<1> DEFINE A == Accrued(facility[f], now)
           h == hist[f]
           r == Waterfall(A, received)
           F == Allocated(A, r)
           k == [h EXCEPT !.applied = h.applied + r.applied,
                          !.interestPaid = h.interestPaid + r.interestPaid]
<1>1. /\ now \in Nat /\ ids \in Seq(Facilities)
      /\ A \in Facility /\ h \in History /\ A.exists /\ A.lastAccrualAt = now
  BY OpenFacility DEF Allocate, LedgerWrite
<1>i. A.interestAccum = h.owed - ToAccum(h.interestPaid + h.compounded)
  BY OpenBalances DEF Allocate, LedgerWrite
<1>p. A.principal + A.fees + h.applied
        = h.drawn + h.charged + h.compounded + h.interestPaid
  BY OpenBalances DEF Allocate, LedgerWrite
<1>2. /\ facility' = [facility EXCEPT ![f] = F]
      /\ hist' = [hist EXCEPT ![f] = k]
  BY DEF Allocate, IInv, Rest
<1> HIDE DEF A, h
<1>3. received \in Nat
  BY LedgerConstants
<1>4. /\ r.feePaid \in 0 .. A.fees
      /\ r.interestPaid \in 0 .. Units(A.interestAccum)
      /\ r.principalPaid \in 0 .. A.principal
      /\ r.applied = r.feePaid + r.interestPaid + r.principalPaid
  BY <1>1, <1>3, WaterfallFacts
<1>5. /\ F \in Facility /\ F.exists /\ F.lastAccrualAt = now
      /\ F.fees = A.fees - r.feePaid
      /\ F.interestAccum = A.interestAccum - ToAccum(r.interestPaid)
      /\ F.principal = A.principal - r.principalPaid
  BY <1>1, <1>3, AllocatedFacts
<1>6. /\ r.interestPaid \in Nat /\ r.applied \in Nat
      /\ r.feePaid \in Nat /\ r.principalPaid \in Nat
  <2>1. A.interestAccum \in Nat /\ A.fees \in Nat /\ A.principal \in Nat
    BY <1>1 DEF Facility
  <2>2. Units(A.interestAccum) \in Nat
    BY <2>1, UnitsNat
  <2> QED
    BY <1>4, <2>1, <2>2
<1> HIDE DEF F, r
<1>7. /\ k \in History
      /\ k.applied = h.applied + r.applied
      /\ k.interestPaid = h.interestPaid + r.interestPaid
      /\ k.drawn = h.drawn /\ k.charged = h.charged
      /\ k.compounded = h.compounded /\ k.owed = h.owed
  <2>1. /\ h.applied + r.applied \in Nat
        /\ h.interestPaid + r.interestPaid \in Nat
    <3>1. h \in History
      BY <1>1
    <3>2. h.applied \in Nat /\ h.interestPaid \in Nat
      BY <3>1, HistoryNat
    <3> QED
      BY <1>6, <3>2
  <2> QED
    BY <1>1, <2>1 DEF History
<1> HIDE DEF k
<1>8. F.interestAccum = k.owed - ToAccum(k.interestPaid + k.compounded)
  <2> DEFINE n == h.interestPaid + h.compounded
  <2>1. /\ h.interestPaid \in Nat /\ h.compounded \in Nat /\ h.owed \in Nat
        /\ A.interestAccum \in Nat
    BY <1>1, HistoryNat, FacilityNat
  <2>2. n \in Nat /\ k.interestPaid + k.compounded = n + r.interestPaid
    BY <1>6, <1>7, <2>1
  <2>3. A.interestAccum = h.owed - ToAccum(n)
    BY <1>i
  <2> HIDE DEF n
  <2>4. /\ ToAccum(n) \in Nat /\ ToAccum(r.interestPaid) \in Nat
        /\ ToAccum(n + r.interestPaid) = ToAccum(n) + ToAccum(r.interestPaid)
    BY <1>6, <2>2, ToAccumFacts
  <2> QED
    BY <1>5, <1>7, <2>1, <2>2, <2>3, <2>4
<1>9. F.principal + F.fees + k.applied
        = k.drawn + k.charged + k.compounded + k.interestPaid
  <2>1. /\ A.principal \in Nat /\ A.fees \in Nat
        /\ h.drawn \in Nat /\ h.charged \in Nat /\ h.compounded \in Nat
        /\ h.interestPaid \in Nat /\ h.applied \in Nat
    BY <1>1, HistoryNat, FacilityNat
  <2>2. /\ F.principal = A.principal - r.principalPaid
        /\ F.fees = A.fees - r.feePaid
        /\ k.applied = h.applied + (r.feePaid + r.interestPaid + r.principalPaid)
    BY <1>4, <1>5, <1>7
  <2>3. /\ k.drawn = h.drawn /\ k.charged = h.charged
        /\ k.compounded = h.compounded
        /\ k.interestPaid = h.interestPaid + r.interestPaid
    BY <1>7
  <2> QED
    BY <1>p, <1>6, <2>1, <2>2, <2>3
<1>10. Sound(F, k, now)
  BY <1>i, <1>p, <1>1, <1>5, <1>7, <1>8, <1>9, SettledSound
<1> QED
  BY <1>1, <1>2, <1>10, OneFacility DEF Allocate, LedgerWrite

LEMMA FreezeAccrualIInv ==
  ASSUME IInv, NEW w, NEW f \in Facilities, FreezeAccrual(w, f)
  PROVE  IInv'
<1> DEFINE A == Accrued(facility[f], now)
           h == hist[f]
           F == [A EXCEPT !.frozen = TRUE]
<1>1. /\ now \in Nat /\ ids \in Seq(Facilities)
      /\ A \in Facility /\ h \in History /\ A.exists /\ A.lastAccrualAt = now
  BY OpenFacility DEF FreezeAccrual, LedgerWrite
<1>i. A.interestAccum = h.owed - ToAccum(h.interestPaid + h.compounded)
  BY OpenBalances DEF FreezeAccrual, LedgerWrite
<1>p. A.principal + A.fees + h.applied
        = h.drawn + h.charged + h.compounded + h.interestPaid
  BY OpenBalances DEF FreezeAccrual, LedgerWrite
<1>2. /\ facility' = [facility EXCEPT ![f] = F]
      /\ hist' = [hist EXCEPT ![f] = h]
  BY DEF FreezeAccrual, IInv, Rest
<1> HIDE DEF A, h
<1>3. /\ F \in Facility /\ F.exists
      /\ \A x \in {"principal", "fees", "interestAccum", "lastAccrualAt"} : F[x] = A[x]
  BY <1>1 DEF Facility
<1> HIDE DEF F
<1>4. Sound(F, h, now)
  BY <1>i, <1>p, <1>1, <1>3, SettledSound
<1> QED
  BY <1>1, <1>2, <1>4, OneFacility DEF FreezeAccrual, LedgerWrite

LEMMA CapitalizeIInv ==
  ASSUME IInv, NEW w, NEW f \in Facilities, Capitalize(w, f)
  PROVE  IInv'
<1> DEFINE A == Accrued(facility[f], now)
           h == hist[f]
           unpaid == Units(A.interestAccum)
           F == [A EXCEPT !.interestAccum = A.interestAccum - ToAccum(unpaid),
                          !.principal = A.principal + unpaid]
           k == [h EXCEPT !.compounded = h.compounded + unpaid]
<1>1. /\ now \in Nat /\ ids \in Seq(Facilities)
      /\ A \in Facility /\ h \in History /\ A.exists /\ A.lastAccrualAt = now
  BY OpenFacility DEF Capitalize, LedgerWrite
<1>i. A.interestAccum = h.owed - ToAccum(h.interestPaid + h.compounded)
  BY OpenBalances DEF Capitalize, LedgerWrite
<1>p. A.principal + A.fees + h.applied
        = h.drawn + h.charged + h.compounded + h.interestPaid
  BY OpenBalances DEF Capitalize, LedgerWrite
<1>2. /\ facility' = [facility EXCEPT ![f] = F]
      /\ hist' = [hist EXCEPT ![f] = k]
  BY DEF Capitalize, IInv, Rest
<1> HIDE DEF A, h
<1>3. /\ A.principal \in Nat /\ A.fees \in Nat /\ A.interestAccum \in Nat
      /\ h.drawn \in Nat /\ h.charged \in Nat /\ h.compounded \in Nat
      /\ h.interestPaid \in Nat /\ h.applied \in Nat /\ h.owed \in Nat
  BY <1>1, HistoryNat, FacilityNat
<1>4. /\ unpaid \in Nat /\ ToAccum(unpaid) \in Nat
      /\ ToAccum(unpaid) <= A.interestAccum
  BY <1>3, UnitsNat
<1> HIDE DEF unpaid
<1>5. /\ F \in Facility /\ F.exists /\ F.lastAccrualAt = now
      /\ F.principal = A.principal + unpaid /\ F.fees = A.fees
      /\ F.interestAccum = A.interestAccum - ToAccum(unpaid)
  <2>1. /\ A.interestAccum - ToAccum(unpaid) \in Nat
        /\ A.principal + unpaid \in Nat
    BY <1>3, <1>4
  <2> QED
    BY <1>1, <2>1 DEF Facility
<1>6. /\ k \in History /\ k.compounded = h.compounded + unpaid
      /\ k.drawn = h.drawn /\ k.charged = h.charged /\ k.applied = h.applied
      /\ k.interestPaid = h.interestPaid /\ k.owed = h.owed
  <2>1. h.compounded + unpaid \in Nat
    BY <1>3, <1>4
  <2> QED
    BY <1>1, <2>1 DEF History
<1> HIDE DEF F, k
<1>7. F.interestAccum = k.owed - ToAccum(k.interestPaid + k.compounded)
  <2> DEFINE n == h.interestPaid + h.compounded
  <2>1. n \in Nat /\ k.interestPaid + k.compounded = n + unpaid
    BY <1>3, <1>4, <1>6
  <2>2. A.interestAccum = h.owed - ToAccum(n)
    BY <1>i
  <2> HIDE DEF n
  <2>3. ToAccum(n) \in Nat /\ ToAccum(n + unpaid) = ToAccum(n) + ToAccum(unpaid)
    BY <1>4, <2>1, ToAccumFacts
  <2> QED
    BY <1>3, <1>4, <1>5, <1>6, <2>1, <2>2, <2>3
<1>8. F.principal + F.fees + k.applied
        = k.drawn + k.charged + k.compounded + k.interestPaid
  BY <1>p, <1>3, <1>4, <1>5, <1>6
<1>9. Sound(F, k, now)
  BY <1>i, <1>p, <1>1, <1>5, <1>6, <1>7, <1>8, SettledSound
<1> QED
  BY <1>1, <1>2, <1>9, OneFacility DEF Capitalize, LedgerWrite

(* The clock: the numerator a facility comes to owe is the one its next     *)
(* accrual will add.                                                        *)
LEMMA TickIInv ==
  ASSUME IInv, NEW elapsed \in 1 .. MaxTime, Tick(elapsed)
  PROVE  IInv'
<1>1. now \in Nat /\ elapsed \in Nat /\ now' = now + elapsed /\ now' \in 0 .. MaxTime
  BY LedgerConstants DEF Tick, IInv, Rest
<1>2. ASSUME NEW f \in Facilities
      PROVE  Sound(facility[f], hist'[f], now + elapsed)
  <2> DEFINE F == facility[f]
             h == hist[f]
             k == hist'[f]
             g == Growth(F.principal, F.rateBps, elapsed)
  <2>1. Sound(F, h, now)
    BY DEF IInv
  <2>2. k = IF Accrues(F) THEN [h EXCEPT !.owed = h.owed + g] ELSE h
    BY DEF Tick
  <2> SUFFICES Sound(F, k, now + elapsed)
    BY DEF F, k
  <2> HIDE DEF F, h, k
  <2>3. /\ F \in Facility /\ h \in History /\ F.lastAccrualAt <= now
        /\ F.principal \in Nat /\ F.rateBps \in Nat /\ F.lastAccrualAt \in Nat
        /\ F.interestAccum \in Nat /\ h.owed \in Nat
        /\ h.interestPaid \in Nat /\ h.compounded \in Nat
    BY <2>1, FacilityNat, HistoryNat DEF Sound
  <2>4. g \in Nat
    BY <1>1, <2>3, GrowthNat
  <2>5. CASE ~Accrues(F)
    <3>1. Pending(F, now) = 0 /\ Pending(F, now + elapsed) = 0 /\ k = h
      BY <2>2, <2>5 DEF Pending
    <3> QED
      BY <1>1, <2>1, <2>3, <3>1 DEF Sound
  <2>6. CASE Accrues(F)
    <3> DEFINE d == now - F.lastAccrualAt
    <3>1. d \in Nat /\ (now + elapsed) - F.lastAccrualAt = d + elapsed
      BY <1>1, <2>3
    <3>2. Pending(F, now) = Growth(F.principal, F.rateBps, d)
      <4>1. Growth(F.principal, F.rateBps, 0) = 0
        BY <2>3 DEF Growth
      <4> QED
        BY <1>1, <2>3, <2>6, <4>1 DEF Pending
    <3>3. Pending(F, now + elapsed) = Growth(F.principal, F.rateBps, d + elapsed)
      BY <1>1, <2>3, <2>6, <3>1 DEF Pending
    <3> HIDE DEF d
    <3>4. Pending(F, now + elapsed) = Pending(F, now) + g
      <4>1. /\ d \in Nat /\ elapsed \in Nat
            /\ F.principal \in Nat /\ F.rateBps \in Nat
        BY <1>1, <2>3, <3>1
      <4>2. Growth(F.principal, F.rateBps, d + elapsed)
              = Growth(F.principal, F.rateBps, d)
                  + Growth(F.principal, F.rateBps, elapsed)
        BY ONLY <4>1, GrowthSplit
      <4> QED
        BY <3>2, <3>3, <4>2
    <3>5. Pending(F, now) \in Nat
      BY <2>3, AccruedFacts, <1>1
    <3> HIDE DEF g
    <3>6. /\ k \in History /\ k.owed = h.owed + g
          /\ \A x \in {"drawn", "charged", "applied", "compounded",
                        "interestPaid"} : k[x] = h[x]
      BY <2>2, <2>3, <2>4, <2>6 DEF History
    <3>7. F.exists
      BY <2>1, <2>6 DEF Sound, Accrues, NoFacility
    <3>8. F.interestAccum + Pending(F, now + elapsed)
            = k.owed - ToAccum(k.interestPaid + k.compounded)
      <4>1. ToAccum(h.interestPaid + h.compounded) \in Nat
        BY <2>3, LedgerConstants DEF ToAccum
      <4>2. F.interestAccum + Pending(F, now)
              = h.owed - ToAccum(h.interestPaid + h.compounded)
        BY <2>1 DEF Sound
      <4> QED
        BY <2>3, <2>4, <3>4, <3>5, <3>6, <4>1, <4>2
    <3> QED
      BY <1>1, <2>1, <2>3, <3>6, <3>7, <3>8 DEF Sound
  <2> QED
    BY <2>5, <2>6
<1>3. ASSUME NEW f \in Facilities PROVE hist'[f] \in History
  BY <1>2 DEF Sound
<1>4. hist' \in [Facilities -> History]
  <2>1. hist' = [f \in Facilities |-> hist'[f]]
    BY DEF Tick
  <2> QED
    BY <1>3, <2>1
<1>5. Rest'
  BY <1>1, <1>4 DEF Tick, IInv, Rest
<1>6. facility' = facility
  BY DEF Tick
<1> QED
  BY <1>1, <1>2, <1>5, <1>6 DEF IInv

-----------------------------------------------------------------------------
(* The theorems *)

LEMMA NextIInv == IInv /\ [Next]_vars => IInv'
<1> SUFFICES ASSUME IInv, [Next]_vars PROVE IInv'
  OBVIOUS
<1>1. CASE \E w \in Accounts, enabled \in BOOLEAN : SetWriter(w, enabled)
  BY <1>1 DEF SetWriter, IInv, Rest
<1>2. CASE FinalizeWiring
  BY <1>2 DEF FinalizeWiring, IInv, Rest
<1>3. CASE \E w \in Accounts, f \in Facilities, rate \in Rates, c \in BOOLEAN,
              maturityAt \in 0 .. MaxTime : Open(w, f, rate, c, maturityAt)
  BY <1>3, OpenIInv
<1>4. CASE \E w \in Accounts, f \in Facilities, s \in States : SetState(w, f, s)
  BY <1>4, SetStateIInv
<1>5. CASE \E w \in Accounts, f \in Facilities : Accrue(w, f)
  BY <1>5, AccrueIInv
<1>6. CASE \E w \in Accounts, f \in Facilities, rate \in Rates : SetRate(w, f, rate)
  BY <1>6, SetRateIInv
<1>7. CASE \E w \in Accounts, f \in Facilities, a \in Amounts : RecordDraw(w, f, a)
  BY <1>7, RecordDrawIInv
<1>8. CASE \E w \in Accounts, f \in Facilities, a \in Amounts : RecordFee(w, f, a)
  BY <1>8, RecordFeeIInv
<1>9. CASE \E w \in Accounts, f \in Facilities, a \in Amounts : Allocate(w, f, a)
  BY <1>9, AllocateIInv
<1>10. CASE \E w \in Accounts, f \in Facilities : FreezeAccrual(w, f)
  BY <1>10, FreezeAccrualIInv
<1>11. CASE \E w \in Accounts, f \in Facilities : Capitalize(w, f)
  BY <1>11, CapitalizeIInv
<1>12. CASE \E elapsed \in 1 .. MaxTime : Tick(elapsed)
  BY <1>12, TickIInv
<1>13. CASE UNCHANGED vars
  BY <1>13 DEF vars, IInv, Rest
<1> QED
  BY <1>1, <1>2, <1>3, <1>4, <1>5, <1>6, <1>7, <1>8, <1>9, <1>10, <1>11,
     <1>12, <1>13 DEF Next

(* IInv holds throughout: the strengthening behind every theorem below.     *)
THEOREM LedgerInvariant == Spec => []IInv
  BY InitIInv, NextIInv, PTL DEF Spec

(* Type correctness of the ledger, for every instance: no unsigned          *)
(* subtraction of the waterfall or of a capitalisation goes below zero and  *)
(* no facility is accrued beyond the block's timestamp.                     *)
THEOREM LedgerTypeOK == Spec => []TypeOK
<1>1. IInv => TypeOK
  BY DEF IInv, Rest, Sound, TypeOK
<1> QED
  BY <1>1, LedgerInvariant, PTL

(* Exact interest: the accumulator never depends on when, or how often,     *)
(* accrual ran, and a rate change or a freeze reprices nothing (AC-02/03).  *)
THEOREM LedgerInterestConservation == Spec => []InterestConservation
<1>1. IInv => InterestConservation
  <2> SUFFICES ASSUME IInv, NEW f \in Facilities
               PROVE  Accrued(facility[f], now).interestAccum
                        = hist[f].owed
                            - ToAccum(hist[f].interestPaid + hist[f].compounded)
    BY DEF InterestConservation
  <2>1. now \in Nat /\ Sound(facility[f], hist[f], now)
    BY LedgerConstants DEF IInv, Rest
  <2> QED
    BY <2>1, AccruedFacts DEF Sound
<1> QED
  BY <1>1, LedgerInvariant, PTL

(* The invariant accounts for the debt of every facility. *)
LEMMA DebtFollows == IInv => DebtConservation
<1> SUFFICES ASSUME IInv, NEW f \in Facilities
             PROVE  LegalDebtAt(facility[f], now)
                      = hist[f].drawn + hist[f].charged
                          + Units(hist[f].owed) - hist[f].applied
  BY DEF DebtConservation
<1> DEFINE F == facility[f]
           h == hist[f]
           n == h.interestPaid + h.compounded
           a == Accrued(F, now).interestAccum
<1>1. now \in Nat /\ Sound(F, h, now)
  BY LedgerConstants DEF IInv, Rest
<1> SUFFICES LegalDebtAt(F, now)
               = h.drawn + h.charged + Units(h.owed) - h.applied
  OBVIOUS
<1> HIDE DEF F, h
<1>2. F \in Facility /\ h \in History /\ F.lastAccrualAt <= now
  BY <1>1 DEF Sound
<1>3. /\ F.principal \in Nat /\ F.fees \in Nat
      /\ h.drawn \in Nat /\ h.charged \in Nat /\ h.applied \in Nat
      /\ h.compounded \in Nat /\ h.interestPaid \in Nat /\ h.owed \in Nat
  BY <1>2, FacilityNat, HistoryNat
<1>4. a \in Nat /\ a = h.owed - ToAccum(n)
  BY <1>1, <1>2, AccruedFacts DEF Sound, Facility
<1>5. F.principal + F.fees + h.applied
        = h.drawn + h.charged + h.compounded + h.interestPaid
  BY <1>1 DEF Sound
<1>6. LegalDebtAt(F, now) = F.principal + F.fees + Units(a)
  BY <1>1, <1>2, LegalDebtFacts
<1>7. n \in Nat /\ n = h.interestPaid + h.compounded
  BY <1>3
<1> HIDE DEF a, n
<1>8. h.owed - ToAccum(n) >= 0
  BY <1>4
<1>9. Units(a) = Units(h.owed) - n
  BY <1>3, <1>4, <1>7, <1>8, UnitsShift
<1>10. Units(h.owed) \in Nat
  BY <1>3, UnitsNat
<1> QED
  BY <1>3, <1>5, <1>6, <1>7, <1>9, <1>10

(* Conservation of debt: what the ledger reports as owed at any block is    *)
(* what was drawn, charged and earned in whole units, less what was applied *)
(* (AC-04, AC-08), for every denominator, rate and schedule of calls.       *)
THEOREM LedgerDebtConservation == Spec => []DebtConservation
  BY DebtFollows, LedgerInvariant, PTL

(* Payment is the only step that lowers a principal. *)
LEMMA PrincipalKept ==
  ASSUME IInv, [Next]_vars,
         ~\E w \in Accounts, f \in Facilities, a \in Amounts : Allocate(w, f, a)
  PROVE  \A f \in Facilities : facility'[f].principal >= facility[f].principal
<1>0. \A f \in Facilities : /\ facility[f] \in Facility /\ facility[f].principal \in Nat
                            /\ facility \in [Facilities -> Facility] /\ now \in Nat
                            /\ facility[f].lastAccrualAt <= now
                            /\ (~facility[f].exists => facility[f] = NoFacility)
  BY LedgerConstants, FacilityNat DEF IInv, Rest, Sound
<1>1. ASSUME NEW f \in Facilities, NEW F, facility' = [facility EXCEPT ![f] = F],
             F.principal >= facility[f].principal
      PROVE  \A g \in Facilities : facility'[g].principal >= facility[g].principal
  BY <1>0, <1>1
<1>2. ASSUME facility' = facility
      PROVE  \A f \in Facilities : facility'[f].principal >= facility[f].principal
  BY <1>0, <1>2
<1>3. ASSUME NEW f \in Facilities
      PROVE  LET A == Accrued(facility[f], now)
             IN  A \in Facility /\ A.principal = facility[f].principal
  BY <1>0, AccruedFacts
<1>4. ASSUME NEW w, NEW f \in Facilities, NEW rate, NEW c, NEW m, Open(w, f, rate, c, m)
      PROVE  \A g \in Facilities : facility'[g].principal >= facility[g].principal
  <2> DEFINE F == [NoFacility EXCEPT !.exists = TRUE, !.capitalizes = c,
                       !.rateBps = rate, !.lastAccrualAt = now,
                       !.segments = <<[start |-> now, rateBps |-> rate]>>]
  <2>1. facility' = [facility EXCEPT ![f] = F]
    BY <1>4 DEF Open
  <2>2. F.principal >= facility[f].principal
    BY <1>0, <1>4 DEF Open, NoFacility
  <2> HIDE DEF F
  <2> QED
    BY <1>1, <2>1, <2>2
<1>5. ASSUME NEW w, NEW f \in Facilities, NEW s, SetState(w, f, s)
      PROVE  \A g \in Facilities : facility'[g].principal >= facility[g].principal
  <2> DEFINE F == [facility[f] EXCEPT !.state = s]
  <2>1. F.principal >= facility[f].principal
    BY <1>0 DEF Facility
  <2>2. facility' = [facility EXCEPT ![f] = F]
    BY <1>5 DEF SetState
  <2> HIDE DEF F
  <2> QED
    BY <1>1, <2>1, <2>2
<1>6. ASSUME NEW w, NEW f \in Facilities, Accrue(w, f)
      PROVE  \A g \in Facilities : facility'[g].principal >= facility[g].principal
  BY <1>0, <1>1, <1>3, <1>6 DEF Accrue
<1>7. ASSUME NEW w, NEW f \in Facilities, NEW rate, SetRate(w, f, rate)
      PROVE  \A g \in Facilities : facility'[g].principal >= facility[g].principal
  <2> DEFINE A == Accrued(facility[f], now)
             F == [A EXCEPT !.rateBps = rate, !.segments = AppendRate(A.segments, now, rate)]
  <2>1. facility' = [facility EXCEPT ![f] = F]
    BY <1>7 DEF SetRate
  <2>2. A \in Facility /\ A.principal = facility[f].principal /\ facility[f].principal \in Nat
    BY <1>0, <1>3
  <2> HIDE DEF A
  <2>3. F.principal >= facility[f].principal
    BY <2>2 DEF Facility
  <2> HIDE DEF F
  <2> QED
    BY <1>1, <2>1, <2>3
<1>8. ASSUME NEW w, NEW f \in Facilities, NEW n \in Amounts, RecordDraw(w, f, n)
      PROVE  \A g \in Facilities : facility'[g].principal >= facility[g].principal
  <2> DEFINE A == Accrued(facility[f], now)
             F == [A EXCEPT !.principal = A.principal + n]
  <2>1. facility' = [facility EXCEPT ![f] = F]
    BY <1>8 DEF RecordDraw
  <2>2. /\ A \in Facility /\ A.principal = facility[f].principal
        /\ facility[f].principal \in Nat /\ n \in Nat
    BY <1>0, <1>3, LedgerConstants
  <2> HIDE DEF A
  <2>3. F.principal >= facility[f].principal
    BY <2>2 DEF Facility
  <2> HIDE DEF F
  <2> QED
    BY <1>1, <2>1, <2>3
<1>9. ASSUME NEW w, NEW f \in Facilities, NEW n \in Amounts, RecordFee(w, f, n)
      PROVE  \A g \in Facilities : facility'[g].principal >= facility[g].principal
  <2> DEFINE A == Accrued(facility[f], now)
             F == [A EXCEPT !.fees = A.fees + n]
  <2>1. facility' = [facility EXCEPT ![f] = F]
    BY <1>9 DEF RecordFee
  <2>2. A \in Facility /\ A.principal = facility[f].principal /\ facility[f].principal \in Nat
    BY <1>0, <1>3
  <2> HIDE DEF A
  <2>3. F.principal >= facility[f].principal
    BY <2>2 DEF Facility
  <2> HIDE DEF F
  <2> QED
    BY <1>1, <2>1, <2>3
<1>10. ASSUME NEW w, NEW f \in Facilities, FreezeAccrual(w, f)
       PROVE  \A g \in Facilities : facility'[g].principal >= facility[g].principal
  <2> DEFINE A == Accrued(facility[f], now)
             F == [A EXCEPT !.frozen = TRUE]
  <2>1. facility' = [facility EXCEPT ![f] = F]
    BY <1>10 DEF FreezeAccrual
  <2>2. A \in Facility /\ A.principal = facility[f].principal /\ facility[f].principal \in Nat
    BY <1>0, <1>3
  <2> HIDE DEF A
  <2>3. F.principal >= facility[f].principal
    BY <2>2 DEF Facility
  <2> HIDE DEF F
  <2> QED
    BY <1>1, <2>1, <2>3
<1>11. ASSUME NEW w, NEW f \in Facilities, Capitalize(w, f)
       PROVE  \A g \in Facilities : facility'[g].principal >= facility[g].principal
  <2> DEFINE A == Accrued(facility[f], now)
             unpaid == Units(A.interestAccum)
             F == [A EXCEPT !.interestAccum = A.interestAccum - ToAccum(unpaid),
                            !.principal = A.principal + unpaid]
  <2>1. facility' = [facility EXCEPT ![f] = F]
    BY <1>11 DEF Capitalize
  <2>2. A \in Facility /\ A.principal = facility[f].principal /\ facility[f].principal \in Nat
    BY <1>0, <1>3
  <2>3. unpaid \in Nat
    BY <2>2, UnitsNat DEF Facility
  <2> HIDE DEF A, unpaid
  <2>4. F.principal >= facility[f].principal
    BY <2>2, <2>3 DEF Facility
  <2> HIDE DEF F
  <2> QED
    BY <1>1, <2>1, <2>4
<1> QED
  BY <1>2, <1>4, <1>5, <1>6, <1>7, <1>8, <1>9, <1>10, <1>11
     DEF Next, vars, SetWriter, FinalizeWiring, Tick

(* A payment reaches the principal only once fees and whole units are paid. *)
LEMMA AllocateInOrder ==
  ASSUME IInv, NEW w \in Accounts, NEW f \in Facilities, NEW received \in Amounts,
         Allocate(w, f, received)
  PROVE  WaterfallOrder
<1> DEFINE A == Accrued(facility[f], now)
           r == Waterfall(A, received)
           F == Allocated(A, r)
<1>0. facility \in [Facilities -> Facility] /\ received \in Nat /\ now' = now /\ now \in Nat
  BY LedgerConstants DEF IInv, Rest, Allocate, LedgerWrite
<1>1. /\ A \in Facility /\ A.lastAccrualAt = now /\ A.principal = facility[f].principal
      /\ A.interestAccum \in Nat /\ A.principal \in Nat /\ A.fees \in Nat
  <2>1. facility[f] \in Facility /\ facility[f].lastAccrualAt <= now
    BY DEF IInv, Sound
  <2> QED
    BY <1>0, <2>1, AccruedFacts DEF Facility
<1>2. facility' = [facility EXCEPT ![f] = F]
  BY DEF Allocate
<1> HIDE DEF A
<1>3. /\ r.principalPaid > 0 => r.feePaid = A.fees /\ r.interestPaid = Units(A.interestAccum)
      /\ r.principalPaid \in 0 .. A.principal
  BY <1>0, <1>1, WaterfallFacts
<1>4. /\ F \in Facility /\ F.fees = A.fees - r.feePaid
      /\ F.interestAccum = A.interestAccum - ToAccum(r.interestPaid)
      /\ F.principal = A.principal - r.principalPaid /\ F.lastAccrualAt = A.lastAccrualAt
  BY <1>0, <1>1, AllocatedFacts
<1>5. facility'[f] = F /\ \A g \in Facilities \ {f} : facility'[g] = facility[g]
  BY <1>0, <1>2
<1> HIDE DEF F, r
<1>6. ASSUME F.principal < facility[f].principal
      PROVE  F.fees = 0 /\ LegalDebtAt(F, now) = F.principal
  <2>1. r.principalPaid > 0
    BY <1>1, <1>3, <1>4, <1>6
  <2>2. F.fees = 0
    BY <1>1, <1>3, <1>4, <2>1
  <2>3. PICK u \in Nat : /\ u = Units(A.interestAccum) /\ ToAccum(u) \in Nat
                         /\ ToAccum(u) <= A.interestAccum
    BY <1>1, UnitsNat
  <2>4. Units(F.interestAccum) = 0
    <3>1. F.interestAccum = A.interestAccum - ToAccum(u)
      BY <1>3, <1>4, <2>1, <2>3
    <3>2. A.interestAccum - ToAccum(u) >= 0
      BY <1>1, <2>3
    <3>3. Units(A.interestAccum - ToAccum(u)) = Units(A.interestAccum) - u
      BY <1>1, <2>3, <3>2, UnitsShift
    <3> QED
      BY <2>3, <3>1, <3>3
  <2>5. Pending(F, now) = 0
    BY <1>0, <1>1, <1>4 DEF Pending
  <2>6. F.interestAccum + Pending(F, now) = F.interestAccum /\ F.principal \in Nat
    BY <1>4, <2>5 DEF Facility
  <2>7. UnpaidInterestAt(F, now) = 0
    BY <2>4, <2>6 DEF UnpaidInterestAt
  <2> QED
    BY <2>2, <2>6, <2>7 DEF LegalDebtAt
<1>7. \A g \in Facilities : facility[g].principal \in Nat
  BY <1>0 DEF Facility
<1> QED
  BY <1>0, <1>5, <1>6, <1>7 DEF WaterfallOrder

(* Without a tick no interest comes to be owed. *)
LEMMA OwedKept ==
  ASSUME IInv, [Next]_vars, now' = now
  PROVE  \A f \in Facilities : hist'[f].owed = hist[f].owed
<1>0. hist \in [Facilities -> History] /\ now \in Nat
  BY LedgerConstants DEF IInv, Rest
<1>1. ~\E elapsed \in 1 .. MaxTime : Tick(elapsed)
  BY <1>0 DEF Tick
<1>2. ASSUME NEW w, NEW f \in Facilities, NEW a, RecordDraw(w, f, a)
      PROVE  \A g \in Facilities : hist'[g].owed = hist[g].owed
  BY <1>0, <1>2 DEF RecordDraw, History
<1>3. ASSUME NEW w, NEW f \in Facilities, NEW a, RecordFee(w, f, a)
      PROVE  \A g \in Facilities : hist'[g].owed = hist[g].owed
  BY <1>0, <1>3 DEF RecordFee, History
<1>4. ASSUME NEW w, NEW f \in Facilities, NEW a, Allocate(w, f, a)
      PROVE  \A g \in Facilities : hist'[g].owed = hist[g].owed
  BY <1>0, <1>4 DEF Allocate, History
<1>5. ASSUME NEW w, NEW f \in Facilities, Capitalize(w, f)
      PROVE  \A g \in Facilities : hist'[g].owed = hist[g].owed
  BY <1>0, <1>5 DEF Capitalize, History
<1> QED
  BY <1>1, <1>2, <1>3, <1>4, <1>5
     DEF Next, vars, SetWriter, FinalizeWiring, Open, SetState, Accrue, SetRate, FreezeAccrual

LEMMA DebtFollowsThen == (IInv => DebtConservation)'
  BY DebtFollows, PTL

(* Debt moves by cash alone and cash pays it in the waterfall's order: no   *)
(* accrual, new rate, freeze or capitalisation changes what a facility owes *)
(* as of that block (AC-01, AC-04), for every instance.                     *)
THEOREM LedgerCashMovesDebt == Spec => CashMovesDebt
<1>1. IInv /\ [Next]_vars => WaterfallOrder
  <2> SUFFICES ASSUME IInv, [Next]_vars PROVE WaterfallOrder
    OBVIOUS
  <2>1. CASE \E w \in Accounts, f \in Facilities, a \in Amounts : Allocate(w, f, a)
    BY <2>1, AllocateInOrder
  <2>2. CASE ~\E w \in Accounts, f \in Facilities, a \in Amounts : Allocate(w, f, a)
    <3>1. \A f \in Facilities : facility[f].principal \in Nat /\ facility'[f].principal \in Nat
      BY NextIInv, FacilityNat DEF IInv, Sound
    <3> QED
      BY <2>2, <3>1, PrincipalKept DEF WaterfallOrder
  <2> QED
    BY <2>1, <2>2
<1>2. IInv /\ IInv' /\ [Next]_vars => DebtMovesOnlyByCash
  <2> SUFFICES ASSUME IInv, IInv', [Next]_vars, NEW f \in Facilities, now' = now,
                      hist'[f].drawn = hist[f].drawn, hist'[f].charged = hist[f].charged,
                      hist'[f].applied = hist[f].applied
               PROVE  LegalDebtAt(facility'[f], now') = LegalDebtAt(facility[f], now)
    BY DEF DebtMovesOnlyByCash
  <2>1. hist'[f].owed = hist[f].owed
    BY OwedKept
  <2>2. LegalDebtAt(facility[f], now)
          = hist[f].drawn + hist[f].charged + Units(hist[f].owed) - hist[f].applied
    BY DebtFollows DEF DebtConservation
  <2>3. LegalDebtAt(facility'[f], now')
          = hist'[f].drawn + hist'[f].charged + Units(hist'[f].owed) - hist'[f].applied
    BY DebtFollowsThen DEF DebtConservation
  <2> QED
    BY <2>1, <2>2, <2>3
<1>3. IInv /\ IInv' /\ [Next]_vars => [WaterfallOrder /\ DebtMovesOnlyByCash]_vars
  BY <1>1, <1>2
<1> QED
  BY <1>3, NextIInv, InitIInv, PTL DEF Spec, CashMovesDebt

-----------------------------------------------------------------------------
(* The mirrors: the read model *)

LEMMA FoldNone == ASSUME NEW row PROVE FoldEvent(row, NoEvent) = row
  BY DEF FoldEvent, NoEvent

Flag(z) == z \in BOOLEAN

Raised(z) == z = TRUE

(* A row of explicit columns, and what each event makes of it. *)
Row(p, q, i, z) ==
    [known |-> TRUE, principal |-> p, fees |-> q, interest |-> i, frozen |-> z, sound |-> TRUE]

LEMMA FoldIs ==
  ASSUME NEW row, row.sound = TRUE, NEW e, e.name # "none",
         PrincipalAfter(row, e) \in Nat, FeesAfter(row, e) \in Nat, InterestAfter(row, e) \in Nat,
         e.name = "Allocated" =>
            FeesAfter(row, e) + InterestAfter(row, e) + PrincipalAfter(row, e) = e.newDebt
  PROVE  FoldEvent(row, e) = Row(PrincipalAfter(row, e), FeesAfter(row, e), InterestAfter(row, e),
                                 row.frozen \/ e.name = "AccrualFrozen")
<1>1. PrincipalAfter(row, e) >= 0 /\ FeesAfter(row, e) >= 0 /\ InterestAfter(row, e) >= 0
  OBVIOUS
<1>2. FoldsSoundly(row, e) = TRUE
  BY <1>1, Zenon DEF FoldsSoundly
<1>3. (row.sound /\ FoldsSoundly(row, e)) = TRUE
  BY <1>2, Zenon
<1> QED
  BY <1>3, Zenon DEF FoldEvent, Row

LEMMA FacilityFields ==
  ASSUME NEW F \in Facility
  PROVE  /\ F.principal \in Nat /\ F.fees \in Nat /\ F.interestAccum \in Nat
         /\ Units(F.interestAccum) \in Nat /\ F.frozen \in BOOLEAN
         /\ F.lastAccrualAt \in Nat /\ F.rateBps \in Nat
  BY UnitsNat DEF Facility

LEMMA FoldAccrued ==
  ASSUME NEW p \in Nat, NEW q \in Nat, NEW i \in Nat, NEW z, Flag(z),
         NEW j \in Nat, NEW d, d = j - i
  PROVE  FoldEvent(Row(p, q, i, z), [name |-> "Accrued", units |-> d])
           = Row(p, q, j, z)
<1> DEFINE row == Row(p, q, i, z)
           e == [name |-> "Accrued", units |-> d]
<1>1. row.sound = TRUE /\ row.principal = p /\ row.fees = q /\ row.interest = i /\ row.frozen = z
  BY DEF Row
<1>2. e.name = "Accrued" /\ e.units = d
  OBVIOUS
<1> HIDE DEF row, e
<1>3. i + d = j
  OBVIOUS
<1>4. PrincipalAfter(row, e) = p /\ FeesAfter(row, e) = q /\ InterestAfter(row, e) = j
  BY <1>1, <1>2, <1>3 DEF PrincipalAfter, FeesAfter, InterestAfter
<1>5. z = (row.frozen \/ e.name = "AccrualFrozen")
  BY <1>1, <1>2, Zenon DEF Flag
<1>6. e.name # "none" /\ e.name # "Allocated"
  BY <1>2
<1>7. FoldEvent(row, e) = Row(PrincipalAfter(row, e), FeesAfter(row, e), InterestAfter(row, e),
                              row.frozen \/ e.name = "AccrualFrozen")
  BY <1>1, <1>4, <1>6, FoldIs
<1> QED
  BY <1>4, <1>5, <1>7, Zenon DEF row, e

LEMMA FoldDrawn ==
  ASSUME NEW p \in Nat, NEW q \in Nat, NEW i \in Nat, NEW z, Flag(z),
         NEW n \in Nat
  PROVE  FoldEvent(Row(p, q, i, z), [name |-> "Drawn", newPrincipal |-> n])
           = Row(n, q, i, z)
<1> DEFINE row == Row(p, q, i, z)
           e == [name |-> "Drawn", newPrincipal |-> n]
<1>1. row.sound = TRUE /\ row.principal = p /\ row.fees = q /\ row.interest = i /\ row.frozen = z
  BY DEF Row
<1>2. e.name = "Drawn" /\ e.newPrincipal = n
  OBVIOUS
<1> HIDE DEF row, e
<1>4. PrincipalAfter(row, e) = n /\ FeesAfter(row, e) = q /\ InterestAfter(row, e) = i
  BY <1>1, <1>2 DEF PrincipalAfter, FeesAfter, InterestAfter
<1>5. z = (row.frozen \/ e.name = "AccrualFrozen")
  BY <1>1, <1>2, Zenon DEF Flag
<1>6. e.name # "none" /\ e.name # "Allocated"
  BY <1>2
<1>7. FoldEvent(row, e) = Row(PrincipalAfter(row, e), FeesAfter(row, e), InterestAfter(row, e),
                              row.frozen \/ e.name = "AccrualFrozen")
  BY <1>1, <1>4, <1>6, FoldIs
<1> QED
  BY <1>4, <1>5, <1>7, Zenon DEF row, e

LEMMA FoldFeeCharged ==
  ASSUME NEW p \in Nat, NEW q \in Nat, NEW i \in Nat, NEW z, Flag(z),
         NEW a \in Nat, NEW n \in Nat, n = q + a
  PROVE  FoldEvent(Row(p, q, i, z), [name |-> "FeeCharged", amount |-> a])
           = Row(p, n, i, z)
<1> DEFINE row == Row(p, q, i, z)
           e == [name |-> "FeeCharged", amount |-> a]
<1>1. row.sound = TRUE /\ row.principal = p /\ row.fees = q /\ row.interest = i /\ row.frozen = z
  BY DEF Row
<1>2. e.name = "FeeCharged" /\ e.amount = a
  OBVIOUS
<1> HIDE DEF row, e
<1>4. PrincipalAfter(row, e) = p /\ FeesAfter(row, e) = n /\ InterestAfter(row, e) = i
  BY <1>1, <1>2 DEF PrincipalAfter, FeesAfter, InterestAfter
<1>5. z = (row.frozen \/ e.name = "AccrualFrozen")
  BY <1>1, <1>2, Zenon DEF Flag
<1>6. e.name # "none" /\ e.name # "Allocated"
  BY <1>2
<1>7. FoldEvent(row, e) = Row(PrincipalAfter(row, e), FeesAfter(row, e), InterestAfter(row, e),
                              row.frozen \/ e.name = "AccrualFrozen")
  BY <1>1, <1>4, <1>6, FoldIs
<1> QED
  BY <1>4, <1>5, <1>7, Zenon DEF row, e

LEMMA FoldFrozen ==
  ASSUME NEW p \in Nat, NEW q \in Nat, NEW i \in Nat, NEW z, NEW y, Raised(y)
  PROVE  FoldEvent(Row(p, q, i, z), [name |-> "AccrualFrozen"])
           = Row(p, q, i, y)
<1> DEFINE row == Row(p, q, i, z)
           e == [name |-> "AccrualFrozen"]
<1>1. row.sound = TRUE /\ row.principal = p /\ row.fees = q /\ row.interest = i /\ row.frozen = z
  BY DEF Row
<1>2. e.name = "AccrualFrozen"
  OBVIOUS
<1> HIDE DEF row, e
<1>4. PrincipalAfter(row, e) = p /\ FeesAfter(row, e) = q /\ InterestAfter(row, e) = i
  BY <1>1, <1>2 DEF PrincipalAfter, FeesAfter, InterestAfter
<1>5. y = (row.frozen \/ e.name = "AccrualFrozen")
  BY <1>1, <1>2, Zenon DEF Raised
<1>6. e.name # "none" /\ e.name # "Allocated"
  BY <1>2
<1>7. FoldEvent(row, e) = Row(PrincipalAfter(row, e), FeesAfter(row, e), InterestAfter(row, e),
                              row.frozen \/ e.name = "AccrualFrozen")
  BY <1>1, <1>4, <1>6, FoldIs
<1> QED
  BY <1>4, <1>5, <1>7, Zenon DEF row, e

LEMMA FoldStateSet ==
  ASSUME NEW p \in Nat, NEW q \in Nat, NEW i \in Nat, NEW z, Flag(z)
  PROVE  FoldEvent(Row(p, q, i, z), [name |-> "StateSet"])
           = Row(p, q, i, z)
<1> DEFINE row == Row(p, q, i, z)
           e == [name |-> "StateSet"]
<1>1. row.sound = TRUE /\ row.principal = p /\ row.fees = q /\ row.interest = i /\ row.frozen = z
  BY DEF Row
<1>2. e.name = "StateSet"
  OBVIOUS
<1> HIDE DEF row, e
<1>4. PrincipalAfter(row, e) = p /\ FeesAfter(row, e) = q /\ InterestAfter(row, e) = i
  BY <1>1, <1>2 DEF PrincipalAfter, FeesAfter, InterestAfter
<1>5. z = (row.frozen \/ e.name = "AccrualFrozen")
  BY <1>1, <1>2, Zenon DEF Flag
<1>6. e.name # "none" /\ e.name # "Allocated"
  BY <1>2
<1>7. FoldEvent(row, e) = Row(PrincipalAfter(row, e), FeesAfter(row, e), InterestAfter(row, e),
                              row.frozen \/ e.name = "AccrualFrozen")
  BY <1>1, <1>4, <1>6, FoldIs
<1> QED
  BY <1>4, <1>5, <1>7, Zenon DEF row, e

LEMMA FoldOpened ==
         FoldEvent(NoRow, [name |-> "FacilityOpened"])
           = Row(0, 0, 0, FALSE)
<1> DEFINE row == NoRow
           e == [name |-> "FacilityOpened"]
<1>1. row.sound = TRUE /\ row.principal = 0 /\ row.fees = 0 /\ row.interest = 0 /\ row.frozen = FALSE
  BY DEF NoRow
<1>2. e.name = "FacilityOpened"
  OBVIOUS
<1> HIDE DEF row, e
<1>4. PrincipalAfter(row, e) = 0 /\ FeesAfter(row, e) = 0 /\ InterestAfter(row, e) = 0
  BY <1>1, <1>2 DEF PrincipalAfter, FeesAfter, InterestAfter
<1>5. FALSE = (row.frozen \/ e.name = "AccrualFrozen")
  BY <1>1, <1>2, Zenon
<1>6. e.name # "none" /\ e.name # "Allocated"
  BY <1>2
<1>7. FoldEvent(row, e) = Row(PrincipalAfter(row, e), FeesAfter(row, e), InterestAfter(row, e),
                              row.frozen \/ e.name = "AccrualFrozen")
  <2>1. row.sound = TRUE
    BY <1>1
  <2>2. PrincipalAfter(row, e) \in Nat /\ FeesAfter(row, e) \in Nat /\ InterestAfter(row, e) \in Nat
    BY <1>4
  <2> QED
    BY <2>1, <2>2, <1>6, FoldIs
<1> QED
  BY <1>4, <1>5, <1>7, Zenon DEF row, e

(* Event e pays from amounts p, q, i down to p1, q1, i1. *)
Pays(e, p, q, i, p1, q1, i1) ==
    /\ e.name = "Allocated"
    /\ p1 = p - e.principalPaid /\ q1 = q - e.feePaid /\ i1 = i - e.interestPaid
    /\ q1 + i1 + p1 = e.newDebt

LEMMA FoldAllocated ==
  ASSUME NEW p \in Nat, NEW q \in Nat, NEW i \in Nat, NEW z, Flag(z), NEW e,
         NEW p1 \in Nat, NEW q1 \in Nat, NEW i1 \in Nat, Pays(e, p, q, i, p1, q1, i1)
  PROVE  FoldEvent(Row(p, q, i, z), e) = Row(p1, q1, i1, z)
<1> DEFINE row == Row(p, q, i, z)
<1>1. row.sound = TRUE /\ row.principal = p /\ row.fees = q /\ row.interest = i /\ row.frozen = z
  BY DEF Row
<1> HIDE DEF row
<1>4. PrincipalAfter(row, e) = p1 /\ FeesAfter(row, e) = q1 /\ InterestAfter(row, e) = i1
  BY <1>1 DEF Pays, PrincipalAfter, FeesAfter, InterestAfter
<1>5. z = (row.frozen \/ e.name = "AccrualFrozen")
  BY <1>1, Zenon DEF Flag, Pays
<1>6. e.name # "none" /\ q1 + i1 + p1 = e.newDebt
  BY DEF Pays
<1>7. FoldEvent(row, e) = Row(PrincipalAfter(row, e), FeesAfter(row, e), InterestAfter(row, e),
                              row.frozen \/ e.name = "AccrualFrozen")
  BY <1>1, <1>4, <1>6, FoldIs
<1> QED
  BY <1>4, <1>5, <1>7, Zenon DEF row

LEMMA FoldCapitalized ==
  ASSUME NEW p \in Nat, NEW q \in Nat, NEW i \in Nat, NEW z, Flag(z),
         NEW u \in Nat, NEW n \in Nat, NEW i1 \in Nat, i1 = i - u
  PROVE  FoldEvent(Row(p, q, i, z), [name |-> "Capitalized", units |-> u, newPrincipal |-> n])
           = Row(n, q, i1, z)
<1> DEFINE row == Row(p, q, i, z)
           e == [name |-> "Capitalized", units |-> u, newPrincipal |-> n]
<1>1. row.sound = TRUE /\ row.principal = p /\ row.fees = q /\ row.interest = i /\ row.frozen = z
  BY DEF Row
<1>2. e.name = "Capitalized" /\ e.units = u /\ e.newPrincipal = n
  OBVIOUS
<1> HIDE DEF row, e
<1>4. PrincipalAfter(row, e) = n /\ FeesAfter(row, e) = q /\ InterestAfter(row, e) = i1
  BY <1>1, <1>2 DEF PrincipalAfter, FeesAfter, InterestAfter
<1>5. z = (row.frozen \/ e.name = "AccrualFrozen")
  BY <1>1, <1>2, Zenon DEF Flag
<1>6. e.name # "none" /\ e.name # "Allocated"
  BY <1>2
<1>7. FoldEvent(row, e) = Row(PrincipalAfter(row, e), FeesAfter(row, e), InterestAfter(row, e),
                              row.frozen \/ e.name = "AccrualFrozen")
  BY <1>1, <1>4, <1>6, FoldIs
<1> QED
  BY <1>4, <1>5, <1>7, Zenon DEF row, e

(* The read model's row of a facility, as of its last accrual. *)
RowOf(F) == Row(F.principal, F.fees, Units(F.interestAccum), F.frozen)

LEMMA FacilityFrozen == ASSUME NEW F \in Facility PROVE Flag(F.frozen)
  BY DEF Facility, Flag

(* The Accrued event brings the row to the accrued record. *)
LEMMA FoldAccrual ==
  ASSUME NEW F \in Facility, now \in Nat, F.lastAccrualAt <= now
  PROVE  FoldEvent(RowOf(F), AccrualEvent(F)) = RowOf(Accrued(F, now))
<1> DEFINE A == Accrued(F, now)
<1>1. /\ A \in Facility /\ A.principal = F.principal /\ A.fees = F.fees
      /\ A.frozen = F.frozen /\ A.interestAccum = F.interestAccum + Pending(F, now)
  BY AccruedFacts
<1>2. CASE Accrues(F) /\ F.lastAccrualAt < now
  <2>1. PICK u \in Nat : u = Units(A.interestAccum)
    BY <1>1, FacilityFields
  <2>2. PICK v \in Nat : v = Units(F.interestAccum)
    BY FacilityFields
  <2>3. PICK d : d = u - v
    OBVIOUS
  <2>4. AccrualEvent(F) = [name |-> "Accrued", units |-> d]
    BY <1>2, <2>1, <2>2, <2>3 DEF AccrualEvent
  <2> HIDE DEF A
  <2>5. PICK p, q, z : p \in Nat /\ q \in Nat /\ p = F.principal /\ q = F.fees /\ z = F.frozen /\ Flag(z)
    BY FacilityFields, FacilityFrozen
  <2>6. RowOf(F) = Row(p, q, v, z) /\ RowOf(A) = Row(p, q, u, z)
    BY <1>1, <2>1, <2>2, <2>5, Zenon DEF RowOf
  <2>7. FoldEvent(Row(p, q, v, z), [name |-> "Accrued", units |-> d]) = Row(p, q, u, z)
    BY <2>3, <2>5, FoldAccrued
  <2> QED
    BY <2>4, <2>6, <2>7, Zenon DEF A
<1>3. CASE ~(Accrues(F) /\ F.lastAccrualAt < now)
  <2>1. Pending(F, now) = 0 /\ F.interestAccum \in Nat
    BY <1>3, FacilityFields DEF Pending
  <2>2. A.interestAccum = F.interestAccum
    BY <1>1, <2>1
  <2>3. AccrualEvent(F) = NoEvent
    BY <1>3 DEF AccrualEvent
  <2> HIDE DEF A
  <2>4. RowOf(A) = RowOf(F)
    BY <1>1, <2>2, Zenon DEF RowOf
  <2> QED
    BY <2>3, <2>4, FoldNone, Zenon DEF A
<1> QED
  BY <1>2, <1>3

-----------------------------------------------------------------------------
(* The mirrors: the reference model *)

(* A list of rate segments none of which starts after the last accrual, and *)
(* whose latest carries the current rate.                                   *)
Segmented(g, last, rate) ==
    /\ IsFiniteSet(DOMAIN g) /\ DOMAIN g # {} /\ DOMAIN g \in SUBSET Nat
    /\ \A s \in DOMAIN g : s <= last
    /\ g[Max(DOMAIN g)] = rate

ReferenceRow(g) ==
    [principal : Nat, fees : Nat, accum : Nat, last : Nat, frozen : BOOLEAN, segments : {g}]

(* The reference record R of a facility record F. *)
Copies(R, F) ==
    /\ R \in ReferenceRow(R.segments)
    /\ R.principal = F.principal /\ R.fees = F.fees /\ R.accum = F.interestAccum
    /\ R.last = F.lastAccrualAt /\ R.frozen = F.frozen
    /\ Segmented(R.segments, F.lastAccrualAt, F.rateBps)

LEMMA CurrentRateIs ==
  ASSUME NEW g, NEW last \in Nat, NEW rate, Segmented(g, last, rate), NEW s \in Nat, last <= s
  PROVE  CurrentRate(g, s) = rate
<1>1. {x \in DOMAIN g : x <= s} = DOMAIN g
  BY DEF Segmented
<1> QED
  BY <1>1 DEF CurrentRate, Segmented

(* Walking the segments second by second adds what one rate adds. *)
LEMMA ReferenceSum ==
  ASSUME NEW g, NEW last \in Nat, NEW rate \in Nat, Segmented(g, last, rate),
         NEW t \in Nat, last <= t, NEW p \in Nat
  PROVE  SumFunctionOnSet([s \in last .. t - 1 |-> p * CurrentRate(g, s)], last .. t - 1)
           = Growth(p, rate, t - last)
<1>0. PICK c \in Nat : c = p * rate
  BY TimesNat
<1> DEFINE S == last .. t - 1
<1>1. IsFiniteSet(S) /\ Cardinality(S) = t - last
  <2>1. last \in Int /\ t - 1 \in Int
    OBVIOUS
  <2>2. IsFiniteSet(S) /\ Cardinality(S) = IF last > t - 1 THEN 0 ELSE (t - 1) - last + 1
    BY <2>1, FS_Interval
  <2> QED
    BY <2>2
<1>2. \A s \in S : s \in Nat /\ last <= s
  OBVIOUS
<1>3. \A s \in S : CurrentRate(g, s) = rate
  BY <1>2, CurrentRateIs
<1> HIDE DEF S
<1>4. [s \in S |-> p * CurrentRate(g, s)] = [s \in S |-> c]
  BY <1>0, <1>3
<1>5. SumFunctionOnSet([s \in S |-> c], S) = c * Cardinality(S)
  <2>1. c \in Int
    OBVIOUS
  <2> QED
    BY <1>1, <2>1, SumConst, Zenon
<1> QED
  BY <1>0, <1>1, <1>4, <1>5 DEF S, Growth

(* accrue keeps the copy. *)
LEMMA ReferenceAccruedCopies ==
  ASSUME NEW F \in Facility, NEW R, Copies(R, F), NEW t \in Nat, F.lastAccrualAt <= t
  PROVE  /\ Copies(ReferenceAccrued(R, t), Accrued(F, t))
         /\ ReferenceAccrued(R, t).segments = R.segments
<1> DEFINE sum == SumFunctionOnSet([s \in R.last .. t - 1 |-> R.principal * CurrentRate(R.segments, s)],
                                   R.last .. t - 1)
           n == IF R.frozen THEN R.accum ELSE R.accum + sum
           Q == [R EXCEPT !.last = t, !.accum = n]
           A == Accrued(F, t)
<1>0. F.principal \in Nat /\ F.rateBps \in Nat /\ F.lastAccrualAt \in Nat /\ F.interestAccum \in Nat
  BY FacilityFields
<1>1. /\ A \in Facility /\ A.principal = F.principal /\ A.fees = F.fees /\ A.lastAccrualAt = t
      /\ A.frozen = F.frozen /\ A.interestAccum = F.interestAccum + Pending(F, t)
      /\ A.rateBps = F.rateBps
  BY AccruedFacts
<1>2. sum = Growth(F.principal, F.rateBps, t - F.lastAccrualAt)
  BY <1>0, ReferenceSum DEF Copies
<1>3. n = A.interestAccum
  <2> HIDE DEF sum, A
  <2>1. CASE Accrues(F) /\ F.lastAccrualAt < t
    BY <1>1, <1>2, <2>1 DEF Pending, Accrues, Copies
  <2>2. CASE F.frozen
    BY <1>0, <1>1, <2>2 DEF Pending, Accrues, Copies
  <2>3. CASE ~F.frozen /\ (F.principal = 0 \/ F.lastAccrualAt = t)
    <3>1. sum = 0
      BY <1>0, <1>2, <2>3 DEF Growth
    <3>2. Pending(F, t) = 0
      BY <2>3 DEF Pending, Accrues
    <3> QED
      BY <1>0, <1>1, <2>3, <3>1, <3>2 DEF Copies
  <2> QED
    BY <1>0, <2>1, <2>2, <2>3 DEF Accrues
<1>4. ReferenceAccrued(R, t) = Q
  BY DEF ReferenceAccrued
<1>5. n \in Nat
  BY <1>1, <1>3, FacilityFields
<1> HIDE DEF n, A
<1>6. /\ Q \in ReferenceRow(R.segments) /\ Q.segments = R.segments /\ Q.last = t /\ Q.accum = n
      /\ Q.principal = R.principal /\ Q.fees = R.fees /\ Q.frozen = R.frozen
  BY <1>5 DEF Copies, ReferenceRow
<1> HIDE DEF Q
<1>7. Segmented(R.segments, t, F.rateBps)
  BY <1>0 DEF Copies, Segmented
<1> QED
  BY <1>1, <1>3, <1>4, <1>6, <1>7 DEF Copies, A

(* Each later change of the accrued copy is the contract's change. *)
LEMMA BorrowCopies ==
  ASSUME NEW R, NEW t, NEW A \in Facility, Copies(ReferenceAccrued(R, t), A), NEW amount \in Nat,
         NEW F, F.principal = A.principal + amount,
         \A x \in {"fees", "interestAccum", "lastAccrualAt", "frozen", "rateBps"} : F[x] = A[x]
  PROVE  Copies(ReferenceBorrow(R, t, amount), F)
<1> DEFINE Q == ReferenceAccrued(R, t)
           P == [Q EXCEPT !.principal = Q.principal + amount]
<1>1. ReferenceBorrow(R, t, amount) = P
  BY DEF ReferenceBorrow
<1> HIDE DEF Q
<1>2. Copies(Q, A)
  BY DEF Q
<1>3. Q.principal + amount \in Nat
  BY <1>2 DEF Copies, ReferenceRow
<1>4. /\ P \in ReferenceRow(Q.segments) /\ P.segments = Q.segments /\ P.last = Q.last
      /\ P.accum = Q.accum /\ P.principal = Q.principal + amount /\ P.fees = Q.fees
      /\ P.frozen = Q.frozen
  BY <1>2, <1>3 DEF Copies, ReferenceRow
<1> HIDE DEF P
<1> QED
  BY <1>1, <1>2, <1>4 DEF Copies

LEMMA FeeCopies ==
  ASSUME NEW R, NEW t, NEW A \in Facility, Copies(ReferenceAccrued(R, t), A), NEW amount \in Nat,
         NEW F, F.fees = A.fees + amount,
         \A x \in {"principal", "interestAccum", "lastAccrualAt", "frozen", "rateBps"} : F[x] = A[x]
  PROVE  Copies(ReferenceFee(R, t, amount), F)
<1> DEFINE Q == ReferenceAccrued(R, t)
           P == [Q EXCEPT !.fees = Q.fees + amount]
<1>1. ReferenceFee(R, t, amount) = P
  BY DEF ReferenceFee
<1> HIDE DEF Q
<1>2. Copies(Q, A)
  BY DEF Q
<1>3. Q.fees + amount \in Nat
  BY <1>2 DEF Copies, ReferenceRow
<1>4. /\ P \in ReferenceRow(Q.segments) /\ P.segments = Q.segments /\ P.last = Q.last
      /\ P.accum = Q.accum /\ P.fees = Q.fees + amount /\ P.principal = Q.principal
      /\ P.frozen = Q.frozen
  BY <1>2, <1>3 DEF Copies, ReferenceRow
<1> HIDE DEF P
<1> QED
  BY <1>1, <1>2, <1>4 DEF Copies

LEMMA FrozenCopies ==
  ASSUME NEW R, NEW t, NEW A \in Facility, Copies(ReferenceAccrued(R, t), A),
         NEW F, Raised(F.frozen),
         \A x \in {"principal", "fees", "interestAccum", "lastAccrualAt", "rateBps"} : F[x] = A[x]
  PROVE  Copies(ReferenceFrozen(R, t), F)
<1> DEFINE Q == ReferenceAccrued(R, t)
           P == [Q EXCEPT !.frozen = TRUE]
<1>1. ReferenceFrozen(R, t) = P
  BY DEF ReferenceFrozen
<1> HIDE DEF Q
<1>2. Copies(Q, A)
  BY DEF Q
<1>4. /\ P \in ReferenceRow(Q.segments) /\ P.segments = Q.segments /\ P.last = Q.last
      /\ P.accum = Q.accum /\ P.fees = Q.fees /\ P.principal = Q.principal
      /\ P.frozen = TRUE
  BY <1>2 DEF Copies, ReferenceRow
<1> HIDE DEF P
<1> QED
  BY <1>1, <1>2, <1>4 DEF Copies, Raised

(* The two waterfalls agree. *)
LEMMA RepaidCopies ==
  ASSUME NEW R, NEW t, NEW A \in Facility, Copies(ReferenceAccrued(R, t), A), NEW amount \in Nat
  PROVE  Copies(ReferenceRepaid(R, t, amount), Allocated(A, Waterfall(A, amount)))
<1> DEFINE Q == ReferenceAccrued(R, t)
           r == Waterfall(A, amount)
           F == Allocated(A, r)
           fees == LesserOf(amount, Q.fees)
           interest == LesserOf(amount - fees, Q.accum \div Denom)
           principal == LesserOf(amount - fees - interest, Q.principal)
           P == [Q EXCEPT !.fees = Q.fees - fees, !.accum = Q.accum - interest * Denom,
                          !.principal = Q.principal - principal]
<1>1. ReferenceRepaid(R, t, amount) = P
  BY DEF ReferenceRepaid
<1>2. Copies(Q, A)
  OBVIOUS
<1>3. /\ F \in Facility
      /\ F.fees = A.fees - r.feePaid
      /\ F.interestAccum = A.interestAccum - ToAccum(r.interestPaid)
      /\ F.principal = A.principal - r.principalPaid
      /\ F.lastAccrualAt = A.lastAccrualAt /\ F.frozen = A.frozen /\ F.rateBps = A.rateBps
  BY AllocatedFacts
<1> HIDE DEF Q, F
<1>4. r.feePaid = fees /\ r.interestPaid = interest /\ r.principalPaid = principal
  BY <1>2 DEF Waterfall, Copies, Units
<1> HIDE DEF r, fees, interest, principal
<1>5. /\ Q.fees - fees = F.fees /\ Q.principal - principal = F.principal
      /\ Q.accum - interest * Denom = F.interestAccum
  BY <1>2, <1>3, <1>4 DEF Copies, ToAccum
<1>6. F.fees \in Nat /\ F.principal \in Nat /\ F.interestAccum \in Nat
  BY <1>3, FacilityFields
<1>7. /\ P \in ReferenceRow(Q.segments) /\ P.segments = Q.segments /\ P.last = Q.last
      /\ P.accum = F.interestAccum /\ P.fees = F.fees /\ P.principal = F.principal
      /\ P.frozen = Q.frozen
  <2>1. P = [Q EXCEPT !.fees = F.fees, !.accum = F.interestAccum, !.principal = F.principal]
    BY <1>5
  <2> HIDE DEF P
  <2> QED
    BY <1>2, <1>6, <2>1 DEF Copies, ReferenceRow
<1> HIDE DEF P
<1>8. Copies(P, F)
  BY <1>2, <1>3, <1>7 DEF Copies
<1> QED
  BY <1>1, <1>8 DEF F, r

(* A new segment, or one that replaces a segment of the same start. *)
LEMMA SegmentAdded ==
  ASSUME NEW g, NEW t \in Nat, NEW old, Segmented(g, t, old), NEW rate,
         NEW h, h = [s \in DOMAIN g \union {t} |-> IF s = t THEN rate ELSE g[s]]
  PROVE  Segmented(h, t, rate)
<1>1. DOMAIN h = DOMAIN g \union {t} /\ h[t] = rate
  OBVIOUS
<1>2. IsFiniteSet(DOMAIN g \union {t})
  BY FS_AddElement DEF Segmented
<1>3. DOMAIN h \in SUBSET Int /\ DOMAIN h \in SUBSET Nat /\ t \in DOMAIN h /\ \A s \in DOMAIN h : t >= s
  BY <1>1 DEF Segmented
<1>4. Max(DOMAIN h) = t
  BY <1>3, MaxIs
<1>5. \A s \in DOMAIN h : s <= t
  BY <1>3
<1> QED
  BY <1>1, <1>2, <1>3, <1>4, <1>5 DEF Segmented

LEMMA RateCopies ==
  ASSUME NEW R, NEW t \in Nat, NEW A \in Facility, Copies(ReferenceAccrued(R, t), A),
         ReferenceAccrued(R, t).segments = R.segments, A.lastAccrualAt = t, NEW rate,
         NEW F, F.rateBps = rate,
         \A x \in {"principal", "fees", "interestAccum", "lastAccrualAt", "frozen"} : F[x] = A[x]
  PROVE  Copies(ReferenceRate(R, t, rate), F)
<1> DEFINE Q == ReferenceAccrued(R, t)
           h == [s \in DOMAIN R.segments \union {t} |-> IF s = t THEN rate ELSE R.segments[s]]
           P == [Q EXCEPT !.segments = h]
<1>1. ReferenceRate(R, t, rate) = P
  BY DEF ReferenceRate
<1>2. Copies(Q, A) /\ Q.segments = R.segments
  OBVIOUS
<1> HIDE DEF Q
<1>3. Segmented(h, t, rate)
  BY <1>2, SegmentAdded DEF Copies
<1> HIDE DEF h
<1>4. /\ P \in ReferenceRow(h) /\ P.segments = h /\ P.last = Q.last
      /\ P.accum = Q.accum /\ P.fees = Q.fees /\ P.principal = Q.principal
      /\ P.frozen = Q.frozen
  BY <1>2 DEF Copies, ReferenceRow
<1> HIDE DEF P
<1> QED
  BY <1>1, <1>2, <1>3, <1>4 DEF Copies

LEMMA OpenCopies ==
  ASSUME NEW t \in Nat, NEW rate,
         NEW F, F.rateBps = rate, F.lastAccrualAt = t, F.principal = 0, F.fees = 0,
         F.interestAccum = 0, F.frozen = FALSE
  PROVE  Copies([NoReference EXCEPT !.last = t, !.segments = [start \in {t} |-> rate]], F)
<1> DEFINE Q == NoReference
           h == [start \in {t} |-> rate]
           P == [Q EXCEPT !.last = t, !.segments = h]
<1>1. /\ Q \in ReferenceRow(Q.segments)
      /\ Q.principal = 0 /\ Q.fees = 0 /\ Q.accum = 0 /\ Q.frozen = FALSE
  BY DEF NoReference, ReferenceRow
<1>2. Segmented(h, t, rate)
  <2>1. DOMAIN h = {t} /\ h[t] = rate /\ {t} \in SUBSET Int /\ t \in {t} /\ \A s \in {t} : t >= s
    OBVIOUS
  <2>2. Max(DOMAIN h) = t
    BY <2>1, MaxIs
  <2>3. IsFiniteSet({t})
    BY FS_Singleton
  <2> QED
    BY <2>1, <2>2, <2>3 DEF Segmented
<1> HIDE DEF Q, h
<1>3. /\ P \in ReferenceRow(h) /\ P.segments = h /\ P.last = t
      /\ P.accum = Q.accum /\ P.fees = Q.fees /\ P.principal = Q.principal
      /\ P.frozen = Q.frozen
  BY <1>1 DEF ReferenceRow
<1>4. Copies(P, F)
  <2> HIDE DEF P
  <2> QED
    BY <1>1, <1>2, <1>3 DEF Copies
<1> QED
  BY <1>4 DEF Q, h

-----------------------------------------------------------------------------
(* The mirrors: each call *)

(* The columns of an accrued record, as values the provers treat as plain. *)
LEMMA Columns ==
  ASSUME NEW A \in Facility
  PROVE  \E p, q, i, z :
            /\ p \in Nat /\ q \in Nat /\ i \in Nat
            /\ Flag(z) /\ RowOf(A) = Row(p, q, i, z)
            /\ p = A.principal /\ q = A.fees /\ i = Units(A.interestAccum) /\ z = A.frozen
<1>1. A.principal \in Nat /\ A.fees \in Nat /\ Units(A.interestAccum) \in Nat
  BY FacilityFields
<1>2. Flag(A.frozen)
  BY FacilityFrozen
<1>3. RowOf(A) = Row(A.principal, A.fees, Units(A.interestAccum), A.frozen)
  BY Zenon DEF RowOf
<1> QED
  BY <1>1, <1>2, <1>3, Zenon

LEMMA RowDrawn ==
  ASSUME NEW A \in Facility, NEW F \in Facility, NEW n \in Nat, F.principal = n,
         \A x \in {"fees", "interestAccum", "frozen"} : F[x] = A[x]
  PROVE  FoldEvent(RowOf(A), [name |-> "Drawn", newPrincipal |-> n]) = RowOf(F)
<1>1. PICK p, q, i, z :
         /\ p \in Nat /\ q \in Nat /\ i \in Nat
         /\ Flag(z) /\ RowOf(A) = Row(p, q, i, z)
         /\ p = A.principal /\ q = A.fees /\ i = Units(A.interestAccum) /\ z = A.frozen
  BY Columns
<1>2. F.fees = A.fees /\ F.interestAccum = A.interestAccum /\ F.frozen = A.frozen
  OBVIOUS
<1>3. RowOf(F) = Row(n, q, i, z)
  BY <1>1, <1>2, Zenon DEF RowOf
<1>4. FoldEvent(Row(p, q, i, z), [name |-> "Drawn", newPrincipal |-> n]) = Row(n, q, i, z)
  BY <1>1, FoldDrawn
<1> QED
  BY <1>1, <1>3, <1>4, Zenon

LEMMA RowCharged ==
  ASSUME NEW A \in Facility, NEW F \in Facility, NEW a \in Nat, F.fees = A.fees + a,
         \A x \in {"principal", "interestAccum", "frozen"} : F[x] = A[x]
  PROVE  FoldEvent(RowOf(A), [name |-> "FeeCharged", amount |-> a]) = RowOf(F)
<1>1. PICK p, q, i, z :
         /\ p \in Nat /\ q \in Nat /\ i \in Nat
         /\ Flag(z) /\ RowOf(A) = Row(p, q, i, z)
         /\ p = A.principal /\ q = A.fees /\ i = Units(A.interestAccum) /\ z = A.frozen
  BY Columns
<1>2. F.principal = A.principal /\ F.interestAccum = A.interestAccum /\ F.frozen = A.frozen
  OBVIOUS
<1>3. PICK n \in Nat : n = F.fees
  BY FacilityFields
<1>4. RowOf(F) = Row(p, n, i, z)
  BY <1>1, <1>2, <1>3, Zenon DEF RowOf
<1>5. n = q + a
  BY <1>1, <1>3
<1>6. FoldEvent(Row(p, q, i, z), [name |-> "FeeCharged", amount |-> a]) = Row(p, n, i, z)
  BY <1>1, <1>5, FoldFeeCharged
<1> QED
  BY <1>1, <1>4, <1>6, Zenon

LEMMA RowFrozen ==
  ASSUME NEW A \in Facility, NEW F \in Facility, F.frozen = TRUE,
         \A x \in {"principal", "fees", "interestAccum"} : F[x] = A[x]
  PROVE  FoldEvent(RowOf(A), [name |-> "AccrualFrozen"]) = RowOf(F)
<1>1. PICK p, q, i, z :
         /\ p \in Nat /\ q \in Nat /\ i \in Nat
         /\ Flag(z) /\ RowOf(A) = Row(p, q, i, z)
         /\ p = A.principal /\ q = A.fees /\ i = Units(A.interestAccum) /\ z = A.frozen
  BY Columns
<1>2. F.principal = A.principal /\ F.interestAccum = A.interestAccum /\ F.fees = A.fees
  OBVIOUS
<1>y. PICK y : y = F.frozen /\ Raised(y)
  BY DEF Raised
<1>3. RowOf(F) = Row(p, q, i, y)
  BY <1>1, <1>2, <1>y, Zenon DEF RowOf
<1>4. FoldEvent(Row(p, q, i, z), [name |-> "AccrualFrozen"]) = Row(p, q, i, y)
  <2>1. p \in Nat /\ q \in Nat /\ i \in Nat
    BY <1>1, Zenon
  <2> QED
    BY <2>1, <1>y, FoldFrozen
<1> QED
  BY <1>1, <1>3, <1>4, Zenon

LEMMA RowStateSet ==
  ASSUME NEW A \in Facility, NEW F \in Facility,
         \A x \in {"principal", "fees", "interestAccum", "frozen"} : F[x] = A[x]
  PROVE  FoldEvent(RowOf(A), [name |-> "StateSet"]) = RowOf(F)
<1>1. PICK p, q, i, z :
         /\ p \in Nat /\ q \in Nat /\ i \in Nat
         /\ Flag(z) /\ RowOf(A) = Row(p, q, i, z)
         /\ p = A.principal /\ q = A.fees /\ i = Units(A.interestAccum) /\ z = A.frozen
  BY Columns
<1>2. /\ F.principal = A.principal /\ F.interestAccum = A.interestAccum /\ F.fees = A.fees
      /\ F.frozen = A.frozen
  OBVIOUS
<1>3. RowOf(F) = Row(p, q, i, z)
  BY <1>1, <1>2, Zenon DEF RowOf
<1>4. FoldEvent(Row(p, q, i, z), [name |-> "StateSet"]) = Row(p, q, i, z)
  BY <1>1, FoldStateSet
<1> QED
  BY <1>1, <1>3, <1>4, Zenon

LEMMA RowAllocated ==
  ASSUME NEW A \in Facility, NEW F \in Facility, NEW a \in Nat, NEW b \in Nat, NEW c \in Nat,
         F.fees = A.fees - a, Units(F.interestAccum) = Units(A.interestAccum) - b,
         F.principal = A.principal - c, F.frozen = A.frozen,
         NEW d, d = F.principal + F.fees + Units(F.interestAccum)
  PROVE  FoldEvent(RowOf(A), [name |-> "Allocated", feePaid |-> a, interestPaid |-> b,
                              principalPaid |-> c, newDebt |-> d]) = RowOf(F)
<1>1. PICK p, q, i, z :
         /\ p \in Nat /\ q \in Nat /\ i \in Nat
         /\ Flag(z) /\ RowOf(A) = Row(p, q, i, z)
         /\ p = A.principal /\ q = A.fees /\ i = Units(A.interestAccum) /\ z = A.frozen
  BY Columns
<1>2. PICK p1 \in Nat, q1 \in Nat, i1 \in Nat :
         p1 = F.principal /\ q1 = F.fees /\ i1 = Units(F.interestAccum)
  BY FacilityFields
<1>3. RowOf(F) = Row(p1, q1, i1, z)
  BY <1>1, <1>2, Zenon DEF RowOf
<1>4. p1 = p - c /\ q1 = q - a /\ i1 = i - b /\ d = q1 + i1 + p1
  <2>1. p = A.principal /\ q = A.fees /\ i = Units(A.interestAccum)
    BY <1>1, Zenon
  <2> QED
    BY <1>2, <2>1
<1>f. Flag(z) /\ p \in Nat /\ q \in Nat /\ i \in Nat
  BY <1>1, Zenon
<1> DEFINE e == [name |-> "Allocated", feePaid |-> a, interestPaid |-> b,
                 principalPaid |-> c, newDebt |-> d]
<1>e. /\ e.name = "Allocated" /\ e.feePaid = a /\ e.interestPaid = b
      /\ e.principalPaid = c /\ e.newDebt = d
  OBVIOUS
<1> HIDE DEF e
<1>5. FoldEvent(Row(p, q, i, z), e) = Row(p1, q1, i1, z)
  <2>1. Pays(e, p, q, i, p1, q1, i1)
    BY <1>4, <1>e DEF Pays
  <2> QED
    BY <2>1, <1>f, FoldAllocated
<1> QED
  BY <1>1, <1>3, <1>5, Zenon DEF e

LEMMA RowCapitalized ==
  ASSUME NEW A \in Facility, NEW F \in Facility, NEW u \in Nat,
         Units(F.interestAccum) = Units(A.interestAccum) - u,
         NEW n \in Nat, F.principal = n, F.fees = A.fees, F.frozen = A.frozen
  PROVE  FoldEvent(RowOf(A), [name |-> "Capitalized", units |-> u, newPrincipal |-> n]) = RowOf(F)
<1>1. PICK p, q, i, z :
         /\ p \in Nat /\ q \in Nat /\ i \in Nat
         /\ Flag(z) /\ RowOf(A) = Row(p, q, i, z)
         /\ p = A.principal /\ q = A.fees /\ i = Units(A.interestAccum) /\ z = A.frozen
  BY Columns
<1>2. PICK i1 \in Nat : i1 = Units(F.interestAccum)
  BY FacilityFields
<1>3. RowOf(F) = Row(n, q, i1, z)
  BY <1>1, <1>2, Zenon DEF RowOf
<1>4. i1 = i - u
  <2>1. p = A.principal /\ q = A.fees /\ i = Units(A.interestAccum)
    BY <1>1, Zenon
  <2> QED
    BY <1>2, <2>1
<1>f. Flag(z) /\ p \in Nat /\ q \in Nat /\ i \in Nat
  BY <1>1, Zenon
<1>5. FoldEvent(Row(p, q, i, z), [name |-> "Capitalized", units |-> u, newPrincipal |-> n])
        = Row(n, q, i1, z)
  BY <1>4, <1>f, FoldCapitalized
<1> QED
  BY <1>1, <1>3, <1>5, Zenon

-----------------------------------------------------------------------------
(* The mirrors: the inductive invariant *)

(* ids lists each opened facility once. *)
Listed ==
    /\ \A i, j \in DOMAIN ids : ids[i] = ids[j] => i = j
    /\ \A i \in DOMAIN ids : facility[ids[i]].exists
    /\ \A f \in Facilities : facility[f].exists => \E i \in DOMAIN ids : ids[i] = f

(* The read model's row and the reference record of a facility record. *)
Mirrored(F, row, R) ==
    /\ F.exists => row = RowOf(F)
    /\ ~F.exists => row = NoRow
    /\ F.exists /\ ~F.capitalizes => Copies(R, F)

MInv ==
    /\ IInv /\ Listed
    /\ DOMAIN proj = Facilities /\ DOMAIN ref = Facilities
    /\ \A f \in Facilities : Mirrored(facility[f], proj[f], ref[f])

LEMMA InitMInv == MirrorInit => MInv
<1> SUFFICES ASSUME MirrorInit PROVE MInv
  OBVIOUS
<1>1. IInv
  BY InitIInv DEF MirrorInit
<1>2. \A f \in Facilities : facility[f].exists = FALSE /\ proj[f] = NoRow
  BY DEF MirrorInit, Init, NoFacility
<1>3. Listed
  BY <1>2 DEF Listed, MirrorInit, Init
<1>4. \A f \in Facilities : Mirrored(facility[f], proj[f], ref[f])
  BY <1>2 DEF Mirrored
<1> QED
  BY <1>1, <1>3, <1>4 DEF MInv, MirrorInit

(* What the two mirror writes of a call do. *)
LEMMA ProjectedFacts ==
  ASSUME NEW f \in Facilities, DOMAIN proj = Facilities, NEW first, NEW second,
         Projected(f, first, second)
  PROVE  /\ DOMAIN proj' = Facilities
         /\ proj'[f] = FoldEvent(FoldEvent(proj[f], first), second)
         /\ \A g \in Facilities \ {f} : proj'[g] = proj[g]
  BY DEF Projected

LEMMA ReferencedFacts ==
  ASSUME NEW f \in Facilities, DOMAIN ref = Facilities, NEW R, Referenced(f, R)
  PROVE  /\ DOMAIN ref' = Facilities
         /\ ~facility'[f].capitalizes => ref'[f] = R
         /\ \A g \in Facilities \ {f} : ref'[g] = ref[g]
  BY DEF Referenced

(* A call that writes one opened facility keeps the invariant when its row  *)
(* and its reference record follow it.                                      *)
LEMMA OneMirror ==
  ASSUME MInv, IInv', NEW f \in Facilities, facility[f].exists,
         NEW F, facility' = [facility EXCEPT ![f] = F], F.exists, ids' = ids,
         DOMAIN proj' = Facilities, proj'[f] = RowOf(F),
         \A g \in Facilities \ {f} : proj'[g] = proj[g],
         DOMAIN ref' = Facilities, ~F.capitalizes => Copies(ref'[f], F),
         \A g \in Facilities \ {f} : ref'[g] = ref[g]
  PROVE  MInv'
<1>1. DOMAIN facility = Facilities /\ ids \in Seq(Facilities)
  BY DEF MInv, IInv, Rest
<1>2. facility'[f] = F /\ \A g \in Facilities \ {f} : facility'[g] = facility[g]
  BY <1>1
<1>3. \A g \in Facilities : facility'[g].exists <=> facility[g].exists
  BY <1>2
<1>4. Listed'
  <2>1. \A i \in DOMAIN ids : ids[i] \in Facilities
    BY <1>1
  <2> QED
    BY <1>3, <2>1 DEF MInv, Listed
<1>5. Mirrored(facility'[f], proj'[f], ref'[f])
  BY <1>2 DEF Mirrored
<1>6. \A g \in Facilities \ {f} : Mirrored(facility'[g], proj'[g], ref'[g])
  BY <1>2 DEF MInv
<1> QED
  BY <1>4, <1>5, <1>6 DEF MInv

(* What a call that accrues an opened facility may use. *)
LEMMA MirrorsAccrued ==
  ASSUME MInv, NEW f \in Facilities, facility[f].exists
  PROVE  LET F == facility[f]  A == Accrued(F, now)  Q == ReferenceAccrued(ref[f], now)
         IN  /\ now \in Nat /\ F \in Facility /\ A \in Facility /\ A.exists
             /\ A.lastAccrualAt = now /\ A.principal = F.principal
             /\ FoldEvent(proj[f], AccrualEvent(F)) = RowOf(A)
             /\ ~A.capitalizes => Copies(Q, A) /\ Q.segments = ref[f].segments
<1> DEFINE F == facility[f]
           A == Accrued(F, now)
<1>1. now \in Nat /\ F \in Facility /\ F.lastAccrualAt <= now
  BY LedgerConstants DEF MInv, IInv, Rest, Sound
<1>2. /\ A \in Facility /\ A.lastAccrualAt = now
      /\ A.exists = F.exists /\ A.capitalizes = F.capitalizes /\ A.principal = F.principal
  BY <1>1, AccruedFacts
<1>3. proj[f] = RowOf(F) /\ (~F.capitalizes => Copies(ref[f], F))
  BY DEF MInv, Mirrored
<1>4. FoldEvent(proj[f], AccrualEvent(F)) = RowOf(A)
  BY <1>1, <1>3, FoldAccrual
<1> HIDE DEF F, A
<1>5. ASSUME ~A.capitalizes
      PROVE  /\ Copies(ReferenceAccrued(ref[f], now), A)
             /\ ReferenceAccrued(ref[f], now).segments = ref[f].segments
  BY <1>1, <1>2, <1>3, <1>5, ReferenceAccruedCopies DEF A
<1> QED
  BY <1>1, <1>2, <1>4, <1>5 DEF F, A

-----------------------------------------------------------------------------
(* The mirrors: one lemma per call *)

LEMMA AccrueMInv ==
  ASSUME MInv, NEW w, NEW f \in Facilities, Accrue(w, f),
         Projected(f, AccrualEvent(facility[f]),
                      NoEvent),
         Referenced(f, ReferenceAccrued(ref[f], now))
  PROVE  MInv'
<1> DEFINE A == Accrued(facility[f], now)
           F == A
<1>0. facility[f].exists /\ ids' = ids
  BY DEF Accrue, LedgerWrite
<1>1. /\ now \in Nat /\ facility[f] \in Facility /\ A \in Facility /\ A.exists
      /\ A.lastAccrualAt = now /\ A.principal = facility[f].principal
      /\ FoldEvent(proj[f], AccrualEvent(facility[f])) = RowOf(A)
      /\ ~A.capitalizes => /\ Copies(ReferenceAccrued(ref[f], now), A)
                           /\ ReferenceAccrued(ref[f], now).segments = ref[f].segments
  BY <1>0, MirrorsAccrued
<1>2. facility' = [facility EXCEPT ![f] = F]
  BY DEF Accrue
<1>3. DOMAIN facility = Facilities /\ DOMAIN proj = Facilities /\ DOMAIN ref = Facilities
  BY DEF MInv, IInv, Rest
<1>4. facility'[f] = F
  BY <1>2, <1>3
<1>5. IInv'
  BY AccrueIInv DEF MInv
<1>6. /\ DOMAIN proj' = Facilities
      /\ proj'[f] = FoldEvent(FoldEvent(proj[f], AccrualEvent(facility[f])), NoEvent)
      /\ \A g \in Facilities \ {f} : proj'[g] = proj[g]
  BY <1>3, ProjectedFacts
<1>7. /\ DOMAIN ref' = Facilities
      /\ ~facility'[f].capitalizes => ref'[f] = ReferenceAccrued(ref[f], now)
      /\ \A g \in Facilities \ {f} : ref'[g] = ref[g]
  BY <1>3, ReferencedFacts
<1> HIDE DEF A
<1>8. F.exists
  BY <1>1
<1> HIDE DEF F
<1>9. proj'[f] = RowOf(F)
  BY <1>1, <1>6, FoldNone DEF F
<1>10. ~F.capitalizes => Copies(ref'[f], F)
  BY <1>1, <1>4, <1>7 DEF F
<1> QED
  BY <1>0, <1>2, <1>5, <1>6, <1>7, <1>8, <1>9, <1>10, OneMirror

LEMMA SetRateMInv ==
  ASSUME MInv, NEW w, NEW f \in Facilities, NEW rate \in Rates, SetRate(w, f, rate),
         Projected(f, AccrualEvent(facility[f]),
                      NoEvent),
         Referenced(f, ReferenceRate(ref[f], now, rate))
  PROVE  MInv'
<1> DEFINE A == Accrued(facility[f], now)
           F == [A EXCEPT !.rateBps = rate, !.segments = AppendRate(A.segments, now, rate)]
<1>0. facility[f].exists /\ ids' = ids
  BY DEF SetRate, LedgerWrite
<1>1. /\ now \in Nat /\ facility[f] \in Facility /\ A \in Facility /\ A.exists
      /\ A.lastAccrualAt = now /\ A.principal = facility[f].principal
      /\ FoldEvent(proj[f], AccrualEvent(facility[f])) = RowOf(A)
      /\ ~A.capitalizes => /\ Copies(ReferenceAccrued(ref[f], now), A)
                           /\ ReferenceAccrued(ref[f], now).segments = ref[f].segments
  BY <1>0, MirrorsAccrued
<1>2. facility' = [facility EXCEPT ![f] = F]
  BY DEF SetRate
<1>3. DOMAIN facility = Facilities /\ DOMAIN proj = Facilities /\ DOMAIN ref = Facilities
  BY DEF MInv, IInv, Rest
<1>4. facility'[f] = F
  BY <1>2, <1>3
<1>5. IInv'
  BY SetRateIInv DEF MInv
<1>6. /\ DOMAIN proj' = Facilities
      /\ proj'[f] = FoldEvent(FoldEvent(proj[f], AccrualEvent(facility[f])), NoEvent)
      /\ \A g \in Facilities \ {f} : proj'[g] = proj[g]
  BY <1>3, ProjectedFacts
<1>7. /\ DOMAIN ref' = Facilities
      /\ ~facility'[f].capitalizes => ref'[f] = ReferenceRate(ref[f], now, rate)
      /\ \A g \in Facilities \ {f} : ref'[g] = ref[g]
  BY <1>3, ReferencedFacts
<1> HIDE DEF A
<1>8. /\ F.exists /\ F.rateBps = rate /\ F.capitalizes = A.capitalizes
      /\ F.principal = A.principal /\ F.fees = A.fees /\ F.interestAccum = A.interestAccum
      /\ F.lastAccrualAt = A.lastAccrualAt /\ F.frozen = A.frozen
  BY <1>1 DEF Facility
<1> HIDE DEF F
<1>9. proj'[f] = RowOf(F)
  <2>1. RowOf(F) = RowOf(A)
    BY <1>8, Zenon DEF RowOf
  <2> QED
    BY <1>1, <1>6, <2>1, FoldNone
<1>10. ~F.capitalizes => Copies(ref'[f], F)
  BY <1>1, <1>4, <1>7, <1>8, RateCopies
<1> QED
  BY <1>0, <1>2, <1>5, <1>6, <1>7, <1>8, <1>9, <1>10, OneMirror

LEMMA RecordDrawMInv ==
  ASSUME MInv, NEW w, NEW f \in Facilities, NEW a \in Amounts, RecordDraw(w, f, a),
         Projected(f, AccrualEvent(facility[f]),
                      DrawnEvent(facility[f], a)),
         Referenced(f, ReferenceBorrow(ref[f], now, a))
  PROVE  MInv'
<1> DEFINE A == Accrued(facility[f], now)
           F == [A EXCEPT !.principal = A.principal + a]
<1>0. facility[f].exists /\ ids' = ids
  BY DEF RecordDraw, LedgerWrite
<1>1. /\ now \in Nat /\ facility[f] \in Facility /\ A \in Facility /\ A.exists
      /\ A.lastAccrualAt = now /\ A.principal = facility[f].principal
      /\ FoldEvent(proj[f], AccrualEvent(facility[f])) = RowOf(A)
      /\ ~A.capitalizes => /\ Copies(ReferenceAccrued(ref[f], now), A)
                           /\ ReferenceAccrued(ref[f], now).segments = ref[f].segments
  BY <1>0, MirrorsAccrued
<1>2. facility' = [facility EXCEPT ![f] = F]
  BY DEF RecordDraw
<1>3. DOMAIN facility = Facilities /\ DOMAIN proj = Facilities /\ DOMAIN ref = Facilities
  BY DEF MInv, IInv, Rest
<1>4. facility'[f] = F
  BY <1>2, <1>3
<1>5. IInv'
  BY RecordDrawIInv DEF MInv
<1>6. /\ DOMAIN proj' = Facilities
      /\ proj'[f] = FoldEvent(FoldEvent(proj[f], AccrualEvent(facility[f])), DrawnEvent(facility[f], a))
      /\ \A g \in Facilities \ {f} : proj'[g] = proj[g]
  BY <1>3, ProjectedFacts
<1>7. /\ DOMAIN ref' = Facilities
      /\ ~facility'[f].capitalizes => ref'[f] = ReferenceBorrow(ref[f], now, a)
      /\ \A g \in Facilities \ {f} : ref'[g] = ref[g]
  BY <1>3, ReferencedFacts
<1> HIDE DEF A
<1>n. PICK n \in Nat : n = A.principal + a /\ a \in Nat
  BY <1>1, LedgerConstants, FacilityFields
<1>8. /\ F \in Facility /\ F.exists /\ F.capitalizes = A.capitalizes /\ F.principal = n
      /\ F.fees = A.fees /\ F.interestAccum = A.interestAccum
      /\ F.lastAccrualAt = A.lastAccrualAt /\ F.frozen = A.frozen /\ F.rateBps = A.rateBps
  BY <1>1, <1>n DEF Facility
<1> HIDE DEF F
<1>9. proj'[f] = RowOf(F)
  <2>1. DrawnEvent(facility[f], a) = [name |-> "Drawn", newPrincipal |-> n]
    BY <1>1, <1>n DEF DrawnEvent
  <2>2. FoldEvent(RowOf(A), [name |-> "Drawn", newPrincipal |-> n]) = RowOf(F)
    BY <1>1, <1>8, RowDrawn
  <2> QED
    BY <1>1, <1>6, <2>1, <2>2, Zenon
<1>10. ~F.capitalizes => Copies(ref'[f], F)
  BY <1>1, <1>4, <1>7, <1>8, <1>n, BorrowCopies
<1> QED
  BY <1>0, <1>2, <1>5, <1>6, <1>7, <1>8, <1>9, <1>10, OneMirror

LEMMA RecordFeeMInv ==
  ASSUME MInv, NEW w, NEW f \in Facilities, NEW a \in Amounts, RecordFee(w, f, a),
         Projected(f, AccrualEvent(facility[f]),
                      [name |-> "FeeCharged", amount |-> a]),
         Referenced(f, ReferenceFee(ref[f], now, a))
  PROVE  MInv'
<1> DEFINE A == Accrued(facility[f], now)
           F == [A EXCEPT !.fees = A.fees + a]
<1>0. facility[f].exists /\ ids' = ids
  BY DEF RecordFee, LedgerWrite
<1>1. /\ now \in Nat /\ facility[f] \in Facility /\ A \in Facility /\ A.exists
      /\ A.lastAccrualAt = now /\ A.principal = facility[f].principal
      /\ FoldEvent(proj[f], AccrualEvent(facility[f])) = RowOf(A)
      /\ ~A.capitalizes => /\ Copies(ReferenceAccrued(ref[f], now), A)
                           /\ ReferenceAccrued(ref[f], now).segments = ref[f].segments
  BY <1>0, MirrorsAccrued
<1>2. facility' = [facility EXCEPT ![f] = F]
  BY DEF RecordFee
<1>3. DOMAIN facility = Facilities /\ DOMAIN proj = Facilities /\ DOMAIN ref = Facilities
  BY DEF MInv, IInv, Rest
<1>4. facility'[f] = F
  BY <1>2, <1>3
<1>5. IInv'
  BY RecordFeeIInv DEF MInv
<1>6. /\ DOMAIN proj' = Facilities
      /\ proj'[f] = FoldEvent(FoldEvent(proj[f], AccrualEvent(facility[f])),
                              [name |-> "FeeCharged", amount |-> a])
      /\ \A g \in Facilities \ {f} : proj'[g] = proj[g]
  BY <1>3, ProjectedFacts
<1>7. /\ DOMAIN ref' = Facilities
      /\ ~facility'[f].capitalizes => ref'[f] = ReferenceFee(ref[f], now, a)
      /\ \A g \in Facilities \ {f} : ref'[g] = ref[g]
  BY <1>3, ReferencedFacts
<1> HIDE DEF A
<1>n. PICK n \in Nat : n = A.fees + a /\ a \in Nat
  BY <1>1, LedgerConstants, FacilityFields
<1>8. /\ F \in Facility /\ F.exists /\ F.capitalizes = A.capitalizes /\ F.fees = A.fees + a
      /\ F.principal = A.principal /\ F.interestAccum = A.interestAccum
      /\ F.lastAccrualAt = A.lastAccrualAt /\ F.frozen = A.frozen /\ F.rateBps = A.rateBps
  BY <1>1, <1>n DEF Facility
<1> HIDE DEF F
<1>9. proj'[f] = RowOf(F)
  <2>1. FoldEvent(RowOf(A), [name |-> "FeeCharged", amount |-> a]) = RowOf(F)
    BY <1>1, <1>8, <1>n, RowCharged
  <2> QED
    BY <1>1, <1>6, <2>1, Zenon
<1>10. ~F.capitalizes => Copies(ref'[f], F)
  BY <1>1, <1>4, <1>7, <1>8, <1>n, FeeCopies
<1> QED
  BY <1>0, <1>2, <1>5, <1>6, <1>7, <1>8, <1>9, <1>10, OneMirror

LEMMA FreezeAccrualMInv ==
  ASSUME MInv, NEW w, NEW f \in Facilities, FreezeAccrual(w, f),
         Projected(f, AccrualEvent(facility[f]),
                      [name |-> "AccrualFrozen"]),
         Referenced(f, ReferenceFrozen(ref[f], now))
  PROVE  MInv'
<1> DEFINE A == Accrued(facility[f], now)
           F == [A EXCEPT !.frozen = TRUE]
<1>0. facility[f].exists /\ ids' = ids
  BY DEF FreezeAccrual, LedgerWrite
<1>1. /\ now \in Nat /\ facility[f] \in Facility /\ A \in Facility /\ A.exists
      /\ A.lastAccrualAt = now /\ A.principal = facility[f].principal
      /\ FoldEvent(proj[f], AccrualEvent(facility[f])) = RowOf(A)
      /\ ~A.capitalizes => /\ Copies(ReferenceAccrued(ref[f], now), A)
                           /\ ReferenceAccrued(ref[f], now).segments = ref[f].segments
  BY <1>0, MirrorsAccrued
<1>2. facility' = [facility EXCEPT ![f] = F]
  BY DEF FreezeAccrual
<1>3. DOMAIN facility = Facilities /\ DOMAIN proj = Facilities /\ DOMAIN ref = Facilities
  BY DEF MInv, IInv, Rest
<1>4. facility'[f] = F
  BY <1>2, <1>3
<1>5. IInv'
  BY FreezeAccrualIInv DEF MInv
<1>6. /\ DOMAIN proj' = Facilities
      /\ proj'[f] = FoldEvent(FoldEvent(proj[f], AccrualEvent(facility[f])), [name |-> "AccrualFrozen"])
      /\ \A g \in Facilities \ {f} : proj'[g] = proj[g]
  BY <1>3, ProjectedFacts
<1>7. /\ DOMAIN ref' = Facilities
      /\ ~facility'[f].capitalizes => ref'[f] = ReferenceFrozen(ref[f], now)
      /\ \A g \in Facilities \ {f} : ref'[g] = ref[g]
  BY <1>3, ReferencedFacts
<1> HIDE DEF A
<1>8. /\ F \in Facility /\ F.exists /\ F.capitalizes = A.capitalizes /\ F.fees = A.fees
      /\ F.principal = A.principal /\ F.interestAccum = A.interestAccum
      /\ F.lastAccrualAt = A.lastAccrualAt /\ F.frozen = TRUE /\ F.rateBps = A.rateBps
  BY <1>1 DEF Facility
<1> HIDE DEF F
<1>9. proj'[f] = RowOf(F)
  <2>1. FoldEvent(RowOf(A), [name |-> "AccrualFrozen"]) = RowOf(F)
    BY <1>1, <1>8, RowFrozen
  <2> QED
    BY <1>1, <1>6, <2>1, Zenon
<1>10. ~F.capitalizes => Copies(ref'[f], F)
  <2>1. Raised(F.frozen)
    BY <1>8, Zenon DEF Raised
  <2> QED
    BY <1>1, <1>4, <1>7, <1>8, <2>1, FrozenCopies
<1> QED
  BY <1>0, <1>2, <1>5, <1>6, <1>7, <1>8, <1>9, <1>10, OneMirror

LEMMA AllocateMInv ==
  ASSUME MInv, NEW w, NEW f \in Facilities, NEW a \in Amounts, Allocate(w, f, a),
         Projected(f, AccrualEvent(facility[f]),
                      AllocatedEvent(facility[f], a)),
         Referenced(f, ReferenceRepaid(ref[f], now, a))
  PROVE  MInv'
<1> DEFINE A == Accrued(facility[f], now)
           r == Waterfall(A, a)
           F == Allocated(A, r)
<1>0. facility[f].exists /\ ids' = ids
  BY DEF Allocate, LedgerWrite
<1>1. /\ now \in Nat /\ facility[f] \in Facility /\ A \in Facility /\ A.exists
      /\ A.lastAccrualAt = now /\ A.principal = facility[f].principal
      /\ FoldEvent(proj[f], AccrualEvent(facility[f])) = RowOf(A)
      /\ ~A.capitalizes => /\ Copies(ReferenceAccrued(ref[f], now), A)
                           /\ ReferenceAccrued(ref[f], now).segments = ref[f].segments
  BY <1>0, MirrorsAccrued
<1>2. facility' = [facility EXCEPT ![f] = F]
  BY DEF Allocate
<1>3. DOMAIN facility = Facilities /\ DOMAIN proj = Facilities /\ DOMAIN ref = Facilities
  BY DEF MInv, IInv, Rest
<1>4. facility'[f] = F
  BY <1>2, <1>3
<1>5. IInv'
  BY AllocateIInv DEF MInv
<1>6. /\ DOMAIN proj' = Facilities
      /\ proj'[f] = FoldEvent(FoldEvent(proj[f], AccrualEvent(facility[f])), AllocatedEvent(facility[f], a))
      /\ \A g \in Facilities \ {f} : proj'[g] = proj[g]
  BY <1>3, ProjectedFacts
<1>7. /\ DOMAIN ref' = Facilities
      /\ ~facility'[f].capitalizes => ref'[f] = ReferenceRepaid(ref[f], now, a)
      /\ \A g \in Facilities \ {f} : ref'[g] = ref[g]
  BY <1>3, ReferencedFacts
<1> HIDE DEF A
<1>n. a \in Nat /\ Denom \in Nat \ {0}
  BY LedgerConstants
<1>8. /\ F \in Facility /\ F.exists /\ F.capitalizes = A.capitalizes /\ F.fees = A.fees - r.feePaid
      /\ F.principal = A.principal - r.principalPaid
      /\ F.interestAccum = A.interestAccum - ToAccum(r.interestPaid)
      /\ F.lastAccrualAt = A.lastAccrualAt /\ F.frozen = A.frozen /\ F.rateBps = A.rateBps
  BY <1>1, <1>n, AllocatedFacts
<1> HIDE DEF F
<1>9. proj'[f] = RowOf(F)
  <2>1. /\ r.feePaid \in 0 .. A.fees /\ r.interestPaid \in 0 .. Units(A.interestAccum)
        /\ r.principalPaid \in 0 .. A.principal
    BY <1>1, <1>n, WaterfallFacts
  <2>2. PICK x \in Nat, y \in Nat, z \in Nat : x = r.feePaid /\ y = r.interestPaid /\ z = r.principalPaid
    BY <1>1, <2>1, FacilityFields
  <2>3. Units(F.interestAccum) = Units(A.interestAccum) - y
    <3>1. /\ F.interestAccum \in Nat /\ A.interestAccum \in Nat
          /\ F.interestAccum = A.interestAccum - ToAccum(y)
      BY <1>1, <1>8, <2>2, FacilityFields
    <3> QED
      BY <2>2, <3>1, UnitsShift
  <2>4. PICK d : d = F.principal + F.fees + Units(F.interestAccum)
    OBVIOUS
  <2>5. LegalDebtAt(F, now) = d
    <3>1. Pending(F, now) = 0
      BY <1>1, <1>8 DEF Pending
    <3>2. F.interestAccum + 0 = F.interestAccum
      BY <1>8, FacilityFields
    <3> QED
      BY <2>4, <3>1, <3>2 DEF LegalDebtAt, UnpaidInterestAt
  <2>6. AllocatedEvent(facility[f], a)
          = [name |-> "Allocated", feePaid |-> x, interestPaid |-> y, principalPaid |-> z, newDebt |-> d]
    BY <2>2, <2>5 DEF AllocatedEvent, A, F
  <2> HIDE DEF r
  <2>7. FoldEvent(RowOf(A), [name |-> "Allocated", feePaid |-> x, interestPaid |-> y,
                             principalPaid |-> z, newDebt |-> d]) = RowOf(F)
    BY <1>1, <1>8, <2>2, <2>3, <2>4, RowAllocated
  <2> QED
    BY <1>1, <1>6, <2>6, <2>7, Zenon
<1>10. ~F.capitalizes => Copies(ref'[f], F)
  <2> SUFFICES ASSUME ~F.capitalizes PROVE Copies(ref'[f], F)
    OBVIOUS
  <2>1. Copies(ReferenceAccrued(ref[f], now), A)
    BY <1>1, <1>8
  <2>2. Copies(ReferenceRepaid(ref[f], now, a), Allocated(A, Waterfall(A, a)))
    BY <1>1, <1>n, <2>1, RepaidCopies
  <2>3. ref'[f] = ReferenceRepaid(ref[f], now, a)
    BY <1>4, <1>7
  <2> QED
    BY <2>2, <2>3 DEF F
<1> QED
  BY <1>0, <1>2, <1>5, <1>6, <1>7, <1>8, <1>9, <1>10, OneMirror

LEMMA CapitalizeMInv ==
  ASSUME MInv, NEW w, NEW f \in Facilities, Capitalize(w, f),
         Projected(f, AccrualEvent(facility[f]),
                      CapitalizedEvent(facility[f])),
         UNCHANGED ref
  PROVE  MInv'
<1> DEFINE A == Accrued(facility[f], now)
           u == Units(A.interestAccum)
           F == [A EXCEPT !.interestAccum = A.interestAccum - ToAccum(u), !.principal = A.principal + u]
<1>0. facility[f].exists /\ ids' = ids
  BY DEF Capitalize, LedgerWrite
<1>1. /\ now \in Nat /\ facility[f] \in Facility /\ A \in Facility /\ A.exists
      /\ A.lastAccrualAt = now /\ A.principal = facility[f].principal
      /\ FoldEvent(proj[f], AccrualEvent(facility[f])) = RowOf(A)
      /\ ~A.capitalizes => /\ Copies(ReferenceAccrued(ref[f], now), A)
                           /\ ReferenceAccrued(ref[f], now).segments = ref[f].segments
  BY <1>0, MirrorsAccrued
<1>2. facility' = [facility EXCEPT ![f] = F]
  BY DEF Capitalize
<1>3. DOMAIN facility = Facilities /\ DOMAIN proj = Facilities /\ DOMAIN ref = Facilities
  BY DEF MInv, IInv, Rest
<1>4. facility'[f] = F
  BY <1>2, <1>3
<1>5. IInv'
  BY CapitalizeIInv DEF MInv
<1>6. /\ DOMAIN proj' = Facilities
      /\ proj'[f] = FoldEvent(FoldEvent(proj[f], AccrualEvent(facility[f])), CapitalizedEvent(facility[f]))
      /\ \A g \in Facilities \ {f} : proj'[g] = proj[g]
  BY <1>3, ProjectedFacts
<1>7. /\ DOMAIN ref' = Facilities
      /\ ref'[f] = ref[f]
      /\ \A g \in Facilities \ {f} : ref'[g] = ref[g]
  BY <1>3
<1> HIDE DEF A
<1>c. A.capitalizes
  BY DEF Capitalize, A
<1>e. CapitalizedEvent(facility[f])
        = IF u = 0 THEN NoEvent
          ELSE [name |-> "Capitalized", units |-> u, newPrincipal |-> A.principal + u]
  BY <1>1 DEF CapitalizedEvent, A
<1>k. Denom \in Nat \ {0} /\ A.interestAccum \in Nat /\ A.principal \in Nat /\ u \in Nat
  BY <1>1, LedgerConstants, FacilityFields
<1>m. A.interestAccum - ToAccum(u) \in Nat
  BY <1>k, UnitsNat
<1>q. Units(A.interestAccum - ToAccum(u)) = Units(A.interestAccum) - u
  BY <1>k, <1>m, UnitsShift
<1> HIDE DEF u
<1>n. PICK n \in Nat, m \in Nat : n = A.principal + u /\ m = A.interestAccum - ToAccum(u)
  BY <1>k, <1>m
<1>8. /\ F \in Facility /\ F.exists /\ F.capitalizes = A.capitalizes /\ F.fees = A.fees
      /\ F.principal = n /\ F.interestAccum = m /\ F.frozen = A.frozen
  BY <1>1, <1>n DEF Facility
<1> HIDE DEF F
<1>9. proj'[f] = RowOf(F)
  <2>1. CASE u = 0
    <3>1. n = A.principal /\ m = A.interestAccum
      BY <1>k, <1>n, <2>1 DEF ToAccum
    <3>2. RowOf(F) = RowOf(A)
      BY <1>8, <3>1, Zenon DEF RowOf
    <3> QED
      BY <1>1, <1>6, <1>e, <2>1, <3>2, FoldNone
  <2>2. CASE u # 0
    <3>1. CapitalizedEvent(facility[f]) = [name |-> "Capitalized", units |-> u, newPrincipal |-> n]
      BY <1>e, <1>n, <2>2
    <3>2. Units(F.interestAccum) = Units(A.interestAccum) - u
      BY <1>8, <1>n, <1>q
    <3>3. FoldEvent(RowOf(A), [name |-> "Capitalized", units |-> u, newPrincipal |-> n]) = RowOf(F)
      BY <1>1, <1>8, <1>k, <3>2, RowCapitalized
    <3> QED
      BY <1>1, <1>6, <3>1, <3>3, Zenon
  <2> QED
    BY <2>1, <2>2
<1>10. ~F.capitalizes => Copies(ref'[f], F)
  BY <1>8, <1>c
<1> QED
  BY <1>0, <1>2, <1>5, <1>6, <1>7, <1>8, <1>9, <1>10, OneMirror

LEMMA SetStateMInv ==
  ASSUME MInv, NEW w, NEW f \in Facilities, NEW s \in States, SetState(w, f, s),
         Projected(f, [name |-> "StateSet"], NoEvent), UNCHANGED ref
  PROVE  MInv'
<1> DEFINE A == facility[f]
           F == [A EXCEPT !.state = s]
<1>0. facility[f].exists /\ ids' = ids
  BY DEF SetState, LedgerWrite
<1>1. A \in Facility /\ proj[f] = RowOf(A) /\ (~A.capitalizes => Copies(ref[f], A))
  BY <1>0 DEF MInv, IInv, Rest, Mirrored
<1>2. facility' = [facility EXCEPT ![f] = F]
  BY DEF SetState
<1>3. DOMAIN facility = Facilities /\ DOMAIN proj = Facilities /\ DOMAIN ref = Facilities
  BY DEF MInv, IInv, Rest
<1>5. IInv'
  BY SetStateIInv DEF MInv
<1>6. /\ DOMAIN proj' = Facilities
      /\ proj'[f] = FoldEvent(FoldEvent(proj[f], [name |-> "StateSet"]), NoEvent)
      /\ \A g \in Facilities \ {f} : proj'[g] = proj[g]
  BY <1>3, ProjectedFacts
<1>e. A.exists
  BY <1>0
<1> HIDE DEF A
<1>8. /\ F \in Facility /\ F.exists /\ F.capitalizes = A.capitalizes /\ F.fees = A.fees
      /\ F.principal = A.principal /\ F.interestAccum = A.interestAccum
      /\ F.lastAccrualAt = A.lastAccrualAt /\ F.frozen = A.frozen /\ F.rateBps = A.rateBps
  BY <1>1, <1>e DEF Facility
<1> HIDE DEF F
<1>9. proj'[f] = RowOf(F)
  <2>1. FoldEvent(RowOf(A), [name |-> "StateSet"]) = RowOf(F)
    BY <1>1, <1>8, RowStateSet
  <2> QED
    BY <1>1, <1>6, <2>1, FoldNone, Zenon
<1>10. ~F.capitalizes => Copies(ref'[f], F)
  BY <1>1, <1>8 DEF Copies
<1> QED
  BY <1>0, <1>2, <1>3, <1>5, <1>6, <1>8, <1>9, <1>10, OneMirror

LEMMA OpenMInv ==
  ASSUME MInv, NEW w, NEW f \in Facilities, NEW rate \in Rates, NEW c \in BOOLEAN, NEW m,
         Open(w, f, rate, c, m), Projected(f, [name |-> "FacilityOpened"], NoEvent),
         Referenced(f, [NoReference EXCEPT !.last = now, !.segments = [start \in {now} |-> rate]])
  PROVE  MInv'
<1> DEFINE F == [NoFacility EXCEPT !.exists = TRUE, !.capitalizes = c,
                     !.rateBps = rate, !.lastAccrualAt = now,
                     !.segments = <<[start |-> now, rateBps |-> rate]>>]
           R == [NoReference EXCEPT !.last = now, !.segments = [start \in {now} |-> rate]]
<1>0. ~facility[f].exists /\ ids' = Append(ids, f) /\ facility' = [facility EXCEPT ![f] = F]
  BY DEF Open
<1>1. now \in Nat /\ proj[f] = NoRow /\ ids \in Seq(Facilities)
  BY <1>0, LedgerConstants DEF MInv, IInv, Rest, Mirrored
<1>3. DOMAIN facility = Facilities /\ DOMAIN proj = Facilities /\ DOMAIN ref = Facilities
  BY DEF MInv, IInv, Rest
<1>4. facility'[f] = F /\ \A g \in Facilities \ {f} : facility'[g] = facility[g]
  BY <1>0, <1>3
<1>5. IInv'
  BY OpenIInv DEF MInv
<1>6. /\ DOMAIN proj' = Facilities
      /\ proj'[f] = FoldEvent(FoldEvent(proj[f], [name |-> "FacilityOpened"]), NoEvent)
      /\ \A g \in Facilities \ {f} : proj'[g] = proj[g]
  BY <1>3, ProjectedFacts
<1>7. /\ DOMAIN ref' = Facilities
      /\ ~facility'[f].capitalizes => ref'[f] = R
      /\ \A g \in Facilities \ {f} : ref'[g] = ref[g]
  BY <1>3, ReferencedFacts
<1>8. /\ F.exists /\ F.principal = 0 /\ F.fees = 0 /\ F.interestAccum = 0
      /\ F.lastAccrualAt = now /\ F.frozen = FALSE /\ F.rateBps = rate
  BY DEF NoFacility
<1> HIDE DEF F
<1>9. proj'[f] = RowOf(F)
  <2>1. Units(0) = 0
    BY LedgerConstants DEF Units
  <2>2. RowOf(F) = Row(0, 0, 0, FALSE)
    BY <1>8, <2>1, Zenon DEF RowOf
  <2> QED
    BY <1>1, <1>6, <2>2, FoldOpened, FoldNone, Zenon
<1>10. Copies(R, F)
  BY <1>1, <1>8, OpenCopies
<1> HIDE DEF R
<1>11. Mirrored(facility'[f], proj'[f], ref'[f])
  BY <1>4, <1>7, <1>8, <1>9, <1>10 DEF Mirrored
<1>12. \A g \in Facilities \ {f} : Mirrored(facility'[g], proj'[g], ref'[g])
  BY <1>4, <1>6, <1>7 DEF MInv
<1>13. Listed'
  <2>1. /\ \A i, j \in DOMAIN ids : ids[i] = ids[j] => i = j
        /\ \A i \in DOMAIN ids : facility[ids[i]].exists
        /\ \A g \in Facilities : facility[g].exists => \E i \in DOMAIN ids : ids[i] = g
    BY DEF MInv, Listed
  <2>2. PICK n \in Nat : n = Len(ids)
    BY <1>1
  <2>3. DOMAIN ids = 1 .. n /\ \A i \in 1 .. n : ids[i] \in Facilities
    BY <1>1, <2>2
  <2>4. PICK new : new = Append(ids, f)
    OBVIOUS
  <2>5. DOMAIN new = 1 .. n + 1 /\ new[n + 1] = f /\ \A i \in 1 .. n : new[i] = ids[i]
    BY <1>1, <2>2, <2>4
  <2>6. \A i \in 1 .. n : ids[i] # f
    BY <1>0, <2>1, <2>3
  <2>7. \A i, j \in DOMAIN new : new[i] = new[j] => i = j
    <3> SUFFICES ASSUME NEW i \in 1 .. n + 1, NEW j \in 1 .. n + 1, new[i] = new[j]
                 PROVE  i = j
      BY <2>5
    <3>1. CASE i \in 1 .. n /\ j \in 1 .. n
      BY <2>1, <2>3, <2>5, <3>1
    <3>2. CASE i = n + 1 \/ j = n + 1
      BY <2>5, <2>6, <3>2
    <3> QED
      BY <3>1, <3>2
  <2>8. \A i \in DOMAIN new : facility'[new[i]].exists
    <3> SUFFICES ASSUME NEW i \in 1 .. n + 1 PROVE facility'[new[i]].exists
      BY <2>5
    <3>1. CASE i \in 1 .. n
      BY <1>4, <2>1, <2>3, <2>5, <2>6, <3>1
    <3>2. CASE i = n + 1
      BY <1>4, <1>8, <2>5, <3>2
    <3> QED
      BY <3>1, <3>2
  <2>9. \A g \in Facilities : facility'[g].exists => \E i \in DOMAIN new : new[i] = g
    <3> SUFFICES ASSUME NEW g \in Facilities, facility'[g].exists
                 PROVE  \E i \in 1 .. n + 1 : new[i] = g
      BY <2>5
    <3>1. CASE g = f
      <4>1. n + 1 \in 1 .. n + 1
        OBVIOUS
      <4> QED
        BY <2>5, <3>1, <4>1
    <3>2. CASE g # f
      <4>1. PICK i \in 1 .. n : ids[i] = g
        BY <1>4, <2>1, <2>3, <3>2
      <4>2. i \in 1 .. n + 1 /\ new[i] = g
        BY <2>5, <4>1
      <4> QED
        BY <4>2
    <3> QED
      BY <3>1, <3>2
  <2> QED
    BY <1>0, <2>4, <2>7, <2>8, <2>9 DEF Listed
<1> QED
  BY <1>5, <1>6, <1>7, <1>11, <1>12, <1>13 DEF MInv

LEMMA QuietMInv ==
  ASSUME MInv, IInv', UNCHANGED <<facility, ids, proj, ref>>
  PROVE  MInv'
<1>1. Listed'
  BY DEF MInv, Listed
<1>2. \A f \in Facilities : Mirrored(facility'[f], proj'[f], ref'[f])
  BY DEF MInv
<1> QED
  BY <1>1, <1>2 DEF MInv

LEMMA MirrorSteps == MirrorNext => Next
  BY DEF MirrorNext, Next

LEMMA NextMInv == MInv /\ [MirrorNext]_mirrorVars => MInv'
<1> SUFFICES ASSUME MInv, [MirrorNext]_mirrorVars PROVE MInv'
  OBVIOUS
<1>1. IInv'
  <2>1. [Next]_vars
    BY MirrorSteps DEF mirrorVars
  <2> QED
    BY <2>1, NextIInv DEF MInv
<1>2. CASE UNCHANGED mirrorVars
  BY <1>1, <1>2, QuietMInv DEF mirrorVars, vars
<1>3. ASSUME \/ \E w \in Accounts, enabled \in BOOLEAN : SetWriter(w, enabled)
             \/ FinalizeWiring
             \/ \E elapsed \in 1 .. MaxTime : Tick(elapsed),
             UNCHANGED <<proj, ref>>
      PROVE  MInv'
  BY <1>1, <1>3, QuietMInv DEF SetWriter, FinalizeWiring, Tick
<1> QED
  BY <1>2, <1>3, OpenMInv, SetStateMInv, AccrueMInv, SetRateMInv, RecordDrawMInv, RecordFeeMInv,
     AllocateMInv, FreezeAccrualMInv, CapitalizeMInv DEF MirrorNext

-----------------------------------------------------------------------------
(* The mirrors: what they agree on *)

LEMMA TotalFollows == MInv => TotalDebtConservation
<1> SUFFICES ASSUME MInv PROVE TotalDebtConservation
  OBVIOUS
<1> DEFINE d == [f \in Facilities |-> LegalDebtAt(facility[f], now)]
           S == DOMAIN ids
<1>0. /\ now \in Nat /\ ids \in Seq(Facilities)
      /\ \A f \in Facilities : Sound(facility[f], hist[f], now)
  BY LedgerConstants DEF MInv, IInv, Rest
<1>1. IsFiniteSet(S) /\ \A i \in S : ids[i] \in Facilities
  <2>1. PICK n \in Nat : n = Len(ids)
    BY <1>0
  <2>2. S = 1 .. n /\ 1 \in Int /\ n \in Int
    BY <1>0, <2>1
  <2>3. IsFiniteSet(1 .. n)
    BY <2>2, FS_Interval
  <2> QED
    BY <1>0, <2>2, <2>3
<1>2. \A f \in Facilities : d[f] \in Int
  <2> SUFFICES ASSUME NEW f \in Facilities PROVE LegalDebtAt(facility[f], now) \in Int
    OBVIOUS
  <2>1. facility[f] \in Facility /\ facility[f].lastAccrualAt <= now
    BY <1>0 DEF Sound
  <2>2. Accrued(facility[f], now) \in Facility
    BY <1>0, <2>1, AccruedFacts
  <2>3. Units(Accrued(facility[f], now).interestAccum) \in Nat
    BY <2>2, FacilityFields
  <2> QED
    BY <1>0, <2>1, <2>3, FacilityFields, LegalDebtFacts
<1>3. ASSUME NEW f \in Facilities, \A i \in S : ids[i] # f
      PROVE  d[f] = 0
  <2>1. ~facility[f].exists
    BY <1>3 DEF MInv, Listed
  <2>2. facility[f] = NoFacility
    BY <1>0, <2>1 DEF Sound
  <2>3. LegalDebtAt(NoFacility, now) = 0
    BY LedgerConstants DEF LegalDebtAt, UnpaidInterestAt, Pending, Accrues, NoFacility, Units
  <2> QED
    BY <2>2, <2>3
<1>4. \A i, j \in S : ids[i] = ids[j] => i = j
  BY DEF MInv, Listed
<1>5. SumFunctionOnSet([i \in S |-> d[ids[i]]], S) = SumFunctionOnSet(d, Facilities)
  <2> HIDE DEF S, d
  <2> QED
    BY <1>1, <1>2, <1>3, <1>4, SumAlong, LedgerConstants
<1>6. [i \in S |-> d[ids[i]]] = [i \in S |-> LegalDebtAt(facility[ids[i]], now)]
  BY <1>1
<1>7. d = [f \in Facilities |-> hist[f].drawn + hist[f].charged + Units(hist[f].owed) - hist[f].applied]
  BY DebtFollows DEF MInv, DebtConservation
<1> QED
  BY <1>5, <1>6, <1>7 DEF TotalDebtConservation, TotalLegalDebtAt

LEMMA UnitsGrow ==
  ASSUME NEW a \in Nat, NEW b \in Nat, a <= b
  PROVE  Units(a) <= Units(b)
<1>1. Denom \in Nat \ {0}
  BY LedgerConstants
<1> DEFINE x == a \div Denom
           y == b \div Denom
<1>2. x \in Int /\ x * Denom <= a
  BY <1>1
<1>3. y \in Int /\ b < (y + 1) * Denom
  BY <1>1
<1> HIDE DEF x, y
<1>4. CASE x > y
  <2>1. x >= y + 1
    BY <1>2, <1>3, <1>4
  <2>2. x * Denom >= (y + 1) * Denom
    BY <1>1, <1>2, <1>3, <2>1
  <2> QED
    BY <1>1, <1>2, <1>3, <2>2
<1> QED
  BY <1>2, <1>3, <1>4 DEF Units, x, y

LEMMA ProjectionFollows == MInv => ProjectionReconciles
<1> SUFFICES ASSUME MInv, NEW f \in Facilities, facility[f].exists
             PROVE  LET F == facility[f]
                        p == proj[f]
                    IN  /\ p.known /\ p.sound
                        /\ p.principal = F.principal
                        /\ p.fees = F.fees
                        /\ p.frozen = F.frozen
                        /\ p.principal + p.fees + p.interest = LegalDebtAt(F, F.lastAccrualAt)
                        /\ p.interest <= UnpaidInterestAt(F, now)
  BY DEF ProjectionReconciles
<1> DEFINE F == facility[f]
           p == proj[f]
<1>1. now \in Nat /\ F \in Facility /\ F.lastAccrualAt <= now /\ p = RowOf(F)
  BY LedgerConstants DEF MInv, IInv, Rest, Sound, Mirrored
<1> HIDE DEF F, p
<1>2. /\ p.known = TRUE /\ p.sound = TRUE /\ p.principal = F.principal /\ p.fees = F.fees
      /\ p.interest = Units(F.interestAccum) /\ p.frozen = F.frozen
  BY <1>1 DEF RowOf, Row
<1>3. /\ F.principal \in Nat /\ F.fees \in Nat /\ F.interestAccum \in Nat
      /\ Units(F.interestAccum) \in Nat /\ F.lastAccrualAt \in Nat
  BY <1>1, FacilityFields
<1>4. LegalDebtAt(F, F.lastAccrualAt) = F.principal + F.fees + Units(F.interestAccum)
  <2>1. Pending(F, F.lastAccrualAt) = 0
    BY <1>3 DEF Pending
  <2>2. F.interestAccum + 0 = F.interestAccum
    BY <1>3
  <2> QED
    BY <2>1, <2>2 DEF LegalDebtAt, UnpaidInterestAt
<1>5. Units(F.interestAccum) <= UnpaidInterestAt(F, now)
  <2>1. PICK n \in Nat : n = F.interestAccum + Pending(F, now) /\ F.interestAccum <= n
    BY <1>1, <1>3, AccruedFacts
  <2> QED
    BY <1>3, <2>1, UnitsGrow DEF UnpaidInterestAt
<1>6. p.known /\ p.sound
  BY <1>2, Zenon
<1>7. /\ p.principal + p.fees + p.interest = LegalDebtAt(F, F.lastAccrualAt)
      /\ p.interest <= UnpaidInterestAt(F, now)
  BY <1>2, <1>3, <1>4, <1>5
<1> QED
  BY <1>2, <1>6, <1>7, Zenon DEF F, p

LEMMA ReferenceFollows == MInv => ReferenceAgrees
<1> SUFFICES ASSUME MInv, NEW f \in Facilities, facility[f].exists, ~facility[f].capitalizes
             PROVE  /\ ref[f].principal = facility[f].principal
                    /\ ref[f].fees = facility[f].fees
                    /\ ReferenceInterestAt(ref[f], now) = UnpaidInterestAt(facility[f], now)
  BY DEF ReferenceAgrees
<1>1. /\ now \in Nat /\ facility[f] \in Facility /\ facility[f].lastAccrualAt <= now
      /\ Copies(ref[f], facility[f])
  BY LedgerConstants DEF MInv, IInv, Rest, Sound, Mirrored
<1>2. Copies(ReferenceAccrued(ref[f], now), Accrued(facility[f], now))
  BY <1>1, ReferenceAccruedCopies
<1>3. ReferenceAccrued(ref[f], now).accum = facility[f].interestAccum + Pending(facility[f], now)
  BY <1>1, <1>2, AccruedFacts DEF Copies
<1> QED
  BY <1>1, <1>3 DEF Copies, ReferenceInterestAt, UnpaidInterestAt, Units

(* Running the mirrors beside the ledger takes nothing from it: what holds  *)
(* of the ledger holds with its mirrors.                                    *)
THEOREM MirrorsOfLedger == MirrorSpec => Spec
<1>1. [MirrorNext]_mirrorVars => [Next]_vars
  BY MirrorSteps DEF mirrorVars
<1> QED
  BY <1>1, PTL DEF MirrorSpec, Spec, MirrorInit

(* However draws, payments, fees, accruals, changes of rate, freezes and    *)
(* capitalisations interleave, the vault's total, the read model folded     *)
(* from the events and the reference model report the same debt as the      *)
(* ledger.                                                                  *)
THEOREM LedgerMirrorsAgree == MirrorSpec => []MirrorsAgree
<1>1. MInv => MirrorsAgree
  BY TotalFollows, ProjectionFollows, ReferenceFollows DEF MirrorsAgree
<1> QED
  BY <1>1, InitMInv, NextMInv, PTL DEF MirrorSpec
=============================================================================
