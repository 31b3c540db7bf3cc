-------------------------- MODULE LendingVaultProofs --------------------------
(***************************************************************************)
(* Proofs about the lender pool, for any finite sets of lenders and        *)
(* facilities and any amounts.  The inductive invariant is the conjunction *)
(* of parts, each over the variables of one concern: cash, refunds, the    *)
(* book of losses, the queue with its shares, funded withdrawals, closed   *)
(* epochs.  Each part has one lemma that it is kept by every step; the     *)
(* calls that leave its variables alone are one case of that lemma.        *)
(***************************************************************************)
EXTENDS LendingVault, Sums, TLAPS

-----------------------------------------------------------------------------
(* Cash *)

CashInv ==
    /\ balance \in Nat /\ tracked \in Nat
    /\ totalBorrowerOwned \in Nat
    /\ totalWithdrawalReserved \in Nat
    /\ totalRecoveryReserved \in Nat
    /\ Solvency

(* What belongs to the lenders is in the vault on top of what is owed. *)
LEMMA LpCashFacts ==
  ASSUME CashInv
  PROVE  /\ LpCash \in Nat
         /\ Liabilities = totalBorrowerOwned + totalWithdrawalReserved + totalRecoveryReserved
         /\ Liabilities + LpCash = balance
         /\ AvailableCash \in 0 .. LpCash
<1>1. Liabilities \in Nat /\ balance >= Liabilities
  BY DEF CashInv, Solvency, Liabilities
<1>2. LpCash \in Nat /\ Liabilities + LpCash = balance
  BY <1>1 DEF LpCash, CashInv
<1>3. AvailableCash \in 0 .. LpCash
  BY <1>2 DEF AvailableCash
<1> QED
  BY <1>2, <1>3 DEF Liabilities

(* The debts of the book. *)
BookInv ==
    /\ debt \in [Facilities -> Nat]
    /\ impairmentOf \in [Facilities -> Nat]
    /\ totalImpairment \in Nat
    /\ writeOffEpoch \in [Facilities -> 0 .. MaxEpoch]
    /\ ImpairmentWithinDebt

LEMMA CashStep ==
  ASSUME CashInv, BookInv, [Next]_vars
  PROVE  CashInv'
<1>0. /\ balance \in Nat /\ tracked \in Nat /\ totalBorrowerOwned \in Nat
      /\ totalWithdrawalReserved \in Nat /\ totalRecoveryReserved \in Nat
      /\ balance >= totalBorrowerOwned + totalWithdrawalReserved + totalRecoveryReserved
      /\ balance >= tracked
  BY DEF CashInv, Solvency
<1>l. /\ LpCash \in Nat
      /\ totalBorrowerOwned + totalWithdrawalReserved + totalRecoveryReserved + LpCash = balance
      /\ AvailableCash \in 0 .. LpCash
  BY LpCashFacts
<1> SUFFICES /\ balance' \in Nat /\ tracked' \in Nat /\ totalBorrowerOwned' \in Nat
             /\ totalWithdrawalReserved' \in Nat /\ totalRecoveryReserved' \in Nat
             /\ balance' >= totalBorrowerOwned' + totalWithdrawalReserved' + totalRecoveryReserved'
             /\ balance' >= tracked'
  BY DEF CashInv, Solvency
<1> DEFINE Good == /\ balance' \in Nat /\ tracked' \in Nat /\ totalBorrowerOwned' \in Nat
                   /\ totalWithdrawalReserved' \in Nat /\ totalRecoveryReserved' \in Nat
                   /\ balance' >= totalBorrowerOwned' + totalWithdrawalReserved' + totalRecoveryReserved'
                   /\ balance' >= tracked'
<1>a. Assets \subseteq Nat
  BY VaultConstants
<1>1. ASSUME UNCHANGED <<cashVars, liabilityVars>>
      PROVE  Good
  BY <1>0, <1>1 DEF cashVars, liabilityVars
<1>2. ASSUME NEW lp, NEW a \in Assets, NEW m, Deposit(lp, a, m)
      PROVE  Good
  BY <1>0, <1>2, <1>a DEF Deposit, liabilityVars
<1>3. ASSUME NEW lp, NEW n, NEW m, Withdraw(lp, n, m)
      PROVE  Good
  <2>1. PICK a : a \in 1 .. AvailableCash /\ Push(a) /\ UNCHANGED liabilityVars
    BY <1>3 DEF Withdraw
  <2> QED
    BY <1>0, <1>l, <2>1 DEF Push, liabilityVars
<1>4. ASSUME ProcessWithdrawals
      PROVE  Good
  <2>1. /\ AbsorbDonation /\ UNCHANGED <<balance, totalBorrowerOwned, totalRecoveryReserved>>
        /\ \/ UNCHANGED totalWithdrawalReserved
           \/ \E assets \in 1 .. LpCash : totalWithdrawalReserved' = totalWithdrawalReserved + assets
    BY <1>4 DEF ProcessWithdrawals, Fill
  <2>2. tracked' \in Nat /\ tracked' <= balance
    BY <1>0, <2>1 DEF AbsorbDonation
  <2> QED
    BY <1>0, <1>l, <2>1, <2>2
<1>5. ASSUME NEW id, ClaimWithdrawal(id)
      PROVE  Good
  <2>1. PICK a : /\ a \in 1 .. totalWithdrawalReserved
                 /\ totalWithdrawalReserved' = totalWithdrawalReserved - a
                 /\ Push(a) /\ UNCHANGED <<totalBorrowerOwned, totalRecoveryReserved>>
    BY <1>5 DEF ClaimWithdrawal
  <2> QED
    BY <1>0, <2>1 DEF Push
<1>6. ASSUME RollLossEpoch
      PROVE  Good
  <2>1. /\ AbsorbDonation /\ UNCHANGED <<balance, totalBorrowerOwned, totalWithdrawalReserved>>
        /\ totalRecoveryReserved' = totalRecoveryReserved + LpCash
    BY <1>6 DEF RollLossEpoch
  <2>2. tracked' \in Nat /\ tracked' <= balance
    BY <1>0, <2>1 DEF AbsorbDonation
  <2> QED
    BY <1>0, <1>l, <2>1, <2>2
<1>7. ASSUME NEW e, NEW lp, ClaimEpochRecovery(e, lp)
      PROVE  Good
  <2>1. PICK a : /\ a \in 1 .. totalRecoveryReserved
                 /\ totalRecoveryReserved' = totalRecoveryReserved - a
                 /\ Push(a) /\ UNCHANGED <<totalBorrowerOwned, totalWithdrawalReserved>>
    BY <1>7 DEF ClaimEpochRecovery
  <2> QED
    BY <1>0, <2>1 DEF Push
<1>8. ASSUME NEW f, NEW a \in Assets, Lend(f, a)
      PROVE  Good
  BY <1>0, <1>8, <1>a, <1>l DEF Lend, Push, liabilityVars
<1>9. ASSUME NEW f \in Facilities, NEW a \in Assets, OnRepayment(f, a)
      PROVE  Good
  <2>1. debt[f] \in Nat /\ a \in Nat
    BY <1>a DEF BookInv
  <2>2. PICK applied : applied = IF a < debt[f] THEN a ELSE debt[f]
    OBVIOUS
  <2>3. applied \in 0 .. a
    BY <2>1, <2>2
  <2>4. /\ balance' = balance + a /\ tracked' = balance + a
        /\ totalBorrowerOwned' = totalBorrowerOwned + (a - applied)
        /\ UNCHANGED totalWithdrawalReserved
        /\ \/ totalRecoveryReserved' = totalRecoveryReserved + applied
           \/ totalRecoveryReserved' = totalRecoveryReserved
    BY <1>9, <2>2 DEF OnRepayment, ReserveOldEpochRecovery
  <2> QED
    BY <1>0, <2>1, <2>3, <2>4
<1>10. ASSUME NEW f, NEW a \in Assets, RefundExcess(f, a)
       PROVE  Good
  BY <1>0, <1>10, <1>a DEF RefundExcess, Push
<1>11. ASSUME NEW f, NEW a \in Assets, RecordRecovery(f, a)
       PROVE  Good
  <2>1. /\ balance' = balance + a /\ tracked' = balance + a
        /\ UNCHANGED <<totalBorrowerOwned, totalWithdrawalReserved>>
        /\ \/ totalRecoveryReserved' = totalRecoveryReserved + a
           \/ totalRecoveryReserved' = totalRecoveryReserved
    BY <1>11 DEF RecordRecovery, ReserveOldEpochRecovery
  <2> QED
    BY <1>0, <1>a, <2>1
<1>12. ASSUME NEW a \in Assets, Donate(a)
       PROVE  Good
  BY <1>0, <1>12, <1>a DEF Donate, liabilityVars
<1>q. ASSUME \/ \E paused \in BOOLEAN : SetDepositsPaused(paused)
             \/ \E lp \in LPs, n \in ShareAmounts, m \in MinAssets : RequestWithdrawal(lp, n, m)
             \/ \E id \in 1 .. Len(requests) : CancelWithdrawal(id)
             \/ \E from, to \in LPs, n \in ShareAmounts : TransferShares(from, to, n)
             \/ \E f \in Facilities, a \in Assets : RecognizeImpairment(f, a)
             \/ \E f \in Facilities, a \in Assets : ReverseImpairment(f, a)
             \/ \E f \in Facilities : WriteOff(f)
             \/ \E bearing \in SUBSET Facilities : Tick(bearing)
             \/ UNCHANGED vars
      PROVE  UNCHANGED <<cashVars, liabilityVars>>
  BY <1>q, Zenon DEF SetDepositsPaused, RequestWithdrawal, CancelWithdrawal, TransferShares,
     RecognizeImpairment, ReverseImpairment, WriteOff, Tick, vars
<1> HIDE DEF Good
<1>z. Good
  BY <1>1, <1>2, <1>3, <1>4, <1>5, <1>6, <1>7, <1>8, <1>9, <1>10, <1>11, <1>12, <1>q, Zenon DEF Next
<1> QED
  BY <1>z DEF Good

-----------------------------------------------------------------------------
(* Refunds *)

RefundInv ==
    /\ refundableOf \in [Facilities -> Nat]
    /\ totalBorrowerOwned = SumFunctionOnSet(refundableOf, Facilities)

(* A total follows the one entry a call changes. *)
LEMMA TotalMoves ==
  ASSUME NEW S, IsFiniteSet(S), NEW old, NEW new, NEW x \in S, NEW d \in Int,
         \A y \in S : old[y] \in Int,
         \A y \in S \ {x} : new[y] = old[y],
         new[x] = old[x] + d
  PROVE  /\ SumFunctionOnSet(new, S) = SumFunctionOnSet(old, S) + d
         /\ SumFunctionOnSet(old, S) \in Int
<1>1. \A y \in S : old[y] \in Int /\ new[y] \in Int
  OBVIOUS
<1>2. SumFunctionOnSet(new, S) = SumFunctionOnSet(old, S) - old[x] + new[x]
  BY <1>1, SumChange
<1>3. SumFunctionOnSet(old, S) \in Int
  BY <1>1, SumInt
<1> QED
  BY <1>1, <1>2, <1>3

LEMMA RefundStep ==
  ASSUME BookInv, RefundInv, [Next]_vars
  PROVE  RefundInv'
<1>0. /\ refundableOf \in [Facilities -> Nat]
      /\ refundableOf \in [Facilities -> Int]
      /\ totalBorrowerOwned = SumFunctionOnSet(refundableOf, Facilities)
      /\ IsFiniteSet(Facilities) /\ Assets \subseteq Nat
  BY VaultConstants DEF RefundInv
<1>u. ASSUME NEW f \in Facilities, NEW d \in Int, refundableOf[f] + d >= 0,
             refundableOf' = [refundableOf EXCEPT ![f] = @ + d],
             totalBorrowerOwned' = totalBorrowerOwned + d
      PROVE  RefundInv'
  <2>1. PICK new : new = refundableOf'
    OBVIOUS
  <2>2. /\ new \in [Facilities -> Nat]
        /\ \A y \in Facilities \ {f} : new[y] = refundableOf[y]
        /\ new[f] = refundableOf[f] + d
        /\ \A y \in Facilities : refundableOf[y] \in Int
    BY <1>0, <1>u, <2>1
  <2>3. SumFunctionOnSet(new, Facilities) = SumFunctionOnSet(refundableOf, Facilities) + d
    BY <1>0, <2>2, TotalMoves
  <2> QED
    BY <1>0, <1>u, <2>1, <2>2, <2>3 DEF RefundInv
<1>1. ASSUME NEW f \in Facilities, NEW a \in Assets, OnRepayment(f, a)
      PROVE  RefundInv'
  <2>1. PICK excess : excess = a - (IF a < debt[f] THEN a ELSE debt[f])
    OBVIOUS
  <2>2. excess \in Nat
    BY <1>0, <2>1 DEF BookInv
  <2>3. /\ refundableOf' = [refundableOf EXCEPT ![f] = @ + excess]
        /\ totalBorrowerOwned' = totalBorrowerOwned + excess
    BY <1>1, <2>1 DEF OnRepayment
  <2>4. refundableOf[f] + excess >= 0
    BY <1>0, <2>2
  <2> QED
    BY <1>u, <2>2, <2>3, <2>4, excess \in Int
<1>2. ASSUME NEW f \in Facilities, NEW a \in Assets, RefundExcess(f, a)
      PROVE  RefundInv'
  <2>1. PICK d : d = -a
    OBVIOUS
  <2>2. d \in Int /\ refundableOf[f] + d >= 0
    BY <1>0, <1>2, <2>1 DEF RefundExcess
  <2>3. totalBorrowerOwned \in Int
    BY <1>0, SumInt
  <2>4. refundableOf' = [refundableOf EXCEPT ![f] = @ + d]
    BY <1>0, <1>2, <2>1 DEF RefundExcess
  <2>5. totalBorrowerOwned' = totalBorrowerOwned + d
    BY <1>0, <1>2, <2>1, <2>3 DEF RefundExcess
  <2> QED
    BY <1>u, <2>2, <2>4, <2>5
<1>3. ASSUME UNCHANGED <<refundableOf, totalBorrowerOwned>>
      PROVE  RefundInv'
  BY <1>0, <1>3 DEF RefundInv
<1>4. \/ \E f \in Facilities, a \in Assets : OnRepayment(f, a)
      \/ \E f \in Facilities, a \in Assets : RefundExcess(f, a)
      \/ UNCHANGED <<refundableOf, totalBorrowerOwned>>
  BY Zenon DEF Next, vars, liabilityVars, SetDepositsPaused, Deposit, Withdraw, RequestWithdrawal,
     CancelWithdrawal, ProcessWithdrawals, ClaimWithdrawal, TransferShares, RollLossEpoch,
     ClaimEpochRecovery, Lend, RecordRecovery, RecognizeImpairment, ReverseImpairment, WriteOff,
     Donate, Tick
<1> QED
  BY <1>1, <1>2, <1>3, <1>4

-----------------------------------------------------------------------------
(* The book of losses *)

LEMMA BookStep ==
  ASSUME BookInv, currentEpoch \in Epochs, [Next]_vars
  PROVE  BookInv'
<1>0. /\ debt \in [Facilities -> Nat]
      /\ impairmentOf \in [Facilities -> Nat]
      /\ totalImpairment \in Nat
      /\ writeOffEpoch \in [Facilities -> 0 .. MaxEpoch]
      /\ \A f \in Facilities : impairmentOf[f] <= debt[f]
      /\ \A f \in Facilities : writeOffEpoch[f] # 0 => impairmentOf[f] = 0
      /\ totalImpairment = SumFunctionOnSet(impairmentOf, Facilities)
      /\ IsFiniteSet(Facilities) /\ Assets \subseteq Nat
      /\ \A f \in Facilities : impairmentOf[f] \in Nat
  BY VaultConstants DEF BookInv, ImpairmentWithinDebt, IsWrittenOff
<1>f. IsFiniteSet(Facilities)
  BY VaultConstants
<1>g. ASSUME debt' \in [Facilities -> Nat],
             impairmentOf' \in [Facilities -> Nat],
             writeOffEpoch' \in [Facilities -> 0 .. MaxEpoch],
             \A f \in Facilities : impairmentOf'[f] <= debt'[f],
             \A f \in Facilities : writeOffEpoch'[f] # 0 => impairmentOf'[f] = 0,
             totalImpairment' = SumFunctionOnSet(impairmentOf', Facilities)
      PROVE  BookInv'
  <2>1. PICK of : of = impairmentOf'
    OBVIOUS
  <2>2. \A f \in Facilities : of[f] \in Nat
    BY <1>g, <2>1
  <2>3. SumFunctionOnSet(of, Facilities) \in Nat
    BY <1>0, <2>2, SumNat
  <2> QED
    BY <1>g, <2>1, <2>3 DEF BookInv, ImpairmentWithinDebt, IsWrittenOff
<1>u. ASSUME NEW f \in Facilities, NEW v \in Nat, NEW d \in Int, v = impairmentOf[f] + d,
             impairmentOf' = [impairmentOf EXCEPT ![f] = v],
             totalImpairment' = totalImpairment + d
      PROVE  /\ impairmentOf' \in [Facilities -> Nat]
             /\ totalImpairment' = SumFunctionOnSet(impairmentOf', Facilities)
  <2>1. PICK new : new = impairmentOf'
    OBVIOUS
  <2>2. /\ new \in [Facilities -> Nat]
        /\ \A y \in Facilities \ {f} : new[y] = impairmentOf[y]
        /\ new[f] = impairmentOf[f] + d
        /\ \A y \in Facilities : impairmentOf[y] \in Int
    BY <1>0, <1>u, <2>1
  <2>3. SumFunctionOnSet(new, Facilities) = SumFunctionOnSet(impairmentOf, Facilities) + d
    BY <1>f, <2>2, TotalMoves
  <2> QED
    BY <1>0, <1>u, <2>1, <2>2, <2>3
<1>1. ASSUME NEW f \in Facilities, NEW a \in Assets, Lend(f, a)
      PROVE  BookInv'
  <2>1. /\ debt' = [debt EXCEPT ![f] = @ + a] /\ a \in Nat
        /\ UNCHANGED <<impairmentOf, totalImpairment, writeOffEpoch>>
    BY <1>0, <1>1 DEF Lend, bookVars
  <2>2. debt' \in [Facilities -> Nat] /\ \A x \in Facilities : impairmentOf[x] <= debt'[x]
    BY <1>0, <2>1
  <2> QED
    BY <1>0, <1>g, <2>1, <2>2
<1>2. ASSUME NEW f \in Facilities, NEW a \in Assets, OnRepayment(f, a)
      PROVE  BookInv'
  <2>1. PICK new, kept, d :
            /\ new = debt[f] - (IF a < debt[f] THEN a ELSE debt[f])
            /\ kept = IF impairmentOf[f] > new THEN new ELSE impairmentOf[f]
            /\ d = kept - impairmentOf[f]
    OBVIOUS
  <2>t. debt[f] \in Nat /\ impairmentOf[f] \in Nat /\ totalImpairment \in Nat /\ a \in Nat
    BY <1>0
  <2>2. /\ new \in Nat /\ kept \in Nat /\ d \in Int /\ kept <= new
        /\ kept <= impairmentOf[f] /\ impairmentOf[f] + d = kept
        /\ totalImpairment - (impairmentOf[f] - kept) = totalImpairment + d
    BY <2>t, <2>1
  <2>3. /\ debt' = [debt EXCEPT ![f] = new]
        /\ impairmentOf' = [impairmentOf EXCEPT ![f] = kept]
        /\ totalImpairment' = totalImpairment - (impairmentOf[f] - kept)
        /\ UNCHANGED writeOffEpoch
    BY <1>2, <2>1 DEF OnRepayment
  <2>4. totalImpairment' = totalImpairment + d
    BY <2>2, <2>3
  <2>5. /\ impairmentOf' \in [Facilities -> Nat]
        /\ totalImpairment' = SumFunctionOnSet(impairmentOf', Facilities)
    BY <1>u, <2>2, <2>3, <2>4
  <2>6. debt' \in [Facilities -> Nat] /\ \A x \in Facilities : impairmentOf'[x] <= debt'[x]
    BY <1>0, <2>2, <2>3
  <2>7. \A x \in Facilities : writeOffEpoch'[x] # 0 => impairmentOf'[x] = 0
    BY <1>0, <2>2, <2>3
  <2> QED
    BY <1>0, <1>g, <2>3, <2>5, <2>6, <2>7
<1>3. ASSUME NEW f \in Facilities, NEW a \in Assets, RecognizeImpairment(f, a)
      PROVE  BookInv'
  <2>1. PICK v : v = impairmentOf[f] + a
    OBVIOUS
  <2>2. /\ a \in Nat /\ a \in Int /\ v \in Nat /\ v <= debt[f]
        /\ impairmentOf' = [impairmentOf EXCEPT ![f] = v]
        /\ totalImpairment' = totalImpairment + a
        /\ writeOffEpoch[f] = 0
        /\ UNCHANGED <<debt, writeOffEpoch>>
    BY <1>0, <1>3, <2>1 DEF RecognizeImpairment, ledgerVars, IsWrittenOff
  <2>3. /\ impairmentOf' \in [Facilities -> Nat]
        /\ totalImpairment' = SumFunctionOnSet(impairmentOf', Facilities)
    BY <1>u, <2>1, <2>2
  <2>4. /\ \A x \in Facilities : impairmentOf'[x] <= debt[x]
        /\ \A x \in Facilities : writeOffEpoch[x] # 0 => impairmentOf'[x] = 0
    BY <1>0, <2>2
  <2> QED
    BY <1>0, <1>g, <2>2, <2>3, <2>4
<1>4. ASSUME NEW f \in Facilities, NEW a \in Assets, ReverseImpairment(f, a)
      PROVE  BookInv'
  <2>1. PICK v, d : v = impairmentOf[f] - a /\ d = -a
    OBVIOUS
  <2>2. /\ a \in Nat /\ a <= impairmentOf[f]
        /\ impairmentOf' = [impairmentOf EXCEPT ![f] = v]
        /\ totalImpairment' = totalImpairment - a
        /\ UNCHANGED <<debt, writeOffEpoch>>
    BY <1>0, <1>4, <2>1 DEF ReverseImpairment, ledgerVars
  <2>3. /\ impairmentOf[f] \in Nat /\ totalImpairment \in Nat /\ impairmentOf[f] <= debt[f]
        /\ debt[f] \in Nat
    BY <1>0
  <2>4. /\ v \in Nat /\ d \in Int /\ v = impairmentOf[f] + d /\ v <= debt[f]
        /\ totalImpairment' = totalImpairment + d
    BY <2>1, <2>2, <2>3
  <2>5. /\ impairmentOf' \in [Facilities -> Nat]
        /\ totalImpairment' = SumFunctionOnSet(impairmentOf', Facilities)
    BY <1>u, <2>2, <2>4
  <2>6. /\ \A x \in Facilities : impairmentOf'[x] <= debt[x]
        /\ \A x \in Facilities : writeOffEpoch[x] # 0 => impairmentOf'[x] = 0
    BY <1>0, <2>2, <2>1
  <2> QED
    BY <1>0, <1>g, <2>2, <2>5, <2>6
<1>5. ASSUME NEW f \in Facilities, WriteOff(f)
      PROVE  BookInv'
  <2>1. PICK d : d = -impairmentOf[f]
    OBVIOUS
  <2>2. /\ impairmentOf' = [impairmentOf EXCEPT ![f] = 0]
        /\ totalImpairment' = totalImpairment - impairmentOf[f]
        /\ writeOffEpoch' = [writeOffEpoch EXCEPT ![f] = currentEpoch]
        /\ UNCHANGED debt
    BY <1>5, Zenon DEF WriteOff, ledgerVars
  <2>3. impairmentOf[f] \in Nat /\ totalImpairment \in Nat
    BY <1>0
  <2>t. /\ totalImpairment' = totalImpairment + d
        /\ 0 = impairmentOf[f] + d /\ d \in Int /\ 0 \in Nat
    BY <2>1, <2>2, <2>3
  <2>4. /\ impairmentOf' \in [Facilities -> Nat]
        /\ totalImpairment' = SumFunctionOnSet(impairmentOf', Facilities)
    BY <1>u, <2>2, <2>t
  <2>5. currentEpoch \in 0 .. MaxEpoch
    BY VaultConstants DEF Epochs
  <2>6. writeOffEpoch' \in [Facilities -> 0 .. MaxEpoch]
    BY <1>0, <2>2, <2>5, Zenon
  <2>7. /\ \A x \in Facilities : impairmentOf'[x] <= debt[x]
        /\ \A x \in Facilities : writeOffEpoch'[x] # 0 => impairmentOf'[x] = 0
    BY <1>0, <2>2
  <2> QED
    BY <1>0, <1>g, <2>2, <2>4, <2>6, <2>7
<1>6. ASSUME NEW bearing, Tick(bearing)
      PROVE  BookInv'
  <2>1. /\ debt' = [f \in Facilities |-> IF f \in bearing THEN debt[f] + 1 ELSE debt[f]]
        /\ UNCHANGED <<impairmentOf, totalImpairment, writeOffEpoch>>
    BY <1>6 DEF Tick, bookVars
  <2>2. debt' \in [Facilities -> Nat] /\ \A x \in Facilities : impairmentOf[x] <= debt'[x]
    BY <1>0, <2>1
  <2> QED
    BY <1>0, <1>g, <2>1, <2>2
<1>7. ASSUME UNCHANGED <<debt, bookVars>>
      PROVE  BookInv'
  BY <1>0, <1>g, <1>7 DEF bookVars
<1>8. \/ \E f \in Facilities, a \in Assets : Lend(f, a) \/ OnRepayment(f, a)
      \/ \E f \in Facilities, a \in Assets : RecognizeImpairment(f, a) \/ ReverseImpairment(f, a)
      \/ \E f \in Facilities : WriteOff(f)
      \/ \E bearing \in SUBSET Facilities : Tick(bearing)
      \/ UNCHANGED <<debt, bookVars>>
  BY Zenon DEF Next, vars, ledgerVars, SetDepositsPaused, Deposit, Withdraw, RequestWithdrawal,
     CancelWithdrawal, ProcessWithdrawals, ClaimWithdrawal, TransferShares, RollLossEpoch,
     ClaimEpochRecovery, RefundExcess, RecordRecovery, Donate
<1> QED
  BY <1>1, <1>2, <1>3, <1>4, <1>5, <1>6, <1>7, <1>8

-----------------------------------------------------------------------------
(* The requests *)

(* `new' is the queue in which request id has become q, with its terms as    *)
(* they were agreed.                                                         *)
Revised(new, id, q) ==
    /\ new \in Seq(WithdrawalRequest)
    /\ Len(new) = Len(requests)
    /\ new[id] = q
    /\ \A j \in 1 .. Len(requests) : j # id => new[j] = requests[j]
    /\ q \in WithdrawalRequest
    /\ q.owner = requests[id].owner
    /\ q.epoch = requests[id].epoch
    /\ q.sharesRequested = requests[id].sharesRequested
    /\ q.minAssets = requests[id].minAssets

LEMMA RequestFields ==
  ASSUME requests \in Seq(WithdrawalRequest), NEW id \in 1 .. Len(requests)
  PROVE  /\ requests[id] \in WithdrawalRequest
         /\ requests[id].owner \in LPs /\ requests[id].epoch \in Epochs
         /\ requests[id].expiresAt \in Nat /\ requests[id].sharesRequested \in Nat
         /\ requests[id].sharesRemaining \in Nat /\ requests[id].minAssets \in Nat
         /\ requests[id].assetsReserved \in Nat /\ requests[id].assetsClaimed \in Nat
<1>1. PICK r : r = requests[id]
  OBVIOUS
<1>2. r \in WithdrawalRequest
  BY <1>1
<1>3. /\ r.owner \in LPs /\ r.epoch \in Epochs
      /\ r.expiresAt \in Nat /\ r.sharesRequested \in Nat
      /\ r.sharesRemaining \in Nat /\ r.minAssets \in Nat
      /\ r.assetsReserved \in Nat /\ r.assetsClaimed \in Nat
  BY <1>2 DEF WithdrawalRequest
<1> QED
  BY <1>1, <1>2, <1>3

LEMMA CancelEffect ==
  ASSUME requests \in Seq(WithdrawalRequest), NEW id \in 1 .. Len(requests), CancelRemaining(id)
  PROVE  \E q : /\ Revised(requests', id, q)
                /\ q.sharesRemaining = 0 /\ q.cancelled = TRUE
                /\ q.assetsReserved = requests[id].assetsReserved
                /\ q.assetsClaimed = requests[id].assetsClaimed
<1>1. PICK r : r = requests[id]
  OBVIOUS
<1>2. PICK q : q = [r EXCEPT !.sharesRemaining = 0, !.cancelled = TRUE]
  OBVIOUS
<1>3. r \in WithdrawalRequest
  BY <1>1
<1>4. /\ q \in WithdrawalRequest /\ q.sharesRemaining = 0 /\ q.cancelled = TRUE
      /\ q.owner = r.owner /\ q.epoch = r.epoch /\ q.sharesRequested = r.sharesRequested
      /\ q.minAssets = r.minAssets /\ q.assetsReserved = r.assetsReserved
      /\ q.assetsClaimed = r.assetsClaimed
  BY <1>2, <1>3 DEF WithdrawalRequest
<1>5. requests' = [requests EXCEPT ![id] = q]
  BY <1>1, <1>2 DEF CancelRemaining
<1>6. Revised(requests', id, q)
  BY <1>1, <1>4, <1>5 DEF Revised
<1> QED
  BY <1>1, <1>4, <1>6

LEMMA FillEffect ==
  ASSUME requests \in Seq(WithdrawalRequest), NEW id \in 1 .. Len(requests),
         NEW n \in 0 .. requests[id].sharesRemaining, NEW a \in Nat, Fill(id, n, a)
  PROVE  \E q : /\ Revised(requests', id, q)
                /\ q.sharesRemaining = requests[id].sharesRemaining - n
                /\ q.cancelled = requests[id].cancelled
                /\ q.assetsReserved = requests[id].assetsReserved + a
                /\ q.assetsClaimed = requests[id].assetsClaimed
<1>1. PICK r : r = requests[id]
  OBVIOUS
<1>2. PICK left, res : left = r.sharesRemaining - n /\ res = r.assetsReserved + a
  OBVIOUS
<1>3. PICK q : q = [r EXCEPT !.sharesRemaining = left, !.assetsReserved = res]
  OBVIOUS
<1>4. r \in WithdrawalRequest
  BY <1>1
<1>5. left \in Nat /\ res \in Nat
  <2>1. r.sharesRemaining \in Nat /\ r.assetsReserved \in Nat /\ n \in 0 .. r.sharesRemaining
    BY <1>1, RequestFields
  <2> QED
    BY <1>2, <2>1
<1>6. /\ q \in WithdrawalRequest /\ q.sharesRemaining = left /\ q.assetsReserved = res
      /\ q.owner = r.owner /\ q.epoch = r.epoch /\ q.sharesRequested = r.sharesRequested
      /\ q.minAssets = r.minAssets /\ q.cancelled = r.cancelled
      /\ q.assetsClaimed = r.assetsClaimed
  BY <1>3, <1>4, <1>5 DEF WithdrawalRequest
<1>7. requests' = [requests EXCEPT ![id] = q]
  BY <1>1, <1>2, <1>3 DEF Fill
<1>8. Revised(requests', id, q)
  BY <1>1, <1>6, <1>7 DEF Revised
<1> QED
  BY <1>1, <1>2, <1>6, <1>8

LEMMA ClaimEffect ==
  ASSUME requests \in Seq(WithdrawalRequest), NEW id \in 1 .. Len(requests), ClaimWithdrawal(id)
  PROVE  \E q : /\ Revised(requests', id, q)
                /\ q.sharesRemaining = requests[id].sharesRemaining
                /\ q.cancelled = requests[id].cancelled
                /\ q.assetsReserved = requests[id].assetsReserved
                /\ q.assetsClaimed = requests[id].assetsReserved
<1>1. PICK r : r = requests[id]
  OBVIOUS
<1>2. PICK all : all = r.assetsClaimed + (r.assetsReserved - r.assetsClaimed)
  OBVIOUS
<1>3. PICK q : q = [r EXCEPT !.assetsClaimed = all]
  OBVIOUS
<1>4. r \in WithdrawalRequest
  BY <1>1
<1>5. all \in Nat /\ all = r.assetsReserved
  BY <1>2, <1>4 DEF WithdrawalRequest
<1>6. /\ q \in WithdrawalRequest /\ q.sharesRemaining = r.sharesRemaining
      /\ q.assetsReserved = r.assetsReserved /\ q.assetsClaimed = all
      /\ q.owner = r.owner /\ q.epoch = r.epoch /\ q.sharesRequested = r.sharesRequested
      /\ q.minAssets = r.minAssets /\ q.cancelled = r.cancelled
  BY <1>3, <1>4, <1>5 DEF WithdrawalRequest
<1>7. requests' = [requests EXCEPT ![id] = q]
  BY <1>1, <1>2, <1>3 DEF ClaimWithdrawal
<1>8. Revised(requests', id, q)
  BY <1>1, <1>6, <1>7 DEF Revised
<1> QED
  BY <1>1, <1>5, <1>6, <1>8

(* What is left to fill of the requests of an epoch's owners, one by one     *)
(* and in total: the queue is all owners, an account's lock is its own.      *)
Left(reqs, own, e) ==
    [id \in DOMAIN reqs |-> IF reqs[id].epoch = e /\ reqs[id].owner \in own
                            THEN reqs[id].sharesRemaining ELSE 0]

LeftSum(reqs, own, e) == SumFunctionOnSet(Left(reqs, own, e), DOMAIN reqs)

(* The funded part of each request that its owner has not collected. *)
Owed(reqs) == [id \in DOMAIN reqs |-> reqs[id].assetsReserved - reqs[id].assetsClaimed]

OwedSum(reqs) == SumFunctionOnSet(Owed(reqs), DOMAIN reqs)

LEMMA LeftNat ==
  ASSUME NEW reqs \in Seq(WithdrawalRequest), NEW own, NEW e
  PROVE  /\ IsFiniteSet(DOMAIN reqs)
         /\ DOMAIN reqs = 1 .. Len(reqs)
         /\ \A id \in DOMAIN reqs : Left(reqs, own, e)[id] \in Nat
         /\ LeftSum(reqs, own, e) \in Nat
         /\ \A id \in DOMAIN reqs : Left(reqs, own, e)[id] <= LeftSum(reqs, own, e)
<1>1. DOMAIN reqs = 1 .. Len(reqs) /\ Len(reqs) \in Nat
  OBVIOUS
<1>2. IsFiniteSet(DOMAIN reqs)
  BY <1>1, FS_Interval
<1>3. ASSUME NEW id \in DOMAIN reqs
      PROVE  Left(reqs, own, e)[id] \in Nat
  <2>1. reqs[id] \in WithdrawalRequest
    OBVIOUS
  <2>2. reqs[id].sharesRemaining \in Nat
    BY <2>1 DEF WithdrawalRequest
  <2> QED
    BY <2>2 DEF Left
<1>4. PICK f, D : f = Left(reqs, own, e) /\ D = DOMAIN reqs
  OBVIOUS
<1>5. IsFiniteSet(D) /\ \A id \in D : f[id] \in Nat
  BY <1>2, <1>3, <1>4
<1>6. SumFunctionOnSet(f, D) \in Nat /\ \A id \in D : f[id] <= SumFunctionOnSet(f, D)
  BY <1>5, SumNat
<1> QED
  BY <1>1, <1>2, <1>3, <1>4, <1>6 DEF LeftSum

LEMMA OwedInt ==
  ASSUME NEW reqs \in Seq(WithdrawalRequest)
  PROVE  \A id \in DOMAIN reqs : Owed(reqs)[id] \in Int
<1> SUFFICES ASSUME NEW id \in DOMAIN reqs
             PROVE  Owed(reqs)[id] \in Int
  OBVIOUS
<1>1. reqs[id] \in WithdrawalRequest
  OBVIOUS
<1>2. reqs[id].assetsReserved \in Nat /\ reqs[id].assetsClaimed \in Nat
  BY <1>1 DEF WithdrawalRequest
<1> QED
  BY <1>2 DEF Owed

(* What is left moves with the one request that is revised. *)
LEMMA LeftRevised ==
  ASSUME requests \in Seq(WithdrawalRequest), NEW id \in 1 .. Len(requests), NEW new, NEW q,
         Revised(new, id, q), NEW own, NEW e, NEW d \in Int,
         d = IF q.epoch = e /\ q.owner \in own
             THEN q.sharesRemaining - requests[id].sharesRemaining ELSE 0
  PROVE  LeftSum(new, own, e) = LeftSum(requests, own, e) + d
<1>1. PICK D : D = DOMAIN requests
  OBVIOUS
<1>2. /\ new \in Seq(WithdrawalRequest) /\ Len(new) = Len(requests) /\ new[id] = q
      /\ \A j \in 1 .. Len(requests) : j # id => new[j] = requests[j]
      /\ q.owner = requests[id].owner /\ q.epoch = requests[id].epoch
  BY DEF Revised
<1>3. DOMAIN new = D /\ D = 1 .. Len(requests) /\ id \in D
  BY <1>1, <1>2
<1>4. IsFiniteSet(D) /\ \A j \in D : Left(requests, own, e)[j] \in Int
  BY <1>1, LeftNat
<1>5. PICK f, g : f = Left(requests, own, e) /\ g = Left(new, own, e)
  OBVIOUS
<1>6. \A j \in D \ {id} : g[j] = f[j]
  BY <1>1, <1>2, <1>3, <1>5 DEF Left
<1>7. g[id] = f[id] + d
  <2>1. q.sharesRemaining \in Nat /\ requests[id].sharesRemaining \in Nat
    <3>1. q \in WithdrawalRequest
      BY DEF Revised
    <3> QED
      BY <3>1, RequestFields DEF WithdrawalRequest
  <2>2. /\ f[id] = IF q.epoch = e /\ q.owner \in own THEN requests[id].sharesRemaining ELSE 0
        /\ g[id] = IF q.epoch = e /\ q.owner \in own THEN q.sharesRemaining ELSE 0
    BY <1>1, <1>2, <1>3, <1>5 DEF Left
  <2> QED
    BY <2>1, <2>2
<1>8. SumFunctionOnSet(g, D) = SumFunctionOnSet(f, D) + d
  <2>1. IsFiniteSet(D) /\ id \in D /\ \A j \in D : f[j] \in Int
    BY <1>3, <1>4, <1>5
  <2> QED
    BY <2>1, <1>6, <1>7, TotalMoves
<1> QED
  BY <1>1, <1>3, <1>5, <1>8 DEF LeftSum

LEMMA OwedRevised ==
  ASSUME requests \in Seq(WithdrawalRequest), NEW id \in 1 .. Len(requests), NEW new, NEW q,
         Revised(new, id, q), NEW d \in Int,
         q.assetsReserved - q.assetsClaimed
            = requests[id].assetsReserved - requests[id].assetsClaimed + d
  PROVE  OwedSum(new) = OwedSum(requests) + d
<1>1. PICK D : D = DOMAIN requests
  OBVIOUS
<1>2. /\ new \in Seq(WithdrawalRequest) /\ Len(new) = Len(requests) /\ new[id] = q
      /\ \A j \in 1 .. Len(requests) : j # id => new[j] = requests[j]
  BY DEF Revised
<1>3. DOMAIN new = D /\ D = 1 .. Len(requests) /\ id \in D
  BY <1>1, <1>2
<1>4. IsFiniteSet(D) /\ \A j \in D : Owed(requests)[j] \in Int
  BY <1>1, LeftNat, OwedInt
<1>5. PICK f, g : f = Owed(requests) /\ g = Owed(new)
  OBVIOUS
<1>6. \A j \in D \ {id} : g[j] = f[j]
  BY <1>1, <1>2, <1>3, <1>5 DEF Owed
<1>7. g[id] = f[id] + d
  BY <1>1, <1>2, <1>3, <1>5 DEF Owed
<1>8. SumFunctionOnSet(g, D) = SumFunctionOnSet(f, D) + d
  <2>1. IsFiniteSet(D) /\ id \in D /\ \A j \in D : f[j] \in Int
    BY <1>3, <1>4, <1>5
  <2> QED
    BY <2>1, <1>6, <1>7, TotalMoves
<1> QED
  BY <1>1, <1>3, <1>5, <1>8 DEF OwedSum

(* A new request adds what it asks for to its own sums only. *)
LEMMA LeftAppended ==
  ASSUME NEW reqs \in Seq(WithdrawalRequest), NEW q \in WithdrawalRequest, NEW own, NEW e,
         NEW d \in Int, d = IF q.epoch = e /\ q.owner \in own THEN q.sharesRemaining ELSE 0
  PROVE  LeftSum(Append(reqs, q), own, e) = LeftSum(reqs, own, e) + d
<1>1. PICK D, new, k : D = DOMAIN reqs /\ new = Append(reqs, q) /\ k = Len(reqs) + 1
  OBVIOUS
<1>2. /\ DOMAIN new = D \union {k} /\ k \notin D /\ k \in DOMAIN new
      /\ new[k] = q /\ \A j \in D : new[j] = reqs[j] /\ j \in DOMAIN new
  BY <1>1
<1>3. IsFiniteSet(D) /\ \A j \in D : Left(reqs, own, e)[j] \in Int
  BY <1>1, LeftNat
<1>4. PICK f, g : f = Left(reqs, own, e) /\ g = Left(new, own, e)
  OBVIOUS
<1>5. \A j \in D : f[j] \in Int /\ g[j] = f[j]
  BY <1>1, <1>2, <1>3, <1>4 DEF Left
<1>6. g[k] = d
  BY <1>1, <1>2, <1>4 DEF Left
<1>7. SumFunctionOnSet(g, D \union {k}) = SumFunctionOnSet(f, D) + g[k]
  <2>1. IsFiniteSet(D) /\ k \notin D /\ g[k] \in Int
    BY <1>2, <1>3, <1>6
  <2> QED
    BY <2>1, <1>5, SumExtend
<1> QED
  BY <1>1, <1>2, <1>4, <1>6, <1>7 DEF LeftSum

Unfunded(q) == q.assetsReserved = 0 /\ q.assetsClaimed = 0

LEMMA OwedAppended ==
  ASSUME NEW reqs \in Seq(WithdrawalRequest), NEW q \in WithdrawalRequest, Unfunded(q)
  PROVE  OwedSum(Append(reqs, q)) = OwedSum(reqs)
<1>1. PICK D, new, k : D = DOMAIN reqs /\ new = Append(reqs, q) /\ k = Len(reqs) + 1
  OBVIOUS
<1>2. /\ DOMAIN new = D \union {k} /\ k \notin D /\ k \in DOMAIN new
      /\ new[k] = q /\ \A j \in D : new[j] = reqs[j] /\ j \in DOMAIN new
  BY <1>1
<1>3. IsFiniteSet(D) /\ \A j \in D : Owed(reqs)[j] \in Int
  BY <1>1, LeftNat, OwedInt
<1>4. PICK f, g : f = Owed(reqs) /\ g = Owed(new)
  OBVIOUS
<1>5. \A j \in D : f[j] \in Int /\ g[j] = f[j]
  BY <1>1, <1>2, <1>3, <1>4 DEF Owed
<1>6. g[k] = 0
  BY <1>1, <1>2, <1>4 DEF Owed, Unfunded
<1>7. SumFunctionOnSet(g, D \union {k}) = SumFunctionOnSet(f, D) + g[k]
  <2>1. IsFiniteSet(D) /\ k \notin D /\ g[k] \in Int
    BY <1>2, <1>3, <1>6
  <2> QED
    BY <2>1, <1>5, SumExtend
<1>8. SumFunctionOnSet(f, D) \in Int
  BY <1>3, <1>5, SumInt
<1> QED
  BY <1>1, <1>2, <1>4, <1>6, <1>7, <1>8 DEF OwedSum

(* No request of an epoch, nothing left of it. *)
LEMMA LeftNothing ==
  ASSUME NEW reqs \in Seq(WithdrawalRequest), NEW own, NEW e,
         \A id \in DOMAIN reqs : reqs[id].epoch # e
  PROVE  LeftSum(reqs, own, e) = 0
<1>1. Left(reqs, own, e) = [id \in DOMAIN reqs |-> 0]
  BY DEF Left
<1>2. IsFiniteSet(DOMAIN reqs)
  BY LeftNat
<1> QED
  BY <1>1, <1>2, SumZero DEF LeftSum

-----------------------------------------------------------------------------
(* The arithmetic of a fill *)

(* Division by a positive number, without the operator. *)
LEMMA Quotient ==
  ASSUME NEW m \in Nat, NEW q \in Nat \ {0}
  PROVE  /\ m \div q \in Nat
         /\ (m \div q) * q <= m
         /\ m < (m \div q) * q + q
<1>1. PICK k, r : k = m \div q /\ r = m % q
  OBVIOUS
<1>2. k \in Int /\ r \in 0 .. q - 1 /\ m = q * k + r
  BY <1>1
<1>3. k >= 0
  <2>1. SUFFICES ASSUME k <= -1 PROVE FALSE
    BY <1>2
  <2>2. q * k <= -q
    BY <1>2, <2>1
  <2> QED
    BY <1>2, <2>2
<1>4. q * k = k * q
  BY <1>2
<1> QED
  BY <1>1, <1>2, <1>3, <1>4

LEMMA TimesMonotone ==
  ASSUME NEW x \in Nat, NEW y \in Nat, NEW c \in Nat, x <= y
  PROVE  x * c <= y * c
<1>1. PICK d \in Nat : y = x + d
  <2>1. y - x \in Nat /\ y = x + (y - x)
    OBVIOUS
  <2> QED
    BY <2>1
<1>2. y * c = x * c + d * c
  BY <1>1
<1>3. d * c \in Nat /\ x * c \in Nat
  OBVIOUS
<1> QED
  BY <1>2, <1>3

(* Cash that pays less than m shares buys at most m of them. *)
LEMMA PartialFill ==
  ASSUME NEW m \in Nat, NEW cash \in Nat, NEW a \in Nat \ {0}, NEW b \in Nat \ {0},
         (m * a) \div b > cash
  PROVE  (cash * b) \div a \in 0 .. m
<1>1. PICK x, y : x = (m * a) \div b /\ y = (cash * b) \div a
  OBVIOUS
<1>2. m * a \in Nat /\ cash * b \in Nat
  OBVIOUS
<1>3. x \in Nat /\ x * b <= m * a
  BY <1>1, <1>2, Quotient
<1>4. y \in Nat /\ y * a <= cash * b
  BY <1>1, <1>2, Quotient
<1>5. cash * b <= x * b
  BY <1>1, <1>3, TimesMonotone
<1>6. y * a <= m * a
  BY <1>2, <1>3, <1>4, <1>5
<1>7. y <= m
  <2>1. SUFFICES ASSUME m + 1 <= y PROVE FALSE
    BY <1>4
  <2>2. (m + 1) * a <= y * a
    BY <1>4, <2>1, TimesMonotone
  <2>3. (m + 1) * a = m * a + a
    OBVIOUS
  <2> QED
    BY <1>2, <1>4, <1>6, <2>2, <2>3
<1> QED
  BY <1>1, <1>4, <1>7

(* A floor rounded up is a floor. *)
LEMMA RoundedUp ==
  ASSUME NEW m \in Nat, NEW q \in Nat \ {0}, NEW a \in Nat, a >= (m + q - 1) \div q
  PROVE  a * q >= m
<1>1. PICK k : k = (m + q - 1) \div q
  OBVIOUS
<1>2. k \in Nat /\ m + q - 1 < k * q + q
  <2>1. m + q - 1 \in Nat
    OBVIOUS
  <2> QED
    BY <1>1, <2>1, Quotient
<1>3. k * q <= a * q
  BY <1>1, <1>2, TimesMonotone
<1>4. k * q \in Nat /\ a * q \in Nat
  BY <1>2
<1> QED
  BY <1>2, <1>3, <1>4

LEMMA NavNat ==
  ASSUME CashInv, BookInv
  PROVE  Nav \in Nat
<1>1. PICK S : S = {f \in Facilities : ~IsWrittenOff(f)}
  OBVIOUS
<1>2. S \subseteq Facilities
  BY <1>1
<1>3. IsFiniteSet(S)
  BY <1>2, VaultConstants, FS_Subset
<1>4. \A f \in S : debt[f] \in Nat
  BY <1>2 DEF BookInv
<1>5. SumFunctionOnSet(debt, S) \in Nat
  BY <1>3, <1>4, SumNat
<1>6. PerformingReceivables \in Nat
  BY <1>1, <1>5 DEF PerformingReceivables
<1> QED
  BY <1>6, LpCashFacts DEF Nav, BookInv

(* A fill takes no more shares than the request has left. *)
LEMMA FillSharesFit ==
  ASSUME CashInv, BookInv, totalShares \in Nat, NEW r, r.sharesRemaining \in Nat
  PROVE  FillShares(r) \in 0 .. r.sharesRemaining
<1>1. /\ Nav + VirtualAssets \in Nat \ {0} /\ totalShares + VirtualShares \in Nat \ {0}
      /\ LpCash \in Nat
  BY NavNat, LpCashFacts, VaultConstants
<1>2. PICK a, b, cash, m : /\ a = Nav + VirtualAssets /\ b = totalShares + VirtualShares
                           /\ cash = LpCash /\ m = r.sharesRemaining
  OBVIOUS
<1>3. a \in Nat \ {0} /\ b \in Nat \ {0} /\ cash \in Nat /\ m \in Nat
  BY <1>1, <1>2
<1>4. (m * a) \div b > cash => (cash * b) \div a \in 0 .. m
  BY <1>3, PartialFill
<1>5. FillShares(r) = IF (m * a) \div b > cash THEN (cash * b) \div a ELSE m
  BY <1>2 DEF FillShares, ConvertToAssets
<1> QED
  BY <1>2, <1>3, <1>4, <1>5

-----------------------------------------------------------------------------
(* Order and floors of the queue *)

(* The terms of request r at epoch cur, and the floor its fills keep. *)
Sane(r, cur) ==
    r.epoch <= cur /\ r.sharesRequested # 0 /\ r.sharesRemaining <= r.sharesRequested

FloorMet(r) ==
    r.assetsReserved * r.sharesRequested >= r.minAssets * (r.sharesRequested - r.sharesRemaining)

FloorKept(r) == ~r.cancelled => FloorMet(r)

(* FirstComeFirstServed and the head, of any queue. *)
InOrder(reqs, head, cur) ==
    /\ \A i, j \in 1 .. Len(reqs) :
          (i < j /\ reqs[i].epoch = reqs[j].epoch /\ reqs[j].assetsReserved > 0)
             => reqs[i].sharesRemaining = 0
    /\ \A i \in 1 .. Len(reqs) :
          (i < head /\ reqs[i].epoch = cur) => reqs[i].sharesRemaining = 0

QueueOf(reqs, head, cur) ==
    /\ cur \in Epochs
    /\ reqs \in Seq(WithdrawalRequest)
    /\ head \in 1 .. Len(reqs) + 1
    /\ \A id \in 1 .. Len(reqs) : Sane(reqs[id], cur)
    /\ \A id \in 1 .. Len(reqs) : FloorKept(reqs[id])
    /\ InOrder(reqs, head, cur)

QueueInv == QueueOf(requests, withdrawalHead, currentEpoch)

LEMMA QueueInvGives ==
  ASSUME QueueInv
  PROVE  FirstComeFirstServed /\ SlippageFloor
<1>1. DOMAIN requests = 1 .. Len(requests)
  BY DEF QueueInv, QueueOf
<1>2. FirstComeFirstServed
  BY <1>1 DEF QueueInv, QueueOf, InOrder, FirstComeFirstServed
<1>3. SlippageFloor
  BY <1>1, Zenon DEF QueueInv, QueueOf, FloorKept, FloorMet, SlippageFloor
<1> QED
  BY <1>2, <1>3

(* A revision that gives no shares back, funds only the head, and lets the   *)
(* head go on only when nothing of it is left.                               *)
LEMMA RevisedInOrder ==
  ASSUME QueueInv, NEW id \in 1 .. Len(requests), NEW new, NEW q, Revised(new, id, q),
         q.sharesRemaining <= requests[id].sharesRemaining,
         \/ q.assetsReserved = requests[id].assetsReserved
         \/ /\ id = withdrawalHead /\ q.epoch = currentEpoch
            /\ requests[id].sharesRemaining # 0,
         NEW head,
         \/ head = withdrawalHead
         \/ head = withdrawalHead + 1 /\ id = withdrawalHead /\ q.sharesRemaining = 0
  PROVE  InOrder(new, head, currentEpoch)
<1>1. /\ requests \in Seq(WithdrawalRequest)
      /\ withdrawalHead \in 1 .. Len(requests) + 1
      /\ InOrder(requests, withdrawalHead, currentEpoch)
      /\ Len(requests) \in Nat
  BY DEF QueueInv, QueueOf
<1>2. /\ Len(new) = Len(requests) /\ new[id] = q
      /\ \A j \in 1 .. Len(requests) : j # id => new[j] = requests[j]
      /\ q.epoch = requests[id].epoch
  BY DEF Revised
<1>3. /\ q.sharesRemaining \in Nat /\ requests[id].sharesRemaining \in Nat
      /\ q.assetsReserved \in Nat /\ requests[id].assetsReserved \in Nat
  <2>1. q \in WithdrawalRequest
    BY DEF Revised
  <2>2. q.sharesRemaining \in Nat /\ q.assetsReserved \in Nat
    BY <2>1 DEF WithdrawalRequest
  <2> QED
    BY <1>1, <2>2, RequestFields
<1>4. ASSUME NEW i \in 1 .. Len(requests), NEW j \in 1 .. Len(requests), i < j,
             new[i].epoch = new[j].epoch, new[j].assetsReserved > 0
      PROVE  new[i].sharesRemaining = 0
  <2>1. new[i].epoch = requests[i].epoch /\ new[j].epoch = requests[j].epoch
    BY <1>2
  <2>2. requests[i].sharesRemaining = 0 => new[i].sharesRemaining = 0
    BY <1>2, <1>3
  <2>3. CASE requests[j].assetsReserved > 0
    BY <1>1, <1>4, <2>1, <2>2, <2>3 DEF InOrder
  <2>4. CASE ~(requests[j].assetsReserved > 0)
    <3>1. j = id
      BY <1>2, <1>4, <2>4
    <3>2. id = withdrawalHead /\ q.epoch = currentEpoch
      BY <1>2, <1>3, <1>4, <2>4, <3>1
    <3>3. i < withdrawalHead /\ requests[i].epoch = currentEpoch
      BY <1>2, <1>4, <2>1, <3>1, <3>2
    <3> QED
      BY <1>1, <2>2, <3>3 DEF InOrder
  <2> QED
    BY <2>3, <2>4
<1>5. ASSUME NEW i \in 1 .. Len(requests), i < head, new[i].epoch = currentEpoch
      PROVE  new[i].sharesRemaining = 0
  <2>1. new[i].epoch = requests[i].epoch
    BY <1>2
  <2>2. requests[i].sharesRemaining = 0 => new[i].sharesRemaining = 0
    BY <1>2, <1>3
  <2>3. CASE i < withdrawalHead
    BY <1>1, <1>5, <2>1, <2>2, <2>3 DEF InOrder
  <2>4. CASE ~(i < withdrawalHead)
    <3>1. i = id /\ q.sharesRemaining = 0
      BY <1>1, <1>5, <2>4
    <3> QED
      BY <1>2, <3>1
  <2> QED
    BY <2>3, <2>4
<1> QED
  BY <1>2, <1>4, <1>5 DEF InOrder

LEMMA RevisedQueue ==
  ASSUME QueueInv, NEW id \in 1 .. Len(requests), NEW new, NEW q, Revised(new, id, q),
         q.sharesRemaining <= requests[id].sharesRemaining, FloorKept(q),
         NEW head \in 1 .. Len(requests) + 1, InOrder(new, head, currentEpoch)
  PROVE  QueueOf(new, head, currentEpoch)
<1>1. /\ requests \in Seq(WithdrawalRequest) /\ currentEpoch \in Epochs
      /\ \A j \in 1 .. Len(requests) : Sane(requests[j], currentEpoch)
      /\ \A j \in 1 .. Len(requests) : FloorKept(requests[j])
  BY DEF QueueInv, QueueOf
<1>2. /\ new \in Seq(WithdrawalRequest) /\ Len(new) = Len(requests) /\ new[id] = q
      /\ \A j \in 1 .. Len(requests) : j # id => new[j] = requests[j]
  BY DEF Revised
<1>3. Sane(q, currentEpoch)
  <2>1. /\ q.sharesRemaining \in Nat /\ requests[id].sharesRemaining \in Nat
        /\ requests[id].sharesRequested \in Nat
    <3>1. q \in WithdrawalRequest
      BY DEF Revised
    <3> QED
      BY <1>1, <3>1, RequestFields DEF WithdrawalRequest
  <2>2. q.epoch = requests[id].epoch /\ q.sharesRequested = requests[id].sharesRequested
    BY DEF Revised
  <2>3. Sane(requests[id], currentEpoch)
    BY <1>1
  <2> QED
    BY <2>1, <2>2, <2>3 DEF Sane
<1>4. \A j \in 1 .. Len(new) : Sane(new[j], currentEpoch)
  BY <1>1, <1>2, <1>3, Zenon
<1>5. \A j \in 1 .. Len(new) : FloorKept(new[j])
  BY <1>1, <1>2, Zenon
<1> QED
  BY <1>1, <1>2, <1>4, <1>5 DEF QueueOf

(* The epoch of the requests is the current one or an earlier. *)
LEMMA EpochsAreInts == Epochs \subseteq Int /\ Epochs \subseteq Nat
  BY VaultConstants DEF Epochs

(* A fill at or above its rounded-up minimum keeps the floor over all fills. *)
LEMMA FillKeepsFloor ==
  ASSUME NEW r \in WithdrawalRequest, NEW q \in WithdrawalRequest,
         NEW n \in 0 .. r.sharesRemaining, NEW a \in Nat, FloorKept(r),
         r.sharesRequested # 0, r.sharesRemaining <= r.sharesRequested,
         a >= FillMinimum(r, n),
         q.cancelled = r.cancelled, q.sharesRequested = r.sharesRequested,
         q.minAssets = r.minAssets, q.sharesRemaining = r.sharesRemaining - n,
         q.assetsReserved = r.assetsReserved + a
  PROVE  FloorKept(q)
<1>1. PICK res, req, min, rem : /\ res = r.assetsReserved /\ req = r.sharesRequested
                                /\ min = r.minAssets /\ rem = r.sharesRemaining
  OBVIOUS
<1>2. /\ res \in Nat /\ req \in Nat \ {0} /\ min \in Nat /\ rem \in Nat /\ n \in 0 .. rem
      /\ rem <= req
  BY <1>1 DEF WithdrawalRequest
<1>3. min * n \in Nat /\ n \in Nat
  BY <1>2
<1>4. a * req >= min * n
  <2>1. a >= (min * n + req - 1) \div req
    BY <1>1 DEF FillMinimum
  <2> QED
    BY <1>2, <1>3, <2>1, RoundedUp
<1>5. ASSUME FloorMet(r)
      PROVE  FloorMet(q)
  <2>1. res * req >= min * (req - rem)
    BY <1>1, <1>5 DEF FloorMet
  <2>2. (res + a) * req = res * req + a * req
    BY <1>2
  <2>3. min * (req - (rem - n)) = min * (req - rem) + min * n
    BY <1>2
  <2>4. res * req \in Nat /\ a * req \in Nat /\ min * (req - rem) \in Int
    BY <1>2
  <2>5. (res + a) * req >= min * (req - (rem - n))
    BY <1>3, <1>4, <2>1, <2>2, <2>3, <2>4
  <2> QED
    BY <1>1, <2>5 DEF FloorMet
<1> QED
  BY <1>5, Zenon DEF FloorKept

LEMMA QueueStep ==
  ASSUME QueueInv, CashInv, BookInv, totalShares \in Nat, now \in Nat, [Next]_vars
  PROVE  QueueInv'
<1>0. /\ requests \in Seq(WithdrawalRequest) /\ currentEpoch \in Epochs
      /\ withdrawalHead \in 1 .. Len(requests) + 1
      /\ \A id \in 1 .. Len(requests) : Sane(requests[id], currentEpoch)
      /\ \A id \in 1 .. Len(requests) : FloorKept(requests[id])
      /\ InOrder(requests, withdrawalHead, currentEpoch)
      /\ Len(requests) \in Nat
      /\ currentEpoch \in Int
  BY EpochsAreInts DEF QueueInv, QueueOf
<1> SUFFICES QueueOf(requests', withdrawalHead', currentEpoch')
  BY DEF QueueInv
<1> DEFINE Good == QueueOf(requests', withdrawalHead', currentEpoch')
<1>1. ASSUME NEW lp \in LPs, NEW n \in ShareAmounts, NEW m \in MinAssets, RequestWithdrawal(lp, n, m)
      PROVE  Good
  <2>1. n \in Nat /\ m \in Nat /\ n # 0 /\ now + WithdrawalTTL \in Nat
    BY <1>1, VaultConstants DEF RequestWithdrawal
  <2>2. PICK q : q = [owner |-> lp, epoch |-> currentEpoch,
                expiresAt |-> now + WithdrawalTTL, sharesRequested |-> n,
                sharesRemaining |-> n, minAssets |-> m,
                assetsReserved |-> 0, assetsClaimed |-> 0, cancelled |-> FALSE]
    OBVIOUS
  <2>3. /\ q \in WithdrawalRequest /\ q.epoch = currentEpoch /\ q.assetsReserved = 0
        /\ q.sharesRequested = n /\ q.sharesRemaining = n /\ q.minAssets = m
    BY <1>0, <2>1, <2>2 DEF WithdrawalRequest
  <2>4. /\ requests' = Append(requests, q)
        /\ UNCHANGED <<withdrawalHead, currentEpoch>>
    BY <1>1, <2>2 DEF RequestWithdrawal, epochVars
  <2>5. PICK new, k : new = Append(requests, q) /\ k = Len(requests) + 1
    OBVIOUS
  <2>6. /\ new \in Seq(WithdrawalRequest) /\ Len(new) = k /\ new[k] = q /\ k \in Nat
        /\ \A j \in 1 .. Len(requests) : new[j] = requests[j]
        /\ \A j \in 1 .. k : j = k \/ j \in 1 .. Len(requests)
    BY <1>0, <2>3, <2>5
  <2>7. Sane(q, currentEpoch)
    BY <1>0, <2>1, <2>3 DEF Sane
  <2>8. FloorKept(q)
    <3>1. FloorMet(q)
      BY <2>1, <2>3 DEF FloorMet
    <3> QED
      BY <3>1 DEF FloorKept
  <2>9. withdrawalHead \in 1 .. Len(new) + 1
    BY <1>0, <2>5, <2>6
  <2>10. InOrder(new, withdrawalHead, currentEpoch)
    BY <1>0, <2>3, <2>5, <2>6 DEF InOrder
  <2>11. \A j \in 1 .. Len(new) : Sane(new[j], currentEpoch) /\ FloorKept(new[j])
    BY <1>0, <2>6, <2>7, <2>8, Zenon
  <2>12. QueueOf(new, withdrawalHead, currentEpoch)
    BY <1>0, <2>6, <2>9, <2>10, <2>11, Zenon DEF QueueOf
  <2> QED
    BY <2>4, <2>5, <2>12
<1>c. ASSUME NEW id \in 1 .. Len(requests), CancelRemaining(id), UNCHANGED currentEpoch,
             \/ withdrawalHead' = withdrawalHead
             \/ withdrawalHead' = withdrawalHead + 1 /\ id = withdrawalHead
      PROVE  Good
  <2>1. PICK q : /\ Revised(requests', id, q)
                 /\ q.sharesRemaining = 0 /\ q.cancelled = TRUE
                 /\ q.assetsReserved = requests[id].assetsReserved
    BY <1>0, <1>c, CancelEffect
  <2>2. PICK new, head : new = requests' /\ head = withdrawalHead'
    OBVIOUS
  <2>3. FloorKept(q)
    BY <2>1, Zenon DEF FloorKept
  <2>4. q.sharesRemaining <= requests[id].sharesRemaining
    BY <1>0, <2>1, RequestFields
  <2>5. head \in 1 .. Len(requests) + 1
    BY <1>0, <1>c, <2>2
  <2>6. Revised(new, id, q)
    BY <2>1, <2>2
  <2>7. InOrder(new, head, currentEpoch)
    BY <1>c, <2>1, <2>2, <2>4, <2>6, RevisedInOrder
  <2>8. QueueOf(new, head, currentEpoch)
    BY <2>3, <2>4, <2>5, <2>6, <2>7, RevisedQueue
  <2> QED
    BY <1>c, <2>2, <2>8
<1>2. ASSUME NEW id \in 1 .. Len(requests), CancelWithdrawal(id)
      PROVE  Good
  BY <1>2, <1>c DEF CancelWithdrawal, epochVars
<1>3. ASSUME ProcessWithdrawals
      PROVE  Good
  <2>1. PICK id : id = withdrawalHead
    OBVIOUS
  <2>2. id \in 1 .. Len(requests) /\ UNCHANGED currentEpoch
    BY <1>0, <1>3, <2>1 DEF ProcessWithdrawals, epochVars
  <2>3. CASE /\ requests[id].sharesRemaining = 0 \/ requests[id].epoch # currentEpoch
             /\ withdrawalHead' = withdrawalHead + 1
             /\ UNCHANGED requests
    <3>1. InOrder(requests, withdrawalHead + 1, currentEpoch)
      <4>1. ASSUME NEW i \in 1 .. Len(requests), i < withdrawalHead + 1,
                   requests[i].epoch = currentEpoch
            PROVE  requests[i].sharesRemaining = 0
        <5>1. i < withdrawalHead \/ i = id
          BY <1>0, <2>1, <4>1
        <5> QED
          BY <1>0, <2>3, <4>1, <5>1 DEF InOrder
      <4> QED
        BY <1>0, <4>1 DEF InOrder
    <3>2. withdrawalHead + 1 \in 1 .. Len(requests) + 1
      BY <1>0, <2>1, <2>2
    <3> QED
      BY <1>0, <2>2, <2>3, <3>1, <3>2, Zenon DEF QueueOf
  <2>4. CASE CancelRemaining(id) /\ withdrawalHead' = withdrawalHead + 1
    BY <1>c, <2>1, <2>2, <2>4
  <2>5. CASE /\ requests[id].sharesRemaining # 0 /\ requests[id].epoch = currentEpoch
             /\ Fill(id, FillShares(requests[id]), ConvertToAssets(FillShares(requests[id])))
    <3>1. PICK n, a : n = FillShares(requests[id]) /\ a = ConvertToAssets(n)
      OBVIOUS
    <3>2. Fill(id, n, a)
      BY <2>5, <3>1
    <3>3. n \in 0 .. requests[id].sharesRemaining
      BY <1>0, <2>2, <3>1, RequestFields, FillSharesFit
    <3>4. a \in Nat /\ a >= FillMinimum(requests[id], n)
          /\ withdrawalHead' = HeadAfterFill(requests[id], n)
      BY <3>2, LpCashFacts DEF Fill
    <3>5. PICK q : /\ Revised(requests', id, q)
                   /\ q.sharesRemaining = requests[id].sharesRemaining - n
                   /\ q.cancelled = requests[id].cancelled
                   /\ q.assetsReserved = requests[id].assetsReserved + a
      BY <1>0, <2>2, <3>2, <3>3, <3>4, FillEffect
    <3>6. PICK new, head : new = requests' /\ head = withdrawalHead'
      OBVIOUS
    <3>7. Revised(new, id, q)
      BY <3>5, <3>6
    <3>8. /\ q \in WithdrawalRequest /\ requests[id] \in WithdrawalRequest
          /\ requests[id].sharesRemaining \in Nat
          /\ q.sharesRequested = requests[id].sharesRequested
          /\ q.minAssets = requests[id].minAssets /\ q.epoch = requests[id].epoch
      BY <1>0, <2>2, <3>7, RequestFields DEF Revised
    <3>9. FloorKept(q)
      <4>1. FloorKept(requests[id]) /\ Sane(requests[id], currentEpoch)
        BY <1>0, <2>2
      <4>2. /\ requests[id].sharesRequested # 0
            /\ requests[id].sharesRemaining <= requests[id].sharesRequested
        BY <4>1 DEF Sane
      <4> QED
        BY <3>3, <3>4, <3>5, <3>8, <4>1, <4>2, FillKeepsFloor
    <3>10. q.sharesRemaining <= requests[id].sharesRemaining
      BY <3>3, <3>5, <3>8
    <3>11. \/ head = withdrawalHead
           \/ head = withdrawalHead + 1 /\ id = withdrawalHead /\ q.sharesRemaining = 0
      BY <2>1, <3>3, <3>4, <3>5, <3>6, <3>8 DEF HeadAfterFill
    <3>12. head \in 1 .. Len(requests) + 1
      BY <1>0, <2>1, <2>2, <3>11
    <3>13. InOrder(new, head, currentEpoch)
      BY <2>1, <2>2, <2>5, <3>7, <3>8, <3>10, <3>11, RevisedInOrder
    <3>14. QueueOf(new, head, currentEpoch)
      BY <2>2, <3>7, <3>9, <3>10, <3>12, <3>13, RevisedQueue
    <3> QED
      BY <2>2, <3>6, <3>14
  <2> QED
    BY <1>3, <2>1, <2>3, <2>4, <2>5 DEF ProcessWithdrawals
<1>4. ASSUME NEW id \in 1 .. Len(requests), ClaimWithdrawal(id)
      PROVE  Good
  <2>1. PICK q : /\ Revised(requests', id, q)
                 /\ q.sharesRemaining = requests[id].sharesRemaining
                 /\ q.cancelled = requests[id].cancelled
                 /\ q.assetsReserved = requests[id].assetsReserved
    BY <1>0, <1>4, ClaimEffect
  <2>2. PICK new : new = requests'
    OBVIOUS
  <2>3. Revised(new, id, q) /\ UNCHANGED <<withdrawalHead, currentEpoch>>
    BY <1>4, <2>1, <2>2 DEF ClaimWithdrawal, epochVars
  <2>4. q.sharesRequested = requests[id].sharesRequested /\ q.minAssets = requests[id].minAssets
    BY <2>3 DEF Revised
  <2>5. FloorKept(q)
    <3>1. FloorMet(requests[id]) => FloorMet(q)
      BY <2>1, <2>4 DEF FloorMet
    <3>2. FloorKept(requests[id])
      BY <1>0
    <3> QED
      BY <2>1, <3>1, <3>2, Zenon DEF FloorKept
  <2>6. q.sharesRemaining <= requests[id].sharesRemaining
    BY <1>0, <2>1, RequestFields
  <2>7. InOrder(new, withdrawalHead, currentEpoch)
    BY <2>1, <2>3, <2>6, RevisedInOrder
  <2>8. QueueOf(new, withdrawalHead, currentEpoch)
    BY <1>0, <2>3, <2>5, <2>6, <2>7, RevisedQueue
  <2> QED
    BY <2>2, <2>3, <2>8
<1>5. ASSUME RollLossEpoch
      PROVE  Good
  <2>1. /\ UNCHANGED requests /\ withdrawalHead' = Len(requests) + 1
        /\ currentEpoch' = currentEpoch + 1 /\ currentEpoch < MaxEpoch
    BY <1>5 DEF RollLossEpoch
  <2>2. currentEpoch + 1 \in Epochs
    BY <1>0, <2>1, VaultConstants DEF Epochs
  <2>3. /\ \A id \in 1 .. Len(requests) : requests[id].epoch \in Int
        /\ \A id \in 1 .. Len(requests) : requests[id].epoch <= currentEpoch
    BY <1>0, RequestFields, EpochsAreInts DEF Sane
  <2>4. \A id \in 1 .. Len(requests) : Sane(requests[id], currentEpoch + 1)
    BY <1>0, <2>3 DEF Sane
  <2>5. InOrder(requests, Len(requests) + 1, currentEpoch + 1)
    <3>1. \A id \in 1 .. Len(requests) : requests[id].epoch # currentEpoch + 1
      <4>1. currentEpoch \in Int
        BY <1>0, EpochsAreInts
      <4> QED
        BY <2>3, <4>1
    <3>2. InOrder(requests, withdrawalHead, currentEpoch)
      BY <1>0
    <3> QED
      BY <3>1, <3>2, Zenon DEF InOrder
  <2>6. Len(requests) + 1 \in 1 .. Len(requests) + 1
    BY <1>0
  <2> QED
    BY <1>0, <2>1, <2>2, <2>4, <2>5, <2>6, Zenon DEF QueueOf
<1>6. ASSUME UNCHANGED <<requests, withdrawalHead, currentEpoch>>
      PROVE  Good
  BY <1>6, Zenon DEF QueueInv
<1>7. \/ \E lp \in LPs, n \in ShareAmounts, m \in MinAssets : RequestWithdrawal(lp, n, m)
      \/ \E id \in 1 .. Len(requests) : CancelWithdrawal(id) \/ ClaimWithdrawal(id)
      \/ ProcessWithdrawals \/ RollLossEpoch
      \/ UNCHANGED <<requests, withdrawalHead, currentEpoch>>
  BY Zenon DEF Next, vars, queueVars, epochVars, SetDepositsPaused, Deposit, Withdraw,
     TransferShares, ClaimEpochRecovery, Lend, OnRepayment, RefundExcess, RecordRecovery,
     RecognizeImpairment, ReverseImpairment, WriteOff, Donate, Tick
<1> HIDE DEF Good
<1>z. Good
  BY <1>1, <1>2, <1>3, <1>4, <1>5, <1>6, <1>7, Zenon
<1> QED
  BY <1>z DEF Good

-----------------------------------------------------------------------------
(* Funded withdrawals *)

ReservedInv == totalWithdrawalReserved = OwedSum(requests)

LEMMA ReservedStep ==
  ASSUME ReservedInv, QueueInv, CashInv, BookInv, totalShares \in Nat, now \in Nat, [Next]_vars
  PROVE  ReservedInv'
<1>0. /\ requests \in Seq(WithdrawalRequest) /\ currentEpoch \in Epochs
      /\ withdrawalHead \in 1 .. Len(requests) + 1
      /\ totalWithdrawalReserved = OwedSum(requests)
      /\ totalWithdrawalReserved \in Nat
  BY DEF QueueInv, QueueOf, ReservedInv, CashInv
<1> SUFFICES totalWithdrawalReserved' = OwedSum(requests')
  BY DEF ReservedInv
<1> DEFINE Good == totalWithdrawalReserved' = OwedSum(requests')
<1>1. ASSUME NEW lp \in LPs, NEW n \in ShareAmounts, NEW m \in MinAssets, RequestWithdrawal(lp, n, m)
      PROVE  Good
  <2>1. n \in Nat /\ m \in Nat /\ now + WithdrawalTTL \in Nat
    BY VaultConstants
  <2>2. PICK q : q = [owner |-> lp, epoch |-> currentEpoch,
                expiresAt |-> now + WithdrawalTTL, sharesRequested |-> n,
                sharesRemaining |-> n, minAssets |-> m,
                assetsReserved |-> 0, assetsClaimed |-> 0, cancelled |-> FALSE]
    OBVIOUS
  <2>3. q \in WithdrawalRequest /\ Unfunded(q)
    BY <1>0, <2>1, <2>2 DEF WithdrawalRequest, Unfunded
  <2>4. requests' = Append(requests, q) /\ UNCHANGED totalWithdrawalReserved
    BY <1>1, <2>2 DEF RequestWithdrawal, liabilityVars
  <2>5. OwedSum(Append(requests, q)) = OwedSum(requests)
    BY <1>0, <2>3, OwedAppended
  <2> QED
    BY <1>0, <2>4, <2>5
<1>r. ASSUME NEW id \in 1 .. Len(requests), NEW q, Revised(requests', id, q), NEW d \in Int,
             q.assetsReserved - q.assetsClaimed
                = requests[id].assetsReserved - requests[id].assetsClaimed + d,
             totalWithdrawalReserved' = totalWithdrawalReserved + d
      PROVE  Good
  <2>1. PICK new : new = requests'
    OBVIOUS
  <2>2. Revised(new, id, q)
    BY <1>r, <2>1
  <2>3. OwedSum(new) = OwedSum(requests) + d
    BY <1>0, <1>r, <2>2, OwedRevised
  <2> QED
    BY <1>0, <1>r, <2>1, <2>3
<1>c. ASSUME NEW id \in 1 .. Len(requests), CancelRemaining(id), UNCHANGED totalWithdrawalReserved
      PROVE  Good
  <2>1. PICK q : /\ Revised(requests', id, q)
                 /\ q.assetsReserved = requests[id].assetsReserved
                 /\ q.assetsClaimed = requests[id].assetsClaimed
    BY <1>0, <1>c, CancelEffect
  <2>2. requests[id].assetsReserved \in Nat /\ requests[id].assetsClaimed \in Nat
    BY <1>0, RequestFields
  <2>3. /\ q.assetsReserved - q.assetsClaimed
              = requests[id].assetsReserved - requests[id].assetsClaimed + 0
        /\ totalWithdrawalReserved' = totalWithdrawalReserved + 0
        /\ 0 \in Int
    BY <1>0, <1>c, <2>1, <2>2
  <2> QED
    BY <1>r, <2>1, <2>3
<1>2. ASSUME NEW id \in 1 .. Len(requests), CancelWithdrawal(id)
      PROVE  Good
  BY <1>2, <1>c DEF CancelWithdrawal, liabilityVars
<1>3. ASSUME ProcessWithdrawals
      PROVE  Good
  <2>1. PICK id : id = withdrawalHead
    OBVIOUS
  <2>2. id \in 1 .. Len(requests)
    BY <1>0, <1>3, <2>1 DEF ProcessWithdrawals
  <2>3. CASE UNCHANGED <<requests, totalWithdrawalReserved>>
    BY <1>0, <2>3
  <2>4. CASE CancelRemaining(id) /\ UNCHANGED totalWithdrawalReserved
    BY <1>c, <2>2, <2>4
  <2>5. CASE Fill(id, FillShares(requests[id]), ConvertToAssets(FillShares(requests[id])))
    <3>1. PICK n, a : n = FillShares(requests[id]) /\ a = ConvertToAssets(n)
      OBVIOUS
    <3>2. Fill(id, n, a)
      BY <2>5, <3>1
    <3>3. n \in 0 .. requests[id].sharesRemaining
      BY <1>0, <2>2, <3>1, RequestFields, FillSharesFit
    <3>4. a \in Nat /\ totalWithdrawalReserved' = totalWithdrawalReserved + a
      BY <3>2, LpCashFacts DEF Fill
    <3>5. PICK q : /\ Revised(requests', id, q)
                   /\ q.assetsReserved = requests[id].assetsReserved + a
                   /\ q.assetsClaimed = requests[id].assetsClaimed
      BY <1>0, <2>2, <3>2, <3>3, <3>4, FillEffect
    <3>6. requests[id].assetsReserved \in Nat /\ requests[id].assetsClaimed \in Nat
      BY <1>0, <2>2, RequestFields
    <3>7. q.assetsReserved - q.assetsClaimed
            = requests[id].assetsReserved - requests[id].assetsClaimed + a /\ a \in Int
      BY <3>4, <3>5, <3>6
    <3> QED
      BY <1>r, <2>2, <3>4, <3>5, <3>7
  <2> QED
    BY <1>3, <2>1, <2>3, <2>4, <2>5 DEF ProcessWithdrawals
<1>4. ASSUME NEW id \in 1 .. Len(requests), ClaimWithdrawal(id)
      PROVE  Good
  <2>1. PICK q : /\ Revised(requests', id, q)
                 /\ q.assetsReserved = requests[id].assetsReserved
                 /\ q.assetsClaimed = requests[id].assetsReserved
    BY <1>0, <1>4, ClaimEffect
  <2>2. requests[id].assetsReserved \in Nat /\ requests[id].assetsClaimed \in Nat
    BY <1>0, RequestFields
  <2>3. PICK d : d = -(requests[id].assetsReserved - requests[id].assetsClaimed)
    OBVIOUS
  <2>4. totalWithdrawalReserved' = totalWithdrawalReserved
            - (requests[id].assetsReserved - requests[id].assetsClaimed)
    BY <1>4 DEF ClaimWithdrawal
  <2>5. /\ d \in Int /\ totalWithdrawalReserved' = totalWithdrawalReserved + d
        /\ q.assetsReserved - q.assetsClaimed
              = requests[id].assetsReserved - requests[id].assetsClaimed + d
    BY <1>0, <2>1, <2>2, <2>3, <2>4
  <2> QED
    BY <1>r, <2>1, <2>5
<1>5. ASSUME UNCHANGED <<requests, totalWithdrawalReserved>>
      PROVE  Good
  BY <1>0, <1>5
<1>6. \/ \E lp \in LPs, n \in ShareAmounts, m \in MinAssets : RequestWithdrawal(lp, n, m)
      \/ \E id \in 1 .. Len(requests) : CancelWithdrawal(id) \/ ClaimWithdrawal(id)
      \/ ProcessWithdrawals
      \/ UNCHANGED <<requests, totalWithdrawalReserved>>
  BY Zenon DEF Next, vars, queueVars, liabilityVars, SetDepositsPaused, Deposit, Withdraw,
     TransferShares, RollLossEpoch, ClaimEpochRecovery, Lend, OnRepayment, RefundExcess,
     RecordRecovery, RecognizeImpairment, ReverseImpairment, WriteOff, Donate, Tick
<1> HIDE DEF Good
<1>z. Good
  BY <1>1, <1>2, <1>3, <1>4, <1>5, <1>6, Zenon
<1> QED
  BY <1>z DEF Good

-----------------------------------------------------------------------------
(* Shares and locks *)

PerLender == [Epochs -> [LPs -> Nat]]

(* The supply is the balances of epoch cur, and later epochs have none. *)
SupplyOf(total, sh, cur) ==
    /\ sh \in PerLender
    /\ total = SumFunctionOnSet(sh[cur], LPs)
    /\ \A e \in Epochs, lp \in LPs : e > cur => sh[e][lp] = 0

(* Each lock is what is left of its account's requests, out of its shares. *)
LocksOf(lk, sh, reqs) ==
    /\ lk \in PerLender
    /\ \A e \in Epochs, lp \in LPs : lk[e][lp] <= sh[e][lp]
    /\ \A e \in Epochs, lp \in LPs : lk[e][lp] = LeftSum(reqs, {lp}, e)

AccountInv ==
    /\ SupplyOf(totalShares, shares, currentEpoch)
    /\ LocksOf(lockedShares, shares, requests)
    /\ pendingWithdrawalShares = LeftSum(requests, LPs, currentEpoch)

LEMMA SupplyNat ==
  ASSUME NEW total, NEW sh, NEW cur \in Epochs, SupplyOf(total, sh, cur)
  PROVE  total \in Nat /\ \A lp \in LPs : sh[cur][lp] <= total
<1>1. PICK f : f = sh[cur]
  OBVIOUS
<1>2. \A lp \in LPs : f[lp] \in Nat
  BY <1>1 DEF SupplyOf, PerLender
<1>3. SumFunctionOnSet(f, LPs) \in Nat /\ \A lp \in LPs : f[lp] <= SumFunctionOnSet(f, LPs)
  BY <1>2, VaultConstants, SumNat
<1> QED
  BY <1>1, <1>3 DEF SupplyOf

LEMMA AccountInvGives ==
  ASSUME AccountInv, QueueInv
  PROVE  /\ SharesAccounted
         /\ totalShares \in Nat /\ pendingWithdrawalShares \in Nat
         /\ shares \in PerLender /\ lockedShares \in PerLender
<1>1. requests \in Seq(WithdrawalRequest) /\ currentEpoch \in Epochs
  BY DEF QueueInv, QueueOf
<1>2. totalShares \in Nat /\ shares \in PerLender /\ lockedShares \in PerLender
  BY <1>1, SupplyNat DEF AccountInv, SupplyOf, LocksOf
<1>3. pendingWithdrawalShares \in Nat
  BY <1>1, LeftNat DEF AccountInv
<1>4. Left(requests, LPs, currentEpoch)
        = [id \in DOMAIN requests |-> IF requests[id].epoch = currentEpoch
                                      THEN requests[id].sharesRemaining ELSE 0]
  <2>1. \A id \in DOMAIN requests : requests[id].owner \in LPs
    BY <1>1, RequestFields
  <2> QED
    BY <2>1 DEF Left
<1>5. ASSUME NEW e \in Epochs, NEW lp \in LPs
      PROVE  Left(requests, {lp}, e)
               = [id \in DOMAIN requests |-> IF requests[id].epoch = e /\ requests[id].owner = lp
                                             THEN requests[id].sharesRemaining ELSE 0]
  BY DEF Left
<1>6. SharesAccounted
  <2>1. totalShares = SumFunctionOnSet(shares[currentEpoch], LPs)
    BY DEF AccountInv, SupplyOf
  <2>2. pendingWithdrawalShares = SumFunctionOnSet(Left(requests, LPs, currentEpoch), DOMAIN requests)
    BY DEF AccountInv, LeftSum
  <2>3. ASSUME NEW e \in Epochs, NEW lp \in LPs
        PROVE  /\ lockedShares[e][lp] <= shares[e][lp]
               /\ lockedShares[e][lp] = SumFunctionOnSet(Left(requests, {lp}, e), DOMAIN requests)
    BY Zenon DEF AccountInv, LocksOf, LeftSum
  <2>4. ASSUME NEW e \in Epochs, NEW lp \in LPs
        PROVE  lockedShares[e][lp]
                 = SumFunctionOnSet([id \in DOMAIN requests |->
                                       IF requests[id].epoch = e /\ requests[id].owner = lp
                                       THEN requests[id].sharesRemaining ELSE 0],
                                    DOMAIN requests)
    BY <1>5, <2>3, Zenon
  <2>5. pendingWithdrawalShares
          = SumFunctionOnSet([id \in DOMAIN requests |-> IF requests[id].epoch = currentEpoch
                                                         THEN requests[id].sharesRemaining ELSE 0],
                             DOMAIN requests)
    BY <1>4, <2>2, Zenon
  <2> QED
    BY <2>1, <2>3, <2>4, <2>5, Zenon DEF SharesAccounted
<1> QED
  BY <1>2, <1>3, <1>6

(* One account's entry of one epoch moves by d. *)
Moved(new, old, e, lp, d) ==
    /\ new \in PerLender
    /\ new[e][lp] = old[e][lp] + d
    /\ \A e1 \in Epochs, x \in LPs : (e1 # e \/ x # lp) => new[e1][x] = old[e1][x]

LEMMA MovedBy ==
  ASSUME NEW old \in PerLender, NEW e \in Epochs, NEW lp \in LPs, NEW d \in Int, NEW v \in Nat,
         v = old[e][lp] + d, NEW new, new = [old EXCEPT ![e][lp] = v]
  PROVE  Moved(new, old, e, lp, d)
  BY DEF Moved, PerLender

LEMMA SupplyMoves ==
  ASSUME NEW total, NEW sh, NEW cur \in Epochs, SupplyOf(total, sh, cur),
         NEW new, NEW lp \in LPs, NEW d \in Int, Moved(new, sh, cur, lp, d)
  PROVE  SupplyOf(total + d, new, cur)
<1>1. PICK f, g : f = sh[cur] /\ g = new[cur]
  OBVIOUS
<1>2. \A x \in LPs : f[x] \in Int
  BY <1>1 DEF SupplyOf, PerLender
<1>3. (\A x \in LPs \ {lp} : g[x] = f[x]) /\ g[lp] = f[lp] + d
  BY <1>1 DEF Moved
<1>4. IsFiniteSet(LPs)
  BY VaultConstants
<1>5. SumFunctionOnSet(g, LPs) = SumFunctionOnSet(f, LPs) + d
  BY <1>2, <1>3, <1>4, TotalMoves
<1>6. \A e \in Epochs, x \in LPs : e > cur => new[e][x] = 0
  BY EpochsAreInts DEF SupplyOf, Moved
<1> QED
  BY <1>1, <1>5, <1>6 DEF SupplyOf, Moved

(* Shares that are not locked may come and go. *)
LEMMA LocksUnderMove ==
  ASSUME NEW lk, NEW sh \in PerLender, NEW reqs, LocksOf(lk, sh, reqs), NEW new,
         NEW e \in Epochs, NEW lp \in LPs, NEW d \in Int, Moved(new, sh, e, lp, d),
         lk[e][lp] <= sh[e][lp] + d
  PROVE  LocksOf(lk, new, reqs)
  BY DEF LocksOf, Moved

(* Locks follow the requests. *)
LEMMA LocksMove ==
  ASSUME NEW lk, NEW sh, NEW reqs, LocksOf(lk, sh, reqs), NEW lk2, NEW sh2, NEW reqs2,
         NEW e \in Epochs, NEW lp \in LPs, NEW d \in Int, Moved(lk2, lk, e, lp, d),
         \A e1 \in Epochs, x \in LPs : lk2[e1][x] <= sh2[e1][x],
         \A e1 \in Epochs, x \in LPs :
            (e1 # e \/ x # lp) => LeftSum(reqs2, {x}, e1) = LeftSum(reqs, {x}, e1),
         LeftSum(reqs2, {lp}, e) = LeftSum(reqs, {lp}, e) + d
  PROVE  LocksOf(lk2, sh2, reqs2)
<1>1. ASSUME NEW e1 \in Epochs, NEW x \in LPs
      PROVE  lk2[e1][x] = LeftSum(reqs2, {x}, e1)
  BY DEF LocksOf, Moved
<1> QED
  BY <1>1 DEF LocksOf, Moved

(* A request of lp in epoch e that gives up n shares frees n of its lock   *)
(* and takes n off the queue of that epoch; nothing else moves.            *)
Release(new, e, lp, n) ==
    /\ e \in Epochs /\ lp \in LPs /\ n \in Nat
    /\ n <= lockedShares[e][lp]
    /\ LeftSum(new, {lp}, e) = LeftSum(requests, {lp}, e) + (-n)
    /\ \A e1 \in Epochs, x \in LPs :
          (e1 # e \/ x # lp) => LeftSum(new, {x}, e1) = LeftSum(requests, {x}, e1)
    /\ e = currentEpoch
          => LeftSum(new, LPs, currentEpoch) = LeftSum(requests, LPs, currentEpoch) - n
    /\ e # currentEpoch
          => LeftSum(new, LPs, currentEpoch) = LeftSum(requests, LPs, currentEpoch)

LEMMA Released ==
  ASSUME QueueInv, AccountInv, NEW id \in 1 .. Len(requests), NEW new, NEW q,
         Revised(new, id, q), NEW n \in 0 .. requests[id].sharesRemaining,
         q.sharesRemaining = requests[id].sharesRemaining - n,
         NEW e, NEW lp, e = requests[id].epoch, lp = requests[id].owner
  PROVE  Release(new, e, lp, n)
<1>0. requests \in Seq(WithdrawalRequest)
  BY DEF QueueInv, QueueOf
<1>1. e \in Epochs /\ lp \in LPs /\ requests[id].sharesRemaining \in Nat
  BY <1>0, RequestFields
<1>2. n \in Nat /\ -n \in Int /\ q.sharesRemaining - requests[id].sharesRemaining = -n
  BY <1>1
<1>3. q.epoch = e /\ q.owner = lp
  BY DEF Revised
<1>4. ASSUME NEW own, NEW e1
      PROVE  LeftSum(requests, own, e1) \in Nat
  BY <1>0, LeftNat
<1>5. ASSUME NEW own, NEW e1, e1 = e /\ lp \in own
      PROVE  LeftSum(new, own, e1) = LeftSum(requests, own, e1) + (-n)
  <2>1. PICK d : d = -n
    OBVIOUS
  <2>2. d = IF q.epoch = e1 /\ q.owner \in own
            THEN q.sharesRemaining - requests[id].sharesRemaining ELSE 0
    BY <1>2, <1>3, <1>5, <2>1
  <2>3. d \in Int
    BY <1>2, <2>1
  <2>4. LeftSum(new, own, e1) = LeftSum(requests, own, e1) + d
    BY <1>0, <2>2, <2>3, LeftRevised
  <2> QED
    BY <2>1, <2>4
<1>6. ASSUME NEW own, NEW e1, e1 # e \/ lp \notin own
      PROVE  LeftSum(new, own, e1) = LeftSum(requests, own, e1)
  <2>1. PICK d : d = 0
    OBVIOUS
  <2>2. d = IF q.epoch = e1 /\ q.owner \in own
            THEN q.sharesRemaining - requests[id].sharesRemaining ELSE 0
    BY <1>3, <1>6, <2>1
  <2>3. d \in Int
    BY <2>1
  <2>4. LeftSum(new, own, e1) = LeftSum(requests, own, e1) + d
    BY <1>0, <2>2, <2>3, LeftRevised
  <2> QED
    BY <1>4, <2>1, <2>4
<1>7. n <= lockedShares[e][lp]
  <2>1. /\ Left(requests, {lp}, e)[id] <= LeftSum(requests, {lp}, e)
        /\ LeftSum(requests, {lp}, e) \in Nat
    BY <1>0, LeftNat
  <2>2. Left(requests, {lp}, e)[id] = requests[id].sharesRemaining
    BY <1>0 DEF Left
  <2>3. lockedShares[e][lp] = LeftSum(requests, {lp}, e)
    BY <1>1 DEF AccountInv, LocksOf
  <2> QED
    BY <1>1, <2>1, <2>2, <2>3
<1>8. LeftSum(new, {lp}, e) = LeftSum(requests, {lp}, e) + (-n)
  BY <1>5
<1>9. \A e1 \in Epochs, x \in LPs :
         (e1 # e \/ x # lp) => LeftSum(new, {x}, e1) = LeftSum(requests, {x}, e1)
  BY <1>6
<1>10. e = currentEpoch
         => LeftSum(new, LPs, currentEpoch) = LeftSum(requests, LPs, currentEpoch) - n
  <2>1. LeftSum(requests, LPs, currentEpoch) \in Nat
    BY <1>4
  <2>2. e = currentEpoch
          => LeftSum(new, LPs, currentEpoch) = LeftSum(requests, LPs, currentEpoch) + (-n)
    BY <1>1, <1>5
  <2> QED
    BY <1>2, <2>1, <2>2
<1>11. e # currentEpoch
         => LeftSum(new, LPs, currentEpoch) = LeftSum(requests, LPs, currentEpoch)
  BY <1>6
<1> QED
  BY <1>1, <1>2, <1>7, <1>8, <1>9, <1>10, <1>11 DEF Release

LEMMA AccountStep ==
  ASSUME AccountInv, QueueInv, CashInv, BookInv, now \in Nat, [Next]_vars
  PROVE  AccountInv'
<1>0. /\ requests \in Seq(WithdrawalRequest) /\ currentEpoch \in Epochs
      /\ withdrawalHead \in 1 .. Len(requests) + 1
  BY DEF QueueInv, QueueOf
<1>i. /\ SupplyOf(totalShares, shares, currentEpoch)
      /\ LocksOf(lockedShares, shares, requests)
      /\ pendingWithdrawalShares = LeftSum(requests, LPs, currentEpoch)
  BY DEF AccountInv
<1>t. /\ totalShares \in Nat /\ pendingWithdrawalShares \in Nat
      /\ shares \in PerLender /\ lockedShares \in PerLender
  BY AccountInvGives
<1>e. ASSUME NEW lp \in LPs, NEW e \in Epochs
      PROVE  /\ shares[e][lp] \in Nat /\ lockedShares[e][lp] \in Nat
             /\ lockedShares[e][lp] <= shares[e][lp]
  BY <1>i, <1>t DEF PerLender, LocksOf
<1> SUFFICES /\ SupplyOf(totalShares', shares', currentEpoch')
             /\ LocksOf(lockedShares', shares', requests')
             /\ pendingWithdrawalShares' = LeftSum(requests', LPs, currentEpoch')
  BY DEF AccountInv
<1> DEFINE Good == /\ SupplyOf(totalShares', shares', currentEpoch')
                   /\ LocksOf(lockedShares', shares', requests')
                   /\ pendingWithdrawalShares' = LeftSum(requests', LPs, currentEpoch')
<1>m. ASSUME NEW lp \in LPs, NEW d \in Int, NEW v \in Nat, v = shares[currentEpoch][lp] + d,
             lockedShares[currentEpoch][lp] <= v,
             shares' = [shares EXCEPT ![currentEpoch][lp] = v],
             totalShares' = totalShares + d,
             UNCHANGED <<lockedShares, requests, pendingWithdrawalShares, currentEpoch>>
      PROVE  Good
  <2>1. PICK new : new = shares'
    OBVIOUS
  <2>2. Moved(new, shares, currentEpoch, lp, d)
    BY <1>0, <1>m, <1>t, <2>1, MovedBy
  <2>3. SupplyOf(totalShares + d, new, currentEpoch)
    BY <1>0, <1>i, <2>2, SupplyMoves
  <2>4. LocksOf(lockedShares, new, requests)
    BY <1>0, <1>i, <1>m, <1>t, <2>2, LocksUnderMove
  <2> QED
    BY <1>i, <1>m, <2>1, <2>3, <2>4
<1>1. ASSUME NEW lp \in LPs, NEW a, NEW m, Deposit(lp, a, m)
      PROVE  Good
  <2>1. PICK d : d = ConvertToShares(a)
    OBVIOUS
  <2>2. PICK v : v = shares[currentEpoch][lp] + d
    OBVIOUS
  <2>3. /\ d \in Nat /\ totalShares' = totalShares + d
        /\ shares' = [shares EXCEPT ![currentEpoch][lp] = v]
        /\ UNCHANGED <<lockedShares, requests, pendingWithdrawalShares, currentEpoch>>
    BY <1>1, <2>1, <2>2 DEF Deposit, queueVars, epochVars
  <2>4. v \in Nat /\ d \in Int /\ lockedShares[currentEpoch][lp] <= v
    BY <1>0, <1>e, <2>2, <2>3
  <2> QED
    BY <1>m, <2>2, <2>3, <2>4
<1>2. ASSUME NEW lp \in LPs, NEW n \in ShareAmounts, NEW m, Withdraw(lp, n, m)
      PROVE  Good
  <2>1. PICK d, v : d = -n /\ v = shares[currentEpoch][lp] - n
    OBVIOUS
  <2>2. /\ n \in Nat /\ totalShares' = totalShares - n
        /\ shares' = [shares EXCEPT ![currentEpoch][lp] = v]
        /\ n <= shares[currentEpoch][lp] - lockedShares[currentEpoch][lp]
        /\ UNCHANGED <<lockedShares, requests, pendingWithdrawalShares, currentEpoch>>
    BY <1>2, <2>1, VaultConstants DEF Withdraw, Burn, Unlocked, queueVars, epochVars
  <2>3. shares[currentEpoch][lp] \in Nat /\ lockedShares[currentEpoch][lp] \in Nat
    BY <1>0, <1>e
  <2>4. /\ v \in Nat /\ d \in Int /\ lockedShares[currentEpoch][lp] <= v
        /\ v = shares[currentEpoch][lp] + d /\ totalShares' = totalShares + d
    BY <1>t, <2>1, <2>2, <2>3
  <2> QED
    BY <1>m, <2>2, <2>4
<1>3. ASSUME NEW lp \in LPs, NEW n \in ShareAmounts, NEW m \in MinAssets, RequestWithdrawal(lp, n, m)
      PROVE  Good
  <2>1. n \in Nat /\ n \in Int /\ m \in Nat /\ now + WithdrawalTTL \in Nat
    BY VaultConstants
  <2>2. PICK q : q = [owner |-> lp, epoch |-> currentEpoch,
                expiresAt |-> now + WithdrawalTTL, sharesRequested |-> n,
                sharesRemaining |-> n, minAssets |-> m,
                assetsReserved |-> 0, assetsClaimed |-> 0, cancelled |-> FALSE]
    OBVIOUS
  <2>3. q \in WithdrawalRequest /\ q.sharesRemaining = n /\ q.owner = lp /\ q.epoch = currentEpoch
    BY <1>0, <2>1, <2>2 DEF WithdrawalRequest
  <2>4. PICK v : v = lockedShares[currentEpoch][lp] + n
    OBVIOUS
  <2>5. PICK new, lk : new = Append(requests, q) /\ lk = lockedShares'
    OBVIOUS
  <2>6. /\ requests' = new
        /\ lk = [lockedShares EXCEPT ![currentEpoch][lp] = v]
        /\ pendingWithdrawalShares' = pendingWithdrawalShares + n
        /\ n <= shares[currentEpoch][lp] - lockedShares[currentEpoch][lp]
        /\ UNCHANGED <<totalShares, shares, currentEpoch>>
    BY <1>3, <2>2, <2>4, <2>5 DEF RequestWithdrawal, Unlocked, epochVars
  <2>7. v \in Nat /\ v <= shares[currentEpoch][lp]
    <3>1. shares[currentEpoch][lp] \in Nat /\ lockedShares[currentEpoch][lp] \in Nat
      BY <1>0, <1>e
    <3> QED
      BY <2>1, <2>4, <2>6, <3>1
  <2>8. Moved(lk, lockedShares, currentEpoch, lp, n)
    BY <1>0, <1>t, <2>1, <2>4, <2>6, <2>7, MovedBy
  <2>9. \A e1 \in Epochs, x \in LPs : lk[e1][x] <= shares[e1][x]
    BY <1>i, <2>4, <2>7, <2>8 DEF LocksOf, Moved
  <2>10. ASSUME NEW own, NEW e1, e1 = currentEpoch, lp \in own
         PROVE  LeftSum(new, own, e1) = LeftSum(requests, own, e1) + n
    BY <1>0, <2>1, <2>3, <2>5, <2>10, LeftAppended
  <2>11. ASSUME NEW own, NEW e1, e1 # currentEpoch \/ lp \notin own
         PROVE  LeftSum(new, own, e1) = LeftSum(requests, own, e1)
    <3>1. PICK d : d = 0
      OBVIOUS
    <3>2. d \in Int /\ d = IF q.epoch = e1 /\ q.owner \in own THEN q.sharesRemaining ELSE 0
      BY <2>3, <2>11, <3>1
    <3>3. LeftSum(new, own, e1) = LeftSum(requests, own, e1) + d
      BY <1>0, <2>3, <2>5, <3>2, LeftAppended
    <3>4. LeftSum(requests, own, e1) \in Nat
      BY <1>0, LeftNat
    <3> QED
      BY <3>1, <3>3, <3>4
  <2>12. LeftSum(new, {lp}, currentEpoch) = LeftSum(requests, {lp}, currentEpoch) + n
    BY <2>10
  <2>13. \A e1 \in Epochs, x \in LPs :
            (e1 # currentEpoch \/ x # lp) => LeftSum(new, {x}, e1) = LeftSum(requests, {x}, e1)
    BY <2>11
  <2>14. LocksOf(lk, shares, new)
    BY <1>0, <1>i, <2>1, <2>8, <2>9, <2>12, <2>13, LocksMove
  <2>15. LeftSum(new, LPs, currentEpoch) = LeftSum(requests, LPs, currentEpoch) + n
    BY <2>10
  <2> QED
    BY <1>i, <2>5, <2>6, <2>14, <2>15
<1>c. ASSUME NEW id \in 1 .. Len(requests), CancelRemaining(id),
             UNCHANGED <<totalShares, shares, currentEpoch>>
      PROVE  Good
  <2>1. PICK q : Revised(requests', id, q) /\ q.sharesRemaining = 0
    BY <1>0, <1>c, CancelEffect
  <2>2. PICK e, lp, n, new, lk : /\ e = requests[id].epoch /\ lp = requests[id].owner
                                 /\ n = requests[id].sharesRemaining
                                 /\ new = requests' /\ lk = lockedShares'
    OBVIOUS
  <2>3. n \in Nat /\ n \in 0 .. requests[id].sharesRemaining
        /\ q.sharesRemaining = requests[id].sharesRemaining - n
    BY <1>0, <2>1, <2>2, RequestFields
  <2>4. Revised(new, id, q)
    BY <2>1, <2>2
  <2>5. /\ e \in Epochs /\ lp \in LPs
        /\ n <= lockedShares[e][lp]
        /\ LeftSum(new, {lp}, e) = LeftSum(requests, {lp}, e) + (-n)
        /\ \A e1 \in Epochs, x \in LPs :
              (e1 # e \/ x # lp) => LeftSum(new, {x}, e1) = LeftSum(requests, {x}, e1)
        /\ e = currentEpoch
              => LeftSum(new, LPs, currentEpoch) = LeftSum(requests, LPs, currentEpoch) - n
        /\ e # currentEpoch
              => LeftSum(new, LPs, currentEpoch) = LeftSum(requests, LPs, currentEpoch)
    <3>1. Release(new, e, lp, n)
      BY <2>2, <2>3, <2>4, Released
    <3> QED
      BY <3>1 DEF Release
  <2>6. PICK v, d : v = lockedShares[e][lp] - n /\ d = -n
    OBVIOUS
  <2>7. v \in Nat /\ d \in Int /\ v = lockedShares[e][lp] + d /\ v <= lockedShares[e][lp]
    <3>1. lockedShares[e][lp] \in Nat
      BY <1>e, <2>5
    <3> QED
      BY <2>3, <2>5, <2>6, <3>1
  <2>8. lk = [lockedShares EXCEPT ![e][lp] = v]
    BY <1>c, <2>2, <2>6 DEF CancelRemaining
  <2>9. Moved(lk, lockedShares, e, lp, d)
    BY <1>t, <2>5, <2>7, <2>8, MovedBy
  <2>10. \A e1 \in Epochs, x \in LPs : lk[e1][x] <= shares[e1][x]
    <3>1. ASSUME NEW e1 \in Epochs, NEW x \in LPs
          PROVE  /\ lk[e1][x] <= lockedShares[e1][x]
                 /\ lk[e1][x] \in Nat
      <4>1. lockedShares[e1][x] \in Nat
        BY <1>e
      <4>2. lk[e1][x] = IF e1 = e /\ x = lp THEN v ELSE lockedShares[e1][x]
        BY <2>7, <2>9 DEF Moved
      <4> QED
        BY <2>7, <4>1, <4>2
    <3> QED
      BY <1>e, <3>1
  <2>11. LeftSum(new, {lp}, e) = LeftSum(requests, {lp}, e) + d
    BY <2>5, <2>6
  <2>12. LocksOf(lk, shares, new)
    <3>1. e \in Epochs /\ lp \in LPs /\ d \in Int /\ LocksOf(lockedShares, shares, requests)
      BY <1>i, <2>5, <2>7
    <3>2. \A e1 \in Epochs, x \in LPs :
             (e1 # e \/ x # lp) => LeftSum(new, {x}, e1) = LeftSum(requests, {x}, e1)
      BY <2>5
    <3> QED
      BY <2>9, <2>10, <2>11, <3>1, <3>2, LocksMove
  <2>13. pendingWithdrawalShares' = LeftSum(new, LPs, currentEpoch)
    <3>1. pendingWithdrawalShares' = IF e = currentEpoch THEN pendingWithdrawalShares - n
                                     ELSE pendingWithdrawalShares
      BY <1>c, <2>2 DEF CancelRemaining
    <3> QED
      BY <1>i, <2>5, <3>1
  <2> QED
    BY <1>c, <1>i, <2>2, <2>12, <2>13
<1>4. ASSUME NEW id \in 1 .. Len(requests), CancelWithdrawal(id)
      PROVE  Good
  BY <1>4, <1>c DEF CancelWithdrawal, epochVars
<1>5. ASSUME ProcessWithdrawals
      PROVE  Good
  <2>1. PICK id : id = withdrawalHead
    OBVIOUS
  <2>2. id \in 1 .. Len(requests) /\ UNCHANGED currentEpoch
    BY <1>0, <1>5, <2>1 DEF ProcessWithdrawals, epochVars
  <2>3. CASE UNCHANGED <<requests, pendingWithdrawalShares, shareVars>>
    BY <1>i, <2>2, <2>3 DEF shareVars
  <2>4. CASE CancelRemaining(id) /\ UNCHANGED <<totalShares, shares>>
    BY <1>c, <2>2, <2>4
  <2>5. CASE /\ requests[id].epoch = currentEpoch
             /\ Fill(id, FillShares(requests[id]), ConvertToAssets(FillShares(requests[id])))
    <3>1. PICK n, a : n = FillShares(requests[id]) /\ a = ConvertToAssets(n)
      OBVIOUS
    <3>2. Fill(id, n, a)
      BY <2>5, <3>1
    <3>3. n \in 0 .. requests[id].sharesRemaining
      BY <1>0, <1>t, <2>2, <3>1, RequestFields, FillSharesFit
    <3>4. a \in Nat
      BY <3>2, LpCashFacts DEF Fill
    <3>5. PICK q : /\ Revised(requests', id, q)
                   /\ q.sharesRemaining = requests[id].sharesRemaining - n
      BY <1>0, <2>2, <3>2, <3>3, <3>4, FillEffect
    <3>6. PICK e, lp, new, lk, sh : /\ e = currentEpoch /\ lp = requests[id].owner
                                    /\ new = requests' /\ lk = lockedShares' /\ sh = shares'
      OBVIOUS
    <3>7. Revised(new, id, q) /\ e = requests[id].epoch
      BY <2>5, <3>5, <3>6
    <3>8. /\ e \in Epochs /\ lp \in LPs /\ n \in Nat
          /\ n <= lockedShares[e][lp]
          /\ LeftSum(new, {lp}, e) = LeftSum(requests, {lp}, e) + (-n)
          /\ \A e1 \in Epochs, x \in LPs :
                (e1 # e \/ x # lp) => LeftSum(new, {x}, e1) = LeftSum(requests, {x}, e1)
          /\ LeftSum(new, LPs, currentEpoch) = LeftSum(requests, LPs, currentEpoch) - n
      <4>1. Release(new, e, lp, n)
        BY <2>2, <3>3, <3>5, <3>6, <3>7, Released
      <4> QED
        BY <3>6, <4>1 DEF Release
    <3>9. PICK v, w, d : v = lockedShares[e][lp] - n /\ w = shares[e][lp] - n /\ d = -n
      OBVIOUS
    <3>10. /\ lk = [lockedShares EXCEPT ![e][lp] = v]
           /\ sh = [shares EXCEPT ![e][lp] = w]
           /\ totalShares' = totalShares - n
           /\ pendingWithdrawalShares' = pendingWithdrawalShares - n
      BY <3>2, <3>6, <3>9 DEF Fill, Burn
    <3>11. /\ v \in Nat /\ w \in Nat /\ d \in Int /\ v = lockedShares[e][lp] + d
           /\ w = shares[e][lp] + d /\ v <= w
           /\ totalShares' = totalShares + d
      <4>1. /\ shares[e][lp] \in Nat /\ lockedShares[e][lp] \in Nat
            /\ lockedShares[e][lp] <= shares[e][lp]
        BY <1>e, <3>8
      <4> QED
        BY <1>t, <3>8, <3>9, <3>10, <4>1
    <3>12. Moved(lk, lockedShares, e, lp, d)
      BY <1>t, <3>8, <3>10, <3>11, MovedBy
    <3>13. Moved(sh, shares, e, lp, d)
      BY <1>t, <3>8, <3>10, <3>11, MovedBy
    <3>14. SupplyOf(totalShares + d, sh, e)
      BY <1>0, <1>i, <3>6, <3>8, <3>11, <3>13, SupplyMoves
    <3>15. \A e1 \in Epochs, x \in LPs : lk[e1][x] <= sh[e1][x]
      BY <1>e, <3>8, <3>11, <3>12, <3>13 DEF Moved
    <3>16. LeftSum(new, {lp}, e) = LeftSum(requests, {lp}, e) + d
      BY <3>8, <3>9
    <3>17. LocksOf(lk, sh, new)
      BY <1>i, <3>8, <3>11, <3>12, <3>15, <3>16, LocksMove
    <3> QED
      BY <1>i, <2>2, <3>6, <3>8, <3>10, <3>11, <3>14, <3>17
  <2> QED
    BY <1>5, <2>1, <2>3, <2>4, <2>5 DEF ProcessWithdrawals
<1>6. ASSUME NEW id \in 1 .. Len(requests), ClaimWithdrawal(id)
      PROVE  Good
  <2>1. PICK q : Revised(requests', id, q) /\ q.sharesRemaining = requests[id].sharesRemaining
    BY <1>0, <1>6, ClaimEffect
  <2>2. PICK new : new = requests'
    OBVIOUS
  <2>3. /\ Revised(new, id, q)
        /\ UNCHANGED <<totalShares, shares, lockedShares, pendingWithdrawalShares, currentEpoch>>
    BY <1>6, <2>1, <2>2 DEF ClaimWithdrawal, shareVars, epochVars
  <2>4. ASSUME NEW own, NEW e
        PROVE  LeftSum(new, own, e) = LeftSum(requests, own, e)
    <3>1. PICK d : d = 0
      OBVIOUS
    <3>2. requests[id].sharesRemaining \in Nat
      BY <1>0, RequestFields
    <3>3. d \in Int /\ d = IF q.epoch = e /\ q.owner \in own
                           THEN q.sharesRemaining - requests[id].sharesRemaining ELSE 0
      BY <2>1, <3>1, <3>2
    <3>4. LeftSum(new, own, e) = LeftSum(requests, own, e) + d
      BY <1>0, <2>3, <3>3, LeftRevised
    <3>5. LeftSum(requests, own, e) \in Nat
      BY <1>0, LeftNat
    <3> QED
      BY <3>1, <3>4, <3>5
  <2>5. LocksOf(lockedShares, shares, new)
    BY <1>i, <2>4 DEF LocksOf
  <2> QED
    BY <1>i, <2>2, <2>3, <2>4, <2>5
<1>7. ASSUME NEW from \in LPs, NEW to \in LPs, NEW n \in ShareAmounts, TransferShares(from, to, n)
      PROVE  Good
  <2>1. /\ UNCHANGED <<totalShares, lockedShares, requests, pendingWithdrawalShares, currentEpoch>>
        /\ n <= shares[currentEpoch][from] - lockedShares[currentEpoch][from]
        /\ n \in Nat
    BY <1>7, VaultConstants DEF TransferShares, Unlocked, queueVars, epochVars
  <2>2. CASE from = to
    BY <1>7, <1>i, <2>1, <2>2 DEF TransferShares
  <2>3. CASE from # to
    <3>1. PICK v, w, d : v = shares[currentEpoch][from] - n /\ d = -n
                         /\ w = shares[currentEpoch][to] + n
      OBVIOUS
    <3>2. PICK mid : mid = [shares EXCEPT ![currentEpoch][from] = v]
      OBVIOUS
    <3>3. shares' = [mid EXCEPT ![currentEpoch][to] = @ + n]
      BY <1>7, <2>3, <3>1, <3>2 DEF TransferShares
    <3>4. /\ v \in Nat /\ w \in Nat /\ d \in Int /\ v = shares[currentEpoch][from] + d
          /\ lockedShares[currentEpoch][from] <= v /\ n \in Int
          /\ lockedShares[currentEpoch][to] <= w
      <4>1. /\ shares[currentEpoch][from] \in Nat /\ lockedShares[currentEpoch][from] \in Nat
            /\ shares[currentEpoch][to] \in Nat /\ lockedShares[currentEpoch][to] \in Nat
            /\ lockedShares[currentEpoch][to] <= shares[currentEpoch][to]
        BY <1>0, <1>e
      <4> QED
        BY <2>1, <3>1, <4>1
    <3>5. Moved(mid, shares, currentEpoch, from, d)
      BY <1>0, <1>t, <3>2, <3>4, MovedBy
    <3>6. mid \in PerLender /\ mid[currentEpoch][to] = shares[currentEpoch][to]
      BY <1>0, <2>3, <3>5 DEF Moved
    <3>7. PICK new : new = shares'
      OBVIOUS
    <3>8. new = [mid EXCEPT ![currentEpoch][to] = w] /\ w = mid[currentEpoch][to] + n
      BY <3>1, <3>3, <3>6, <3>7
    <3>9. Moved(new, mid, currentEpoch, to, n)
      BY <1>0, <3>4, <3>6, <3>8, MovedBy
    <3>10. SupplyOf(totalShares + d, mid, currentEpoch)
      BY <1>0, <1>i, <3>4, <3>5, SupplyMoves
    <3>11. SupplyOf((totalShares + d) + n, new, currentEpoch)
      BY <1>0, <3>4, <3>9, <3>10, SupplyMoves
    <3>12. (totalShares + d) + n = totalShares
      BY <1>t, <2>1, <3>1
    <3>13. LocksOf(lockedShares, mid, requests)
      BY <1>0, <1>i, <1>t, <3>4, <3>5, LocksUnderMove
    <3>14. LocksOf(lockedShares, new, requests)
      BY <1>0, <3>4, <3>6, <3>8, <3>9, <3>13, LocksUnderMove
    <3> QED
      BY <1>i, <2>1, <3>7, <3>11, <3>12, <3>14
  <2> QED
    BY <2>2, <2>3
<1>8. ASSUME RollLossEpoch
      PROVE  Good
  <2>1. /\ UNCHANGED <<shares, lockedShares, requests>>
        /\ totalShares' = 0 /\ pendingWithdrawalShares' = 0
        /\ currentEpoch' = currentEpoch + 1 /\ currentEpoch < MaxEpoch
    BY <1>8 DEF RollLossEpoch
  <2>2. PICK next : next = currentEpoch + 1
    OBVIOUS
  <2>3. next \in Epochs /\ next > currentEpoch /\ next \in Int /\ currentEpoch \in Int
    BY <1>0, <2>1, <2>2, VaultConstants DEF Epochs
  <2>4. SupplyOf(0, shares, next)
    <3>1. PICK f : f = shares[next]
      OBVIOUS
    <3>2. f = [lp \in LPs |-> 0]
      BY <1>i, <2>3, <3>1 DEF SupplyOf, PerLender
    <3>3. SumFunctionOnSet(f, LPs) = 0
      BY <3>2, VaultConstants, SumZero
    <3>4. \A e \in Epochs, lp \in LPs : e > next => shares[e][lp] = 0
      BY <1>i, <2>3, EpochsAreInts DEF SupplyOf
    <3> QED
      BY <1>t, <3>1, <3>3, <3>4 DEF SupplyOf
  <2>5. LeftSum(requests, LPs, next) = 0
    <3>1. ASSUME NEW id \in DOMAIN requests
          PROVE  requests[id].epoch # next
      <4>1. id \in 1 .. Len(requests)
        BY <1>0
      <4>2. Sane(requests[id], currentEpoch)
        BY <4>1 DEF QueueInv, QueueOf
      <4> QED
        BY <2>3, <4>2 DEF Sane
    <3> QED
      BY <1>0, <3>1, LeftNothing
  <2> QED
    BY <1>i, <2>1, <2>2, <2>4, <2>5
<1>9. ASSUME UNCHANGED <<shareVars, requests, pendingWithdrawalShares, currentEpoch>>
      PROVE  Good
  BY <1>9, <1>i DEF shareVars
<1>10. \/ \E lp \in LPs, a \in Assets, m \in MinAssets : Deposit(lp, a, m)
       \/ \E lp \in LPs, n \in ShareAmounts, m \in MinAssets : Withdraw(lp, n, m)
       \/ \E lp \in LPs, n \in ShareAmounts, m \in MinAssets : RequestWithdrawal(lp, n, m)
       \/ \E id \in 1 .. Len(requests) : CancelWithdrawal(id) \/ ClaimWithdrawal(id)
       \/ \E from, to \in LPs, n \in ShareAmounts : TransferShares(from, to, n)
       \/ ProcessWithdrawals \/ RollLossEpoch
       \/ UNCHANGED <<shareVars, requests, pendingWithdrawalShares, currentEpoch>>
  BY Zenon DEF Next, vars, queueVars, epochVars, SetDepositsPaused, ClaimEpochRecovery, Lend,
     OnRepayment, RefundExcess, RecordRecovery, RecognizeImpairment, ReverseImpairment, WriteOff,
     Donate, Tick
<1> HIDE DEF Good
<1>z. Good
  BY <1>1, <1>2, <1>3, <1>4, <1>5, <1>6, <1>7, <1>8, <1>9, <1>10, Zenon
<1> QED
  BY <1>z DEF Good

-----------------------------------------------------------------------------
(* Closed epochs *)

(* The cash of an epoch that its holders have not claimed. *)
Due(received, claimed) ==
    [e \in Epochs |-> received[e] - SumFunctionOnSet(claimed[e], LPs)]

(* A closed epoch has a supply, and nobody has claimed more than its share. *)
ClosedEpoch(supply, received, claimed, sh) ==
    /\ supply \in Nat \ {0}
    /\ supply = SumFunctionOnSet(sh, LPs)
    /\ \A lp \in LPs : claimed[lp] * supply <= received * sh[lp]

(* An epoch that is not closed has received nothing. *)
OpenEpoch(received, claimed) ==
    received = 0 /\ \A lp \in LPs : claimed[lp] = 0

EpochsOf(supply, received, claimed, sh, cur, total) ==
    /\ supply \in [Epochs -> Nat]
    /\ received \in [Epochs -> Nat]
    /\ claimed \in PerLender
    /\ \A e \in Epochs :
          e < cur => ClosedEpoch(supply[e], received[e], claimed[e], sh[e])
    /\ \A e \in Epochs : e >= cur => OpenEpoch(received[e], claimed[e])
    /\ total = SumFunctionOnSet(Due(received, claimed), Epochs)

EpochInv == EpochsOf(closedEpochShares, epochRecoveryReceived, epochRecoveryClaimed, shares,
                     currentEpoch, totalRecoveryReserved)

(* Division by a positive number is monotone. *)
LEMMA QuotientAbove ==
  ASSUME NEW m \in Nat, NEW q \in Nat \ {0}, NEW c \in Nat, c * q <= m
  PROVE  c <= m \div q
<1>1. PICK k : k = m \div q
  OBVIOUS
<1>2. k \in Nat /\ m < k * q + q
  BY <1>1, Quotient
<1>3. c <= k
  <2>1. SUFFICES ASSUME k + 1 <= c PROVE FALSE
    BY <1>2
  <2>2. (k + 1) * q <= c * q
    BY <1>2, <2>1, TimesMonotone
  <2>3. (k + 1) * q = k * q + q /\ k * q \in Nat /\ c * q \in Nat
    BY <1>2
  <2> QED
    BY <1>2, <2>2, <2>3
<1> QED
  BY <1>1, <1>3

(* Pro-rata shares of a pot, each rounded down, fit in the pot. *)
LEMMA ProRata ==
  ASSUME NEW sh, \A lp \in LPs : sh[lp] \in Nat, NEW pot \in Nat, NEW supply \in Nat \ {0},
         supply = SumFunctionOnSet(sh, LPs), NEW part,
         \A lp \in LPs : part[lp] = (pot * sh[lp]) \div supply
  PROVE  /\ \A lp \in LPs : part[lp] \in Nat
         /\ SumFunctionOnSet(part, LPs) <= pot
<1>f. IsFiniteSet(LPs)
  BY VaultConstants
<1>1. ASSUME NEW lp \in LPs
      PROVE  part[lp] \in Nat /\ part[lp] * supply <= pot * sh[lp] /\ pot * sh[lp] \in Nat
  <2>1. pot * sh[lp] \in Nat
    OBVIOUS
  <2>2. PICK m : m = pot * sh[lp]
    OBVIOUS
  <2>3. m \div supply \in Nat /\ (m \div supply) * supply <= m
    BY <2>1, <2>2, Quotient
  <2> QED
    BY <2>1, <2>2, <2>3
<1>2. PICK g, h : g = [lp \in LPs |-> supply * part[lp]] /\ h = [lp \in LPs |-> pot * sh[lp]]
  OBVIOUS
<1>3. \A lp \in LPs : part[lp] \in Int /\ g[lp] = supply * part[lp]
  BY <1>1, <1>2
<1>4. \A lp \in LPs : sh[lp] \in Int /\ h[lp] = pot * sh[lp]
  BY <1>2
<1>5. \A lp \in LPs : g[lp] \in Int /\ h[lp] \in Int /\ g[lp] <= h[lp]
  <2> SUFFICES ASSUME NEW lp \in LPs
               PROVE  g[lp] \in Int /\ h[lp] \in Int /\ g[lp] <= h[lp]
    OBVIOUS
  <2>1. g[lp] = supply * part[lp] /\ h[lp] = pot * sh[lp]
    BY <1>2
  <2>2. supply * part[lp] = part[lp] * supply /\ supply * part[lp] \in Int
    BY <1>1
  <2> QED
    BY <1>1, <2>1, <2>2
<1>6. PICK p : p = SumFunctionOnSet(part, LPs)
  OBVIOUS
<1>7. p \in Nat
  BY <1>1, <1>6, <1>f, SumNat
<1>8. SumFunctionOnSet(g, LPs) = supply * p
  <2>1. supply \in Int
    OBVIOUS
  <2> QED
    BY <1>3, <1>6, <1>f, <2>1, SumTimes
<1>9. SumFunctionOnSet(h, LPs) = pot * supply
  <2>1. pot \in Int
    OBVIOUS
  <2> QED
    BY <1>4, <1>f, <2>1, SumTimes
<1>10. SumFunctionOnSet(g, LPs) <= SumFunctionOnSet(h, LPs)
  BY <1>5, <1>f, SumLeq
<1>11. p <= pot
  <2>1. SUFFICES ASSUME pot + 1 <= p PROVE FALSE
    BY <1>7
  <2>2. (pot + 1) * supply <= p * supply
    BY <1>7, <2>1, TimesMonotone
  <2>3. (pot + 1) * supply = pot * supply + supply /\ pot * supply \in Nat
        /\ p * supply = supply * p /\ p * supply \in Nat
    BY <1>7
  <2> QED
    BY <1>8, <1>9, <1>10, <2>2, <2>3
<1> QED
  BY <1>1, <1>6, <1>11

(* One epoch: what its holders may still claim is inside what is due. *)
LEMMA EpochCovers ==
  ASSUME EpochInv, currentEpoch \in Epochs, shares \in PerLender, NEW e \in Epochs,
         NEW claimable, claimable = [lp \in LPs |-> RecoveryClaimable(e, lp)],
         NEW due, due = epochRecoveryReceived[e] - SumFunctionOnSet(epochRecoveryClaimed[e], LPs)
  PROVE  /\ \A lp \in LPs : claimable[lp] \in Nat
         /\ due \in Int /\ SumFunctionOnSet(claimable, LPs) <= due
<1>f. IsFiniteSet(LPs) /\ e \in Int /\ currentEpoch \in Int
  BY VaultConstants, EpochsAreInts
<1>1. PICK received, claimed, supply, sh :
         /\ received = epochRecoveryReceived[e] /\ claimed = epochRecoveryClaimed[e]
         /\ supply = closedEpochShares[e] /\ sh = shares[e]
  OBVIOUS
<1>2. /\ received \in Nat /\ \A lp \in LPs : claimed[lp] \in Nat /\ sh[lp] \in Nat
  BY <1>1 DEF EpochInv, EpochsOf, PerLender
<1>3. PICK taken : taken = SumFunctionOnSet(claimed, LPs)
  OBVIOUS
<1>4. taken \in Nat
  BY <1>2, <1>3, <1>f, SumNat
<1>5. due = received - taken
  BY <1>1, <1>3
<1>6. CASE e >= currentEpoch
  <2>1. OpenEpoch(received, claimed)
    BY <1>1, <1>6 DEF EpochInv, EpochsOf
  <2>2. \A lp \in LPs : RecoveryClaimable(e, lp) = 0
    BY <1>6 DEF RecoveryClaimable
  <2>3. claimable = [lp \in LPs |-> 0]
    BY <2>2
  <2>4. SumFunctionOnSet(claimable, LPs) = 0
    BY <1>f, <2>3, SumZero
  <2>5. taken = 0
    <3>1. PICK zero : zero = [lp \in LPs |-> 0]
      OBVIOUS
    <3>2. \A lp \in LPs : claimed[lp] = zero[lp]
      BY <2>1, <3>1 DEF OpenEpoch
    <3>3. taken = SumFunctionOnSet(zero, LPs)
      BY <1>3, <1>f, <3>2, SumAgree
    <3> QED
      BY <1>f, <3>1, <3>3, SumZero
  <2>6. due = 0
    BY <1>5, <2>1, <2>5 DEF OpenEpoch
  <2> QED
    BY <2>3, <2>4, <2>6
<1>7. CASE e < currentEpoch
  <2>1. ClosedEpoch(supply, received, claimed, sh)
    BY <1>1, <1>7 DEF EpochInv, EpochsOf
  <2>2. /\ supply \in Nat \ {0} /\ supply = SumFunctionOnSet(sh, LPs)
        /\ \A lp \in LPs : claimed[lp] * supply <= received * sh[lp]
    BY <2>1 DEF ClosedEpoch
  <2>3. PICK part : part = [lp \in LPs |-> (received * sh[lp]) \div supply]
    OBVIOUS
  <2>4. /\ \A lp \in LPs : part[lp] \in Nat
        /\ SumFunctionOnSet(part, LPs) <= received
    BY <1>2, <2>2, <2>3, ProRata
  <2>5. \A lp \in LPs : claimable[lp] = part[lp] - claimed[lp]
    BY <1>1, <1>7, <1>f, <2>2, <2>3 DEF RecoveryClaimable
  <2>6. ASSUME NEW lp \in LPs
        PROVE  claimed[lp] <= part[lp]
    <3>1. PICK m, c : m = received * sh[lp] /\ c = claimed[lp]
      OBVIOUS
    <3>2. m \in Nat /\ c \in Nat /\ c * supply <= m
      BY <1>2, <2>2, <3>1
    <3>3. c <= m \div supply
      BY <2>2, <3>2, QuotientAbove
    <3> QED
      BY <2>3, <3>1, <3>3
  <2>7. \A lp \in LPs : claimable[lp] \in Nat
    BY <1>2, <2>4, <2>5, <2>6
  <2>8. \A lp \in LPs : /\ part[lp] \in Int /\ claimed[lp] \in Int
                        /\ claimable[lp] = part[lp] - claimed[lp]
    BY <1>2, <2>4, <2>5
  <2>9. SumFunctionOnSet(claimable, LPs) = SumFunctionOnSet(part, LPs) - taken
    BY <1>3, <1>f, <2>8, SumMinus
  <2>10. SumFunctionOnSet(part, LPs) \in Nat
    BY <1>f, <2>4, SumNat
  <2> QED
    BY <1>2, <1>4, <1>5, <2>4, <2>7, <2>9, <2>10
<1> QED
  BY <1>6, <1>7, <1>f

LEMMA EpochsFinite == IsFiniteSet(Epochs)
  BY VaultConstants, FS_Interval DEF Epochs

LEMMA EpochInvCovers ==
  ASSUME EpochInv, currentEpoch \in Epochs, shares \in PerLender
  PROVE  /\ \A e \in Epochs, lp \in LPs : RecoveryClaimable(e, lp) >= 0
         /\ totalRecoveryReserved >=
               SumFunctionOnSet([epoch \in Epochs |->
                  SumFunctionOnSet([lp \in LPs |-> RecoveryClaimable(epoch, lp)], LPs)], Epochs)
<1>1. ASSUME NEW e \in Epochs
      PROVE  /\ \A lp \in LPs : RecoveryClaimable(e, lp) \in Nat
             /\ SumFunctionOnSet([lp \in LPs |-> RecoveryClaimable(e, lp)], LPs) \in Int
             /\ Due(epochRecoveryReceived, epochRecoveryClaimed)[e] \in Int
             /\ SumFunctionOnSet([lp \in LPs |-> RecoveryClaimable(e, lp)], LPs)
                   <= Due(epochRecoveryReceived, epochRecoveryClaimed)[e]
  <2>1. PICK claimable, due :
           /\ claimable = [lp \in LPs |-> RecoveryClaimable(e, lp)]
           /\ due = epochRecoveryReceived[e] - SumFunctionOnSet(epochRecoveryClaimed[e], LPs)
    OBVIOUS
  <2>2. /\ \A lp \in LPs : claimable[lp] \in Nat
        /\ due \in Int /\ SumFunctionOnSet(claimable, LPs) <= due
    BY <2>1, EpochCovers
  <2>3. IsFiniteSet(LPs)
    BY VaultConstants
  <2>4. SumFunctionOnSet(claimable, LPs) \in Nat
    BY <2>2, <2>3, SumNat
  <2>5. due = Due(epochRecoveryReceived, epochRecoveryClaimed)[e]
    BY <2>1 DEF Due
  <2> QED
    BY <2>1, <2>2, <2>4, <2>5
<1>2. PICK f, g : /\ f = [e \in Epochs |-> SumFunctionOnSet([lp \in LPs |-> RecoveryClaimable(e, lp)], LPs)]
                  /\ g = Due(epochRecoveryReceived, epochRecoveryClaimed)
  OBVIOUS
<1>3. \A e \in Epochs : f[e] \in Int /\ g[e] \in Int /\ f[e] <= g[e]
  BY <1>1, <1>2
<1>4. SumFunctionOnSet(f, Epochs) <= SumFunctionOnSet(g, Epochs)
  BY <1>3, EpochsFinite, SumLeq
<1>5. SumFunctionOnSet(f, Epochs) \in Int /\ SumFunctionOnSet(g, Epochs) \in Int
  BY <1>3, EpochsFinite, SumInt
<1>6. totalRecoveryReserved = SumFunctionOnSet(g, Epochs)
  BY <1>2 DEF EpochInv, EpochsOf
<1>7. totalRecoveryReserved >= SumFunctionOnSet(f, Epochs)
  BY <1>4, <1>5, <1>6
<1>8. ASSUME NEW e \in Epochs, NEW lp \in LPs
      PROVE  RecoveryClaimable(e, lp) >= 0
  <2>1. RecoveryClaimable(e, lp) \in Nat
    BY <1>1, Zenon
  <2> QED
    BY <2>1
<1> QED
  BY <1>2, <1>7, <1>8, Zenon

(* The balances of a closed epoch never change again. *)
LEMMA ClosedSharesKept ==
  ASSUME AccountInv, QueueInv, [Next]_vars, NEW e \in Epochs, e < currentEpoch
  PROVE  shares'[e] = shares[e]
<1>0. currentEpoch \in Epochs /\ shares \in PerLender /\ e # currentEpoch
  BY EpochsAreInts, AccountInvGives DEF QueueInv, QueueOf
<1>1. ASSUME NEW lp, NEW v, shares' = [shares EXCEPT ![currentEpoch][lp] = v]
      PROVE  shares'[e] = shares[e]
  BY <1>0, <1>1 DEF PerLender
<1>2. ASSUME NEW lp, NEW n, Burn(lp, n)
      PROVE  shares'[e] = shares[e]
  BY <1>1, <1>2 DEF Burn
<1>3. ASSUME NEW lp, NEW a, NEW m, Deposit(lp, a, m)
      PROVE  shares'[e] = shares[e]
  BY <1>1, <1>3 DEF Deposit
<1>4. ASSUME ProcessWithdrawals
      PROVE  shares'[e] = shares[e]
  BY <1>2, <1>4, Zenon DEF ProcessWithdrawals, Fill, shareVars
<1>5. ASSUME NEW from, NEW to, NEW n, TransferShares(from, to, n)
      PROVE  shares'[e] = shares[e]
  BY <1>0, <1>5 DEF TransferShares, PerLender
<1>6. ASSUME UNCHANGED shares
      PROVE  shares'[e] = shares[e]
  BY <1>6
<1>7. \/ \E lp \in LPs, a \in Assets, m \in MinAssets : Deposit(lp, a, m)
      \/ \E lp \in LPs, n \in ShareAmounts : Burn(lp, n)
      \/ \E from, to \in LPs, n \in ShareAmounts : TransferShares(from, to, n)
      \/ ProcessWithdrawals
      \/ UNCHANGED shares
  BY Zenon DEF Next, vars, shareVars, SetDepositsPaused, Withdraw, RequestWithdrawal,
     CancelWithdrawal, ClaimWithdrawal, RollLossEpoch, ClaimEpochRecovery, Lend,
     OnRepayment, RefundExcess, RecordRecovery, RecognizeImpairment, ReverseImpairment, WriteOff,
     Donate, Tick
<1> QED
  BY <1>2, <1>3, <1>4, <1>5, <1>6, <1>7, Zenon

(* What is due of an epoch follows the cash it receives and pays. *)
Credited(new, received, e, amount) ==
    new[e] = received[e] + amount /\ \A x \in Epochs \ {e} : new[x] = received[x]

LEMMA DueReceives ==
  ASSUME NEW received \in [Epochs -> Nat], NEW claimed \in PerLender, NEW e \in Epochs,
         NEW amount \in Int, NEW new, Credited(new, received, e, amount)
  PROVE  SumFunctionOnSet(Due(new, claimed), Epochs)
            = SumFunctionOnSet(Due(received, claimed), Epochs) + amount
<1>1. ASSUME NEW x \in Epochs
      PROVE  Due(received, claimed)[x] \in Int /\ SumFunctionOnSet(claimed[x], LPs) \in Int
  <2>1. PICK f : f = claimed[x]
    OBVIOUS
  <2>2. \A lp \in LPs : f[lp] \in Int
    BY <2>1 DEF PerLender
  <2>3. SumFunctionOnSet(f, LPs) \in Int
    BY <2>2, VaultConstants, SumInt
  <2> QED
    BY <2>1, <2>3 DEF Due
<1>2. PICK f, g : f = Due(received, claimed) /\ g = Due(new, claimed)
  OBVIOUS
<1>3. \A x \in Epochs : f[x] \in Int
  BY <1>1, <1>2
<1>4. \A x \in Epochs \ {e} : g[x] = f[x]
  BY <1>2 DEF Due, Credited
<1>5. g[e] = f[e] + amount
  <2>1. /\ f[e] = received[e] - SumFunctionOnSet(claimed[e], LPs)
        /\ g[e] = new[e] - SumFunctionOnSet(claimed[e], LPs)
    BY <1>2 DEF Due
  <2> QED
    BY <1>1, <2>1 DEF Credited
<1>6. SumFunctionOnSet(g, Epochs) = SumFunctionOnSet(f, Epochs) + amount
  BY <1>3, <1>4, <1>5, EpochsFinite, TotalMoves
<1> QED
  BY <1>2, <1>6

LEMMA DuePays ==
  ASSUME NEW received \in [Epochs -> Nat], NEW claimed \in PerLender, NEW e \in Epochs,
         NEW lp \in LPs, NEW amount \in Nat, NEW new, Moved(new, claimed, e, lp, amount)
  PROVE  SumFunctionOnSet(Due(received, new), Epochs)
            = SumFunctionOnSet(Due(received, claimed), Epochs) + (-amount)
<1>f. IsFiniteSet(LPs) /\ amount \in Int /\ -amount \in Int
  BY VaultConstants
<1>1. ASSUME NEW x \in Epochs
      PROVE  SumFunctionOnSet(claimed[x], LPs) \in Int
  <2>1. PICK f : f = claimed[x]
    OBVIOUS
  <2>2. \A y \in LPs : f[y] \in Int
    BY <2>1 DEF PerLender
  <2> QED
    BY <1>f, <2>1, <2>2, SumInt
<1>2. PICK f, g : f = Due(received, claimed) /\ g = Due(received, new)
  OBVIOUS
<1>3. \A x \in Epochs : f[x] \in Int
  BY <1>1, <1>2 DEF Due
<1>4. ASSUME NEW x \in Epochs \ {e}
      PROVE  g[x] = f[x]
  <2>1. new[x] = claimed[x]
    BY DEF Moved, PerLender
  <2> QED
    BY <1>2, <2>1 DEF Due
<1>5. SumFunctionOnSet(new[e], LPs) = SumFunctionOnSet(claimed[e], LPs) + amount
  <2>1. PICK c, n : c = claimed[e] /\ n = new[e]
    OBVIOUS
  <2>2. /\ \A y \in LPs : c[y] \in Int
        /\ \A y \in LPs \ {lp} : n[y] = c[y]
        /\ n[lp] = c[lp] + amount
    BY <2>1 DEF Moved, PerLender
  <2>3. SumFunctionOnSet(n, LPs) = SumFunctionOnSet(c, LPs) + amount
    BY <1>f, <2>2, TotalMoves
  <2> QED
    BY <2>1, <2>3
<1>6. g[e] = f[e] + (-amount)
  <2>1. /\ f[e] = received[e] - SumFunctionOnSet(claimed[e], LPs)
        /\ g[e] = received[e] - SumFunctionOnSet(new[e], LPs)
        /\ received[e] \in Nat
    BY <1>2 DEF Due
  <2> QED
    BY <1>1, <1>5, <1>f, <2>1
<1>7. PICK d : d = -amount
  OBVIOUS
<1>8. d \in Int /\ g[e] = f[e] + d
  BY <1>6, <1>7, <1>f
<1>9. SumFunctionOnSet(g, Epochs) = SumFunctionOnSet(f, Epochs) + d
  BY <1>3, <1>4, <1>8, EpochsFinite, TotalMoves
<1> QED
  BY <1>2, <1>7, <1>9

LEMMA EpochStep ==
  ASSUME EpochInv, AccountInv, QueueInv, CashInv, BookInv, [Next]_vars
  PROVE  EpochInv'
<1>0. /\ currentEpoch \in Epochs /\ currentEpoch \in Nat
      /\ shares \in PerLender /\ totalShares \in Nat
  BY EpochsAreInts, AccountInvGives DEF QueueInv, QueueOf
<1>i. /\ closedEpochShares \in [Epochs -> Nat]
      /\ epochRecoveryReceived \in [Epochs -> Nat]
      /\ epochRecoveryClaimed \in PerLender
      /\ \A e \in Epochs : e < currentEpoch
            => ClosedEpoch(closedEpochShares[e], epochRecoveryReceived[e],
                           epochRecoveryClaimed[e], shares[e])
      /\ \A e \in Epochs : e >= currentEpoch
            => OpenEpoch(epochRecoveryReceived[e], epochRecoveryClaimed[e])
      /\ totalRecoveryReserved
            = SumFunctionOnSet(Due(epochRecoveryReceived, epochRecoveryClaimed), Epochs)
  BY DEF EpochInv, EpochsOf
<1>t. totalRecoveryReserved \in Nat
  BY DEF CashInv
<1>s. \A e \in Epochs : e < currentEpoch => shares'[e] = shares[e]
  BY ClosedSharesKept
<1> SUFFICES EpochsOf(closedEpochShares', epochRecoveryReceived', epochRecoveryClaimed', shares',
                      currentEpoch', totalRecoveryReserved')
  BY DEF EpochInv
<1> DEFINE Good == EpochsOf(closedEpochShares', epochRecoveryReceived', epochRecoveryClaimed',
                            shares', currentEpoch', totalRecoveryReserved')
<1>1. ASSUME UNCHANGED <<closedEpochShares, epochRecoveryReceived, epochRecoveryClaimed,
                         currentEpoch, totalRecoveryReserved>>
      PROVE  Good
  BY <1>1, <1>i, <1>s DEF EpochsOf
<1>r. ASSUME NEW f \in Facilities, NEW amount \in Nat, ReserveOldEpochRecovery(f, amount),
             UNCHANGED <<closedEpochShares, epochRecoveryClaimed, currentEpoch>>
      PROVE  Good
  <2>1. CASE ~OldEpochRecovery(f)
    BY <1>1, <1>r, <2>1, Zenon DEF ReserveOldEpochRecovery
  <2>2. CASE OldEpochRecovery(f)
    <3>1. PICK w, new : w = writeOffEpoch[f] /\ new = epochRecoveryReceived'
      OBVIOUS
    <3>2. w \in Epochs /\ w < currentEpoch
      BY <2>2, <3>1 DEF OldEpochRecovery, IsWrittenOff, BookInv, Epochs
    <3>3. PICK v : v = epochRecoveryReceived[w] + amount
      OBVIOUS
    <3>4. /\ new = [epochRecoveryReceived EXCEPT ![w] = v]
          /\ totalRecoveryReserved' = totalRecoveryReserved + amount
      BY <1>r, <2>2, <3>1, <3>3 DEF ReserveOldEpochRecovery
    <3>5. /\ v \in Nat /\ new \in [Epochs -> Nat] /\ amount \in Int
          /\ new[w] = v /\ \A x \in Epochs \ {w} : new[x] = epochRecoveryReceived[x]
      BY <1>i, <3>2, <3>3, <3>4
    <3>6. Credited(new, epochRecoveryReceived, w, amount)
      BY <3>3, <3>5 DEF Credited
    <3>7. SumFunctionOnSet(Due(new, epochRecoveryClaimed), Epochs) = totalRecoveryReserved + amount
      BY <1>i, <3>2, <3>5, <3>6, DueReceives
    <3>8. ClosedEpoch(closedEpochShares[w], v, epochRecoveryClaimed[w], shares[w])
      <4>1. PICK c, rec, cl, sh : /\ c = closedEpochShares[w] /\ rec = epochRecoveryReceived[w]
                                  /\ cl = epochRecoveryClaimed[w] /\ sh = shares[w]
        OBVIOUS
      <4>2. ClosedEpoch(c, rec, cl, sh)
        BY <1>i, <3>2, <4>1
      <4>3. rec \in Nat /\ \A lp \in LPs : sh[lp] \in Nat /\ cl[lp] \in Nat
        BY <1>0, <1>i, <3>2, <4>1 DEF PerLender
      <4>4. ASSUME NEW lp \in LPs
            PROVE  cl[lp] * c <= v * sh[lp]
        <5>1. cl[lp] * c <= rec * sh[lp] /\ c \in Nat
          BY <4>2 DEF ClosedEpoch
        <5>2. rec <= v
          BY <3>3, <4>1, <4>3
        <5>3. rec * sh[lp] <= v * sh[lp]
          BY <3>5, <4>3, <5>2, TimesMonotone
        <5>4. cl[lp] * c \in Int /\ rec * sh[lp] \in Int /\ v * sh[lp] \in Int
          BY <3>5, <4>3, <5>1
        <5> QED
          BY <5>1, <5>3, <5>4
      <4>5. ClosedEpoch(c, v, cl, sh)
        BY <4>2, <4>4 DEF ClosedEpoch
      <4> QED
        BY <4>1, <4>5
    <3>9. \A e \in Epochs : e < currentEpoch
             => ClosedEpoch(closedEpochShares[e], new[e], epochRecoveryClaimed[e], shares'[e])
      BY <1>i, <1>s, <3>2, <3>5, <3>8, Zenon
    <3>10. \A e \in Epochs : e >= currentEpoch => OpenEpoch(new[e], epochRecoveryClaimed[e])
      <4>1. \A e \in Epochs : e >= currentEpoch => e # w
        BY <1>0, <3>2, EpochsAreInts
      <4> QED
        BY <1>i, <3>5, <4>1, Zenon
    <3> QED
      BY <1>i, <1>r, <3>1, <3>4, <3>5, <3>7, <3>9, <3>10 DEF EpochsOf
  <2> QED
    BY <2>1, <2>2
<1>2. ASSUME NEW f \in Facilities, NEW a \in Assets, OnRepayment(f, a)
      PROVE  Good
  <2>1. PICK applied : applied = IF a < debt[f] THEN a ELSE debt[f]
    OBVIOUS
  <2>2. applied \in Nat
    BY <2>1, VaultConstants DEF BookInv
  <2>3. /\ ReserveOldEpochRecovery(f, applied)
        /\ UNCHANGED <<closedEpochShares, epochRecoveryClaimed, currentEpoch>>
    BY <1>2, <2>1, Zenon DEF OnRepayment
  <2> QED
    BY <1>r, <2>2, <2>3
<1>3. ASSUME NEW f \in Facilities, NEW a \in Assets, RecordRecovery(f, a)
      PROVE  Good
  <2>1. a \in Nat
    BY VaultConstants
  <2>2. /\ ReserveOldEpochRecovery(f, a)
        /\ UNCHANGED <<closedEpochShares, epochRecoveryClaimed, currentEpoch>>
    BY <1>3, Zenon DEF RecordRecovery
  <2> QED
    BY <1>r, <2>1, <2>2
<1>4. ASSUME NEW e \in Epochs, NEW lp \in LPs, ClaimEpochRecovery(e, lp)
      PROVE  Good
  <2>1. PICK a, new : a = RecoveryClaimable(e, lp) /\ new = epochRecoveryClaimed'
    OBVIOUS
  <2>2. PICK v : v = epochRecoveryClaimed[e][lp] + a
    OBVIOUS
  <2>3. /\ a \in 1 .. totalRecoveryReserved
        /\ new = [epochRecoveryClaimed EXCEPT ![e][lp] = v]
        /\ totalRecoveryReserved' = totalRecoveryReserved - a
        /\ UNCHANGED <<closedEpochShares, epochRecoveryReceived, currentEpoch, shares>>
    BY <1>4, <2>1, <2>2 DEF ClaimEpochRecovery, shareVars
  <2>4. a \in Nat /\ a # 0 /\ v \in Nat /\ a \in Int
    BY <1>i, <1>t, <2>2, <2>3 DEF PerLender
  <2>5. Moved(new, epochRecoveryClaimed, e, lp, a)
    BY <1>i, <2>2, <2>3, <2>4, MovedBy
  <2>6. SumFunctionOnSet(Due(epochRecoveryReceived, new), Epochs) = totalRecoveryReserved + (-a)
    BY <1>i, <2>4, <2>5, DuePays
  <2>7. totalRecoveryReserved' = totalRecoveryReserved + (-a)
    BY <1>t, <2>3, <2>4
  <2>8. PICK c, rec, cl, sh : /\ c = closedEpochShares[e] /\ rec = epochRecoveryReceived[e]
                              /\ cl = epochRecoveryClaimed[e] /\ sh = shares[e]
    OBVIOUS
  <2>9. e < currentEpoch /\ v = (rec * sh[lp]) \div c
    <3>1. ~(e >= currentEpoch \/ c = 0)
      BY <2>1, <2>4, <2>8 DEF RecoveryClaimable
    <3>2. a = (rec * sh[lp]) \div c - cl[lp]
      BY <2>1, <2>8, <3>1 DEF RecoveryClaimable
    <3>3. e \in Nat /\ cl[lp] \in Nat /\ rec * sh[lp] \in Nat /\ c \in Nat \ {0}
      BY <1>0, <1>i, <2>8, <3>1, EpochsAreInts DEF PerLender
    <3>4. (rec * sh[lp]) \div c \in Nat
      BY <3>3, Quotient
    <3> QED
      BY <1>0, <2>2, <2>8, <3>1, <3>2, <3>3, <3>4
  <2>10. ClosedEpoch(c, rec, cl, sh)
    BY <1>i, <2>8, <2>9
  <2>11. v * c <= rec * sh[lp]
    <3>1. PICK m : m = rec * sh[lp]
      OBVIOUS
    <3>2. m \in Nat /\ c \in Nat \ {0}
      BY <1>0, <1>i, <2>8, <2>10, <3>1 DEF PerLender, ClosedEpoch
    <3>3. (m \div c) * c <= m
      BY <3>2, Quotient
    <3> QED
      BY <2>9, <3>1, <3>3
  <2>12. ClosedEpoch(c, rec, new[e], sh)
    <3>1. \A x \in LPs : new[e][x] = IF x = lp THEN v ELSE cl[x]
      BY <2>2, <2>5, <2>8 DEF Moved
    <3> QED
      BY <2>10, <2>11, <3>1 DEF ClosedEpoch
  <2>13. \A x \in Epochs \ {e} : new[x] = epochRecoveryClaimed[x]
    BY <1>i, <2>3 DEF PerLender
  <2>14. \A x \in Epochs : x < currentEpoch
            => ClosedEpoch(closedEpochShares[x], epochRecoveryReceived[x], new[x], shares[x])
    BY <1>i, <2>8, <2>12, <2>13, Zenon
  <2>15. \A x \in Epochs : x >= currentEpoch => OpenEpoch(epochRecoveryReceived[x], new[x])
    <3>1. \A x \in Epochs : x >= currentEpoch => x # e
      BY <1>0, <2>9, EpochsAreInts
    <3> QED
      BY <1>i, <2>13, <3>1, Zenon
  <2>16. new \in PerLender
    BY <2>5 DEF Moved
  <2> QED
    BY <1>i, <2>1, <2>3, <2>6, <2>7, <2>14, <2>15, <2>16 DEF EpochsOf
<1>5. ASSUME RollLossEpoch
      PROVE  Good
  <2>1. PICK cur, sup, new, v : /\ cur = currentEpoch /\ sup = closedEpochShares'
                                /\ new = epochRecoveryReceived'
                                /\ v = epochRecoveryReceived[currentEpoch] + LpCash
    OBVIOUS
  <2>2. /\ totalShares # 0
        /\ sup = [closedEpochShares EXCEPT ![cur] = totalShares]
        /\ new = [epochRecoveryReceived EXCEPT ![cur] = v]
        /\ totalRecoveryReserved' = totalRecoveryReserved + LpCash
        /\ currentEpoch' = cur + 1
        /\ UNCHANGED <<shares, epochRecoveryClaimed>>
    BY <1>5, <2>1 DEF RollLossEpoch
  <2>3. LpCash \in Nat /\ LpCash \in Int
    BY LpCashFacts
  <2>4. /\ cur \in Epochs /\ cur \in Nat /\ v \in Nat
        /\ OpenEpoch(epochRecoveryReceived[cur], epochRecoveryClaimed[cur])
    BY <1>0, <1>i, <2>1, <2>3
  <2>5. /\ sup \in [Epochs -> Nat] /\ new \in [Epochs -> Nat]
        /\ sup[cur] = totalShares /\ new[cur] = v
        /\ \A x \in Epochs \ {cur} : /\ sup[x] = closedEpochShares[x]
                                     /\ new[x] = epochRecoveryReceived[x]
    BY <1>0, <1>i, <2>2, <2>4
  <2>6. Credited(new, epochRecoveryReceived, cur, LpCash)
    BY <2>1, <2>5 DEF Credited
  <2>7. SumFunctionOnSet(Due(new, epochRecoveryClaimed), Epochs) = totalRecoveryReserved + LpCash
    BY <1>i, <2>3, <2>4, <2>6, DueReceives
  <2>8. ClosedEpoch(totalShares, v, epochRecoveryClaimed[cur], shares[cur])
    <3>1. totalShares = SumFunctionOnSet(shares[cur], LPs)
      BY <2>1 DEF AccountInv, SupplyOf
    <3>2. ASSUME NEW lp \in LPs
          PROVE  epochRecoveryClaimed[cur][lp] * totalShares <= v * shares[cur][lp]
      <4>1. epochRecoveryClaimed[cur][lp] = 0
        BY <2>4 DEF OpenEpoch
      <4>2. shares[cur][lp] \in Nat
        BY <1>0, <2>4 DEF PerLender
      <4>3. v * shares[cur][lp] \in Nat
        BY <2>4, <4>2
      <4> QED
        BY <1>0, <4>1, <4>3
    <3> QED
      BY <1>0, <2>2, <3>1, <3>2 DEF ClosedEpoch
  <2>9. \A e \in Epochs : e < cur + 1
           => ClosedEpoch(sup[e], new[e], epochRecoveryClaimed[e], shares[e])
    <3>1. \A e \in Epochs : e < cur + 1 => e = cur \/ (e \in Epochs \ {cur} /\ e < cur)
      BY <2>4, EpochsAreInts
    <3> QED
      BY <1>i, <2>1, <2>5, <2>8, <3>1, Zenon
  <2>10. \A e \in Epochs : e >= cur + 1 => OpenEpoch(new[e], epochRecoveryClaimed[e])
    <3>1. \A e \in Epochs : e >= cur + 1 => e \in Epochs \ {cur} /\ e >= cur
      BY <2>4, EpochsAreInts
    <3> QED
      BY <1>i, <2>1, <2>5, <3>1, Zenon
  <2>11. EpochsOf(sup, new, epochRecoveryClaimed, shares, cur + 1, totalRecoveryReserved + LpCash)
    BY <1>i, <2>5, <2>7, <2>9, <2>10, Zenon DEF EpochsOf
  <2> QED
    BY <2>1, <2>2, <2>11
<1>6. \/ \E f \in Facilities, a \in Assets : OnRepayment(f, a) \/ RecordRecovery(f, a)
      \/ \E e \in Epochs, lp \in LPs : ClaimEpochRecovery(e, lp)
      \/ RollLossEpoch
      \/ UNCHANGED <<closedEpochShares, epochRecoveryReceived, epochRecoveryClaimed,
                     currentEpoch, totalRecoveryReserved>>
  BY Zenon DEF Next, vars, epochVars, liabilityVars, SetDepositsPaused, Deposit, Withdraw,
     RequestWithdrawal, CancelWithdrawal, ProcessWithdrawals, ClaimWithdrawal, TransferShares,
     Lend, RefundExcess, RecognizeImpairment, ReverseImpairment, WriteOff, Donate, Tick
<1> HIDE DEF Good
<1>z. Good
  BY <1>1, <1>2, <1>3, <1>4, <1>5, <1>6, Zenon
<1> QED
  BY <1>z DEF Good

-----------------------------------------------------------------------------
(* The whole invariant *)

ClockInv ==
    /\ now \in 0 .. MaxTime
    /\ epochRolloverRequired \in BOOLEAN
    /\ depositsPaused \in BOOLEAN

VaultInv ==
    /\ ClockInv /\ CashInv /\ BookInv /\ RefundInv
    /\ QueueInv /\ ReservedInv /\ AccountInv /\ EpochInv

LEMMA ClockStep ==
  ASSUME ClockInv, [Next]_vars
  PROVE  ClockInv'
<1>1. now' \in 0 .. MaxTime
  <2>1. UNCHANGED now \/ (now < MaxTime /\ now' = now + 1)
    BY Zenon DEF Next, vars, ledgerVars, SetDepositsPaused, Deposit, Withdraw,
       RequestWithdrawal, CancelWithdrawal, ProcessWithdrawals, ClaimWithdrawal, TransferShares,
       RollLossEpoch, ClaimEpochRecovery, Lend, OnRepayment, RefundExcess, RecordRecovery,
       RecognizeImpairment, ReverseImpairment, WriteOff, Donate, Tick
  <2> QED
    BY <2>1, VaultConstants DEF ClockInv
<1>2. epochRolloverRequired' \in BOOLEAN
  <2>1. ASSUME NEW f, WriteOff(f)
        PROVE  epochRolloverRequired' \in BOOLEAN
    <3>1. epochRolloverRequired' = (\/ epochRolloverRequired
                                    \/ totalShares # 0 /\ Nav' = 0 /\ PerformingReceivables' = 0
                                                       /\ totalImpairment' = 0)
      BY <2>1, Zenon DEF WriteOff
    <3> QED
      BY <3>1, Zenon DEF ClockInv
  <2>2. ASSUME UNCHANGED epochRolloverRequired \/ epochRolloverRequired' = FALSE
        PROVE  epochRolloverRequired' \in BOOLEAN
    BY <2>2, Zenon DEF ClockInv
  <2>3. \/ \E f \in Facilities : WriteOff(f)
        \/ UNCHANGED epochRolloverRequired \/ epochRolloverRequired' = FALSE
    BY Zenon DEF Next, vars, epochVars, SetDepositsPaused, Deposit, Withdraw,
       RequestWithdrawal, CancelWithdrawal, ProcessWithdrawals, ClaimWithdrawal, TransferShares,
       RollLossEpoch, ClaimEpochRecovery, Lend, OnRepayment, RefundExcess, RecordRecovery,
       RecognizeImpairment, ReverseImpairment, Donate, Tick
  <2> QED
    BY <2>1, <2>2, <2>3, Zenon
<1>3. depositsPaused' \in BOOLEAN
  <2>1. UNCHANGED depositsPaused \/ \E paused \in BOOLEAN : depositsPaused' = paused
    BY Zenon DEF Next, vars, SetDepositsPaused, Deposit, Withdraw,
       RequestWithdrawal, CancelWithdrawal, ProcessWithdrawals, ClaimWithdrawal, TransferShares,
       RollLossEpoch, ClaimEpochRecovery, Lend, OnRepayment, RefundExcess, RecordRecovery,
       RecognizeImpairment, ReverseImpairment, WriteOff, Donate, Tick
  <2> QED
    BY <2>1, Zenon DEF ClockInv
<1> QED
  BY <1>1, <1>2, <1>3, Zenon DEF ClockInv

LEMMA VaultStep ==
  ASSUME VaultInv, [Next]_vars
  PROVE  VaultInv'
<1>1. /\ ClockInv /\ CashInv /\ BookInv /\ RefundInv
      /\ QueueInv /\ ReservedInv /\ AccountInv /\ EpochInv
  BY DEF VaultInv
<1>2. now \in Nat
  BY <1>1, VaultConstants DEF ClockInv
<1>3. totalShares \in Nat /\ currentEpoch \in Epochs
  BY <1>1, AccountInvGives DEF QueueInv, QueueOf
<1>4. ClockInv' /\ CashInv' /\ BookInv' /\ RefundInv'
  BY <1>1, <1>3, ClockStep, CashStep, BookStep, RefundStep
<1>5. QueueInv' /\ ReservedInv' /\ AccountInv' /\ EpochInv'
  BY <1>1, <1>2, <1>3, QueueStep, ReservedStep, AccountStep, EpochStep
<1> QED
  BY <1>4, <1>5, Zenon DEF VaultInv

LEMMA VaultInit ==
  ASSUME Init
  PROVE  VaultInv
<1>f. /\ IsFiniteSet(Facilities) /\ IsFiniteSet(LPs) /\ MaxEpoch \in Nat \ {0} /\ MaxTime \in Nat
      /\ IsFiniteSet(Epochs) /\ 1 \in Epochs /\ Epochs \subseteq Nat
  BY VaultConstants, EpochsFinite, EpochsAreInts DEF Epochs
<1>1. ClockInv
  <2>1. now = 0 /\ epochRolloverRequired = FALSE /\ depositsPaused = FALSE
    BY DEF Init
  <2>2. now \in 0 .. MaxTime
    BY <1>f, <2>1
  <2> QED
    BY <2>1, <2>2, Zenon DEF ClockInv
<1>2. CashInv
  BY DEF Init, CashInv, Solvency
<1>3. SumFunctionOnSet([f \in Facilities |-> 0], Facilities) = 0
  BY <1>f, SumZero
<1>4. BookInv
  <2>1. /\ debt = [f \in Facilities |-> 0] /\ impairmentOf = [f \in Facilities |-> 0]
        /\ totalImpairment = 0 /\ writeOffEpoch = [f \in Facilities |-> 0]
    BY DEF Init
  <2>2. 0 \in 0 .. MaxEpoch
    BY <1>f
  <2> QED
    BY <1>3, <2>1, <2>2 DEF BookInv, ImpairmentWithinDebt, IsWrittenOff
<1>5. RefundInv
  BY <1>3 DEF Init, RefundInv
<1>6. /\ requests = <<>> /\ requests \in Seq(WithdrawalRequest) /\ Len(requests) = 0
      /\ DOMAIN requests = {}
  BY DEF Init
<1>7. QueueInv
  <2>1. withdrawalHead \in 1 .. Len(requests) + 1 /\ currentEpoch \in Epochs
    BY <1>6, <1>f DEF Init
  <2>2. 1 .. Len(requests) = {}
    BY <1>6
  <2> QED
    BY <1>6, <2>1, <2>2 DEF QueueInv, QueueOf, InOrder
<1>8. ReservedInv
  BY <1>6, SumEmpty DEF Init, ReservedInv, OwedSum
<1>9. ASSUME NEW own, NEW e
      PROVE  LeftSum(requests, own, e) = 0
  BY <1>6, SumEmpty DEF LeftSum
<1>10. SumFunctionOnSet([lp \in LPs |-> 0], LPs) = 0
  BY <1>f, SumZero
<1>11. /\ shares = [e \in Epochs |-> [lp \in LPs |-> 0]]
       /\ lockedShares = [e \in Epochs |-> [lp \in LPs |-> 0]]
       /\ epochRecoveryClaimed = [e \in Epochs |-> [lp \in LPs |-> 0]]
       /\ epochRecoveryReceived = [e \in Epochs |-> 0]
       /\ closedEpochShares = [e \in Epochs |-> 0]
       /\ totalShares = 0 /\ currentEpoch = 1 /\ pendingWithdrawalShares = 0
       /\ totalRecoveryReserved = 0
  BY DEF Init
<1>12. AccountInv
  <2>1. SupplyOf(totalShares, shares, currentEpoch)
    BY <1>10, <1>11, <1>f DEF SupplyOf, PerLender
  <2>2. LocksOf(lockedShares, shares, requests)
    BY <1>9, <1>11 DEF LocksOf, PerLender
  <2> QED
    BY <1>9, <1>11, <2>1, <2>2 DEF AccountInv
<1>13. EpochInv
  <2>1. epochRecoveryClaimed \in PerLender
    BY <1>11 DEF PerLender
  <2>2. Due(epochRecoveryReceived, epochRecoveryClaimed) = [e \in Epochs |-> 0]
    BY <1>10, <1>11 DEF Due
  <2>3. SumFunctionOnSet(Due(epochRecoveryReceived, epochRecoveryClaimed), Epochs) = 0
    BY <1>f, <2>2, SumZero
  <2>4. \A e \in Epochs : ~(e < currentEpoch)
    BY <1>11 DEF Epochs
  <2>5. \A e \in Epochs : OpenEpoch(epochRecoveryReceived[e], epochRecoveryClaimed[e])
    BY <1>11 DEF OpenEpoch
  <2>6. closedEpochShares \in [Epochs -> Nat] /\ epochRecoveryReceived \in [Epochs -> Nat]
    BY <1>11
  <2> QED
    BY <1>11, <2>1, <2>3, <2>4, <2>5, <2>6 DEF EpochInv, EpochsOf
<1> QED
  BY <1>1, <1>2, <1>4, <1>5, <1>7, <1>8, <1>12, <1>13, Zenon DEF VaultInv

LEMMA VaultInvHolds == Spec => []VaultInv
<1>1. Init => VaultInv
  BY VaultInit
<1>2. VaultInv /\ [Next]_vars => VaultInv'
  BY VaultStep
<1> QED
  BY <1>1, <1>2, PTL DEF Spec

LEMMA VaultInvGives ==
  ASSUME VaultInv
  PROVE  TypeOK /\ Backed /\ QueueKept
<1>1. /\ ClockInv /\ CashInv /\ BookInv /\ RefundInv
      /\ QueueInv /\ ReservedInv /\ AccountInv /\ EpochInv
  BY DEF VaultInv
<1>2. /\ requests \in Seq(WithdrawalRequest) /\ currentEpoch \in Epochs
      /\ withdrawalHead \in 1 .. Len(requests) + 1
  BY <1>1 DEF QueueInv, QueueOf
<1>3. /\ SharesAccounted
      /\ totalShares \in Nat /\ pendingWithdrawalShares \in Nat
      /\ shares \in PerLender /\ lockedShares \in PerLender
  BY <1>1, AccountInvGives
<1>4. FirstComeFirstServed /\ SlippageFloor
  BY <1>1, QueueInvGives
<1>5. /\ closedEpochShares \in [Epochs -> Nat]
      /\ epochRecoveryReceived \in [Epochs -> Nat]
      /\ epochRecoveryClaimed \in PerLender
  BY <1>1 DEF EpochInv, EpochsOf
<1>6. TypeOK
  BY <1>1, <1>2, <1>3, <1>5, Zenon
     DEF TypeOK, ClockInv, CashInv, BookInv, RefundInv, PerLender
<1>7. ClaimsCovered
  <2>1. totalBorrowerOwned = SumFunctionOnSet(refundableOf, Facilities)
    BY <1>1 DEF RefundInv
  <2>2. totalWithdrawalReserved = SumFunctionOnSet(
            [id \in DOMAIN requests |-> requests[id].assetsReserved - requests[id].assetsClaimed],
            DOMAIN requests)
    BY <1>1, Zenon DEF ReservedInv, OwedSum, Owed
  <2>3. /\ \A e \in Epochs, lp \in LPs : RecoveryClaimable(e, lp) >= 0
        /\ totalRecoveryReserved >=
               SumFunctionOnSet([epoch \in Epochs |->
                  SumFunctionOnSet([lp \in LPs |-> RecoveryClaimable(epoch, lp)], LPs)], Epochs)
    BY <1>1, <1>2, <1>3, EpochInvCovers
  <2> QED
    BY <2>1, <2>2, <2>3, Zenon DEF ClaimsCovered
<1>8. Backed
  BY <1>1, <1>7, Zenon DEF Backed, CashInv, BookInv
<1>9. QueueKept
  BY <1>3, <1>4, Zenon DEF QueueKept
<1> QED
  BY <1>6, <1>8, <1>9

(* Type correctness of the vault: every balance, total, share count, lock   *)
(* and request field stays a natural number, so none of the contract's      *)
(* checked subtractions reverts after the guards passed.                    *)
THEOREM VaultType == Spec => []TypeOK
<1>1. VaultInv => TypeOK
  BY VaultInvGives
<1> QED
  BY <1>1, VaultInvHolds, PTL

(* Everything anyone may claim is there: the tokens cover the three totals, *)
(* the totals cover every refund, funded withdrawal and pro-rata recovery   *)
(* (rounding included), and the loss allowance is inside the debt.          *)
THEOREM VaultBacked == Spec => []Backed
<1>1. VaultInv => Backed
  BY VaultInvGives
<1> QED
  BY <1>1, VaultInvHolds, PTL

(* The withdrawal queue: supply, locks and pending shares are the sums of   *)
(* what they stand for across rollovers, service is in order of arrival,    *)
(* and no sequence of partial fills goes below an owner's floor.            *)
THEOREM VaultQueueKept == Spec => []QueueKept
<1>1. VaultInv => QueueKept
  BY VaultInvGives
<1> QED
  BY <1>1, VaultInvHolds, PTL

-----------------------------------------------------------------------------
(* The share price *)

Performing == {f \in Facilities : ~IsWrittenOff(f)}

(* The loss allowance never exceeds the debt it is for, so NAV is never     *)
(* floored at zero: it is cash plus performing debt minus the allowance.    *)
LEMMA NavIs ==
  ASSUME CashInv, BookInv
  PROVE  /\ PerformingReceivables \in Nat
         /\ Nav = LpCash + PerformingReceivables - totalImpairment
         /\ Nav \in Nat /\ LpCash \in Nat
<1>1. PICK S : S = Performing
  OBVIOUS
<1>2. /\ S \subseteq Facilities /\ IsFiniteSet(Facilities)
      /\ \A f \in Facilities : debt[f] \in Nat /\ impairmentOf[f] \in Nat
      /\ \A f \in Facilities : impairmentOf[f] <= debt[f]
      /\ \A f \in Facilities \ S : impairmentOf[f] = 0
      /\ totalImpairment = SumFunctionOnSet(impairmentOf, Facilities)
      /\ totalImpairment \in Nat
  BY <1>1, VaultConstants DEF BookInv, ImpairmentWithinDebt, Performing
<1>3. IsFiniteSet(S)
  BY <1>2, FS_Subset
<1>4. SumFunctionOnSet(debt, S) \in Nat
  <2>1. \A f \in S : debt[f] \in Nat
    BY <1>2
  <2> QED
    BY <1>3, <2>1, SumNat
<1>5. totalImpairment = SumFunctionOnSet(impairmentOf, S)
  <2>1. IsFiniteSet(Facilities) /\ \A f \in Facilities : impairmentOf[f] \in Int
    BY <1>2
  <2>2. \A f \in Facilities \ S : impairmentOf[f] = 0
    BY <1>2
  <2>3. SumFunctionOnSet(impairmentOf, Facilities)
          = SumFunctionOnSet(impairmentOf, Facilities \intersect S)
    BY <2>1, <2>2, SumSupport
  <2>4. Facilities \intersect S = S
    BY <1>2
  <2> QED
    BY <1>2, <2>3, <2>4
<1>6. SumFunctionOnSet(impairmentOf, S) <= SumFunctionOnSet(debt, S)
  <2>1. \A f \in S : impairmentOf[f] \in Int /\ debt[f] \in Int /\ impairmentOf[f] <= debt[f]
    BY <1>2
  <2> QED
    BY <1>3, <2>1, SumLeq
<1>7. PerformingReceivables = SumFunctionOnSet(debt, S)
  BY <1>1 DEF PerformingReceivables, Performing
<1>8. PerformingReceivables \in Nat /\ totalImpairment <= PerformingReceivables
  BY <1>4, <1>5, <1>6, <1>7
<1>9. LpCash \in Nat
  BY LpCashFacts
<1> QED
  BY <1>2, <1>8, <1>9 DEF Nav

(* Performing debt moves with a facility that is not written off. *)
LEMMA PerformingMoves ==
  ASSUME BookInv, NEW f \in Facilities, NEW d \in Int, NEW v, v = debt[f] + d,
         debt' = [debt EXCEPT ![f] = v], UNCHANGED writeOffEpoch
  PROVE  /\ IsWrittenOff(f) => PerformingReceivables' = PerformingReceivables
         /\ ~IsWrittenOff(f) => PerformingReceivables' = PerformingReceivables + d
<1>1. PICK S, new : S = Performing /\ new = debt'
  OBVIOUS
<1>2. /\ S \subseteq Facilities /\ IsFiniteSet(Facilities)
      /\ debt \in [Facilities -> Nat]
  BY <1>1, VaultConstants DEF BookInv, Performing
<1>3. IsFiniteSet(S)
  BY <1>2, FS_Subset
<1>4. /\ \A x \in S : debt[x] \in Int
      /\ \A x \in S \ {f} : new[x] = debt[x]
      /\ new[f] = debt[f] + d
  BY <1>1, <1>2
<1>5. /\ PerformingReceivables = SumFunctionOnSet(debt, S)
      /\ PerformingReceivables' = SumFunctionOnSet(new, S)
  BY <1>1 DEF PerformingReceivables, Performing, IsWrittenOff
<1>6. f \in S <=> ~IsWrittenOff(f)
  BY <1>1 DEF Performing
<1>7. CASE f \in S
  <2>1. SumFunctionOnSet(new, S) = SumFunctionOnSet(debt, S) + d
    BY <1>3, <1>4, <1>7, TotalMoves
  <2> QED
    BY <1>5, <1>6, <1>7, <2>1
<1>8. CASE f \notin S
  <2>1. \A x \in S : new[x] = debt[x]
    BY <1>4, <1>8
  <2>2. SumFunctionOnSet(new, S) = SumFunctionOnSet(debt, S)
    BY <1>3, <2>1, SumAgree
  <2> QED
    BY <1>5, <1>6, <1>8, <2>2
<1> QED
  BY <1>7, <1>8

(* Assets paid in for shares, and shares redeemed for assets, rounded down. *)
LEMMA PriceIn ==
  ASSUME NEW n \in Nat \ {0}, NEW t \in Nat \ {0}, NEW a \in Nat, NEW m, m = (a * t) \div n
  PROVE  (n + a) * t >= n * (t + m)
<1>1. a * t \in Nat
  OBVIOUS
<1>2. m \in Nat /\ m * n <= a * t
  BY <1>1, Quotient
<1>3. (n + a) * t = n * t + a * t /\ n * (t + m) = n * t + m * n /\ n * t \in Nat /\ m * n \in Nat
  BY <1>2
<1> QED
  BY <1>1, <1>2, <1>3

LEMMA PriceOut ==
  ASSUME NEW n \in Nat \ {0}, NEW t \in Nat \ {0}, NEW m \in Nat, NEW a, a = (m * n) \div t
  PROVE  (n - a) * t >= n * (t - m)
<1>1. m * n \in Nat
  OBVIOUS
<1>2. a \in Nat /\ a * t <= m * n
  BY <1>1, Quotient
<1>3. (n - a) * t = n * t - a * t /\ n * (t - m) = n * t - m * n /\ n * t \in Nat /\ a * t \in Nat
  BY <1>2
<1> QED
  BY <1>1, <1>2, <1>3

LEMMA LpCashIs ==
  ASSUME CashInv
  PROVE  LpCash = balance - (totalBorrowerOwned + totalWithdrawalReserved + totalRecoveryReserved)
  BY LpCashFacts DEF CashInv

LEMMA PriceStep ==
  ASSUME VaultInv, [Next]_vars
  PROVE  SharePriceKept
<1>i. /\ CashInv /\ BookInv /\ QueueInv /\ AccountInv
      /\ VaultInv'
  BY VaultStep DEF VaultInv
<1>j. CashInv' /\ BookInv'
  BY <1>i, Zenon DEF VaultInv
<1>0. /\ balance \in Nat /\ totalBorrowerOwned \in Nat
      /\ totalWithdrawalReserved \in Nat /\ totalRecoveryReserved \in Nat
      /\ totalImpairment \in Nat /\ debt \in [Facilities -> Nat]
      /\ impairmentOf \in [Facilities -> Nat]
      /\ totalShares \in Nat /\ Assets \subseteq Nat /\ ShareAmounts \subseteq Nat
      /\ currentEpoch \in Nat /\ currentEpoch # 0
  BY <1>i, AccountInvGives, VaultConstants DEF CashInv, BookInv, QueueInv, QueueOf, Epochs
<1>1. /\ PerformingReceivables \in Nat /\ Nav \in Nat /\ LpCash \in Nat
      /\ Nav = LpCash + PerformingReceivables - totalImpairment
  BY <1>i, NavIs
<1>2. LpCash = balance - (totalBorrowerOwned + totalWithdrawalReserved + totalRecoveryReserved)
  BY <1>i, LpCashIs
<1>3. (/\ PerformingReceivables \in Nat /\ Nav \in Nat /\ LpCash \in Nat
       /\ Nav = LpCash + PerformingReceivables - totalImpairment)'
  BY <1>j, NavIs, PTL
<1>4. (LpCash = balance - (totalBorrowerOwned + totalWithdrawalReserved + totalRecoveryReserved))'
  BY <1>j, LpCashIs, PTL
<1>v. VirtualAssets \in Nat \ {0} /\ VirtualShares \in Nat \ {0}
  BY VaultConstants
<1>n. Nav + VirtualAssets \in Nat \ {0} /\ totalShares + VirtualShares \in Nat \ {0}
  BY <1>0, <1>1, <1>v
<1>u. ASSUME totalShares' = totalShares, Nav' >= Nav
      PROVE  SharePriceKept
  <2>1. PICK x, y, t : /\ x = Nav + VirtualAssets /\ y = Nav' + VirtualAssets
                       /\ t = totalShares + VirtualShares
    OBVIOUS
  <2>2. x \in Nat /\ y \in Nat /\ t \in Nat /\ x <= y
    BY <1>1, <1>3, <1>n, <1>u, <1>v, <2>1
  <2>3. x * t <= y * t /\ x * t \in Nat /\ y * t \in Nat
    BY <2>2, TimesMonotone
  <2>4. y * t >= x * t
    BY <2>3
  <2> QED
    BY <1>u, <2>1, <2>4 DEF SharePriceKept
<1>g. ASSUME LpCash' >= LpCash, PerformingReceivables' >= PerformingReceivables,
             totalImpairment' <= totalImpairment
      PROVE  Nav' >= Nav
  <2>1. PICK c, c2, p, p2, i, i2 :
           /\ c = LpCash /\ c2 = LpCash' /\ p = PerformingReceivables
           /\ p2 = PerformingReceivables' /\ i = totalImpairment /\ i2 = totalImpairment'
    OBVIOUS
  <2>2. totalImpairment' \in Nat
    BY <1>j DEF BookInv
  <2>3. /\ c \in Nat /\ c2 \in Nat /\ p \in Nat /\ p2 \in Nat /\ i \in Nat /\ i2 \in Nat
        /\ c2 >= c /\ p2 >= p /\ i2 <= i
    BY <1>0, <1>1, <1>3, <1>g, <2>1, <2>2
  <2>4. c2 + p2 - i2 >= c + p - i
    BY <2>3
  <2>5. Nav = c + p - i /\ Nav' = c2 + p2 - i2
    BY <1>1, <1>3, <2>1
  <2> QED
    BY <2>4, <2>5
<1>c. ASSUME UNCHANGED <<totalShares, debt, writeOffEpoch>>, totalImpairment' = totalImpairment,
             LpCash' >= LpCash
      PROVE  SharePriceKept
  <2>1. PerformingReceivables' = PerformingReceivables
    BY <1>c DEF PerformingReceivables, IsWrittenOff
  <2>2. Nav' >= Nav
    <3>1. PerformingReceivables' >= PerformingReceivables /\ totalImpairment' <= totalImpairment
      BY <1>0, <1>1, <1>c, <2>1
    <3> QED
      BY <1>c, <1>g, <3>1
  <2> QED
    BY <1>c, <1>u, <2>2
<1>out. ASSUME NEW m \in Nat, NEW a \in Nat, a = ConvertToAssets(m),
               totalShares' = totalShares - m, LpCash' = LpCash - a,
               UNCHANGED <<debt, writeOffEpoch, totalImpairment>>
        PROVE  SharePriceKept
  <2>1. PerformingReceivables' = PerformingReceivables
    BY <1>out DEF PerformingReceivables, IsWrittenOff
  <2>2. Nav' = Nav - a
    BY <1>0, <1>1, <1>3, <1>out, <2>1
  <2>3. PICK n, t : n = Nav + VirtualAssets /\ t = totalShares + VirtualShares
    OBVIOUS
  <2>4. n \in Nat \ {0} /\ t \in Nat \ {0} /\ a = (m * n) \div t
    BY <1>n, <1>out, <2>3 DEF ConvertToAssets
  <2>5. (n - a) * t >= n * (t - m)
    BY <1>out, <2>4, PriceOut
  <2>6. Nav' + VirtualAssets = n - a /\ totalShares' + VirtualShares = t - m
    BY <1>0, <1>1, <1>out, <1>v, <2>2, <2>3
  <2> QED
    BY <2>3, <2>5, <2>6 DEF SharePriceKept
<1>6. ASSUME NEW lp, NEW a \in Assets, NEW mn, Deposit(lp, a, mn)
      PROVE  SharePriceKept
  <2>1. PICK m : m = ConvertToShares(a)
    OBVIOUS
  <2>2. /\ totalShares' = totalShares + m /\ balance' = balance + a /\ m \in Nat /\ a \in Nat
        /\ UNCHANGED <<totalBorrowerOwned, totalWithdrawalReserved, totalRecoveryReserved,
                       debt, writeOffEpoch, totalImpairment>>
    BY <1>0, <1>6, <2>1 DEF Deposit, ledgerVars, liabilityVars, bookVars
  <2>3. PerformingReceivables' = PerformingReceivables
    BY <2>2 DEF PerformingReceivables, IsWrittenOff
  <2>4. LpCash' = LpCash + a
    BY <1>0, <1>2, <1>4, <2>2
  <2>5. Nav' = Nav + a
    BY <1>0, <1>1, <1>3, <2>2, <2>3, <2>4
  <2>6. PICK n, t : n = Nav + VirtualAssets /\ t = totalShares + VirtualShares
    OBVIOUS
  <2>7. n \in Nat \ {0} /\ t \in Nat \ {0} /\ m = (a * t) \div n
    BY <1>n, <2>1, <2>6 DEF ConvertToShares
  <2>8. (n + a) * t >= n * (t + m)
    BY <2>2, <2>7, PriceIn
  <2>9. Nav' + VirtualAssets = n + a /\ totalShares' + VirtualShares = t + m
    BY <1>0, <1>1, <1>v, <2>2, <2>5, <2>6
  <2> QED
    BY <2>6, <2>8, <2>9 DEF SharePriceKept
<1>7. ASSUME NEW lp, NEW n \in ShareAmounts, NEW mn, Withdraw(lp, n, mn)
      PROVE  SharePriceKept
  <2>1. PICK a : a = ConvertToAssets(n)
    OBVIOUS
  <2>2. /\ totalShares' = totalShares - n /\ balance' = balance - a /\ n \in Nat
        /\ a \in 1 .. AvailableCash
        /\ UNCHANGED <<totalBorrowerOwned, totalWithdrawalReserved, totalRecoveryReserved,
                       debt, writeOffEpoch, totalImpairment>>
    BY <1>0, <1>7, <2>1 DEF Withdraw, Burn, Push, ledgerVars, liabilityVars, bookVars
  <2>3. a \in Nat
    BY <1>i, <2>2, LpCashFacts
  <2>4. LpCash' = LpCash - a
    BY <1>0, <1>2, <1>4, <2>2, <2>3
  <2> QED
    BY <1>out, <2>1, <2>2, <2>3, <2>4
<1>8. ASSUME ProcessWithdrawals
      PROVE  SharePriceKept
  <2>1. UNCHANGED <<balance, totalBorrowerOwned, totalRecoveryReserved, debt, writeOffEpoch,
                    totalImpairment>>
    BY <1>8 DEF ProcessWithdrawals, ledgerVars, bookVars
  <2>2. CASE UNCHANGED <<totalShares, totalWithdrawalReserved>>
    <3>1. LpCash' >= LpCash
      BY <1>0, <1>1, <1>2, <1>4, <2>1, <2>2
    <3> QED
      BY <1>c, <2>1, <2>2, <3>1
  <2>3. CASE \E id \in 1 .. Len(requests) :
                Fill(id, FillShares(requests[id]), ConvertToAssets(FillShares(requests[id])))
    <3>1. PICK id \in 1 .. Len(requests) :
                Fill(id, FillShares(requests[id]), ConvertToAssets(FillShares(requests[id])))
      BY <2>3
    <3>2. PICK n, a : n = FillShares(requests[id]) /\ a = ConvertToAssets(n)
      OBVIOUS
    <3>3. requests[id].sharesRemaining \in Nat
      BY <1>i, RequestFields DEF QueueInv, QueueOf
    <3>4. n \in Nat
      BY <1>0, <1>i, <3>2, <3>3, FillSharesFit
    <3>5. /\ totalShares' = totalShares - n /\ a \in Nat
          /\ totalWithdrawalReserved' = totalWithdrawalReserved + a
      BY <1>1, <3>1, <3>2 DEF Fill, Burn
    <3>6. LpCash' = LpCash - a
      BY <1>0, <1>2, <1>4, <2>1, <3>5
    <3> QED
      BY <1>out, <2>1, <3>2, <3>4, <3>5, <3>6
  <2>4. withdrawalHead <= Len(requests) => withdrawalHead \in 1 .. Len(requests)
    BY <1>i DEF QueueInv, QueueOf
  <2> QED
    BY <1>8, <2>2, <2>3, <2>4, Zenon DEF ProcessWithdrawals, shareVars
<1>9. ASSUME NEW id, ClaimWithdrawal(id)
      PROVE  SharePriceKept
  <2>1. PICK a : a \in 1 .. totalWithdrawalReserved /\ balance' = balance - a
                 /\ totalWithdrawalReserved' = totalWithdrawalReserved - a
    BY <1>9 DEF ClaimWithdrawal, Push
  <2>2. UNCHANGED <<totalShares, debt, writeOffEpoch, totalImpairment, totalBorrowerOwned,
                    totalRecoveryReserved>>
    BY <1>9 DEF ClaimWithdrawal, shareVars, ledgerVars, bookVars
  <2>3. LpCash' >= LpCash
    BY <1>0, <1>1, <1>2, <1>4, <2>1, <2>2
  <2> QED
    BY <1>c, <2>2, <2>3
<1>10. ASSUME NEW e, NEW lp, ClaimEpochRecovery(e, lp)
       PROVE  SharePriceKept
  <2>1. PICK a : a \in 1 .. totalRecoveryReserved /\ balance' = balance - a
                 /\ totalRecoveryReserved' = totalRecoveryReserved - a
    BY <1>10 DEF ClaimEpochRecovery, Push
  <2>2. UNCHANGED <<totalShares, debt, writeOffEpoch, totalImpairment, totalBorrowerOwned,
                    totalWithdrawalReserved>>
    BY <1>10 DEF ClaimEpochRecovery, shareVars, ledgerVars, bookVars
  <2>3. LpCash' >= LpCash
    BY <1>0, <1>1, <1>2, <1>4, <2>1, <2>2
  <2> QED
    BY <1>c, <2>2, <2>3
<1>11. ASSUME NEW f, NEW a \in Assets, RefundExcess(f, a)
       PROVE  SharePriceKept
  <2>1. /\ a \in Nat /\ balance' = balance - a /\ totalBorrowerOwned' = totalBorrowerOwned - a
        /\ UNCHANGED <<totalShares, debt, writeOffEpoch, totalImpairment,
                       totalWithdrawalReserved, totalRecoveryReserved>>
    BY <1>0, <1>11 DEF RefundExcess, Push, shareVars, ledgerVars, bookVars
  <2>2. LpCash' >= LpCash
    BY <1>0, <1>1, <1>2, <1>4, <2>1
  <2> QED
    BY <1>c, <2>1, <2>2
<1>12. ASSUME NEW f, NEW a \in Assets, RecordRecovery(f, a)
       PROVE  SharePriceKept
  <2>1. /\ a \in Nat /\ balance' = balance + a
        /\ UNCHANGED <<totalShares, debt, writeOffEpoch, totalImpairment,
                       totalBorrowerOwned, totalWithdrawalReserved>>
        /\ \/ totalRecoveryReserved' = totalRecoveryReserved + a
           \/ totalRecoveryReserved' = totalRecoveryReserved
    BY <1>0, <1>12 DEF RecordRecovery, ReserveOldEpochRecovery, shareVars, ledgerVars, bookVars
  <2>2. LpCash' >= LpCash
    BY <1>0, <1>1, <1>2, <1>4, <2>1
  <2> QED
    BY <1>c, <2>1, <2>2
<1>13. ASSUME NEW a \in Assets, Donate(a)
       PROVE  SharePriceKept
  <2>1. /\ a \in Nat /\ balance' = balance + a
        /\ UNCHANGED <<totalShares, debt, writeOffEpoch, totalImpairment,
                       totalBorrowerOwned, totalWithdrawalReserved, totalRecoveryReserved>>
    BY <1>0, <1>13 DEF Donate, shareVars, ledgerVars, bookVars, liabilityVars
  <2>2. LpCash' >= LpCash
    BY <1>0, <1>1, <1>2, <1>4, <2>1
  <2> QED
    BY <1>c, <2>1, <2>2
<1>14. ASSUME UNCHANGED <<totalShares, debt, writeOffEpoch, totalImpairment, balance, liabilityVars>>
       PROVE  SharePriceKept
  <2>1. LpCash' >= LpCash
    BY <1>0, <1>1, <1>2, <1>4, <1>14 DEF liabilityVars
  <2> QED
    BY <1>c, <1>14, <2>1
<1>15. ASSUME NEW f \in Facilities, NEW a \in Assets, Lend(f, a)
       PROVE  SharePriceKept
  <2>1. PICK v : v = debt[f] + a
    OBVIOUS
  <2>2. /\ a \in Nat /\ a \in Int /\ balance' = balance - a /\ ~IsWrittenOff(f)
        /\ debt' = [debt EXCEPT ![f] = v]
        /\ UNCHANGED <<totalShares, writeOffEpoch, totalImpairment,
                       totalBorrowerOwned, totalWithdrawalReserved, totalRecoveryReserved>>
    BY <1>0, <1>15, <2>1 DEF Lend, Push, shareVars, bookVars, liabilityVars
  <2>3. PerformingReceivables' = PerformingReceivables + a
    BY <1>i, <2>1, <2>2, PerformingMoves
  <2>4. Nav' >= Nav
    BY <1>0, <1>1, <1>2, <1>3, <1>4, <2>2, <2>3
  <2> QED
    BY <1>u, <2>2, <2>4
<1>16. ASSUME NEW f \in Facilities, NEW a \in Assets, OnRepayment(f, a)
       PROVE  SharePriceKept
  <2>1. PICK applied, v, kept, d :
            /\ applied = (IF a < debt[f] THEN a ELSE debt[f])
            /\ v = debt[f] - applied
            /\ kept = IF impairmentOf[f] > v THEN v ELSE impairmentOf[f]
            /\ d = -applied
    OBVIOUS
  <2>2. debt[f] \in Nat /\ impairmentOf[f] \in Nat /\ a \in Nat
    BY <1>0
  <2>3. /\ applied \in 0 .. a /\ d \in Int /\ v = debt[f] + d /\ v \in Nat /\ kept \in Nat
        /\ kept <= impairmentOf[f]
    BY <2>1, <2>2
  <2>4. /\ balance' = balance + a
        /\ totalBorrowerOwned' = totalBorrowerOwned + (a - applied)
        /\ debt' = [debt EXCEPT ![f] = v]
        /\ totalImpairment' = totalImpairment - (impairmentOf[f] - kept)
        /\ ReserveOldEpochRecovery(f, applied)
        /\ UNCHANGED <<totalShares, writeOffEpoch, totalWithdrawalReserved>>
    BY <1>16, <2>1 DEF OnRepayment, shareVars
  <2>5. /\ IsWrittenOff(f) => PerformingReceivables' = PerformingReceivables
        /\ ~IsWrittenOff(f) => PerformingReceivables' = PerformingReceivables + d
    BY <1>i, <2>3, <2>4, PerformingMoves
  <2>6. CASE ~IsWrittenOff(f)
    <3>1. totalRecoveryReserved' = totalRecoveryReserved
      BY <2>4, <2>6 DEF ReserveOldEpochRecovery, OldEpochRecovery
    <3>2. LpCash' = LpCash + applied
      BY <1>0, <1>2, <1>4, <2>2, <2>3, <2>4, <3>1
    <3>3. Nav' >= Nav
      BY <1>0, <1>1, <1>3, <2>1, <2>2, <2>3, <2>4, <2>5, <2>6, <3>2
    <3> QED
      BY <1>u, <2>4, <3>3
  <2>7. CASE IsWrittenOff(f)
    <3>1. \/ totalRecoveryReserved' = totalRecoveryReserved
          \/ totalRecoveryReserved' = totalRecoveryReserved + applied
      BY <2>4 DEF ReserveOldEpochRecovery
    <3>2. LpCash' >= LpCash
      BY <1>0, <1>2, <1>4, <2>2, <2>3, <2>4, <3>1
    <3>3. totalImpairment' <= totalImpairment /\ totalImpairment' \in Int
      BY <1>0, <2>2, <2>3, <2>4
    <3>4. Nav' >= Nav
      <4>1. PerformingReceivables' >= PerformingReceivables
        BY <1>1, <2>5, <2>7
      <4> QED
        BY <1>g, <3>2, <3>3, <4>1
    <3> QED
      BY <1>u, <2>4, <3>4
  <2> QED
    BY <2>6, <2>7
<1>17. ASSUME NEW f \in Facilities, NEW a \in Assets, RecognizeImpairment(f, a)
       PROVE  SharePriceKept
  <2>1. totalImpairment' > totalImpairment
    BY <1>0, <1>17 DEF RecognizeImpairment
  <2> QED
    BY <2>1 DEF SharePriceKept
<1>18. ASSUME NEW f \in Facilities, NEW a \in Assets, ReverseImpairment(f, a)
       PROVE  SharePriceKept
  <2>1. /\ totalImpairment' = totalImpairment - a /\ a \in Nat
        /\ UNCHANGED <<totalShares, debt, writeOffEpoch, balance, totalBorrowerOwned,
                       totalWithdrawalReserved, totalRecoveryReserved>>
    BY <1>0, <1>18 DEF ReverseImpairment, ledgerVars, cashVars, liabilityVars, shareVars
  <2>2. PerformingReceivables' = PerformingReceivables
    BY <2>1 DEF PerformingReceivables, IsWrittenOff
  <2>3. LpCash' = LpCash
    BY <1>2, <1>4, <2>1
  <2>t. totalImpairment \in Nat /\ totalImpairment' \in Int /\ totalImpairment' <= totalImpairment
    BY <1>0, <2>1
  <2>4. Nav' >= Nav
    <3>1. LpCash' >= LpCash /\ PerformingReceivables' >= PerformingReceivables
      BY <1>1, <2>2, <2>3
    <3> QED
      BY <1>g, <2>t, <3>1
  <2> QED
    BY <1>u, <2>1, <2>4
<1>19. ASSUME NEW f \in Facilities, WriteOff(f)
       PROVE  SharePriceKept
  <2>1. writeOffEpoch[f] = 0 /\ writeOffEpoch' = [writeOffEpoch EXCEPT ![f] = currentEpoch]
    BY <1>19, Zenon DEF WriteOff, IsWrittenOff
  <2>2. writeOffEpoch'[f] # writeOffEpoch[f]
    BY <1>0, <1>i, <2>1 DEF BookInv
  <2> QED
    BY <2>2 DEF SharePriceKept
<1>20. ASSUME RollLossEpoch
       PROVE  SharePriceKept
  <2>1. currentEpoch' # currentEpoch
    BY <1>0, <1>20 DEF RollLossEpoch
  <2> QED
    BY <2>1 DEF SharePriceKept
<1>21. ASSUME NEW bearing, Tick(bearing)
       PROVE  SharePriceKept
  <2>1. /\ debt' = [f \in Facilities |-> IF f \in bearing THEN debt[f] + 1 ELSE debt[f]]
        /\ UNCHANGED <<totalShares, writeOffEpoch, totalImpairment, balance, totalBorrowerOwned,
                       totalWithdrawalReserved, totalRecoveryReserved>>
    BY <1>21 DEF Tick, cashVars, liabilityVars, shareVars, bookVars
  <2>2. PICK S, new : S = Performing /\ new = debt'
    OBVIOUS
  <2>3. S \subseteq Facilities /\ IsFiniteSet(Facilities)
    BY <2>2, VaultConstants DEF Performing
  <2>4. IsFiniteSet(S)
    BY <2>3, FS_Subset
  <2>5. \A f \in S : debt[f] \in Int /\ new[f] \in Int /\ debt[f] <= new[f]
    BY <1>0, <2>1, <2>2, <2>3
  <2>6. SumFunctionOnSet(debt, S) <= SumFunctionOnSet(new, S)
    BY <2>4, <2>5, SumLeq
  <2>7. /\ PerformingReceivables = SumFunctionOnSet(debt, S)
        /\ PerformingReceivables' = SumFunctionOnSet(new, S)
    BY <2>1, <2>2 DEF PerformingReceivables, Performing, IsWrittenOff
  <2>8. LpCash' = LpCash
    BY <1>2, <1>4, <2>1
  <2>9. Nav' >= Nav
    BY <1>0, <1>1, <1>3, <2>1, <2>6, <2>7, <2>8
  <2> QED
    BY <1>u, <2>1, <2>9
<1>q. ASSUME \/ \E paused \in BOOLEAN : SetDepositsPaused(paused)
             \/ \E lp \in LPs, n \in ShareAmounts, m \in MinAssets : RequestWithdrawal(lp, n, m)
             \/ \E id \in 1 .. Len(requests) : CancelWithdrawal(id)
             \/ \E from, to \in LPs, n \in ShareAmounts : TransferShares(from, to, n)
             \/ UNCHANGED vars
      PROVE  UNCHANGED <<totalShares, debt, writeOffEpoch, totalImpairment, balance, liabilityVars>>
  BY <1>q, Zenon DEF SetDepositsPaused, RequestWithdrawal, CancelWithdrawal, TransferShares, vars,
     ledgerVars, cashVars, shareVars, bookVars
<1> QED
  BY <1>6, <1>7, <1>8, <1>9, <1>10, <1>11, <1>12, <1>13, <1>14, <1>15, <1>16, <1>17, <1>18, <1>19,
     <1>20, <1>21, <1>q, Zenon DEF Next

(* Late cash of a closed epoch stays out of NAV, and a rollover leaves none. *)
LEMMA IsolationStep ==
  ASSUME VaultInv, [Next]_vars
  PROVE  ClosedEpochIsolated
<1>i. CashInv /\ BookInv /\ QueueInv /\ AccountInv /\ VaultInv'
  BY VaultStep DEF VaultInv
<1>j. CashInv' /\ BookInv'
  BY <1>i, Zenon DEF VaultInv
<1>0. /\ balance \in Nat /\ totalBorrowerOwned \in Nat
      /\ totalWithdrawalReserved \in Nat /\ totalRecoveryReserved \in Nat
      /\ totalImpairment \in Nat /\ debt \in [Facilities -> Nat]
      /\ impairmentOf \in [Facilities -> Nat] /\ Assets \subseteq Nat
      /\ \A f \in Facilities : IsWrittenOff(f) => impairmentOf[f] = 0
  BY <1>i, VaultConstants DEF CashInv, BookInv, ImpairmentWithinDebt
<1>1. /\ PerformingReceivables \in Nat /\ LpCash \in Nat
      /\ Nav = LpCash + PerformingReceivables - totalImpairment
      /\ LpCash = balance - (totalBorrowerOwned + totalWithdrawalReserved + totalRecoveryReserved)
  BY <1>i, NavIs, LpCashIs
<1>2. (Nav = LpCash + PerformingReceivables - totalImpairment)'
  BY <1>j, NavIs, PTL
<1>3. (LpCash = balance - (totalBorrowerOwned + totalWithdrawalReserved + totalRecoveryReserved))'
  BY <1>j, LpCashIs, PTL
<1>4. ASSUME NEW f \in Facilities, NEW a \in Assets, OnRepayment(f, a), OldEpochRecovery(f)
      PROVE  Nav' = Nav
  <2>1. PICK applied, v, d : /\ applied = (IF a < debt[f] THEN a ELSE debt[f])
                             /\ v = debt[f] - applied /\ d = -applied
    OBVIOUS
  <2>2. debt[f] \in Nat /\ a \in Nat /\ impairmentOf[f] = 0 /\ IsWrittenOff(f)
    BY <1>0, <1>4 DEF OldEpochRecovery
  <2>3. applied \in 0 .. a /\ d \in Int /\ v = debt[f] + d /\ v \in Nat
    BY <2>1, <2>2
  <2>4. /\ balance' = balance + a
        /\ totalBorrowerOwned' = totalBorrowerOwned + (a - applied)
        /\ debt' = [debt EXCEPT ![f] = v]
        /\ totalRecoveryReserved' = totalRecoveryReserved + applied
        /\ UNCHANGED <<writeOffEpoch, totalWithdrawalReserved>>
    BY <1>4, <2>1 DEF OnRepayment, ReserveOldEpochRecovery
  <2>5. totalImpairment' = totalImpairment
    <3>1. PICK kept : /\ kept = (IF impairmentOf[f] > v THEN v ELSE impairmentOf[f])
                      /\ totalImpairment' = totalImpairment - (impairmentOf[f] - kept)
      BY <1>4, <2>1 DEF OnRepayment
    <3>2. kept = 0
      BY <2>2, <2>3, <3>1
    <3> QED
      BY <1>0, <2>2, <3>1, <3>2
  <2>6. PerformingReceivables' = PerformingReceivables
    BY <1>i, <2>2, <2>3, <2>4, PerformingMoves
  <2>7. LpCash' = LpCash
    BY <1>0, <1>1, <1>3, <2>2, <2>3, <2>4
  <2> QED
    BY <1>1, <1>2, <2>5, <2>6, <2>7
<1>5. ASSUME NEW f \in Facilities, debt'[f] < debt[f]
      PROVE  \E a \in Assets : OnRepayment(f, a)
  <2>1. ASSUME NEW g \in Facilities, NEW a \in Assets, Lend(g, a)
        PROVE  FALSE
    <3>1. debt' = [debt EXCEPT ![g] = @ + a] /\ a \in Nat
      BY <1>0, <2>1 DEF Lend
    <3>2. debt[f] \in Nat
      BY <1>0
    <3>3. debt'[f] = IF f = g THEN debt[f] + a ELSE debt[f]
      BY <1>0, <3>1
    <3> QED
      BY <1>5, <3>1, <3>2, <3>3
  <2>2. ASSUME NEW g \in Facilities, NEW a \in Assets, OnRepayment(g, a), f # g
        PROVE  FALSE
    <3>1. \E v : debt' = [debt EXCEPT ![g] = v]
      BY <2>2 DEF OnRepayment
    <3>2. debt'[f] = debt[f] /\ debt[f] \in Nat
      BY <1>0, <2>2, <3>1
    <3> QED
      BY <1>5, <3>2
  <2>3. ASSUME NEW bearing, Tick(bearing)
        PROVE  FALSE
    <3>1. debt'[f] = IF f \in bearing THEN debt[f] + 1 ELSE debt[f]
      BY <2>3 DEF Tick
    <3>2. debt[f] \in Nat
      BY <1>0
    <3> QED
      BY <1>5, <3>1, <3>2
  <2>4. ASSUME UNCHANGED debt
        PROVE  FALSE
    <3>1. debt[f] \in Nat
      BY <1>0
    <3> QED
      BY <1>5, <2>4, <3>1
  <2>5. \/ \E g \in Facilities, a \in Assets : Lend(g, a) \/ OnRepayment(g, a)
        \/ \E bearing \in SUBSET Facilities : Tick(bearing)
        \/ UNCHANGED debt
    BY Zenon DEF Next, vars, ledgerVars, SetDepositsPaused, Deposit, Withdraw,
       RequestWithdrawal, CancelWithdrawal, ProcessWithdrawals, ClaimWithdrawal, TransferShares,
       RollLossEpoch, ClaimEpochRecovery, RefundExcess, RecordRecovery,
       RecognizeImpairment, ReverseImpairment, WriteOff, Donate
  <2> QED
    BY <2>1, <2>2, <2>3, <2>4, <2>5, Zenon
<1>6. ASSUME currentEpoch' # currentEpoch
      PROVE  Nav' = 0
  <2>1. RollLossEpoch
    BY <1>6, Zenon DEF Next, vars, epochVars, SetDepositsPaused, Deposit, Withdraw,
       RequestWithdrawal, CancelWithdrawal, ProcessWithdrawals, ClaimWithdrawal, TransferShares,
       ClaimEpochRecovery, Lend, OnRepayment, RefundExcess, RecordRecovery,
       RecognizeImpairment, ReverseImpairment, WriteOff, Donate, Tick
  <2>2. /\ PerformingReceivables = 0 /\ totalImpairment = 0
        /\ totalRecoveryReserved' = totalRecoveryReserved + LpCash
        /\ UNCHANGED <<debt, balance, totalBorrowerOwned, totalWithdrawalReserved,
                       writeOffEpoch, totalImpairment>>
    BY <2>1 DEF RollLossEpoch, ledgerVars, bookVars
  <2>3. PerformingReceivables' = PerformingReceivables
    BY <2>2 DEF PerformingReceivables, IsWrittenOff
  <2>4. LpCash' = 0
    BY <1>0, <1>1, <1>3, <2>2
  <2> QED
    BY <1>2, <2>2, <2>3, <2>4
<1>7. \A epoch \in Epochs : epoch < currentEpoch => shares'[epoch] = shares[epoch]
  BY <1>i, ClosedSharesKept
<1> QED
  BY <1>4, <1>5, <1>6, <1>7, Zenon DEF ClosedEpochIsolated

(* Value moves between lenders only by a recognised loss (AC-10): every     *)
(* conversion rounds in favour of the shares that stay, so NAV per share    *)
(* never falls otherwise; balances of a closed epoch never change, its late *)
(* recoveries never reach the NAV of later lenders, and a rollover leaves   *)
(* the next epoch nothing of the old one.                                   *)
THEOREM VaultValueKept == Spec => ValueKept
<1>1. VaultInv /\ [Next]_vars => [SharePriceKept /\ ClosedEpochIsolated]_vars
  BY PriceStep, IsolationStep
<1> QED
  BY <1>1, VaultInvHolds, PTL DEF Spec, ValueKept

=============================================================================
