----------------------------- MODULE LendingVault -----------------------------
(***************************************************************************)
(* The lender pool (contracts/gpu/LendingVaultV2.sol): cash, share token,  *)
(* FIFO withdrawal queue, impairments, write-offs and closed loss epochs.  *)
(* The token is standard (a transfer moves exactly its amount).  `debt' is *)
(* the ledger's legalDebtAt of each facility, moved here by the ledger     *)
(* half of the transaction that calls the vault: recordDraw with lend,     *)
(* allocate with onRepayment, and accrual as time passes.                  *)
(*                                                                         *)
(* processWithdrawals(n) visits up to n requests.  A visit reads only what *)
(* the previous visit left, and anyone may call with n = 1, so a call is a *)
(* sequence of ProcessWithdrawals steps.                                   *)
(***************************************************************************)
EXTENDS Integers, Sequences, FiniteSets, SequencesExt

CONSTANTS
    LPs,                \* lender accounts
    Facilities,         \* facility ids
    Assets,             \* token amounts of one call
    ShareAmounts,       \* share amounts of one call
    MinAssets,          \* slippage floors a caller may ask for
    VirtualShares,      \* VIRTUAL_SHARES
    VirtualAssets,      \* VIRTUAL_ASSETS
    WithdrawalTTL,      \* WITHDRAWAL_TTL
    MaxEpoch,           \* bound on currentEpoch
    MaxTime             \* bound on the clock

ASSUME VaultConstants ==
    /\ IsFiniteSet(LPs)
    /\ IsFiniteSet(Facilities)
    /\ Assets \subseteq Nat
    /\ ShareAmounts \subseteq Nat
    /\ MinAssets \subseteq Nat
    /\ VirtualShares \in Nat \ {0}
    /\ VirtualAssets \in Nat \ {0}
    /\ WithdrawalTTL \in Nat
    /\ MaxEpoch \in Nat \ {0}
    /\ MaxTime \in Nat

VARIABLES
    now,                    \* block.timestamp
    debt,                   \* LEDGER.legalDebtAt(f, now)
    balance,                \* token balance of the vault
    tracked,                \* _trackedBalance
    totalBorrowerOwned, totalWithdrawalReserved, totalRecoveryReserved,
    refundableOf,
    totalShares, shares, lockedShares,      \* the last two per epoch and LP
    currentEpoch, epochRolloverRequired,
    requests,               \* _withdrawals, ids 1 .. nextWithdrawalId - 1
    withdrawalHead, pendingWithdrawalShares,
    closedEpochShares, epochRecoveryReceived, epochRecoveryClaimed,
    impairmentOf, totalImpairment,
    writeOffEpoch,          \* 0 while the facility is not written off
    depositsPaused

ledgerVars == <<now, debt>>
cashVars == <<balance, tracked>>
liabilityVars == <<totalBorrowerOwned, totalWithdrawalReserved, totalRecoveryReserved>>
shareVars == <<totalShares, shares, lockedShares>>
queueVars == <<requests, withdrawalHead, pendingWithdrawalShares>>
epochVars == <<currentEpoch, epochRolloverRequired, closedEpochShares,
               epochRecoveryReceived, epochRecoveryClaimed>>
bookVars == <<impairmentOf, totalImpairment, writeOffEpoch>>
vars == <<ledgerVars, cashVars, liabilityVars, refundableOf, shareVars, queueVars,
          epochVars, bookVars, depositsPaused>>

Epochs == 1 .. MaxEpoch

WithdrawalRequest ==
    [owner : LPs, epoch : Epochs, expiresAt : Nat, sharesRequested : Nat,
     sharesRemaining : Nat, minAssets : Nat, assetsReserved : Nat,
     assetsClaimed : Nat, cancelled : BOOLEAN]

-----------------------------------------------------------------------------
(* Views *)

Liabilities == totalBorrowerOwned + totalWithdrawalReserved + totalRecoveryReserved

LpCashUnreserved ==                 \* mutant: filled withdrawals counted as LP cash
    LET owed == totalBorrowerOwned + totalRecoveryReserved
    IN  IF balance > owed THEN balance - owed ELSE 0

LpCash == IF balance > Liabilities THEN balance - Liabilities ELSE 0

AvailableCash ==
    IF pendingWithdrawalShares # 0 \/ epochRolloverRequired THEN 0 ELSE LpCash

IsWrittenOff(f) == writeOffEpoch[f] # 0

PerformingReceivables == SumFunctionOnSet(debt, {f \in Facilities : ~IsWrittenOff(f)})

Nav ==
    LET gross == LpCash + PerformingReceivables
    IN  IF gross > totalImpairment THEN gross - totalImpairment ELSE 0

ConvertToShares(assets) ==
    (assets * (totalShares + VirtualShares)) \div (Nav + VirtualAssets)

ConvertToAssets(n) ==
    (n * (Nav + VirtualAssets)) \div (totalShares + VirtualShares)

Unlocked(lp) == shares[currentEpoch][lp] - lockedShares[currentEpoch][lp]

RecoveryClaimable(epoch, lp) ==
    LET supply == closedEpochShares[epoch]
    IN  IF epoch >= currentEpoch \/ supply = 0
        THEN 0
        ELSE (epochRecoveryReceived[epoch] * shares[epoch][lp]) \div supply
                - epochRecoveryClaimed[epoch][lp]

-----------------------------------------------------------------------------
(* Internals *)

AbsorbDonation == tracked' = IF balance > tracked THEN balance ELSE tracked

Push(amount) ==             \* _push, then the balance is observed
    /\ balance' = balance - amount
    /\ tracked' = balance - amount

Burn(lp, n) ==
    /\ totalShares' = totalShares - n
    /\ shares' = [shares EXCEPT ![currentEpoch][lp] = @ - n]

(* _reserveOldEpochRecovery: tagged cash of an epoch already closed. *)
OldEpochRecovery(f) == IsWrittenOff(f) /\ writeOffEpoch[f] < currentEpoch

ReserveNothing(f, amount) ==        \* mutant: late cash joins the new epoch
    UNCHANGED <<epochRecoveryReceived, totalRecoveryReserved>>

ReserveOldEpochRecovery(f, amount) ==
    IF OldEpochRecovery(f)
    THEN /\ epochRecoveryReceived' = [epochRecoveryReceived EXCEPT
                                          ![writeOffEpoch[f]] = @ + amount]
         /\ totalRecoveryReserved' = totalRecoveryReserved + amount
    ELSE UNCHANGED <<epochRecoveryReceived, totalRecoveryReserved>>

-----------------------------------------------------------------------------
Init ==
    /\ now = 0
    /\ debt = [f \in Facilities |-> 0]
    /\ balance = 0 /\ tracked = 0
    /\ totalBorrowerOwned = 0
    /\ totalWithdrawalReserved = 0
    /\ totalRecoveryReserved = 0
    /\ refundableOf = [f \in Facilities |-> 0]
    /\ totalShares = 0
    /\ shares = [e \in Epochs |-> [lp \in LPs |-> 0]]
    /\ lockedShares = [e \in Epochs |-> [lp \in LPs |-> 0]]
    /\ currentEpoch = 1
    /\ epochRolloverRequired = FALSE
    /\ requests = <<>>
    /\ withdrawalHead = 1
    /\ pendingWithdrawalShares = 0
    /\ closedEpochShares = [e \in Epochs |-> 0]
    /\ epochRecoveryReceived = [e \in Epochs |-> 0]
    /\ epochRecoveryClaimed = [e \in Epochs |-> [lp \in LPs |-> 0]]
    /\ impairmentOf = [f \in Facilities |-> 0]
    /\ totalImpairment = 0
    /\ writeOffEpoch = [f \in Facilities |-> 0]
    /\ depositsPaused = FALSE

SetDepositsPaused(paused) ==
    /\ depositsPaused' = paused
    /\ UNCHANGED <<ledgerVars, cashVars, liabilityVars, refundableOf, shareVars,
                   queueVars, epochVars, bookVars>>

(* LP actions *)

Deposit(lp, assets, minShares) ==
    LET minted == ConvertToShares(assets)
    IN  /\ ~depositsPaused
        /\ assets # 0
        /\ ~epochRolloverRequired
        /\ totalShares = 0 \/ Nav # 0
        /\ minted \in Nat \ {0}
        /\ minted >= minShares
        /\ balance' = balance + assets
        /\ tracked' = balance + assets
        /\ totalShares' = totalShares + minted
        /\ shares' = [shares EXCEPT ![currentEpoch][lp] = @ + minted]
        /\ UNCHANGED <<ledgerVars, liabilityVars, refundableOf, lockedShares,
                       queueVars, epochVars, bookVars, depositsPaused>>

Withdraw(lp, n, minAssets) ==
    LET assets == ConvertToAssets(n)
    IN  /\ n # 0
        /\ ~epochRolloverRequired
        /\ pendingWithdrawalShares = 0
        /\ assets \in 1 .. AvailableCash
        /\ assets >= minAssets
        /\ n <= Unlocked(lp)
        /\ Burn(lp, n)
        /\ Push(assets)
        /\ UNCHANGED <<ledgerVars, liabilityVars, refundableOf, lockedShares,
                       queueVars, epochVars, bookVars, depositsPaused>>

RequestWithdrawal(lp, n, minAssets) ==
    LET quoted == ConvertToAssets(n)
    IN  /\ n # 0
        /\ ~epochRolloverRequired
        /\ n <= Unlocked(lp)
        /\ quoted # 0
        /\ minAssets <= quoted
        /\ now + WithdrawalTTL <= MaxTime       \* expiresAt fits the clock
        /\ requests' = Append(requests,
               [owner |-> lp, epoch |-> currentEpoch,
                expiresAt |-> now + WithdrawalTTL, sharesRequested |-> n,
                sharesRemaining |-> n, minAssets |-> minAssets,
                assetsReserved |-> 0, assetsClaimed |-> 0, cancelled |-> FALSE])
        /\ lockedShares' = [lockedShares EXCEPT ![currentEpoch][lp] = @ + n]
        /\ pendingWithdrawalShares' = pendingWithdrawalShares + n
        /\ UNCHANGED <<ledgerVars, cashVars, liabilityVars, refundableOf,
                       totalShares, shares, withdrawalHead, epochVars, bookVars,
                       depositsPaused>>

CancelRemainingAnyEpoch(id) ==      \* mutant: an old request reduces the new queue
    LET r == requests[id]
    IN  /\ lockedShares' = [lockedShares EXCEPT ![r.epoch][r.owner] =
                                @ - r.sharesRemaining]
        /\ pendingWithdrawalShares' = pendingWithdrawalShares - r.sharesRemaining
        /\ requests' = [requests EXCEPT ![id].sharesRemaining = 0,
                                        ![id].cancelled = TRUE]

CancelRemaining(id) ==              \* _cancelWithdrawal
    LET r == requests[id]
    IN  /\ lockedShares' = [lockedShares EXCEPT ![r.epoch][r.owner] =
                                @ - r.sharesRemaining]
        /\ pendingWithdrawalShares' =
               IF r.epoch = currentEpoch
               THEN pendingWithdrawalShares - r.sharesRemaining
               ELSE pendingWithdrawalShares
        /\ requests' = [requests EXCEPT ![id].sharesRemaining = 0,
                                        ![id].cancelled = TRUE]

CancelWithdrawal(id) ==             \* by its owner
    /\ requests[id].sharesRemaining # 0
    /\ CancelRemaining(id)
    /\ UNCHANGED <<ledgerVars, cashVars, liabilityVars, refundableOf,
                   totalShares, shares, withdrawalHead, epochVars, bookVars,
                   depositsPaused>>

(* The fill of request r: at current NAV, as many shares as cash allows. *)
FillShares(r) ==
    IF ConvertToAssets(r.sharesRemaining) > LpCash
    THEN (LpCash * (totalShares + VirtualShares)) \div (Nav + VirtualAssets)
    ELSE r.sharesRemaining

(* The consented floor of a partial fill, rounded up. *)
FillMinimum(r, n) == (r.minAssets * n + r.sharesRequested - 1) \div r.sharesRequested

HeadAfterFill(r, n) ==
    IF n = r.sharesRemaining THEN withdrawalHead + 1 ELSE withdrawalHead

NeverExpired(r) == FALSE                \* mutant

Expired(r) == now >= r.expiresAt

Fill(id, n, assets) ==
    LET r == requests[id]
    IN  /\ LpCash # 0 /\ Nav # 0
        /\ n # 0
        /\ assets \in 1 .. LpCash
        /\ assets >= FillMinimum(r, n)
        /\ requests' = [requests EXCEPT ![id].sharesRemaining = @ - n,
                                        ![id].assetsReserved = @ + assets]
        /\ lockedShares' = [lockedShares EXCEPT ![currentEpoch][r.owner] = @ - n]
        /\ pendingWithdrawalShares' = pendingWithdrawalShares - n
        /\ Burn(r.owner, n)
        /\ totalWithdrawalReserved' = totalWithdrawalReserved + assets
        /\ withdrawalHead' = HeadAfterFill(r, n)

(* One visit of the head of the queue: skip, expire, fill; a head that      *)
(* cannot be filled stops the service.                                      *)
ProcessWithdrawals ==
    LET id == withdrawalHead
        r  == requests[id]
    IN  /\ ~epochRolloverRequired
        /\ withdrawalHead <= Len(requests)
        /\ AbsorbDonation
        /\ \/ /\ r.sharesRemaining = 0 \/ r.epoch # currentEpoch
              /\ withdrawalHead' = withdrawalHead + 1
              /\ UNCHANGED <<requests, pendingWithdrawalShares, shareVars,
                             totalWithdrawalReserved>>
           \/ /\ r.sharesRemaining # 0 /\ r.epoch = currentEpoch
              /\ Expired(r)
              /\ CancelRemaining(id)
              /\ withdrawalHead' = withdrawalHead + 1
              /\ UNCHANGED <<totalShares, shares, totalWithdrawalReserved>>
           \/ /\ r.sharesRemaining # 0 /\ r.epoch = currentEpoch
              /\ ~Expired(r)
              /\ Fill(id, FillShares(r), ConvertToAssets(FillShares(r)))
        /\ UNCHANGED <<ledgerVars, balance, totalBorrowerOwned,
                       totalRecoveryReserved, refundableOf, epochVars, bookVars,
                       depositsPaused>>

ClaimWithdrawal(id) ==              \* by its owner
    LET assets == requests[id].assetsReserved - requests[id].assetsClaimed
    IN  /\ assets \in 1 .. totalWithdrawalReserved
        /\ requests' = [requests EXCEPT ![id].assetsClaimed = @ + assets]
        /\ totalWithdrawalReserved' = totalWithdrawalReserved - assets
        /\ Push(assets)
        /\ UNCHANGED <<ledgerVars, totalBorrowerOwned, totalRecoveryReserved,
                       refundableOf, shareVars, withdrawalHead,
                       pendingWithdrawalShares, epochVars, bookVars,
                       depositsPaused>>

TransferShares(from, to, n) ==
    /\ n <= Unlocked(from)
    /\ shares' = IF from = to THEN shares
                 ELSE [shares EXCEPT ![currentEpoch][from] = @ - n,
                                     ![currentEpoch][to] = @ + n]
    /\ UNCHANGED <<ledgerVars, cashVars, liabilityVars, refundableOf, totalShares,
                   lockedShares, queueVars, epochVars, bookVars, depositsPaused>>

(* Loss epochs *)

RollLossEpoch ==
    /\ epochRolloverRequired
    /\ totalShares # 0
    /\ PerformingReceivables = 0
    /\ totalImpairment = 0
    /\ currentEpoch < MaxEpoch
    /\ AbsorbDonation
    /\ epochRecoveryReceived' = [epochRecoveryReceived EXCEPT
                                     ![currentEpoch] = @ + LpCash]
    /\ totalRecoveryReserved' = totalRecoveryReserved + LpCash
    /\ closedEpochShares' = [closedEpochShares EXCEPT ![currentEpoch] = totalShares]
    /\ currentEpoch' = currentEpoch + 1
    /\ epochRolloverRequired' = FALSE
    /\ totalShares' = 0
    /\ pendingWithdrawalShares' = 0
    /\ withdrawalHead' = Len(requests) + 1
    /\ UNCHANGED <<ledgerVars, balance, totalBorrowerOwned,
                   totalWithdrawalReserved, refundableOf, shares, lockedShares,
                   requests, epochRecoveryClaimed, bookVars, depositsPaused>>

ClaimEpochRecovery(epoch, lp) ==
    LET assets == RecoveryClaimable(epoch, lp)
    IN  /\ assets \in 1 .. totalRecoveryReserved
        /\ epochRecoveryClaimed' = [epochRecoveryClaimed EXCEPT
                                        ![epoch][lp] = @ + assets]
        /\ totalRecoveryReserved' = totalRecoveryReserved - assets
        /\ Push(assets)
        /\ UNCHANGED <<ledgerVars, totalBorrowerOwned, totalWithdrawalReserved,
                       refundableOf, shareVars, queueVars, currentEpoch,
                       epochRolloverRequired, closedEpochShares,
                       epochRecoveryReceived, bookVars, depositsPaused>>

(* Manager actions, each with the ledger write of its transaction *)

Lend(f, amount) ==                  \* recordDraw, then lend
    /\ amount # 0
    /\ ~IsWrittenOff(f)
    /\ ~epochRolloverRequired
    /\ pendingWithdrawalShares = 0
    /\ amount <= AvailableCash
    /\ debt' = [debt EXCEPT ![f] = @ + amount]
    /\ Push(amount)
    /\ UNCHANGED <<now, liabilityVars, refundableOf, shareVars, queueVars,
                   epochVars, bookVars, depositsPaused>>

(* The tokens arrive, allocate splits them, onRepayment books them. *)
OnRepayment(f, received) ==
    LET applied == IF received < debt[f] THEN received ELSE debt[f]
        excess  == received - applied
        newDebt == debt[f] - applied
        kept    == IF impairmentOf[f] > newDebt THEN newDebt ELSE impairmentOf[f]
    IN  /\ received # 0
        /\ tracked <= balance                   \* the arrival measures as received
        /\ debt' = [debt EXCEPT ![f] = newDebt]
        /\ balance' = balance + received
        /\ tracked' = balance + received
        /\ refundableOf' = [refundableOf EXCEPT ![f] = @ + excess]
        /\ totalBorrowerOwned' = totalBorrowerOwned + excess
        /\ impairmentOf' = [impairmentOf EXCEPT ![f] = kept]
        /\ totalImpairment' = totalImpairment - (impairmentOf[f] - kept)
        /\ ReserveOldEpochRecovery(f, applied)
        /\ UNCHANGED <<now, totalWithdrawalReserved, shareVars, queueVars,
                       currentEpoch, epochRolloverRequired, closedEpochShares,
                       epochRecoveryClaimed, writeOffEpoch, depositsPaused>>

RefundExcess(f, amount) ==
    /\ amount # 0
    /\ amount <= refundableOf[f]
    /\ refundableOf' = [refundableOf EXCEPT ![f] = @ - amount]
    /\ amount <= totalBorrowerOwned
    /\ totalBorrowerOwned' = totalBorrowerOwned - amount
    /\ Push(amount)
    /\ UNCHANGED <<ledgerVars, totalWithdrawalReserved, totalRecoveryReserved,
                   shareVars, queueVars, epochVars, bookVars, depositsPaused>>

(* Cash outside the waterfall arrives and is tagged with its facility. *)
RecordRecovery(f, amount) ==
    /\ amount # 0
    /\ IsWrittenOff(f)
    /\ tracked <= balance                       \* the arrival measures as amount
    /\ balance' = balance + amount
    /\ tracked' = balance + amount
    /\ ReserveOldEpochRecovery(f, amount)
    /\ UNCHANGED <<ledgerVars, totalBorrowerOwned, totalWithdrawalReserved,
                   refundableOf, shareVars, queueVars, currentEpoch,
                   epochRolloverRequired, closedEpochShares,
                   epochRecoveryClaimed, bookVars, depositsPaused>>

(* Losses *)

RecognizeImpairment(f, amount) ==
    /\ amount # 0
    /\ ~IsWrittenOff(f)
    /\ impairmentOf[f] + amount <= debt[f]
    /\ impairmentOf' = [impairmentOf EXCEPT ![f] = @ + amount]
    /\ totalImpairment' = totalImpairment + amount
    /\ UNCHANGED <<ledgerVars, cashVars, liabilityVars, refundableOf, shareVars,
                   queueVars, epochVars, writeOffEpoch, depositsPaused>>

ReverseImpairment(f, amount) ==
    /\ amount # 0
    /\ amount <= impairmentOf[f]
    /\ impairmentOf' = [impairmentOf EXCEPT ![f] = @ - amount]
    /\ totalImpairment' = totalImpairment - amount
    /\ UNCHANGED <<ledgerVars, cashVars, liabilityVars, refundableOf, shareVars,
                   queueVars, epochVars, writeOffEpoch, depositsPaused>>

WriteOff(f) ==
    /\ ~IsWrittenOff(f)
    /\ impairmentOf' = [impairmentOf EXCEPT ![f] = 0]
    /\ totalImpairment' = totalImpairment - impairmentOf[f]
    /\ writeOffEpoch' = [writeOffEpoch EXCEPT ![f] = currentEpoch]
    /\ UNCHANGED <<ledgerVars, cashVars, liabilityVars, refundableOf, shareVars,
                   queueVars, currentEpoch, closedEpochShares,
                   epochRecoveryReceived, epochRecoveryClaimed, depositsPaused>>
    /\ epochRolloverRequired' =
           \/ epochRolloverRequired
           \/ totalShares # 0 /\ Nav' = 0 /\ PerformingReceivables' = 0
                              /\ totalImpairment' = 0

(* The environment *)

(* Anyone may send tokens straight to the vault. *)
Donate(amount) ==
    /\ amount # 0
    /\ balance' = balance + amount
    /\ UNCHANGED <<ledgerVars, tracked, liabilityVars, refundableOf, shareVars,
                   queueVars, epochVars, bookVars, depositsPaused>>

(* Time passes and the ledger's debts grow, each by 0 or 1 unit and only    *)
(* where there is debt to bear interest.                                    *)
Tick(bearing) ==
    /\ now < MaxTime
    /\ now' = now + 1
    /\ \A f \in bearing : debt[f] # 0
    /\ debt' = [f \in Facilities |-> IF f \in bearing THEN debt[f] + 1 ELSE debt[f]]
    /\ UNCHANGED <<cashVars, liabilityVars, refundableOf, shareVars, queueVars,
                   epochVars, bookVars, depositsPaused>>

Next ==
    \/ \E paused \in BOOLEAN : SetDepositsPaused(paused)
    \/ \E lp \in LPs, a \in Assets, m \in MinAssets : Deposit(lp, a, m)
    \/ \E lp \in LPs, n \in ShareAmounts, m \in MinAssets : Withdraw(lp, n, m)
    \/ \E lp \in LPs, n \in ShareAmounts, m \in MinAssets : RequestWithdrawal(lp, n, m)
    \/ \E id \in 1 .. Len(requests) : CancelWithdrawal(id)
    \/ ProcessWithdrawals
    \/ \E id \in 1 .. Len(requests) : ClaimWithdrawal(id)
    \/ \E from, to \in LPs, n \in ShareAmounts : TransferShares(from, to, n)
    \/ RollLossEpoch
    \/ \E epoch \in Epochs, lp \in LPs : ClaimEpochRecovery(epoch, lp)
    \/ \E f \in Facilities, a \in Assets : Lend(f, a)
    \/ \E f \in Facilities, a \in Assets : OnRepayment(f, a)
    \/ \E f \in Facilities, a \in Assets : RefundExcess(f, a)
    \/ \E f \in Facilities, a \in Assets : RecordRecovery(f, a)
    \/ \E f \in Facilities, a \in Assets : RecognizeImpairment(f, a)
    \/ \E f \in Facilities, a \in Assets : ReverseImpairment(f, a)
    \/ \E f \in Facilities : WriteOff(f)
    \/ \E a \in Assets : Donate(a)
    \/ \E bearing \in SUBSET Facilities : Tick(bearing)

Spec == Init /\ [][Next]_vars

-----------------------------------------------------------------------------
(* Type correctness: no balance, total, share count or request field is     *)
(* ever negative, so no checked subtraction of the contract reverts late.   *)
TypeOK ==
    /\ now \in 0 .. MaxTime
    /\ debt \in [Facilities -> Nat]
    /\ balance \in Nat /\ tracked \in Nat
    /\ totalBorrowerOwned \in Nat
    /\ totalWithdrawalReserved \in Nat
    /\ totalRecoveryReserved \in Nat
    /\ refundableOf \in [Facilities -> Nat]
    /\ totalShares \in Nat
    /\ shares \in [Epochs -> [LPs -> Nat]]
    /\ lockedShares \in [Epochs -> [LPs -> Nat]]
    /\ currentEpoch \in Epochs
    /\ epochRolloverRequired \in BOOLEAN
    /\ requests \in Seq(WithdrawalRequest)
    /\ withdrawalHead \in 1 .. Len(requests) + 1
    /\ pendingWithdrawalShares \in Nat
    /\ closedEpochShares \in [Epochs -> Nat]
    /\ epochRecoveryReceived \in [Epochs -> Nat]
    /\ epochRecoveryClaimed \in [Epochs -> [LPs -> Nat]]
    /\ impairmentOf \in [Facilities -> Nat]
    /\ totalImpairment \in Nat
    /\ writeOffEpoch \in [Facilities -> 0 .. MaxEpoch]
    /\ depositsPaused \in BOOLEAN

(* The vault's tokens always cover what it owes outside NAV: borrowers'     *)
(* refunds, funded withdrawals and closed-epoch recoveries.  No order of    *)
(* lending, withdrawing and claiming pays one creditor with another's cash. *)
Solvency ==
    /\ balance >= totalBorrowerOwned + totalWithdrawalReserved + totalRecoveryReserved
    /\ balance >= tracked

(* Every individual claim on the vault is inside the total that backs it,   *)
(* so refundExcess, claimWithdrawal and claimEpochRecovery never fail on    *)
(* the arithmetic of a total, whoever claims first and after any rollover.  *)
ClaimsCovered ==
    /\ totalBorrowerOwned = SumFunctionOnSet(refundableOf, Facilities)
    /\ totalWithdrawalReserved =
           SumFunctionOnSet([id \in DOMAIN requests |-> requests[id].assetsReserved
                                                         - requests[id].assetsClaimed],
                            DOMAIN requests)
    /\ totalRecoveryReserved >=
           SumFunctionOnSet([epoch \in Epochs |->
                                SumFunctionOnSet([lp \in LPs |-> RecoveryClaimable(epoch, lp)], LPs)],
                            Epochs)
    /\ \A epoch \in Epochs, lp \in LPs : RecoveryClaimable(epoch, lp) >= 0

(* Shares: the supply is the sum of the current epoch's balances, the queue *)
(* total is the sum of its live requests, and each account's lock is the    *)
(* sum of its own, also for epochs closed with requests still queued.       *)
SharesAccounted ==
    /\ totalShares = SumFunctionOnSet(shares[currentEpoch], LPs)
    /\ pendingWithdrawalShares =
           SumFunctionOnSet([id \in DOMAIN requests |->
                                IF requests[id].epoch = currentEpoch
                                THEN requests[id].sharesRemaining ELSE 0],
                            DOMAIN requests)
    /\ \A epoch \in Epochs, lp \in LPs :
           /\ lockedShares[epoch][lp] <= shares[epoch][lp]
           /\ lockedShares[epoch][lp] =
                 SumFunctionOnSet([id \in DOMAIN requests |->
                                      IF requests[id].epoch = epoch /\ requests[id].owner = lp
                                      THEN requests[id].sharesRemaining ELSE 0],
                                  DOMAIN requests)

(* FIFO: a request is funded only when every earlier request of its epoch   *)
(* has been filled, cancelled or has expired, and the head never passes a   *)
(* live request of the current epoch.                                       *)
FirstComeFirstServed ==
    \A i, j \in DOMAIN requests :
        /\ (/\ i < j
            /\ requests[i].epoch = requests[j].epoch
            /\ requests[j].assetsReserved > 0) => requests[i].sharesRemaining = 0
        /\ (i < withdrawalHead /\ requests[i].epoch = currentEpoch)
              => requests[i].sharesRemaining = 0

(* Slippage: over all its partial fills, at whatever NAVs, a request gets   *)
(* no less per share than the floor its owner consented to.                 *)
SlippageFloor ==
    \A id \in DOMAIN requests :
        LET r == requests[id]
        IN  ~r.cancelled =>
               r.assetsReserved * r.sharesRequested
                  >= r.minAssets * (r.sharesRequested - r.sharesRemaining)

(* Impairment is an allowance on debt that is still on the book: per        *)
(* facility never above its legal debt, zero once written off, and summed   *)
(* exactly, so a repaid facility cannot drag NAV down (AC-13).              *)
ImpairmentWithinDebt ==
    /\ \A f \in Facilities :
           /\ impairmentOf[f] <= debt[f]
           /\ IsWrittenOff(f) => impairmentOf[f] = 0
    /\ totalImpairment = SumFunctionOnSet(impairmentOf, Facilities)

(* Share price (AC-10): only recognising a loss lowers NAV per share.       *)
(* Deposits, withdrawals, queue fills, claims, refunds, lending, repayments *)
(* and donations round in favour of the shares that stay.                   *)
SharePriceKept ==
    \/ totalImpairment' > totalImpairment
    \/ writeOffEpoch' # writeOffEpoch
    \/ currentEpoch' # currentEpoch
    \/ (Nav' + VirtualAssets) * (totalShares + VirtualShares)
          >= (Nav + VirtualAssets) * (totalShares' + VirtualShares)

(* A closed epoch: its balances never change again and cash of a facility   *)
(* it wrote off goes to its holders, never to the NAV of later lenders.     *)
ClosedEpochIsolated ==
    /\ \A epoch \in Epochs :
          epoch < currentEpoch => shares'[epoch] = shares[epoch]
    /\ \A f \in Facilities :
          (OldEpochRecovery(f) /\ debt'[f] < debt[f]) => Nav' = Nav
    /\ currentEpoch' # currentEpoch => Nav' = 0

(* Everything anyone may claim from the vault is there: the tokens cover    *)
(* the totals, the totals cover each claim, and the allowance for losses    *)
(* is bounded by debt that exists.                                          *)
Backed == Solvency /\ ClaimsCovered /\ ImpairmentWithinDebt

(* The queue of processWithdrawals: shares and locks add up across epochs,  *)
(* service is in order of arrival and no fill is below its owner's floor.   *)
QueueKept == SharesAccounted /\ FirstComeFirstServed /\ SlippageFloor

(* Value moves between lenders only by a recognised loss: neither through   *)
(* the share price nor from a closed epoch into a later one.                *)
ValueKept == [][SharePriceKept /\ ClosedEpochIsolated]_vars

-----------------------------------------------------------------------------
(* Anyone may call processWithdrawals and blocks keep coming. *)
Fairness == WF_vars(ProcessWithdrawals) /\ WF_vars(\E b \in SUBSET Facilities : Tick(b))

(* A live request of a pool that is not waiting for a rollover. *)
Waiting(id) ==
    /\ id \in DOMAIN requests
    /\ requests[id].sharesRemaining # 0
    /\ requests[id].epoch = currentEpoch
    /\ ~epochRolloverRequired
=============================================================================
