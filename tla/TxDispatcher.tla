----------------------------- MODULE TxDispatcher -----------------------------
(***************************************************************************)
(* Transaction intents of one signer: prepared and signed under the        *)
(* signer's lock, broadcast by any process and any number of times,        *)
(* replaced at a higher fee, and reconciled with receipts                  *)
(* (offchain/gpu/hashcredit_gpu/transactions).                             *)
(*                                                                         *)
(* A signed hash is its job and fee level: the nonce, calldata and target  *)
(* of a job are fixed when it is prepared.  The chain is a sequence of     *)
(* blocks with at most one transaction of the signer each.  A receipt of   *)
(* an orphaned block is dropped by the hash check of reconcile, so a node  *)
(* answers with the canonical receipt or, when it lags, with none.  The    *)
(* RPC reads of one reconcile see one chain.                               *)
(***************************************************************************)
EXTENDS Integers, Sequences, FiniteSets, FiniteSetsExt

CONSTANTS
    Jobs,
    Processes,          \* dispatcher processes of the signer
    Idle,               \* a process between two broadcasts
    FirstNonce,         \* transactions of the key before the database existed
    FinalityDepth,      \* DispatcherConfig.finality_depth
    MaxFee,             \* bound: fee levels of a transaction
    MaxBlocks           \* bound: height of the chain

ASSUME DispatcherConstants ==
    /\ IsFiniteSet(Jobs) /\ Idle \notin Jobs
    /\ FirstNonce \in Nat /\ MaxFee \in Nat /\ MaxBlocks \in Nat
    /\ FinalityDepth \in Nat \ {0}

VARIABLES
    intent,             \* tx_intents: one row per job
    audit,              \* audit_log TX_SIGNED: the fee levels signed for a job
    process,            \* what a process has read for broadcast
    mempool,            \* signed transactions nodes hold
    chain               \* canonical blocks

vars == <<intent, audit, process, mempool, chain>>

LiveStates == {"PREPARED", "SENT", "MINED", "ORPHANED"}

Transitions ==                              \* _TRANSITIONS
    [s \in LiveStates \union {"FINAL", "FAILED"} |->
        CASE s = "PREPARED" -> {"SENT", "MINED", "FAILED"}
          [] s = "SENT"     -> {"MINED", "FAILED"}
          [] s = "MINED"    -> {"FINAL", "ORPHANED"}
          [] s = "ORPHANED" -> {"MINED", "FAILED"}
          [] OTHER          -> {}]

NoIntent == [state |-> "NONE", nonce |-> 0, fee |-> 0, mined |-> 0]

NoTx == [job |-> Idle, fee |-> 0, ok |-> FALSE]

Init ==
    /\ intent = [j \in Jobs |-> NoIntent]
    /\ audit = [j \in Jobs |-> {}]
    /\ process = [p \in Processes |-> [job |-> Idle, fee |-> 0, answered |-> FALSE]]
    /\ mempool = {}
    /\ chain = <<>>

Prepared == {j \in Jobs : intent[j].state # "NONE"}

-----------------------------------------------------------------------------
(* The chain *)

Mined(j) == {n \in DOMAIN chain : chain[n].job = j}

AccountNonce == FirstNonce + Cardinality(UNION {Mined(j) : j \in Jobs})

(* eth_getTransactionCount(signer, "pending") *)
PendingCount ==
    Max({n \in AccountNonce .. AccountNonce + Cardinality(Jobs) :
            \A k \in AccountNonce .. n - 1 : \E tx \in mempool : intent[tx.job].nonce = k})

Grow(block) ==
    /\ Len(chain) < MaxBlocks
    /\ chain' = Append(chain, block)

Mine(tx, ok) ==
    /\ intent[tx.job].nonce = AccountNonce
    /\ Grow([job |-> tx.job, fee |-> tx.fee, ok |-> ok])
    /\ mempool' = {t \in mempool : t.job # tx.job}
    /\ UNCHANGED <<intent, audit, process>>

EmptyBlock ==
    /\ Grow(NoTx)
    /\ UNCHANGED <<intent, audit, process, mempool>>

(* The last blocks give way to as many others; their transactions are       *)
(* known to the nodes again or lost.  No reorg is as deep as finality.      *)
Reorg(depth, returned) ==
    LET keep == Len(chain) - depth
        lost == {[job |-> chain[n].job, fee |-> chain[n].fee] :
                    n \in {m \in keep + 1 .. Len(chain) : chain[m].job \in Jobs}}
    IN  /\ keep >= 0
        /\ lost # {}
        /\ returned \subseteq lost
        /\ chain' = SubSeq(chain, 1, keep) \o [n \in 1 .. depth |-> NoTx]
        /\ mempool' = mempool \union returned
        /\ UNCHANGED <<intent, audit, process>>

-----------------------------------------------------------------------------
(* Dispatcher *)

AllocateFromChain == PendingCount           \* mutant: rows not yet sent do not count

(* allocate_nonce: above every recorded intent and the chain's count. *)
AllocateNonce ==
    Max({PendingCount} \union {intent[j].nonce + 1 : j \in Prepared})

(* intents.create and record_signed: the hash is stored before any send. *)
NewIntent(j) ==
    /\ intent' = [intent EXCEPT ![j] = [state |-> "PREPARED", nonce |-> AllocateNonce,
                                         fee |-> 0, mined |-> 0]]
    /\ audit' = [audit EXCEPT ![j] = {0}]
    /\ UNCHANGED <<process, mempool, chain>>

PrepareAfterFailure(j) ==                   \* mutant: an orphaned job is submitted anew
    /\ intent[j].state \in {"NONE", "ORPHANED"}
    /\ NewIntent(j)

(* prepare: one transaction under the signer's advisory lock; a job that    *)
(* has an intent gets it back, whatever its state.                          *)
Prepare(j) ==
    /\ intent[j].state = "NONE"
    /\ NewIntent(j)

SignedParams(j) == Max(audit[j])            \* the newest signed bytes

(* broadcast, first part: the row and its newest signed bytes, unlocked. *)
ReadForBroadcast(p, j) ==
    /\ process[p].job = Idle
    /\ intent[j].state \in {"PREPARED", "SENT", "ORPHANED"}
    /\ process' = [process EXCEPT ![p] = [job |-> j, fee |-> SignedParams(j), answered |-> FALSE]]
    /\ UNCHANGED <<intent, audit, mempool, chain>>

(* send_raw_transaction: accepted or not, answered or not.  A node takes a  *)
(* transaction whose nonce is not used yet, for a higher fee if it holds    *)
(* one of that nonce.  Without an answer the call returns; nothing is       *)
(* concluded from an error.                                                 *)
Accepts(tx) ==
    /\ intent[tx.job].nonce >= AccountNonce
    /\ \A held \in mempool : held.job = tx.job => held.fee < tx.fee

SendRaw(p) ==
    LET r  == process[p]
        tx == [job |-> r.job, fee |-> r.fee]
    IN  /\ r.job # Idle /\ ~r.answered
        /\ \/ /\ Accepts(tx)
              /\ mempool' = {t \in mempool : t.job # tx.job} \union {tx}
              /\ \/ process' = [process EXCEPT ![p].answered = TRUE]
                 \/ process' = [process EXCEPT ![p] = [r EXCEPT !.job = Idle, !.fee = 0]]
           \/ /\ process' = [process EXCEPT ![p] = [r EXCEPT !.job = Idle, !.fee = 0]]
              /\ UNCHANGED mempool
        /\ UNCHANGED <<intent, audit, chain>>

(* broadcast, last part: mark_sent under the row lock, if still unsettled. *)
MarkSent(p) ==
    LET j == process[p].job
    IN  /\ process[p].answered
        /\ intent' = IF intent[j].state \in {"PREPARED", "SENT"}
                     THEN [intent EXCEPT ![j].state = "SENT"] ELSE intent
        /\ process' = [process EXCEPT ![p] = [job |-> Idle, fee |-> 0, answered |-> FALSE]]
        /\ UNCHANGED <<audit, mempool, chain>>

Crash(p) ==
    /\ process[p].job # Idle
    /\ process' = [process EXCEPT ![p] = [job |-> Idle, fee |-> 0, answered |-> FALSE]]
    /\ UNCHANGED <<intent, audit, mempool, chain>>

(* record_fee_bump: same nonce, higher fee; the old hash stays in the audit *)
(* log, since it may still mine.                                            *)
FeeBump(j) ==
    /\ intent[j].state \in {"PREPARED", "SENT"}
    /\ intent[j].fee < MaxFee
    /\ intent' = [intent EXCEPT ![j].state = "PREPARED", ![j].fee = @ + 1]
    /\ audit' = [audit EXCEPT ![j] = @ \union {intent[j].fee + 1}]
    /\ UNCHANGED <<process, mempool, chain>>

-----------------------------------------------------------------------------
(* reconcile: receipts of every signed hash, newest first; at most one of a *)
(* nonce is canonical.                                                      *)

Receipts(j) == {n \in Mined(j) : chain[n].fee \in audit[j]}

Confirmations(n) == Len(chain) - n + 1

Deep(n) == Confirmations(n) >= FinalityDepth

Move(j, to, mined) ==                       \* _transition
    /\ to \in Transitions[intent[j].state]
    /\ intent' = [intent EXCEPT ![j].state = to, ![j].mined = mined]

MarkOrphaned(j) == intent[j].state = "MINED" /\ Move(j, "ORPHANED", 0)

MarkFailedAtOnce(j, n) == ~chain[n].ok /\ Move(j, "FAILED", n)  \* mutant: depth not awaited

MarkFailed(j, n) == ~chain[n].ok /\ Deep(n) /\ Move(j, "FAILED", n)

MarkMined(j, n) == chain[n].ok /\ ~Deep(n) /\ intent[j].state # "MINED" /\ Move(j, "MINED", n)

MarkFinal(j, n) ==                          \* mark_mined first, unless it is MINED
    /\ chain[n].ok /\ Deep(n)
    /\ "FINAL" \in Transitions["MINED"]
    /\ intent[j].state = "MINED" \/ "MINED" \in Transitions[intent[j].state]
    /\ intent' = [intent EXCEPT ![j].state = "FINAL",
                                ![j].mined = IF intent[j].state = "MINED" THEN @ ELSE n]

Reconcile(j, lagging) ==
    /\ intent[j].state \in LiveStates
    /\ \/ /\ lagging \/ Receipts(j) = {}
          /\ MarkOrphaned(j)
       \/ /\ ~lagging
          /\ \E n \in Receipts(j) : MarkFailed(j, n) \/ MarkMined(j, n) \/ MarkFinal(j, n)
    /\ UNCHANGED <<audit, process, mempool, chain>>

-----------------------------------------------------------------------------
Next ==
    \/ \E j \in Jobs : Prepare(j) \/ FeeBump(j)
    \/ \E p \in Processes, j \in Jobs : ReadForBroadcast(p, j)
    \/ \E p \in Processes : SendRaw(p) \/ MarkSent(p) \/ Crash(p)
    \/ \E j \in Jobs, lagging \in BOOLEAN : Reconcile(j, lagging)
    \/ \E tx \in mempool, ok \in BOOLEAN : Mine(tx, ok)
    \/ EmptyBlock
    \/ \E depth \in 1 .. FinalityDepth - 1 : \E returned \in SUBSET [job : Jobs, fee : 0 .. MaxFee] :
          Reorg(depth, returned)

Spec == Init /\ [][Next]_vars

-----------------------------------------------------------------------------
(* Properties *)

Signed == [job : Jobs, fee : 0 .. MaxFee]

(* Rows and transactions have their types; what was signed, sent or mined has an intent. *)
TypeOK ==
    /\ intent \in [Jobs -> [state : LiveStates \union {"NONE", "FINAL", "FAILED"}, nonce : Nat,
                            fee : 0 .. MaxFee, mined : Nat]]
    /\ audit \in [Jobs -> SUBSET (0 .. MaxFee)]
    /\ process \in [Processes -> [job : Jobs \union {Idle}, fee : 0 .. MaxFee, answered : BOOLEAN]]
    /\ mempool \subseteq Signed
    /\ chain \in Seq([job : Jobs \union {Idle}, fee : 0 .. MaxFee, ok : BOOLEAN])
    /\ \A j \in Prepared : audit[j] # {}
    /\ \A p \in Processes : process[p].job # Idle => process[p].job \in Prepared
    /\ \A tx \in mempool : tx.job \in Prepared
    /\ \A n \in DOMAIN chain : chain[n].job # Idle => chain[n].job \in Prepared

(* The nonces of a signer's intents are one gapless run from the first one  *)
(* the database owns, each used once, although processes prepare from a     *)
(* pending count that misses what is not sent yet and what a reorg dropped: *)
(* a repeat would replace another job's transaction, a gap would block all  *)
(* later ones (nonce.py allocate_nonce).                                    *)
NoncesDense ==
    /\ \A i, j \in Prepared : intent[i].nonce = intent[j].nonce => i = j
    /\ {intent[j].nonce : j \in Prepared} =
           FirstNonce .. FirstNonce + Cardinality(Prepared) - 1

(* A reported end is the chain's: a FINAL intent has a successful           *)
(* transaction no reorg reaches and a FAILED one a reverted one, through    *)
(* replaced fees, late copies of superseded bytes and lost answers          *)
(* (reconcile watches every hash ever signed for the nonce).                *)
Irrevocable(j, ok) == \E n \in Mined(j) : Deep(n) /\ chain[n].ok = ok

OutcomeTrue ==
    \A j \in Jobs : /\ intent[j].state = "FINAL" => Irrevocable(j, TRUE)
                    /\ intent[j].state = "FAILED" => Irrevocable(j, FALSE)
                    /\ Cardinality(Mined(j)) <= 1

(* The transaction layer implements SubmitOnce.  A job is told PENDING      *)
(* until its intent is FINAL or FAILED; settled is what lies below the      *)
(* finality depth, which no reorg reaches.                                  *)
StatusOf(j) ==
    CASE intent[j].state = "NONE"   -> "NONE"
      [] intent[j].state = "FINAL"  -> "DONE"
      [] intent[j].state = "FAILED" -> "REVERTED"
      [] OTHER                      -> "PENDING"

SettledOf(j) ==
    IF Irrevocable(j, TRUE) THEN "DONE" ELSE IF Irrevocable(j, FALSE) THEN "REVERTED" ELSE "NO"

Once == INSTANCE SubmitOnce WITH status <- [j \in Jobs |-> StatusOf(j)],
                                 settled <- [j \in Jobs |-> SettledOf(j)]

SubmitsOnce == Once!Spec
=============================================================================
