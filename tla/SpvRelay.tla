------------------------------ MODULE SpvRelay ------------------------------
(***************************************************************************)
(* The Bitcoin SPV relayer of offchain/prover/hashcredit_prover            *)
(* (relayer.py, watcher.py, proof_builder.py, bitcoin.py, evm.py, cli.py)  *)
(* and the contracts it submits to (CheckpointManager, BtcSpvVerifier,     *)
(* HashCreditManager.submitPayout).                                        *)
(*                                                                         *)
(* A block is [id, prev, txs]; its header is [id, prev, root].  Hashes are *)
(* symbolic: a transaction's leaf is <<tx>>, a Merkle node is the pair of  *)
(* its children, so two hashes are equal exactly when what they hash is.   *)
(* The relayer reads the Bitcoin node one RPC call at a time, and blocks   *)
(* are found and orphaned between the calls.  A payout is one output; its  *)
(* amount, script type and address decoding are abstracted.                *)
(***************************************************************************)
EXTENDS Integers, Sequences, FiniteSets, SequencesExt

CONSTANTS
    Payouts,          \* outputs paying the watched address
    MinConfirmations, \* ProofBuilder.MIN_CONFIRMATIONS and the verifier's
    Required,         \* RelayerConfig.required_confirmations
    MaxHeaderChain,   \* the verifier's limit and RelayerConfig.max_header_chain
    RetargetPeriod,   \* the verifier's RETARGET_PERIOD
    ScanBatch,        \* RelayerConfig.scan_batch_size
    MaxHeight,        \* bound: blocks on the chain
    MaxBlocks,        \* bound: blocks ever found
    MaxFlight         \* bound: transactions ever sent

ASSUME SpvBounds ==
    /\ MinConfirmations \in Nat \ {0}
    /\ RetargetPeriod \in Nat \ {0}
    /\ IsFiniteSet(Payouts)

VARIABLES
    chain,       \* the Bitcoin node's active chain, genesis first
    found,       \* how many blocks were ever found
    buried,      \* the greatest height that ever had MinConfirmations
    checkpoints, \* CheckpointManager._checkpoints, height :> block id
    registered,  \* borrowerPubkeyHash is set
    credited,    \* how often each payout was counted (processedPayouts)
    flight,      \* EVM transactions sent, with what became of them
    pending,     \* table pending_payouts, payout :> block height
    submitted,   \* table submitted_payouts
    spv          \* the relayer process

spvVars == <<chain, found, buried, checkpoints, registered, credited, flight,
             pending, submitted, spv>>
bitcoinVars == <<chain, found, buried>>
contractVars == <<checkpoints, registered, credited>>

NoHeight == -1

-----------------------------------------------------------------------------
(* bitcoin.py: Merkle trees *)

(* An odd level repeats its last hash. *)
Padded(hashes) ==
    IF Len(hashes) % 2 = 1 THEN Append(hashes, hashes[Len(hashes)]) ELSE hashes

NextLevel(hashes) ==
    [i \in 1..(Len(Padded(hashes)) \div 2) |->
        <<Padded(hashes)[2*i - 1], Padded(hashes)[2*i]>>]

(* The levels of the tree, leaves first. *)
Levels(txids) ==
    LET level[d \in 0..Len(txids)] ==
            IF d = 0 THEN [i \in DOMAIN txids |-> <<txids[i]>>]
            ELSE NextLevel(level[d - 1])
    IN  level

(* The loops stop at the first level of one hash. *)
Depth(txids) ==
    CHOOSE d \in 0..Len(txids) :
        /\ Len(Levels(txids)[d]) = 1
        /\ \A e \in 0..(d - 1) : Len(Levels(txids)[e]) > 1

ComputeMerkleRoot(txids) == Levels(txids)[Depth(txids)][1]

(* The position of the path at each level, 0-based as in the code. *)
Halved(index, depth) ==
    LET at[d \in 0..depth] == IF d = 0 THEN index ELSE at[d - 1] \div 2
    IN  at

(* index ^ 1, the other of the pair *)
Flip(i) == IF i % 2 = 0 THEN i + 1 ELSE i - 1

GenerateMerkleProof(txids, index) ==
    [k \in 1..Depth(txids) |->
        Padded(Levels(txids)[k - 1])[Flip(Halved(index, Depth(txids))[k - 1]) + 1]]

VerifyMerkleProof(txid, root, proof, index) ==
    LET current[k \in 0..Len(proof)] ==
            IF k = 0 THEN <<txid>>
            ELSE IF Halved(index, Len(proof))[k - 1] % 2 = 0
                 THEN <<current[k - 1], proof[k]>>
                 ELSE <<proof[k], current[k - 1]>>
    IN  current[Len(proof)] = root

-----------------------------------------------------------------------------
(* The Bitcoin node (rpc.py) *)

Header(block) == [id |-> block.id, prev |-> block.prev,
                  root |-> ComputeMerkleRoot(block.txs)]

OnChain(p) == \E h \in DOMAIN chain : p \in ToSet(chain[h].txs)

(* The greatest height with MinConfirmations on a chain of n blocks. *)
DeepAt(n) == n - MinConfirmations + 1

(* A block is found: a coinbase, then payouts not yet in a block. *)
FindBlock(paid) ==
    LET block == [id |-> found + 1, prev |-> chain[Len(chain)].id,
                  txs |-> <<found + 1>> \o paid]
    IN  /\ Len(chain) < MaxHeight
        /\ found < MaxBlocks
        /\ \A i \in DOMAIN paid : ~OnChain(paid[i])
        /\ chain' = Append(chain, block)
        /\ found' = found + 1
        /\ buried' = IF DeepAt(Len(chain) + 1) > buried
                     THEN DeepAt(Len(chain) + 1) ELSE buried
        /\ UNCHANGED <<checkpoints, registered, credited, flight, pending,
                       submitted, spv>>

(* The tip is orphaned; a block that had MinConfirmations never is. *)
Orphan ==
    /\ Len(chain) > 1
    /\ Len(chain) > buried
    /\ chain' = SubSeq(chain, 1, Len(chain) - 1)
    /\ UNCHANGED <<found, buried, checkpoints, registered, credited, flight,
                   pending, submitted, spv>>

-----------------------------------------------------------------------------
(* The contracts *)

LatestCheckpoint ==
    IF DOMAIN checkpoints = {} THEN 0
    ELSE CHOOSE h \in DOMAIN checkpoints :
             \A g \in DOMAIN checkpoints : g <= h

(* set_checkpoint: the node's block at this height, heights only rising. *)
SetCheckpoint(height) ==
    /\ height \in DOMAIN chain
    /\ height > LatestCheckpoint
    /\ checkpoints' = [h \in DOMAIN checkpoints \cup {height} |->
                          IF h = height THEN chain[height].id
                          ELSE checkpoints[h]]
    /\ UNCHANGED <<registered, credited, flight, pending, submitted, spv>>
    /\ UNCHANGED bitcoinVars

SetBorrowerPubkeyHash ==
    /\ ~registered
    /\ registered' = TRUE
    /\ UNCHANGED <<checkpoints, credited, flight, pending, submitted, spv>>
    /\ UNCHANGED bitcoinVars

(* BtcSpvVerifier._verifyHeaderChainFull *)
LinksFrom(hash, headers) ==
    \A i \in DOMAIN headers :
        headers[i].prev = IF i = 1 THEN hash ELSE headers[i - 1].id

(* BtcSpvVerifier.verifyPayout *)
VerifyPayout(proof) ==
    LET n   == Len(proof.headers)
        tip == proof.checkpoint + n
    IN  /\ n <= MaxHeaderChain
        /\ proof.txBlockIndex < n
        /\ n - proof.txBlockIndex >= MinConfirmations
        /\ registered
        /\ proof.checkpoint \in DOMAIN checkpoints
        /\ proof.checkpoint \div RetargetPeriod = tip \div RetargetPeriod
        /\ LinksFrom(checkpoints[proof.checkpoint], proof.headers)
        /\ VerifyMerkleProof(proof.payout,
                             proof.headers[proof.txBlockIndex + 1].root,
                             proof.merkleProof, proof.txIndex)

(* HashCreditManager.submitPayout: replay protection by processedPayouts. *)
Accepts(proof) == VerifyPayout(proof) /\ credited[proof.payout] = 0

(* A sent transaction is mined: it counts the payout or it reverts. *)
Include(i) ==
    /\ flight[i].status = "sent"
    /\ IF Accepts(flight[i].proof)
       THEN /\ credited' = [credited EXCEPT ![flight[i].proof.payout] = @ + 1]
            /\ flight' = [flight EXCEPT ![i].status = "counted"]
       ELSE /\ flight' = [flight EXCEPT ![i].status = "reverted"]
            /\ UNCHANGED credited
    /\ UNCHANGED <<checkpoints, registered, pending, submitted, spv>>
    /\ UNCHANGED bitcoinVars

-----------------------------------------------------------------------------
(* ProofBuilder.build_proof *)

TipHeight(target) == target + MinConfirmations - 1

IndexFromCheckpoint(target, checkpoint) == target - checkpoint    \* mutant: off by one

TxBlockIndex(target, checkpoint) == target - checkpoint - 1

(* The node's block at the target height must hold the transaction and     *)
(* have the Merkle root of the header read before it.                      *)
ProofOf(p, checkpoint, target, headers) ==
    LET txids == chain[target].txs
        index == (CHOOSE i \in DOMAIN txids : txids[i] = p) - 1
    IN  [payout |-> p, checkpoint |-> checkpoint, headers |-> headers,
         txBlockIndex |-> TxBlockIndex(target, checkpoint),
         merkleProof |-> GenerateMerkleProof(txids, index),
         txIndex |-> index]

Provable(p, checkpoint, target, headers) ==
    /\ target \in DOMAIN chain
    /\ p \in ToSet(chain[target].txs)
    /\ headers[target - checkpoint].root = ComputeMerkleRoot(chain[target].txs)

(* submit-proof of the command line: an operator proves a payout from a    *)
(* checkpoint of their choice; nothing is recorded in the relayer's store. *)
SubmitProof(p, checkpoint, target) ==
    LET headers == [k \in 1..(TipHeight(target) - checkpoint) |->
                       Header(chain[checkpoint + k])]
    IN  /\ Len(flight) < MaxFlight
        /\ target > checkpoint
        /\ TipHeight(target) \in DOMAIN chain
        /\ Provable(p, checkpoint, target, headers)
        /\ flight' = Append(flight,
                            [proof |-> ProofOf(p, checkpoint, target, headers),
                             status |-> "sent"])
        /\ UNCHANGED <<pending, submitted, spv>>
        /\ UNCHANGED bitcoinVars
        /\ UNCHANGED contractVars

-----------------------------------------------------------------------------
(* SPVRelayer *)

(* The process between two runs of run_once; what it scanned is kept in    *)
(* memory only.                                                            *)
SpvAtRest(last) ==
    [pc |-> "idle", last |-> last, at |-> 0, end |-> 0, height |-> 0,
     todo |-> {}, cur |-> NoHeight, checkpoint |-> 0, headers |-> <<>>, tx |-> 0]

(* scan_new_blocks: the first scan starts ScanBatch below the tip. *)
ScanNewBlocks ==
    LET last == IF spv.last = NoHeight
                THEN IF Len(chain) > ScanBatch THEN Len(chain) - ScanBatch ELSE 0
                ELSE spv.last
        end  == IF last + ScanBatch < Len(chain)
                THEN last + ScanBatch ELSE Len(chain)
    IN  /\ spv.pc = "idle"
        /\ spv' = IF Len(chain) <= last
                  THEN [SpvAtRest(last) EXCEPT !.pc = "pending"]
                  ELSE [SpvAtRest(last) EXCEPT !.pc = "scan", !.at = last + 1,
                                             !.end = end]
        /\ UNCHANGED <<flight, pending, submitted>>
        /\ UNCHANGED bitcoinVars
        /\ UNCHANGED contractVars

(* add_pending: one row per payout, at the height it was first seen. *)
AddPending(new, height) ==
    pending' = [p \in DOMAIN pending \cup new |-> IF p \in new THEN height ELSE pending[p]]

(* scan_block: every payout of the block that is neither submitted nor     *)
(* already pending becomes a pending row at this height.  A height the     *)
(* node no longer has ends run_once.                                       *)
ScanBlock ==
    LET new == {p \in Payouts : /\ p \in ToSet(chain[spv.at].txs)
                                /\ p \notin submitted
                                /\ p \notin DOMAIN pending}
    IN  /\ spv.pc = "scan"
        /\ IF spv.at \in DOMAIN chain
           THEN /\ AddPending(new, spv.at)
                /\ spv' = IF spv.at = spv.end
                          THEN [SpvAtRest(spv.end) EXCEPT !.pc = "pending"]
                          ELSE [spv EXCEPT !.at = @ + 1]
           ELSE /\ spv' = SpvAtRest(spv.last)
                /\ UNCHANGED pending
        /\ UNCHANGED <<flight, submitted>>
        /\ UNCHANGED bitcoinVars
        /\ UNCHANGED contractVars

(* process_pending reads the height and the pending rows once. *)
ProcessPending ==
    /\ spv.pc = "pending"
    /\ spv' = [spv EXCEPT !.pc = "next", !.height = Len(chain),
                          !.todo = DOMAIN pending]
    /\ UNCHANGED <<flight, pending, submitted>>
    /\ UNCHANGED bitcoinVars
    /\ UNCHANGED contractVars

(* select_checkpoint: the latest one, below the target and within          *)
(* MaxHeaderChain of it.                                                   *)
Suitable(target) ==
    /\ LatestCheckpoint # 0
    /\ target - LatestCheckpoint > 0
    /\ target - LatestCheckpoint <= MaxHeaderChain

(* The next row: skipped until it is confirmed and has a checkpoint. *)
NextPending(p) ==
    /\ spv.pc = "next"
    /\ p \in spv.todo
    /\ spv' = IF /\ spv.height - pending[p] + 1 >= Required
                 /\ Suitable(pending[p])
              THEN [spv EXCEPT !.pc = "headers", !.todo = @ \ {p}, !.cur = p,
                               !.checkpoint = LatestCheckpoint,
                               !.headers = <<>>]
              ELSE [spv EXCEPT !.todo = @ \ {p}]
    /\ UNCHANGED <<flight, pending, submitted>>
    /\ UNCHANGED bitcoinVars
    /\ UNCHANGED contractVars

RunDone ==
    /\ spv.pc = "next"
    /\ spv.todo = {}
    /\ spv' = SpvAtRest(spv.last)
    /\ UNCHANGED <<flight, pending, submitted>>
    /\ UNCHANGED bitcoinVars
    /\ UNCHANGED contractVars

(* The row in hand failed: it stays pending for the next run. *)
NextRow == [spv EXCEPT !.pc = "next", !.cur = NoHeight, !.checkpoint = 0,
                       !.headers = <<>>, !.tx = 0]

(* get_headers_in_range, one header per call up to the tip of the proof. *)
ReadHeader ==
    LET height == spv.checkpoint + Len(spv.headers) + 1
        tip    == TipHeight(pending[spv.cur])
    IN  /\ spv.pc = "headers"
        /\ spv' = IF height \in DOMAIN chain
                  THEN [spv EXCEPT !.headers = Append(@, Header(chain[height])),
                                   !.pc = IF height = tip THEN "prove" ELSE @]
                  ELSE NextRow
        /\ UNCHANGED <<flight, pending, submitted>>
        /\ UNCHANGED bitcoinVars
        /\ UNCHANGED contractVars

(* The target block is read and the proof is sent; either may fail. *)
Submit ==
    LET target == pending[spv.cur]
    IN  /\ spv.pc = "prove"
        /\ IF Provable(spv.cur, spv.checkpoint, target, spv.headers)
           THEN \/ /\ Len(flight) < MaxFlight
                   /\ flight' = Append(flight,
                        [proof |-> ProofOf(spv.cur, spv.checkpoint, target,
                                           spv.headers),
                         status |-> "sent"])
                   /\ spv' = [spv EXCEPT !.pc = "receipt", !.headers = <<>>,
                                         !.tx = Len(flight) + 1]
                \/ /\ spv' = NextRow
                   /\ UNCHANGED flight
           ELSE /\ spv' = NextRow
                /\ UNCHANGED flight
        /\ UNCHANGED <<pending, submitted>>
        /\ UNCHANGED bitcoinVars
        /\ UNCHANGED contractVars

(* The receipt arrives: the payout moves from pending to submitted.  The   *)
(* receipt's status is not looked at.                                      *)
MarkSubmitted ==
    /\ spv.pc = "receipt"
    /\ flight[spv.tx].status # "sent"
    /\ submitted' = submitted \cup {spv.cur}
    /\ pending' = [p \in DOMAIN pending \ {spv.cur} |-> pending[p]]
    /\ spv' = NextRow
    /\ UNCHANGED flight
    /\ UNCHANGED bitcoinVars
    /\ UNCHANGED contractVars

(* No receipt in time: the row stays pending, the transaction may be mined *)
(* later.                                                                  *)
ReceiptTimeout ==
    /\ spv.pc = "receipt"
    /\ flight[spv.tx].status = "sent"
    /\ spv' = NextRow
    /\ UNCHANGED <<flight, pending, submitted>>
    /\ UNCHANGED bitcoinVars
    /\ UNCHANGED contractVars

(* The process ends and is started again. *)
RelayerRestart ==
    /\ spv # SpvAtRest(NoHeight)
    /\ spv' = SpvAtRest(NoHeight)
    /\ UNCHANGED <<flight, pending, submitted>>
    /\ UNCHANGED bitcoinVars
    /\ UNCHANGED contractVars

-----------------------------------------------------------------------------
SpvInit ==
    /\ chain = <<[id |-> 1, prev |-> 0, txs |-> <<1>>]>>
    /\ found = 1
    /\ buried = DeepAt(1)
    /\ checkpoints = [h \in {} |-> 0]
    /\ registered = FALSE
    /\ credited = [p \in Payouts |-> 0]
    /\ flight = <<>>
    /\ pending = [p \in {} |-> 0]
    /\ submitted = {}
    /\ spv = SpvAtRest(NoHeight)

(* The payouts of a block, in an order the miner chooses. *)
Ordered(S) == {s \in [1..Cardinality(S) -> S] : ToSet(s) = S}

SpvNext ==
    \/ \E S \in SUBSET Payouts : \E paid \in Ordered(S) : FindBlock(paid)
    \/ Orphan
    \/ \E h \in 1..MaxHeight : SetCheckpoint(h)
    \/ SetBorrowerPubkeyHash
    \/ \E i \in DOMAIN flight : Include(i)
    \/ \E p \in Payouts, c \in DOMAIN checkpoints, t \in DOMAIN chain :
           SubmitProof(p, c, t)
    \/ ScanNewBlocks \/ ScanBlock \/ ProcessPending \/ RunDone
    \/ \E p \in Payouts : NextPending(p)
    \/ ReadHeader \/ Submit \/ MarkSubmitted \/ ReceiptTimeout
    \/ RelayerRestart

-----------------------------------------------------------------------------
(* Properties *)

(* A payout is counted once at most, and only while a block that was       *)
(* buried MinConfirmations deep holds it: neither a resubmission after a   *)
(* lost receipt or a restart, nor headers read across a reorganisation,    *)
(* give credit twice or for an orphaned payment.                           *)
CountedIsPaid ==
    \A p \in Payouts :
        /\ credited[p] <= 1
        /\ credited[p] = 1 =>
               \E h \in DOMAIN chain : h <= buried /\ p \in ToSet(chain[h].txs)

(* What build_proof sends is what verifyPayout accepts: a proof whose      *)
(* headers are the active chain's above a checkpoint of the active chain   *)
(* is refused only for the header limit, the retarget boundary or an       *)
(* unregistered borrower.                                                  *)
BuiltIsVerifiable ==
    \A i \in DOMAIN flight :
        LET proof == flight[i].proof
            n     == Len(proof.headers)
            c     == proof.checkpoint
        IN  /\ registered
            /\ c \in DOMAIN chain
            /\ checkpoints[c] = chain[c].id
            /\ c + n \in DOMAIN chain
            /\ \A k \in 1..n : proof.headers[k].id = chain[c + k].id
            /\ n <= MaxHeaderChain
            /\ c \div RetargetPeriod = (c + n) \div RetargetPeriod
            => VerifyPayout(proof)

(* Payouts are counted once and only when buried, and the proofs the       *)
(* relayer builds are those the verifier accepts.                          *)
SpvKept == CountedIsPaid /\ BuiltIsVerifiable

(* A payout that the store holds as submitted was counted by the contract, *)
(* as the relayer's log says of it.                                        *)
SubmittedIsCounted == \A p \in submitted : credited[p] = 1

=============================================================================
