----------------------------- MODULE ChainIndexer -----------------------------
(***************************************************************************)
(* The chain projector (offchain/gpu/hashcredit_gpu/projections) and the   *)
(* loop that runs it (offchain/prover/.../gpu/chain_indexer.py): one sync  *)
(* is one database transaction that reads the chain in several RPC calls   *)
(* while blocks are added and reorganised, and either commits blocks,      *)
(* logs, tiers and cursor together or leaves no trace.                     *)
(*                                                                         *)
(* A block's hash is the chain up to it, so a hash determines the parent   *)
(* hashes below it.  A block carries one event of the deployment or none.  *)
(* The endpoint answers from a node that may trail the chain by up to      *)
(* NodeLag blocks; one sync is served by one node.  Heights start at 1, the *)
(* deployment block.  An abandoned branch does not come back.              *)
(***************************************************************************)
EXTENDS Naturals, Sequences

CONSTANTS
    FinalityDepth,  \* finality_depth of the deployment
    ChunkSize,      \* chunk_size of sync
    NodeLag,         \* how far the serving node may trail the chain
    MaxBlocks,      \* bound: height of the chain
    MaxReorgs,      \* bound: reorganisations
    MaxFaults       \* bound: RPC errors, restarts and syncs served by a trailing node

ASSUME IndexerConstants ==
    /\ FinalityDepth \in Nat /\ ChunkSize \in Nat \ {0}
    /\ NodeLag \in Nat /\ MaxBlocks \in Nat \ {0} /\ MaxReorgs \in Nat /\ MaxFaults \in Nat

VARIABLES
    chain,          \* the canonical chain: a sequence of blocks
    reorgs,         \* reorganisations so far
    blocks,         \* chain_blocks: number -> [hash, tier]
    logs,           \* chain_logs: a set of [number, hash, tier]
    cursor,         \* chain_cursors row
    tx,             \* the transaction of the sync that is running
    loop,           \* run_loop: what it is failing with and what it reported
    faults,
    discrepancy     \* projection_discrepancies has a row classed DISCREPANCY

db == <<blocks, logs, cursor>>

indexerVars == <<chain, reorgs, db, tx, loop, faults, discrepancy>>

-----------------------------------------------------------------------------
(* The chain and the node that answers *)

Hash(c, n) == SubSeq(c, 1, n)

Block(log) == [log |-> log, branch |-> reorgs]

EventsOf(hash) == {n \in DOMAIN hash : hash[n].log}

NodeHead == IF Len(chain) > tx.lag THEN Len(chain) - tx.lag ELSE 0

NoBlock == <<>>

GetBlock(n) == IF n \in 1 .. NodeHead THEN Hash(chain, n) ELSE NoBlock

-----------------------------------------------------------------------------
(* Rows *)

NoCursor == [exists |-> FALSE, last |-> 0, finalized |-> 0]

UpTo(rows, n) == [k \in DOMAIN rows \cap 0 .. n |-> rows[k]]

WithRow(rows, n, hash) ==
    [k \in DOMAIN rows \cup {n} |-> IF k = n THEN [hash |-> hash, tier |-> "PENDING"] ELSE rows[k]]

LogsUpTo(rows, n) == {r \in rows : r.number <= n}

Healthy == [failing |-> FALSE, stalled |-> FALSE, critical |-> FALSE]

LesserOf(a, b) == IF a < b THEN a ELSE b

NoTx == [pc |-> "idle", lag |-> 0, head |-> 0, last |-> 0, end |-> 0, next |-> 0,
         blocks |-> <<>>, logs |-> {}]

-----------------------------------------------------------------------------
(* A new deployment: the tables are empty. *)
IndexerInit ==
    /\ chain = <<[log |-> TRUE, branch |-> 0]>>
    /\ reorgs = 0
    /\ blocks = <<>> /\ logs = {} /\ cursor = NoCursor
    /\ tx = NoTx
    /\ loop = Healthy
    /\ faults = 0
    /\ discrepancy = FALSE

Grow(log) ==
    /\ Len(chain) < MaxBlocks
    /\ chain' = Append(chain, Block(log))
    /\ UNCHANGED <<reorgs, db, tx, loop, faults, discrepancy>>

(* Another branch of the same length wins; blocks at the finality depth and *)
(* below stay.                                                              *)
Reorg(fork, suffix) ==
    /\ reorgs < MaxReorgs
    /\ fork < Len(chain)
    /\ fork + FinalityDepth >= Len(chain)
    /\ reorgs' = reorgs + 1
    /\ chain' = Hash(chain, fork) \o [k \in 1 .. Len(chain) - fork |->
                                        [log |-> suffix[fork + k], branch |-> reorgs + 1]]
    /\ UNCHANGED <<db, tx, loop, faults, discrepancy>>

-----------------------------------------------------------------------------
(* How a sync ends without committing *)

(* A retryable error: the transaction is rolled back and the loop sleeps;   *)
(* it reports a stall once it has failed for long enough.                   *)
Retry ==
    /\ tx' = NoTx
    /\ \E long \in BOOLEAN :
          loop' = [failing |-> TRUE, stalled |-> loop.stalled \/ (loop.failing /\ long), critical |-> FALSE]
    /\ UNCHANGED <<db, discrepancy>>

(* An integrity failure: a critical alert, the process ends and the         *)
(* platform starts a new one.                                               *)
Exit ==
    /\ tx' = NoTx
    /\ loop' = [Healthy EXCEPT !.critical = TRUE]
    /\ UNCHANGED <<db, discrepancy>>

Step(pc) ==
    /\ tx.pc = pc
    /\ UNCHANGED <<chain, reorgs, faults>>

-----------------------------------------------------------------------------
(* sync *)

BeginOrphans(lag) ==                        \* mutant: rows above the cursor are left alone
    /\ tx.pc = "idle"
    /\ lag > 0 => faults < MaxFaults
    /\ faults' = IF lag > 0 THEN faults + 1 ELSE faults
    /\ LET head == IF Len(chain) > lag THEN Len(chain) - lag ELSE 0
       IN  tx' = [pc |-> IF cursor.exists THEN "walk" ELSE "read", lag |-> lag, head |-> head,
                  last |-> cursor.last, end |-> LesserOf(head, cursor.last + ChunkSize),
                  next |-> IF cursor.exists THEN cursor.last ELSE 1,
                  blocks |-> blocks, logs |-> logs]
    /\ UNCHANGED <<chain, reorgs, db, loop, discrepancy>>

(* Rows above the cursor are deleted, the node's head is read. *)
Begin(lag) ==
    /\ tx.pc = "idle"
    /\ lag > 0 => faults < MaxFaults
    /\ faults' = IF lag > 0 THEN faults + 1 ELSE faults
    /\ LET head == IF Len(chain) > lag THEN Len(chain) - lag ELSE 0
       IN  tx' = [pc |-> IF cursor.exists THEN "walk" ELSE "read", lag |-> lag, head |-> head,
                  last |-> cursor.last, end |-> LesserOf(head, cursor.last + ChunkSize),
                  next |-> IF cursor.exists THEN cursor.last ELSE 1,
                  blocks |-> IF cursor.exists THEN UpTo(blocks, cursor.last) ELSE blocks,
                  logs |-> IF cursor.exists THEN LogsUpTo(logs, cursor.last) ELSE logs]
    /\ UNCHANGED <<chain, reorgs, db, loop, discrepancy>>

(* One step of the search for the newest journal block still canonical; a   *)
(* difference at a finalized height raises FinalizedReorg.                  *)
Walk ==
    /\ Step("walk")
    /\ LET n     == tx.next
           found == n = 0 \/ (n \in DOMAIN tx.blocks /\ GetBlock(n) = tx.blocks[n].hash)
       IN  \/ /\ found
              /\ tx' = [tx EXCEPT !.pc = "read", !.last = n, !.next = n + 1,
                                  !.end = LesserOf(tx.head, n + ChunkSize),
                                  !.blocks = IF n < tx.last THEN UpTo(@, n) ELSE @,
                                  !.logs = IF n < tx.last THEN LogsUpTo(@, n) ELSE @]
              /\ UNCHANGED <<db, loop, discrepancy>>
           \/ ~found /\ n <= cursor.finalized /\ Exit
           \/ /\ ~found /\ n > cursor.finalized
              /\ tx' = [tx EXCEPT !.next = n - 1]
              /\ UNCHANGED <<db, loop, discrepancy>>

ReadUnlinked ==                             \* mutant: the parent hash is not compared
    /\ Step("read")
    /\ tx.next <= tx.end
    /\ tx.next \notin DOMAIN tx.blocks
    /\ tx' = [tx EXCEPT !.next = @ + 1,
                        !.blocks = WithRow(@, tx.next, GetBlock(tx.next))]
    /\ UNCHANGED <<db, loop, discrepancy>>

(* The next block of the chunk, whose parent must be the block read before. *)
(* A row that is already there breaks the primary key.                      *)
ReadBlock ==
    /\ Step("read")
    /\ tx.next <= tx.end
    /\ LET n      == tx.next
           block  == GetBlock(n)
           linked == block # NoBlock /\ (n - 1 \in DOMAIN tx.blocks =>
                                            Hash(block, n - 1) = tx.blocks[n - 1].hash)
       IN  \/ ~linked /\ Retry
           \/ linked /\ n \in DOMAIN tx.blocks /\ Exit
           \/ /\ linked /\ n \notin DOMAIN tx.blocks
              /\ tx' = [tx EXCEPT !.next = n + 1,
                                  !.blocks = WithRow(@, n, block)]
              /\ UNCHANGED <<db, loop, discrepancy>>

(* get_logs with the receipts of its transactions: every log must belong to *)
(* the block of its height that was read.                                   *)
ReadLogs ==
    /\ Step("read")
    /\ tx.next > tx.end
    /\ LET found == EventsOf(Hash(chain, tx.end)) \cap (tx.last + 1 .. tx.end)
           own   == \A n \in found : Hash(chain, n) = tx.blocks[n].hash
       IN  \/ ~own /\ Retry
           \/ /\ own
              /\ tx' = [tx EXCEPT !.pc = "commit",
                          !.logs = @ \cup {[number |-> n, hash |-> tx.blocks[n].hash, tier |-> "PENDING"]
                                              : n \in found}]
              /\ UNCHANGED <<db, loop, discrepancy>>

TargetFinalAtHead(end, head) == LesserOf(end, head)     \* mutant: no depth is kept

(* target_final *)
TargetFinal(end, head) ==
    IF head > FinalityDepth THEN LesserOf(end, head - FinalityDepth) ELSE 0

Tiered(rows, final) ==
    [n \in DOMAIN rows |-> [hash |-> rows[n].hash, tier |-> IF n <= final THEN "FINALIZED" ELSE rows[n].tier]]

TieredLogs(rows, final) ==
    {[number |-> r.number, hash |-> r.hash, tier |-> IF r.number <= final THEN "FINALIZED" ELSE r.tier] : r \in rows}

(* A chunk whose last block is no longer canonical is retried.  Otherwise   *)
(* tiers, read models (replay, a function of the logs) and cursor are       *)
(* committed with the rows; a stall that was reported is resolved.          *)
Commit ==
    /\ Step("commit")
    /\ \/ tx.end > tx.last /\ GetBlock(tx.end) # tx.blocks[tx.end].hash /\ Retry
       \/ /\ tx.end > tx.last => GetBlock(tx.end) = tx.blocks[tx.end].hash
          /\ tx.end >= 1
          /\ LET final == TargetFinal(tx.end, tx.head)
             IN  /\ blocks' = Tiered(tx.blocks, final)
                 /\ logs' = TieredLogs(tx.logs, final)
                 /\ cursor' = [exists |-> TRUE, last |-> tx.end, finalized |-> final]
          /\ loop' = Healthy
          /\ tx' = IF tx.end = tx.head THEN [NoTx EXCEPT !.pc = "reconcile", !.lag = tx.lag] ELSE NoTx
          /\ UNCHANGED discrepancy
       \/ /\ tx.end < 1                     \* nothing deployed yet
          /\ tx' = NoTx
          /\ loop' = Healthy
          /\ UNCHANGED <<db, discrepancy>>

-----------------------------------------------------------------------------
(* The events a tier's read models are folded from: FINALIZED takes the     *)
(* finalized logs, PENDING every log of the journal.                        *)
Replayed(tier) == {r.number : r \in {l \in logs : tier = "PENDING" \/ l.tier = tier}}

(* reconcile_views: the FINALIZED read models against the contracts' views  *)
(* at the cursor's finalized block; differences are recorded, not repaired. *)
Reconcile ==
    /\ Step("reconcile")
    /\ \/ /\ cursor.finalized \notin DOMAIN blocks
          /\ tx' = NoTx
          /\ UNCHANGED <<db, loop, discrepancy>>
       \/ /\ cursor.finalized \in DOMAIN blocks
          /\ GetBlock(cursor.finalized) # blocks[cursor.finalized].hash
          /\ Exit
       \/ /\ cursor.finalized \in DOMAIN blocks
          /\ GetBlock(cursor.finalized) = blocks[cursor.finalized].hash
          /\ tx' = NoTx
          /\ discrepancy' = (discrepancy \/ Replayed("FINALIZED") # EventsOf(blocks[cursor.finalized].hash))
          /\ UNCHANGED <<db, loop>>

-----------------------------------------------------------------------------
(* Faults: an RPC or database error inside a sync, and a restart. *)
RpcFault ==
    /\ tx.pc # "idle"
    /\ faults < MaxFaults
    /\ faults' = faults + 1
    /\ Retry
    /\ UNCHANGED <<chain, reorgs>>

Restart ==
    /\ tx.pc # "idle" \/ loop.failing
    /\ faults < MaxFaults
    /\ faults' = faults + 1
    /\ tx' = NoTx
    /\ loop' = Healthy
    /\ UNCHANGED <<chain, reorgs, db, discrepancy>>

Indexer == Begin(0) \/ Walk \/ ReadBlock \/ ReadLogs \/ Commit \/ Reconcile

IndexerNext ==
    \/ \E log \in BOOLEAN : Grow(log)
    \/ \E fork \in 0 .. MaxBlocks, suffix \in [1 .. MaxBlocks -> BOOLEAN] : Reorg(fork, suffix)
    \/ Indexer
    \/ \E lag \in 1 .. NodeLag : Begin(lag)
    \/ RpcFault
    \/ Restart

IndexerSpec == IndexerInit /\ [][IndexerNext]_indexerVars

(* run_loop is a `while True' and the platform restarts what exits. *)
FairSpec == IndexerSpec /\ WF_indexerVars(Indexer)

-----------------------------------------------------------------------------
(* Up to the cursor the committed journal is one chain of blocks from the   *)
(* deployment block, holding exactly the logs of those blocks, whatever     *)
(* moved between the RPC calls of a sync.  (A sync whose node trails at     *)
(* first and then catches up moves the cursor back and leaves rows above.)  *)
JournalSound ==
    cursor.exists =>
       LET tip == blocks[cursor.last].hash
       IN  /\ \A n \in 1 .. cursor.last : blocks[n].hash = Hash(tip, n)
           /\ {r.number : r \in LogsUpTo(logs, cursor.last)} = EventsOf(tip)
           /\ \A r \in LogsUpTo(logs, cursor.last) : r.hash = blocks[r.number].hash

(* Under reorganisations shallower than the finality depth, what a FINALIZED *)
(* read model is folded from is canonical, and no sync stops the process.    *)
FinalizedCanonical ==
    /\ \A n \in DOMAIN blocks : blocks[n].tier = "FINALIZED" => blocks[n].hash = Hash(chain, n)
    /\ \A r \in logs : r.tier = "FINALIZED" => r.hash = Hash(chain, r.number)
    /\ ~loop.critical

(* Once the chain rests and the faults are over, the journal follows it to  *)
(* its head and stays there.                                                *)
CatchesUp ==
    <>[](cursor.last = Len(chain) /\ blocks[cursor.last].hash = chain)
=============================================================================
