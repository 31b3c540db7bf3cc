---------------------------- MODULE NativeImport ----------------------------
(***************************************************************************)
(* Importing a native deployment into the books                            *)
(* (offchain/prover/hashcredit_prover/gpu): bootstrap_native registers the *)
(* facility, its borrower and wallet from finalized chain state, and       *)
(* backfill_native rebuilds a receivable from the source events whose      *)
(* proofs were consumed, refusing whenever what it rebuilds is not what    *)
(* the receivable book says at the finalized block.  Meanwhile the source, *)
(* the destination, the indexer and the proof files move on, and           *)
(* onboarding claims wallets.                                              *)
(***************************************************************************)
EXTENDS Integers, Sequences, SequencesExt, FiniteSets, FiniteSetsExt, TLC

CONSTANTS
    NativeFacilities,   \* facilities of one borrower and wallet
    Face,               \* amount of the obligation
    MaxSource           \* bound: events at the source

VARIABLES
    source,         \* the escrow's events for the obligation, in order
    intake,         \* positions in source, in the order the destination consumed them
    finalized,      \* how many of them the indexer has finalized
    files,          \* positions whose proof artifact is in the directory
    importer,       \* the backfill in progress
    receivable,     \* the receivable's row
    revisions,      \* its receivable_revisions rows
    paidOut,        \* settlements rows: positions of payouts
    importedAt,     \* history variable: finalized height of the last import
    walletRows,     \* borrower_wallets rows of the facility's wallet
    debtNow,        \* on-chain principal of each facility
    snapshot,       \* facilities and facility_chain_bindings rows
    boot,           \* the bootstrap in progress
    applicant       \* the onboarding in progress

importVars == <<source, intake, finalized, files, importer, receivable, revisions, paidOut,
                importedAt, walletRows, debtNow, snapshot, boot, applicant>>
evidenceVars == <<source, intake, finalized, files>>
bookVars == <<receivable, revisions, paidOut, importedAt>>
setupVars == <<walletRows, debtNow, snapshot, boot, applicant>>

None == [step |-> "none"]
NoRow == [net |-> 0, paid |-> 0, revision |-> 0, checkpoint |-> 0]

ImportInit ==
    /\ source = <<>> /\ intake = <<>> /\ finalized = 0 /\ files = {}
    /\ importer = None
    /\ receivable = NoRow /\ revisions = {} /\ paidOut = {} /\ importedAt = 0
    /\ walletRows = {} /\ snapshot = <<>>
    /\ debtNow = [f \in NativeFacilities |-> 0]
    /\ boot = None /\ applicant = None

-----------------------------------------------------------------------------
(* Source and destination.  The escrow numbers revisions; the book takes    *)
(* revision events in order, payouts as they come.                          *)

AddTo(c, e) ==
    [net |-> CASE e.kind = "RECOGNIZED" -> e.amount [] e.kind = "CORRECTED" -> c.net - e.amount [] OTHER -> c.net,
     paid |-> IF e.kind = "PAYOUT" THEN c.paid + e.amount ELSE c.paid,
     revision |-> IF e.kind = "CHECKPOINT" THEN c.revision ELSE c.revision + 1,
     checkpoint |-> IF e.kind = "CHECKPOINT" THEN e.seq ELSE c.checkpoint]

AtSource == FoldLeft(AddTo, NoRow, source)

Canonical(block) == FoldLeft(LAMBDA c, i : AddTo(c, source[i]), NoRow, SubSeq(intake, 1, block))

Emit(kind, amount) ==
    /\ Len(source) < MaxSource
    /\ source' = Append(source, [kind |-> kind, amount |-> amount, seq |-> AtSource.checkpoint + 1,
                                 revision |-> AtSource.revision + 1])
    /\ UNCHANGED <<intake, finalized, files, importer, bookVars, setupVars>>

Recognize == source = <<>> /\ Emit("RECOGNIZED", Face)
AssignAtSource == AtSource.net > AtSource.paid /\ (\A i \in DOMAIN source : source[i].kind # "ASSIGNED") /\ Emit("ASSIGNED", 0)
CorrectAtSource == AtSource.net - 1 > AtSource.paid /\ Emit("CORRECTED", 1)
PayAtSource == \E a \in 1..(AtSource.net - AtSource.paid) : Emit("PAYOUT", a)
CheckpointAtSource == source # <<>> /\ Last(source).kind # "CHECKPOINT" /\ Emit("CHECKPOINT", 0)

Consume(i) ==
    LET now == Canonical(Len(intake)) e == source[i] IN
    /\ \A j \in DOMAIN intake : intake[j] # i
    /\ CASE e.kind = "RECOGNIZED" -> now.revision = 0
         [] e.kind = "PAYOUT" -> now.revision > 0 /\ e.amount <= now.net - now.paid
         [] e.kind = "CHECKPOINT" -> e.seq > now.checkpoint
         [] OTHER -> e.revision = now.revision + 1
    /\ intake' = Append(intake, i)
    /\ UNCHANGED <<source, finalized, files, importer, bookVars, setupVars>>

Finalize ==
    /\ finalized < Len(intake) /\ finalized' = finalized + 1
    /\ UNCHANGED <<source, intake, files, importer, bookVars, setupVars>>

StoreProof(i) ==
    /\ i \notin files /\ files' = files \cup {i}
    /\ UNCHANGED <<source, intake, finalized, importer, bookVars, setupVars>>

-----------------------------------------------------------------------------
(* backfill *)

(* The finalized height is read first; the facility must be bound. *)
BeginImport ==
    /\ importer = None /\ finalized > 0 /\ snapshot # <<>>
    /\ importer' = [step |-> "begun", block |-> finalized]
    /\ UNCHANGED <<evidenceVars, bookVars, setupVars>>

(* Finalized evidence with a proof file.  A consumption above the block, or *)
(* a business event the importer does not know, refuses the whole import.   *)
GatherFacts ==
    LET projected == {j \in 1..finalized : intake[j] \in files}
        facts == {intake[j] : j \in projected}
    IN
    /\ importer.step = "begun"
    /\ importer' = IF \/ facts = {}
                      \/ \E j \in projected : j > importer.block
                      \/ \E i \in facts : source[i].kind = "CORRECTED"
                   THEN None
                   ELSE [step |-> "gathered", block |-> importer.block, facts |-> facts]
    /\ UNCHANGED <<evidenceVars, bookVars, setupVars>>

InSourceOrder(S) == SetToSortSeq(S, <)

(* persist_receivables: the facts of the obligation in source order give    *)
(* each its revision number and what was paid by then.                      *)
HistoryStep(h, i) ==
    LET e == source[i]
        paid == h.paid + (IF e.kind = "PAYOUT" THEN e.amount ELSE 0)
        revision == IF e.kind = "PAYOUT" THEN h.revision + 1 ELSE e.revision
    IN IF e.kind = "CHECKPOINT" THEN h
       ELSE [paid |-> paid, revision |-> revision,
             entries |-> Append(h.entries, [revision |-> revision, kind |-> e.kind, cites |-> i, unpaid |-> Face - paid])]

HistoryOf(facts) == FoldLeft(HistoryStep, [paid |-> 0, revision |-> 0, entries |-> <<>>], InSourceOrder(facts))

AmountsOnly(h, now) == h.paid = now.paid        \* mutant: the revision is not compared

(* The rebuilt history must end where the receivable book stands. *)
EndsAtBook(h, now) == h.paid = now.paid /\ h.revision = now.revision

Importable(facts, now) ==
    LET h == HistoryOf(facts) IN
    /\ \E i \in facts : source[i].kind = "CHECKPOINT" /\ source[i].seq = now.checkpoint
    /\ \E i \in facts : source[i].kind = "RECOGNIZED" /\ source[i].amount = now.net
    /\ EndsAtBook(h, now)
    /\ receivable.revision <= h.revision

(* Revisions are added under (revision, kind); one at or below the latest   *)
(* revision is refused by the table's trigger and undoes the import.        *)
NewRevisions(entries) ==
    {e \in Range(entries) : \A r \in revisions : <<r.revision, r.kind>> # <<e.revision, e.kind>>}

Ascending(fresh) == \A e \in fresh, r \in revisions : e.revision > r.revision

RowOf(now, h) == [net |-> now.net, paid |-> h.paid, revision |-> h.revision, checkpoint |-> now.checkpoint]

SettlementsOf(facts) == {i \in facts : source[i].kind = "PAYOUT"}

Persist ==
    LET now == Canonical(importer.block)
        h == HistoryOf(importer.facts)
        fresh == NewRevisions(h.entries)
    IN
    /\ importer.step = "gathered"
    /\ importer' = None
    /\ IF Importable(importer.facts, now) /\ Ascending(fresh)
       THEN /\ receivable' = RowOf(now, h)
            /\ revisions' = revisions \cup fresh
            /\ paidOut' = paidOut \cup SettlementsOf(importer.facts)
            /\ importedAt' = importer.block
       ELSE UNCHANGED bookVars
    /\ UNCHANGED <<evidenceVars, setupVars>>

ImportDies ==
    /\ importer # None /\ importer' = None
    /\ UNCHANGED <<evidenceVars, bookVars, setupVars>>

-----------------------------------------------------------------------------
(* bootstrap and onboarding *)

ChainMoves(f) ==
    /\ debtNow[f] = 0 /\ debtNow' = [debtNow EXCEPT ![f] = 1]
    /\ UNCHANGED <<evidenceVars, importer, bookVars, walletRows, snapshot, boot, applicant>>

(* inspect_setup: everything is read at one final block *)
InspectSetup(f) ==
    /\ boot = None
    /\ boot' = [step |-> "inspected", facility |-> f, principal |-> debtNow[f]]
    /\ UNCHANGED <<evidenceVars, importer, bookVars, walletRows, debtNow, snapshot, applicant>>

LiveRows == {r \in walletRows : r.live}

(* The wallet's live link, before the row is written. *)
BootReads ==
    /\ boot.step = "inspected"
    /\ boot' = IF \E r \in LiveRows : r.borrower # "canonical" THEN None
               ELSE [step |-> "registering", facility |-> boot.facility, principal |-> boot.principal, link |-> LiveRows = {}]
    /\ UNCHANGED <<evidenceVars, importer, bookVars, walletRows, debtNow, snapshot, applicant>>

(* uq_borrower_wallets_active *)
Linkable == LiveRows = {}

Link(borrower) == walletRows' = walletRows \cup {[borrower |-> borrower, live |-> TRUE]}

(* _ensure: rows that exist are kept as they are. *)
Ensure(rows, key, value) == rows @@ key :> value

Bootstrap ==
    /\ boot.step = "registering"
    /\ boot' = None
    /\ IF boot.link /\ ~Linkable THEN UNCHANGED <<walletRows, snapshot>>
       ELSE /\ IF boot.link THEN Link("canonical") ELSE UNCHANGED walletRows
            /\ snapshot' = Ensure(snapshot, boot.facility, boot.principal)
    /\ UNCHANGED <<evidenceVars, importer, bookVars, debtNow, applicant>>

(* onboarding (product/commands.py) under a lock of its own *)
Apply ==
    /\ applicant = None /\ LiveRows = {}
    /\ applicant' = [step |-> "unlinked"]
    /\ UNCHANGED <<evidenceVars, importer, bookVars, walletRows, debtNow, snapshot, boot>>

Enroll ==
    /\ applicant # None /\ applicant' = None
    /\ IF Linkable THEN Link("applicant") ELSE UNCHANGED walletRows
    /\ UNCHANGED <<evidenceVars, importer, bookVars, debtNow, snapshot, boot>>

ReleaseLinkOf(borrower) ==
    /\ \E r \in LiveRows : r.borrower = borrower
    /\ walletRows' = {[r EXCEPT !.live = @ /\ r.borrower # borrower] : r \in walletRows}
    /\ UNCHANGED <<evidenceVars, importer, bookVars, debtNow, snapshot, boot, applicant>>

ImportNext ==
    \/ Recognize \/ AssignAtSource \/ CorrectAtSource \/ PayAtSource \/ CheckpointAtSource
    \/ \E i \in DOMAIN source : Consume(i) \/ StoreProof(i)
    \/ Finalize
    \/ BeginImport \/ GatherFacts \/ Persist \/ ImportDies
    \/ \E f \in NativeFacilities : ChainMoves(f) \/ InspectSetup(f)
    \/ BootReads \/ Bootstrap \/ Apply \/ Enroll
    \/ \E b \in {"canonical", "applicant"} : ReleaseLinkOf(b)

-----------------------------------------------------------------------------
(* What is imported is what the receivable book said at the finalized       *)
(* block, revisions without gaps and settlements that add up to what was    *)
(* paid, although events are consumed out of order, proofs are missing and  *)
(* the index moves while the import reads it (backfill_native.py).          *)
ImportedIsCanonical ==
    receivable # NoRow =>
        /\ receivable = Canonical(importedAt)
        /\ {r.revision : r \in revisions} = 1..receivable.revision
        /\ MapThenSumSet(LAMBDA i : source[i].amount, paidOut) = receivable.paid

(* A wallet has at most one live borrower, though bootstrap and onboarding  *)
(* look for it under different locks (uq_borrower_wallets_active).          *)
WalletOneBorrower == \A r, q \in LiveRows : r = q
=============================================================================
