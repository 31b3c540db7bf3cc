------------------------------ MODULE SigRelay ------------------------------
(***************************************************************************)
(* The signing relayer of offchain/relayer/hashcredit_relayer (relayer.py, *)
(* db.py, evm.py, bitcoin.py, signer.py): it reads the address history of  *)
(* a public Bitcoin API, signs a claim for each confirmed payout with the  *)
(* relayer key and submits it to HashCreditManager behind                  *)
(* RelayerSigVerifier, which trusts the signature.                         *)
(*                                                                         *)
(* Two processes may share the database (a long-running one and one        *)
(* started with --once).  A claim expires an hour after it was signed.     *)
(* One borrower is watched; amounts and the signature are abstracted, a    *)
(* claim is the payout it names.                                           *)
(***************************************************************************)
EXTENDS Integers, Sequences, FiniteSets

CONSTANTS
    Outputs,      \* outputs paying the watched address
    SigRelayers,  \* relayer processes sharing the database
    Confirmations,\* settings.confirmations_required
    MaxDepth,     \* bound: confirmations counted
    MaxClaims     \* bound: claims ever sent

ASSUME SigConstants == Confirmations \in Nat /\ MaxDepth \in Nat /\ MaxClaims \in Nat

VARIABLES
    depth,   \* confirmations of each output's transaction; 0 in the mempool
    counted, \* times the manager counted each payout (processedPayouts)
    claims,  \* EVM transactions sent: [payout, status, expired]
    stored,  \* table processed_payouts, payout :> status
    signer   \* the processes

sigVars == <<depth, counted, claims, stored, signer>>

SigAt(pc, todo, cur, tx) == [pc |-> pc, todo |-> todo, cur |-> cur, tx |-> tx]

SigAtRest == SigAt("wait", {}, "none", 0)

-----------------------------------------------------------------------------
(* The Bitcoin network: a transaction gains confirmations, or its block is *)
(* orphaned while it still has fewer than Confirmations.                   *)
Bury(o) ==
    /\ depth[o] < MaxDepth
    /\ depth' = [depth EXCEPT ![o] = @ + 1]
    /\ UNCHANGED <<counted, claims, stored, signer>>

Unconfirm(o) ==
    /\ depth[o] \in 1..(Confirmations - 1)
    /\ depth' = [depth EXCEPT ![o] = 0]
    /\ UNCHANGED <<counted, claims, stored, signer>>

(* A claim's deadline passes. *)
Expire(i) ==
    /\ claims[i].status = "sent"
    /\ ~claims[i].expired
    /\ claims' = [claims EXCEPT ![i].expired = TRUE]
    /\ UNCHANGED <<depth, counted, stored, signer>>

(* RelayerSigVerifier.verifyPayout and the manager's replay protection. *)
Countable(claim) == ~claim.expired /\ counted[claim.payout] = 0

MineClaim(i) ==
    /\ claims[i].status = "sent"
    /\ IF Countable(claims[i])
       THEN /\ claims' = [claims EXCEPT ![i].status = "ok"]
            /\ counted' = [counted EXCEPT ![claims[i].payout] = @ + 1]
       ELSE /\ claims' = [claims EXCEPT ![i].status = "reverted"]
            /\ UNCHANGED counted
    /\ UNCHANGED <<depth, stored, signer>>

-----------------------------------------------------------------------------
(* HashCreditRelayer *)

(* find_payouts_to_address: all outputs with enough confirmations. *)
FindPayouts == {o \in Outputs : depth[o] >= Confirmations}

Poll(r) ==
    /\ signer[r].pc = "wait"
    /\ FindPayouts # {}
    /\ signer' = [signer EXCEPT ![r] = SigAt("check", FindPayouts, "none", 0)]
    /\ UNCHANGED <<depth, counted, claims, stored>>

(* mark_processed: the row is inserted, or its status overwritten. *)
MarkProcessed(o, status) ==
    stored' = [x \in DOMAIN stored \cup {o} |-> IF x = o THEN status ELSE stored[x]]

IsProcessed(o) == o \in DOMAIN stored

(* A payout with a row, whatever its status, is skipped; one the manager   *)
(* has already is recorded as confirmed; any other is recorded as pending  *)
(* before it is signed.                                                    *)
Check(r, o) ==
    /\ signer[r].pc = "check"
    /\ o \in signer[r].todo
    /\ signer' = [signer EXCEPT ![r].todo = @ \ {o}]
    /\ \/ IsProcessed(o) /\ UNCHANGED stored
       \/ ~IsProcessed(o) /\ counted[o] > 0 /\ MarkProcessed(o, "confirmed")
    /\ UNCHANGED <<depth, counted, claims>>

(* The row was missing and the manager had nothing: mark_processed writes  *)
(* "pending" over whatever another process wrote in between.               *)
Seen(r, o) ==
    /\ signer[r].pc = "check"
    /\ o \in signer[r].todo
    /\ ~IsProcessed(o)
    /\ counted[o] = 0
    /\ signer' = [signer EXCEPT ![r] = SigAt("mark", @.todo \ {o}, o, 0)]
    /\ UNCHANGED <<depth, counted, claims, stored>>

MarkPending(r) ==
    /\ signer[r].pc = "mark"
    /\ MarkProcessed(signer[r].cur, "pending")
    /\ signer' = [signer EXCEPT ![r].pc = "submit"]
    /\ UNCHANGED <<depth, counted, claims>>

UpdateStatus(r, status) ==
    /\ stored' = [stored EXCEPT ![signer[r].cur] = status]
    /\ signer' = [signer EXCEPT ![r] = SigAt("check", @.todo, "none", 0)]

(* submit_payout: looked up once more, then sent; a payout the manager has *)
(* by then, and an RPC error, are both failures.                           *)
SendClaim(r) ==
    /\ signer[r].pc = "submit"
    /\ \/ /\ counted[signer[r].cur] = 0
          /\ Len(claims) < MaxClaims
          /\ claims' = Append(claims, [payout |-> signer[r].cur,
                                       status |-> "sent", expired |-> FALSE])
          /\ signer' = [signer EXCEPT ![r] = SigAt("receipt", @.todo, @.cur, Len(claims) + 1)]
          /\ UNCHANGED stored
       \/ /\ UpdateStatus(r, "failed")
          /\ UNCHANGED claims
    /\ UNCHANGED <<depth, counted>>

AnyReceipt(claim) == "confirmed"    \* mutant: the receipt's status is not read

(* The receipt decides: status 1 is confirmed, anything else failed. *)
Outcome(claim) == IF claim.status = "ok" THEN "confirmed" ELSE "failed"

ReadReceipt(r) ==
    /\ signer[r].pc = "receipt"
    /\ claims[signer[r].tx].status # "sent"
    /\ UpdateStatus(r, Outcome(claims[signer[r].tx]))
    /\ UNCHANGED <<depth, counted, claims>>

(* No receipt within 120 s: failed, although the claim may still be mined. *)
WaitTimeout(r) ==
    /\ signer[r].pc = "receipt"
    /\ claims[signer[r].tx].status = "sent"
    /\ UpdateStatus(r, "failed")
    /\ UNCHANGED <<depth, counted, claims>>

PollDone(r) ==
    /\ signer[r].pc = "check"
    /\ signer[r].todo = {}
    /\ signer' = [signer EXCEPT ![r] = SigAtRest]
    /\ UNCHANGED <<depth, counted, claims, stored>>

SignerCrash(r) ==
    /\ signer[r].pc # "wait"
    /\ signer' = [signer EXCEPT ![r] = SigAtRest]
    /\ UNCHANGED <<depth, counted, claims, stored>>

-----------------------------------------------------------------------------
SigInit ==
    /\ depth = [o \in Outputs |-> 0]
    /\ counted = [o \in Outputs |-> 0]
    /\ claims = <<>>
    /\ stored = [o \in {} |-> "pending"]
    /\ signer = [r \in SigRelayers |-> SigAtRest]

SigNext ==
    \/ \E o \in Outputs : Bury(o) \/ Unconfirm(o)
    \/ \E i \in DOMAIN claims : Expire(i) \/ MineClaim(i)
    \/ \E r \in SigRelayers :
           \/ Poll(r) \/ MarkPending(r) \/ SendClaim(r) \/ ReadReceipt(r)
           \/ WaitTimeout(r) \/ PollDone(r) \/ SignerCrash(r)
           \/ \E o \in Outputs : Check(r, o) \/ Seen(r, o)

-----------------------------------------------------------------------------
(* A row the database calls confirmed was counted by the manager, and no   *)
(* payout is counted twice or before its confirmations, with two processes *)
(* polling, receipts that come late and claims that expire in between.     *)
ConfirmedIsCounted ==
    /\ \A o \in DOMAIN stored : stored[o] = "confirmed" => counted[o] = 1
    /\ \A o \in Outputs : /\ counted[o] <= 1
                          /\ counted[o] = 1 => depth[o] >= Confirmations

=============================================================================
