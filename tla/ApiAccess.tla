----------------------------- MODULE ApiAccess -----------------------------
(***************************************************************************)
(* The product API (offchain/api/hashcredit_api/gpu): login challenges,    *)
(* bearer sessions checked against live roles and wallet links, commands   *)
(* with idempotency keys, reviews of exception cases, and paged reads.     *)
(* Several replicas share the database; each read of the role registry is  *)
(* a transaction of its own, so grants, revocations and releases fall      *)
(* between any two of them.                                                *)
(***************************************************************************)
EXTENDS Integers, FiniteSets

CONSTANTS
    Wallets,
    StaffRoles,         \* non-borrower roles in use
    Exclusive,          \* roles no wallet holds two of
    OperationRoles,     \* roles admitted to the operations resource
    Replicas,           \* requests in flight
    CommandKeys,        \* idempotency keys
    Bodies,             \* distinguishable command inputs
    Rows,               \* receivables, numbered in key order
    MaxNonces, MaxEpoch, MaxTime, MaxVersion, MaxBorrowers,     \* bounds
    ChallengeTtl, SessionTtl, PageLimit

NoBorrower == 0
NoReplica == "none"

ASSUME AccessConstants == NoReplica \notin Replicas

IdleRequest == [step |-> "idle"]

VARIABLES
    challenges,     \* api_login_challenges: nonce -> row
    dealt,          \* nonces drawn so far; a drawn nonce is never drawn again
    sessions,       \* tokens handed out (bearers keep them)
    held,           \* roles of each wallet
    roleEpoch,      \* revocation epoch of each role
    linked,         \* borrower of each wallet, live
    borrowers,      \* borrower ids created
    request,        \* request of each replica
    walletLock,     \* advisory lock of each wallet
    caseLock,       \* row lock of the exception case
    command,        \* api_commands: key -> row
    review,         \* operation_reviews row of the case
    retryable,      \* the case's proof job is FAILED or DEAD and may be retried
    imported,       \* receivables with a ledger row
    effects,        \* history variable: effects committed
    clock

accessVars == <<challenges, dealt, sessions, held, roleEpoch, linked, borrowers, request, walletLock,
                caseLock, command, review, retryable, imported, effects, clock>>

registryVars == <<held, roleEpoch, linked, borrowers>>
commandVars == <<walletLock, caseLock, command, review, retryable, effects>>

AccessInit ==
    /\ challenges = <<>> /\ dealt = 0 /\ sessions = {} /\ command = <<>> /\ effects = {}
    /\ held = [w \in Wallets |-> {}]
    /\ roleEpoch = [r \in StaffRoles |-> 0]
    /\ linked = [w \in Wallets |-> NoBorrower] /\ borrowers = 0
    /\ request = [x \in Replicas |-> IdleRequest]
    /\ walletLock = [w \in Wallets |-> NoReplica] /\ caseLock = NoReplica
    /\ \E b \in BOOLEAN : review = [version |-> 0, state |-> "OPEN", resolved |-> FALSE, blocking |-> b]
    /\ retryable = TRUE
    /\ imported = {}
    /\ clock = 0

Goto(x, r) == request' = [request EXCEPT ![x] = r]

-----------------------------------------------------------------------------
(* Login *)

Unexpired(rows) == {n \in DOMAIN rows : rows[n].expires > clock}

Challenge(w) == [wallet |-> w, expires |-> clock + ChallengeTtl]

(* put: expired challenges are swept in the same transaction *)
PutChallenge(w) ==
    /\ dealt < MaxNonces /\ dealt' = dealt + 1
    /\ challenges' = [n \in Unexpired(challenges) \cup {dealt + 1} |->
                        IF n > dealt THEN Challenge(w) ELSE challenges[n]]
    /\ UNCHANGED <<sessions, registryVars, request, commandVars, imported, clock>>

Without(n) == [m \in DOMAIN challenges \ {n} |-> challenges[m]]

(* take: the row is deleted and returned in one statement.  A challenge     *)
(* that is expired, of another wallet, or whose signature is refused is     *)
(* gone all the same.                                                       *)
TakeChallenge(x, n, w, signed) ==
    /\ request[x] = IdleRequest /\ n \in DOMAIN challenges
    /\ challenges' = Without(n)
    /\ IF challenges[n].expires > clock /\ challenges[n].wallet = w /\ signed
       THEN Goto(x, [step |-> "taken", wallet |-> w, nonce |-> n])
       ELSE UNCHANGED request
    /\ UNCHANGED <<dealt, sessions, registryVars, commandVars, imported, clock>>

RolesOf(w) == held[w]
BorrowerOf(w) == linked[w]

LoginRoles(x) ==
    /\ request[x].step = "taken"
    /\ Goto(x, [step |-> "roles", wallet |-> request[x].wallet, nonce |-> request[x].nonce,
                roles |-> RolesOf(request[x].wallet)])
    /\ UNCHANGED <<challenges, dealt, sessions, registryVars, commandVars, imported, clock>>

LoginLink(x) ==
    /\ request[x].step = "roles"
    /\ Goto(x, [step |-> "epochs", wallet |-> request[x].wallet, nonce |-> request[x].nonce,
                roles |-> request[x].roles, borrower |-> BorrowerOf(request[x].wallet), epochs |-> <<>>])
    /\ UNCHANGED <<challenges, dealt, sessions, registryVars, commandVars, imported, clock>>

LoginEpoch(x, r) ==
    /\ request[x].step = "epochs"
    /\ r \in request[x].roles \ DOMAIN request[x].epochs
    /\ Goto(x, [request[x] EXCEPT !.epochs = [q \in DOMAIN @ \cup {r} |-> IF q = r THEN roleEpoch[r] ELSE @[q]]])
    /\ UNCHANGED <<challenges, dealt, sessions, registryVars, commandVars, imported, clock>>

(* The token carries what was read; atIssue is the registry at that moment. *)
SessionOf(x) ==
    [nonce |-> request[x].nonce, replica |-> x, wallet |-> request[x].wallet, roles |-> request[x].roles,
     borrower |-> request[x].borrower, epochs |-> request[x].epochs, expires |-> clock + SessionTtl,
     atIssue |-> roleEpoch]

IssueSession(x) ==
    /\ request[x].step = "epochs" /\ DOMAIN request[x].epochs = request[x].roles
    /\ sessions' = sessions \cup {SessionOf(x)}
    /\ Goto(x, IdleRequest)
    /\ UNCHANGED <<challenges, dealt, registryVars, commandVars, imported, clock>>

-----------------------------------------------------------------------------
(* Role registry and wallet links *)

Grant(w, r) ==
    /\ r \notin held[w]
    /\ r \in Exclusive => (held[w] \cap Exclusive) \ {r} = {}
    /\ held' = [held EXCEPT ![w] = @ \cup {r}]
    /\ UNCHANGED <<challenges, dealt, sessions, roleEpoch, linked, borrowers, request, commandVars, imported, clock>>

Revoke(w, r) ==
    /\ roleEpoch[r] < MaxEpoch
    /\ held' = [held EXCEPT ![w] = @ \ {r}]
    /\ roleEpoch' = [roleEpoch EXCEPT ![r] = @ + 1]
    /\ UNCHANGED <<challenges, dealt, sessions, linked, borrowers, request, commandVars, imported, clock>>

Rotate(r) ==
    /\ roleEpoch[r] < MaxEpoch
    /\ roleEpoch' = [roleEpoch EXCEPT ![r] = @ + 1]
    /\ UNCHANGED <<challenges, dealt, sessions, held, linked, borrowers, request, commandVars, imported, clock>>

ReleaseWallet(w) ==
    /\ linked[w] # NoBorrower
    /\ linked' = [linked EXCEPT ![w] = NoBorrower]
    /\ UNCHANGED <<challenges, dealt, sessions, held, roleEpoch, borrowers, request, commandVars, imported, clock>>

-----------------------------------------------------------------------------
(* current_principal: live roles, then the epoch of each, then the link *)

Present(x, s) ==
    /\ request[x] = IdleRequest /\ s.expires > clock
    /\ IF s.roles \subseteq RolesOf(s.wallet)
       THEN Goto(x, [step |-> "checking", token |-> s, checked |-> {}, since |-> roleEpoch])
       ELSE UNCHANGED request
    /\ UNCHANGED <<challenges, dealt, sessions, registryVars, commandVars, imported, clock>>

HeldSuffices(x, r) == TRUE      \* mutant: holding the role is enough

EpochHolds(x, r) == roleEpoch[r] = request[x].token.epochs[r]

CheckEpoch(x, r) ==
    /\ request[x].step = "checking" /\ r \in request[x].token.roles \ request[x].checked
    /\ Goto(x, IF EpochHolds(x, r) THEN [request[x] EXCEPT !.checked = @ \cup {r}] ELSE IdleRequest)
    /\ UNCHANGED <<challenges, dealt, sessions, registryVars, commandVars, imported, clock>>

Principal(x) ==
    [step |-> "principal", token |-> request[x].token, since |-> request[x].since,
     borrower |-> BorrowerOf(request[x].token.wallet)]

(* A session without a borrower may meanwhile have one; the other way round *)
(* the link must be the same.                                               *)
CheckLink(x) ==
    LET s == request[x].token IN
    /\ request[x].step = "checking" /\ request[x].checked = s.roles
    /\ Goto(x, IF s.borrower # NoBorrower /\ BorrowerOf(s.wallet) # s.borrower THEN IdleRequest ELSE Principal(x))
    /\ UNCHANGED <<challenges, dealt, sessions, registryVars, commandVars, imported, clock>>

WalletOf(x) == request[x].token.wallet

IsBorrower(x) == request[x].token.borrower # NoBorrower /\ request[x].borrower # NoBorrower

-----------------------------------------------------------------------------
(* execute: one transaction under the wallet's advisory lock.  A key seen   *)
(* before answers what it answered, or refuses another input.               *)

CommandRow(x, scope, key) == <<WalletOf(x), scope, key>>

AnyKeyFresh(x, scope, key) == TRUE      \* mutant: the key is not looked up

Fresh(x, scope, key) == CommandRow(x, scope, key) \notin DOMAIN command

RecordCommand(x, scope, key, body) ==
    command' = [row \in DOMAIN command \cup {CommandRow(x, scope, key)} |->
                  IF row = CommandRow(x, scope, key) THEN body ELSE command[row]]

Unlocked(x) == request[x].step = "principal" /\ walletLock[WalletOf(x)] = NoReplica

Replay(x, scope, key) ==
    /\ Unlocked(x) /\ ~Fresh(x, scope, key)
    /\ Goto(x, IdleRequest)
    /\ UNCHANGED <<challenges, dealt, sessions, registryVars, commandVars, imported, clock>>

(* An effect remembers what it was decided on. *)
Effect(kind, x, scope, key, on) ==
    effects' = effects \cup {[kind |-> kind, row |-> CommandRow(x, scope, key), replica |-> x, on |-> on]}

(* onboard: a wallet with a live link keeps its borrower *)
Onboard(x, key, body) ==
    LET w == WalletOf(x) IN
    /\ Unlocked(x) /\ Fresh(x, "onboarding", key)
    /\ linked[w] = NoBorrower => borrowers < MaxBorrowers
    /\ IF linked[w] # NoBorrower THEN UNCHANGED <<borrowers, linked, effects>>
       ELSE /\ borrowers' = borrowers + 1
            /\ linked' = [linked EXCEPT ![w] = borrowers + 1]
            /\ Effect("borrower", x, "onboarding", key, borrowers + 1)
    /\ RecordCommand(x, "onboarding", key, body)
    /\ Goto(x, IdleRequest)
    /\ UNCHANGED <<challenges, dealt, sessions, held, roleEpoch, walletLock, caseLock, review, retryable, imported, clock>>

(* connect: one application per borrower and account, whatever the key *)
Connect(x, key, body) ==
    /\ Unlocked(x) /\ Fresh(x, "connections", key) /\ IsBorrower(x)
    /\ IF \E e \in effects : e.kind = "application" /\ e.on = <<request[x].borrower, body>> THEN UNCHANGED effects
       ELSE Effect("application", x, "connections", key, <<request[x].borrower, body>>)
    /\ RecordCommand(x, "connections", key, body)
    /\ Goto(x, IdleRequest)
    /\ UNCHANGED <<challenges, dealt, sessions, registryVars, walletLock, caseLock, review, retryable, imported, clock>>

(* action: the wallet's lock, the case's row lock, then the decision *)
OpenAction(x, key, act, expected) ==
    /\ Unlocked(x) /\ Fresh(x, "operations", key)
    /\ request[x].token.roles \cap OperationRoles # {}
    /\ walletLock' = [walletLock EXCEPT ![WalletOf(x)] = x]
    /\ Goto(x, [step |-> "action", token |-> request[x].token, since |-> request[x].since, borrower |-> request[x].borrower,
                key |-> key, act |-> act, expected |-> expected])
    /\ UNCHANGED <<challenges, dealt, sessions, registryVars, caseLock, command, review, retryable, imported, effects, clock>>

CaseFree == caseLock = NoReplica

LockCase(x) ==
    /\ request[x].step = "action" /\ CaseFree
    /\ caseLock' = x
    /\ Goto(x, [step |-> "deciding", token |-> request[x].token, since |-> request[x].since, borrower |-> request[x].borrower,
                key |-> request[x].key, act |-> request[x].act, expected |-> request[x].expected, read |-> review])
    /\ UNCHANGED <<challenges, dealt, sessions, registryVars, walletLock, command, review, retryable, imported, effects, clock>>

Reviewed == [assign |-> "ASSIGNED", acknowledge |-> "ACKNOWLEDGED", retry |-> "RETRY_REQUESTED", resolve |-> "RESOLVED"]

Decidable(x) ==
    /\ request[x].read.version = request[x].expected
    /\ ~request[x].read.resolved
    /\ request[x].act = "retry" => retryable
    /\ request[x].act = "resolve" => ~request[x].read.blocking

(* A refusal rolls the transaction back; otherwise the review, the job, the *)
(* audit entry and the command row are committed together.                  *)
Decide(x) ==
    LET was == request[x].read IN
    /\ request[x].step = "deciding"
    /\ IF Decidable(x)
       THEN /\ was.version < MaxVersion
            /\ review' = [was EXCEPT !.version = @ + 1, !.state = Reviewed[request[x].act],
                                     !.resolved = request[x].act = "resolve"]
            /\ retryable' = IF request[x].act = "retry" THEN FALSE ELSE retryable
            /\ Effect("review", x, "operations", request[x].key, was.version)
            /\ RecordCommand(x, "operations", request[x].key, request[x].act)
       ELSE UNCHANGED <<review, retryable, effects, command>>
    /\ walletLock' = [walletLock EXCEPT ![WalletOf(x)] = NoReplica]
    /\ caseLock' = NoReplica
    /\ Goto(x, IdleRequest)
    /\ UNCHANGED <<challenges, dealt, sessions, registryVars, imported, clock>>

(* The retried job fails again (jobs/queue.py). *)
JobFails ==
    /\ ~retryable /\ retryable' = TRUE
    /\ UNCHANGED <<challenges, dealt, sessions, registryVars, request, walletLock, caseLock, command, review, imported, effects, clock>>

(* A replica that dies takes its request with it; its transaction is rolled *)
(* back and its locks are released.                                         *)
ReplicaCrash(x) ==
    /\ request[x] # IdleRequest
    /\ Goto(x, IdleRequest)
    /\ walletLock' = [w \in Wallets |-> IF walletLock[w] = x THEN NoReplica ELSE walletLock[w]]
    /\ caseLock' = IF caseLock = x THEN NoReplica ELSE caseLock
    /\ UNCHANGED <<challenges, dealt, sessions, registryVars, command, review, retryable, imported, effects, clock>>

-----------------------------------------------------------------------------
(* Paged history: ledger rows sort before projected rows, and a projected   *)
(* row covered by a ledger row is left out.                                 *)

Covered(row) == row \in imported

History == {<<0, r>> : r \in imported} \cup {<<1, r>> : r \in {q \in Rows : ~Covered(q)}}

Before(a, b) == a[1] < b[1] \/ (a[1] = b[1] /\ a[2] < b[2])

Page(last) ==
    LET rest == {k \in History : Before(last, k)} IN
    {k \in rest : Cardinality({j \in rest : Before(j, k)}) < PageLimit}

(* Reads need a borrower's link or a staff scope. *)
ListPage(x) ==
    /\ request[x].step = "principal" /\ (IsBorrower(x) \/ request[x].token.roles \cap StaffRoles # {})
    /\ Goto(x, [step |-> "listing", token |-> request[x].token, since |-> request[x].since, borrower |-> request[x].borrower,
                seen |-> Page(<<0, 0>>)])
    /\ UNCHANGED <<challenges, dealt, sessions, registryVars, commandVars, imported, clock>>

NextPage(x) ==
    /\ request[x].step = "listing"
    /\ \E last \in request[x].seen :
        /\ \A k \in request[x].seen : ~Before(last, k)
        /\ Goto(x, IF Page(last) = {} THEN IdleRequest ELSE [request[x] EXCEPT !.seen = @ \cup Page(last)])
    /\ UNCHANGED <<challenges, dealt, sessions, registryVars, commandVars, imported, clock>>

(* The import (backfill_native.py) writes a row that was only projected. *)
Import(r) ==
    /\ r \notin imported /\ imported' = imported \cup {r}
    /\ UNCHANGED <<challenges, dealt, sessions, registryVars, request, commandVars, clock>>

PassTime ==
    /\ clock < MaxTime /\ clock' = clock + 1
    /\ UNCHANGED <<challenges, dealt, sessions, registryVars, request, commandVars, imported>>

AccessNext ==
    \/ \E w \in Wallets : PutChallenge(w)
    \/ \E x \in Replicas, n \in 1..MaxNonces, w \in Wallets, ok \in BOOLEAN : TakeChallenge(x, n, w, ok)
    \/ \E x \in Replicas : LoginRoles(x) \/ LoginLink(x) \/ IssueSession(x) \/ CheckLink(x) \/ LockCase(x) \/ Decide(x)
                             \/ ReplicaCrash(x) \/ ListPage(x) \/ NextPage(x)
    \/ \E x \in Replicas, r \in StaffRoles : LoginEpoch(x, r) \/ CheckEpoch(x, r)
    \/ \E w \in Wallets, r \in StaffRoles : Grant(w, r) \/ Revoke(w, r)
    \/ \E r \in StaffRoles : Rotate(r)
    \/ \E w \in Wallets : ReleaseWallet(w)
    \/ \E x \in Replicas, s \in sessions : Present(x, s)
    \/ \E x \in Replicas, scope \in {"onboarding", "connections", "operations"}, k \in CommandKeys : Replay(x, scope, k)
    \/ \E x \in Replicas, k \in CommandKeys, b \in Bodies : Onboard(x, k, b) \/ Connect(x, k, b)
    \/ \E x \in Replicas, k \in CommandKeys, a \in DOMAIN Reviewed, v \in 0..MaxVersion : OpenAction(x, k, a, v)
    \/ JobFails
    \/ \E r \in Rows : Import(r)
    \/ PassTime

-----------------------------------------------------------------------------
(* One challenge, one session: two replicas that verify the same nonce at   *)
(* once never both issue (auth/database.py take).                           *)
SessionPerChallenge == \A s, t \in sessions : s.nonce = t.nonce => s = t

(* A role revoked or rotated after a session was issued ends it: no request *)
(* that came in later acts under that role, even if the wallet was granted  *)
(* it again, and whatever was read in which order at login                  *)
(* (permissions/deps.py current_principal).                                 *)
RevocationEnds ==
    \A x \in Replicas : request[x].step \in {"principal", "action", "deciding", "listing"} =>
        \A r \in request[x].token.roles : request[x].since[r] <= request[x].token.atIssue[r]

(* Commands of a wallet have one effect per key, a review version is        *)
(* decided once whoever decides it, and a borrower's application for an     *)
(* account exists once (product/commands.py execute, action).               *)
EffectsOnce ==
    \A e, f \in effects : e # f =>
        /\ e.row # f.row
        /\ e.kind = f.kind => e.on # f.on

(* A listing shows no receivable twice while imports move rows from the     *)
(* projection to the ledger (product/repository.py history).                *)
ListedOnce ==
    \A x \in Replicas : request[x].step = "listing" =>
        \A k, j \in request[x].seen : k[2] = j[2] => k = j

(* Access: a login challenge makes one session at most, and a session      *)
(* whose role was revoked or rotated authorises nothing begun afterwards.  *)
AccessKept == SessionPerChallenge /\ RevocationEnds

(* Commands: a command key has one effect whichever replica it reaches and *)
(* however often it is sent, and a listing shows no row twice.             *)
CommandsKept == EffectsOnce /\ ListedOnce
=============================================================================
