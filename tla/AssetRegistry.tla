---------------------------- MODULE AssetRegistry ----------------------------
(***************************************************************************)
(* Financed devices and provider accounts                                  *)
(* (offchain/gpu/hashcredit_gpu/assets): identity keys with lifetimes, MIG *)
(* partitions, provider assignments, RMA replacement, ownership review,    *)
(* encumbrances, eligibility, and the link of an account to its borrower.  *)
(* Each call is one transaction of its caller.                             *)
(***************************************************************************)
EXTENDS Naturals, FiniteSets, Sequences

CONSTANTS
    MaxAssets,      \* bound: gpu_assets rows
    Keys,           \* identity keys: (scheme, value)
    Accounts,       \* provider accounts
    FacilityIds,
    Borrowers,
    Roles,          \* who calls
    Verdicts,       \* ownership verdicts: [review, ownership]
    RightKinds,     \* third parties' rights
    DocKinds,       \* custody documents
    MaxFlags        \* bound: open review flags of an asset

ASSUME AssetConstants == "third party" \notin FacilityIds

VARIABLES
    asset,          \* gpu_assets: id -> row
    active,         \* asset_identity_keys not retired: key -> asset
    assigned,       \* open asset_provider_assignments: asset -> account
    flags,          \* open asset_review_flags: asset -> how many
    liens,          \* open asset_encumbrances: [asset, holder, kind]
    docs,           \* custody_documents: <<asset, kind>>
    owner,          \* provider_accounts.borrower_id
    link            \* live provider_account_links: account -> [borrower, state]

assetVars == <<asset, active, assigned, flags, liens, docs, owner, link>>

registry == <<asset, active, assigned, flags, liens, docs>>

-----------------------------------------------------------------------------
RegisterRoles == {"OPERATOR", "SYSTEM"}

ReviewRoles == {"UNDERWRITER"}

ReleaseRoles == {"UNDERWRITER", "OPERATOR"}

ThirdPartyKinds == {"LIEN", "PLEDGE", "ASSIGNMENT"}

NoParent == 0

NoAccount == "none"

NewAsset(kind, parent, ownership, review) ==
    [kind |-> kind, parent |-> parent, status |-> "ACTIVE", ownership |-> ownership,
     review |-> review, eligible |-> FALSE]

Registered == DOMAIN asset

Fresh == Len(asset) + 1        \* the next row's id

Room == Fresh <= MaxAssets

ActiveKeys(a) == {k \in DOMAIN active : active[k] = a}

Dropped(f, keys) == [k \in DOMAIN f \ keys |-> f[k]]

Stored(f, keys, a) == [k \in keys \cup DOMAIN f |-> IF k \in keys THEN a ELSE f[k]]

FacilityLiens(a) == {l \in liens : l.asset = a /\ l.holder \in FacilityIds}

FinancedBy(a) == {l.holder : l \in FacilityLiens(a)}

(* raise_flag: the asset also stops being eligible. *)
RaiseFlag(a) ==
    /\ flags[a] < MaxFlags
    /\ flags' = [flags EXCEPT ![a] = @ + 1]
    /\ asset' = [asset EXCEPT ![a].eligible = FALSE]

-----------------------------------------------------------------------------
AssetsInit ==
    /\ asset = <<>> /\ active = <<>> /\ assigned = <<>> /\ flags = <<>>
    /\ liens = {} /\ docs = {}
    /\ owner \in [Accounts -> Borrowers]
    /\ link = <<>>

(* register_asset: a key that is active on an asset flags that one instead. *)
RegisterAsset(by, keys, account) ==
    /\ by \in RegisterRoles
    /\ keys # {}
    /\ \/ \E k \in keys \cap DOMAIN active :
             /\ RaiseFlag(active[k])
             /\ UNCHANGED <<active, assigned>>
       \/ /\ keys \cap DOMAIN active = {}
          /\ Room
          /\ asset' = Append(asset, NewAsset("PHYSICAL_GPU", NoParent, "UNKNOWN", "UNVERIFIED"))
          /\ flags' = Append(flags, 0)
          /\ active' = Stored(active, keys, Fresh)
          /\ assigned' = IF account = NoAccount THEN assigned ELSE Stored(assigned, {Fresh}, account)
    /\ UNCHANGED <<liens, docs, owner, link>>

RegisterPartition(by, parent, keys) ==
    /\ by \in RegisterRoles
    /\ Room
    /\ asset[parent].kind = "PHYSICAL_GPU" /\ asset[parent].status = "ACTIVE"
    /\ keys \cap DOMAIN active = {}
    /\ asset' = Append(asset, NewAsset("MIG_PARTITION", parent, asset[parent].ownership, "UNVERIFIED"))
    /\ flags' = Append(flags, 0)
    /\ active' = Stored(active, keys, Fresh)
    /\ UNCHANGED <<assigned, liens, docs, owner, link>>

(* assign_provider: an asset live on another account is flagged. *)
AssignProvider(by, a, account) ==
    /\ by \in RegisterRoles
    /\ asset[a].status = "ACTIVE"
    /\ \/ /\ a \notin DOMAIN assigned
          /\ assigned' = Stored(assigned, {a}, account)
          /\ UNCHANGED <<asset, flags>>
       \/ /\ a \in DOMAIN assigned /\ assigned[a] # account
          /\ RaiseFlag(a)
          /\ UNCHANGED assigned
    /\ UNCHANGED <<active, liens, docs, owner, link>>

EndAssignment(by, a) ==
    /\ by \in RegisterRoles
    /\ a \in DOMAIN assigned
    /\ assigned' = Dropped(assigned, {a})
    /\ UNCHANGED <<asset, active, flags, liens, docs, owner, link>>

(* change_identity_key: `old' has the key to retire, or nothing. *)
ChangeIdentityKey(by, a, old, new) ==
    /\ by \in RegisterRoles
    /\ asset[a].status = "ACTIVE"
    /\ Cardinality(old) <= 1 /\ old \subseteq ActiveKeys(a)
    /\ new \notin DOMAIN active \ old
    /\ active' = Stored(Dropped(active, old), {new}, a)
    /\ UNCHANGED <<asset, assigned, flags, liens, docs, owner, link>>

(* carry_over: the lien is released on the old asset and opened on the new. *)
CarriedOver(a, new) ==
    {IF l \in FacilityLiens(a) THEN [l EXCEPT !.asset = new] ELSE l : l \in liens}

(* replace_asset (RMA): named keys move, the others are retired, the        *)
(* assignment and a facility's lien follow the replacement.  Flags,         *)
(* third-party rights and the place under a parent do not.  (A caller that  *)
(* does not carry the lien over is refused.)                                *)
ReplaceAsset(by, a, moved, fresh) ==
    /\ by \in RegisterRoles
    /\ asset[a].status = "ACTIVE" /\ Room
    /\ moved \subseteq ActiveKeys(a)
    /\ fresh \cap DOMAIN active = {}
    /\ asset' = Append([asset EXCEPT ![a].status = "RETIRED", ![a].eligible = FALSE],
                       NewAsset(asset[a].kind, NoParent, asset[a].ownership, asset[a].review))
    /\ flags' = Append(flags, 0)
    /\ active' = Stored(Dropped(active, ActiveKeys(a)), moved \cup fresh, Fresh)
    /\ assigned' = IF a \in DOMAIN assigned THEN Stored(Dropped(assigned, {a}), {Fresh}, assigned[a]) ELSE assigned
    /\ liens' = CarriedOver(a, Fresh)
    /\ UNCHANGED <<docs, owner, link>>

-----------------------------------------------------------------------------
(* Review and rights *)

(* review_ownership; the table refuses a verdict that an eligible asset     *)
(* does not allow.                                                          *)
ReviewOwnership(by, a, verdict) ==
    /\ by \in ReviewRoles
    /\ verdict.review = "VERIFIED" => verdict.ownership # "UNKNOWN"
    /\ asset[a].eligible => verdict.review = "VERIFIED"
    /\ asset' = [asset EXCEPT ![a].review = verdict.review, ![a].ownership = verdict.ownership]
    /\ UNCHANGED <<active, assigned, flags, liens, docs, owner, link>>

ResolveFlag(by, a) ==
    /\ by \in ReviewRoles
    /\ flags[a] > 0
    /\ flags' = [flags EXCEPT ![a] = @ - 1]
    /\ UNCHANGED <<asset, active, assigned, liens, docs, owner, link>>

RecordThirdPartyRight(by, a, kind) ==
    /\ by \in ReviewRoles
    /\ liens' = liens \cup {[asset |-> a, holder |-> "third party", kind |-> kind]}
    /\ RaiseFlag(a)
    /\ UNCHANGED <<active, assigned, docs, owner, link>>

(* attach_document, attach_native_evidence: a reference, no decision. *)
AttachDocument(by, a, kind) ==
    /\ by \in RegisterRoles \cup ReviewRoles
    /\ docs' = docs \cup {<<a, kind>>}
    /\ UNCHANGED <<asset, active, assigned, flags, liens, owner, link>>

(* What eligibility finds against an asset: its own state, others' rights,  *)
(* and its parent and partitions being financed elsewhere.                  *)
OwnState(a) ==
    /\ asset[a].status = "ACTIVE"
    /\ asset[a].review = "VERIFIED"
    /\ asset[a].ownership # "UNKNOWN"
    /\ asset[a].ownership = "LEASED" => <<a, "LEASE_CONSENT">> \in docs
    /\ flags[a] = 0

FreeFor(a, f) ==
    \A l \in liens : l.asset = a =>
        IF l.holder \in FacilityIds THEN l.holder = f ELSE l.kind \notin ThirdPartyKinds

FamilyIgnored(a, f) == TRUE                 \* mutant: only the asset itself is looked at

FamilyFreeFor(a, f) ==
    \A b \in Registered :
        (asset[a].parent = b \/ asset[b].parent = a) => FinancedBy(b) \subseteq {f}

IsEligible(a, f) == OwnState(a) /\ FreeFor(a, f) /\ FamilyFreeFor(a, f)

Eligibility(a, f) ==
    /\ asset' = [asset EXCEPT ![a].eligible = IsEligible(a, f)]
    /\ UNCHANGED <<active, assigned, flags, liens, docs, owner, link>>

AssignToFacility(by, a, f) ==
    /\ by \in ReviewRoles
    /\ IsEligible(a, f)
    /\ FacilityLiens(a) = {}
    /\ asset' = [asset EXCEPT ![a].eligible = TRUE]
    /\ liens' = liens \cup {[asset |-> a, holder |-> f, kind |-> "ASSIGNMENT"]}
    /\ UNCHANGED <<active, assigned, flags, docs, owner, link>>

Release(by, l) ==
    /\ by \in ReviewRoles
    /\ l \in liens
    /\ liens' = liens \ {l}
    /\ UNCHANGED <<asset, active, assigned, flags, docs, owner, link>>

-----------------------------------------------------------------------------
(* Accounts and borrowers *)

LinkAccount(by, account, borrower) ==
    /\ by \in RegisterRoles
    /\ owner[account] = borrower
    /\ account \notin DOMAIN link
    /\ link' = Stored(link, {account}, [borrower |-> borrower, state |-> "REGISTERED"])
    /\ UNCHANGED <<registry, owner>>

ReviewLink(by, account, verdict) ==
    /\ by \in ReviewRoles
    /\ account \in DOMAIN link /\ link[account].state = "REGISTERED"
    /\ link' = [link EXCEPT ![account].state = verdict]
    /\ UNCHANGED <<registry, owner>>

ReleaseLink(by, account) ==
    /\ by \in ReleaseRoles
    /\ account \in DOMAIN link
    /\ link' = Dropped(link, {account})
    /\ UNCHANGED <<registry, owner>>

RelinkAccount(by, account, borrower) ==
    /\ by \in RegisterRoles
    /\ account \notin DOMAIN link
    /\ owner' = [owner EXCEPT ![account] = borrower]
    /\ link' = Stored(link, {account}, [borrower |-> borrower, state |-> "REGISTERED"])
    /\ UNCHANGED registry

-----------------------------------------------------------------------------
RegisterStep(by) ==
    \/ \E keys \in SUBSET Keys, account \in Accounts \cup {NoAccount} : RegisterAsset(by, keys, account)
    \/ \E a \in Registered, keys \in SUBSET Keys : RegisterPartition(by, a, keys)
    \/ \E a \in Registered, account \in Accounts : AssignProvider(by, a, account)
    \/ \E a \in Registered : EndAssignment(by, a)
    \/ \E a \in Registered, old \in SUBSET Keys, new \in Keys : ChangeIdentityKey(by, a, old, new)
    \/ \E a \in Registered, moved, fresh \in SUBSET Keys : ReplaceAsset(by, a, moved, fresh)

ReviewStep(by) ==
    \/ \E a \in Registered, verdict \in Verdicts : ReviewOwnership(by, a, verdict)
    \/ \E a \in Registered : ResolveFlag(by, a)
    \/ \E a \in Registered, kind \in RightKinds : RecordThirdPartyRight(by, a, kind)
    \/ \E a \in Registered, kind \in DocKinds : AttachDocument(by, a, kind)
    \/ \E a \in Registered, f \in FacilityIds : AssignToFacility(by, a, f)
    \/ \E l \in liens : Release(by, l)

LinkStep(by) ==
    \E account \in Accounts :
       \/ \E b \in Borrowers : LinkAccount(by, account, b) \/ RelinkAccount(by, account, b)
       \/ \E verdict \in {"VERIFIED", "REJECTED"} : ReviewLink(by, account, verdict)
       \/ ReleaseLink(by, account)

AssetsNext ==
    \/ \E by \in Roles : RegisterStep(by) \/ ReviewStep(by) \/ LinkStep(by)
    \/ \E a \in Registered, f \in FacilityIds \cup {"none"} : Eligibility(a, f)

-----------------------------------------------------------------------------
(* No device is financed twice (assign_to_facility): an asset has at most   *)
(* one facility, and its partitions and its parent have no other, after any *)
(* order of assignments, releases, partitions and replacements.             *)
FinancedOnce ==
    \A a \in Registered :
       /\ \A f, g \in FinancedBy(a) : f = g
       /\ \A b \in Registered : asset[a].parent = b =>
             \A f \in FinancedBy(a), g \in FinancedBy(b) : f = g

(* A replaced device is inert (replace_asset): no identity key, provider,   *)
(* facility or eligibility stays with it, or comes back to it later.        *)
RetiredInert ==
    \A a \in Registered : asset[a].status = "RETIRED" =>
       /\ ActiveKeys(a) = {} /\ a \notin DOMAIN assigned
       /\ FacilityLiens(a) = {} /\ ~asset[a].eligible

(* A live link names the borrower the account is bound to: an account only  *)
(* changes hands between two links.                                         *)
LinkCurrent == \A c \in DOMAIN link : link[c].borrower = owner[c]

(* Devices: no device is financed by two facilities, alone or through its  *)
(* partitions; a replaced device keeps no key, assignment, lien or         *)
(* eligibility; an account changes hands only between two links.           *)
AssetsKept == FinancedOnce /\ RetiredInert /\ LinkCurrent
=============================================================================
