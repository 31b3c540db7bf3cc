----------------------------- MODULE MCServices -----------------------------
(***************************************************************************)
(* The services around the credit core checked together: the product API,  *)
(* the partner actions, the control monitor, the native import and the two *)
(* Bitcoin relayers share no table that matters here, so a behaviour of    *)
(* this model runs one of them, chosen at the start.                       *)
(***************************************************************************)
EXTENDS ApiAccess, PartnerActions, ControlMonitor, NativeImport, SpvRelay, SigRelay

VARIABLE service

ServiceNames == {"api", "partner", "monitor", "import", "spv", "sig"}

InitOf(names) ==
    /\ service \in names
    /\ AccessInit /\ PartnerInit /\ MonitorInit /\ ImportInit /\ SpvInit /\ SigInit
    /\ service # "api" => ~review.blocking
    /\ service # "monitor" => world = {}

Others(name) ==
    /\ service = name /\ UNCHANGED service
    /\ name # "api" => UNCHANGED accessVars
    /\ name # "partner" => UNCHANGED partnerVars
    /\ name # "monitor" => UNCHANGED monitorVars
    /\ name # "import" => UNCHANGED importVars
    /\ name # "spv" => UNCHANGED spvVars
    /\ name # "sig" => UNCHANGED sigVars

Next ==
    \/ Others("api") /\ AccessNext
    \/ Others("partner") /\ PartnerNext
    \/ Others("monitor") /\ MonitorNext
    \/ Others("import") /\ ImportNext
    \/ Others("spv") /\ SpvNext
    \/ Others("sig") /\ SigNext

vars == <<accessVars, partnerVars, monitorVars, importVars, spvVars, sigVars, service>>

Spec == InitOf(ServiceNames) /\ [][Next]_vars

SpvSpec == InitOf({"spv"}) /\ [][Next]_vars

-----------------------------------------------------------------------------
(* Bounds *)

LoggingIn ==
    \/ challenges # <<>>
    \/ \E x \in Replicas : request[x].step \in {"taken", "roles", "epochs"}
Acting == \E x \in Replicas : request[x].step \in {"action", "deciding"}
Listing == \E x \in Replicas : request[x].step = "listing"
Onboarded == \A k \in DOMAIN command : k[2] = "onboarding"
RegistryQuiet == \A r \in StaffRoles : roleEpoch[r] = 0
Concerned ==
    {w \in Wallets : held[w] # {}} \cup {c.wallet : c \in sessions}
        \cup {challenges[n].wallet : n \in DOMAIN challenges}

(* Bound: a behaviour logs in, acts or lists; roles are rotated and time   *)
(* passes while one wallet is concerned; two sessions only while no        *)
(* borrower has been onboarded.                                            *)
AccessBounded ==
    /\ command # <<>> \/ Acting \/ Listing => RegistryQuiet /\ clock = 0
    /\ LoggingIn => ~Acting /\ ~Listing /\ Onboarded
    /\ LoggingIn /\ command # <<>> => \A x \in Replicas : request[x].step # "principal"
    /\ imported # {} \/ Listing =>
           command = <<>> /\ \A x \in Replicas : request[x].step \in {"listing", "idle"}
    /\ imported # {} => Listing
    /\ ~RegistryQuiet => Cardinality(Concerned) <= 1 /\ clock = 0
    /\ clock > 0 => Cardinality(Concerned) <= 1
    /\ Cardinality(sessions) > 1 => RegistryQuiet /\ challenges = <<>> /\ borrowers = 0

(* Bound: one permission, deadline or release is withdrawn; beside an      *)
(* action that is run three times the other is run once.                   *)
PartnerBounded ==
    /\ Cardinality(Operations \ scope) + Cardinality(PartnerActionIds \ due)
           + (IF releasable THEN 0 ELSE 1) <= 1
    /\ \A a, b \in DOMAIN actionJob :
           a # b /\ actionJob[a].runs = MaxRuns => actionJob[b].runs <= 1

(* Bound: two troubles at once, of these four, and one once it is settled; *)
(* the clock moves while the facility runs, with one case.                 *)
MonitorBounded ==
    /\ world \subseteq {"bypass", "cursor", "cash", "noAgreement"}
    /\ Cardinality(world) <= 2
    /\ settled => Cardinality(world) <= 1
    /\ ticks > 0 => ~settled /\ Cardinality(DOMAIN cases) <= 1

BootedOnce == [f \in {CHOOSE f \in NativeFacilities : TRUE} |-> 0]

(* Bound: the source speaks once one facility is set up. *)
ImportBounded ==
    /\ source # <<>> =>
           /\ snapshot = BootedOnce /\ boot = None /\ applicant = None
           /\ \A f \in NativeFacilities : debtNow[f] = 0
           /\ walletRows = {[borrower |-> "canonical", live |-> TRUE]}
    /\ Cardinality(DOMAIN source \ files) <= 1
    /\ Len(intake) - finalized <= 2

Reorganised == found > Len(chain)

(* Bound: two checkpoints; with a reorganisation, one transaction, one     *)
(* checkpoint and one payout on the chain; two transactions are of one     *)
(* payout; the payouts are in one block.                                   *)
SpvBounded ==
    /\ Cardinality(DOMAIN checkpoints) <= 2
    /\ Reorganised => /\ Len(flight) <= 1 /\ Cardinality(DOMAIN checkpoints) <= 1
                      /\ \A h \in DOMAIN chain : Len(chain[h].txs) <= 2
    /\ Len(flight) = 2 => flight[1].proof.payout = flight[2].proof.payout
    /\ Cardinality({h \in DOMAIN chain : Len(chain[h].txs) > 1}) <= 1
    /\ (\E h \in DOMAIN chain : Len(chain[h].txs) > 2) =>
           Len(flight) <= 1 /\ Cardinality(DOMAIN checkpoints) <= 1

Bounded ==
    AccessBounded /\ PartnerBounded /\ MonitorBounded /\ ImportBounded /\ SpvBounded

Turn(S, swap) == CHOOSE f \in Permutations(S) : \A v \in S : (f[v] # v) <=> swap

(* A behaviour moves one service, so the twins of all of them are swapped  *)
(* together.                                                               *)
Alike ==
    {Turn(Wallets, a) @@ Turn(Replicas, b) @@ Turn(PartnerWorkers, b) @@ Turn(Monitors, b)
         @@ Turn(Payouts, b) @@ Turn(SigRelayers, b) @@ Turn(Outputs, a) :
         a, b \in BOOLEAN}

-----------------------------------------------------------------------------
(* Import: what the import wrote is the canonical history of the source    *)
(* chain, and a live wallet belongs to one borrower.                       *)
ImportKept == ImportedIsCanonical /\ WalletOneBorrower
=============================================================================
