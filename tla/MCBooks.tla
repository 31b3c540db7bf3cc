------------------------------- MODULE MCBooks -------------------------------
(***************************************************************************)
(* The off-chain books checked together: ingestion, devices, receivables,  *)
(* settlement legs and cash reports keep tables of their own, so a         *)
(* behaviour of this model moves one of them, chosen at the start.         *)
(***************************************************************************)
EXTENDS Ingestion, AssetRegistry, Receivables, CashBook, CashReports

CONSTANTS i1, i2

VARIABLE book

Books == {"ingestion", "assets", "receivables", "cash", "reports"}

OneOwner == [c \in Accounts |-> CHOOSE b \in Borrowers : TRUE]

Init ==
    /\ book \in Books
    /\ IngestionInit /\ AssetsInit /\ ReceivablesInit /\ CashInit /\ ReportsInit
    /\ book # "assets" => owner = OneOwner

Next ==
    \/ /\ book = "ingestion" /\ IngestionNext
       /\ UNCHANGED <<assetVars, claimVars, cashVars, reportVars, book>>
    \/ /\ book = "assets" /\ AssetsNext
       /\ UNCHANGED <<ingestionVars, claimVars, cashVars, reportVars, book>>
    \/ /\ book = "receivables" /\ ReceivablesNext
       /\ UNCHANGED <<ingestionVars, assetVars, cashVars, reportVars, book>>
    \/ /\ book = "cash" /\ CashNext
       /\ UNCHANGED <<ingestionVars, assetVars, claimVars, reportVars, book>>
    \/ /\ book = "reports" /\ ReportsNext
       /\ UNCHANGED <<ingestionVars, assetVars, claimVars, cashVars, book>>

Spec == Init /\ [][Next]_<<ingestionVars, assetVars, claimVars, cashVars, reportVars, book>>

-----------------------------------------------------------------------------
MCVerdicts ==
    {[review |-> "VERIFIED", ownership |-> "OWNED"], [review |-> "VERIFIED", ownership |-> "LEASED"],
     [review |-> "REJECTED", ownership |-> "UNKNOWN"]}

MCStatements == {<<2, 0, 1>>, <<2, 1, 2>>}

MCLegAmount == [l \in Legs |-> 1]

Event(type, amount, revision) == [type |-> type, amount |-> amount, revision |-> revision]

MCReportable ==
    [obligation |-> Event("OBLIGATION", 3, 1), assignment |-> Event("ASSIGNMENT", 0, 1),
     correction |-> Event("CORRECTION", -1, 2), payout |-> Event("PAYOUT", 2, 1),
     cancellation |-> Event("CANCELLATION", 1, 1), leg |-> Event("LEG", 2, 1),
     receipt |-> Event("DESTINATION_RECEIPT", 2, 1), part |-> Event("ALLOCATION", 1, 1),
     whole |-> Event("ALLOCATION", 2, 1), use |-> Event("DECISION_USE", 0, 1)]

Refetch == <<0, 1>>

AsOfTimes == i1 :> 0 @@ i2 :> 1

Turn(S, swap) == CHOOSE f \in Permutations(S) : \A v \in S : (f[v] # v) <=> swap

(* A behaviour moves one book, so the twins of two of them are swapped     *)
(* together.                                                               *)
Alike ==
    {Turn(Keys, a) @@ Turn(Workers, a) @@ Turn(FacilityIds, b) @@ Turn(CashWorkers, b) :
         a, b \in BOOLEAN}

(* Bound: how many things are out of the ordinary with the devices at once. *)
Oddities ==
    Cardinality(docs)
      + Cardinality({a \in Registered : flags[a] > 0})
      + Cardinality({a \in Registered : asset[a].ownership = "LEASED" \/ asset[a].review = "REJECTED"})

AssetsBounded ==
    /\ asset # <<>> => link = <<>> /\ owner = OneOwner
    /\ Cardinality(DOMAIN assigned) <= 1
    /\ Cardinality(liens) + Oddities <= 2
    /\ Cardinality(DOMAIN active) > 1 \/ assigned # <<>> \/ Cardinality(Registered) > 2 =>
          Cardinality(liens) + Oddities <= 1
    /\ Cardinality(Registered) > 2 => Oddities = 0

(* Observations are interchangeable: they are numbered as they are used. *)
InOrder(used) == used = 1..Cardinality(used)

ReceivablesBounded ==
    /\ InOrder({h.obs : h \in history} \cup {c.entity : c \in {d \in cases : d.code = "REVENUE_INELIGIBLE"}})
    /\ Cardinality(told) + Cardinality({c \in cases : c.entity \notin DOMAIN claim}) <= 2
    /\ Cardinality(cases) <= 1
    /\ Cardinality(DOMAIN claim) > 1 => told = {} /\ decision = NoDecision
    /\ \A r \in DOMAIN claim :
          claim[r].state = "DISPUTED" \/ claim[r].checkpoint \/ decision # NoDecision =>
             Cardinality(told) <= 1

CashBounded == planned # {} => \A x \in Directs : cash[x] = NoCash

ReportsBounded == tx = <<>> \/ reports = <<>>

(* One collector at a time refetches; the other polls. *)
IngestionBounded ==
    Cardinality({w \in Workers : worker[w].pc # "idle" /\ worker[w].stream = "refetch"}) <= 1

Bounded == IngestionBounded /\ AssetsBounded /\ ReceivablesBounded /\ CashBounded /\ ReportsBounded
-----------------------------------------------------------------------------
(* Cash reports: each router repayment is paired with its own receipt and  *)
(* its own debt payment, and repeated reports of one event count once.     *)
ReportsKept == PairingExact /\ CountedOnce
=============================================================================
