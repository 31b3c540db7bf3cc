--------------------------- MODULE ControlMonitor ---------------------------
(***************************************************************************)
(* Monitoring of one facility (hashcredit_gpu/monitoring,                  *)
(* prover/gpu/control_monitor.py): findings are assessed from the tables,  *)
(* then recorded as exception cases under the facility's advisory lock.    *)
(* The service and a manual --once run may overlap.  Telemetry cases close *)
(* by themselves; breaches wait for a reviewer.                            *)
(***************************************************************************)
EXTENDS Integers, FiniteSets

CONSTANTS
    Monitors,
    MaxCases,           \* bound: cases opened
    RepeatAfter,        \* ticks after which an alert is repeated
    MaxTicks            \* bound: clock

VARIABLES
    world,          \* what the tables say about the facility
    settled,        \* its finalized projection is terminal
    monitor,        \* what each monitor is doing
    cases,          \* exceptions rows: id -> row
    events,         \* monitor-open and monitor-recovered outbox rows
    lastSent,       \* in-memory alert memory of each monitor
    saw,            \* cursor state each monitor saw last
    ticks

monitorVars == <<world, settled, monitor, cases, events, lastSent, saw, ticks>>

Never == -1

(* assess_facility reads these facts; each is a finding with its category   *)
(* and whether it blocks new draws.                                         *)
Facts == {"control", "observation", "receiver", "bypass", "environment", "pending", "review", "cursor", "cash"}

Finding(code, blocks, category) == [code |-> code, blocks |-> blocks, category |-> category]

FindingOf ==
    [control |-> Finding("CONTROL_NOT_CURRENT", TRUE, "CONTROL"),
     observation |-> Finding("CONTROL_OBSERVATION_STALE", TRUE, "OBSERVABILITY"),
     receiver |-> Finding("CONTROL_RECEIVER_CHANGED", TRUE, "CONTROL"),
     bypass |-> Finding("CONTROL_BYPASS_OBSERVED", TRUE, "CONTROL"),
     environment |-> Finding("NATIVE_ENVIRONMENT_UNAVAILABLE", TRUE, "OBSERVABILITY"),
     pending |-> Finding("NATIVE_PROOF_PENDING", FALSE, "OBSERVABILITY"),
     review |-> Finding("NATIVE_PROOF_REVIEW_REQUIRED", FALSE, "OBSERVABILITY"),
     cursor |-> Finding("PROJECTION_STALE", TRUE, "OBSERVABILITY"),
     cash |-> Finding("UNALLOCATED_CASH_REVIEW", FALSE, "CASH")]

(* Without an agreement only the agreement, the cursor and the cash are     *)
(* looked at.                                                               *)
NeedsAgreement == {"observation", "receiver", "bypass", "environment", "pending", "review"}

Assess == {FindingOf[f] : f \in IF "noAgreement" \in world THEN ({"control"} \cup world) \cap (Facts \ NeedsAgreement)
                                ELSE world \cap Facts}

Waiting == [step |-> "waiting", findings |-> {}]

MonitorInit ==
    /\ world \in {{}, {"noAgreement"}} /\ settled = FALSE
    /\ monitor = [m \in Monitors |-> Waiting]
    /\ cases = <<>> /\ events = {}
    /\ lastSent = [m \in Monitors |-> Never] /\ saw = [m \in Monitors |-> "none"]
    /\ ticks = 0

(* The facility is read, and assessed unless it is terminal. *)
RunMonitor(m) ==
    /\ monitor[m] = Waiting
    /\ monitor' = [monitor EXCEPT ![m] = [step |-> "assessed", findings |-> IF settled THEN {} ELSE Assess]]
    /\ UNCHANGED <<world, settled, cases, events, lastSent, saw, ticks>>

Open(c) == c \in DOMAIN cases /\ cases[c].resolvedBy = "nobody"

Unopened(findings, known) == {f \in findings : \A c \in known : cases[c].code # f.code}

NewCase(f) == [code |-> f.code, severity |-> IF f.blocks THEN "BLOCKING" ELSE "WARNING", category |-> f.category, resolvedBy |-> "nobody"]

AnyRecovered(findings, known) ==        \* mutant: every case closes with its finding
    {c \in known : \A f \in findings : f.code # cases[c].code}

Recovered(findings, known) ==
    {c \in known : cases[c].category = "OBSERVABILITY" /\ \A f \in findings : f.code # cases[c].code}

(* new_ulid: the id of a new case. *)
CaseId(f) == <<f.code, Cardinality(DOMAIN cases)>>

(* record_findings, atomic under the facility's lock: the open cases are    *)
(* read after the lock is taken.                                            *)
KnownCases(m) == {c \in DOMAIN cases : Open(c)}

RecordFindings(m) ==
    LET findings == monitor[m].findings
        fresh == Unopened(findings, KnownCases(m))
        closed == Recovered(findings, KnownCases(m))
    IN
    /\ monitor[m].step = "assessed"
    /\ Cardinality(DOMAIN cases) + Cardinality(fresh) <= MaxCases
    /\ cases' = [c \in DOMAIN cases \cup {CaseId(f) : f \in fresh} |->
                   IF c \in closed THEN [cases[c] EXCEPT !.resolvedBy = "system"]
                   ELSE IF c \in DOMAIN cases THEN cases[c]
                   ELSE NewCase(CHOOSE f \in fresh : CaseId(f) = c)]
    /\ events' = events \cup {<<"open", CaseId(f)>> : f \in fresh} \cup {<<"recovered", c>> : c \in closed}
    /\ monitor' = [monitor EXCEPT ![m] = [step |-> "recorded", findings |-> {}]]
    /\ UNCHANGED <<world, settled, lastSent, saw, ticks>>

(* Alerter.alert: deduplicated per key while the process lives *)
Alert(m, resolved) ==
    lastSent' = [lastSent EXCEPT ![m] = IF resolved THEN Never
                                        ELSE IF @ # Never /\ ticks - @ < RepeatAfter THEN @ ELSE ticks]

(* watch_indexer, then the next round *)
WatchIndexer(m) ==
    /\ monitor[m].step = "recorded"
    /\ saw' = [saw EXCEPT ![m] = IF "cursor" \in world THEN "stale" ELSE "fresh"]
    /\ Alert(m, "cursor" \notin world)
    /\ monitor' = [monitor EXCEPT ![m] = Waiting]
    /\ UNCHANGED <<world, settled, cases, events, ticks>>

(* A database error or a crash loses the transaction; a restart loses the   *)
(* alert memory as well.                                                    *)
MonitorFails(m, restart) ==
    /\ monitor[m] # Waiting
    /\ monitor' = [monitor EXCEPT ![m] = Waiting]
    /\ IF restart THEN lastSent' = [lastSent EXCEPT ![m] = Never] /\ saw' = [saw EXCEPT ![m] = "none"]
       ELSE UNCHANGED <<lastSent, saw>>
    /\ UNCHANGED <<world, settled, cases, events, ticks>>

(* A reviewer closes a case that does not block (product/commands.py). *)
ReviewerResolves(c) ==
    /\ Open(c) /\ cases[c].severity # "BLOCKING"
    /\ cases' = [cases EXCEPT ![c].resolvedBy = "operator"]
    /\ UNCHANGED <<world, settled, monitor, events, lastSent, saw, ticks>>

WorldChanges ==
    /\ \/ \E f \in Facts : world' = (IF f \in world THEN world \ {f} ELSE world \cup {f}) /\ UNCHANGED settled
       \/ ~settled /\ settled' = TRUE /\ UNCHANGED world
    /\ UNCHANGED <<monitor, cases, events, lastSent, saw, ticks>>

TimePasses ==
    /\ ticks < MaxTicks /\ ticks' = ticks + 1
    /\ UNCHANGED <<world, settled, monitor, cases, events, lastSent, saw>>

MonitorNext ==
    \/ \E m \in Monitors : RunMonitor(m) \/ RecordFindings(m) \/ WatchIndexer(m)
    \/ \E m \in Monitors, restart \in BOOLEAN : MonitorFails(m, restart)
    \/ \E c \in DOMAIN cases : ReviewerResolves(c)
    \/ WorldChanges
    \/ TimePasses

-----------------------------------------------------------------------------
(* A finding has one open case however many monitors see it, each case was  *)
(* announced, and a breach is closed only by a reviewer: a monitor that saw *)
(* an older or a terminal facility never closes it (record_findings).       *)
CasesStand ==
    /\ \A c, d \in DOMAIN cases : Open(c) /\ Open(d) /\ cases[c].code = cases[d].code => c = d
    /\ \A c \in DOMAIN cases :
        /\ <<"open", c>> \in events
        /\ cases[c].resolvedBy = "system" => cases[c].category = "OBSERVABILITY"
        /\ cases[c].resolvedBy = "system" <=> <<"recovered", c>> \in events

(* A monitor that last saw the projection stale has told the operators, and *)
(* one that last saw it fresh will tell them again (watch_indexer, alert).  *)
StaleIsTold == \A m \in Monitors : (saw[m] = "stale") <=> (lastSent[m] # Never)

(* Monitoring: a finding has one open case at most, each opening and each  *)
(* automatic recovery is announced, a breach is closed by a reviewer only, *)
(* and a monitor has an alert out exactly while it saw the indexer stale.  *)
CasesKept == CasesStand /\ StaleIsTold
=============================================================================
