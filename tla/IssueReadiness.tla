---------------------------- MODULE IssueReadiness ---------------------------
(***************************************************************************)
(* readiness.py and the selection of frontier.py: from a snapshot of the   *)
(* tracker, and what reviewers recorded, the audit gives every issue a     *)
(* governance and an implementation state, and the frontier picks the one  *)
(* issue to work on next.  People change the tracker one fact at a time;   *)
(* each state of the model is a snapshot that can be audited.              *)
(*                                                                         *)
(* An issue is the facts the audit reads from its body and metadata; which *)
(* words make a fact is not modelled.                                      *)
(***************************************************************************)
EXTENDS TrackerGraph

CONSTANTS
    Issue,      \* issue numbers
    Pull,       \* pull request numbers
    Absent,     \* numbers the snapshot does not have
    Claims,     \* scopes an issue may say it owns
    Seeds,      \* issues the sections of the release epics name
    Starts,     \* dependencies between issues to start from
    MaxChanges  \* bound of the changes made by people

Number == Issue \cup Pull \cup Absent

ASSUME ReadinessAssumption ==
    /\ Number \subseteq Nat /\ IsFiniteSet(Issue) /\ Seeds \subseteq Number
    /\ Starts \subseteq [Issue -> SUBSET Number] /\ MaxChanges \in Nat
    /\ Issue \cap Pull = {} /\ Issue \cap Absent = {} /\ Pull \cap Absent = {}

VARIABLES
    issue,    \* per issue: its facts
    pull,     \* per pull request: its state and the issues it mentions
    review,   \* per issue: the semantic evidence recorded for it
    changes

readinessVars == <<issue, pull, review, changes>>

-----------------------------------------------------------------------------
Outcomes == {"completed", "not_planned"}  \* of a closed issue; duplicates count as not_planned

Facts ==
    [open : BOOLEAN, outcome : Outcomes, deps : SUBSET Number, blocks : SUBSET Issue,
     supersedes : SUBSET Issue, owns : SUBSET Claims, unticked : SUBSET Number,
     labels : SUBSET {"blocked", "decision-needed"}, scheduled : BOOLEAN,
     says : SUBSET {"decision", "external", "false-assumption"},
     citesMissingPath : BOOLEAN,
     contract : {"conformant", "needs_contract_revision", "unsafe"}, uncovered : BOOLEAN,
     priority : {0, 10, 60, 90}]

Pulls == [state : {"open", "merged", "closed"}, mentions : SUBSET Issue]

(* `evidence` is dependency_merge_evidence_details, per dependency, and    *)
(* `merged` the answer for those that have no entry.                       *)
Review ==
    [status : {"required", "accepted", "rejected", "unsafe"}, coherent : BOOLEAN,
     needs : SUBSET {"decision", "external", "blocker", "false-assumption"},
     available : BOOLEAN, merged : BOOLEAN, evidence : [Number -> {"none", "yes", "no"}]]

ReadinessTypeOK ==
    /\ issue \in [Issue -> Facts]
    /\ pull \in [Pull -> Pulls]
    /\ review \in [Issue -> Review]
    /\ changes \in 0 .. MaxChanges

-----------------------------------------------------------------------------
Open == {i \in Issue : issue[i].open}
IsOpen(n) == n \in Open \/ (n \in Pull /\ pull[n].state = "open")
IsKnown(n) == n \in Issue \cup Pull

(* dependency_graph and blocked_by_graph                                   *)
DependencyGraph == [i \in Open |-> issue[i].deps]
BlockedBy(i) == {j \in Issue : i \in issue[j].blocks}

(* derive_release_gate                                                     *)
ReleaseGate == Gate([i \in Issue |-> issue[i].deps], Open, Seeds)

OpenDependencies(i) == {n \in issue[i].deps : IsOpen(n)}
MissingDependencies(i) == {n \in issue[i].deps : ~IsKnown(n)}
ClosedDependencies(i) == {n \in issue[i].deps : IsKnown(n) /\ ~IsOpen(n)}
OpenBlockers(i) == BlockedBy(i) \cap Open

(* has_merge_evidence of audit_issue                                       *)
HasMergeEvidence(i, n) ==
    IF n \in Pull /\ pull[n].state = "merged" THEN TRUE
    ELSE IF n \in Issue /\ issue[n].outcome = "not_planned" THEN FALSE
    ELSE CASE review[i].evidence[n] = "yes"  -> TRUE
           [] review[i].evidence[n] = "no"   -> FALSE
           [] review[i].evidence[n] = "none" -> review[i].merged

StaleDependencies(i) == {n \in ClosedDependencies(i) : ~HasMergeEvidence(i, n)}
MergeEvidenceIsRecorded(i) ==
    OpenDependencies(i) \cup MissingDependencies(i) \cup StaleDependencies(i) = {}

StaleChecklist(i) == {n \in issue[i].unticked : IsKnown(n) /\ ~IsOpen(n)}
ConflictingPulls(i) == {p \in Pull : pull[p].state = "open" /\ i \in pull[p].mentions}
CyclesThrough(i) == {c \in CyclesOf(DependencyGraph) : \E k \in DOMAIN c : c[k] = i}

(* detect_explicit_overlaps, of open issues                                *)
Rivals(i) ==
    IF i \notin Open THEN {}
    ELSE {j \in Open \ {i} : issue[i].owns \cap issue[j].owns # {}}
           \cup {j \in Open : j \in issue[i].supersedes /\ i \in issue[j].supersedes}

MilestoneDrift(i) == i \in ReleaseGate /\ ~issue[i].scheduled

-----------------------------------------------------------------------------
(* The two states audit_issue gives an issue, in the order it looks.       *)
IsStale(i) == StaleChecklist(i) \cup StaleDependencies(i) # {} \/ MilestoneDrift(i)

Governance(i) ==
    IF issue[i].contract # "conformant" THEN issue[i].contract
    ELSE CASE Rivals(i) # {}              -> "conflicting"
           [] Rivals(i) = {} /\ IsStale(i) -> "stale"
           [] Rivals(i) = {} /\ ~IsStale(i) /\ MissingDependencies(i) # {} -> "unknown"
           [] OTHER -> "conformant"

DecisionRequired(i) ==
    \/ "decision-needed" \in issue[i].labels
    \/ "decision" \in issue[i].says \cup review[i].needs
ExternalRequired(i) == "external" \in issue[i].says \cup review[i].needs

(* Mutant.  Issues that say they block this one are not looked at.         *)
BlockedForward(i) ==
    \/ CyclesThrough(i) # {} \/ MissingDependencies(i) # {}
    \/ issue[i].citesMissingPath \/ ConflictingPulls(i) # {}
    \/ OpenDependencies(i) # {} \/ "blocked" \in issue[i].labels
    \/ "blocker" \in review[i].needs

Blocked(i) ==
    \/ CyclesThrough(i) # {} \/ MissingDependencies(i) # {}
    \/ issue[i].citesMissingPath \/ ConflictingPulls(i) # {}
    \/ OpenDependencies(i) # {} \/ OpenBlockers(i) # {} \/ "blocked" \in issue[i].labels
    \/ "blocker" \in review[i].needs

(* Mutant.  A closed dependency is a done dependency.                      *)
StateTrustingClosed(i) ==
    IF ~issue[i].open THEN "stale"
    ELSE IF issue[i].contract # "conformant" \/ Rivals(i) # {} THEN "needs_contract_revision"
    ELSE IF Blocked(i) \/ DecisionRequired(i) \/ ExternalRequired(i) THEN "blocked"
    ELSE IF review[i].status = "accepted" THEN "ready" ELSE "needs_semantic_review"

State(i) ==
    LET r == review[i] IN
    IF ~issue[i].open THEN IF issue[i].outcome = "not_planned" THEN "superseded" ELSE "stale"
    ELSE IF Governance(i) = "unsafe" \/ r.status = "unsafe" THEN "unsafe"
    ELSE IF Governance(i) \in {"needs_contract_revision", "conflicting", "unknown"}
         THEN "needs_contract_revision"
    ELSE IF IsStale(i) THEN "stale"
    ELSE IF Blocked(i) THEN "blocked"
    ELSE IF DecisionRequired(i) THEN "needs_decision"
    ELSE IF ExternalRequired(i) /\ ~r.available THEN "blocked"
    ELSE IF "false-assumption" \in issue[i].says \cup r.needs \/ r.status = "rejected"
            \/ ~r.coherent THEN "needs_contract_revision"
    ELSE IF r.status # "accepted" THEN "needs_semantic_review"
    ELSE IF issue[i].uncovered THEN "needs_contract_revision"
    ELSE "ready"

-----------------------------------------------------------------------------
(* implementation_frontier_candidates and audit_frontier_candidates        *)
(* Mutant.  A dependency is looked up among the issues only.               *)
DependencyIsClosedIssue(n) == n \in Issue /\ ~IsOpen(n)

DependencyIsClosed(n) == IsKnown(n) /\ ~IsOpen(n)

BlockersRemain(i) ==
    \/ "blocker" \in review[i].needs \/ OpenDependencies(i) # {} \/ OpenBlockers(i) # {}
    \/ issue[i].citesMissingPath \/ ConflictingPulls(i) # {}

Selectable(i) ==
    /\ i \in Open
    /\ Governance(i) = "conformant" /\ State(i) = "ready"
    /\ CyclesThrough(i) = {} /\ ~DecisionRequired(i) /\ ~ExternalRequired(i)
    /\ ~issue[i].citesMissingPath /\ ConflictingPulls(i) = {} /\ Rivals(i) = {}
    /\ ~BlockersRemain(i)
    /\ \A n \in issue[i].deps : DependencyIsClosed(n)
    /\ issue[i].deps # {} => MergeEvidenceIsRecorded(i)

ImplementationCandidates == {i \in Issue : Selectable(i)}
AuditCandidates == {i \in Open : State(i) # "ready"}

AtMost(n, bound) == IF n > bound THEN bound ELSE n

(* Mutant.  The weight of the gate is below the others together.           *)
PriorityOfLabel(inGate, priority, impact, independent) ==
    (IF inGate THEN 30 ELSE 0) + priority + AtMost(12 * impact, 180) + (IF independent THEN 25 ELSE 0)

Priority(inGate, priority, impact, independent) ==
    (IF inGate THEN 300 ELSE 0) + priority + AtMost(12 * impact, 180) + (IF independent THEN 25 ELSE 0)

ImplementationScore(i) ==
    Priority(i \in ReleaseGate, issue[i].priority, Impact(DependencyGraph, i), issue[i].deps = {})

(* build_coordinator_result: the highest score, then the lowest number.    *)
Ahead(i, j) ==
    \/ ImplementationScore(i) > ImplementationScore(j)
    \/ ImplementationScore(i) = ImplementationScore(j) /\ i < j

Selected == {i \in ImplementationCandidates : \A j \in ImplementationCandidates \ {i} : Ahead(i, j)}

-----------------------------------------------------------------------------
(* People.  At first every issue has an accepted contract and review.      *)
Tracker(open, deps) ==
    /\ issue = [i \in Issue |->
           [open |-> open, outcome |-> "completed", deps |-> deps[i], blocks |-> {},
            supersedes |-> {}, owns |-> {}, unticked |-> {}, labels |-> {}, scheduled |-> TRUE,
            says |-> {}, citesMissingPath |-> FALSE, contract |-> "conformant",
            uncovered |-> FALSE, priority |-> 0]]
    /\ pull = [p \in Pull |-> [state |-> "open", mentions |-> {}]]
    /\ review = [i \in Issue |->
           [status |-> "accepted", coherent |-> TRUE, needs |-> {}, available |-> FALSE,
            merged |-> FALSE, evidence |-> [n \in Number |-> "none"]]]
    /\ changes = 0

ReadinessInit == \E deps \in Starts : Tracker(TRUE, deps)

Flipped(S, x) == IF x \in S THEN S \ {x} ELSE S \cup {x}

Becomes(i, facts) ==
    /\ issue[i] # facts
    /\ issue' = [issue EXCEPT ![i] = facts]
    /\ UNCHANGED <<pull, review>>

Relate(i) ==
    \/ \E n \in Number : Becomes(i, [issue[i] EXCEPT !.deps = Flipped(@, n)])
    \/ \E j \in Issue : Becomes(i, [issue[i] EXCEPT !.blocks = Flipped(@, j)])
    \/ \E j \in Issue : Becomes(i, [issue[i] EXCEPT !.supersedes = Flipped(@, j)])
    \/ \E c \in Claims : Becomes(i, [issue[i] EXCEPT !.owns = Flipped(@, c)])
    \/ \E n \in Number : Becomes(i, [issue[i] EXCEPT !.unticked = Flipped(@, n)])

CloseOrReopen(i) ==
    \E o \in Outcomes : Becomes(i, [issue[i] EXCEPT !.open = ~@, !.outcome = o])

Relabel(i) ==
    \/ \E l \in {"blocked", "decision-needed"} :
         Becomes(i, [issue[i] EXCEPT !.labels = Flipped(@, l)])
    \/ \E p \in {0, 10, 60, 90} : Becomes(i, [issue[i] EXCEPT !.priority = p])
    \/ Becomes(i, [issue[i] EXCEPT !.scheduled = ~@])

EditBody(i) ==
    \/ \E w \in {"decision", "external", "false-assumption"} :
         Becomes(i, [issue[i] EXCEPT !.says = Flipped(@, w)])
    \/ Becomes(i, [issue[i] EXCEPT !.citesMissingPath = ~@])
    \/ \E c \in {"conformant", "needs_contract_revision", "unsafe"} :
         Becomes(i, [issue[i] EXCEPT !.contract = c])
    \/ Becomes(i, [issue[i] EXCEPT !.uncovered = ~@])

ChangePull(p) ==
    /\ \/ \E s \in {"open", "merged", "closed"} :
             /\ pull[p].state # "merged" /\ pull[p].state # s
             /\ pull' = [pull EXCEPT ![p].state = s]
       \/ \E i \in Issue : pull' = [pull EXCEPT ![p].mentions = Flipped(@, i)]
    /\ UNCHANGED <<issue, review>>

Recorded(i, evidence) ==
    /\ review[i] # evidence
    /\ review' = [review EXCEPT ![i] = evidence]
    /\ UNCHANGED <<issue, pull>>

ReviewIssue(i) ==
    \/ \E s \in {"required", "accepted", "rejected", "unsafe"} :
         Recorded(i, [review[i] EXCEPT !.status = s])
    \/ \E n \in {"decision", "external", "blocker", "false-assumption"} :
         Recorded(i, [review[i] EXCEPT !.needs = Flipped(@, n)])
    \/ Recorded(i, [review[i] EXCEPT !.coherent = ~@])
    \/ Recorded(i, [review[i] EXCEPT !.available = ~@])
    \/ Recorded(i, [review[i] EXCEPT !.merged = ~@])
    \/ \E n \in issue[i].deps, e \in {"yes", "no"} :
         Recorded(i, [review[i] EXCEPT !.evidence[n] = e])

ReadinessNext ==
    /\ changes < MaxChanges
    /\ changes' = changes + 1
    /\ \/ \E i \in Issue : \/ Relate(i) \/ CloseOrReopen(i) \/ Relabel(i) \/ EditBody(i)
                           \/ ReviewIssue(i)
       \/ \E p \in Pull : ChangePull(p)

ReadinessSpec == ReadinessInit /\ [][ReadinessNext]_readinessVars

-----------------------------------------------------------------------------
Ready == {i \in Issue : State(i) = "ready"}
DependsOnOpen(i) ==
    Reach([n \in Open |-> issue[n].deps], issue[i].deps)

(* Two issues that are ready can be worked on at once: neither depends on  *)
(* the other, through however many open issues, neither blocks the other,  *)
(* they claim no scope in common, and none is part of a cycle, whether     *)
(* find_cycles has reported that cycle or not.                             *)
ReadyIssuesAreIndependent ==
    \A i, j \in Ready :
        /\ j \notin DependsOnOpen(i)
        /\ i \notin issue[j].blocks
        /\ i # j => issue[i].owns \cap issue[j].owns = {}

(* Everything a ready issue depends on exists and is over, and for each    *)
(* dependency there is a merged pull request or a reviewer who said that   *)
(* the work is in: an issue nobody planned to do satisfies no one.         *)
ReadyIsEarned ==
    \A i \in Ready : \A n \in issue[i].deps :
        \/ n \in Pull /\ pull[n].state = "merged"
        \/ /\ n \in Issue => ~issue[n].open /\ issue[n].outcome = "completed"
           /\ n \in Pull => pull[n].state # "open"
           /\ n \notin Absent
           /\ review[i].evidence[n] = "yes" \/ review[i].merged

(* Every open issue is offered for audit or for implementation.  The one   *)
(* exception is an issue that is ready because the external evidence it    *)
(* needs is recorded as available: the frontier rejects it all the same.   *)
NothingFallsBetween ==
    \A i \in Open :
        \/ i \in AuditCandidates \cup ImplementationCandidates
        \/ ExternalRequired(i) /\ review[i].available

(* Work outside the release gate is never started while an issue in the    *)
(* gate could be; and what is started is ready.                            *)
GateComesFirst ==
    \A i \in Selected :
        i \in Ready /\ (i \notin ReleaseGate => ImplementationCandidates \cap ReleaseGate = {})
=============================================================================
