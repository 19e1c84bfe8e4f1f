------------------------ MODULE IssueReadinessProofs -------------------------
(***************************************************************************)
(* What the audit and the frontier promise of an issue they call ready,    *)
(* for any tracker and any number of changes to it; that find_cycles       *)
(* reports cycles and misses none in a graph it reports nothing of; and    *)
(* that the evidence of a synthesis packet is what its ids say.            *)
(***************************************************************************)
EXTENDS FindCycles, BacklogSynthesis, InductionLemmas, FiniteSetTheorems

-----------------------------------------------------------------------------
(* Type correctness.                                                       *)

(* A field of an issue's facts set to a value of its type.                 *)
LEMMA FactsType ==
    ASSUME NEW f \in Facts
    PROVE  /\ f.deps \subseteq Number /\ f.blocks \subseteq Issue /\ f.supersedes \subseteq Issue
           /\ f.owns \subseteq Claims /\ f.unticked \subseteq Number
           /\ f.labels \subseteq {"blocked", "decision-needed"}
           /\ f.says \subseteq {"decision", "external", "false-assumption"}
           /\ f.open \in BOOLEAN /\ f.scheduled \in BOOLEAN
           /\ f.citesMissingPath \in BOOLEAN /\ f.uncovered \in BOOLEAN
           /\ f.outcome \in Outcomes
           /\ f.contract \in {"conformant", "needs_contract_revision", "unsafe"}
BY DEF Facts

LEMMA BecomesType ==
    ASSUME ReadinessTypeOK, NEW i \in Issue, NEW facts \in Facts, Becomes(i, facts)
    PROVE  /\ issue' \in [Issue -> Facts] /\ pull' \in [Pull -> Pulls]
           /\ review' \in [Issue -> Review]
BY DEF ReadinessTypeOK, Becomes

LEMMA RecordedType ==
    ASSUME ReadinessTypeOK, NEW i \in Issue, NEW evidence \in Review, Recorded(i, evidence)
    PROVE  /\ issue' \in [Issue -> Facts] /\ pull' \in [Pull -> Pulls]
           /\ review' \in [Issue -> Review]
BY DEF ReadinessTypeOK, Recorded

LEMMA IssueStepType ==
    ASSUME ReadinessTypeOK, NEW i \in Issue,
           Relate(i) \/ CloseOrReopen(i) \/ Relabel(i) \/ EditBody(i)
    PROVE  /\ issue' \in [Issue -> Facts] /\ pull' \in [Pull -> Pulls]
           /\ review' \in [Issue -> Review]
<1> DEFINE f == issue[i]
<1>0. f \in Facts
  BY DEF ReadinessTypeOK
<1>1. CASE Relate(i)
  <2>1. /\ \A n \in Number : [f EXCEPT !.deps = Flipped(@, n)] \in Facts
        /\ \A n \in Number : [f EXCEPT !.unticked = Flipped(@, n)] \in Facts
    BY <1>0, FactsType DEF Facts, Flipped
  <2>2. /\ \A j \in Issue : [f EXCEPT !.blocks = Flipped(@, j)] \in Facts
        /\ \A j \in Issue : [f EXCEPT !.supersedes = Flipped(@, j)] \in Facts
        /\ \A c \in Claims : [f EXCEPT !.owns = Flipped(@, c)] \in Facts
    BY <1>0, FactsType DEF Facts, Flipped
  <2> QED
    BY <1>1, <2>1, <2>2, BecomesType DEF Relate
<1>2. CASE CloseOrReopen(i)
  <2>1. \A o \in Outcomes : [f EXCEPT !.open = ~@, !.outcome = o] \in Facts
    BY <1>0 DEF Facts
  <2> QED
    BY <1>2, <2>1, BecomesType DEF CloseOrReopen
<1>3. CASE Relabel(i)
  <2>1. \A l \in {"blocked", "decision-needed"} : [f EXCEPT !.labels = Flipped(@, l)] \in Facts
    BY <1>0 DEF Facts, Flipped
  <2>2. \A p \in {0, 10, 60, 90} : [f EXCEPT !.priority = p] \in Facts
    BY <1>0 DEF Facts
  <2>3. [f EXCEPT !.scheduled = ~@] \in Facts
    BY <1>0 DEF Facts
  <2> QED
    BY <1>3, <2>1, <2>2, <2>3, BecomesType DEF Relabel
<1>4. CASE EditBody(i)
  <2>1. \A w \in {"decision", "external", "false-assumption"} :
           [f EXCEPT !.says = Flipped(@, w)] \in Facts
    BY <1>0 DEF Facts, Flipped
  <2>2. [f EXCEPT !.citesMissingPath = ~@] \in Facts /\ [f EXCEPT !.uncovered = ~@] \in Facts
    BY <1>0 DEF Facts
  <2>3. \A c \in {"conformant", "needs_contract_revision", "unsafe"} :
           [f EXCEPT !.contract = c] \in Facts
    BY <1>0 DEF Facts
  <2> QED
    BY <1>4, <2>1, <2>2, <2>3, BecomesType DEF EditBody
<1> QED
  BY <1>1, <1>2, <1>3, <1>4

LEMMA ReviewStepType ==
    ASSUME ReadinessTypeOK, NEW i \in Issue, ReviewIssue(i)
    PROVE  /\ issue' \in [Issue -> Facts] /\ pull' \in [Pull -> Pulls]
           /\ review' \in [Issue -> Review]
<1> DEFINE r == review[i]
<1>0. r \in Review /\ issue[i].deps \subseteq Number
  BY DEF ReadinessTypeOK, Facts
<1>1. \A s \in {"required", "accepted", "rejected", "unsafe"} : [r EXCEPT !.status = s] \in Review
  BY <1>0 DEF Review
<1>2. \A n \in {"decision", "external", "blocker", "false-assumption"} :
         [r EXCEPT !.needs = Flipped(@, n)] \in Review
  BY <1>0 DEF Review, Flipped
<1>3. /\ [r EXCEPT !.coherent = ~@] \in Review /\ [r EXCEPT !.available = ~@] \in Review
      /\ [r EXCEPT !.merged = ~@] \in Review
  BY <1>0 DEF Review
<1>4. \A n \in issue[i].deps, e \in {"yes", "no"} : [r EXCEPT !.evidence[n] = e] \in Review
  BY <1>0 DEF Review
<1> QED
  BY <1>1, <1>2, <1>3, <1>4, RecordedType DEF ReviewIssue

LEMMA PullStepType ==
    ASSUME ReadinessTypeOK, NEW p \in Pull, ChangePull(p)
    PROVE  /\ issue' \in [Issue -> Facts] /\ pull' \in [Pull -> Pulls]
           /\ review' \in [Issue -> Review]
<1>0. pull[p] \in Pulls
  BY DEF ReadinessTypeOK
<1>1. /\ \A s \in {"open", "merged", "closed"} : [pull[p] EXCEPT !.state = s] \in Pulls
      /\ \A i \in Issue : [pull[p] EXCEPT !.mentions = Flipped(@, i)] \in Pulls
  BY <1>0 DEF Pulls, Flipped
<1> QED
  BY <1>1 DEF ChangePull, ReadinessTypeOK

(* Every fact of the tracker keeps its type.                               *)
LEMMA ReadinessType == ReadinessSpec => []ReadinessTypeOK
<1>1. ReadinessInit => ReadinessTypeOK
  <2> SUFFICES ASSUME NEW deps \in Starts, Tracker(TRUE, deps) PROVE ReadinessTypeOK
    BY DEF ReadinessInit
  <2>1. deps \in [Issue -> SUBSET Number]
    BY ReadinessAssumption
  <2>2. issue \in [Issue -> Facts]
    BY <2>1 DEF Tracker, Facts, Outcomes
  <2>3. pull \in [Pull -> Pulls] /\ review \in [Issue -> Review] /\ changes \in 0 .. MaxChanges
    BY ReadinessAssumption DEF Tracker, Pulls, Review
  <2> QED
    BY <2>2, <2>3 DEF ReadinessTypeOK
<1>2. ReadinessTypeOK /\ [ReadinessNext]_readinessVars => ReadinessTypeOK'
  <2> SUFFICES ASSUME ReadinessTypeOK, [ReadinessNext]_readinessVars PROVE ReadinessTypeOK'
    OBVIOUS
  <2>1. CASE UNCHANGED readinessVars
    BY <2>1 DEF readinessVars, ReadinessTypeOK
  <2>2. CASE ReadinessNext
    <3>1. changes' \in 0 .. MaxChanges
      BY <2>2, ReadinessAssumption DEF ReadinessNext, ReadinessTypeOK
    <3> QED
      BY <2>2, <3>1, IssueStepType, ReviewStepType, PullStepType DEF ReadinessNext, ReadinessTypeOK
  <2> QED
    BY <2>1, <2>2
<1> QED
  BY <1>1, <1>2, PTL DEF ReadinessSpec

-----------------------------------------------------------------------------
(* What it takes to be ready.                                              *)
LEMMA ReadyMeans ==
    ASSUME ReadinessTypeOK, NEW i \in Issue, State(i) = "ready"
    PROVE  /\ issue[i].open /\ issue[i].contract = "conformant"
           /\ Governance(i) = "conformant" /\ Rivals(i) = {} /\ ~ IsStale(i) /\ ~ Blocked(i)
           /\ ~ DecisionRequired(i) /\ (ExternalRequired(i) => review[i].available)
<1>1. issue[i].contract \in {"conformant", "needs_contract_revision", "unsafe"}
  BY DEF ReadinessTypeOK, Facts
<1>2. /\ issue[i].open /\ ~ IsStale(i) /\ ~ Blocked(i)
      /\ ~ DecisionRequired(i) /\ (ExternalRequired(i) => review[i].available)
      /\ Governance(i) \notin {"unsafe", "needs_contract_revision", "conflicting", "unknown"}
  BY DEF State
<1>3. issue[i].contract = "conformant"
  BY <1>1, <1>2 DEF Governance
<1>4. Rivals(i) = {}
  BY <1>2, <1>3 DEF Governance
<1>5. MissingDependencies(i) = {}
  BY <1>2 DEF Blocked
<1>6. Governance(i) = "conformant"
  BY <1>2, <1>3, <1>4, <1>5 DEF Governance
<1> QED
  BY <1>2, <1>3, <1>4, <1>6

LEMMA ReadyDependencies ==
    ASSUME ReadinessTypeOK, NEW i \in Issue, State(i) = "ready"
    PROVE  /\ MergeEvidenceIsRecorded(i)
           /\ \A n \in issue[i].deps : IsKnown(n) /\ ~ IsOpen(n) /\ HasMergeEvidence(i, n)
<1>1. OpenDependencies(i) = {} /\ MissingDependencies(i) = {}
  BY ReadyMeans DEF Blocked
<1>2. StaleDependencies(i) = {}
  BY ReadyMeans DEF IsStale
<1>3. ASSUME NEW n \in issue[i].deps PROVE IsKnown(n) /\ ~ IsOpen(n) /\ HasMergeEvidence(i, n)
  <2>1. IsKnown(n) /\ ~ IsOpen(n)
    BY <1>1 DEF OpenDependencies, MissingDependencies
  <2>2. HasMergeEvidence(i, n)
    BY <1>2, <2>1 DEF StaleDependencies, ClosedDependencies
  <2> QED
    BY <2>1, <2>2
<1> QED
  BY <1>1, <1>2, <1>3 DEF MergeEvidenceIsRecorded

(* Evidence is either a merged pull request or a reviewer's word, and      *)
(* never stands for an issue nobody planned to do.                         *)
LEMMA EvidenceMeans ==
    ASSUME ReadinessTypeOK, NEW i \in Issue, NEW n \in Number, HasMergeEvidence(i, n)
    PROVE  \/ n \in Pull /\ pull[n].state = "merged"
           \/ /\ n \in Issue => issue[n].outcome = "completed"
              /\ review[i].evidence[n] = "yes" \/ review[i].merged
<1>1. n \in Issue => issue[n].outcome \in {"completed", "not_planned"}
  BY DEF ReadinessTypeOK, Facts, Outcomes
<1>2. review[i].evidence[n] \in {"none", "yes", "no"}
  BY DEF ReadinessTypeOK, Review
<1>3. CASE n \in Pull /\ pull[n].state = "merged"
  BY <1>3
<1>4. CASE ~ (n \in Pull /\ pull[n].state = "merged")
  <2>1. ~ (n \in Issue /\ issue[n].outcome = "not_planned")
    BY <1>4 DEF HasMergeEvidence
  <2>2. CASE review[i].evidence[n] = "yes"
    BY <1>1, <2>1, <2>2
  <2>3. CASE review[i].evidence[n] = "no"
    BY <1>4, <2>1, <2>3 DEF HasMergeEvidence
  <2>4. CASE review[i].evidence[n] = "none"
    <3>1. review[i].merged
      BY <1>4, <2>1, <2>4 DEF HasMergeEvidence
    <3> QED
      BY <1>1, <2>1, <3>1
  <2> QED
    BY <1>2, <2>2, <2>3, <2>4
<1> QED
  BY <1>3, <1>4

(* Of every tracker, everything a ready issue depends on exists, is over,  *)
(* and is known to be in.                                                  *)
THEOREM ReadyIssuesAreEarned == ReadinessSpec => []ReadyIsEarned
<1>1. ReadinessTypeOK => ReadyIsEarned
  <2> SUFFICES ASSUME ReadinessTypeOK, NEW i \in Ready, NEW n \in issue[i].deps
               PROVE  \/ n \in Pull /\ pull[n].state = "merged"
                      \/ /\ n \in Issue => ~issue[n].open /\ issue[n].outcome = "completed"
                         /\ n \in Pull => pull[n].state # "open"
                         /\ n \notin Absent
                         /\ review[i].evidence[n] = "yes" \/ review[i].merged
    BY DEF ReadyIsEarned
  <2>1. i \in Issue /\ State(i) = "ready"
    BY DEF Ready
  <2>2. n \in Number
    BY <2>1 DEF ReadinessTypeOK, Facts
  <2>3. IsKnown(n) /\ ~ IsOpen(n) /\ HasMergeEvidence(i, n)
    BY <2>1, ReadyDependencies
  <2>4. n \notin Absent
    BY <2>3, ReadinessAssumption DEF IsKnown
  <2>5. /\ n \in Issue => ~ issue[n].open
        /\ n \in Pull => pull[n].state # "open"
    BY <2>3 DEF IsOpen, Open
  <2> QED
    BY <2>1, <2>2, <2>3, <2>4, <2>5, EvidenceMeans
<1> QED
  BY <1>1, ReadinessType, PTL

(* Of every tracker, each open issue is offered for audit or for           *)
(* implementation, but for the one exception the property names.           *)
THEOREM NothingFallsBetweenAuditAndFrontier == ReadinessSpec => []NothingFallsBetween
<1>1. ReadinessTypeOK => NothingFallsBetween
  <2> SUFFICES ASSUME ReadinessTypeOK, NEW i \in Open, State(i) = "ready", ~ ExternalRequired(i)
               PROVE  Selectable(i)
    BY ReadyMeans DEF NothingFallsBetween, AuditCandidates, ImplementationCandidates, Open
  <2>0. i \in Issue
    BY DEF Open
  <2>1. CyclesThrough(i) = {} /\ ~ issue[i].citesMissingPath /\ ConflictingPulls(i) = {}
    BY <2>0, ReadyMeans DEF Blocked
  <2>2. ~ BlockersRemain(i)
    BY <2>0, ReadyMeans DEF Blocked, BlockersRemain
  <2>3. \A n \in issue[i].deps : DependencyIsClosed(n)
    BY <2>0, ReadyDependencies DEF DependencyIsClosed
  <2> QED
    BY <2>0, <2>1, <2>2, <2>3, ReadyMeans, ReadyDependencies DEF Selectable
<1> QED
  BY <1>1, ReadinessType, PTL

(* What is reached from a set stays within any set that has it and, with   *)
(* a node, the nodes it leads to.                                          *)
LEMMA ReachWithin ==
    ASSUME NEW next, NEW start, NEW U, IsFiniteSet(DOMAIN next), start \subseteq U,
           \A n \in U \cap DOMAIN next : next[n] \subseteq U
    PROVE  start \subseteq Reach(next, start) /\ Reach(next, start) \subseteq U
<1> DEFINE N == Cardinality(DOMAIN next)
           Step(R) == R \cup UNION {next[n] : n \in R \cap DOMAIN next}
           X == {R \in SUBSET U : start \subseteq R}
           step == [p \in (1 .. N) \X X |-> Step(p[2])]
           IsRec(f) == f = [k \in 0 .. N |-> IF k = 0 THEN start ELSE Step(f[k - 1])]
           round == CHOOSE f : IsRec(f)
<1>1. N \in Nat
  BY FS_CardinalityType
<1>2. start \in X /\ \A R \in X : Step(R) \in X
  <2>1. ASSUME NEW R \in X PROVE Step(R) \in X
    <3>1. R \subseteq U /\ start \subseteq R
      OBVIOUS
    <3>2. \A n \in R \cap DOMAIN next : next[n] \subseteq U
      BY <3>1
    <3>3. UNION {next[n] : n \in R \cap DOMAIN next} \subseteq U
      BY <3>2
    <3> HIDE DEF N
    <3> QED
      BY <3>1, <3>3
  <2>2. start \in X
    OBVIOUS
  <2> HIDE DEF X, Step
  <2> QED
    BY <2>1, <2>2
<1>3. Reach(next, start) = round[N]
  BY DEF Reach
<1> HIDE DEF X, N, Step
<1>4. step \in [(1 .. N) \X X -> X]
  BY <1>2
<1>5. PICK f : Recursive(f, N, X, start, step)
  <2> HIDE DEF step
  <2> QED
    BY <1>1, <1>2, <1>4, RecursionExists
<1>6. \A k \in 1 .. N : f[k] = Step(f[k - 1])
  <2> SUFFICES ASSUME NEW k \in 1 .. N PROVE f[k] = Step(f[k - 1])
    OBVIOUS
  <2>1. f[k - 1] \in X
    BY <1>1, <1>5 DEF Recursive
  <2>2. <<k, f[k - 1]>> \in (1 .. N) \X X
    BY <2>1
  <2> QED
    BY <1>5, <2>2 DEF Recursive
<1>7. IsRec(f)
  <2>1. \A k \in 0 .. N : f[k] = IF k = 0 THEN start ELSE Step(f[k - 1])
    BY <1>1, <1>5, <1>6 DEF Recursive
  <2> QED
    BY <1>5, <2>1 DEF Recursive
<1>8. IsRec(round)
  <2> HIDE DEF IsRec
  <2> QED
    BY <1>7
<1> HIDE DEF round
<1>9. round[0] = start /\ \A k \in 1 .. N : round[k] = Step(round[k - 1])
  BY <1>1, <1>8
<1> DEFINE T == {k \in 0 .. N : round[k] \in X}
<1>10. 0 \in T
  BY <1>1, <1>2, <1>9
<1>11. ASSUME NEW k \in 1 .. N, k - 1 \in T PROVE k \in T
  BY <1>1, <1>2, <1>9, <1>11
<1>12. N \in T
  <2> HIDE DEF T
  <2>1. 0 .. N \subseteq T
    BY <1>1, <1>10, <1>11, ClosedSet
  <2> QED
    BY <1>1, <2>1
<1> QED
  BY <1>3, <1>12 DEF X

(* Of every tracker, issues that are ready can be worked on at once.       *)
THEOREM ReadyIssuesStandAlone == ReadinessSpec => []ReadyIssuesAreIndependent
<1>1. ReadinessTypeOK => ReadyIssuesAreIndependent
  <2> SUFFICES ASSUME ReadinessTypeOK, NEW i \in Ready, NEW j \in Ready
               PROVE  /\ j \notin DependsOnOpen(i)
                      /\ i \notin issue[j].blocks
                      /\ i # j => issue[i].owns \cap issue[j].owns = {}
    BY DEF ReadyIssuesAreIndependent
  <2>1. i \in Issue /\ State(i) = "ready" /\ j \in Issue /\ State(j) = "ready"
    BY DEF Ready
  <2>2. i \in Open /\ j \in Open
    BY <2>1, ReadyMeans DEF Open
  <2>3. \A n \in issue[i].deps : n \notin Open
    BY <2>1, ReadyDependencies DEF IsOpen
  <2>4. j \notin DependsOnOpen(i)
    <3> DEFINE next == [n \in Open |-> issue[n].deps]
               deps == issue[i].deps
    <3>1. DOMAIN next = Open /\ IsFiniteSet(Open)
      BY ReadinessAssumption, FS_Subset DEF Open
    <3>2. DependsOnOpen(i) = Reach(next, deps)
      BY DEF DependsOnOpen
    <3> HIDE DEF next, deps
    <3>3. \A n \in deps \cap DOMAIN next : next[n] \subseteq deps
      <4>1. deps \cap DOMAIN next = {}
        BY <2>3, <3>1 DEF deps
      <4> QED
        BY <4>1
    <3>4. Reach(next, deps) \subseteq deps
      BY <3>1, <3>3, ReachWithin
    <3> QED
      BY <2>2, <2>3, <3>2, <3>4 DEF deps
  <2>5. i \notin issue[j].blocks
    BY <2>1, <2>2, ReadyMeans DEF Blocked, OpenBlockers, BlockedBy
  <2>6. i # j => issue[i].owns \cap issue[j].owns = {}
    BY <2>1, <2>2, ReadyMeans DEF Rivals
  <2> QED
    BY <2>4, <2>5, <2>6
<1> QED
  BY <1>1, ReadinessType, PTL

(* The parts of a score but for the release gate are below its weight.     *)
LEMMA ImpactIsANumber ==
    ASSUME ReadinessTypeOK, NEW i \in Issue
    PROVE  Impact(DependencyGraph, i) \in Nat
<1> DEFINE g == DependencyGraph
           next == [k \in DOMAIN g |-> Dependents(g, k)]
           start == Dependents(g, i)
<1>1. DOMAIN g = Open /\ IsFiniteSet(Open)
  BY ReadinessAssumption, FS_Subset DEF Open, DependencyGraph
<1>2. DOMAIN next = Open /\ start \subseteq Open /\ \A n \in Open : next[n] \subseteq Open
  BY <1>1 DEF Dependents
<1>3. Impact(DependencyGraph, i) = Cardinality(Reach(next, start))
  BY DEF Impact
<1> HIDE DEF next, start
<1>4. Reach(next, start) \subseteq Open
  BY <1>1, <1>2, ReachWithin
<1> QED
  BY <1>1, <1>3, <1>4, FS_Subset, FS_CardinalityType

LEMMA ScoreBounds ==
    ASSUME ReadinessTypeOK, NEW i \in Issue
    PROVE  /\ ImplementationScore(i) \in Nat
           /\ i \in ReleaseGate => ImplementationScore(i) >= 300
           /\ i \notin ReleaseGate => ImplementationScore(i) <= 295
<1>1. issue[i].priority \in {0, 10, 60, 90}
  BY DEF ReadinessTypeOK, Facts
<1>2. PICK impact \in Nat : impact = Impact(DependencyGraph, i)
  BY ImpactIsANumber
<1>3. AtMost(12 * impact, 180) \in 0 .. 180
  <2>1. 12 * impact \in Nat
    BY <1>2
  <2> QED
    BY <2>1 DEF AtMost
<1>4. ImplementationScore(i) =
         Priority(i \in ReleaseGate, issue[i].priority, impact, issue[i].deps = {})
  BY <1>2 DEF ImplementationScore
<1>5. CASE i \in ReleaseGate
  BY <1>1, <1>3, <1>4, <1>5 DEF Priority
<1>6. CASE i \notin ReleaseGate
  BY <1>1, <1>3, <1>4, <1>6 DEF Priority
<1> QED
  BY <1>5, <1>6

(* Of every tracker, what the frontier selects is ready, and is in the     *)
(* release gate when anything in the gate could be selected.               *)
THEOREM GateGoesFirst == ReadinessSpec => []GateComesFirst
<1>1. ReadinessTypeOK => GateComesFirst
  <2> SUFFICES ASSUME ReadinessTypeOK, NEW i \in Selected
               PROVE  /\ i \in Ready
                      /\ i \notin ReleaseGate => ImplementationCandidates \cap ReleaseGate = {}
    BY DEF GateComesFirst
  <2>1. i \in Issue /\ Selectable(i) /\ \A j \in ImplementationCandidates \ {i} : Ahead(i, j)
    BY DEF Selected, ImplementationCandidates
  <2>2. i \in Ready
    BY <2>1 DEF Selectable, Ready
  <2>3. ASSUME i \notin ReleaseGate, NEW j \in ImplementationCandidates \cap ReleaseGate PROVE FALSE
    <3>1. j \in Issue /\ Ahead(i, j)
      BY <2>1, <2>3 DEF ImplementationCandidates
    <3>2. ImplementationScore(i) <= 295 /\ ImplementationScore(j) >= 300
      BY <2>1, <2>3, <3>1, ScoreBounds
    <3>3. ImplementationScore(i) \in Nat /\ ImplementationScore(j) \in Nat
      BY <2>1, <3>1, ScoreBounds
    <3> QED
      BY <3>1, <3>2, <3>3 DEF Ahead
  <2> QED
    BY <2>2, <2>3
<1> QED
  BY <1>1, ReadinessType, PTL

-----------------------------------------------------------------------------
(* The cycles that find_cycles reports.                                    *)
LEMMA SmallestIsOne ==
    ASSUME NEW S, S \subseteq Nat, S # {}
    PROVE  Smallest(S) \in S
<1>1. PICK n \in S : \A k \in S : n <= k
  BY LeastElement
<1> QED
  BY <1>1 DEF Smallest

(* A cycle of a graph, as a list without repetitions.                      *)
IsCycle(g, c) ==
    /\ Len(c) > 0
    /\ \A i \in DOMAIN c : c[i] \in DOMAIN g
    /\ \A i \in 1 .. Len(c) - 1 : c[i + 1] \in g[c[i]]
    /\ c[1] \in g[c[Len(c)]]

(* Turning a list leaves its places in the same circle.                    *)
LEMMA TurnedPlaces ==
    ASSUME NEW core \in Seq(Nat), Len(core) > 0
    PROVE  /\ Turned(core) \in Seq(Nat) /\ Len(Turned(core)) = Len(core)
           /\ \E k \in 1 .. Len(core) : \A i \in 1 .. Len(core) :
                 Turned(core)[i] = core[IF i <= Len(core) - k + 1 THEN i + k - 1
                                        ELSE i + k - 1 - Len(core)]
<1> DEFINE m == Len(core)
           Lowest(i) == \A j \in DOMAIN core : core[i] <= core[j]
           k == CHOOSE i \in DOMAIN core : Lowest(i)
           S == {core[i] : i \in 1 .. m}
<1>1. m \in Nat /\ m > 0 /\ DOMAIN core = 1 .. m
  OBVIOUS
<1>2. S \subseteq Nat /\ S # {}
  <2>1. core[1] \in S
    BY <1>1
  <2> QED
    BY <2>1
<1>3. PICK n \in S : \A x \in S : n <= x
  <2> HIDE DEF S
  <2> QED
    BY <1>2, LeastElement
<1>4. \E i \in DOMAIN core : Lowest(i)
  BY <1>1, <1>3
<1>5. k \in 1 .. m
  <2> HIDE DEF Lowest
  <2> QED
    BY <1>1, <1>4
<1>6. Turned(core) = SubSeq(core, k, m) \o SubSeq(core, 1, k - 1)
  BY DEF Turned
<1> HIDE DEF k, m
<1>7. /\ SubSeq(core, k, m) \in Seq(Nat) /\ Len(SubSeq(core, k, m)) = m - k + 1
      /\ \A i \in 1 .. m - k + 1 : SubSeq(core, k, m)[i] = core[i + k - 1]
  BY <1>1, <1>5 DEF m
<1>8. /\ SubSeq(core, 1, k - 1) \in Seq(Nat) /\ Len(SubSeq(core, 1, k - 1)) = k - 1
      /\ \A i \in 1 .. k - 1 : SubSeq(core, 1, k - 1)[i] = core[i]
  BY <1>1, <1>5 DEF m
<1> PICK a, b : a = SubSeq(core, k, m) /\ b = SubSeq(core, 1, k - 1)
  OBVIOUS
<1>a. /\ a \in Seq(Nat) /\ Len(a) = m - k + 1
      /\ \A i \in 1 .. m - k + 1 : a[i] = core[i + k - 1]
  BY <1>7
<1>b. b \in Seq(Nat) /\ Len(b) = k - 1 /\ \A i \in 1 .. k - 1 : b[i] = core[i]
  BY <1>8
<1>c. Turned(core) = a \o b
  BY <1>6
<1>9. Turned(core) \in Seq(Nat) /\ Len(Turned(core)) = m
  <2>1. a \o b \in Seq(Nat) /\ Len(a \o b) = Len(a) + Len(b)
    BY <1>a, <1>b
  <2>2. \A x, y \in Int : x - y + 1 + (y - 1) = x
    OBVIOUS
  <2>3. m - k + 1 + (k - 1) = m
    BY <1>1, <1>5, <2>2
  <2>4. Len(a) = m - k + 1 /\ Len(b) = k - 1
    BY <1>a, <1>b
  <2> QED
    BY <1>c, <2>1, <2>3, <2>4, Zenon
<1>10. ASSUME NEW i \in 1 .. m
       PROVE  Turned(core)[i] = core[IF i <= m - k + 1 THEN i + k - 1 ELSE i + k - 1 - m]
  <2>1. CASE i <= m - k + 1
    <3>1. i \in 1 .. Len(a)
      BY <1>1, <1>5, <1>a, <2>1
    <3>2. (a \o b)[i] = a[i]
      BY <1>a, <1>b, <3>1
    <3>3. a[i] = core[i + k - 1]
      BY <1>a, <3>1
    <3> QED
      BY <1>c, <2>1, <3>2, <3>3
  <2>2. CASE ~ (i <= m - k + 1)
    <3>1. i - (m - k + 1) \in 1 .. k - 1
      BY <1>1, <1>5, <2>2
    <3>2. (a \o b)[i] = b[i - (m - k + 1)]
      BY <1>1, <1>5, <1>a, <1>b, <2>2, <3>1
    <3>3. i - (m - k + 1) = i + k - 1 - m
      BY <1>1, <1>5
    <3> QED
      BY <1>b, <1>c, <2>2, <3>1, <3>2, <3>3
  <2> QED
    BY <2>1, <2>2
<1> QED
  BY <1>5, <1>9, <1>10 DEF m

LEMMA TurnedCycle ==
    ASSUME NEW g, NEW core \in Seq(Nat), IsCycle(g, core)
    PROVE  IsCycle(g, Turned(core))
<1> DEFINE m == Len(core)
           c == Turned(core)
<1>1. m \in Nat /\ m > 0 /\ c \in Seq(Nat) /\ Len(c) = m
  BY TurnedPlaces DEF IsCycle
<1>2. PICK k \in 1 .. m : \A i \in 1 .. m :
         c[i] = core[IF i <= m - k + 1 THEN i + k - 1 ELSE i + k - 1 - m]
  BY <1>1, TurnedPlaces
<1>3. /\ DOMAIN core = 1 .. m
      /\ \A i \in DOMAIN core : core[i] \in DOMAIN g
      /\ \A i \in 1 .. m - 1 : core[i + 1] \in g[core[i]]
      /\ core[1] \in g[core[m]]
  BY DEF IsCycle
<1> HIDE DEF m, c
<1>4. \A i \in 1 .. m : c[i] \in DOMAIN g
  <2> SUFFICES ASSUME NEW i \in 1 .. m PROVE c[i] \in DOMAIN g
    OBVIOUS
  <2>1. CASE i <= m - k + 1
    <3>1. i + k - 1 \in 1 .. m
      BY <1>1, <2>1
    <3> QED
      BY <1>2, <1>3, <2>1, <3>1
  <2>2. CASE ~ (i <= m - k + 1)
    <3>1. i + k - 1 - m \in 1 .. m
      BY <1>1, <2>2
    <3> QED
      BY <1>2, <1>3, <2>2, <3>1
  <2> QED
    BY <2>1, <2>2
<1>5. ASSUME NEW i \in 1 .. m - 1 PROVE c[i + 1] \in g[c[i]]
  <2>0. i \in 1 .. m /\ i + 1 \in 1 .. m
    BY <1>1
  <2>1. CASE i + 1 <= m - k + 1
    <3>1. c[i] = core[i + k - 1] /\ c[i + 1] = core[(i + k - 1) + 1]
      BY <1>1, <1>2, <2>0, <2>1
    <3>2. i + k - 1 \in 1 .. m - 1
      BY <1>1, <2>1
    <3> QED
      BY <1>3, <3>1, <3>2
  <2>2. CASE i = m - k + 1
    <3>1. c[i] = core[m] /\ c[i + 1] = core[1]
      BY <1>1, <1>2, <2>0, <2>2
    <3> QED
      BY <1>3, <3>1
  <2>3. CASE i > m - k + 1
    <3>0. ~ (i <= m - k + 1) /\ ~ (i + 1 <= m - k + 1)
      BY <1>1, <2>3
    <3>1. c[i] = core[i + k - 1 - m] /\ c[i + 1] = core[(i + 1) + k - 1 - m]
      BY <1>2, <2>0, <3>0
    <3>3. (i + 1) + k - 1 - m = (i + k - 1 - m) + 1
      BY <1>1
    <3>2. i + k - 1 - m \in 1 .. m - 1
      BY <1>1, <2>3
    <3> QED
      BY <1>3, <3>1, <3>2, <3>3
  <2>4. i + 1 <= m - k + 1 \/ i = m - k + 1 \/ i > m - k + 1
    BY <1>1
  <2> QED
    BY <2>1, <2>2, <2>3, <2>4
<1>6. c[1] \in g[c[m]]
  <2>0. 1 \in 1 .. m /\ m \in 1 .. m
    BY <1>1
  <2>1. c[1] = core[k]
    BY <1>1, <1>2, <2>0
  <2>2. CASE k = 1
    <3>1. c[m] = core[m]
      BY <1>1, <1>2, <2>0, <2>2
    <3> QED
      BY <1>3, <2>1, <2>2, <3>1
  <2>3. CASE k > 1
    <3>1. c[m] = core[k - 1] /\ k - 1 \in 1 .. m - 1 /\ (k - 1) + 1 = k
      BY <1>1, <1>2, <2>0, <2>3
    <3> QED
      BY <1>3, <2>1, <3>1
  <2> QED
    BY <1>1, <2>2, <2>3
<1>7. DOMAIN c = 1 .. m /\ Len(c) > 0
  BY <1>1
<1> QED
  BY <1>1, <1>4, <1>5, <1>6, <1>7 DEF IsCycle, c

(* What the search keeps: its path has no node twice and none it is done   *)
(* with, and leads along dependencies; and so do the nodes left to visit.  *)
PathOK(g, p, l, v) ==
    /\ g \in Graphs /\ p \in Seq(Nat) /\ l \in Seq(SUBSET Nat) /\ v \subseteq DOMAIN g
    /\ Len(l) = Len(p)
    /\ \A i \in 1 .. Len(p) : p[i] \in DOMAIN g \ v /\ l[i] \subseteq g[p[i]] \cap DOMAIN g
    /\ \A i, j \in 1 .. Len(p) : p[i] = p[j] => i = j
    /\ \A i \in 1 .. Len(p) - 1 : p[i + 1] \in g[p[i]]

(* Until a cycle is found: what a node that is done with depends on is     *)
(* done with too, some node of any set of these depends on none of the     *)
(* set, and what a node of the path depends on is done with, or left to    *)
(* visit, or next on the path.                                             *)
DoneIsClosed(g, v) ==
    /\ \A n \in v : g[n] \cap DOMAIN g \subseteq v
    /\ \A S \in SUBSET v : S # {} => \E n \in S : g[n] \cap S = {}

NothingSkipped(g, p, l, v) ==
    \A i \in 1 .. Len(p) : \A n \in g[p[i]] \cap DOMAIN g :
        \/ n \in v \cup l[i]
        \/ i < Len(p) /\ n = p[i + 1]

PathInv ==
    /\ search \in [path : Seq(Nat), left : Seq(SUBSET Nat), visited : SUBSET DOMAIN graph,
                   cycles : SUBSET Seq(Nat)]
    /\ PathOK(graph, search.path, search.left, search.visited)

CycleInv == \A c \in search.cycles : IsCycle(graph, c)

Settled ==
    /\ DoneIsClosed(graph, search.visited)
    /\ NothingSkipped(graph, search.path, search.left, search.visited)

CycleSearchInv == PathInv /\ CycleInv /\ (search.cycles = {} => Settled)

(* The part of the path from the node the search meets again is a cycle.   *)
LEMMA ClosingIsCycle ==
    ASSUME NEW g, NEW path \in Seq(Nat), NEW node \in Nat, node \in Visiting(path),
           \A i \in 1 .. Len(path) : path[i] \in DOMAIN g,
           \A i \in 1 .. Len(path) - 1 : path[i + 1] \in g[path[i]],
           node \in g[path[Len(path)]]
    PROVE  IsCycle(g, Closing(path, node)) /\ Closing(path, node) \in Seq(Nat)
<1> DEFINE k == CHOOSE i \in DOMAIN path : path[i] = node
           m == Len(path)
           core == SubSeq(path, k, m)
<1>1. k \in 1 .. m /\ path[k] = node /\ m \in Nat
  <2>1. \E i \in DOMAIN path : path[i] = node
    BY DEF Visiting
  <2> QED
    BY <2>1
<1>2. Closing(path, node) = Turned(core)
  BY DEF Closing
<1> HIDE DEF k
<1>3. /\ core \in Seq(Nat) /\ Len(core) = m - k + 1
      /\ \A i \in 1 .. m - k + 1 : core[i] = path[i + k - 1]
  BY <1>1
<1> HIDE DEF core, m
<1>4. DOMAIN core = 1 .. m - k + 1
  BY <1>3
<1>5. \A i \in 1 .. m - k + 1 : core[i] \in DOMAIN g
  <2>1. \A i \in 1 .. m - k + 1 : i + k - 1 \in 1 .. m
    BY <1>1
  <2> QED
    BY <1>3, <2>1 DEF m
<1>6. ASSUME NEW i \in 1 .. m - k PROVE core[i + 1] \in g[core[i]]
  <2>1. core[i] = path[i + k - 1] /\ core[i + 1] = path[(i + k - 1) + 1]
    BY <1>1, <1>3
  <2>2. i + k - 1 \in 1 .. m - 1
    BY <1>1
  <2> QED
    BY <2>1, <2>2 DEF m
<1>7. core[1] \in g[core[m - k + 1]]
  <2>1. 1 \in 1 .. m - k + 1 /\ m - k + 1 \in 1 .. m - k + 1
    BY <1>1 DEF m
  <2>2. core[1] = path[1 + k - 1] /\ core[m - k + 1] = path[(m - k + 1) + k - 1]
    BY <1>3, <2>1
  <2>3. 1 + k - 1 = k /\ (m - k + 1) + k - 1 = m
    BY <1>1 DEF m
  <2> QED
    BY <1>1, <2>2, <2>3 DEF m
<1>8. IsCycle(g, core)
  <2>1. Len(core) > 0 /\ Len(core) - 1 = m - k
    BY <1>1, <1>3
  <2> QED
    BY <1>3, <1>4, <1>5, <1>6, <1>7, <2>1 DEF IsCycle
<1> QED
  BY <1>2, <1>3, <1>8, TurnedCycle, TurnedPlaces DEF IsCycle

LEMMA LeftSet ==
    ASSUME NEW s, NEW P, NEW L, NEW V, NEW C, NEW rest,
           s \in [path : P, left : L, visited : V, cycles : C]
    PROVE  [s EXCEPT !.left = rest] =
              [path |-> s.path, left |-> rest, visited |-> s.visited, cycles |-> s.cycles]
OBVIOUS

(* One step of the search enters a root, leaves the last node of the path, *)
(* or takes a node from those left to visit below it.                      *)
Entered ==
    /\ search.path = <<>>
    /\ \E node \in DOMAIN graph \ search.visited :
          search' = [path |-> <<node>>, left |-> <<graph[node] \cap DOMAIN graph>>,
                     visited |-> search.visited, cycles |-> search.cycles]

Left ==
    /\ Len(search.path) > 0 /\ search.left[Len(search.path)] = {}
    /\ search' = Return(search)

Went ==
    /\ Len(search.path) > 0
    /\ \E node \in search.left[Len(search.path)] :
          search' = Visit(graph,
              [path |-> search.path,
               left |-> [search.left EXCEPT ![Len(search.path)] = @ \ {node}],
               visited |-> search.visited, cycles |-> search.cycles], node)

LEMMA StepCases ==
    ASSUME PathInv, SearchNext
    PROVE  Entered \/ Left \/ Went
<1>1. DOMAIN graph \subseteq Nat
  BY NodeAssumption DEF PathInv, PathOK, Graphs
<1>2. search' = SearchStep(graph, search) /\ ~ SearchDone(graph, search)
  BY DEF SearchNext
<1>3. /\ search.path \in Seq(Nat) /\ search.left \in Seq(SUBSET Nat)
      /\ Len(search.left) = Len(search.path) /\ search.visited \subseteq DOMAIN graph
      /\ search = [path |-> search.path, left |-> search.left, visited |-> search.visited,
                   cycles |-> search.cycles]
  BY DEF PathInv, PathOK
<1>4. CASE search.path = <<>>
  <2> DEFINE node == Smallest(DOMAIN graph \ search.visited)
  <2>1. node \in DOMAIN graph \ search.visited
    <3>1. DOMAIN graph \ search.visited # {}
      BY <1>2, <1>3, <1>4 DEF SearchDone
    <3> QED
      BY <1>1, <3>1, SmallestIsOne
  <2>2. search' = Visit(graph, search, node)
    BY <1>2, <1>4 DEF SearchStep
  <2> HIDE DEF node
  <2>3. node \notin Visiting(search.path) /\ node \notin search.visited
    BY <1>4, <2>1 DEF Visiting
  <2>4. search' = [search EXCEPT !.path = Append(@, node),
                                 !.left = Append(@, graph[node] \cap DOMAIN graph)]
    BY <2>2, <2>3 DEF Visit
  <2>5. search.left = <<>>
    BY <1>3, <1>4
  <2>6. search' = [path |-> Append(<<>>, node),
                   left |-> Append(<<>>, graph[node] \cap DOMAIN graph),
                   visited |-> search.visited, cycles |-> search.cycles]
    BY <1>3, <1>4, <2>4, <2>5
  <2>7. Append(<<>>, node) = <<node>> /\ <<node>> # <<>>
        /\ Append(<<>>, graph[node] \cap DOMAIN graph) = <<graph[node] \cap DOMAIN graph>>
    OBVIOUS
  <2>8. search' = [path |-> <<node>>, left |-> <<graph[node] \cap DOMAIN graph>>,
                   visited |-> search.visited, cycles |-> search.cycles]
    BY <2>6, <2>7
  <2> QED
    BY <1>4, <2>1, <2>8 DEF Entered
<1>5. CASE search.path # <<>>
  <2>1. Len(search.path) > 0
    BY <1>3, <1>5
  <2>2. CASE search.left[Len(search.path)] = {}
    BY <1>2, <1>3, <1>5, <2>1, <2>2 DEF SearchStep, Left
  <2>3. CASE search.left[Len(search.path)] # {}
    <3> DEFINE top == Len(search.path)
               node == Smallest(search.left[top])
    <3>1. search.left[top] \subseteq Nat
      BY <1>3, <2>1
    <3>2. node \in search.left[top]
      BY <2>3, <3>1, SmallestIsOne
    <3>3. search' = Visit(graph, [search EXCEPT !.left = [search.left EXCEPT ![top] = @ \ {node}]], node)
      BY <1>2, <1>3, <1>5, <2>3 DEF SearchStep
    <3> HIDE DEF node
    <3>4. [search EXCEPT !.left = [search.left EXCEPT ![top] = @ \ {node}]] =
             [path |-> search.path, left |-> [search.left EXCEPT ![top] = @ \ {node}],
              visited |-> search.visited, cycles |-> search.cycles]
      <4> DEFINE rest == [search.left EXCEPT ![top] = @ \ {node}]
      <4>1. search \in [path : Seq(Nat), left : Seq(SUBSET Nat),
                        visited : SUBSET DOMAIN graph, cycles : SUBSET Seq(Nat)]
        BY DEF PathInv
      <4> HIDE DEF rest
      <4>2. [search EXCEPT !.left = rest] =
               [path |-> search.path, left |-> rest, visited |-> search.visited,
                cycles |-> search.cycles]
        BY <4>1, LeftSet
      <4> QED
        BY <4>2 DEF rest
    <3> QED
      BY <2>1, <3>2, <3>3, <3>4 DEF Went
  <2> QED
    BY <2>2, <2>3
<1> QED
  BY <1>4, <1>5

LEMMA GraphOfNumbers ==
    ASSUME NEW g \in Graphs
    PROVE  DOMAIN g \in SUBSET Nat
<1>1. PICK D \in SUBSET Node : g \in [D -> SUBSET Node]
  BY DEF Graphs
<1> QED
  BY <1>1, NodeAssumption

(* The first node of a path. *)
LEMMA RootPath ==
    ASSUME NEW g, NEW v, NEW node \in DOMAIN g \ v, PathOK(g, <<>>, <<>>, v)
    PROVE  /\ PathOK(g, <<node>>, <<g[node] \cap DOMAIN g>>, v)
           /\ NothingSkipped(g, <<node>>, <<g[node] \cap DOMAIN g>>, v)
<1> DEFINE p == <<node>>
           l == <<g[node] \cap DOMAIN g>>
<1>1. g \in Graphs /\ v \subseteq DOMAIN g /\ DOMAIN g \in SUBSET Nat
  <2>1. g \in Graphs /\ v \subseteq DOMAIN g
    BY DEF PathOK
  <2> QED
    BY <2>1, GraphOfNumbers
<1>2. /\ p \in Seq(Nat) /\ Len(p) = 1 /\ p[1] = node
      /\ l \in Seq(SUBSET Nat) /\ Len(l) = 1 /\ l[1] = g[node] \cap DOMAIN g
  BY <1>1
<1> HIDE DEF p, l
<1>3. \A i \in 1 .. 1 : i = 1
  OBVIOUS
<1>4. \A i \in 1 .. 1 : p[i] \in DOMAIN g \ v /\ l[i] \subseteq g[p[i]] \cap DOMAIN g
  BY <1>2, <1>3
<1>5. \A i \in 1 .. 1 - 1 : p[i + 1] \in g[p[i]]
  OBVIOUS
<1>6. PathOK(g, p, l, v)
  BY <1>1, <1>2, <1>3, <1>4, <1>5 DEF PathOK
<1>7. NothingSkipped(g, p, l, v)
  BY <1>2, <1>3 DEF NothingSkipped
<1> QED
  BY <1>6, <1>7 DEF p, l

(* The last node of a path of which nothing is left to visit is done with. *)
Shorter(p, l, v, q, r, w) ==
    /\ Len(p) > 0 /\ l[Len(p)] = {}
    /\ q = SubSeq(p, 1, Len(p) - 1) /\ r = SubSeq(l, 1, Len(p) - 1)
    /\ w = v \cup {p[Len(p)]}

LEMMA ShorterPath ==
    ASSUME NEW g, NEW p, NEW l, NEW v, PathOK(g, p, l, v),
           NEW q, NEW r, NEW w, Shorter(p, l, v, q, r, w)
    PROVE  /\ PathOK(g, q, r, w)
           /\ DoneIsClosed(g, v) /\ NothingSkipped(g, p, l, v)
              => DoneIsClosed(g, w) /\ NothingSkipped(g, q, r, w)
<1> DEFINE top == Len(p)
           last == p[top]
<1>1. /\ g \in Graphs /\ p \in Seq(Nat) /\ l \in Seq(SUBSET Nat) /\ v \subseteq DOMAIN g
      /\ Len(l) = top
      /\ \A i \in 1 .. top : p[i] \in DOMAIN g \ v /\ l[i] \subseteq g[p[i]] \cap DOMAIN g
      /\ \A i, j \in 1 .. top : p[i] = p[j] => i = j
      /\ \A i \in 1 .. top - 1 : p[i + 1] \in g[p[i]]
  BY DEF PathOK
<1>2. top \in Nat /\ top > 0 /\ top \in 1 .. top /\ top - 1 \in Nat
  BY <1>1 DEF Shorter
<1>3. /\ q \in Seq(Nat) /\ r \in Seq(SUBSET Nat)
      /\ Len(q) = top - 1 /\ Len(r) = top - 1
      /\ \A i \in 1 .. top - 1 : q[i] = p[i] /\ r[i] = l[i]
  <2>1. q = SubSeq(p, 1, top - 1) /\ r = SubSeq(l, 1, top - 1)
    BY DEF Shorter
  <2> PICK X : X = SUBSET Nat
    OBVIOUS
  <2> HIDE DEF top
  <2>2. PICK x \in Nat : x = top - 1
    BY <1>2
  <2> USE DEF top
  <2>3. /\ SubSeq(p, 1, x) \in Seq(Nat) /\ Len(SubSeq(p, 1, x)) = x
        /\ \A i \in 1 .. x : SubSeq(p, 1, x)[i] = p[i]
    BY <1>1, <1>2, <2>2
  <2>4. /\ SubSeq(l, 1, x) \in Seq(X) /\ Len(SubSeq(l, 1, x)) = x
        /\ \A i \in 1 .. x : SubSeq(l, 1, x)[i] = l[i]
    BY <1>1, <1>2, <2>2
  <2> HIDE DEF top
  <2> QED
    BY <2>1, <2>2, <2>3, <2>4
<1>4. last \in DOMAIN g \ v /\ w = v \cup {last} /\ l[top] = {}
  BY <1>1, <1>2 DEF Shorter
<1> HIDE DEF top, last
<1>5. \A i \in 1 .. top - 1 : i \in 1 .. top /\ i # top
  BY <1>2
<1>6. \A i \in 1 .. top - 1 : p[i] # last
  BY <1>1, <1>2, <1>5 DEF last
<1>7. PathOK(g, q, r, w)
  <2>1. \A i \in 1 .. top - 1 : q[i] \in DOMAIN g \ w /\ r[i] \subseteq g[q[i]] \cap DOMAIN g
    BY <1>1, <1>3, <1>4, <1>5, <1>6
  <2>2. \A i, j \in 1 .. top - 1 : q[i] = q[j] => i = j
    BY <1>1, <1>3, <1>5
  <2>3. ASSUME NEW i \in 1 .. (top - 1) - 1 PROVE q[i + 1] \in g[q[i]]
    <3>1. i \in 1 .. top - 1 /\ i + 1 \in 1 .. top - 1
      BY <1>2
    <3> QED
      BY <1>1, <1>3, <3>1
  <2>4. w \subseteq DOMAIN g
    BY <1>1, <1>4
  <2> QED
    BY <1>1, <1>3, <2>1, <2>2, <2>3, <2>4 DEF PathOK
<1>8. ASSUME DoneIsClosed(g, v), NothingSkipped(g, p, l, v)
      PROVE  DoneIsClosed(g, w) /\ NothingSkipped(g, q, r, w)
  <2>1. g[last] \cap DOMAIN g \subseteq v
    BY <1>2, <1>4, <1>8 DEF NothingSkipped, top, last
  <2>2. \A n \in w : g[n] \cap DOMAIN g \subseteq w
    BY <1>4, <1>8, <2>1 DEF DoneIsClosed
  <2>3. ASSUME NEW S \in SUBSET w, S # {}
        PROVE  \E n \in S : g[n] \cap S = {}
    <3>1. CASE last \notin S
      BY <1>4, <1>8, <2>3, <3>1 DEF DoneIsClosed
    <3>2. CASE S = {last}
      BY <1>4, <2>1, <3>2
    <3>3. CASE last \in S /\ S # {last}
      <4> DEFINE R == S \ {last}
      <4>1. R \in SUBSET v /\ R # {}
        BY <1>4, <3>3
      <4>2. PICK n \in R : g[n] \cap R = {}
        <5> HIDE DEF R
        <5> QED
          BY <1>8, <4>1 DEF DoneIsClosed
      <4>3. last \notin g[n]
        BY <1>4, <1>8, <4>1 DEF DoneIsClosed
      <4> QED
        BY <4>2, <4>3
    <3> QED
      BY <3>1, <3>2, <3>3
  <2>4. ASSUME NEW i \in 1 .. top - 1, NEW n \in g[q[i]] \cap DOMAIN g
        PROVE  n \in w \cup r[i] \/ (i < top - 1 /\ n = q[i + 1])
    <3>1. i \in 1 .. top /\ q[i] = p[i] /\ r[i] = l[i]
      BY <1>3, <1>5
    <3>2. n \in v \cup l[i] \/ n = p[i + 1]
      BY <1>8, <3>1 DEF NothingSkipped, top
    <3>3. CASE i < top - 1
      <4>1. i + 1 \in 1 .. top - 1
        BY <1>2, <3>3
      <4> QED
        BY <1>3, <1>4, <3>1, <3>2, <3>3, <4>1
    <3>4. CASE i = top - 1
      <4>1. i + 1 = top
        BY <1>2, <3>4
      <4> QED
        BY <1>4, <3>1, <3>2, <4>1 DEF last
    <3>5. i < top - 1 \/ i = top - 1
      BY <1>2
    <3> QED
      BY <3>3, <3>4, <3>5
  <2> QED
    BY <1>3, <2>2, <2>3, <2>4 DEF DoneIsClosed, NothingSkipped
<1> QED
  BY <1>7, <1>8

(* A node is taken from those below the last of the path. *)
Dropped(p, l, node, r) ==
    /\ r \in Seq(SUBSET Nat) /\ Len(r) = Len(p)
    /\ \A i \in 1 .. Len(p) - 1 : r[i] = l[i]
    /\ r[Len(p)] = l[Len(p)] \ {node}

LEMMA SamePath ==
    ASSUME NEW g, NEW p, NEW l, NEW v, PathOK(g, p, l, v), Len(p) > 0,
           NEW node \in l[Len(p)], NEW r, Dropped(p, l, node, r)
    PROVE  /\ PathOK(g, p, r, v)
           /\ node \in v /\ NothingSkipped(g, p, l, v) => NothingSkipped(g, p, r, v)
<1> DEFINE top == Len(p)
<1>1. top \in Nat /\ top > 0
  BY DEF PathOK
<1>2. ASSUME NEW i \in 1 .. top PROVE r[i] = l[i] \/ (i = top /\ r[i] = l[i] \ {node})
  BY <1>1 DEF Dropped
<1>3. PathOK(g, p, r, v)
  BY <1>2 DEF PathOK, Dropped
<1>4. node \in v /\ NothingSkipped(g, p, l, v) => NothingSkipped(g, p, r, v)
  BY <1>2 DEF NothingSkipped
<1> QED
  BY <1>3, <1>4

(* The path goes on to a node that the search has not been to. *)
Longer(g, p, r, node, q, k) == q = Append(p, node) /\ k = Append(r, g[node] \cap DOMAIN g)

LEMMA LongerPath ==
    ASSUME NEW g, NEW p, NEW l, NEW v, PathOK(g, p, l, v), Len(p) > 0,
           NEW node \in l[Len(p)], NEW r, Dropped(p, l, node, r),
           node \notin v, node \notin Visiting(p),
           NEW q, NEW k, Longer(g, p, r, node, q, k)
    PROVE  /\ PathOK(g, q, k, v)
           /\ NothingSkipped(g, p, l, v) => NothingSkipped(g, q, k, v)
<1> DEFINE top == Len(p)
           below == g[node] \cap DOMAIN g
<1>1. /\ g \in Graphs /\ p \in Seq(Nat) /\ r \in Seq(SUBSET Nat) /\ v \subseteq DOMAIN g
      /\ Len(r) = top /\ Len(l) = top
      /\ \A i \in 1 .. top : p[i] \in DOMAIN g \ v /\ l[i] \subseteq g[p[i]] \cap DOMAIN g
      /\ \A i, j \in 1 .. top : p[i] = p[j] => i = j
      /\ \A i \in 1 .. top - 1 : p[i + 1] \in g[p[i]]
      /\ \A i \in 1 .. top - 1 : r[i] = l[i]
      /\ r[top] = l[top] \ {node}
  BY DEF PathOK, Dropped
<1>2. top \in Nat /\ top > 0 /\ top \in 1 .. top
  BY <1>1
<1>3. DOMAIN g \in SUBSET Nat
  BY <1>1, GraphOfNumbers
<1>4. node \in g[p[top]] /\ node \in DOMAIN g /\ node \in Nat /\ below \in SUBSET Nat
  BY <1>1, <1>2, <1>3
<1> HIDE DEF below
<1>5. /\ q \in Seq(Nat) /\ Len(q) = top + 1 /\ q[top + 1] = node
      /\ \A i \in 1 .. top : q[i] = p[i]
  BY <1>1, <1>4 DEF Longer
<1>6. /\ k \in Seq(SUBSET Nat) /\ Len(k) = top + 1 /\ k[top + 1] = below
      /\ \A i \in 1 .. top : k[i] = r[i]
  BY <1>1, <1>4 DEF below, Longer
<1>7. \A i \in 1 .. top : p[i] # node
  BY <1>1 DEF Visiting
<1> HIDE DEF top
<1>8. \A i \in 1 .. top + 1 : i \in 1 .. top \/ i = top + 1
  BY <1>2
<1>9. \A i \in 1 .. top : r[i] = l[i] \/ (i = top /\ r[i] = l[i] \ {node})
  BY <1>1, <1>2
<1>10. PathOK(g, q, k, v)
  <2>1. ASSUME NEW i \in 1 .. top + 1
        PROVE  q[i] \in DOMAIN g \ v /\ k[i] \subseteq g[q[i]] \cap DOMAIN g
    <3>1. CASE i = top + 1
      BY <1>4, <1>5, <1>6, <3>1 DEF below
    <3>2. CASE i \in 1 .. top
      BY <1>1, <1>5, <1>6, <1>9, <3>2
    <3> QED
      BY <1>8, <3>1, <3>2
  <2>2. ASSUME NEW i \in 1 .. top + 1, NEW j \in 1 .. top + 1, q[i] = q[j] PROVE i = j
    <3>1. CASE i \in 1 .. top /\ j \in 1 .. top
      <4>1. p[i] = p[j]
        BY <1>5, <2>2, <3>1
      <4> QED
        BY <1>1, <3>1, <4>1
    <3>2. CASE i \in 1 .. top /\ j = top + 1
      BY <1>5, <1>7, <2>2, <3>2
    <3>3. CASE i = top + 1 /\ j \in 1 .. top
      BY <1>5, <1>7, <2>2, <3>3
    <3> QED
      BY <1>8, <3>1, <3>2, <3>3
  <2>3. ASSUME NEW i \in 1 .. (top + 1) - 1 PROVE q[i + 1] \in g[q[i]]
    <3>1. i \in 1 .. top
      BY <1>2
    <3>2. CASE i = top
      BY <1>2, <1>4, <1>5, <3>2
    <3>3. CASE i # top
      <4>1. i \in 1 .. top - 1 /\ i + 1 \in 1 .. top
        BY <1>2, <3>3
      <4> QED
        BY <1>1, <1>5, <3>1, <4>1
    <3> QED
      BY <3>2, <3>3
  <2> QED
    BY <1>1, <1>5, <1>6, <2>1, <2>2, <2>3 DEF PathOK
<1>11. ASSUME NothingSkipped(g, p, l, v) PROVE NothingSkipped(g, q, k, v)
  <2>1. ASSUME NEW i \in 1 .. top + 1, NEW n \in g[q[i]] \cap DOMAIN g
        PROVE  n \in v \cup k[i] \/ (i < top + 1 /\ n = q[i + 1])
    <3>1. CASE i = top + 1
      BY <1>5, <1>6, <3>1 DEF below
    <3>2. CASE i \in 1 .. top
      <4>1. i < top + 1 /\ q[i] = p[i] /\ k[i] = r[i]
        BY <1>2, <1>5, <1>6, <3>2
      <4>2. n \in v \cup l[i] \/ (i < top /\ n = p[i + 1])
        BY <1>11, <3>2, <4>1 DEF NothingSkipped, top
      <4>3. CASE n \in v \cup l[i]
        BY <1>2, <1>5, <1>9, <3>2, <4>1, <4>3
      <4>4. CASE i < top /\ n = p[i + 1]
        <5>1. i + 1 \in 1 .. top
          BY <1>2, <3>2, <4>4
        <5> QED
          BY <1>5, <4>1, <4>4, <5>1
      <4> QED
        BY <4>2, <4>3, <4>4
    <3> QED
      BY <1>8, <3>1, <3>2
  <2> QED
    BY <1>5, <2>1 DEF NothingSkipped
<1> QED
  BY <1>10, <1>11

(* The search from one state to the next, in terms of its fields. *)
LEMMA FieldsSuffice ==
    ASSUME UNCHANGED graph, NEW q \in Seq(Nat), NEW k \in Seq(SUBSET Nat), NEW w, NEW d \in SUBSET Seq(Nat),
           search' = [path |-> q, left |-> k, visited |-> w, cycles |-> d],
           PathOK(graph, q, k, w), \A c \in d : IsCycle(graph, c),
           d = {} => DoneIsClosed(graph, w) /\ NothingSkipped(graph, q, k, w)
    PROVE  CycleSearchInv'
<1>1. /\ search'.path = q /\ search'.left = k /\ search'.visited = w /\ search'.cycles = d
      /\ graph' = graph
  OBVIOUS
<1>2. w \in SUBSET DOMAIN graph
  BY DEF PathOK
<1>3. PathInv'
  BY <1>1, <1>2 DEF PathInv
<1>4. CycleInv'
  BY <1>1 DEF CycleInv
<1>5. search'.cycles = {} => Settled'
  BY <1>1 DEF Settled
<1> QED
  BY <1>3, <1>4, <1>5 DEF CycleSearchInv

LEMMA SearchKeepsInv ==
    ASSUME CycleSearchInv, SearchNext
    PROVE  CycleSearchInv'
<1> DEFINE p == search.path
           l == search.left
           v == search.visited
           c == search.cycles
<1>1. /\ PathInv /\ UNCHANGED graph /\ PathOK(graph, p, l, v)
      /\ \A d \in c : IsCycle(graph, d)
      /\ c = {} => DoneIsClosed(graph, v) /\ NothingSkipped(graph, p, l, v)
      /\ c \in SUBSET Seq(Nat)
  BY DEF CycleSearchInv, PathInv, CycleInv, Settled, SearchNext
<1>2. /\ p \in Seq(Nat) /\ l \in Seq(SUBSET Nat) /\ Len(l) = Len(p)
  BY <1>1 DEF PathOK
<1>3. Entered \/ Left \/ Went
  BY <1>1, StepCases
<1>4. CASE Entered
  <2>1. PICK node \in DOMAIN graph \ v :
           search' = [path |-> <<node>>, left |-> <<graph[node] \cap DOMAIN graph>>,
                      visited |-> v, cycles |-> c]
    BY <1>4 DEF Entered
  <2>2. p = <<>> /\ l = <<>>
    BY <1>2, <1>4 DEF Entered
  <2>3. /\ PathOK(graph, <<node>>, <<graph[node] \cap DOMAIN graph>>, v)
        /\ NothingSkipped(graph, <<node>>, <<graph[node] \cap DOMAIN graph>>, v)
    BY <1>1, <2>2, RootPath
  <2>4. <<node>> \in Seq(Nat) /\ <<graph[node] \cap DOMAIN graph>> \in Seq(SUBSET Nat)
    BY <2>3 DEF PathOK
  <2> HIDE DEF p, l, v, c
  <2> QED
    BY <1>1, <2>1, <2>3, <2>4, FieldsSuffice
<1>5. CASE Left
  <2> DEFINE q == SubSeq(p, 1, Len(p) - 1)
             k == SubSeq(l, 1, Len(p) - 1)
             w == v \cup {p[Len(p)]}
  <2>1. search' = [path |-> q, left |-> k, visited |-> w, cycles |-> c]
    BY <1>2, <1>5 DEF Left, Return
  <2>2. Len(p) > 0 /\ l[Len(p)] = {}
    BY <1>5 DEF Left
  <2> HIDE DEF p, l, v, c, q, k, w
  <2>5. Shorter(p, l, v, q, k, w)
    BY <2>2 DEF Shorter, q, k, w
  <2>3. /\ PathOK(graph, q, k, w)
        /\ DoneIsClosed(graph, v) /\ NothingSkipped(graph, p, l, v)
           => DoneIsClosed(graph, w) /\ NothingSkipped(graph, q, k, w)
    BY <1>1, <2>5, ShorterPath
  <2>4. q \in Seq(Nat) /\ k \in Seq(SUBSET Nat)
    BY <2>3 DEF PathOK
  <2> QED
    BY <1>1, <2>1, <2>3, <2>4, FieldsSuffice
<1>6. CASE Went
  <2>1. Len(p) > 0
    BY <1>6 DEF Went
  <2>2. PICK node \in l[Len(p)] :
           search' = Visit(graph, [path |-> p, left |-> [l EXCEPT ![Len(p)] = @ \ {node}],
                                   visited |-> v, cycles |-> c], node)
    BY <1>6 DEF Went
  <2> DEFINE r == [l EXCEPT ![Len(p)] = @ \ {node}]
             s == [path |-> p, left |-> r, visited |-> v, cycles |-> c]
  <2> HIDE DEF p, l, v, c
  <2>3. Dropped(p, l, node, r)
    BY <1>2, <2>1 DEF Dropped
  <2>4. search' = Visit(graph, s, node)
    BY <2>2
  <2> HIDE DEF r
  <2>5. /\ node \in Nat /\ node \in graph[p[Len(p)]]
        /\ \A i \in 1 .. Len(p) : p[i] \in DOMAIN graph
        /\ \A i \in 1 .. Len(p) - 1 : p[i + 1] \in graph[p[i]]
    <3>1. Len(p) \in 1 .. Len(p)
      BY <1>2, <2>1
    <3>2. DOMAIN graph \in SUBSET Nat
      BY <1>1, GraphOfNumbers DEF PathOK
    <3>3. l[Len(p)] \subseteq graph[p[Len(p)]] \cap DOMAIN graph
      BY <1>1, <3>1 DEF PathOK
    <3> QED
      BY <1>1, <3>2, <3>3 DEF PathOK
  <2>6. /\ PathOK(graph, p, r, v) /\ r \in Seq(SUBSET Nat)
        /\ node \in v /\ NothingSkipped(graph, p, l, v) => NothingSkipped(graph, p, r, v)
    BY <1>1, <2>1, <2>3, SamePath DEF Dropped
  <2>7. CASE node \in Visiting(p)
    <3> DEFINE d == c \cup {Closing(p, node)}
    <3>0. node \notin v
      BY <1>1, <1>2, <2>7 DEF PathOK, Visiting
    <3>1. search' = [path |-> p, left |-> r, visited |-> v, cycles |-> d]
      BY <2>4, <2>7, <3>0 DEF Visit
    <3>2. IsCycle(graph, Closing(p, node)) /\ Closing(p, node) \in Seq(Nat)
      BY <1>2, <2>5, <2>7, ClosingIsCycle
    <3>3. d \in SUBSET Seq(Nat) /\ d # {} /\ \A e \in d : IsCycle(graph, e)
      BY <1>1, <3>2
    <3> HIDE DEF d
    <3> QED
      BY <1>1, <1>2, <2>6, <3>1, <3>3, FieldsSuffice
  <2>8. CASE node \notin Visiting(p) /\ node \in v
    <3>1. search' = [path |-> p, left |-> r, visited |-> v, cycles |-> c]
      BY <2>4, <2>8 DEF Visit
    <3> QED
      BY <1>1, <1>2, <2>6, <2>8, <3>1, FieldsSuffice
  <2>9. CASE node \notin Visiting(p) /\ node \notin v
    <3> DEFINE q == Append(p, node)
               k == Append(r, graph[node] \cap DOMAIN graph)
    <3>1. search' = [path |-> q, left |-> k, visited |-> v, cycles |-> c]
      BY <2>4, <2>9 DEF Visit
    <3> HIDE DEF q, k
    <3>4. Longer(graph, p, r, node, q, k)
      BY DEF Longer, q, k
    <3>2. /\ PathOK(graph, q, k, v)
          /\ NothingSkipped(graph, p, l, v) => NothingSkipped(graph, q, k, v)
      BY <1>1, <2>1, <2>3, <2>9, <3>4, LongerPath
    <3>3. q \in Seq(Nat) /\ k \in Seq(SUBSET Nat)
      BY <3>2 DEF PathOK
    <3> QED
      BY <1>1, <3>1, <3>2, <3>3, FieldsSuffice
  <2> QED
    BY <2>7, <2>8, <2>9
<1> QED
  BY <1>3, <1>4, <1>5, <1>6

(* Of every graph: a cycle that find_cycles reports is a cycle, and a graph *)
(* of which it reports none has none.                                       *)
THEOREM CycleReportsAreRight == SearchSpec => []CycleReportIsRight
<1>1. SearchInit => CycleSearchInv
  <2> SUFFICES ASSUME SearchInit PROVE CycleSearchInv
    OBVIOUS
  <2>1. /\ graph \in Graphs /\ search = SearchStart
        /\ search.path = <<>> /\ search.left = <<>> /\ search.visited = {} /\ search.cycles = {}
    BY DEF SearchInit, SearchStart
  <2>2. search \in [path : Seq(Nat), left : Seq(SUBSET Nat), visited : SUBSET DOMAIN graph,
                    cycles : SUBSET Seq(Nat)]
    BY <2>1 DEF SearchStart
  <2>3. PathOK(graph, <<>>, <<>>, {})
    BY <2>1 DEF PathOK
  <2>4. DoneIsClosed(graph, {}) /\ NothingSkipped(graph, <<>>, <<>>, {})
    BY DEF DoneIsClosed, NothingSkipped
  <2> QED
    BY <2>1, <2>2, <2>3, <2>4 DEF CycleSearchInv, PathInv, CycleInv, Settled
<1>2. CycleSearchInv /\ [SearchNext]_searchVars => CycleSearchInv'
  <2>1. CycleSearchInv /\ UNCHANGED searchVars => CycleSearchInv'
    BY DEF searchVars, CycleSearchInv, PathInv, CycleInv, Settled
  <2> QED
    BY <2>1, SearchKeepsInv
<1>3. CycleSearchInv => CycleReportIsRight
  BY DEF CycleSearchInv, CycleInv, IsCycle, Settled, DoneIsClosed, CycleReportIsRight,
         ReportedCyclesAreCycles, NoReportMeansAcyclic, Acyclic, SearchDone
<1> QED
  BY <1>1, <1>2, <1>3, PTL DEF SearchSpec

-----------------------------------------------------------------------------
(* The order of a report.                                                  *)

(* Lists of numbers are ordered as Python orders tuples.                   *)
LEMMA TupleIrreflexive ==
    ASSUME NEW s \in Seq(Nat)
    PROVE  ~ TupleBefore(s, s)
BY DEF TupleBefore

LEMMA TupleTransitive ==
    ASSUME NEW s \in Seq(Nat), NEW t \in Seq(Nat), NEW u \in Seq(Nat),
           TupleBefore(s, t), TupleBefore(t, u)
    PROVE  TupleBefore(s, u)
<1> DEFINE Differ(a, b, k) == /\ k \in (DOMAIN a) \cap (DOMAIN b) /\ a[k] < b[k]
                              /\ \A j \in 1 .. k - 1 : a[j] = b[j]
           Outgrows(a, b) == Len(a) < Len(b) /\ \A j \in DOMAIN a : a[j] = b[j]
<1>0. /\ Len(s) \in Nat /\ Len(t) \in Nat /\ Len(u) \in Nat
      /\ DOMAIN s = 1 .. Len(s) /\ DOMAIN t = 1 .. Len(t) /\ DOMAIN u = 1 .. Len(u)
      /\ \A i \in 1 .. Len(s) : s[i] \in Nat
      /\ \A i \in 1 .. Len(t) : t[i] \in Nat
      /\ \A i \in 1 .. Len(u) : u[i] \in Nat
  OBVIOUS
<1>1. (\E k : Differ(s, t, k)) \/ Outgrows(s, t)
  BY DEF TupleBefore
<1>2. (\E k : Differ(t, u, k)) \/ Outgrows(t, u)
  BY DEF TupleBefore
<1>3. ASSUME NEW k, Differ(s, u, k) PROVE TupleBefore(s, u)
  BY <1>3 DEF TupleBefore
<1>4. ASSUME Outgrows(s, u) PROVE TupleBefore(s, u)
  BY <1>4 DEF TupleBefore
<1>5. ASSUME NEW k, Differ(s, t, k), NEW l, Differ(t, u, l) PROVE TupleBefore(s, u)
  <2>1. k \in 1 .. Len(s) /\ k \in 1 .. Len(t) /\ l \in 1 .. Len(t) /\ l \in 1 .. Len(u)
    BY <1>0, <1>5
  <2>2. CASE k < l
    <3>0. k \in 1 .. l - 1 /\ k \in 1 .. Len(u)
      BY <1>0, <2>1, <2>2
    <3>1. k \in 1 .. Len(u) /\ t[k] = u[k]
      BY <1>5, <3>0
    <3>2. \A j \in 1 .. k - 1 : s[j] = u[j]
      BY <1>0, <1>5, <2>1, <2>2
    <3>3. Differ(s, u, k)
      BY <1>0, <1>5, <2>1, <3>1, <3>2
    <3> QED
      BY <1>3, <3>3
  <2>3. CASE k = l
    <3>1. Differ(s, u, k)
      BY <1>0, <1>5, <2>1, <2>3
    <3> QED
      BY <1>3, <3>1
  <2>4. CASE k > l
    <3>0. l \in 1 .. k - 1 /\ l \in 1 .. Len(s)
      BY <1>0, <2>1, <2>4
    <3>1. l \in 1 .. Len(s) /\ s[l] = t[l]
      BY <1>5, <3>0
    <3>2. \A j \in 1 .. l - 1 : s[j] = u[j]
      BY <1>0, <1>5, <2>1, <2>4
    <3>3. Differ(s, u, l)
      BY <1>0, <1>5, <2>1, <3>1, <3>2
    <3> QED
      BY <1>3, <3>3
  <2> QED
    BY <2>1, <2>2, <2>3, <2>4
<1>6. ASSUME NEW k, Differ(s, t, k), Outgrows(t, u) PROVE TupleBefore(s, u)
  <2>1. k \in 1 .. Len(s) /\ k \in 1 .. Len(t) /\ k \in 1 .. Len(u)
    <3>1. k \in 1 .. Len(s) /\ k \in 1 .. Len(t) /\ Len(t) < Len(u)
      BY <1>0, <1>6
    <3> QED
      BY <1>0, <3>1
  <2>2. t[k] = u[k] /\ \A j \in 1 .. k - 1 : t[j] = u[j]
    <3>1. \A j \in 1 .. k : j \in DOMAIN t
      BY <1>0, <2>1
    <3>2. k \in 1 .. k /\ \A j \in 1 .. k - 1 : j \in 1 .. k
      BY <2>1
    <3> QED
      BY <1>6, <3>1, <3>2
  <2>3. Differ(s, u, k)
    BY <1>0, <1>6, <2>1, <2>2
  <2> QED
    BY <1>3, <2>3
<1>7. ASSUME NEW l, Differ(t, u, l), Outgrows(s, t) PROVE TupleBefore(s, u)
  <2>1. l \in 1 .. Len(t) /\ l \in 1 .. Len(u)
    BY <1>0, <1>7
  <2>2. CASE l <= Len(s)
    <3>1. l \in 1 .. Len(s) /\ s[l] = t[l] /\ \A j \in 1 .. l - 1 : s[j] = t[j]
      <4>1. \A j \in 1 .. l : j \in DOMAIN s
        BY <1>0, <2>1, <2>2
      <4>2. l \in 1 .. l /\ \A j \in 1 .. l - 1 : j \in 1 .. l
        BY <2>1
      <4> QED
        BY <1>0, <1>7, <4>1, <4>2
    <3>2. Differ(s, u, l)
      BY <1>0, <1>7, <2>1, <3>1
    <3> QED
      BY <1>3, <3>2
  <2>3. CASE l > Len(s)
    <3>1. \A j \in 1 .. Len(s) : j \in 1 .. l - 1
      BY <1>0, <2>1, <2>3
    <3>2. \A j \in DOMAIN s : s[j] = u[j]
      BY <1>0, <1>7, <3>1
    <3>3. Len(s) < Len(u)
      BY <1>0, <2>1, <2>3
    <3>4. Outgrows(s, u)
      BY <3>2, <3>3
    <3> QED
      BY <1>4, <3>4
  <2> QED
    BY <1>0, <2>1, <2>2, <2>3
<1>8. ASSUME Outgrows(s, t), Outgrows(t, u) PROVE TupleBefore(s, u)
  <2>1. Outgrows(s, u)
    BY <1>0, <1>8
  <2> QED
    BY <1>4, <2>1
<1> HIDE DEF Differ, Outgrows
<1> QED
  BY <1>1, <1>2, <1>5, <1>6, <1>7, <1>8

LEMMA TupleTotal ==
    ASSUME NEW s \in Seq(Nat), NEW t \in Seq(Nat), s # t
    PROVE  TupleBefore(s, t) \/ TupleBefore(t, s)
<1> DEFINE D == {k \in 1 .. Len(s) : k \in 1 .. Len(t) /\ s[k] # t[k]}
<1>0. /\ Len(s) \in Nat /\ Len(t) \in Nat
      /\ DOMAIN s = 1 .. Len(s) /\ DOMAIN t = 1 .. Len(t)
      /\ \A i \in 1 .. Len(s) : s[i] \in Nat
      /\ \A i \in 1 .. Len(t) : t[i] \in Nat
  OBVIOUS
<1>1. CASE D # {}
  <2>1. D \subseteq Nat
    BY <1>0
  <2>2. PICK k \in D : \A j \in D : k <= j
    <3> HIDE DEF D
    <3> QED
      BY <1>1, <2>1, LeastElement
  <2>3. \A j \in 1 .. k - 1 : s[j] = t[j]
    BY <1>0, <2>2
  <2>4. s[k] < t[k] \/ t[k] < s[k]
    BY <1>0
  <2> QED
    BY <1>0, <2>3, <2>4 DEF TupleBefore
<1>2. CASE D = {}
  <2>1. CASE Len(s) = Len(t)
    <3>1. \A i \in 1 .. Len(s) : s[i] = t[i]
      BY <1>0, <1>2, <2>1
    <3>2. s = [i \in 1 .. Len(s) |-> s[i]] /\ t = [i \in 1 .. Len(s) |-> t[i]]
      BY <1>0, <2>1
    <3> QED
      BY <3>1, <3>2
  <2>2. CASE Len(s) < Len(t)
    <3>1. \A j \in 1 .. Len(s) : s[j] = t[j]
      BY <1>0, <1>2, <2>2
    <3> QED
      BY <1>0, <2>2, <3>1 DEF TupleBefore
  <2>3. CASE Len(t) < Len(s)
    <3>1. \A j \in 1 .. Len(t) : s[j] = t[j]
      BY <1>0, <1>2, <2>3
    <3> QED
      BY <1>0, <2>3, <3>1 DEF TupleBefore
  <2>4. \A x, y \in Nat : x = y \/ x < y \/ y < x
    OBVIOUS
  <2>5. Len(s) = Len(t) \/ Len(s) < Len(t) \/ Len(t) < Len(s)
    BY <1>0, <2>4
  <2> QED
    BY <2>1, <2>2, <2>3, <2>5, Zenon
<1> QED
  BY <1>1, <1>2

LEMMA FiniteIsBounded ==
    ASSUME NEW S, IsFiniteSet(S), S \subseteq Nat
    PROVE  \E b \in Nat : \A k \in S : k <= b
<1>0. PICK n \in Nat : ExistsSurjection(1 .. n, S)
  BY FS_NatSurjection
<1>1. PICK f : f \in Surjection(1 .. n, S)
  BY <1>0 DEF ExistsSurjection
<1>2. f \in [1 .. n -> S] /\ \A k \in S : \E i \in 1 .. n : f[i] = k
  BY <1>1 DEF Surjection
<1> DEFINE T == {m \in 0 .. n : \E b \in Nat : \A i \in 1 .. m : f[i] <= b}
<1>3. 0 \in T
  <2>1. \A i \in 1 .. 0 : f[i] <= 0
    OBVIOUS
  <2> QED
    BY <2>1
<1>4. ASSUME NEW m \in 1 .. n, m - 1 \in T PROVE m \in T
  <2>1. PICK b \in Nat : \A i \in 1 .. m - 1 : f[i] <= b
    BY <1>4
  <2>2. f[m] \in Nat /\ \A i \in 1 .. m - 1 : f[i] \in Nat
    <3>1. \A i \in 1 .. n : f[i] \in S
      BY <1>2
    <3>2. m \in 1 .. n /\ \A i \in 1 .. m - 1 : i \in 1 .. n
      OBVIOUS
    <3> QED
      BY <3>1, <3>2
  <2>3. b + f[m] \in Nat /\ \A i \in 1 .. m : f[i] <= b + f[m]
    <3>1. ASSUME NEW i \in 1 .. m PROVE f[i] <= b + f[m]
      <4>1. CASE i = m
        BY <2>2, <4>1
      <4>2. CASE i # m
        <5>1. i \in 1 .. m - 1
          BY <4>2
        <5> QED
          BY <2>1, <2>2, <5>1
      <4> QED
        BY <4>1, <4>2
    <3> QED
      BY <2>2, <3>1
  <2> QED
    BY <2>3
<1>5. n \in T
  <2> HIDE DEF T
  <2>1. 0 .. n \subseteq T
    BY <1>3, <1>4, ClosedSet
  <2> QED
    BY <2>1
<1>6. PICK b \in Nat : \A i \in 1 .. n : f[i] <= b
  BY <1>5
<1> QED
  BY <1>2, <1>6

LEMMA LargestNumber ==
    Largest \in Nat /\ Number \subseteq 1 .. Largest
<1>1. Number \subseteq Nat /\ IsFiniteSet(Number) /\ 0 \notin Number
  BY ReadinessAssumption, SynthesisAssumption
<1>2. \E n \in Number \cup {0} : \A k \in Number : k <= n
  <2> HIDE DEF Number
  <2>1. CASE Number = {}
    BY <2>1
  <2>2. CASE Number # {}
    <3>1. PICK b \in Nat : \A k \in Number : k <= b
      BY <1>1, FiniteIsBounded
    <3>2. Number \subseteq 0 .. b
      BY <1>1, <3>1
    <3> QED
      BY <2>2, <3>1, <3>2, GreatestElement
  <2> QED
    BY <2>1, <2>2
<1>3. Largest \in Number \cup {0} /\ \A k \in Number : k <= Largest
  <2> HIDE DEF Number
  <2> QED
    BY <1>2 DEF Largest
<1>4. ASSUME NEW k \in Number PROVE k \in 1 .. Largest
  <2>1. k \in Nat /\ k # 0 /\ k <= Largest /\ Largest \in Nat
    BY <1>1, <1>3
  <2> QED
    BY <2>1
<1> HIDE DEF Number
<1> QED
  BY <1>1, <1>3, <1>4

(* The numbers of a set in order: each of them, and nothing else.          *)
LEMMA AscendingLists ==
    ASSUME NEW S, S \subseteq Number
    PROVE  /\ Ascending(S) \in Seq(Nat)
           /\ \A k \in 1 .. Len(Ascending(S)) : Ascending(S)[k] \in S
           /\ \A n \in S : \E k \in 1 .. Len(Ascending(S)) : Ascending(S)[k] = n
<1> DEFINE s == [n \in 1 .. Largest |-> n]
<1>1. Largest \in Nat /\ S \subseteq 1 .. Largest
  BY LargestNumber
<1>2. s \in Seq(Nat) /\ Len(s) = Largest /\ \A n \in 1 .. Largest : s[n] = n
  BY <1>1
<1>3. Ascending(S) = Those(s, S)
  BY DEF Ascending
<1> HIDE DEF s
<1>4. Those(s, S) \in Seq(Nat)
  BY <1>2, ThoseSelects
<1>5. PICK e : Selects(e, Those(s, S), s, S)
  BY <1>2, ThoseSelects
<1>6. ASSUME NEW n \in S PROVE \E k \in 1 .. Len(Those(s, S)) : Those(s, S)[k] = n
  <2>1. n \in 1 .. Len(s) /\ s[n] = n
    BY <1>1, <1>2
  <2>2. PICK k \in 1 .. Len(Those(s, S)) : e[k] = n
    BY <1>5, <2>1 DEF Selects
  <2> QED
    BY <1>5, <2>1, <2>2 DEF Selects
<1>7. \A k \in 1 .. Len(Those(s, S)) : Those(s, S)[k] \in S
  BY <1>5 DEF Selects
<1> QED
  BY <1>3, <1>4, <1>6, <1>7

LEMMA AscendingTellsApart ==
    ASSUME NEW S, S \subseteq Number, NEW T, T \subseteq Number, Ascending(S) = Ascending(T)
    PROVE  S = T
<1>1. ASSUME NEW n \in S PROVE n \in T
  BY AscendingLists
<1>2. ASSUME NEW n \in T PROVE n \in S
  BY AscendingLists
<1> QED
  BY <1>1, <1>2

-----------------------------------------------------------------------------
(* A finite set with a strict order has an element at every rank.          *)
StrictOrder(R, S) ==
    /\ \A s \in S : <<s, s>> \notin R
    /\ \A s, t, u \in S : <<s, t>> \in R /\ <<t, u>> \in R => <<s, u>> \in R
    /\ \A s, t \in S : s = t \/ <<s, t>> \in R \/ <<t, s>> \in R

LEMMA Ranked ==
    ASSUME NEW S, IsFiniteSet(S), NEW R, StrictOrder(R, S), NEW k \in 1 .. Cardinality(S)
    PROVE  \E s \in S : Cardinality({t \in S : <<t, s>> \in R}) = k - 1
<1> DEFINE n == Cardinality(S)
           Before(s) == {t \in S : <<t, s>> \in R}
           rank == [s \in S |-> Cardinality(Before(s))]
<1>1. n \in Nat
  BY FS_CardinalityType
<1>2. ASSUME NEW s \in S PROVE IsFiniteSet(Before(s)) /\ Cardinality(Before(s)) \in 0 .. n - 1
  <2>1. Before(s) \subseteq S \ {s}
    BY DEF StrictOrder
  <2>2. IsFiniteSet(S \ {s}) /\ Cardinality(S \ {s}) = n - 1
    BY FS_RemoveElement
  <2>3. IsFiniteSet(Before(s)) /\ Cardinality(Before(s)) <= n - 1
    <3> HIDE DEF Before, n
    <3> QED
      BY <2>1, <2>2, FS_Subset
  <2>4. Cardinality(Before(s)) \in Nat
    BY <2>3, FS_CardinalityType
  <2> HIDE DEF Before, n
  <2> QED
    BY <1>1, <2>3, <2>4
<1>3. ASSUME NEW s \in S, NEW t \in S, <<s, t>> \in R PROVE rank[s] < rank[t]
  <2>1. Before(s) \cup {s} \subseteq Before(t) /\ s \notin Before(s)
    BY <1>3 DEF StrictOrder
  <2> HIDE DEF Before
  <2>2. Cardinality(Before(s) \cup {s}) = Cardinality(Before(s)) + 1
    BY <1>2, <2>1, FS_AddElement
  <2>3. Cardinality(Before(s) \cup {s}) <= Cardinality(Before(t))
    BY <1>2, <2>1, FS_Subset
  <2>4. Cardinality(Before(s)) \in Nat /\ Cardinality(Before(t)) \in Nat
    BY <1>1, <1>2
  <2> QED
    BY <2>2, <2>3, <2>4
<1>4. rank \in [S -> 0 .. n - 1]
  <2> HIDE DEF Before, n
  <2> QED
    BY <1>2
<1>5. rank \in Injection(S, 0 .. n - 1)
  <2>1. \A s \in S : rank[s] \in Nat
    BY <1>1, <1>4
  <2>2. ASSUME NEW s \in S, NEW t \in S, rank[s] = rank[t] PROVE s = t
    <3>1. ~ (rank[s] < rank[t]) /\ ~ (rank[t] < rank[s])
      BY <2>1, <2>2
    <3> HIDE DEF rank
    <3> QED
      BY <1>3, <3>1 DEF StrictOrder
  <2> HIDE DEF rank, n
  <2> QED
    BY <1>4, <2>2 DEF Injection, IsInjective
<1>6. IsFiniteSet(0 .. n - 1) /\ Cardinality(0 .. n - 1) = n
  <2>1. 0 \in Int /\ n - 1 \in Int
    BY <1>1
  <2> HIDE DEF n
  <2> QED
    BY <1>1, <2>1, FS_Interval
<1>7. rank \in Surjection(S, 0 .. n - 1)
  <2> HIDE DEF rank
  <2> QED
    BY <1>5, <1>6, FS_Injection
<1>8. PICK s \in S : rank[s] = k - 1
  <2>1. k - 1 \in 0 .. n - 1
    BY <1>1
  <2> HIDE DEF rank, n
  <2> QED
    BY <1>7, <2>1 DEF Surjection
<1> QED
  BY <1>8

-----------------------------------------------------------------------------
(* The signals of a report.                                                *)
Signal == [numbers : (SUBSET Number) \ {{}}, about : Seq(Nat)]

LEMMA SignalOrder ==
    ASSUME NEW S, S \subseteq Signal
    PROVE  StrictOrder({p \in S \X S : SignalBefore(p[1], p[2])}, S)
<1> DEFINE R == {p \in S \X S : SignalBefore(p[1], p[2])}
           A(s) == Ascending(s.numbers)
<1>1. ASSUME NEW s \in S
      PROVE  /\ s.numbers \subseteq Number /\ s.about \in Seq(Nat)
             /\ s = [numbers |-> s.numbers, about |-> s.about]
             /\ A(s) \in Seq(Nat)
  <2>1. s.numbers \subseteq Number /\ s.about \in Seq(Nat)
        /\ s = [numbers |-> s.numbers, about |-> s.about]
    BY DEF Signal
  <2> HIDE DEF Number
  <2> QED
    BY <2>1, AscendingLists
<1>2. \A s, t \in S : <<s, t>> \in R <=> SignalBefore(s, t)
  OBVIOUS
<1>3. \A s, t \in S : SignalBefore(s, t)
         <=> TupleBefore(A(s), A(t)) \/ (s.numbers = t.numbers /\ TupleBefore(s.about, t.about))
  BY DEF SignalBefore
<1>4. ASSUME NEW s \in S, NEW t \in S, s.numbers = t.numbers PROVE A(s) = A(t)
  BY <1>4
<1>5. ASSUME NEW s \in S, NEW t \in S, s.numbers # t.numbers PROVE A(s) # A(t)
  BY <1>1, <1>5, AscendingTellsApart
<1> HIDE DEF R, A
<1>6. \A s \in S : ~ SignalBefore(s, s)
  BY <1>1, <1>3, TupleIrreflexive
<1>7. ASSUME NEW s \in S, NEW t \in S, NEW u \in S, SignalBefore(s, t), SignalBefore(t, u)
      PROVE  SignalBefore(s, u)
  <2>1. TupleBefore(A(s), A(t)) \/ (s.numbers = t.numbers /\ TupleBefore(s.about, t.about))
    BY <1>3, <1>7
  <2>2. TupleBefore(A(t), A(u)) \/ (t.numbers = u.numbers /\ TupleBefore(t.about, u.about))
    BY <1>3, <1>7
  <2>3. CASE TupleBefore(A(s), A(t)) /\ TupleBefore(A(t), A(u))
    <3>1. TupleBefore(A(s), A(u))
      BY <1>1, <2>3, TupleTransitive
    <3> QED
      BY <1>3, <3>1
  <2>4. CASE TupleBefore(A(s), A(t)) /\ t.numbers = u.numbers
    BY <1>3, <1>4, <2>4
  <2>5. CASE s.numbers = t.numbers /\ TupleBefore(A(t), A(u))
    BY <1>3, <1>4, <2>5
  <2>6. CASE /\ s.numbers = t.numbers /\ t.numbers = u.numbers
             /\ TupleBefore(s.about, t.about) /\ TupleBefore(t.about, u.about)
    <3>1. TupleBefore(s.about, u.about)
      BY <1>1, <2>6, TupleTransitive
    <3> QED
      BY <1>3, <2>6, <3>1
  <2> QED
    BY <2>1, <2>2, <2>3, <2>4, <2>5, <2>6
<1>8. ASSUME NEW s \in S, NEW t \in S, s # t
      PROVE  SignalBefore(s, t) \/ SignalBefore(t, s)
  <2>1. CASE s.numbers # t.numbers
    <3>1. TupleBefore(A(s), A(t)) \/ TupleBefore(A(t), A(s))
      BY <1>1, <1>5, <2>1, TupleTotal
    <3> QED
      BY <1>3, <3>1
  <2>2. CASE s.numbers = t.numbers
    <3>1. s.about # t.about
      BY <1>1, <1>8, <2>2
    <3>2. TupleBefore(s.about, t.about) \/ TupleBefore(t.about, s.about)
      BY <1>1, <3>1, TupleTotal
    <3> QED
      BY <1>3, <2>2, <3>2
  <2> QED
    BY <2>1, <2>2
<1>9. /\ \A s \in S : <<s, s>> \notin R
      /\ \A s, t, u \in S : <<s, t>> \in R /\ <<t, u>> \in R => <<s, u>> \in R
      /\ \A s, t \in S : s = t \/ <<s, t>> \in R \/ <<t, s>> \in R
  BY <1>2, <1>6, <1>7, <1>8
<1>10. StrictOrder(R, S)
  BY <1>9 DEF StrictOrder
<1> QED
  BY <1>10 DEF R

LEMMA InOrderLists ==
    ASSUME NEW S, S \subseteq Signal, IsFiniteSet(S)
    PROVE  InOrder(S) \in Seq(S)
<1> DEFINE R == {p \in S \X S : SignalBefore(p[1], p[2])}
           n == Cardinality(S)
           At(s, k) == Cardinality({t \in S : SignalBefore(t, s)}) = k - 1
<1>1. n \in Nat
  BY FS_CardinalityType
<1>2. StrictOrder(R, S)
  BY SignalOrder
<1>3. ASSUME NEW k \in 1 .. n PROVE \E s \in S : At(s, k)
  <2>1. PICK s \in S : Cardinality({t \in S : <<t, s>> \in R}) = k - 1
    <3> HIDE DEF R
    <3> QED
      BY <1>2, Ranked
  <2>2. {t \in S : <<t, s>> \in R} = {t \in S : SignalBefore(t, s)}
    OBVIOUS
  <2> QED
    BY <2>1, <2>2
<1>4. \A k \in 1 .. n : (CHOOSE s \in S : At(s, k)) \in S
  <2> HIDE DEF At
  <2> QED
    BY <1>3
<1>5. InOrder(S) = [k \in 1 .. n |-> CHOOSE s \in S : At(s, k)]
  BY DEF InOrder
<1> HIDE DEF At, n
<1> QED
  BY <1>1, <1>4, <1>5

LEMMA ImageIsFinite ==
    ASSUME NEW D, IsFiniteSet(D), NEW f, DOMAIN f = D, f = [x \in D |-> f[x]]
    PROVE  IsFiniteSet({f[x] : x \in D})
<1>1. f \in Surjection(D, {f[x] : x \in D})
  BY DEF Surjection
<1> QED
  BY <1>1, FS_Surjection

LEMMA OpenAreNumbers ==
    /\ Open \subseteq Issue /\ Open \subseteq Number /\ Issue \subseteq Number
    /\ Number \subseteq Nat /\ IsFiniteSet(Open) /\ IsFiniteSet(Issue)
<1>1. Open \subseteq Issue /\ IsFiniteSet(Issue) /\ Number \subseteq Nat
  BY ReadinessAssumption DEF Open
<1> QED
  BY <1>1, FS_Subset DEF Number

(* The conflicts of the plan.                                              *)
LEMMA ConflictsAreOfIssues ==
    OrderingConflicts \subseteq Issue \X Issue /\ IsFiniteSet(OrderingConflicts)
<1>1. OrderingConflicts \subseteq Issue \X Issue
  BY DEF OrderingConflicts
<1>2. IsFiniteSet(Issue \X Issue)
  BY OpenAreNumbers, FS_Product
<1> QED
  BY <1>1, <1>2, FS_Subset

(* Each kind of signal is a finite set of signals about some issue.        *)
LEMMA SignalSets ==
    /\ SemanticSignals \subseteq Signal /\ IsFiniteSet(SemanticSignals)
    /\ OverlapSignals \subseteq Signal /\ IsFiniteSet(OverlapSignals)
    /\ DuplicateSignals \subseteq Signal /\ IsFiniteSet(DuplicateSignals)
    /\ SplitSignals \subseteq Signal /\ IsFiniteSet(SplitSignals)
    /\ InversionSignals \subseteq Signal /\ IsFiniteSet(InversionSignals)
<1>0. \A n \in Number : n \in Nat
  BY OpenAreNumbers
<1>1. SemanticSignals \subseteq Signal /\ IsFiniteSet(SemanticSignals)
  <2> DEFINE D == {k \in Open : Hypothesis[k] # {}}
             f == [i \in D |-> [numbers |-> {i} \cup UNION Hypothesis[i], about |-> <<i>>]]
  <2>1. IsFiniteSet(D)
    BY OpenAreNumbers, FS_Subset
  <2>2. SemanticSignals = {f[i] : i \in D}
    BY DEF SemanticSignals
  <2>3. ASSUME NEW i \in D PROVE f[i] \in Signal
    <3>1. i \in Number /\ i \in Issue
      BY OpenAreNumbers
    <3>2. UNION Hypothesis[i] \subseteq Number
      <4>1. Hypothesis[i] \in SUBSET SUBSET Number
        BY <3>1, SynthesisAssumption
      <4> HIDE DEF Number
      <4> QED
        BY <4>1
    <3>3. <<i>> \in Seq(Nat)
      BY <1>0, <3>1
    <3>4. {i} \cup UNION Hypothesis[i] \in (SUBSET Number) \ {{}}
      BY <3>1, <3>2
    <3> QED
      BY <3>3, <3>4 DEF Signal
  <2>4. IsFiniteSet({f[i] : i \in D})
    <3>1. DOMAIN f = D /\ f = [x \in D |-> f[x]]
      OBVIOUS
    <3> HIDE DEF f, D
    <3> QED
      BY <2>1, <3>1, ImageIsFinite
  <2> HIDE DEF f
  <2> QED
    BY <2>2, <2>3, <2>4
<1>2. IsFiniteSet(Open \X Open) /\ IsFiniteSet(Issue \X Issue)
  BY OpenAreNumbers, FS_Product
<1>3. ASSUME NEW i \in Number, NEW j \in Number
      PROVE  /\ [numbers |-> {i, j}, about |-> <<i, j>>] \in Signal
             /\ [numbers |-> {i, j}, about |-> <<Smallest({i, j})>>] \in Signal
  <2>1. {i, j} \in (SUBSET Number) \ {{}} /\ {i, j} \subseteq Nat
    BY <1>0
  <2>2. Smallest({i, j}) \in Nat
    BY <2>1, SmallestIsOne
  <2>3. <<i, j>> \in Seq(Nat) /\ <<Smallest({i, j})>> \in Seq(Nat)
    BY <1>0, <2>2
  <2> QED
    BY <2>1, <2>3 DEF Signal
<1>4. OverlapSignals \subseteq Signal /\ IsFiniteSet(OverlapSignals)
  <2> DEFINE D == {q \in Open \X Open : q[2] \in Rivals(q[1])}
             f == [p \in D |-> [numbers |-> {p[1], p[2]}, about |-> <<Smallest({p[1], p[2]})>>]]
  <2>1. IsFiniteSet(D)
    BY <1>2, FS_Subset
  <2>2. OverlapSignals = {f[p] : p \in D}
    BY DEF OverlapSignals
  <2>3. \A p \in D : f[p] \in Signal
    BY <1>3, OpenAreNumbers
  <2>4. IsFiniteSet({f[p] : p \in D})
    <3>1. DOMAIN f = D /\ f = [x \in D |-> f[x]]
      OBVIOUS
    <3> HIDE DEF f, D
    <3> QED
      BY <2>1, <3>1, ImageIsFinite
  <2> HIDE DEF f
  <2> QED
    BY <2>2, <2>3, <2>4
<1>5. DuplicateSignals \subseteq Signal /\ IsFiniteSet(DuplicateSignals)
  <2> DEFINE D == {q \in OpenPairs : Similarity(q[1], q[2], 8)}
             f == [p \in D |-> [numbers |-> {p[1], p[2]}, about |-> p]]
  <2>1. D \subseteq Open \X Open
    BY DEF OpenPairs
  <2>2. IsFiniteSet(D)
    BY <1>2, <2>1, FS_Subset
  <2>3. DuplicateSignals = {f[p] : p \in D}
    BY DEF DuplicateSignals
  <2>4. ASSUME NEW p \in D PROVE f[p] \in Signal
    <3>1. p[1] \in Number /\ p[2] \in Number /\ p = <<p[1], p[2]>>
      BY <2>1, OpenAreNumbers
    <3> QED
      BY <1>3, <3>1
  <2>5. IsFiniteSet({f[p] : p \in D})
    <3>1. DOMAIN f = D /\ f = [x \in D |-> f[x]]
      OBVIOUS
    <3> HIDE DEF f, D
    <3> QED
      BY <2>2, <3>1, ImageIsFinite
  <2> HIDE DEF f
  <2> QED
    BY <2>3, <2>4, <2>5
<1>6. SplitSignals \subseteq Signal /\ IsFiniteSet(SplitSignals)
  <2> DEFINE D == Splits \cap Open
             f == [i \in D |-> [numbers |-> {i}, about |-> <<i>>]]
  <2>1. IsFiniteSet(D)
    BY OpenAreNumbers, FS_Subset
  <2>2. SplitSignals = {f[i] : i \in D}
    BY DEF SplitSignals
  <2>3. ASSUME NEW i \in D PROVE f[i] \in Signal
    <3>1. i \in Number /\ i \in Nat
      BY <1>0, OpenAreNumbers
    <3>2. {i} \in (SUBSET Number) \ {{}} /\ <<i>> \in Seq(Nat)
      BY <3>1
    <3>3. f[i] = [numbers |-> {i}, about |-> <<i>>]
      OBVIOUS
    <3> HIDE DEF f
    <3> QED
      BY <3>2, <3>3 DEF Signal
  <2>4. IsFiniteSet({f[i] : i \in D})
    <3>1. DOMAIN f = D /\ f = [x \in D |-> f[x]]
      OBVIOUS
    <3> HIDE DEF f, D
    <3> QED
      BY <2>1, <3>1, ImageIsFinite
  <2> HIDE DEF f
  <2> QED
    BY <2>2, <2>3, <2>4
<1>7. InversionSignals \subseteq Signal /\ IsFiniteSet(InversionSignals)
  <2> DEFINE D == OrderingConflicts
             f == [p \in D |-> [numbers |-> {p[1], p[2]}, about |-> p]]
  <2>1. D \subseteq Issue \X Issue /\ IsFiniteSet(D)
    BY ConflictsAreOfIssues
  <2>2. InversionSignals = {f[p] : p \in D}
    BY DEF InversionSignals
  <2>3. ASSUME NEW p \in D PROVE f[p] \in Signal
    <3>1. p \in Issue \X Issue
      BY <2>1
    <3>2. p[1] \in Issue /\ p[2] \in Issue /\ p = <<p[1], p[2]>>
      BY <3>1
    <3>3. p[1] \in Number /\ p[2] \in Number
      BY <3>2, OpenAreNumbers
    <3>4. f[p] = [numbers |-> {p[1], p[2]}, about |-> <<p[1], p[2]>>]
      BY <3>2
    <3> HIDE DEF f, D
    <3> QED
      BY <1>3, <3>3, <3>4
  <2>4. IsFiniteSet({f[p] : p \in D})
    <3>1. DOMAIN f = D /\ f = [x \in D |-> f[x]]
      OBVIOUS
    <3> HIDE DEF f, D
    <3> QED
      BY <2>1, <3>1, ImageIsFinite
  <2> HIDE DEF f
  <2> QED
    BY <2>2, <2>3, <2>4
<1> QED
  BY <1>1, <1>4, <1>5, <1>6, <1>7

LEMMA ReportIsOfSignals == Report \in Seq(Signal)
<1>1. \A S : S \subseteq Signal /\ IsFiniteSet(S) => InOrder(S) \in Seq(Signal)
  <2> SUFFICES ASSUME NEW S, S \subseteq Signal, IsFiniteSet(S) PROVE InOrder(S) \in Seq(Signal)
    OBVIOUS
  <2>1. InOrder(S) \in Seq(S)
    BY InOrderLists
  <2> HIDE DEF Signal
  <2> QED
    BY <2>1
<1>2. /\ InOrder(SemanticSignals) \in Seq(Signal) /\ InOrder(OverlapSignals) \in Seq(Signal)
      /\ InOrder(DuplicateSignals) \in Seq(Signal) /\ InOrder(SplitSignals) \in Seq(Signal)
      /\ InOrder(InversionSignals) \in Seq(Signal)
  BY <1>1, SignalSets
<1> QED
  BY <1>2 DEF Report

-----------------------------------------------------------------------------
(* The evidence of a packet.                                               *)
LEMMA TakenPlaces ==
    ASSUME NEW report \in Seq(Signal), NEW filter
    PROVE  /\ Taken(report, filter) \in Seq(Nat)
           /\ \A n \in 1 .. Len(Taken(report, filter)) :
                 /\ Taken(report, filter)[n] \in 1 .. Len(report)
                 /\ InScope(filter, report[Taken(report, filter)[n]].numbers)
<1> DEFINE s == [k \in DOMAIN report |-> k]
           S == {k \in DOMAIN report : InScope(filter, report[k].numbers)}
<1>1. s \in Seq(Nat)
  OBVIOUS
<1>2. Taken(report, filter) = Those(s, S)
  BY DEF Taken
<1> HIDE DEF s
<1>3. Those(s, S) \in Seq(Nat)
  BY <1>1, ThoseSelects
<1>4. PICK e : Selects(e, Those(s, S), s, S)
  <2> HIDE DEF S
  <2> QED
    BY <1>1, ThoseSelects
<1>5. \A n \in 1 .. Len(Those(s, S)) : Those(s, S)[n] \in S
  <2> HIDE DEF S
  <2> QED
    BY <1>4 DEF Selects
<1> QED
  BY <1>2, <1>3, <1>5

ItemsAre(items, report, taken, disposed) ==
    /\ DOMAIN items = 1 .. Len(taken) + Len(disposed)
    /\ \A k \in 1 .. Len(taken) :
          items[k].id = k /\ items[k].numbers = report[taken[k]].numbers
    /\ \A k \in 1 .. Len(disposed) :
          /\ items[Len(taken) + k].id = Len(taken) + k
          /\ items[Len(taken) + k].numbers = {disposed[k]}

LEMMA Joined ==
    ASSUME NEW V, NEW a \in Seq(V), NEW b \in Seq(V)
    PROVE  /\ DOMAIN (a \o b) = 1 .. Len(a) + Len(b)
           /\ \A k \in 1 .. Len(a) : (a \o b)[k] = a[k]
           /\ \A k \in 1 .. Len(b) : (a \o b)[Len(a) + k] = b[k]
<1>1. /\ Len(a) \in Nat /\ Len(b) \in Nat /\ a \o b \in Seq(V)
      /\ Len(a \o b) = Len(a) + Len(b)
  OBVIOUS
<1>2. \A k \in 1 .. Len(a) : (a \o b)[k] = a[k]
  OBVIOUS
<1>3. \A k \in 1 .. Len(b) : (a \o b)[Len(a) + k] = b[k]
  OBVIOUS
<1> QED
  BY <1>1, <1>2, <1>3

LEMMA PacketEvidence ==
    ASSUME NEW report \in Seq(Signal), NEW filter, Disposed(filter) \in Seq(Nat)
    PROVE  ItemsAre(EvidenceItems(report, filter), report, Taken(report, filter), Disposed(filter))
<1> DEFINE items == EvidenceItems(report, filter)
           m == Len(Taken(report, filter))
           d == Len(Disposed(filter))
<1> DEFINE taken == Taken(report, filter)
           disposed == Disposed(filter)
           signal == [n \in 1 .. m |-> [id |-> n, numbers |-> report[taken[n]].numbers]]
           rest == [n \in 1 .. d |-> [id |-> m + 1 + n - 1, numbers |-> {disposed[n]}]]
           V == {signal[n] : n \in 1 .. m} \cup {rest[n] : n \in 1 .. d}
<1>1. taken \in Seq(Nat) /\ disposed \in Seq(Nat)
  BY TakenPlaces
<1>2. m \in Nat /\ d \in Nat /\ DOMAIN taken = 1 .. m /\ DOMAIN disposed = 1 .. d
  BY <1>1
<1>3. SignalEvidence(report, filter) = signal
  BY <1>2 DEF SignalEvidence
<1>4. signal \in Seq(V) /\ Len(signal) = m
  BY <1>2
<1>5. DispositionEvidence(m + 1, filter) = rest
  BY <1>2 DEF DispositionEvidence
<1>6. rest \in Seq(V) /\ Len(rest) = d
  <2>1. d \in Nat /\ DOMAIN rest = 1 .. d /\ \A n \in 1 .. d : rest[n] \in V
    BY <1>2
  <2>2. rest = [n \in 1 .. d |-> rest[n]]
    OBVIOUS
  <2> HIDE DEF rest, V, d
  <2> QED
    BY <2>1, <2>2
<1>7. items = signal \o rest
  BY <1>3, <1>4, <1>5 DEF EvidenceItems
<1>8. \A k \in 1 .. m : signal[k].id = k /\ signal[k].numbers = report[taken[k]].numbers
  OBVIOUS
<1>9. \A k \in 1 .. d : rest[k].id = m + k /\ rest[k].numbers = {disposed[k]}
  <2>1. \A k \in 1 .. d : m + 1 + k - 1 = m + k
    BY <1>2
  <2> QED
    BY <2>1
<1> HIDE DEF signal, rest, V, m, d, items, taken, disposed
<1>10. DOMAIN items = 1 .. m + d
  BY <1>4, <1>6, <1>7, Joined
<1>11. \A k \in 1 .. m : items[k] = signal[k]
  BY <1>4, <1>6, <1>7, Joined
<1>12. \A k \in 1 .. d : items[m + k] = rest[k]
  BY <1>4, <1>6, <1>7, Joined
<1>13. ItemsAre(items, report, taken, disposed)
  BY <1>8, <1>9, <1>10, <1>11, <1>12 DEF ItemsAre, m, d, taken, disposed
<1> QED
  BY <1>13 DEF items, taken, disposed

LEMMA DisposedLists ==
    ASSUME NEW filter
    PROVE  /\ Disposed(filter) \in Seq(Nat)
           /\ \A i \in Open : InScope(filter, {i}) =>
                 \E k \in 1 .. Len(Disposed(filter)) : Disposed(filter)[k] = i
<1> DEFINE S == {i \in Open : InScope(filter, {i})}
<1>1. S \subseteq Number
  BY OpenAreNumbers
<1>2. /\ Ascending(S) \in Seq(Nat)
      /\ \A n \in S : \E k \in 1 .. Len(Ascending(S)) : Ascending(S)[k] = n
  <2> HIDE DEF S, Number
  <2> QED
    BY <1>1, AscendingLists
<1> QED
  BY <1>2 DEF Disposed

(* Of every tracker and every filter, a reviewer's verdict cites evidence  *)
(* that is what it says and covers the scope of the packet.                *)
LEMMA EvidenceOfFilter ==
    ASSUME NEW filter \in Filters
    PROVE  LET report == Report
               sets  == CandidateSets(report, filter)
               items == EvidenceItems(report, filter)
               scope == ScopeNumbers(report, filter)
           IN  /\ \A k, l \in DOMAIN items : items[k].id = items[l].id => k = l
               /\ \A n \in DOMAIN sets : \E k \in DOMAIN items :
                     /\ items[k].id = sets[n].evidence
                     /\ items[k].numbers = sets[n].numbers
                     /\ report[sets[n].source].numbers = sets[n].numbers
               /\ \A n \in DOMAIN sets : sets[n].numbers \cap scope # {}
               /\ \A mm \in PacketNearMisses(filter) : mm \cap scope # {}
               /\ \A i \in scope \cap Open : \E k \in DOMAIN items : items[k].numbers = {i}
<1> DEFINE report == Report
           taken == Taken(report, filter)
           m == Len(taken)
           d == Len(Disposed(filter))
           sets  == CandidateSets(report, filter)
           items == EvidenceItems(report, filter)
           scope == ScopeNumbers(report, filter)
<1>1. report \in Seq(Signal)
  BY ReportIsOfSignals
<1>2. /\ Disposed(filter) \in Seq(Nat)
      /\ \A i \in Open : InScope(filter, {i}) => \E k \in 1 .. d : Disposed(filter)[k] = i
  BY DisposedLists
<1>3. /\ taken \in Seq(Nat)
      /\ \A n \in 1 .. m : taken[n] \in 1 .. Len(report) /\ InScope(filter, report[taken[n]].numbers)
  <2> HIDE DEF report
  <2> QED
    BY <1>1, TakenPlaces
<1>4. /\ m \in Nat /\ d \in Nat /\ DOMAIN items = 1 .. m + d
      /\ \A k \in 1 .. m : items[k].id = k /\ items[k].numbers = report[taken[k]].numbers
      /\ \A k \in 1 .. d : items[m + k].id = m + k /\ items[m + k].numbers = {Disposed(filter)[k]}
  <2>1. ItemsAre(items, report, taken, Disposed(filter))
    <3> HIDE DEF report
    <3> QED
      BY <1>1, <1>2, PacketEvidence
  <2>2. m \in Nat /\ d \in Nat
    BY <1>2, <1>3
  <2> HIDE DEF report, taken, items
  <2> QED
    BY <2>1, <2>2 DEF ItemsAre
<1>5. /\ DOMAIN sets = 1 .. m
      /\ \A n \in 1 .. m : /\ sets[n].source = taken[n] /\ sets[n].evidence = n
                           /\ sets[n].numbers = report[taken[n]].numbers
  <2>1. DOMAIN taken = 1 .. m
    BY <1>3
  <2> HIDE DEF report
  <2> QED
    BY <2>1 DEF CandidateSets
<1>7. \A k \in 1 .. Len(report) : report[k].numbers \in (SUBSET Number) \ {{}}
  <2>1. \A k \in 1 .. Len(report) : report[k] \in Signal
    BY <1>1
  <2> HIDE DEF report, Number
  <2> QED
    BY <2>1 DEF Signal
<1>8. scope = IF filter # <<>> THEN filter[1]
              ELSE Open \cup UNION {report[k].numbers : k \in DOMAIN report}
  BY DEF ScopeNumbers
<1>9. DOMAIN report = 1 .. Len(report)
  BY <1>1
<1> HIDE DEF report, taken, m, d, sets, items, scope
<1>10. \A k \in 1 .. m + d : items[k].id = k
  <2> SUFFICES ASSUME NEW k \in 1 .. m + d PROVE items[k].id = k
    OBVIOUS
  <2>1. CASE k \in 1 .. m
    BY <1>4, <2>1
  <2>2. CASE k \notin 1 .. m
    <3>1. k - m \in 1 .. d /\ m + (k - m) = k
      BY <1>4, <2>2
    <3>2. items[m + (k - m)].id = m + (k - m)
      BY <1>4, <3>1
    <3> QED
      BY <3>1, <3>2
  <2> QED
    BY <2>1, <2>2
<1>11. \A k, l \in DOMAIN items : items[k].id = items[l].id => k = l
  BY <1>4, <1>10
<1>12. ASSUME NEW n \in DOMAIN sets
       PROVE  \E k \in DOMAIN items :
                 /\ items[k].id = sets[n].evidence
                 /\ items[k].numbers = sets[n].numbers
                 /\ report[sets[n].source].numbers = sets[n].numbers
  <2>1. n \in 1 .. m /\ n \in DOMAIN items
    BY <1>4, <1>5
  <2> QED
    BY <1>4, <1>5, <2>1
<1>13. ASSUME NEW n \in DOMAIN sets PROVE sets[n].numbers \cap scope # {}
  <2>1. n \in 1 .. m /\ sets[n].numbers = report[taken[n]].numbers
    BY <1>5
  <2>2. taken[n] \in DOMAIN report /\ InScope(filter, report[taken[n]].numbers)
    BY <1>3, <1>9, <2>1
  <2>3. CASE filter # <<>>
    BY <1>8, <2>1, <2>2, <2>3 DEF InScope
  <2>4. CASE filter = <<>>
    <3>1. PICK x : x \in report[taken[n]].numbers
      BY <1>7, <1>9, <2>2
    <3>2. x \in scope
      BY <1>8, <2>2, <2>4, <3>1
    <3> QED
      BY <2>1, <3>1, <3>2
  <2> QED
    BY <2>3, <2>4
<1>14. ASSUME NEW mm \in PacketNearMisses(filter) PROVE mm \cap scope # {}
  <2>1. mm \in NearMisses /\ InScope(filter, mm)
    BY <1>14 DEF PacketNearMisses
  <2>2. CASE filter # <<>>
    BY <1>8, <2>1, <2>2 DEF InScope
  <2>3. CASE filter = <<>>
    <3>1. PICK p \in OpenPairs : mm = {p[1], p[2]}
      BY <2>1 DEF NearMisses
    <3>2. p[1] \in Open
      BY DEF OpenPairs
    <3> QED
      BY <1>8, <2>3, <3>1, <3>2
  <2> QED
    BY <2>2, <2>3
<1>15. ASSUME NEW i \in scope \cap Open PROVE \E k \in DOMAIN items : items[k].numbers = {i}
  <2>1. InScope(filter, {i})
    BY <1>8 DEF InScope
  <2>2. PICK k \in 1 .. d : Disposed(filter)[k] = i
    BY <1>2, <2>1
  <2>3. m + k \in DOMAIN items
    BY <1>4
  <2>4. items[m + k].numbers = {i}
    BY <1>4, <2>2
  <2> QED
    BY <2>3, <2>4
<1> QED
  BY <1>11, <1>12, <1>13, <1>14, <1>15 DEF report, sets, items, scope

THEOREM EvidenceAlwaysResolves == ReadinessSpec => []EvidenceResolves
<1>1. EvidenceResolves
  BY EvidenceOfFilter DEF EvidenceResolves
<1> QED
  BY <1>1, PTL
=============================================================================
