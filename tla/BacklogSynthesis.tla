--------------------------- MODULE BacklogSynthesis --------------------------
(***************************************************************************)
(* What frontier.py makes of a readiness audit: the project plan, the      *)
(* backlog-synthesis report and the candidate sets and evidence of a       *)
(* synthesis review packet, on the tracker of IssueReadiness.  Titles,     *)
(* bodies and reviewers' hypotheses are constant; what is audited changes. *)
(***************************************************************************)
EXTENDS IssueReadiness, Selection

CONSTANTS
    Title,       \* per issue: the tokens of its title
    Context,     \* per issue: its paths, parent epics and kind
    Splits,      \* issues whose body has a split marker
    Hypothesis,  \* per issue: {} or {numbers a reviewer's hypothesis mentions}
    Filters      \* values of --issues: <<>> or <<issues>>

ASSUME SynthesisAssumption ==
    /\ DOMAIN Title = Issue /\ \A i \in Issue : IsFiniteSet(Title[i])
    /\ DOMAIN Context = Issue
    /\ Splits \subseteq Issue
    /\ Hypothesis \in [Issue -> SUBSET SUBSET Number]
    /\ Filters \subseteq {<<>>} \cup {<<S>> : S \in SUBSET Issue}
    /\ IsFiniteSet(Number) /\ 0 \notin Number

-----------------------------------------------------------------------------
(* build_project_plan; closed issues too.                                  *)
Columns == <<"ready", "needs_semantic_review", "needs_contract_revision", "needs_decision",
             "blocked", "stale", "overlapping", "unsafe", "superseded", "unknown">>

Largest == CHOOSE n \in Number \cup {0} : \A k \in Number : k <= n
Ascending(S) == Those([n \in 1 .. Largest |-> n], S)

(* The plan is sorted by the rank of the column, then by the number.       *)
ColumnRank(i) == CHOOSE c \in DOMAIN Columns : Columns[c] = State(i)

NotAfter(i, j) ==
    LET a == ColumnRank(i)
        b == ColumnRank(j)
    IN  a < b \/ (a = b /\ i <= j)

OrderingConflicts ==
    {p \in Issue \X Issue : p[2] \in issue[p[1]].deps /\ NotAfter(p[1], p[2])}

-----------------------------------------------------------------------------
(* Signals of build_backlog_synthesis_report: the issues they are about,   *)
(* and the issue or pair the summary begins with.                          *)
Similarity(i, j, tenths) ==
    /\ Title[i] # {} /\ Title[j] # {}
    /\ 10 * Cardinality(Title[i] \cap Title[j]) >= tenths * Cardinality(Title[i] \cup Title[j])

OpenPairs == {p \in Open \X Open : p[1] < p[2] /\ Context[p[1]] \cap Context[p[2]] # {}}

SemanticSignals ==
    {[numbers |-> {i} \cup UNION Hypothesis[i], about |-> <<i>>] :
        i \in {k \in Open : Hypothesis[k] # {}}}
OverlapSignals ==
    {[numbers |-> {p[1], p[2]}, about |-> <<Smallest({p[1], p[2]})>>] :
        p \in {q \in Open \X Open : q[2] \in Rivals(q[1])}}
DuplicateSignals ==
    {[numbers |-> {p[1], p[2]}, about |-> p] : p \in {q \in OpenPairs : Similarity(q[1], q[2], 8)}}
SplitSignals == {[numbers |-> {i}, about |-> <<i>>] : i \in Splits \cap Open}
InversionSignals == {[numbers |-> {p[1], p[2]}, about |-> p] : p \in OrderingConflicts}

NearMisses ==
    {{p[1], p[2]} : p \in {q \in OpenPairs : Similarity(q[1], q[2], 5) /\ ~Similarity(q[1], q[2], 8)}}

(* _sort_signals: by kind, then by numbers, then by summary.               *)
TupleBefore(s, t) ==
    \/ \E k \in (DOMAIN s) \cap (DOMAIN t) :
          s[k] < t[k] /\ \A j \in 1 .. k - 1 : s[j] = t[j]
    \/ Len(s) < Len(t) /\ \A j \in DOMAIN s : s[j] = t[j]

SignalBefore(s, t) ==
    \/ TupleBefore(Ascending(s.numbers), Ascending(t.numbers))
    \/ s.numbers = t.numbers /\ TupleBefore(s.about, t.about)

InOrder(S) ==
    [k \in 1 .. Cardinality(S) |->
        CHOOSE s \in S : Cardinality({t \in S : SignalBefore(t, s)}) = k - 1]

Report ==
    InOrder(SemanticSignals) \o InOrder(OverlapSignals) \o InOrder(DuplicateSignals)
      \o InOrder(SplitSignals) \o InOrder(InversionSignals)

-----------------------------------------------------------------------------
(* build_synthesis_review_packet, of a report and a filter.                *)
InScope(filter, numbers) == filter = <<>> \/ numbers \cap filter[1] # {}

(* The places in the report of the signals the packet takes over.          *)
Taken(report, filter) ==
    Those([k \in DOMAIN report |-> k], {k \in DOMAIN report : InScope(filter, report[k].numbers)})

CandidateSets(report, filter) ==
    LET taken == Taken(report, filter) IN
    [n \in DOMAIN taken |->
        [id |-> n, source |-> taken[n], numbers |-> report[taken[n]].numbers, evidence |-> n]]

SignalEvidence(report, filter) ==
    LET taken == Taken(report, filter)
    IN  [n \in DOMAIN taken |-> [id |-> n, numbers |-> report[taken[n]].numbers]]

Disposed(filter) == Ascending({i \in Open : InScope(filter, {i})})

(* Mutant.  The numbering of the evidence starts anew.                     *)
DispositionEvidenceFromOne(start, filter) ==
    LET disposed == Disposed(filter)
    IN  [n \in DOMAIN disposed |-> [id |-> n, numbers |-> {disposed[n]}]]

DispositionEvidence(start, filter) ==
    LET disposed == Disposed(filter)
    IN  [n \in DOMAIN disposed |-> [id |-> start + n - 1, numbers |-> {disposed[n]}]]

EvidenceItems(report, filter) ==
    LET signal == SignalEvidence(report, filter)
    IN  signal \o DispositionEvidence(Len(signal) + 1, filter)

PacketNearMisses(filter) == {m \in NearMisses : InScope(filter, m)}

ScopeNumbers(report, filter) ==
    IF filter # <<>> THEN filter[1]
    ELSE Open \cup UNION {report[k].numbers : k \in DOMAIN report}

-----------------------------------------------------------------------------
(* A reviewer's verdict cites evidence by id.  In every packet an id is of *)
(* one item, the item a candidate set names is about the issues of that    *)
(* set, the set is the signal of the report it says it is, every signal    *)
(* and near miss is about issues of the packet, and no open issue in its   *)
(* scope is without evidence.                                              *)
EvidenceResolves ==
    LET report == Report IN
    \A filter \in Filters :
        LET sets  == CandidateSets(report, filter)
            items == EvidenceItems(report, filter)
            scope == ScopeNumbers(report, filter)
        IN  /\ \A k, l \in DOMAIN items : items[k].id = items[l].id => k = l
            /\ \A n \in DOMAIN sets : \E k \in DOMAIN items :
                  /\ items[k].id = sets[n].evidence
                  /\ items[k].numbers = sets[n].numbers
                  /\ report[sets[n].source].numbers = sets[n].numbers
            /\ \A n \in DOMAIN sets : sets[n].numbers \cap scope # {}
            /\ \A m \in PacketNearMisses(filter) : m \cap scope # {}
            /\ \A i \in scope \cap Open : \E k \in DOMAIN items : items[k].numbers = {i}
=============================================================================
