---------------------------- MODULE IssueContract ----------------------------
(***************************************************************************)
(* The issue contract of contract.py: which sections an issue body needs,  *)
(* what audit_contract finds, and the body propose_normalized_body offers  *)
(* in its place.  A maintainer works in rounds: the tool proposes a body,  *)
(* a person fills in what it left open, the tool audits the result.        *)
(*                                                                         *)
(* A body is the sequence of its headings, at the levels 1 to 6.  Words    *)
(* matter as far as they make a section a condition: `heading` and `words` *)
(* are the terms that count in the heading and in the text below it.       *)
(***************************************************************************)
EXTENDS Naturals, FiniteSets, Selection

CONSTANTS
    Kinds,      \* kinds of issues an instance has
    OwnKeys,    \* sections a person adds
    Levels,     \* levels of the headings a person writes
    OwnWords,   \* words a person uses
    MaxSections,\* bound of the sections a person adds
    MaxRounds,  \* bound of the proposals in a row
    MaxFills    \* bound of the placeholders a person fills in with words

VARIABLES
    kind,    \* infer_issue_kind of the title and the labels
    body,    \* the body of the issue
    rounds,  \* proposals since a person last changed the body
    offLevel,  \* history: canonical-heading-level, a person put a known section on another level than 2
    added, fills

contractVars == <<kind, body, rounds, offLevel, added, fills>>

-----------------------------------------------------------------------------
Categories == {"positive", "negative", "degradation", "regression"}

(* Of official_docs.py: the name of a provider, the words for an external  *)
(* one, and those for what may be relied on: "contract" is in both lists   *)
(* of them, "context" and "behavior" are in one each.                      *)
DocsTriggers == {"provider", "scope", "contract", "context", "behavior"}

Triggers == {"live", "decision", "external", "compat", "migration", "release"} \cup DocsTriggers

(* The quality of documentation evidence; a heading without its space.     *)
Evidence == {"fields", "official-url", "foreign-url", "unknown-source", "verify", "critical",
             "blocker"}

Words == Categories \cup Triggers \cup Evidence \cup {"malformed"}

(* preferred_section_order; the order of an epic or a spike differs, which *)
(* nothing depends on.                                                     *)
SectionOrder ==
    <<"summary", "user_problem", "evidence_confidence", "current_behavior", "root_cause",
      "expected_behavior", "trigger", "acceptance_criteria", "test_plan", "edge_cases",
      "scope_files", "non_goals", "dependencies_traceability", "decisions_blockers",
      "offline_behavior", "live_behavior_cost", "external_requirements", "official_docs",
      "compatibility_json", "migration_rollback", "release_priority", "docs_changelog",
      "question", "investigation_tasks", "deliverable", "decision_criteria", "thesis",
      "release_gate", "children_backlog", "workflow", "implementation_plan",
      "single_pr_boundary">>

Known == {SectionOrder[n] : n \in DOMAIN SectionOrder}

ASSUME ContractAssumption ==
    OwnKeys \subseteq Known /\ OwnWords \subseteq Words /\ Levels \subseteq 1 .. 6

(* Every requirement is a set of alternatives, each a set of sections.     *)
One(keys) == {{k} : k \in keys}
Scope == {{"scope_files", "non_goals"}, {"scope_files"}}

Common == {One({"summary"}), One({"evidence_confidence"}), One({"acceptance_criteria"}),
           One({"test_plan"}), Scope, One({"dependencies_traceability"})}

Core(k) ==
    CASE k = "epic" -> {One({"summary"}), One({"evidence_confidence"})}
      [] k = "governance" ->
            {One({"summary"}), One({"evidence_confidence"}), One({"non_goals"}),
             One({"acceptance_criteria", "decision_criteria"}), One({"dependencies_traceability"})}
      [] OTHER -> Common

OfKind(k) ==
    CASE k = "bug_fix" ->
            {One({"current_behavior"}), One({"root_cause"}), One({"expected_behavior"}),
             One({"non_goals"})}
      [] k = "feature_enhancement" ->
            {One({"user_problem", "trigger"}), One({"expected_behavior"}), One({"non_goals"})}
      [] k = "refactor_architecture" ->
            {One({"current_behavior"}), One({"expected_behavior"}), One({"migration_rollback"}),
             One({"compatibility_json"}), One({"non_goals"})}
      [] k = "test_verification" ->
            {One({"user_problem", "current_behavior"}),
             One({"external_requirements", "scope_files"}), One({"non_goals"})}
      [] k = "spike_decision" ->
            {One({"question"}), One({"investigation_tasks"}), One({"deliverable"}),
             One({"decision_criteria", "acceptance_criteria"}), One({"non_goals"})}
      [] k = "epic" ->
            {One({"thesis"}), One({"release_gate"}), One({"children_backlog"}),
             One({"decisions_blockers"}), One({"workflow"})}
      [] k = "docs_chore_release" ->
            {One({"user_problem", "deliverable", "scope_files"}),
             One({"release_priority", "dependencies_traceability"}), One({"non_goals"})}
      [] OTHER -> {}

Forbidden(k) ==
    CASE k = "spike_decision" -> {"implementation_plan"}
      [] k = "epic" -> {"single_pr_boundary"}
      [] OTHER -> {}

ExpectedCoverage(k) ==
    CASE k = "feature_enhancement" -> Categories \ {"degradation"}
      [] k = "spike_decision" -> {"positive", "negative"}
      [] k \in {"governance", "epic"} -> {}
      [] k = "docs_chore_release" -> {"positive", "regression"}
      [] OTHER -> Categories

(* The terms in the titles that a proposal writes: "External evidence,     *)
(* permissions, credentials, or fixtures", "Offline behavior"; "Official   *)
(* documentation evidence" is a line that does not count.                  *)
TitleWords(key) ==
    CASE key = "external_requirements" -> {"external", "live"}
      [] key \in {"current_behavior", "expected_behavior", "offline_behavior",
                  "live_behavior_cost"} -> {"behavior"}
      [] key = "decisions_blockers"    -> {"decision"}
      [] key = "compatibility_json"    -> {"compat"}
      [] key = "migration_rollback"    -> {"migration", "compat"}
      [] key = "release_gate"          -> {"release"}
      [] OTHER -> {}

(* "Unknown. I could not establish this contract item ..."                 *)
Placeholder == {"contract", "degradation"}

-----------------------------------------------------------------------------
(* Parsing: a section owns the deeper headings that follow it.             *)
Section == [key : Known \cup {"other"}, level : 1 .. 6, heading : SUBSET Words,
            words : SUBSET Words, content : {"text", "unresolved", "empty"}]

End(b, i) ==
    CHOOSE e \in i .. Len(b) : /\ \A m \in i + 1 .. e : b[m].level > b[i].level
                               /\ e < Len(b) => b[e + 1].level <= b[i].level

Group(b, i) == i .. End(b, i)
Below(b, i) == SubSeq(b, i + 1, End(b, i))

Present(b) == {b[i].key : i \in DOMAIN b} \ {"other"}
First(b, key) == CHOOSE i \in DOMAIN b : b[i].key = key /\ \A j \in 1 .. i - 1 : b[j].key # key

WordsBelow(b, i) ==
    b[i].words \cup UNION {b[j].heading \cup b[j].words : j \in Group(b, i) \ {i}}

WordsOf(b) == UNION {b[i].heading \cup b[i].words : i \in DOMAIN b}

Unresolved(b, i) == \E j \in Group(b, i) : b[j].content = "unresolved"
HasContent(b, i) == b[i].content # "empty" \/ Group(b, i) # {i}

(* official_docs.requirements: wherever in the body the words are.         *)
KnownProvider(b) == "provider" \in WordsOf(b) /\ WordsOf(b) \cap {"contract", "context"} # {}
UnknownProvider(b) == "scope" \in WordsOf(b) /\ WordsOf(b) \cap {"contract", "behavior"} # {}

Conditional(k, b) ==
    LET w == WordsOf(b) IN
    UNION {IF "live" \in w THEN {One({"live_behavior_cost"}), One({"offline_behavior"})} ELSE {},
           IF "decision" \in w THEN {One({"decisions_blockers"})} ELSE {},
           IF "external" \in w THEN {One({"external_requirements"})} ELSE {},
           IF KnownProvider(b) \/ UnknownProvider(b) THEN {One({"official_docs"})} ELSE {},
           IF "compat" \in w THEN {One({"compatibility_json"})} ELSE {},
           IF k = "refactor_architecture" \/ "migration" \in w
           THEN {One({"migration_rollback"})} ELSE {}}

Required(k, b) == Core(k) \cup OfKind(k) \cup Conditional(k, b)

MissingRequired(k, b) ==
    LET present == Present(b)
    IN  {r \in Required(k, b) : ~\E a \in r : a \subseteq present}

MissingCoverage(k, b) ==
    ExpectedCoverage(k) \
        UNION {WordsBelow(b, i) : i \in {j \in DOMAIN b :
                  b[j].key \in {"acceptance_criteria", "test_plan", "edge_cases"}}}

(* official_docs.section_findings on the first such section: what is there *)
(* is checked even where no evidence is required.                          *)
BlockerRecorded(b) ==
    /\ "decisions_blockers" \in Present(b)
    /\ "blocker" \in WordsBelow(b, First(b, "decisions_blockers"))

DocsAreSound(b) ==
    "official_docs" \in Present(b) =>
        LET i == First(b, "official_docs")
            w == WordsBelow(b, i)
        IN  /\ "fields" \in w
            /\ Unresolved(b, i) \/
                  /\ KnownProvider(b) =>
                        "official-url" \in w /\ w \cap {"foreign-url", "unknown-source"} = {}
                  /\ "unknown-source" \in w =>
                        "verify" \in w /\ ("critical" \in w => BlockerRecorded(b))

(* audit_contract: the codes of its errors and the state they make.        *)
Errors(k, b) ==
    UNION {IF MissingRequired(k, b) # {} THEN {"missing-required-section"} ELSE {},
           IF Forbidden(k) \cap Present(b) # {} THEN {"forbidden-section"} ELSE {},
           IF "malformed" \in WordsOf(b) THEN {"malformed-heading"} ELSE {},
           IF \E i, j \in DOMAIN b : i # j /\ b[i].key = b[j].key /\ b[i].key # "other"
           THEN {"duplicate-section"} ELSE {},
           IF \E i \in DOMAIN b : b[i].key # "other" /\ Unresolved(b, i)
           THEN {"unresolved-placeholder-section"} ELSE {},
           IF ~DocsAreSound(b) THEN {"official-docs"} ELSE {}}

GovernanceState(k, b) ==
    LET errors == Errors(k, b)
    IN  CASE "forbidden-section" \in errors -> "unsafe"
          [] errors # {} -> "needs_contract_revision"
          [] OTHER -> "conformant"

-----------------------------------------------------------------------------
(* propose_normalized_body: every section that is there or required, once, *)
(* at level 2, with its text or the placeholder.                           *)
(* Of equal alternatives the first in the alphabet is taken: these are.    *)
Foremost == {"trigger", "current_behavior", "external_requirements", "acceptance_criteria",
             "deliverable", "dependencies_traceability"}

Preferred(S) ==
    LET small == {a \in S : \A c \in S : Cardinality(a) <= Cardinality(c)}
    IN  CHOOSE a \in small : a \subseteq Foremost \/ \A c \in small : ~(c \subseteq Foremost)

Chosen(r, present) ==
    LET whole == {a \in r : a \subseteq present}
        part  == {a \in r : a \cap present # {}}
    IN  Preferred(IF whole # {} THEN whole ELSE IF part # {} THEN part ELSE r)

Recommended(b) == IF "release" \in WordsOf(b) THEN {"release_priority"} ELSE {}

(* Mutant.  The conditions are evaluated for the sections, not the text.   *)
ProposedKeysOfKind(k, b) ==
    Present(b) \cup UNION {Chosen(r, Present(b)) : r \in Core(k) \cup OfKind(k)}

ProposedKeys(k, b) ==
    LET present == Present(b)
    IN  present \cup Recommended(b) \cup UNION {Chosen(r, present) : r \in Required(k, b)}

Unknown(key) ==
    [key |-> key, level |-> 2, heading |-> TitleWords(key), words |-> Placeholder,
     content |-> "unresolved"]

(* Mutant.  A section ends at the next heading of any level.               *)
NormalizedAlone(b, key) ==
    IF key \in Present(b) /\ HasContent(b, First(b, key))
    THEN <<[b[First(b, key)] EXCEPT !.level = 2, !.heading = TitleWords(key)]>>
    ELSE <<Unknown(key)>>

Normalized(b, key) ==
    IF key \in Present(b) /\ HasContent(b, First(b, key))
    THEN LET i == First(b, key)
         IN  <<[b[i] EXCEPT !.level = 2, !.heading = TitleWords(key)]>> \o Below(b, i)
    ELSE <<Unknown(key)>>

Other(heading, words) ==
    [key |-> "other", level |-> 2, heading |-> heading, words |-> words, content |-> "text"]

(* "Contract audit notes": "The following coverage categories remain ..."  *)
Notes(missing) == Other({"contract"}, missing \cup {"regression"})

Unmapped(b) == {i \in DOMAIN b : b[i].key = "other" /\ b[i].level = 2}

(* "Additional context retained from the current issue"                    *)
Retained(b) ==
    IF Unmapped(b) = {} THEN <<>>
    ELSE <<Other({}, {})>> \o Chained([i \in DOMAIN b |->
             IF i \in Unmapped(b)
             THEN <<[b[i] EXCEPT !.level = 3, !.content = "text"]>> \o Below(b, i) ELSE <<>>])

Proposal(k, b) ==
    LET proposed == ProposedKeys(k, b) IN
    Chained([n \in DOMAIN SectionOrder |->
        IF SectionOrder[n] \in proposed THEN Normalized(b, SectionOrder[n]) ELSE <<>>])
      \o Retained(b)
      \o (IF MissingCoverage(k, b) # {} /\ "acceptance_criteria" \in proposed
          THEN <<Notes(MissingCoverage(k, b))>> ELSE <<>>)

-----------------------------------------------------------------------------
ContractInit ==
    /\ kind \in Kinds
    /\ body = <<>>
    /\ rounds = 0
    /\ offLevel = FALSE
    /\ added = 0
    /\ fills = 0

(* The author writes a section, on any level.                              *)
AddSection ==
    \E key \in OwnKeys \cup {"other"}, level \in Levels, w \in {{}} \cup {{x} : x \in OwnWords},
       c \in {"text", "empty"} :
        /\ added < MaxSections /\ rounds = 0 /\ fills = 0
        /\ body' = Append(body, [key |-> key, level |-> level, heading |-> {},
                                 words |-> IF c = "text" THEN w ELSE {}, content |-> c])
        /\ offLevel' = (offLevel \/ (level # 2 /\ key # "other"))
        /\ added' = added + 1
        /\ UNCHANGED <<kind, rounds, fills>>

Propose ==
    /\ rounds < MaxRounds
    /\ body' = Proposal(kind, body)
    /\ rounds' = rounds + 1
    /\ UNCHANGED <<kind, offLevel, added, fills>>

(* A person replaces every placeholder: evidence with all that it takes,   *)
(* coverage in the test plan, and, within the bound, words of their own.   *)
Resolved(s, w) ==
    IF s.content # "unresolved" THEN s
    ELSE [s EXCEPT !.content = "text",
                   !.words = CASE s.key = "official_docs" ->
                                       {"fields", "official-url", "provider", "context"}
                               [] s.key = "test_plan" -> Categories \cup w
                               [] OTHER -> w]

FillIn ==
    \E w \in {{}} \cup {{x} : x \in OwnWords} :
        /\ rounds > 0
        /\ \E i \in DOMAIN body : body[i].content = "unresolved"
        /\ w # {} => fills < MaxFills
        /\ body' = [i \in DOMAIN body |-> Resolved(body[i], w)]
        /\ rounds' = IF w = {} THEN rounds ELSE 0
        /\ fills' = IF w = {} THEN fills ELSE fills + 1
        /\ UNCHANGED <<kind, offLevel, added>>

ContractNext == AddSection \/ Propose \/ FillIn

ContractSpec == ContractInit /\ [][ContractNext]_contractVars

-----------------------------------------------------------------------------
Flawless(b) ==
    /\ "malformed" \notin WordsOf(b)
    /\ Forbidden(kind) \cap Present(b) = {}
    /\ DocsAreSound(b)

(* A body that was proposed three times and filled in is accepted,         *)
(* whatever the author wrote.  One proposal is not enough, as the headings *)
(* it adds may require other sections, and two are not, as those of the    *)
(* second may require evidence: a vendor's permission takes a section on   *)
(* offline behavior, whose heading asks for the vendor's documentation.    *)
(* Bodies whose levels the audit has warned about are excepted: a known    *)
(* section below level 2 is offered in two places by every proposal.       *)
FilledProposalIsConformant ==
    /\ rounds >= 3 /\ ~offLevel /\ Flawless(body)
    /\ \A i \in DOMAIN body : body[i].content # "unresolved"
    => GovernanceState(kind, body) = "conformant"

(* What people have written under the first heading of a section is in    *)
(* the proposal, and below a heading of that section: the first one, if    *)
(* the audit has not warned about levels.  Only if it was written on       *)
(* level 1 this is not so: its headings of level 2 are not moved, and what *)
(* is below them is in the proposal, but no longer in the section.  And    *)
(* what people have written under unknown headings of level 2 is in it.    *)
ProposalKeepsText ==
    [][rounds' = rounds + 1 =>
        /\ \A key \in Present(body) :
             LET first == First(body, key) IN
             /\ WordsBelow(body, first) \subseteq WordsOf(body')
             /\ body[first].level >= 2 =>
                  \E i \in DOMAIN body' :
                    /\ body'[i].key = key /\ (~offLevel => i = First(body', key))
                    /\ WordsBelow(body, first) \subseteq WordsBelow(body', i)
        /\ \A i \in Unmapped(body) : WordsBelow(body, i) \subseteq WordsOf(body')]_contractVars

=============================================================================
