---------------------------- MODULE MetadataAudit ---------------------------
(***************************************************************************)
(* What `plan` makes of the tracker (audit_snapshot, make_plan): the audit *)
(* finds issues whose type label or release milestone the policy misses,   *)
(* the policy adds what its maintainer desires, and the plan has the       *)
(* operations that would mend both.  Batches of a plan are applied one     *)
(* after the other, while people go on editing.  How a batch is applied,   *)
(* request by request, is in MetadataApply; here it is one step.           *)
(*                                                                         *)
(* A policy spells labels as it likes; GitHub does not tell upper from     *)
(* lower case in a label and keeps the spelling of its definition.         *)
(***************************************************************************)
EXTENDS MetadataPlan, FiniteSets, SequencesExt
Graph == INSTANCE TrackerGraph

CONSTANTS
    Names,      \* labels as the policy spells them
    LiveName,   \* per name: the label it is on GitHub, or NoLabel
    NoLabel,
    Stages,     \* review batches of the policy's planning table
    Titles,     \* of issues, as far as the inference of a type goes
    Unset,      \* the milestone of a desired issue that does not mention it
    NoSuchMilestone, \* a number that no milestone on GitHub has
    Governance, \* policies to start from
    Trackers,   \* trackers to start from
    Bodies,     \* bodies people write: what is needed, what the release sections name
    MaxTouches  \* bound of the edits of people

Policy ==
    [infer   : [Titles -> Names \cup {NoLabel}],
     align   : BOOLEAN,
     oneType : BOOLEAN,
     types   : SUBSET Names,
     release : [milestone : MaybeMilestone \cup {NoSuchMilestone}, additional : SUBSET Nat,
                epics : SUBSET Nat, includeEpics : BOOLEAN, closure : BOOLEAN],
     batch   : [Issues -> Stages],
     desired : [Issues -> [add : SUBSET Names, remove : SUBSET Names, batch : Stages,
                           milestone : MaybeMilestone \cup {NoSuchMilestone, Unset}]]]

Tracker ==
    [meta : [Issues -> Metadata], title : [Issues -> Titles], body : [Issues -> Bodies]]

(* A label spelled as GitHub spells it is that label.                      *)
ASSUME LabelAssumption ==
    /\ NoLabel \notin Labels \cup Names
    /\ LiveName \in [Names -> Labels \cup {NoLabel}]
    /\ \A n \in Names \cap Labels : LiveName[n] = n
ASSUME UnsetAssumption == Unset \notin MaybeMilestone /\ NoSuchMilestone \notin MaybeMilestone
ASSUME AuditAssumption ==
    /\ IsFiniteSet(Issues) /\ IsFiniteSet(Names)
    /\ Governance \subseteq Policy /\ Trackers \subseteq Tracker

VARIABLES
    policy,
    tracker,  \* what GitHub has: metadata, title and body of every issue
    pending,  \* operations of the plan whose batch was not applied yet
    phase,    \* "none", or the plan was made, refused or blocked
    quiet,    \* nobody edited an issue since the plan was made
    touches

auditVars == <<policy, tracker, pending, phase, quiet, touches>>

-----------------------------------------------------------------------------
(* validate_policy: desired entries do not add and remove one label.       *)
ValidPolicy(p) ==
    \A i \in Issues :
        \A a \in p.desired[i].add, r \in p.desired[i].remove :
            a # r /\ (LiveName[a] = NoLabel \/ LiveName[a] # LiveName[r])

Live(t, i) == t.meta[i]
Open(t) == {i \in Issues : t.meta[i].state = "open"}

(* derive_release_issue_numbers: what the policy names, what the sections  *)
(* of its epics name, all that this needs, and of it what is open.         *)
Seeds(p, t) ==
    p.release.additional
      \cup (IF p.release.includeEpics THEN p.release.epics ELSE {})
      \cup UNION {t.body[e].section : e \in p.release.epics \cap Issues}

ReleaseIssues(p, t) ==
    IF p.release.closure
    THEN Graph!Gate([i \in Issues |-> t.body[i].needs], Open(t), Seeds(p, t))
    ELSE Seeds(p, t) \cap Open(t)

(* inferred_type_label; NoLabel when no prefix of the policy fits.         *)
Inferred(p, t, i) == p.infer[t.title[i]]

TypesPresent(p, t, i) == Live(t, i).labels \cap p.types

-----------------------------------------------------------------------------
(* Findings: the open issues, and in the end the release issues, that the  *)
(* audit reports.  Spelling counts in all of them.                         *)
Misaligned(p, t) ==
    {i \in Open(t) : /\ p.align /\ Inferred(p, t, i) # NoLabel
                     /\ Inferred(p, t, i) \notin Live(t, i).labels}

Mistyped(p, t) ==
    {i \in Open(t) : p.oneType /\ Cardinality(TypesPresent(p, t, i)) # 1}

(* release-issue-milestone; only a milestone that exists is asked for.     *)
Unscheduled(p, t) ==
    {i \in ReleaseIssues(p, t) :
        p.release.milestone \in Milestones /\ Live(t, i).milestone # p.release.milestone}

-----------------------------------------------------------------------------
(* Suggestions.                                                            *)
(* operation_from_suggestion takes the label as GitHub spells it.          *)
(* Mutant.  It takes the label as the policy spells it.                    *)
SpelledByPolicy(name) == name

Spelled(name) == LiveName[name]

AddLabel(i, name, batch) ==
    [kind |-> "issue.labels.add", issue |-> i, value |-> Spelled(name), batch |-> batch]
RemoveLabel(i, name, batch) ==
    [kind |-> "issue.labels.remove", issue |-> i, value |-> Spelled(name), batch |-> batch]
SetMilestone(i, m, batch) ==
    [kind |-> IF m = NoMilestone THEN "issue.milestone.clear" ELSE "issue.milestone.set",
     issue |-> i, value |-> m, batch |-> batch]

(* Of the audit's findings; a label nobody defined cannot be planned.      *)
AlignSuggestions(p, t) ==
    {AddLabel(i, Inferred(p, t, i), p.batch[i]) :
        i \in {i \in Misaligned(p, t) : LiveName[Inferred(p, t, i)] # NoLabel}}

TypeSuggestions(p, t) ==
    {AddLabel(i, Inferred(p, t, i), p.batch[i]) :
        i \in {i \in Mistyped(p, t) : /\ TypesPresent(p, t, i) = {}
                                      /\ Inferred(p, t, i) \in p.types
                                      /\ LiveName[Inferred(p, t, i)] # NoLabel}}

ReleaseSuggestions(p, t) ==
    {SetMilestone(i, p.release.milestone, p.batch[i]) : i \in Unscheduled(p, t)}

AuditSuggestions(p, t) ==
    AlignSuggestions(p, t) \cup TypeSuggestions(p, t) \cup ReleaseSuggestions(p, t)

(* desired_issue_suggestions; a label to remove may be one nobody defined. *)
DesiredSuggestions(p) ==
    UNION {
        LET d == p.desired[i] IN
        {AddLabel(i, n, d.batch) : n \in d.add}
          \cup {RemoveLabel(i, n, d.batch) : n \in {n \in d.remove : LiveName[n] # NoLabel}}
          \cup {SetMilestone(i, m, d.batch) : m \in {d.milestone} \ {Unset}} : i \in Issues}

(* What the maintainer desires comes after what the audit suggests.        *)
Suggestions(p, t) == SetToSeq(AuditSuggestions(p, t)) \o SetToSeq(DesiredSuggestions(p))

(* make_plan gives up: a label or milestone that does not exist is desired,*)
(* or two suggestions that change something disagree.                      *)
Refused(p, t) ==
    \/ \E i \in Issues : \/ \E n \in p.desired[i].add : LiveName[n] = NoLabel
                         \/ p.desired[i].milestone \notin MaybeMilestone \cup {Unset}
    \/ Conflicting(Suggestions(p, t), t.meta)

NextPlan(p, t) == PlannedOperations(Suggestions(p, t), t.meta)

-----------------------------------------------------------------------------
AuditInit ==
    /\ policy \in {p \in Governance : ValidPolicy(p)}
    /\ tracker \in Trackers
    /\ pending = {} /\ phase = "none" /\ quiet = TRUE /\ touches = 0

AuditAndPlan ==
    /\ quiet' = TRUE
    /\ \/ /\ Refused(policy, tracker)
          /\ phase' = "refused" /\ pending' = {}
       \/ /\ ~Refused(policy, tracker)
          /\ phase' = "planned" /\ pending' = NextPlan(policy, tracker)
    /\ UNCHANGED <<policy, tracker, touches>>

(* GitHub adds a label under the spelling of its definition.               *)
Canonical(name) == IF name \in Labels THEN name ELSE LiveName[name]

(* What GitHub makes of operations on different fields of one issue.       *)
Served(ops, meta) ==
    LET wanted == {op.value : op \in {op \in ops : op.kind \in MilestoneKinds}}
        values(kind) == {op.value : op \in {op \in ops : op.kind = kind}}
    IN  [meta EXCEPT
           !.milestone = IF wanted = {} THEN @ ELSE CHOOSE m \in wanted : TRUE,
           !.labels = (@ \ values("issue.labels.remove"))
                        \cup {Canonical(name) : name \in values("issue.labels.add")}]

(* One stale operation blocks the batch.                                   *)
ApplyBatch(b) ==
    LET batch == {op \in pending : op.batch = b}
        status(op) == Preflight(op, tracker.meta[op.issue])
        ready(i) == {op \in batch : op.issue = i /\ status(op) = "ready"}
    IN  /\ batch # {}
        /\ \/ /\ \E op \in batch : status(op) = "stale"
              /\ phase' = "blocked" /\ pending' = {} /\ UNCHANGED tracker
           \/ /\ \A op \in batch : status(op) # "stale"
              /\ tracker' = [tracker EXCEPT !.meta = [i \in Issues |-> Served(ready(i), @[i])]]
              /\ pending' = pending \ batch /\ UNCHANGED phase
        /\ UNCHANGED <<policy, quiet, touches>>

-----------------------------------------------------------------------------
Touch(i) ==
    /\ touches < MaxTouches /\ touches' = touches + 1 /\ quiet' = FALSE
    /\ \/ \E s \in States : tracker' = [tracker EXCEPT !.meta[i].state = s]
       \/ \E m \in MaybeMilestone : tracker' = [tracker EXCEPT !.meta[i].milestone = m]
       \/ \E l \in Labels : \/ tracker' = [tracker EXCEPT !.meta[i].labels = @ \cup {l}]
                            \/ tracker' = [tracker EXCEPT !.meta[i].labels = @ \ {l}]
       \/ \E title \in Titles : tracker' = [tracker EXCEPT !.title[i] = title]
       \/ \E body \in Bodies : tracker' = [tracker EXCEPT !.body[i] = body]
    /\ UNCHANGED <<policy, pending, phase>>

AuditNext == AuditAndPlan \/ (\E b \in Stages : ApplyBatch(b)) \/ (\E i \in Issues : Touch(i))

AuditSpec == AuditInit /\ [][AuditNext]_auditVars

-----------------------------------------------------------------------------
(* A policy agrees with itself about a tracker when no two of its wishes   *)
(* are about one field, whatever the labels and milestones now are.        *)
Bare(t) ==
    [t EXCEPT !.meta = [i \in Issues |-> [@[i] EXCEPT !.labels = {}, !.milestone = NoMilestone]]]

Agrees(p, t) ==
    LET wishes == AuditSuggestions(p, Bare(t)) \cup DesiredSuggestions(p)
    IN  \A a, b \in wishes : Field(a) = Field(b) => a.kind = b.kind /\ a.value = b.value

(* An issue the policy wants typed, and of which it removes a type.        *)
TypeIsTakenAway(p, i) == \E n \in p.desired[i].remove : Spelled(n) \in p.types

(* Plans settle.  While nobody edits an issue, no batch of a plan makes    *)
(* another batch of it stale; and when all batches of the plan of a policy *)
(* that agrees with itself were applied, the next plan is not refused,     *)
(* release issues are scheduled, and a label the audit still misses is one *)
(* that GitHub does not have, or spells otherwise.  The next plan has      *)
(* nothing left to do, but to give a type to an issue that lost its last   *)
(* one because the policy removes it.                                      *)
PlanSettles ==
    quiet =>
        /\ phase # "blocked"
        /\ phase = "planned" /\ pending = {} /\ Agrees(policy, tracker) =>
               /\ ~Refused(policy, tracker)
               /\ \A op \in NextPlan(policy, tracker) :
                      op.kind = "issue.labels.add" /\ TypeIsTakenAway(policy, op.issue)
               /\ Unscheduled(policy, tracker) = {}
               /\ \A i \in Misaligned(policy, tracker) :
                      Spelled(Inferred(policy, tracker, i)) # Inferred(policy, tracker, i)
=============================================================================
