---------------------------- MODULE MetadataPlan ----------------------------
(***************************************************************************)
(* The vocabulary of scripts/triage/triage.py: the metadata GitHub keeps   *)
(* for an issue, the operations a plan holds, how `plan` derives them from *)
(* a policy and the live issues, what an approval selects from a plan, and *)
(* how one operation is preflighted against, and changes, an issue.        *)
(*                                                                         *)
(* A digest is modelled by what it identifies: an operation is its own     *)
(* operation_id and a plan is its own plan_sha256, which covers the time   *)
(* it was generated at.                                                    *)
(***************************************************************************)
EXTENDS Naturals, Sequences

CONSTANTS
    Issues,       \* issue numbers
    Labels,       \* canonical label names
    Milestones,   \* milestone numbers that exist on GitHub
    NoMilestone,  \* the milestone field of an issue that has none
    Batches,      \* review batches of the policy
    NoPlan,       \* there is no plan file
    NoApproval    \* there is no approval file

ASSUME NoMilestoneAssumption == NoMilestone \notin Milestones

-----------------------------------------------------------------------------
(* GitHub's side.                                                          *)

States == {"open", "closed"}

MaybeMilestone == Milestones \cup {NoMilestone}

Metadata == [state : States, milestone : MaybeMilestone, labels : SUBSET Labels]

-----------------------------------------------------------------------------
(* Plans.                                                                  *)

MilestoneKinds == {"issue.milestone.set", "issue.milestone.clear"}
LabelKinds     == {"issue.labels.add", "issue.labels.remove"}

(* What the audit, or the desired table of policy.toml, asks for.  `value` *)
(* is the milestone wanted (NoMilestone to clear it) or the one label.     *)
Suggestion ==
    [kind : MilestoneKinds, issue : Issues, value : MaybeMilestone, batch : Batches]
    \cup
    [kind : LabelKinds, issue : Issues, value : Labels, batch : Batches]

(* The operations the writer supports; `before` is the field as the plan's *)
(* snapshot had it.                                                        *)
Operation ==
    [kind : MilestoneKinds, issue : Issues, value : MaybeMilestone,
     before : MaybeMilestone, issueState : States, batch : Batches,
     destructive : BOOLEAN]
    \cup
    [kind : LabelKinds, issue : Issues, value : Labels,
     before : SUBSET Labels, issueState : States, batch : Batches,
     destructive : BOOLEAN]

(* The metadata field an operation or a suggestion is about: an issue's    *)
(* milestone, or the membership of one label.                              *)
Field(op) ==
    <<op.issue, IF op.kind \in MilestoneKinds THEN "milestone" ELSE op.value>>

Achieved(op, meta) ==
    CASE op.kind \in MilestoneKinds        -> meta.milestone = op.value
      [] op.kind = "issue.labels.add"      -> op.value \in meta.labels
      [] op.kind = "issue.labels.remove"   -> op.value \notin meta.labels

OperationFrom(s, meta) ==
    [kind        |-> s.kind,
     issue       |-> s.issue,
     value       |-> s.value,
     before      |-> IF s.kind \in MilestoneKinds THEN meta.milestone ELSE meta.labels,
     issueState  |-> meta.state,
     batch       |-> s.batch,
     destructive |-> \/ s.kind \in {"issue.milestone.clear", "issue.labels.remove"}
                     \/ s.kind = "issue.milestone.set" /\ meta.milestone # NoMilestone]

(* Suggestions, in order, that still change something on the live issues.  *)
Effective(policy, live) ==
    {k \in DOMAIN policy : ~ Achieved(policy[k], live[policy[k].issue])}

Conflicting(policy, live) ==
    \E j, k \in Effective(policy, live) :
        /\ Field(policy[j]) = Field(policy[k])
        /\ \/ policy[j].kind # policy[k].kind
           \/ policy[j].value # policy[k].value

(* One operation per field: of two equal suggestions the later one, with   *)
(* its batch, is kept.                                                     *)
PlannedOperations(policy, live) ==
    {OperationFrom(policy[k], live[policy[k].issue]) :
        k \in {k \in Effective(policy, live) :
                 \A j \in Effective(policy, live) :
                     Field(policy[j]) = Field(policy[k]) => j <= k}}

(* plan.json; plans are generated one after the other.                     *)
Plan == [operations : SUBSET Operation, generatedAt : Nat]

-----------------------------------------------------------------------------
(* Approvals.                                                              *)

Approval ==
    [plan             : Plan,
     ids              : SUBSET Operation,
     batches          : SUBSET Batches,
     allowDestructive : BOOLEAN]

Selected(approval, batch) == {op \in approval.ids : op.batch = batch}

(* Mutant: the destructive flag of an operation is not looked at.          *)
ValidDestructive(plan, approval, sha, batch) ==
    /\ plan = sha
    /\ approval # NoApproval
    /\ approval.plan = plan
    /\ batch \in approval.batches
    /\ approval.ids \subseteq plan.operations
    /\ \A op \in approval.ids : op.batch \in approval.batches

(* Mutant: ids of an earlier plan are accepted under the new plan's digest.*)
ValidWithForeignIds(plan, approval, sha, batch) ==
    /\ plan = sha
    /\ approval # NoApproval
    /\ approval.plan = plan
    /\ batch \in approval.batches
    /\ \A op \in approval.ids : op.batch \in approval.batches
    /\ \A op \in Selected(approval, batch) :
           op.destructive => approval.allowDestructive

(* `sha` is the digest given on the command line.                          *)
ValidApproval(plan, approval, sha, batch) ==
    /\ plan = sha
    /\ approval # NoApproval
    /\ approval.plan = plan
    /\ batch \in approval.batches
    /\ approval.ids \subseteq plan.operations
    /\ \A op \in approval.ids : op.batch \in approval.batches
    /\ \A op \in Selected(approval, batch) :
           op.destructive => approval.allowDestructive

(* What the approval file authorises, whoever reads it.                    *)
Authorises(approval, op) ==
    /\ op \in approval.ids
    /\ op \in approval.plan.operations
    /\ op.batch \in approval.batches
    /\ op.destructive => approval.allowDestructive

-----------------------------------------------------------------------------
(* One operation against one live issue.                                   *)

PreflightStatus == {"ready", "noop", "stale"}

(* A label operation names one label and ignores the others, so "labels    *)
(* equal the after-state" is one more way of being achieved.               *)
Preflight(op, meta) ==
    CASE meta.state # op.issueState -> "stale"
      [] meta.state = op.issueState /\ Achieved(op, meta) -> "noop"
      [] /\ meta.state = op.issueState
         /\ ~ Achieved(op, meta)
         /\ op.kind \in MilestoneKinds
         /\ meta.milestone # op.before -> "stale"
      [] OTHER -> "ready"

(* What GitHub does with the request: DELETE of an absent label is a 404.  *)
Acceptable(op, meta) ==
    op.kind = "issue.labels.remove" => op.value \in meta.labels

Effect(op, meta) ==
    CASE op.kind \in MilestoneKinds      -> [meta EXCEPT !.milestone = op.value]
      [] op.kind = "issue.labels.add"    -> [meta EXCEPT !.labels = @ \cup {op.value}]
      [] op.kind = "issue.labels.remove" -> [meta EXCEPT !.labels = @ \ {op.value}]
=============================================================================
