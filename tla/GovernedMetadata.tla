-------------------------- MODULE GovernedMetadata --------------------------
(***************************************************************************)
(* What the governance of issue metadata promises, whatever the writer's   *)
(* internals: an issue changes only because a person edits it, or by the   *)
(* exact effect of an operation that some approval written before          *)
(* authorises; approvals, once given, are not forgotten.  Edits are        *)
(* counted, so that a change by the writer cannot pass for one of them.    *)
(***************************************************************************)
EXTENDS MetadataPlan

VARIABLES
    issue,     \* live metadata on GitHub
    edits,     \* how many edits people have made
    approvals  \* every approval a maintainer has written

Init ==
    /\ issue \in [Issues -> Metadata]
    /\ edits = 0
    /\ approvals = {}

(* A person edits one issue on GitHub.                                     *)
PersonEdits(i) ==
    /\ \E meta \in Metadata : issue' = [issue EXCEPT ![i] = meta]
    /\ edits' = edits + 1
    /\ UNCHANGED approvals

MaintainerApproves ==
    /\ approvals \subseteq approvals'
    /\ UNCHANGED <<issue, edits>>

WriterApplies(op) ==
    /\ \E approval \in approvals : Authorises(approval, op)
    /\ issue' = [issue EXCEPT ![op.issue] = Effect(op, @)]
    /\ UNCHANGED <<edits, approvals>>

Next ==
    \/ \E i \in Issues : PersonEdits(i)
    \/ MaintainerApproves
    \/ \E op \in UNION {approval.ids : approval \in approvals} : WriterApplies(op)

Spec == Init /\ [][Next]_<<issue, edits, approvals>>
=============================================================================
