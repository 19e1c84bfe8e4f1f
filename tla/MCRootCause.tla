---------------------------- MODULE MCRootCause -----------------------------
(* Small instances of the diagnosis for TLC: the run of the command, the   *)
(* lineage verdicts of its live enrichment, and the verdicts on missing    *)
(* objects that follow on the same connection.  They share nothing but the *)
(* connection: each state looks at one of the three.                       *)
EXTENDS RootCause, Lineage, Pipeline

CONSTANTS o1, o2, loader, analyst

(* The run's role may use the schema; the session's role may do nothing,   *)
(* use it, or use it and read one of its objects.                          *)
MCUsage  == [privilege |-> "USAGE", on |-> Schema]
MCSelect == [privilege |-> "SELECT", on |-> o1]

MCInitialGrants ==
    {[r \in Roles |-> IF r = RunRole THEN {MCUsage} ELSE s] :
        s \in {{}, {MCUsage}, {MCUsage, MCSelect}}}

(* o2 is a view, and its name fits o1, too.                                *)
MCFits == [o \in Objects |-> IF o = o1 THEN {o1} ELSE {o1, o2}]
MCViews == {o2}

MCMessages ==
    {{}, {"timeout_error", "runtime_error"}, {"data_error", "runtime_error"},
     {"runtime_error"}}
MCParents == [n \in 1..MaxResults |-> IF n = 1 THEN {} ELSE {n - 1}]

VARIABLE focus   \* what is looked at

mcVars == <<vars, lineageVars, pipelineVars, focus>>

NoPipeline ==
    /\ results = [read |-> "absent", manifest |-> "other", entries |-> <<>>]
    /\ options = [noLive |-> TRUE, noFail |-> FALSE]
    /\ step = "load" /\ reports = <<>> /\ connection = "none" /\ enriched = 0
    /\ grouped = {} /\ single = {} /\ exit = Running

NoLineage ==
    /\ manifest = [parents |-> [n \in Node |-> <<>>], known |-> {Root},
                   declares |-> {}, mapped |-> FALSE]
    /\ error = "data" /\ phase = "done" /\ queue = <<>> /\ visited = {} /\ origin = NoNode
    /\ trail = <<>> /\ probed = 0 /\ disconnect = NoVerdict /\ advice = "none"

NoRootCause ==
    /\ tables = {}
    /\ grants = [r \in Roles |-> {MCUsage}]
    /\ history = "behind" /\ inputs = [declared |-> NoRole, query |-> FALSE, ended |-> FALSE]
    /\ pc = "done" /\ pending = {} /\ group = Unknown /\ identity = {} /\ attempts = 0
    /\ exists = "unanswered"
    /\ verdict = [g \in Groups |-> [says |-> "none", by |-> NoIdentity]]
    /\ seen = [o \in Objects |-> {}] /\ pages = {history} /\ failed = {} /\ changes = 0

MCInit ==
    \/ focus = "objects" /\ Init /\ NoLineage /\ NoPipeline
    \/ focus = "lineage" /\ LineageInit /\ NoRootCause /\ NoPipeline
    \/ focus = "pipeline" /\ PipelineInit /\ NoRootCause /\ NoLineage

MCNext ==
    /\ UNCHANGED focus
    /\ \/ focus = "objects" /\ Next /\ UNCHANGED <<lineageVars, pipelineVars>>
       \/ focus = "lineage" /\ LineageNext /\ UNCHANGED <<vars, pipelineVars>>
       \/ focus = "pipeline" /\ PipelineNext /\ UNCHANGED <<vars, lineageVars>>

MCSpec == MCInit /\ [][MCNext]_mcVars

MCFairSpec ==
    /\ MCSpec
    /\ WF_mcVars(focus = "objects" /\ Diagnose /\ UNCHANGED <<lineageVars, pipelineVars, focus>>)
=============================================================================
