------------------------------ MODULE Lineage -------------------------------
(***************************************************************************)
(* The lineage trail of one failed model and the verdict on where it       *)
(* breaks: the walks of tracers/dag_walker.py up the manifest, the live    *)
(* look at each step of the trail and the disconnect that                  *)
(* enrichers/enrich.py makes of them.                                      *)
(*                                                                         *)
(* Abstracted: an ancestor of a model that ran did not fail in that run.   *)
(***************************************************************************)
EXTENDS Integers, Sequences, FiniteSetsExt, Selection

CONSTANTS
    Node,      \* unique ids, numbered so that parents follow their children
    MaxDepth   \* max_depth of the walks

ASSUME LineageAssumption ==
    Node \subseteq Nat /\ IsFiniteSet(Node) /\ Node # {} /\ MaxDepth \in Nat \ {0}

VARIABLES
    manifest,  \* parents: of each node, in order; known: the nodes and sources in
               \* it; declares: those with the column; mapped: has a parent_map
    error,     \* what Snowflake said of the model: "column", "object", "data"
    phase,     \* the next step of the diagnosis
    queue,     \* of the walk: nodes with their depth
    visited,
    origin,    \* find_column_origin
    trail,     \* finding.lineage_trail
    probed,    \* steps of the trail that have been looked at
    disconnect, \* finding.disconnect
    advice     \* what the fix suggestion says of CREATE TABLE

lineageVars ==
    <<manifest, error, phase, queue, visited, origin, trail, probed, disconnect, advice>>

Root == Min(Node)
NoNode == -1
Missing == -2   \* stands for an object that no node of the manifest has
NoVerdict == [node |-> NoNode, confidence |-> "none"]

(* The parents of a node may be listed in any order.                       *)
Orders == {s \in [1 .. Cardinality(Node) -> Node] : \A n \in Node : \E i \in DOMAIN s : s[i] = n}

Manifests ==
    LET graphs == {g \in [Node -> SUBSET Node] : \A n \in Node : \A p \in g[n] : n < p}
    IN  {m \in [parents : {[n \in Node |-> Those(order, g[n])] : g \in graphs, order \in Orders},
                known : SUBSET Node, declares : SUBSET Node, mapped : BOOLEAN] :
            Root \in m.known /\ m.declares \subseteq m.known \ {Root}}

LineageInit ==
    /\ manifest \in Manifests
    /\ error \in {"column", "object", "data"}
    /\ phase = "classify"
    /\ queue = <<>> /\ visited = {} /\ origin = NoNode
    /\ trail = <<>> /\ probed = 0 /\ disconnect = NoVerdict /\ advice = "none"

-----------------------------------------------------------------------------
(* get_parents: without a parent_map, of the nodes in the manifest only.   *)
GetParents(n) ==
    IF manifest.mapped \/ n \in manifest.known THEN manifest.parents[n] ELSE <<>>

Step(n, depth, status) ==
    [node |-> n, depth |-> depth, manifest |-> status, live |-> "unknown",
     run |-> IF n = Root THEN "error" ELSE "none"]

Declared(n) == IF n \in manifest.declares THEN "declared" ELSE "not_found"

Queued(nodes, depth) == [i \in 1 .. Len(nodes) |-> <<nodes[i], depth>>]

(* Mutant.  The walk goes deep first.                                      *)
EnqueueInFront(rest, parents, depth) ==
    LET fresh == Those(parents, Node \ visited)
    IN  queue' = Queued(fresh, depth) \o rest /\ visited' = visited \cup Range(fresh)

(* A node is marked when it is queued.                                     *)
Enqueue(rest, parents, depth) ==
    LET fresh == Those(parents, Node \ visited)
    IN  queue' = rest \o Queued(fresh, depth) /\ visited' = visited \cup Range(fresh)

StartWalk(walk) ==
    /\ phase' = walk
    /\ queue' = Queued(GetParents(Root), 1)
    /\ visited' = {Root} \cup Range(GetParents(Root))

Expand(n, depth) ==
    IF depth < MaxDepth THEN Enqueue(Tail(queue), GetParents(n), depth + 1)
    ELSE queue' = Tail(queue) /\ UNCHANGED visited

-----------------------------------------------------------------------------
(* An invalid identifier: is the column declared upstream?                 *)
TraceColumn ==
    /\ phase = "classify" /\ error = "column"
    /\ StartWalk("origin")
    /\ UNCHANGED <<manifest, error, origin, trail, probed, disconnect, advice>>

(* find_column_origin: nodes not in the manifest are not walked through.   *)
VisitForOrigin ==
    /\ phase = "origin" /\ queue # <<>>
    /\ LET n == Head(queue)[1] IN
       \/ /\ n \notin manifest.known
          /\ queue' = Tail(queue)
          /\ UNCHANGED <<phase, visited, origin>>
       \/ /\ n \in manifest.declares
          /\ origin' = n
          /\ phase' = "origin-known"
          /\ UNCHANGED <<queue, visited>>
       \/ /\ n \in manifest.known \ manifest.declares
          /\ Expand(n, Head(queue)[2])
          /\ UNCHANGED <<phase, origin>>
    /\ UNCHANGED <<manifest, error, trail, probed, disconnect, advice>>

(* trace_column_lineage starts, with the failed model.                     *)
StartTrail ==
    /\ phase = "origin-known" \/ (phase = "origin" /\ queue = <<>>)
    /\ trail' = <<Step(Root, 0, "declared")>>
    /\ StartWalk("trail")
    /\ UNCHANGED <<manifest, error, origin, probed, disconnect, advice>>

(* trace_column_lineage goes on through every node there is.               *)
VisitForTrail ==
    /\ phase = "trail" /\ queue # <<>>
    /\ trail' = Append(trail, Step(Head(queue)[1], Head(queue)[2], Declared(Head(queue)[1])))
    /\ Expand(Head(queue)[1], Head(queue)[2])
    /\ UNCHANGED <<manifest, error, phase, origin, probed, disconnect, advice>>

EndTrail ==
    /\ phase = "trail" /\ queue = <<>>
    /\ phase' = "enrich"
    /\ UNCHANGED <<manifest, error, queue, visited, origin, trail, probed, disconnect, advice>>

(* trace_object_lineage: the node of that relation, anywhere in the        *)
(* manifest, or a step made up for the missing object.                     *)
TraceObject ==
    /\ phase = "classify" /\ error = "object"
    /\ \E n \in (manifest.known \ {Root}) \cup {Missing} :
          trail' = <<Step(Root, 0, "declared"),
                     Step(n, 1, IF n = Missing THEN "missing" ELSE "declared")>>
    /\ phase' = "enrich"
    /\ UNCHANGED <<manifest, error, queue, visited, origin, probed, disconnect, advice>>

(* _build_basic_trail: the model and its parents.                          *)
TraceData ==
    /\ phase = "classify" /\ error = "data"
    /\ LET parents == GetParents(Root) IN
       trail' = <<Step(Root, 0, "not_checked")>>
                \o [i \in DOMAIN parents |-> Step(parents[i], 1, "declared")]
    /\ phase' = "enrich"
    /\ UNCHANGED <<manifest, error, queue, visited, origin, probed, disconnect, advice>>

-----------------------------------------------------------------------------
(* _enrich_lineage_trail.  A step without a relation is not looked at.     *)
(* table_exists answers None when its query fails, and that is taken for   *)
(* "missing" too; describe_table answers nothing when its query fails or   *)
(* the table has gone since, and the step stays "exists".                  *)
Findings(s) ==
    {"exists", "missing"}
    \cup (IF error = "column" THEN {"no_column"} ELSE {})
    \cup (IF s.node = Missing THEN {} ELSE {"unknown"})

Probe ==
    /\ phase = "enrich" /\ probed < Len(trail)
    /\ probed' = probed + 1
    /\ \E live \in IF trail[probed'].node \in manifest.known \cup {Missing}
                   THEN Findings(trail[probed']) ELSE {"unknown"} :
          trail' = [trail EXCEPT ![probed'] = [@ EXCEPT !.live = live]]
    /\ UNCHANGED <<manifest, error, phase, queue, visited, origin, disconnect, advice>>

(* _is_passing, _is_failing                                                *)
IsPassing(s) ==
    \/ s.live = "exists"
    \/ s.live = "unknown" /\ (s.manifest = "declared" \/ s.run = "pass")

IsFailing(s) ==
    \/ s.live \in {"missing", "no_column"}
    \/ s.manifest \in {"not_found", "missing"}
    \/ s.run = "error"

(* Where a step that passes is followed by one that fails.                 *)
Boundaries ==
    {i \in 1 .. Len(trail) - 1 : IsPassing(trail[i]) /\ IsFailing(trail[i + 1])}

(* Mutant.  The trail is searched from its far end.                        *)
DisconnectFromFarEnd ==
    LET failing == {i \in DOMAIN trail : IsFailing(trail[i])} IN
    CASE Len(trail) < 2 -> NoVerdict
      [] Len(trail) >= 2 /\ Boundaries # {} ->
            [node |-> trail[Max(Boundaries) + 1].node, confidence |-> "found"]
      [] Len(trail) >= 2 /\ Boundaries = {} /\ failing # {} ->
            [node |-> trail[Max(failing)].node, confidence |-> "low"]
      [] OTHER -> NoVerdict

(* _identify_disconnect: the first boundary, else the last step to fail.   *)
Disconnect ==
    LET failing == {i \in DOMAIN trail : IsFailing(trail[i])} IN
    CASE Len(trail) < 2 -> NoVerdict
      [] Len(trail) >= 2 /\ Boundaries # {} ->
            [node |-> trail[Min(Boundaries) + 1].node, confidence |-> "found"]
      [] Len(trail) >= 2 /\ Boundaries = {} /\ failing # {} ->
            [node |-> trail[Max(failing)].node, confidence |-> "low"]
      [] OTHER -> NoVerdict

IdentifyDisconnect ==
    /\ phase = "enrich" /\ probed = Len(trail)
    /\ disconnect' = Disconnect
    /\ phase' = "identified"
    /\ UNCHANGED <<manifest, error, queue, visited, origin, trail, probed, advice>>

(* _check_write_access_for_unmaterialized: of the runtime errors, where a  *)
(* table is missing and the role of the session can be told.               *)
CheckWriteAccess ==
    /\ phase = "identified" /\ phase' = "done"
    /\ \/ /\ error = "object" \/ (error = "column" /\ origin = NoNode)
          /\ \E i \in DOMAIN trail : trail[i].live = "missing"
          /\ advice' \in {"none", "grant", "verified"}
       \/ UNCHANGED advice
    /\ UNCHANGED <<manifest, error, queue, visited, origin, trail, probed, disconnect>>

LineageNext ==
    \/ TraceColumn \/ VisitForOrigin \/ StartTrail \/ VisitForTrail \/ EndTrail
    \/ TraceObject \/ TraceData
    \/ Probe \/ IdentifyDisconnect \/ CheckWriteAccess

LineageSpec == LineageInit /\ [][LineageNext]_lineageVars

-----------------------------------------------------------------------------
(* What the walks are to find: the nodes at each distance from the model,  *)
(* over nodes of the set through.                                          *)
AtDistance(through) ==
    LET nodes[d \in 0 .. MaxDepth] ==
            IF d = 0 THEN {Root}
            ELSE UNION {Range(GetParents(n)) : n \in nodes[d - 1] \cap (through \cup {Root})}
    IN  nodes

(* find_column_origin names an ancestor nearest to the model of those that *)
(* declare the column, whatever ancestors share parents and whichever list *)
(* is longest, and none only if none within the depth declares it; and the *)
(* trail of the same column shows it as declared.                          *)
NearestOriginFound ==
    error = "column" /\ phase \in {"origin-known", "trail", "enrich"} =>
        LET at == AtDistance(manifest.known)
            hits == {d \in 1 .. MaxDepth : at[d] \cap manifest.declares # {}}
        IN  /\ origin = NoNode => hits = {}
            /\ origin # NoNode => hits # {} /\ origin \in at[Min(hits)] \cap manifest.declares
            /\ phase = "enrich" /\ origin # NoNode =>
                   \E i \in DOMAIN trail :
                       trail[i].node = origin /\ trail[i].manifest = "declared"

(* Of a model that is there, the verdict blames an ancestor nearest to it  *)
(* of those the manifest lacks, or lack the column, or are not found in    *)
(* Snowflake; and only with low confidence if there is none.               *)
NearestFailureBlamed ==
    error = "column" /\ phase = "identified" /\ trail[1].live \in {"unknown", "exists"}
    /\ Len(trail) > 1 =>
        LET at == AtDistance(Node)
            live(n) == {trail[i].live : i \in {j \in DOMAIN trail : trail[j].node = n}}
            bad == {n \in Node \ {Root} :
                       n \notin manifest.declares \/ live(n) \cap {"missing", "no_column"} # {}}
            hits == {d \in 1 .. MaxDepth : at[d] \cap bad # {}}
        IN  /\ disconnect.confidence = "low" => hits = {}
            /\ disconnect.confidence = "found" => hits # {} /\ disconnect.node \in at[Min(hits)] \cap bad
            /\ disconnect # NoVerdict
=============================================================================
