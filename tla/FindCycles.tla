------------------------------ MODULE FindCycles -----------------------------
(***************************************************************************)
(* find_cycles of readiness.py run to its end on any graph.  The audit     *)
(* blocks the issues of the cycles it returns, so a reported cycle has to  *)
(* be one, and a tracker without a report must have no cycle at all.  The  *)
(* search does not promise to report every cycle: nodes it is done with    *)
(* are not entered again.                                                  *)
(***************************************************************************)
EXTENDS TrackerGraph

CONSTANT Node  \* issue numbers

ASSUME NodeAssumption == Node \subseteq Nat /\ IsFiniteSet(Node)

VARIABLES
    graph,  \* the dependencies of the open issues
    search  \* where the search stands

searchVars == <<graph, search>>

Graphs == UNION {[D -> SUBSET Node] : D \in SUBSET Node}

SearchInit == graph \in Graphs /\ search = SearchStart

SearchNext ==
    /\ ~SearchDone(graph, search)
    /\ search' = SearchStep(graph, search)
    /\ UNCHANGED graph

SearchSpec == SearchInit /\ [][SearchNext]_searchVars

-----------------------------------------------------------------------------
Path == {p \in Seq(Node) : \A i, j \in DOMAIN p : p[i] = p[j] => i = j}

SearchTypeOK ==
    /\ graph \in Graphs
    /\ search.path \in Path
    /\ search.left \in Seq(SUBSET Node) /\ Len(search.left) = Len(search.path)
    /\ search.visited \subseteq DOMAIN graph
    /\ search.cycles \subseteq Path

(* Each issue of a reported cycle depends on the next and the last on the  *)
(* first.                                                                  *)
ReportedCyclesAreCycles ==
    \A c \in search.cycles :
        /\ Len(c) > 0
        /\ \A i \in DOMAIN c : c[i] \in DOMAIN graph
        /\ \A i \in 1 .. Len(c) - 1 : c[i + 1] \in graph[c[i]]
        /\ c[1] \in graph[c[Len(c)]]

(* Some issue of any set depends on none of the set: the issues can be put *)
(* in an order in which each comes after what it depends on.               *)
Acyclic ==
    \A S \in (SUBSET DOMAIN graph) \ {{}} : \E n \in S : graph[n] \cap S = {}

(* A search that ends without a report has seen a graph without a cycle.   *)
NoReportMeansAcyclic ==
    SearchDone(graph, search) /\ search.cycles = {} => Acyclic

(* The audit blocks the issues of the reported cycles: it blocks none for  *)
(* a cycle that is not there, and is not silent about a tracker with one.  *)
CycleReportIsRight == ReportedCyclesAreCycles /\ NoReportMeansAcyclic
=============================================================================
