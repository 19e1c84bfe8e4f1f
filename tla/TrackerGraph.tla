----------------------------- MODULE TrackerGraph ----------------------------
(***************************************************************************)
(* The graph algorithms of readiness.py: find_cycles, dependency_impact    *)
(* and the closure of the release gate.  A graph maps an open issue to the *)
(* issues its body depends on, some of which may not be open issues.       *)
(*                                                                         *)
(* find_cycles is a depth-first search that reports a cycle when it meets  *)
(* a node of its own path.  It is written as the step of a machine, so     *)
(* that FindCycles can run it step by step and CyclesOf from end to end.   *)
(***************************************************************************)
EXTENDS Integers, Sequences, FiniteSets

Smallest(S) == CHOOSE n \in S : \A k \in S : n <= k

-----------------------------------------------------------------------------
(* The search: the path from a root, what is left to visit below each node *)
(* of the path, the nodes done with and the cycles found.                  *)
SearchStart == [path |-> <<>>, left |-> <<>>, visited |-> {}, cycles |-> {}]

Visiting(path) == {path[i] : i \in DOMAIN path}

(* A cycle as the report has it: the part of the path that closes, turned  *)
(* so that its smallest number comes first.                                *)
Turned(core) ==
    LET k == CHOOSE i \in DOMAIN core : \A j \in DOMAIN core : core[i] <= core[j]
    IN  SubSeq(core, k, Len(core)) \o SubSeq(core, 1, k - 1)

Closing(path, node) ==
    LET k == CHOOSE i \in DOMAIN path : path[i] = node
    IN  Turned(SubSeq(path, k, Len(path)))

(* Mutant.  A node counts as visited from the moment it is entered.        *)
VisitOnce(graph, s, node) ==
    IF node \in s.visited \cup Visiting(s.path) THEN s
    ELSE [s EXCEPT !.path = Append(@, node), !.left = Append(@, graph[node] \cap DOMAIN graph)]

(* visit(node) up to its loop over the dependencies.                       *)
Visit(graph, s, node) ==
    CASE node \in Visiting(s.path) -> [s EXCEPT !.cycles = @ \cup {Closing(s.path, node)}]
      [] node \in s.visited     -> s
      [] OTHER -> [s EXCEPT !.path = Append(@, node),
                            !.left = Append(@, graph[node] \cap DOMAIN graph)]

Return(s) ==
    LET top == Len(s.path)
    IN  [path |-> SubSeq(s.path, 1, top - 1), left |-> SubSeq(s.left, 1, top - 1),
         visited |-> s.visited \cup {s.path[top]}, cycles |-> s.cycles]

(* Sorted order: the smallest root and the smallest dependency come first. *)
SearchStep(graph, s) ==
    IF s.path = <<>>
    THEN Visit(graph, s, Smallest(DOMAIN graph \ s.visited))
    ELSE LET top == Len(s.left) IN
         IF s.left[top] = {} THEN Return(s)
         ELSE LET node == Smallest(s.left[top])
                  rest == [s.left EXCEPT ![top] = @ \ {node}]
              IN  Visit(graph, [s EXCEPT !.left = rest], node)

SearchDone(graph, s) == s.path = <<>> /\ s.visited = DOMAIN graph

CyclesOf(graph) ==
    LET N == Cardinality(DOMAIN graph)
        run[k \in Nat] ==
            IF k = 0 THEN SearchStart
            ELSE LET s == run[k - 1]
                 IN  IF SearchDone(graph, s) THEN s ELSE SearchStep(graph, s)
    IN  run[N * (N + 2)].cycles

-----------------------------------------------------------------------------
(* The nodes a path of one or more edges leads to, by as many rounds of    *)
(* the queue as there are nodes.                                           *)
Reach(next, start) ==
    LET N == Cardinality(DOMAIN next)
        round[k \in 0 .. N] ==
            IF k = 0 THEN start
            ELSE round[k - 1] \cup UNION {next[n] : n \in round[k - 1] \cap DOMAIN next}
    IN  round[N]

Dependents(graph, n) == {m \in DOMAIN graph : n \in graph[m]}

Impact(graph, n) ==
    Cardinality(Reach([k \in DOMAIN graph |-> Dependents(graph, k)],
                      Dependents(graph, n)))

(* derive_release_gate follows the dependencies of closed issues too, and  *)
(* keeps only open ones at the end: `deps` is of every issue known.        *)
Gate(deps, open, seeds) == Reach(deps, seeds) \cap open
=============================================================================
