----------------------------- MODULE MCGovernance ----------------------------
(***************************************************************************)
(* The parts of the issue governance in one run.  They share no state:     *)
(* `focus` says which of them moves, and the others rest.                  *)
(***************************************************************************)
EXTENDS FindCycles, IssueContract, BacklogSynthesis, PacketBudget, TrackerSnapshot,
        SynthesisReview, TLC

VARIABLE focus
vars == <<focus, searchVars, contractVars, readinessVars, budgetVars, snapshotVars, reviewVars>>

Deps(a, b, c) == [i \in Issue |-> CASE i = 1 -> a [] i = 2 -> b [] OTHER -> c]

(* No relation, a chain, a cycle with an issue that depends on it, and a   *)
(* dependency on a pull request.                                           *)
MCStarts ==
    {Deps({}, {}, {}), Deps({2}, {3}, {}), Deps({2}, {1}, {1}), Deps({4}, {2}, {})}

(* Two issues with equal titles, a third that shares half of its tokens.   *)
MCTitle == [i \in Issue |-> IF i = 3 THEN {"a", "c"} ELSE {"a", "b"}]
MCContext == [i \in Issue |-> {"kind"}]
MCFilters == {<<>>, <<{1}>>, <<{2, 3}>>}
MCHypothesis == [i \in Issue |-> IF i = 2 THEN {{1}} ELSE {}]

(* Around every size at which a number grows a digit or a limit is passed. *)
MCWeights == UNION {(n - 100) .. (n + 4) : n \in {1000, 4000, 10000, 40000, 100000, 204800, 307200}}

Symmetry == Permutations(Shell)

SearchRests == graph = <<>> /\ search = SearchStart
ContractRests == ContractInit /\ kind = CHOOSE k \in Kinds : TRUE
TrackerRests == Tracker(FALSE, Deps({}, {}, {}))
BudgetRests == BudgetInit /\ weight = 1000
SnapshotRests == SnapshotStart(<<>>, [n \in Item |-> "open"])
ReviewRests == ReviewInit

Init ==
    \/ /\ focus = "cycles" /\ SearchInit
       /\ ContractRests /\ TrackerRests /\ BudgetRests /\ SnapshotRests /\ ReviewRests
    \/ /\ focus = "contract" /\ ContractInit
       /\ SearchRests /\ TrackerRests /\ BudgetRests /\ SnapshotRests /\ ReviewRests
    \/ /\ focus = "readiness" /\ ReadinessInit
       /\ SearchRests /\ ContractRests /\ BudgetRests /\ SnapshotRests /\ ReviewRests
    \/ /\ focus = "budget" /\ BudgetInit
       /\ SearchRests /\ ContractRests /\ TrackerRests /\ SnapshotRests /\ ReviewRests
    \/ /\ focus = "snapshot" /\ SnapshotInit
       /\ SearchRests /\ ContractRests /\ TrackerRests /\ BudgetRests /\ ReviewRests
    \/ /\ focus = "review" /\ ReviewInit
       /\ SearchRests /\ ContractRests /\ TrackerRests /\ BudgetRests /\ SnapshotRests

Next ==
    /\ UNCHANGED focus
    /\ \/ /\ focus = "cycles" /\ SearchNext
          /\ UNCHANGED <<contractVars, readinessVars, budgetVars, snapshotVars, reviewVars>>
       \/ /\ focus = "contract" /\ ContractNext
          /\ UNCHANGED <<searchVars, readinessVars, budgetVars, snapshotVars, reviewVars>>
       \/ /\ focus = "readiness" /\ ReadinessNext
          /\ UNCHANGED <<searchVars, contractVars, budgetVars, snapshotVars, reviewVars>>
       \/ /\ focus = "budget" /\ Attempt
          /\ UNCHANGED <<searchVars, contractVars, readinessVars, snapshotVars, reviewVars>>
       \/ /\ focus = "snapshot" /\ SnapshotNext
          /\ UNCHANGED <<searchVars, contractVars, readinessVars, budgetVars, reviewVars>>
       \/ /\ focus = "review" /\ ReviewNext
          /\ UNCHANGED <<searchVars, contractVars, readinessVars, budgetVars, snapshotVars>>

Spec == Init /\ [][Next]_vars
=============================================================================
