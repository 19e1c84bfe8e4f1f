-------------------------- MODULE MCMetadataApply ---------------------------
(* Small instances of MetadataApply for TLC.                               *)
EXTENDS MetadataApply, TLC

CONSTANTS r1, r2, i1, bug, m1, m2, b1, b2, lockFile, otherLockFile

MCLockPath == [r \in Runs |-> lockFile]

MCOneIssue == {[i \in Issues |-> [state |-> "open", milestone |-> NoMilestone,
                                   labels |-> {}]]}

(* Setting m1 now replaces a milestone, which is destructive.              *)
MCOtherMilestone == {[i \in Issues |-> [state |-> "open", milestone |-> m2,
                                         labels |-> {}]]}

AddBug    == [kind |-> "issue.labels.add", issue |-> i1, value |-> bug, batch |-> b1]
SetFirst  == [kind |-> "issue.milestone.set", issue |-> i1, value |-> m1, batch |-> b1]

MCTwoOperations == {<<AddBug, SetFirst>>}

SetSecond == [kind |-> "issue.milestone.set", issue |-> i1, value |-> m2, batch |-> b1]

SetFirstLater == [SetFirst EXCEPT !.batch = b2]

MCTwoBatches == {<<AddBug, SetFirstLater>>}

MCChangingPolicy == {<<SetFirst>>, <<SetSecond>>}

(* Two worktrees: each run has a lock file of its own.                     *)
MCWorktrees == [r \in Runs |-> IF r = r1 THEN lockFile ELSE otherLockFile]

Symmetry == Permutations(Runs)
=============================================================================
