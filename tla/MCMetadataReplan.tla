-------------------------- MODULE MCMetadataReplan ---------------------------
(***************************************************************************)
(* Plans made again, in one run.  With the focus on "apply", plan and      *)
(* approval files change under running invocations; with the focus on      *)
(* "audit", plans are made of a tracker, applied and made again.  The two  *)
(* share no state, and one of them rests.                                  *)
(***************************************************************************)
EXTENDS MCMetadataApply, MetadataAudit

CONSTANT feature

VARIABLE focus
mcVars == <<focus, vars, auditVars>>

(* "BUG" is how a policy may spell the label bug.                          *)
MCNames == {bug, "BUG", "ghost", feature}
MCLiveName == [n \in MCNames |-> CASE n \in {bug, "BUG"} -> bug
                                  [] n = feature -> feature
                                  [] OTHER -> NoLabel]
MCBodies ==
    {[needs |-> {}, section |-> {}], [needs |-> {2}, section |-> {}],
     [needs |-> {1, 3}, section |-> {2, 3}]}

MCTrackers ==
    {[meta |-> [i \in Issues |-> [state |-> "open", milestone |-> m, labels |-> l]],
      title |-> [i \in Issues |-> "fix"], body |-> [i \in Issues |-> b]] :
        m \in MaybeMilestone, l \in SUBSET Labels, b \in MCBodies}

Desired(add, remove, m) == [add |-> add, remove |-> remove, milestone |-> m, batch |-> b1]
NotDesired == Desired({}, {}, Unset)

(* Spelling, what is enforced, the release, and what is desired of issue 1.*)
MCGovernance ==
    {[infer |-> [t \in Titles |-> IF t = "fix" THEN name ELSE NoLabel],
      align |-> align, oneType |-> ~align, types |-> {bug, "BUG", feature},
      release |-> [milestone |-> m, additional |-> {3}, epics |-> {1, 3},
                   includeEpics |-> closure, closure |-> closure],
      batch |-> [i \in Issues |-> IF i = 1 THEN b1 ELSE b2],
      desired |-> [i \in Issues |-> IF i = 1 THEN d ELSE NotDesired]] :
        name \in MCNames \ {feature}, align \in BOOLEAN, m \in {NoMilestone, m1, NoSuchMilestone},
        closure \in BOOLEAN,
        d \in {NotDesired, Desired({"BUG"}, {}, m1), Desired({}, {bug}, NoMilestone),
               Desired({}, {"ghost"}, m2), Desired({"ghost"}, {}, Unset),
               Desired({}, {}, NoSuchMilestone), Desired({bug}, {"BUG"}, Unset), Desired({}, {feature}, Unset)}}

AuditRests ==
    /\ policy = (CHOOSE p \in MCGovernance : TRUE)
    /\ tracker = (CHOOSE t \in MCTrackers : TRUE)
    /\ pending = {} /\ phase = "none" /\ quiet = TRUE /\ touches = 0
ApplyRests == Init /\ issue = (CHOOSE i \in InitialIssues : TRUE)

MCInit ==
    \/ focus = "apply" /\ Init /\ AuditRests
    \/ focus = "audit" /\ AuditInit /\ ApplyRests

MCNext ==
    /\ UNCHANGED focus
    /\ \/ focus = "apply" /\ Next /\ UNCHANGED auditVars
       \/ focus = "audit" /\ AuditNext /\ UNCHANGED vars

MCSpec == MCInit /\ [][MCNext]_mcVars
=============================================================================
