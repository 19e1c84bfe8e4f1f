-------------------------- MODULE BranchProtection --------------------------
(***************************************************************************)
(* The scripts of scripts/governance that export, apply and roll back the  *)
(* protection of branches on GitHub.  A script goes from branch to branch, *)
(* asks and tells GitHub through gh, and stops at the first step that      *)
(* fails; administrators change the protection meanwhile, and a script may *)
(* be run again at any time.                                               *)
(***************************************************************************)
EXTENDS Naturals, Sequences

CONSTANTS
    Branches,   \* the covered branches, in the order of BRANCHES
    MaxScripts, \* bound of the scripts run
    MaxAdmin    \* bound of the changes by administrators

VARIABLES
    protection,  \* per branch: on GitHub
    snapshot,    \* per branch: exports/<branch>.json
    script,      \* the running script: its name, the branches left, the next step
    scripts, admin,   \* so far
    replaced,    \* history, per branch: what was there when the apply that made
                 \* the snapshot replaced it
    doubt        \* history, per branch: why that may not be in the snapshot

protectionVars == <<protection, snapshot, script, scripts, admin, replaced, doubt>>

Branch == {Branches[i] : i \in DOMAIN Branches}

ASSUME ProtectionAssumption == Branches \in Seq(Branch) /\ Branches # <<>>

(* Configurations; "null" is an unprotected branch.                        *)
Settings == {"null", "old", "policy", "edited"}

NoScript == [name |-> "none", todo |-> <<>>, next |-> "none"]

ProtectionInit ==
    /\ protection \in [Branch -> {"null", "old"}]
    /\ snapshot = [b \in Branch |-> "absent"]
    /\ script = NoScript
    /\ scripts = 0 /\ admin = 0
    /\ replaced = [b \in Branch |-> "nothing"]
    /\ doubt = [b \in Branch |-> "none"]

-----------------------------------------------------------------------------
(* Mutant.  apply does not export first.                                   *)
FirstStepWithoutExport(name) == IF name = "export" THEN "export" ELSE "put"

FirstStep(name) == IF name = "rollback" THEN "put" ELSE "export"

(* All covered branches, or one of them with --branch.                     *)
Run(name) ==
    /\ script = NoScript /\ scripts < MaxScripts
    /\ scripts' = scripts + 1
    /\ \E todo \in {Branches} \cup {<<b>> : b \in Branch} :
          script' = [name |-> name, todo |-> todo, next |-> FirstStep(name)]
    /\ UNCHANGED <<protection, snapshot, admin, replaced, doubt>>

At(step, b) == script.next = step /\ script.todo # <<>> /\ b = Head(script.todo)

NextBranch ==
    script' = IF Len(script.todo) = 1 THEN NoScript
              ELSE [script EXCEPT !.todo = Tail(@), !.next = FirstStep(script.name)]

(* export-branch-protection.sh, for one branch.  Whatever fails is taken   *)
(* for an unprotected branch.                                              *)
Export(b) ==
    /\ At("export", b)
    /\ \E answered \in BOOLEAN :
          /\ snapshot' = [snapshot EXCEPT ![b] = IF answered THEN protection[b] ELSE "null"]
          /\ doubt' = [doubt EXCEPT ![b] = IF answered THEN "none" ELSE "unanswered"]
    /\ replaced' = [replaced EXCEPT ![b] = "nothing"]
    /\ \/ script.name = "export" /\ NextBranch
       \/ script.name # "export" /\ script' = [script EXCEPT !.next = "put"]
    /\ UNCHANGED <<protection, scripts, admin>>

(* jq fails when the file it writes to has been emptied.                   *)
ExportBreaks(b) ==
    /\ At("export", b)
    /\ snapshot' = [snapshot EXCEPT ![b] = "broken"]
    /\ replaced' = [replaced EXCEPT ![b] = "nothing"]
    /\ script' = NoScript
    /\ UNCHANGED <<protection, scripts, admin, doubt>>

(* The script is interrupted, or gh fails: it stops where it is.           *)
Stop ==
    /\ script # NoScript /\ script' = NoScript
    /\ UNCHANGED <<protection, snapshot, scripts, admin, replaced, doubt>>

Apply(b) ==
    /\ At("put", b) /\ script.name = "apply"
    /\ protection' = [protection EXCEPT ![b] = "policy"]
    /\ replaced' = [replaced EXCEPT ![b] = protection[b]]
    /\ NextBranch
    /\ UNCHANGED <<snapshot, scripts, admin, doubt>>

(* Without a snapshot of use the script stops; a failure to delete is      *)
(* ignored.                                                                *)
Rollback(b) ==
    /\ At("put", b) /\ script.name = "rollback"
    /\ \/ /\ snapshot[b] \in {"absent", "broken"}
          /\ script' = NoScript /\ UNCHANGED protection
       \/ /\ snapshot[b] \notin {"absent", "broken"}
          /\ protection' = [protection EXCEPT ![b] = snapshot[b]]
          /\ NextBranch
       \/ snapshot[b] = "null" /\ NextBranch /\ UNCHANGED protection
    /\ UNCHANGED <<snapshot, scripts, admin, replaced, doubt>>

(* Somebody changes the protection in the settings.                        *)
ChangeSettings(b) ==
    /\ admin < MaxAdmin /\ admin' = admin + 1
    /\ protection' = [protection EXCEPT ![b] = "edited"]
    /\ doubt' = [doubt EXCEPT ![b] = IF replaced[b] = "nothing" THEN "edited" ELSE @]
    /\ UNCHANGED <<snapshot, script, scripts, replaced>>

ProtectionNext ==
    \/ \E name \in {"export", "apply", "rollback"} : Run(name)
    \/ \E b \in Branch :
          \/ Export(b) \/ ExportBreaks(b) \/ Apply(b) \/ Rollback(b)
          \/ ChangeSettings(b)
    \/ Stop

ProtectionSpec == ProtectionInit /\ [][ProtectionNext]_protectionVars

-----------------------------------------------------------------------------
(* "There is always a before-state to roll back to", says the head of      *)
(* apply-branch-protection.sh: what an apply replaces on a branch is in    *)
(* the snapshot made first, as long as nothing is exported again, be it    *)
(* the first apply or a repeated one, and however earlier ones failed.  If *)
(* GitHub did not answer, the snapshot is "null", which a rollback takes   *)
(* for an unprotected branch; otherwise only a change of the settings      *)
(* between the export and the PUT can make the two differ.                 *)
ReplacedIsKept ==
    \A b \in Branch : replaced[b] # "nothing" =>
        \/ snapshot[b] = replaced[b]
        \/ snapshot[b] = "null" /\ doubt[b] = "unanswered"
        \/ doubt[b] = "edited"
=============================================================================
