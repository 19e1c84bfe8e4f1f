---------------------------- MODULE QualityGate -----------------------------
(***************************************************************************)
(* The codex-quality gate: codex_quality.py checks the worktree and writes *)
(* a receipt, and the Stop hook lets a session end with changed protected  *)
(* files only if a receipt covers them.  Files change, at any time, by the *)
(* session, its subagents or a person; the two programs share nothing but  *)
(* the file system, git status and modification times.                     *)
(*                                                                         *)
(* Only protected paths are modelled; the semantic checks are abstracted   *)
(* to whether a file passes them.                                          *)
(***************************************************************************)
EXTENDS Naturals, FiniteSets

CONSTANTS
    Paths,    \* protected paths
    MaxTime,  \* bound of the clock
    MaxEdits  \* bound of the changes of files

ASSUME GateAssumption == MaxTime \in Nat /\ MaxEdits \in Nat

VARIABLES
    now,      \* the clock of the file system
    file,     \* per path: the file in the worktree
    receipt,  \* quality-receipt.json
    quality,  \* a run of codex-quality
    hook,     \* the Stop hook
    quiet,    \* history: no file and no receipt changed since the hook started
    touched,  \* history: paths changed since the current run, and since the run
              \* that wrote the receipt, began
    edits     \* how much of the bound on changes is spent

vars == <<now, file, receipt, quality, hook, quiet, touched, edits>>

-----------------------------------------------------------------------------
Times == 0 .. MaxTime

(* `edited` is when the content arrived; a moved file has an older mtime.  *)
File == [exists : BOOLEAN, dirty : BOOLEAN, sound : BOOLEAN, mtime : Times, edited : Times]

(* `scanned` and `whole` are history: when the run read the files, and     *)
(* whether it had a git status and no --path.                              *)
Receipt == [kind : {"none", "corrupt", "valid"}, passed : BOOLEAN, bound : SUBSET Paths,
            mtime : Times, scanned : Times, whole : BOOLEAN]

Quality == [pc : {"idle", "list", "write"}, requested : SUBSET Paths, passed : BOOLEAN,
            bound : SUBSET Paths, scanned : Times, whole : BOOLEAN]

Verdicts == {"none", "clean", "covered", "blocked", "skipped"}

(* `scanned` is history, of the receipt the hook has loaded.               *)
Hook == [pc : {"idle", "load", "compare"}, paths : SUBSET Paths, verdict : Verdicts,
         sawGit : BOOLEAN, scanned : Times]

TypeOK ==
    /\ now \in Times
    /\ file \in [Paths -> File]
    /\ receipt \in Receipt
    /\ quality \in Quality
    /\ hook \in Hook
    /\ quiet \in BOOLEAN
    /\ touched \in [{"run", "receipt"} -> SUBSET Paths]
    /\ edits \in 0 .. MaxEdits

NoReceipt == [kind |-> "none", passed |-> FALSE, bound |-> {}, mtime |-> 0, scanned |-> 0,
              whole |-> FALSE]

NoRun == [pc |-> "idle", requested |-> {}, passed |-> FALSE, bound |-> {}, scanned |-> 0,
          whole |-> FALSE]

Init ==
    /\ now = 0
    /\ file = [p \in Paths |-> [exists |-> TRUE, dirty |-> FALSE, sound |-> TRUE,
                                mtime |-> 0, edited |-> 0]]
    /\ receipt = NoReceipt
    /\ quality = NoRun
    /\ hook = [pc |-> "idle", paths |-> {}, verdict |-> "none", sawGit |-> TRUE,
               scanned |-> 0]
    /\ quiet = TRUE
    /\ touched = [k \in {"run", "receipt"} |-> {}]
    /\ edits = 0

-----------------------------------------------------------------------------
(* The worktree.                                                           *)

Existing == {p \in Paths : file[p].exists}

Dirty == {p \in Paths : file[p].dirty}

Tick ==
    /\ now < MaxTime
    /\ now' = now + 1
    /\ UNCHANGED <<file, receipt, quality, hook, quiet, touched, edits>>

Changes(p) ==
    /\ edits < MaxEdits
    /\ edits' = edits + 1
    /\ quiet' = FALSE
    /\ touched' = [k \in {"run", "receipt"} |-> touched[k] \cup {p}]
    /\ UNCHANGED <<now, receipt, quality, hook>>

(* An editor writes the file, or an older file is moved into its place.    *)
Edit(p) ==
    /\ Changes(p)
    /\ \E sound \in BOOLEAN, mtime \in {now, 0} :
         file' = [file EXCEPT ![p] = [exists |-> TRUE, dirty |-> TRUE, sound |-> sound,
                                      mtime |-> mtime, edited |-> now]]

Delete(p) ==
    /\ Changes(p)
    /\ file[p].exists
    /\ file' = [file EXCEPT ![p].exists = FALSE, ![p].dirty = TRUE, ![p].edited = now]

(* A commit takes the changes out of git status.                           *)
Commit ==
    /\ Dirty # {}
    /\ file' = [p \in Paths |-> [file[p] EXCEPT !.dirty = FALSE]]
    /\ UNCHANGED <<now, receipt, quality, hook, quiet, touched, edits>>

-----------------------------------------------------------------------------
(* codex-quality.                                                          *)

(* The checks read the files: all of them, or those named by --path, which *)
(* have to be there.                                                       *)
RunChecks ==
    /\ quality.pc = "idle"
    /\ \E requested \in SUBSET Paths :
         LET scope == IF requested = {} THEN Paths ELSE requested
         IN  quality' = [pc        |-> "list",
                         requested |-> requested,
                         passed    |-> /\ requested \subseteq Existing
                                       /\ \A p \in scope \cap Existing : file[p].sound,
                         bound     |-> {},
                         scanned   |-> now,
                         whole     |-> FALSE]
    /\ touched' = [touched EXCEPT !["run"] = {}]
    /\ UNCHANGED <<now, file, receipt, hook, quiet, edits>>

(* freshness_bound_protected_paths: a git failure counts as no changes.    *)
Bind(requested, visible) ==
    IF requested # {} THEN Existing \cap requested
    ELSE IF visible THEN Existing \cap Dirty ELSE {}

BuildReceipt ==
    /\ quality.pc = "list"
    /\ \E visible \in BOOLEAN :
         quality' = [quality EXCEPT !.pc = "write", !.requested = {},
                                    !.bound = Bind(quality.requested, visible),
                                    !.whole = visible /\ quality.requested = {}]
    /\ UNCHANGED <<now, file, receipt, hook, quiet, touched, edits>>

WriteReceipt ==
    /\ quality.pc = "write"
    /\ receipt' = [kind |-> "valid", passed |-> quality.passed, bound |-> quality.bound,
                   mtime |-> now, scanned |-> quality.scanned, whole |-> quality.whole]
    /\ quality' = NoRun
    /\ quiet' = FALSE
    /\ touched' = [touched EXCEPT !["receipt"] = touched["run"]]
    /\ UNCHANGED <<now, file, hook, edits>>

(* The run is stopped: before it writes, or half-way through the file.     *)
QualityDies ==
    /\ quality.pc # "idle"
    /\ quality' = NoRun
    /\ \/ UNCHANGED <<receipt, quiet>>
       \/ /\ quality.pc = "write"
          /\ receipt' = [NoReceipt EXCEPT !.kind = "corrupt", !.mtime = now]
          /\ quiet' = FALSE
    /\ UNCHANGED <<now, file, hook, touched, edits>>

-----------------------------------------------------------------------------
(* The Stop hook.                                                          *)

Decide(verdict) == hook' = [hook EXCEPT !.pc = "idle", !.verdict = verdict, !.scanned = 0]

(* git status, from which the protected paths are taken.                   *)
StopBegins ==
    /\ hook.pc = "idle"
    /\ \E visible \in BOOLEAN :
         hook' = IF ~ visible
                 THEN [hook EXCEPT !.verdict = "blocked", !.sawGit = FALSE, !.paths = {}]
                 ELSE IF Dirty = {}
                 THEN [hook EXCEPT !.verdict = "clean", !.sawGit = TRUE, !.paths = {}]
                 ELSE [hook EXCEPT !.pc = "load", !.sawGit = TRUE, !.paths = Dirty,
                                   !.verdict = "none"]
    /\ quiet' = TRUE
    /\ UNCHANGED <<now, file, receipt, quality, touched, edits>>

(* stop_hook_active: the session goes on only because the hook blocked it. *)
StopAgain ==
    /\ hook.pc = "idle"
    /\ hook.verdict = "blocked"
    /\ hook' = [hook EXCEPT !.verdict = "skipped"]
    /\ UNCHANGED <<now, file, receipt, quality, quiet, touched, edits>>

(* Mutant: whether the checks passed is not looked at.                     *)
CoversUnpassed == receipt.kind = "valid" /\ hook.paths \subseteq Existing \cap receipt.bound

(* load_receipt, then the paths that are gone and those not bound.         *)
Covers ==
    /\ receipt.kind = "valid"
    /\ receipt.passed
    /\ hook.paths \subseteq Existing \cap receipt.bound

LoadReceipt ==
    /\ hook.pc = "load"
    /\ IF Covers
       THEN hook' = [hook EXCEPT !.pc = "compare", !.scanned = receipt.scanned]
       ELSE Decide("blocked")
    /\ UNCHANGED <<now, file, receipt, quality, quiet, touched, edits>>

(* Mutant: a file as old as the receipt counts as newer.                   *)
NotOlder(p) == file[p].mtime >= receipt.mtime

Newer(p) == file[p].mtime > receipt.mtime

(* The modification times; a file deleted meanwhile raises, which blocks.  *)
CompareTimes ==
    /\ hook.pc = "compare"
    /\ Decide(IF \E p \in hook.paths : ~ file[p].exists \/ Newer(p) THEN "blocked"
                                                                    ELSE "covered")
    /\ UNCHANGED <<now, file, receipt, quality, quiet, touched, edits>>

-----------------------------------------------------------------------------
Next ==
    \/ Tick
    \/ \E p \in Paths : Edit(p) \/ Delete(p)
    \/ Commit
    \/ RunChecks \/ BuildReceipt \/ WriteReceipt \/ QualityDies
    \/ StopBegins \/ StopAgain \/ LoadReceipt \/ CompareTimes

Spec == Init /\ [][Next]_vars

-----------------------------------------------------------------------------
(* Properties.                                                             *)

(* The hook has just answered, and nothing changed while it ran.           *)
Answered(verdict) == hook.pc = "idle" /\ hook.verdict = verdict /\ quiet

(* A changed protected file that fails the checks is let through only if   *)
(* it got its content at or after the moment at which the checks behind    *)
(* the receipt the hook loaded read the files, and no later than the       *)
(* receipt then on file, or was moved into place with an old time: failed, *)
(* targeted and broken runs, deletions, and files and receipts that change *)
(* while the checks or the hook run included.                              *)
CoveredMeansSound ==
    [][hook.pc = "compare" /\ hook'.pc = "idle" /\ hook'.verdict = "covered" =>
         \A p \in hook.paths :
             ~ file[p].sound /\ file[p].mtime = file[p].edited =>
                 file[p].edited \in hook.scanned .. receipt.mtime]_vars

(* The hook does not block a session that ran codex-quality, and passed,   *)
(* after its last change: the receipt of a complete run covers everything, *)
(* unless git was not readable or a protected file is deleted, which no    *)
(* receipt can cover.                                                      *)
NoNeedlessBlock ==
    Answered("blocked") /\ hook.sawGit =>
        \/ receipt.kind # "valid" \/ ~ receipt.passed \/ ~ receipt.whole
        \/ touched["receipt"] # {}
        \/ ~ (hook.paths \subseteq Existing)

(* .codex/README.md:155: the freshness-bound paths prove codex-quality ran *)
(* after those paths changed.  The paths are listed and the receipt is     *)
(* stamped after the checks have read the files, so a file that changed in *)
(* between is bound, and covered, unread.                                  *)
CoveredMeansChecked ==
    Answered("covered") =>
        \A p \in hook.paths :
            file[p].mtime = file[p].edited => file[p].edited <= receipt.scanned
=============================================================================
