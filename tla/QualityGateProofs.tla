-------------------------- MODULE QualityGateProofs --------------------------
(***************************************************************************)
(* What the Stop hook's answers and the review packet's claims mean, for   *)
(* any set of protected paths, and any number of edits, commits, runs of   *)
(* codex-quality, stops and packets; when the summary of a pull request    *)
(* says that nothing is left to do; and what an apply of the branch        *)
(* protection leaves to roll back to.                                      *)
(***************************************************************************)
EXTENDS ReviewPacket, ReviewStatus, BranchProtection, InductionLemmas

-----------------------------------------------------------------------------
(* Type correctness.                                                       *)

LEMMA FilesType ==
    ASSUME TypeOK, NEW p \in Paths, Edit(p) \/ Delete(p)
    PROVE  file' \in [Paths -> File]
<1>1. now \in Times /\ 0 \in Times /\ file \in [Paths -> File]
  BY GateAssumption DEF TypeOK, Times
<1>2. CASE Edit(p)
  BY <1>1, <1>2 DEF Edit, File
<1>3. CASE Delete(p)
  BY <1>1, <1>3 DEF Delete, File
<1> QED
  BY <1>2, <1>3

LEMMA NoRunType ==
    ASSUME TypeOK
    PROVE  NoRun \in Quality /\ [NoReceipt EXCEPT !.kind = "corrupt", !.mtime = now] \in Receipt
<1>1. 0 \in Times /\ now \in Times
  BY GateAssumption DEF TypeOK, Times
<1>2. NoRun \in Quality
  BY <1>1 DEF NoRun, Quality
<1>3. NoReceipt \in Receipt
  BY <1>1 DEF NoReceipt, Receipt
<1>4. [NoReceipt EXCEPT !.kind = "corrupt", !.mtime = now] \in Receipt
  BY <1>1, <1>3 DEF Receipt
<1> QED
  BY <1>2, <1>4

LEMMA TypeStep == TypeOK /\ [Next]_vars => TypeOK'
<1> SUFFICES ASSUME TypeOK, [Next]_vars PROVE TypeOK'
  OBVIOUS
<1> USE GateAssumption DEF TypeOK
<1>1. CASE UNCHANGED vars
  BY <1>1 DEF vars
<1>2. CASE Tick
  BY <1>2 DEF Tick, Times
<1>3. ASSUME NEW p \in Paths, Edit(p) \/ Delete(p)
      PROVE  TypeOK'
  <2>1. file' \in [Paths -> File]
    BY <1>3, FilesType
  <2>2. Changes(p)
    BY <1>3 DEF Edit, Delete
  <2>3. edits' \in 0 .. MaxEdits
    BY <2>2 DEF Changes
  <2>4. quiet' \in BOOLEAN
    BY <2>2 DEF Changes
  <2>5. touched' \in [{"run", "receipt"} -> SUBSET Paths]
    BY <2>2 DEF Changes
  <2> QED
    BY <2>1, <2>2, <2>3, <2>4, <2>5 DEF Changes
<1>4. CASE Commit
  BY <1>4 DEF Commit, File
<1>5. CASE RunChecks
  <2>1. PICK requested \in SUBSET Paths :
           LET scope == IF requested = {} THEN Paths ELSE requested
           IN  quality' = [pc        |-> "list",
                           requested |-> requested,
                           passed    |-> /\ requested \subseteq Existing
                                         /\ \A p \in scope \cap Existing : file[p].sound,
                           bound     |-> {},
                           scanned   |-> now,
                           whole     |-> FALSE]
    BY <1>5 DEF RunChecks
  <2>2. quality' \in Quality
    BY <2>1 DEF Quality
  <2> QED
    BY <1>5, <2>2 DEF RunChecks
<1>6. CASE BuildReceipt
  <2>1. PICK visible \in BOOLEAN :
           quality' = [quality EXCEPT !.pc = "write", !.requested = {},
                                      !.bound = Bind(quality.requested, visible),
                                      !.whole = visible /\ quality.requested = {}]
    BY <1>6 DEF BuildReceipt
  <2>2. Bind(quality.requested, visible) \in SUBSET Paths
    BY DEF Bind, Existing
  <2>3. (visible /\ quality.requested = {}) \in BOOLEAN
    OBVIOUS
  <2>4. quality' \in Quality
    BY <2>1, <2>2, <2>3 DEF Quality
  <2> QED
    BY <1>6, <2>4 DEF BuildReceipt
<1>7. CASE WriteReceipt
  <2>1. receipt' \in Receipt
    BY <1>7 DEF WriteReceipt, Receipt, Quality
  <2>2. quality' \in Quality /\ quiet' \in BOOLEAN
    BY <1>7, NoRunType DEF WriteReceipt
  <2> QED
    BY <1>7, <2>1, <2>2 DEF WriteReceipt
<1>8. CASE QualityDies
  <2>1. receipt' \in Receipt /\ quality' \in Quality /\ quiet' \in BOOLEAN
    BY <1>8, NoRunType DEF QualityDies
  <2> QED
    BY <1>8, <2>1 DEF QualityDies
<1>9. CASE StopBegins
  <2>1. Dirty \in SUBSET Paths
    BY DEF Dirty
  <2>2. hook' \in Hook
    BY <1>9, <2>1 DEF StopBegins, Hook, Verdicts
  <2> QED
    BY <1>9, <2>2 DEF StopBegins
<1>10. CASE StopAgain \/ LoadReceipt \/ CompareTimes
  <2>0. 0 \in Times /\ receipt.scanned \in Times
    BY DEF Times, Receipt
  <2>1. hook' \in Hook
    BY <1>10, <2>0 DEF StopAgain, LoadReceipt, CompareTimes, Decide, Hook, Verdicts
  <2> QED
    BY <1>10, <2>1 DEF StopAgain, LoadReceipt, CompareTimes
<1> QED
  BY <1>1, <1>2, <1>3, <1>4, <1>5, <1>6, <1>7, <1>8, <1>9, <1>10 DEF Next

LEMMA InitType == Init => TypeOK
BY GateAssumption
   DEF Init, TypeOK, Times, File, Receipt, NoReceipt, Quality, NoRun, Hook, Verdicts

-----------------------------------------------------------------------------
(* The covering receipt.                                                   *)

(* If the file of p fails the checks, its content is not older than t.     *)
Since(p, t) == file[p].exists /\ ~ file[p].sound => t <= file[p].edited

(* What a run, its receipt and the hook that has loaded it have found      *)
(* passing failed only later.                                              *)
ScannedInv ==
    /\ \A p \in Paths : file[p].edited <= now
    /\ quality.scanned <= now /\ receipt.scanned <= now /\ hook.scanned <= now
    /\ quality.pc = "list" /\ quality.passed =>
          \A p \in IF quality.requested = {} THEN Paths ELSE quality.requested :
              Since(p, quality.scanned)
    /\ quality.pc = "write" /\ quality.passed => \A p \in quality.bound : Since(p, quality.scanned)
    /\ receipt.kind = "valid" /\ receipt.passed =>
          \A p \in receipt.bound : Since(p, receipt.scanned)
    /\ hook.pc = "compare" => \A p \in hook.paths : Since(p, hook.scanned)

(* Whatever happens to a file, it stays as it is or gets its content now.  *)
LEMMA SinceStays ==
    ASSUME TypeOK, ScannedInv, [Next]_vars
    PROVE  /\ now <= now' /\ \A p \in Paths : file'[p].edited <= now'
           /\ \A p \in Paths, t \in Times : t <= now /\ Since(p, t) => Since(p, t)'
<1> USE DEF Since
<1>0. /\ file \in [Paths -> File] /\ now \in Times /\ Times \subseteq Nat
      /\ \A p \in Paths : file[p].edited <= now /\ file[p].edited \in Nat
  BY GateAssumption DEF TypeOK, Times, File, ScannedInv
<1>1. CASE \/ UNCHANGED vars \/ RunChecks \/ BuildReceipt \/ WriteReceipt \/ QualityDies
           \/ StopBegins \/ StopAgain \/ LoadReceipt \/ CompareTimes
  <2>1. UNCHANGED <<now, file>>
    BY <1>1 DEF vars, RunChecks, BuildReceipt, WriteReceipt, QualityDies, StopBegins, StopAgain,
                LoadReceipt, CompareTimes
  <2> QED
    BY <1>0, <2>1
<1>2. CASE Tick
  <2>1. file' = file /\ now' = now + 1
    BY <1>2 DEF Tick
  <2> QED
    BY <1>0, <2>1
<1>3. ASSUME NEW q \in Paths, Edit(q) \/ Delete(q)
      PROVE  /\ now <= now' /\ \A p \in Paths : file'[p].edited <= now'
             /\ \A p \in Paths, t \in Times : t <= now /\ Since(p, t) => Since(p, t)'
  <2>1. now' = now
    BY <1>3 DEF Edit, Delete, Changes
  <2>2. file'[q].edited = now /\ \A p \in Paths \ {q} : file'[p] = file[p]
    BY <1>0, <1>3 DEF Edit, Delete, File
  <2> QED
    BY <1>0, <2>1, <2>2
<1>4. CASE Commit
  <2>1. now' = now
    BY <1>4 DEF Commit
  <2>2. \A p \in Paths : /\ file'[p].exists = file[p].exists /\ file'[p].sound = file[p].sound
                         /\ file'[p].edited = file[p].edited
    BY <1>0, <1>4 DEF Commit, File
  <2> QED
    BY <1>0, <2>1, <2>2
<1> QED
  BY <1>1, <1>2, <1>3, <1>4 DEF Next

LEMMA ScannedStep == TypeOK /\ ScannedInv /\ [Next]_vars => ScannedInv'
<1> SUFFICES ASSUME TypeOK, ScannedInv, [Next]_vars PROVE ScannedInv'
  OBVIOUS
<1>0. /\ hook \in Hook /\ receipt \in Receipt /\ quality \in Quality
      /\ now \in Times /\ now' \in Times /\ 0 \in Times /\ Times \subseteq Nat
      /\ hook.scanned \in Times /\ receipt.scanned \in Times /\ quality.scanned \in Times
      /\ hook.paths \subseteq Paths /\ receipt.bound \subseteq Paths
      /\ quality.bound \subseteq Paths /\ quality.requested \subseteq Paths
  BY TypeStep, GateAssumption DEF TypeOK, Hook, Receipt, Quality, Times
<1>00. /\ now \in Nat /\ now' \in Nat /\ hook.scanned \in Nat /\ receipt.scanned \in Nat
       /\ quality.scanned \in Nat
  BY <1>0
<1>1. /\ now <= now' /\ \A p \in Paths : file'[p].edited <= now'
      /\ \A p \in Paths, t \in Times : t <= now /\ Since(p, t) => Since(p, t)'
  BY SinceStays
<1>2. quality.scanned <= now /\ receipt.scanned <= now /\ hook.scanned <= now
  BY DEF ScannedInv
<1> DEFINE
      QualityPart ==
          /\ quality.scanned <= now
          /\ quality.pc = "list" /\ quality.passed =>
                \A p \in IF quality.requested = {} THEN Paths ELSE quality.requested :
                    Since(p, quality.scanned)
          /\ quality.pc = "write" /\ quality.passed =>
                \A p \in quality.bound : Since(p, quality.scanned)
      ReceiptPart ==
          /\ receipt.scanned <= now
          /\ receipt.kind = "valid" /\ receipt.passed =>
                \A p \in receipt.bound : Since(p, receipt.scanned)
      HookPart ==
          /\ hook.scanned <= now
          /\ hook.pc = "compare" => \A p \in hook.paths : Since(p, hook.scanned)
<1>3. UNCHANGED quality => QualityPart'
  <2> SUFFICES ASSUME UNCHANGED quality PROVE QualityPart'
    OBVIOUS
  <2>1. quality.scanned <= now'
    BY <1>00, <1>1, <1>2
  <2>2. ASSUME quality.pc = "list", quality.passed,
               NEW p \in IF quality.requested = {} THEN Paths ELSE quality.requested
        PROVE  Since(p, quality.scanned)'
    <3>1. p \in Paths /\ Since(p, quality.scanned)
      BY <1>0, <2>2 DEF ScannedInv
    <3>2. \A t \in Times : t <= now /\ Since(p, t) => Since(p, t)'
      BY <1>1, <3>1
    <3> QED
      BY <1>0, <1>2, <3>1, <3>2 DEF Since
  <2>3. ASSUME quality.pc = "write", quality.passed, NEW p \in quality.bound
        PROVE  Since(p, quality.scanned)'
    <3>1. p \in Paths /\ Since(p, quality.scanned)
      BY <1>0, <2>3 DEF ScannedInv
    <3> QED
      BY <1>0, <1>1, <1>2, <3>1 DEF Since
  <2> QED
    BY <2>1, <2>2, <2>3
<1>4. UNCHANGED receipt => ReceiptPart'
  <2> SUFFICES ASSUME UNCHANGED receipt PROVE ReceiptPart'
    OBVIOUS
  <2>1. receipt.scanned <= now'
    BY <1>00, <1>1, <1>2
  <2>2. ASSUME receipt.kind = "valid", receipt.passed, NEW p \in receipt.bound
        PROVE  Since(p, receipt.scanned)'
    <3>1. p \in Paths /\ Since(p, receipt.scanned)
      BY <1>0, <2>2 DEF ScannedInv
    <3> QED
      BY <1>0, <1>1, <1>2, <3>1 DEF Since
  <2> QED
    BY <2>1, <2>2
<1>5. UNCHANGED hook => HookPart'
  <2> SUFFICES ASSUME UNCHANGED hook PROVE HookPart'
    OBVIOUS
  <2>1. hook.scanned <= now'
    BY <1>00, <1>1, <1>2
  <2>2. ASSUME hook.pc = "compare", NEW p \in hook.paths
        PROVE  Since(p, hook.scanned)'
    <3>1. p \in Paths /\ Since(p, hook.scanned)
      BY <1>0, <2>2 DEF ScannedInv
    <3> QED
      BY <1>0, <1>1, <1>2, <3>1 DEF Since
  <2> QED
    BY <2>1, <2>2
<1>6. QualityPart' /\ ReceiptPart' /\ HookPart' => ScannedInv'
  BY <1>1 DEF ScannedInv
<1> HIDE DEF QualityPart, ReceiptPart, HookPart
<1>7. CASE UNCHANGED vars \/ Tick \/ Commit \/ (\E p \in Paths : Edit(p) \/ Delete(p))
  <2>1. UNCHANGED <<quality, receipt, hook>>
    BY <1>7 DEF vars, Tick, Commit, Edit, Delete, Changes
  <2> QED
    BY <1>3, <1>4, <1>5, <1>6, <2>1
<1>8. CASE RunChecks
  <2>1. PICK requested \in SUBSET Paths :
           LET scope == IF requested = {} THEN Paths ELSE requested
           IN  quality' = [pc        |-> "list",
                           requested |-> requested,
                           passed    |-> /\ requested \subseteq Existing
                                         /\ \A p \in scope \cap Existing : file[p].sound,
                           bound     |-> {},
                           scanned   |-> now,
                           whole     |-> FALSE]
    BY <1>8 DEF RunChecks
  <2>2. UNCHANGED <<now, file, receipt, hook>>
    BY <1>8 DEF RunChecks
  <2>3. quality'.pc = "list" /\ quality'.scanned = now /\ quality'.requested = requested
    BY <2>1
  <2>4. quality'.passed =>
           \A p \in IF requested = {} THEN Paths ELSE requested :
               p \in Existing => file[p].sound
    BY <2>1
  <2>5. QualityPart'
    BY <1>0, <2>2, <2>3, <2>4 DEF QualityPart, Since, Existing
  <2> QED
    BY <1>4, <1>5, <1>6, <2>2, <2>5
<1>9. CASE BuildReceipt
  <2>1. PICK visible \in BOOLEAN :
           quality' = [quality EXCEPT !.pc = "write", !.requested = {},
                                      !.bound = Bind(quality.requested, visible),
                                      !.whole = visible /\ quality.requested = {}]
    BY <1>9 DEF BuildReceipt
  <2>2. UNCHANGED <<now, file, receipt, hook>> /\ quality.pc = "list"
    BY <1>9 DEF BuildReceipt
  <2>3. /\ quality'.pc = "write" /\ quality'.scanned = quality.scanned
        /\ quality'.passed = quality.passed
        /\ quality'.bound = Bind(quality.requested, visible)
    BY <1>0, <2>1 DEF Quality
  <2>4. Bind(quality.requested, visible)
           \subseteq IF quality.requested = {} THEN Paths ELSE quality.requested
    BY DEF Bind, Existing
  <2>5. QualityPart'
    BY <1>0, <1>2, <2>2, <2>3, <2>4 DEF QualityPart, ScannedInv, Since
  <2> QED
    BY <1>4, <1>5, <1>6, <2>2, <2>5
<1>10. CASE WriteReceipt
  <2>1. UNCHANGED <<now, file, hook>> /\ quality.pc = "write" /\ quality' = NoRun
    BY <1>10 DEF WriteReceipt
  <2>2. /\ receipt'.passed = quality.passed /\ receipt'.bound = quality.bound
        /\ receipt'.scanned = quality.scanned
    BY <1>10 DEF WriteReceipt
  <2>3. ReceiptPart'
    BY <1>0, <1>2, <2>1, <2>2 DEF ReceiptPart, ScannedInv, Since
  <2>4. QualityPart'
    BY <1>0, <2>1 DEF QualityPart, NoRun
  <2> QED
    BY <1>5, <1>6, <2>1, <2>3, <2>4
<1>11. CASE QualityDies
  <2>1. UNCHANGED <<now, file, hook>> /\ quality' = NoRun
    BY <1>11 DEF QualityDies
  <2>2. \/ UNCHANGED receipt
        \/ receipt'.kind = "corrupt" /\ receipt'.scanned = 0
    BY <1>11 DEF QualityDies, NoReceipt
  <2>3. ReceiptPart'
    BY <1>0, <1>4, <2>1, <2>2 DEF ReceiptPart
  <2>4. QualityPart'
    BY <1>0, <2>1 DEF QualityPart, NoRun
  <2> QED
    BY <1>5, <1>6, <2>1, <2>3, <2>4
<1>12. CASE StopBegins \/ StopAgain \/ CompareTimes
  <2>1. UNCHANGED <<now, file, quality, receipt>>
    BY <1>12 DEF StopBegins, StopAgain, CompareTimes
  <2>2. hook'.pc # "compare" /\ hook'.scanned \in {hook.scanned, 0}
    BY <1>0, <1>12 DEF StopBegins, StopAgain, CompareTimes, Decide, Hook
  <2>3. HookPart'
    BY <1>0, <1>2, <2>1, <2>2 DEF HookPart
  <2> QED
    BY <1>3, <1>4, <1>6, <2>1, <2>3
<1>13. CASE LoadReceipt
  <2>1. UNCHANGED <<now, file, quality, receipt>>
    BY <1>13 DEF LoadReceipt
  <2>2. CASE Covers
    <3>1. /\ hook'.scanned = receipt.scanned /\ hook'.paths = hook.paths
          /\ hook.paths \subseteq receipt.bound /\ receipt.kind = "valid" /\ receipt.passed
      BY <1>0, <1>13, <2>2 DEF LoadReceipt, Covers, Hook
    <3>2. HookPart'
      BY <1>0, <1>2, <2>1, <3>1 DEF HookPart, ScannedInv, Since
    <3> QED
      BY <1>3, <1>4, <1>6, <2>1, <3>2
  <2>3. CASE ~ Covers
    <3>1. hook'.pc = "idle" /\ hook'.scanned = 0
      BY <1>0, <1>13, <2>3 DEF LoadReceipt, Decide, Hook
    <3>2. HookPart'
      BY <1>0, <2>1, <3>1 DEF HookPart
    <3> QED
      BY <1>3, <1>4, <1>6, <2>1, <3>2
  <2> QED
    BY <2>2, <2>3
<1> QED
  BY <1>7, <1>8, <1>9, <1>10, <1>11, <1>12, <1>13 DEF Next

(* The step of the hook that lets the session go finds every file there,   *)
(* and none newer than the receipt on file.                                *)
LEMMA CoveredStep ==
    ASSUME TypeOK, ScannedInv, [Next]_vars, hook.pc = "compare", hook'.pc = "idle",
           hook'.verdict = "covered", NEW p \in hook.paths, ~ file[p].sound, file[p].mtime = file[p].edited
    PROVE  file[p].edited \in hook.scanned .. receipt.mtime
<1>0. /\ hook \in Hook /\ hook.scanned \in Nat /\ receipt.mtime \in Nat /\ p \in Paths
      /\ file[p].edited \in Nat
  BY GateAssumption DEF TypeOK, Hook, Receipt, File, Times
<1>1. Since(p, hook.scanned)
  BY DEF ScannedInv
<1>3. CompareTimes
  <2>1. hook' # hook
    OBVIOUS
  <2>2. ~ (\/ Tick \/ (\E q \in Paths : Edit(q) \/ Delete(q)) \/ Commit
           \/ RunChecks \/ BuildReceipt \/ WriteReceipt \/ QualityDies
           \/ StopBegins \/ StopAgain \/ LoadReceipt)
    BY <2>1 DEF Tick, Edit, Delete, Changes, Commit, RunChecks, BuildReceipt, WriteReceipt,
                QualityDies, StopBegins, StopAgain, LoadReceipt
  <2> QED
    BY <2>1, <2>2 DEF Next, vars
<1>4. file[p].exists /\ ~ Newer(p)
  BY <1>0, <1>3 DEF CompareTimes, Decide, Hook
<1> QED
  BY <1>0, <1>1, <1>4 DEF Since, Newer

(* Whatever is edited, committed, checked and stopped meanwhile: a changed *)
(* protected file that fails the checks is let through only if it got its  *)
(* content after those checks read the files and before the receipt.       *)
THEOREM CoveredFilesAreSound == Spec => CoveredMeansSound
<1>1. Init => ScannedInv
  BY GateAssumption DEF Init, ScannedInv, Since, NoReceipt, NoRun, Times
<1>2. ASSUME TypeOK, ScannedInv, [Next]_vars
      PROVE  [hook.pc = "compare" /\ hook'.pc = "idle" /\ hook'.verdict = "covered" =>
                 \A p \in hook.paths :
                     ~ file[p].sound /\ file[p].mtime = file[p].edited =>
                         file[p].edited \in hook.scanned .. receipt.mtime]_vars
  BY <1>2, CoveredStep
<1> QED
  BY <1>1, <1>2, InitType, TypeStep, ScannedStep, PTL DEF Spec, CoveredMeansSound

-----------------------------------------------------------------------------
(* The needless block.                                                     *)

(* A complete run binds what is changed when it lists the files.           *)
RunInv ==
    quality.pc = "write" /\ quality.whole /\ touched["run"] = {} =>
        Existing \cap Dirty \subseteq quality.bound

(* The receipt of a complete run, with no change since the run began.      *)
UpToDate == receipt.kind = "valid" /\ receipt.whole /\ touched["receipt"] = {}

(* Such a receipt binds every changed file and is older than none.         *)
ReceiptInv ==
    /\ \A p \in Paths : file[p].mtime <= now
    /\ UpToDate => /\ Existing \cap Dirty \subseteq receipt.bound
                   /\ \A p \in Paths : file[p].mtime <= receipt.mtime

(* It covers whatever the hook asks about, while nothing changes.          *)
HookInv ==
    /\ hook.paths \subseteq Paths
    /\ quiet /\ UpToDate /\ hook.pc \in {"load", "compare"} =>
          hook.paths \cap Existing \subseteq receipt.bound
    /\ NoNeedlessBlock

BlockInv == RunInv /\ ReceiptInv /\ HookInv

LEMMA RunStep == TypeOK /\ RunInv /\ [Next]_vars => RunInv'
<1> SUFFICES ASSUME TypeOK, RunInv, [Next]_vars PROVE RunInv'
  OBVIOUS
<1> USE DEF RunInv, Existing, Dirty
<1>0. quality \in Quality /\ touched \in [{"run", "receipt"} -> SUBSET Paths]
      /\ file \in [Paths -> File]
  BY DEF TypeOK
<1>1. CASE UNCHANGED vars \/ Tick \/ StopBegins \/ StopAgain \/ LoadReceipt \/ CompareTimes
  BY <1>1 DEF vars, Tick, StopBegins, StopAgain, LoadReceipt, CompareTimes
<1>2. ASSUME NEW p \in Paths, Edit(p) \/ Delete(p) PROVE RunInv'
  <2>1. Changes(p)
    BY <1>2 DEF Edit, Delete
  <2>2. touched'["run"] # {}
    BY <1>0, <2>1 DEF Changes
  <2> QED
    BY <2>2
<1>3. CASE Commit
  <2>1. \A p \in Paths : file'[p].exists = file[p].exists /\ file'[p].dirty = FALSE
    BY <1>0, <1>3 DEF Commit, File
  <2> QED
    BY <2>1
<1>4. CASE RunChecks
  BY <1>4 DEF RunChecks
<1>5. CASE BuildReceipt
  <2>1. PICK visible \in BOOLEAN :
           quality' = [quality EXCEPT !.pc = "write", !.requested = {},
                                      !.bound = Bind(quality.requested, visible),
                                      !.whole = visible /\ quality.requested = {}]
    BY <1>5 DEF BuildReceipt
  <2>2. quality'.bound = Bind(quality.requested, visible)
    BY <1>0, <2>1 DEF Quality
  <2>3. quality'.whole => visible /\ quality.requested = {}
    BY <1>0, <2>1 DEF Quality
  <2>4. file' = file
    BY <1>5 DEF BuildReceipt
  <2> QED
    BY <2>2, <2>3, <2>4 DEF Bind
<1>6. CASE WriteReceipt \/ QualityDies
  BY <1>6 DEF WriteReceipt, QualityDies, NoRun
<1> QED
  BY <1>1, <1>2, <1>3, <1>4, <1>5, <1>6 DEF Next

LEMMA ReceiptStep == TypeOK /\ RunInv /\ ReceiptInv /\ [Next]_vars => ReceiptInv'
<1> SUFFICES ASSUME TypeOK, RunInv, ReceiptInv, [Next]_vars PROVE ReceiptInv'
  OBVIOUS
<1> USE DEF ReceiptInv, UpToDate, Existing, Dirty
<1>0. /\ receipt \in Receipt /\ touched \in [{"run", "receipt"} -> SUBSET Paths]
      /\ file \in [Paths -> File] /\ now \in 0 .. MaxTime /\ MaxTime \in Nat
      /\ \A p \in Paths : file[p].mtime \in 0 .. MaxTime
  BY GateAssumption DEF TypeOK, File, Times
<1>1. CASE \/ UNCHANGED vars \/ RunChecks \/ BuildReceipt
           \/ StopBegins \/ StopAgain \/ LoadReceipt \/ CompareTimes
  <2>1. UNCHANGED <<now, file, receipt>> /\ touched'["receipt"] = touched["receipt"]
    BY <1>0, <1>1
       DEF vars, RunChecks, BuildReceipt, StopBegins, StopAgain, LoadReceipt, CompareTimes
  <2> QED
    BY <2>1
<1>2. CASE Tick
  BY <1>0, <1>2 DEF Tick
<1>3. ASSUME NEW p \in Paths, Edit(p) \/ Delete(p) PROVE ReceiptInv'
  <2>1. Changes(p)
    BY <1>3 DEF Edit, Delete
  <2>2. touched'["receipt"] # {} /\ now' = now
    BY <1>0, <2>1 DEF Changes
  <2>3. file'[p].mtime <= now /\ \A q \in Paths \ {p} : file'[q] = file[q]
    BY <1>0, <1>3 DEF Edit, Delete, File
  <2> QED
    BY <2>2, <2>3
<1>4. CASE Commit
  <2>1. \A p \in Paths : /\ file'[p].exists = file[p].exists /\ file'[p].dirty = FALSE
                         /\ file'[p].mtime = file[p].mtime
    BY <1>0, <1>4 DEF Commit, File
  <2>2. UNCHANGED <<now, receipt, touched>>
    BY <1>4 DEF Commit
  <2> QED
    BY <2>1, <2>2
<1>5. CASE WriteReceipt
  <2>1. /\ receipt'.bound = quality.bound /\ receipt'.whole = quality.whole
        /\ receipt'.mtime = now /\ touched'["receipt"] = touched["run"]
        /\ UNCHANGED <<now, file>> /\ quality.pc = "write"
    BY <1>0, <1>5 DEF WriteReceipt
  <2> QED
    BY <2>1 DEF RunInv
<1>6. CASE QualityDies
  <2>1. UNCHANGED <<now, file, touched>> /\ (UNCHANGED receipt \/ receipt'.kind = "corrupt")
    BY <1>6 DEF QualityDies, NoReceipt
  <2> QED
    BY <2>1
<1> QED
  BY <1>1, <1>2, <1>3, <1>4, <1>5, <1>6 DEF Next

LEMMA HookStep == TypeOK /\ ReceiptInv /\ HookInv /\ [Next]_vars => HookInv'
<1> SUFFICES ASSUME TypeOK, ReceiptInv, HookInv, [Next]_vars PROVE HookInv'
  OBVIOUS
<1> USE DEF HookInv, UpToDate, Existing, NoNeedlessBlock, Answered
<1>0. /\ receipt \in Receipt /\ hook \in Hook
      /\ touched \in [{"run", "receipt"} -> SUBSET Paths] /\ file \in [Paths -> File]
  BY DEF TypeOK
<1>1. CASE UNCHANGED vars \/ Tick \/ RunChecks \/ BuildReceipt
  <2>1. UNCHANGED <<file, receipt, hook, quiet>> /\ touched'["receipt"] = touched["receipt"]
    BY <1>0, <1>1 DEF vars, Tick, RunChecks, BuildReceipt
  <2> QED
    BY <2>1
<1>2. CASE (\E p \in Paths : Edit(p) \/ Delete(p)) \/ WriteReceipt
  <2>1. quiet' = FALSE /\ hook' = hook
    BY <1>2 DEF Edit, Delete, Changes, WriteReceipt
  <2> QED
    BY <2>1
<1>3. CASE Commit
  <2>1. \A p \in Paths : file'[p].exists = file[p].exists
    BY <1>0, <1>3 DEF Commit, File
  <2>2. UNCHANGED <<receipt, hook, quiet, touched>>
    BY <1>3 DEF Commit
  <2> QED
    BY <2>1, <2>2
<1>4. CASE QualityDies
  <2>1. UNCHANGED <<file, hook, touched>> /\ (UNCHANGED <<receipt, quiet>> \/ quiet' = FALSE)
    BY <1>4 DEF QualityDies
  <2> QED
    BY <2>1
<1>5. CASE StopBegins
  <2>1. UNCHANGED <<file, receipt, touched>>
    BY <1>5 DEF StopBegins
  <2>2. \/ /\ hook'.pc = "idle" /\ hook'.verdict = "blocked"
           /\ hook'.sawGit = FALSE /\ hook'.paths = {}
        \/ hook'.pc = "idle" /\ hook'.verdict = "clean" /\ hook'.paths = {}
        \/ hook'.pc = "load" /\ hook'.paths = Dirty
    BY <1>0, <1>5 DEF StopBegins, Hook
  <2>3. Dirty \subseteq Paths /\ (UpToDate => Dirty \cap Existing \subseteq receipt.bound)
    BY DEF ReceiptInv, Dirty
  <2> QED
    BY <2>1, <2>2, <2>3
<1>6. CASE StopAgain
  <2>1. UNCHANGED <<file, receipt, touched, quiet>>
    BY <1>6 DEF StopAgain
  <2>2. hook'.pc = "idle" /\ hook'.verdict = "skipped" /\ hook'.paths = hook.paths
    BY <1>0, <1>6 DEF StopAgain, Hook
  <2> QED
    BY <2>1, <2>2
<1>7. CASE LoadReceipt
  <2>1. UNCHANGED <<file, receipt, touched, quiet>> /\ hook.pc = "load"
    BY <1>7 DEF LoadReceipt
  <2>2. /\ hook'.paths = hook.paths
        /\ IF Covers THEN hook'.pc = "compare" ELSE hook'.pc = "idle"
    BY <1>0, <1>7 DEF LoadReceipt, Decide, Hook
  <2> QED
    BY <2>1, <2>2 DEF Covers
<1>8. CASE CompareTimes
  <2>1. UNCHANGED <<file, receipt, touched, quiet>> /\ hook.pc = "compare"
    BY <1>8 DEF CompareTimes
  <2>2. /\ hook'.paths = hook.paths /\ hook'.pc = "idle"
        /\ hook'.verdict = "blocked" => \E p \in hook.paths : ~ file[p].exists \/ Newer(p)
    BY <1>0, <1>8 DEF CompareTimes, Decide, Hook
  <2>3. UpToDate => \A p \in Paths : ~ Newer(p)
    BY <1>0, GateAssumption DEF ReceiptInv, Newer, File, Receipt, Times
  <2> QED
    BY <2>1, <2>2, <2>3
<1> QED
  BY <1>1, <1>2, <1>3, <1>4, <1>5, <1>6, <1>7, <1>8 DEF Next

(* A session that ran codex-quality on everything, and passed, after its   *)
(* last change is not blocked, unless git or a deleted file is in the way. *)
THEOREM NoBlockIsNeedless == Spec => []NoNeedlessBlock
<1>1. Init => BlockInv
  BY GateAssumption
     DEF Init, NoReceipt, NoRun, BlockInv, RunInv, ReceiptInv, HookInv, UpToDate,
         NoNeedlessBlock, Answered, Existing, Dirty
<1>2. TypeOK /\ BlockInv /\ [Next]_vars => BlockInv'
  BY RunStep, ReceiptStep, HookStep DEF BlockInv
<1>3. BlockInv => NoNeedlessBlock
  BY DEF BlockInv, HookInv
<1> QED
  BY <1>1, <1>2, <1>3, InitType, TypeStep, PTL DEF Spec

-----------------------------------------------------------------------------
(* The review packet.                                                      *)

(* Steps that are not the builder's.                                       *)
Others ==
    WorktreeMoves \/ CommitToBranch \/ ChecksWithDetail \/ BuildWithDetail
    \/ WriteWithDetail \/ DiesWithDetail

(* Beside a builder the gate takes its steps as without one.               *)
LEMMA GateGoesOn == [PacketNext]_<<vars, packetVars>> => [Next]_vars
BY DEF PacketNext, packetVars, Next, WorktreeMoves, CommitToBranch, ChecksWithDetail,
       BuildWithDetail, WriteWithDetail, DiesWithDetail, BeginPacket, ListWorktree,
       ListBranch, ReadReceipt, CompareStamps, TakeSnippets, WritePacket, BuilderDies,
       Proceeds

(* What the builder relies on when others take a step: a file that is      *)
(* committed stays changed, and as long as nothing is touched the branch   *)
(* stays as it is.                                                         *)
LEMMA OthersStep ==
    ASSUME TypeOK, PacketTypeOK, Others
    PROVE  /\ UNCHANGED <<builder, packet>>
           /\ steady' = steady \cap Changed'
           /\ branch \cap Changed' \subseteq branch'
           /\ still' => still /\ file' = file /\ receipt' = receipt /\ branch' = branch
<1>1. Remembers
  BY DEF Others, WorktreeMoves, CommitToBranch, ChecksWithDetail, BuildWithDetail,
         WriteWithDetail, DiesWithDetail
<1>2. CASE CommitToBranch
  <2>1. Dirty # {} /\ Dirty' = {}
    BY <1>2 DEF CommitToBranch, Commit, Dirty, TypeOK, File
  <2>2. file' # file
    BY <2>1 DEF Dirty
  <2> QED
    BY <1>1, <2>1, <2>2 DEF Remembers, Changed
<1>3. CASE ~ CommitToBranch
  <2>1. branch' = branch
    BY <1>3 DEF Others, WorktreeMoves, ChecksWithDetail, BuildWithDetail,
                WriteWithDetail, DiesWithDetail
  <2> QED
    BY <1>1, <2>1 DEF Remembers
<1> QED
  BY <1>2, <1>3

LEMMA NoPacketType == NoDetail \in Detail /\ NoBuilder \in Builder /\ NoPacket \in Packet
<1>1. 0 \in Times
  BY GateAssumption DEF Times
<1> QED
  BY <1>1 DEF NoDetail, Detail, NoBuilder, Builder, NoPacket, Packet

LEMMA FoundType ==
    ASSUME PacketTypeOK, NEW source \in Evidence, NEW S \in SUBSET Paths
    PROVE  Found(source, S) \in [Paths -> SUBSET Evidence]
BY DEF PacketTypeOK, Builder, Found

LEMMA PacketTypeStep ==
    TypeOK /\ PacketTypeOK /\ [PacketNext]_<<vars, packetVars>> => PacketTypeOK'
<1> SUFFICES ASSUME TypeOK, PacketTypeOK, [PacketNext]_<<vars, packetVars>>
             PROVE  PacketTypeOK'
  OBVIOUS
<1> USE DEF PacketTypeOK
<1>1. CASE UNCHANGED <<vars, packetVars>>
  BY <1>1 DEF packetVars
<1>2. CASE Others
  <2>1. TypeOK'
    BY GateGoesOn, TypeStep
  <2>2. UNCHANGED <<builder, packet>> /\ steady' = steady \cap Changed' /\ still' \in BOOLEAN
    BY <1>2, OthersStep
       DEF Others, WorktreeMoves, CommitToBranch, ChecksWithDetail, BuildWithDetail,
           WriteWithDetail, DiesWithDetail, Remembers
  <2>3. branch' \in SUBSET Paths
    BY <1>2 DEF Others, WorktreeMoves, CommitToBranch, ChecksWithDetail, BuildWithDetail,
                WriteWithDetail, DiesWithDetail, Dirty
  <2>4. detail' \in [{"run", "receipt"} -> Detail]
    <3>1. CASE WorktreeMoves \/ CommitToBranch \/ DiesWithDetail
      BY <3>1 DEF WorktreeMoves, CommitToBranch, DiesWithDetail
    <3>2. CASE ChecksWithDetail
      BY <3>2 DEF ChecksWithDetail, Detail, Existing
    <3>3. CASE BuildWithDetail
      BY <3>3 DEF BuildWithDetail, Detail, Existing
    <3>4. CASE WriteWithDetail
      BY <3>4 DEF WriteWithDetail
    <3> QED
      BY <1>2, <3>1, <3>2, <3>3, <3>4 DEF Others
  <2> QED
    BY <2>2, <2>3, <2>4
<1>3. CASE BeginPacket
  <2>1. PICK explicit \in Explicit :
          builder' = [NoBuilder EXCEPT
             !.pc = StepAfter("idle"),
             !.sources = [p \in Paths |-> IF p \in explicit THEN {"explicit"} ELSE {}]]
    BY <1>3 DEF BeginPacket
  <2>2. builder' \in Builder
    BY <2>1, NoPacketType DEF Builder, StepAfter, Evidence
  <2> QED
    BY <1>3, <2>2 DEF BeginPacket, Proceeds, Changed, Dirty
<1>4. CASE ListWorktree
  <2>1. PICK visible \in BOOLEAN :
          builder' = [builder EXCEPT
             !.pc = StepAfter("worktree"), !.tree = visible,
             !.sources = Found("worktree_status", IF visible THEN Dirty ELSE {})]
    BY <1>4 DEF ListWorktree
  <2>2. Found("worktree_status", IF visible THEN Dirty ELSE {}) \in [Paths -> SUBSET Evidence]
    BY FoundType DEF Dirty, Evidence
  <2>3. builder' \in Builder
    BY <2>1, <2>2 DEF Builder, StepAfter
  <2> QED
    BY <1>4, <2>3 DEF ListWorktree, Proceeds
<1>5. CASE ListBranch
  <2>1. PICK available \in BOOLEAN :
          builder' = [builder EXCEPT
             !.pc = StepAfter("branch"), !.base = available,
             !.sources = Found("branch_base_diff", IF available THEN branch ELSE {})]
    BY <1>5 DEF ListBranch
  <2>2. Found("branch_base_diff", IF available THEN branch ELSE {}) \in [Paths -> SUBSET Evidence]
    BY FoundType DEF Evidence
  <2>3. builder' \in Builder
    BY <2>1, <2>2 DEF Builder, StepAfter
  <2> QED
    BY <1>5, <2>3 DEF ListBranch, Proceeds
<1>6. CASE ReadReceipt
  <2>1. builder' \in Builder
    BY <1>6 DEF ReadReceipt, Builder, StepAfter, Detail
  <2> QED
    BY <1>6, <2>1 DEF ReadReceipt, Proceeds
<1>7. CASE CompareStamps
  <2>1. builder' \in Builder
    BY <1>7 DEF CompareStamps, Builder, StepAfter
  <2> QED
    BY <1>7, <2>1 DEF CompareStamps, Proceeds
<1>8. CASE TakeSnippets
  <2>1. builder' \in Builder
    BY <1>8 DEF TakeSnippets, Builder, StepAfter, Listed
  <2> QED
    BY <1>8, <2>1 DEF TakeSnippets, Proceeds
<1>9. CASE WritePacket
  <2>1. builder.tree \in BOOLEAN /\ builder.base \in BOOLEAN /\ builder.fits \in BOOLEAN
        /\ builder.bare \subseteq Paths /\ Listed \subseteq Paths /\ steady \subseteq Paths
    BY DEF Builder, Listed
  <2>2. packet' \in Packet
    BY <1>9, <2>1 DEF WritePacket, Packet
  <2>3. still' \in BOOLEAN
    BY <1>9 DEF WritePacket
  <2> QED
    BY <1>9, <2>2, <2>3, NoPacketType DEF WritePacket
<1>10. CASE BuilderDies
  BY <1>10, NoPacketType DEF BuilderDies, Packet
<1> QED
  BY <1>1, <1>2, <1>3, <1>4, <1>5, <1>6, <1>7, <1>8, <1>9, <1>10 DEF PacketNext, Others

LEMMA PacketInitType == PacketInit => TypeOK /\ PacketTypeOK
BY InitType, NoPacketType DEF PacketInit, PacketTypeOK

(* What is changed all along is on one of the lists once both are made; as *)
(* long as only the worktree is listed, it is listed or on the branch.     *)
ListedInv ==
    /\ builder.pc # "idle" => steady \subseteq Changed
    /\ builder.pc = "branch" /\ builder.tree => steady \subseteq Listed \cup branch
    /\ builder.pc \in {"receipt", "times", "snippets", "write"} /\ builder.tree /\ builder.base =>
          steady \subseteq Listed
    /\ packet.kind = "valid" /\ packet.tree /\ packet.base => packet.kept \subseteq packet.listed

(* Undisturbed, the branch is what its list says, and what has no text is  *)
(* not there.                                                              *)
TextInv ==
    /\ builder.pc \in {"worktree", "branch"} =>
          \A p \in Paths : "branch_base_diff" \notin builder.sources[p]
    /\ still /\ builder.pc \in {"receipt", "times", "snippets"} =>
          \A p \in Paths : "branch_base_diff" \in builder.sources[p] => p \in branch
    /\ still /\ builder.pc = "write" => \A p \in builder.bare : ~ file[p].exists

LEMMA ListedStep ==
    TypeOK /\ PacketTypeOK /\ ListedInv /\ [PacketNext]_<<vars, packetVars>> => ListedInv'
<1> SUFFICES ASSUME TypeOK, PacketTypeOK, ListedInv, [PacketNext]_<<vars, packetVars>>
             PROVE  ListedInv'
  OBVIOUS
<1> USE DEF ListedInv
<1>0. builder \in Builder /\ packet \in Packet
  BY DEF PacketTypeOK
<1>1. CASE UNCHANGED <<vars, packetVars>>
  BY <1>1 DEF packetVars, vars, Changed, Dirty, Listed
<1>2. CASE Others
  <2>1. UNCHANGED <<builder, packet>> /\ steady' = steady \cap Changed'
        /\ branch \cap Changed' \subseteq branch'
    BY <1>2, OthersStep
  <2>2. Listed' = Listed
    BY <2>1 DEF Listed
  <2> QED
    BY <2>1, <2>2
<1>3. CASE BeginPacket
  BY <1>3 DEF BeginPacket, Proceeds, vars, StepAfter, NoBuilder, Changed, Dirty
<1>4. CASE ListWorktree
  <2>1. UNCHANGED <<vars, branch, packet, steady>> /\ Changed' = Changed
    BY <1>4 DEF ListWorktree, Proceeds, vars, Changed, Dirty
  <2>2. builder.pc = "worktree" /\ builder'.pc = "branch"
    BY <1>0, <1>4 DEF ListWorktree, Proceeds, StepAfter, Builder
  <2>3. builder'.tree => Dirty \subseteq Listed'
    BY <1>0, <1>4 DEF ListWorktree, Found, Builder, Listed, Dirty
  <2> QED
    BY <2>1, <2>2, <2>3 DEF Changed
<1>5. CASE ListBranch
  <2>1. UNCHANGED <<vars, branch, packet, steady>> /\ Changed' = Changed
    BY <1>5 DEF ListBranch, Proceeds, vars, Changed, Dirty
  <2>2. builder.pc = "branch" /\ builder'.pc = "receipt" /\ builder'.tree = builder.tree
    BY <1>0, <1>5 DEF ListBranch, Proceeds, StepAfter, Builder
  <2>3. Listed \subseteq Listed' /\ (builder'.base => branch \subseteq Listed')
    BY <1>0, <1>5 DEF ListBranch, Found, Builder, Listed, PacketTypeOK
  <2> QED
    BY <2>1, <2>2, <2>3
<1>6. CASE ReadReceipt \/ CompareStamps \/ TakeSnippets
  <2>1. UNCHANGED <<vars, branch, packet, steady>> /\ Changed' = Changed
    BY <1>6 DEF ReadReceipt, CompareStamps, TakeSnippets, Proceeds, vars, Changed, Dirty
  <2>2. /\ builder.pc \in {"receipt", "times", "snippets"}
        /\ builder'.pc \in {"times", "snippets", "write"}
        /\ builder'.tree = builder.tree /\ builder'.base = builder.base
        /\ builder'.sources = builder.sources
    BY <1>0, <1>6 DEF ReadReceipt, CompareStamps, TakeSnippets, Proceeds, StepAfter, Builder
  <2>3. Listed' = Listed
    BY <2>2 DEF Listed
  <2> QED
    BY <2>1, <2>2, <2>3
<1>7. CASE WritePacket
  BY <1>0, <1>7 DEF WritePacket, NoBuilder
<1>8. CASE BuilderDies
  BY <1>0, <1>8 DEF BuilderDies, NoBuilder, NoPacket
<1> QED
  BY <1>1, <1>2, <1>3, <1>4, <1>5, <1>6, <1>7, <1>8 DEF PacketNext, Others

LEMMA TextStep ==
    TypeOK /\ PacketTypeOK /\ TextInv /\ [PacketNext]_<<vars, packetVars>> => TextInv'
<1> SUFFICES ASSUME TypeOK, PacketTypeOK, TextInv, [PacketNext]_<<vars, packetVars>>
             PROVE  TextInv'
  OBVIOUS
<1> USE DEF TextInv
<1>0. builder \in Builder
  BY DEF PacketTypeOK
<1>1. CASE UNCHANGED <<vars, packetVars>>
  BY <1>1 DEF packetVars, vars
<1>2. CASE Others
  BY <1>2, OthersStep
<1>3. CASE BeginPacket
  BY <1>3 DEF BeginPacket, StepAfter, NoBuilder
<1>9. CASE ListWorktree
  <2>1. builder.pc = "worktree" /\ builder'.pc = "branch"
    BY <1>0, <1>9 DEF ListWorktree, Proceeds, StepAfter, Builder
  <2>2. ASSUME NEW p \in Paths PROVE "branch_base_diff" \notin builder'.sources[p]
    BY <1>0, <1>9, <2>1 DEF ListWorktree, Found, Builder
  <2> QED
    BY <2>1, <2>2
<1>4. CASE ListBranch
  <2>1. UNCHANGED <<branch, file>> /\ builder'.pc = "receipt"
    BY <1>0, <1>4 DEF ListBranch, Proceeds, vars, StepAfter, Builder
  <2>2. ASSUME NEW p \in Paths, "branch_base_diff" \in builder'.sources[p]
        PROVE  p \in branch
    <3>1. "branch_base_diff" \notin builder.sources[p]
      BY <1>4 DEF ListBranch, Proceeds
    <3>2. PICK available \in BOOLEAN :
            builder'.sources = Found("branch_base_diff", IF available THEN branch ELSE {})
      BY <1>0, <1>4 DEF ListBranch, Builder
    <3> QED
      BY <2>2, <3>1, <3>2 DEF Found
  <2> QED
    BY <2>1, <2>2
<1>5. CASE ReadReceipt \/ CompareStamps
  <2>1. UNCHANGED <<branch, still>>
    BY <1>5 DEF ReadReceipt, CompareStamps, Proceeds
  <2>2. /\ builder.pc \in {"receipt", "times"} /\ builder'.pc \in {"times", "snippets"}
        /\ builder'.sources = builder.sources
    BY <1>0, <1>5 DEF ReadReceipt, CompareStamps, Proceeds, StepAfter, Builder
  <2> QED
    BY <2>1, <2>2
<1>6. CASE TakeSnippets
  <2>1. UNCHANGED <<branch, file, still>> /\ builder.pc = "snippets" /\ builder'.pc = "write"
        /\ builder'.bare = {p \in Listed : ~ HasText(p)}
    BY <1>0, <1>6 DEF TakeSnippets, Proceeds, vars, StepAfter, Builder
  <2>2. ASSUME NEW p \in Listed, still, file[p].exists PROVE HasText(p)
    BY <1>0, <2>1, <2>2 DEF Listed, HasText, Builder, Evidence
  <2> QED
    BY <2>1, <2>2
<1>7. CASE WritePacket \/ BuilderDies
  BY <1>7 DEF WritePacket, BuilderDies, NoBuilder
<1> QED
  BY <1>1, <1>2, <1>3, <1>4, <1>5, <1>6, <1>7, <1>9 DEF PacketNext, Others

(* A path that is changed all through a build is in the packet, or the     *)
(* packet says which list it lacks; undisturbed, it has a text unless the  *)
(* file is gone.                                                           *)
THEOREM NoChangeIsLost == PacketSpec => []NoChangeSlipsBy
<1>1. PacketInit => ListedInv /\ TextInv
  BY DEF PacketInit, NoBuilder, NoPacket, ListedInv, TextInv
<1>2. ListedInv /\ TextInv => NoChangeSlipsBy
  BY DEF ListedInv, TextInv, NoChangeSlipsBy
<1> QED
  BY <1>1, <1>2, PacketInitType, GateGoesOn, TypeStep, PacketTypeStep, ListedStep, TextStep, PTL
     DEF PacketSpec

-----------------------------------------------------------------------------
(* The receipt, judged for the packet.                                     *)

(* A receipt was generated before it was written.                          *)
StampInv ==
    /\ detail["run"].generated <= now
    /\ receipt.kind = "valid" => detail["receipt"].generated <= receipt.mtime

(* As long as nothing is touched the packet lists what the hook would ask  *)
(* about, and what was found of the receipt and of the files holds.        *)
UsableInv ==
    /\ still /\ builder.tree /\ builder.pc \notin {"idle", "worktree"} => Dirty \subseteq Listed
    /\ still /\ builder.fits /\ builder.pc \in {"times", "snippets", "write"} =>
          /\ receipt.kind = "valid" /\ receipt.passed
          /\ Listed \subseteq receipt.bound
          /\ builder.generated <= receipt.mtime
    /\ still /\ builder.fits /\ builder.pc \in {"snippets", "write"} =>
          \A p \in Listed : file[p].exists /\ file[p].mtime <= builder.generated
    /\ UsableMeansHookAgrees

LEMMA StampStep ==
    TypeOK /\ PacketTypeOK /\ StampInv /\ [PacketNext]_<<vars, packetVars>> => StampInv'
<1> SUFFICES ASSUME TypeOK, PacketTypeOK, StampInv, [PacketNext]_<<vars, packetVars>>
             PROVE  StampInv'
  OBVIOUS
<1> USE DEF StampInv
<1>0. /\ now \in Nat /\ receipt \in Receipt
      /\ detail \in [{"run", "receipt"} -> Detail]
      /\ detail["run"].generated \in Nat
  BY GateAssumption DEF TypeOK, PacketTypeOK, Detail, Times
<1>1. CASE UNCHANGED <<now, receipt, detail>>
  BY <1>1
<1>2. CASE WorktreeMoves
  <2>1. UNCHANGED <<receipt, detail>>
    BY <1>2 DEF WorktreeMoves, Tick, Edit, Delete, Changes
  <2>2. now' \in {now, now + 1}
    BY <1>2 DEF WorktreeMoves, Tick, Edit, Delete, Changes
  <2> QED
    BY <1>0, <2>1, <2>2
<1>3. CASE ChecksWithDetail
  BY <1>0, <1>3 DEF ChecksWithDetail, RunChecks, Detail
<1>4. CASE BuildWithDetail
  <2>1. PICK t \in {now, now - 1} \cap Times :
          detail' = [detail EXCEPT !["run"] = [generated |-> t,
                                               semantic |-> detail["run"].semantic \cap Existing]]
    BY <1>4 DEF BuildWithDetail
  <2>2. UNCHANGED <<now, receipt>> /\ t <= now
    BY <1>0, <1>4 DEF BuildWithDetail, BuildReceipt
  <2> QED
    BY <1>0, <2>1, <2>2
<1>5. CASE WriteWithDetail
  <2>1. detail'["receipt"] = detail["run"] /\ detail'["run"] = detail["run"]
    BY <1>0, <1>5 DEF WriteWithDetail
  <2>2. now' = now /\ receipt'.mtime = now
    BY <1>5 DEF WriteWithDetail, WriteReceipt
  <2> QED
    BY <2>1, <2>2
<1>6. CASE DiesWithDetail
  BY <1>0, <1>6 DEF DiesWithDetail, QualityDies, NoReceipt
<1> QED
  BY <1>1, <1>2, <1>3, <1>4, <1>5, <1>6
     DEF PacketNext, packetVars, vars, CommitToBranch, Commit, BeginPacket, ListWorktree,
         ListBranch, ReadReceipt, CompareStamps, TakeSnippets, WritePacket, BuilderDies,
         Proceeds

LEMMA UsableStep ==
    TypeOK /\ PacketTypeOK /\ StampInv /\ UsableInv /\ [PacketNext]_<<vars, packetVars>>
        => UsableInv'
<1> SUFFICES ASSUME TypeOK, PacketTypeOK, StampInv, UsableInv,
                    [PacketNext]_<<vars, packetVars>>
             PROVE  UsableInv'
  OBVIOUS
<1> USE DEF UsableInv
<1>0. /\ builder \in Builder /\ packet \in Packet /\ receipt \in Receipt
      /\ file \in [Paths -> File]
  BY DEF TypeOK, PacketTypeOK
<1>1. CASE UNCHANGED <<vars, packetVars>>
  BY <1>1 DEF packetVars, vars, Dirty, Listed, UsableMeansHookAgrees, Existing, Newer
<1>2. CASE Others
  <2>1. /\ UNCHANGED <<builder, packet>> /\ Listed' = Listed
        /\ still' => still /\ file' = file /\ receipt' = receipt
    BY <1>2, OthersStep DEF Listed
  <2> QED
    BY <2>1 DEF Dirty, UsableMeansHookAgrees, Existing, Newer
<1>3. CASE BeginPacket
  BY <1>3 DEF BeginPacket, StepAfter, NoBuilder, UsableMeansHookAgrees
<1>4. CASE ListWorktree
  <2>1. builder'.pc = "branch" /\ Dirty' = Dirty
    BY <1>0, <1>4 DEF ListWorktree, Proceeds, vars, StepAfter, Builder, Dirty
  <2>2. builder'.tree => Dirty \subseteq Listed'
    BY <1>0, <1>4 DEF ListWorktree, Found, Builder, Listed, Dirty
  <2> QED
    BY <2>1, <2>2 DEF UsableMeansHookAgrees
<1>5. CASE ListBranch
  <2>1. /\ still' = still /\ Dirty' = Dirty /\ builder.pc = "branch" /\ builder'.pc = "receipt"
        /\ builder'.tree = builder.tree
    BY <1>0, <1>5 DEF ListBranch, Proceeds, vars, StepAfter, Builder, Dirty
  <2>2. Listed \subseteq Listed'
    BY <1>0, <1>5 DEF ListBranch, Found, Builder, Listed, PacketTypeOK
  <2> QED
    BY <2>1, <2>2 DEF UsableMeansHookAgrees
<1>6. CASE ReadReceipt
  <2>1. /\ UNCHANGED <<file, receipt, still>> /\ builder.pc = "receipt"
        /\ builder'.pc = "times"
        /\ builder'.tree = builder.tree /\ builder'.sources = builder.sources
        /\ builder'.generated = detail["receipt"].generated
    BY <1>0, <1>6 DEF ReadReceipt, Proceeds, vars, StepAfter, Builder
  <2>2. builder'.fits => receipt.kind = "valid" /\ receipt.passed /\ Listed \subseteq receipt.bound
    BY <1>0, <1>6 DEF ReadReceipt, Builder, BoundPaths
  <2>3. Listed' = Listed /\ Dirty' = Dirty
    BY <2>1 DEF Listed, Dirty
  <2> QED
    BY <2>1, <2>2, <2>3 DEF StampInv, UsableMeansHookAgrees
<1>7. CASE CompareStamps
  <2>1. /\ UNCHANGED <<file, receipt, still>> /\ builder.pc = "times"
        /\ builder'.pc = "snippets"
        /\ builder'.tree = builder.tree /\ builder'.sources = builder.sources
        /\ builder'.generated = builder.generated
    BY <1>0, <1>7 DEF CompareStamps, Proceeds, vars, StepAfter, Builder
  <2>2. builder'.fits =>
          /\ builder.fits
          /\ \A p \in Listed : file[p].exists /\ file[p].mtime <= builder.generated
    BY <1>0, <1>7 DEF CompareStamps, Builder
  <2>3. Listed' = Listed /\ Dirty' = Dirty
    BY <2>1 DEF Listed, Dirty
  <2> QED
    BY <2>1, <2>2, <2>3 DEF UsableMeansHookAgrees
<1>8. CASE TakeSnippets
  <2>1. /\ UNCHANGED <<file, receipt, still>> /\ builder.pc = "snippets"
        /\ builder'.pc = "write" /\ builder'.fits = builder.fits
        /\ builder'.tree = builder.tree /\ builder'.sources = builder.sources
        /\ builder'.generated = builder.generated
    BY <1>0, <1>8 DEF TakeSnippets, Proceeds, vars, StepAfter, Builder
  <2>2. Listed' = Listed /\ Dirty' = Dirty
    BY <2>1 DEF Listed, Dirty
  <2> QED
    BY <2>1, <2>2 DEF UsableMeansHookAgrees
<1>9. CASE WritePacket
  <2>1. UNCHANGED <<file, receipt>> /\ builder.pc = "write" /\ builder'.pc = "idle"
    BY <1>9 DEF WritePacket, vars, NoBuilder
  <2>2. ASSUME still', packet'.usable, packet'.tree
        PROVE  /\ receipt.kind = "valid" /\ receipt.passed
               /\ Dirty \subseteq Existing \cap receipt.bound
               /\ \A p \in Dirty : ~ Newer(p)
    <3>1. still /\ builder.fits /\ builder.tree
      <4>1. /\ packet' = [kind |-> "valid", tree |-> builder.tree, base |-> builder.base,
                          usable |-> builder.fits, listed |-> Listed, bare |-> builder.bare,
                          kept |-> steady]
            /\ still' = still
        BY <1>9, <2>2 DEF WritePacket
      <4>2. packet'.usable = builder.fits /\ packet'.tree = builder.tree
        BY <4>1
      <4> QED
        BY <2>2, <4>1, <4>2
    <3>2. /\ receipt.kind = "valid" /\ receipt.passed
          /\ Listed \subseteq receipt.bound /\ Dirty \subseteq Listed
          /\ builder.generated <= receipt.mtime
          /\ \A p \in Listed : file[p].exists /\ file[p].mtime <= builder.generated
      BY <2>1, <3>1
    <3>3. builder.generated \in Nat /\ receipt.mtime \in Nat /\ \A p \in Paths : file[p].mtime \in Nat
      BY <1>0, GateAssumption DEF Builder, Receipt, File, Times
    <3>4. \A p \in Listed : ~ Newer(p)
      BY <3>2, <3>3 DEF Newer, Listed
    <3> QED
      BY <3>2, <3>4 DEF Existing, Listed
  <2> QED
    BY <2>1, <2>2 DEF UsableMeansHookAgrees, Dirty, Existing, Newer
<1>10. CASE BuilderDies
  BY <1>10 DEF BuilderDies, NoBuilder, UsableMeansHookAgrees
<1> QED
  BY <1>1, <1>2, <1>3, <1>4, <1>5, <1>6, <1>7, <1>8, <1>9, <1>10 DEF PacketNext, Others

(* A receipt the packet calls usable is one the Stop hook accepts, as long *)
(* as nothing has changed since the packet was begun.                      *)
THEOREM PacketAndHookAgree == PacketSpec => []UsableMeansHookAgrees
<1>1. PacketInit => StampInv /\ UsableInv
  BY GateAssumption
     DEF PacketInit, Init, NoReceipt, NoDetail, NoBuilder, NoPacket, StampInv, UsableInv,
         UsableMeansHookAgrees
<1>2. UsableInv => UsableMeansHookAgrees
  BY DEF UsableInv
<1> QED
  BY <1>1, <1>2, PacketInitType, GateGoesOn, TypeStep, PacketTypeStep, StampStep, UsableStep, PTL
     DEF PacketSpec

-----------------------------------------------------------------------------
(* The status of the bot's review.                                         *)
Posts ==
    [kind : {"review", "request", "unavailable"}, time : Nat, commit : Sha \cup {NoCommit},
     at : Sha \cup {NoCommit}, valid : BOOLEAN, owned : BOOLEAN, acknowledged : BOOLEAN]

Loadings ==
    [next : {"pr", "reviews", "inline", "comments", "reactions", "report", "done"},
     head : Sha \cup {NoCommit}, reviews : SUBSET Nat, inline : SUBSET (Sha \cup {NoCommit}),
     comments : SUBSET Nat, acknowledged : SUBSET Nat]

StatusTypeOK ==
    /\ head \in Sha /\ moved \in BOOLEAN
    /\ posts \in Seq(Posts)
    /\ loaded \in Loadings

(* A review that was loaded is a review of the list, and stays one.        *)
KnownInv ==
    /\ \A i \in loaded.reviews : i \in 1 .. Len(posts) /\ posts[i].kind = "review"
    /\ status = "gh_unavailable" => loaded.next = "done"
    /\ loaded.next # "pr" /\ status # "gh_unavailable" =>
          loaded.head \in Sha /\ (~moved => loaded.head = head)

(* What the reviews that are known have found on the head is among the     *)
(* inline comments, once these are loaded.                                 *)
InlineInv ==
    loaded.next \in {"comments", "reactions", "report"}
      \/ (loaded.next = "done" /\ status = "current_without_inline_findings") =>
        /\ loaded.head \in Sha
        /\ ~moved => \A i \in loaded.reviews :
                         posts[i].at = loaded.head => loaded.head \in loaded.inline

CleanInv ==
    status = "current_without_inline_findings" =>
        /\ loaded.next = "done" /\ loaded.reviews # {}
        /\ posts[Latest(loaded.reviews)].commit = loaded.head
        /\ loaded.head \notin loaded.inline

StatusInv == StatusTypeOK /\ KnownInv /\ InlineInv /\ CleanInv

LEMMA LatestIsOne ==
    ASSUME NEW n \in Nat, NEW S, S \subseteq 1 .. n, S # {}
    PROVE  Latest(S) \in S
<1>1. S \subseteq 0 .. n
  OBVIOUS
<1>2. PICK x \in S : \A y \in S : y <= x
  BY <1>1, GreatestElement
<1>3. \A y \in S : x >= y
  BY <1>1, <1>2
<1>4. Max(S) \in S
  BY <1>3 DEF Max
<1> QED
  BY <1>4 DEF Latest

(* A list of posts that others have touched, or have added to: what the    *)
(* report reads of the reviews it knows is as it was.                      *)
LEMMA KeptPosts ==
    ASSUME StatusInv, StatusTypeOK', UNCHANGED <<loaded, status>>,
           Len(posts') >= Len(posts),
           \A i \in 1 .. Len(posts) :
              posts'[i].kind = posts[i].kind /\ posts'[i].commit = posts[i].commit,
           loaded.next # "pr" /\ ~moved' =>
              /\ ~moved /\ head' = head
              /\ \A i \in 1 .. Len(posts) : posts'[i].at = posts[i].at
    PROVE  StatusInv'
<1>0. Len(posts) \in Nat /\ Len(posts') \in Nat
  BY DEF StatusInv, StatusTypeOK
<1>1. KnownInv'
  BY <1>0 DEF StatusInv, KnownInv
<1>2. InlineInv'
  BY <1>0 DEF StatusInv, KnownInv, InlineInv
<1>3. CleanInv'
  <2> SUFFICES ASSUME status = "current_without_inline_findings" PROVE CleanInv'
    BY DEF CleanInv
  <2>1. Latest(loaded.reviews) \in 1 .. Len(posts)
    BY <1>0, LatestIsOne DEF StatusInv, KnownInv, CleanInv
  <2> QED
    BY <2>1 DEF StatusInv, CleanInv
<1> QED
  BY <1>1, <1>2, <1>3 DEF StatusInv

LEMMA AddStep ==
    ASSUME StatusInv, Review \/ Request \/ Decline
    PROVE  StatusInv'
<1>1. \A t \in NextTimes : t \in Nat
  <2>1. posts # <<>> => Len(posts) \in 1 .. Len(posts) /\ posts[Len(posts)] \in Posts
    BY DEF StatusInv, StatusTypeOK
  <2>2. posts # <<>> => posts[Len(posts)].time \in Nat
    BY <2>1 DEF Posts
  <2> QED
    BY <2>2 DEF NextTimes
<1>2. PICK post \in Posts : Adds(post)
  <2>1. ASSUME NEW t \in Nat, NEW kind \in {"review", "request", "unavailable"},
               NEW c \in Sha \cup {NoCommit}
        PROVE  Post(kind, t, c) \in Posts
    BY DEF Post, Posts
  <2>2. ASSUME Review PROVE \E post \in Posts : Adds(post)
    <3>1. PICK t \in NextTimes, c \in Sha, known \in BOOLEAN, finding \in BOOLEAN :
             Adds([Post("review", t, IF known THEN c ELSE NoCommit)
                   EXCEPT !.at = IF finding THEN c ELSE NoCommit])
      BY <2>2 DEF Review
    <3>2. [Post("review", t, IF known THEN c ELSE NoCommit)
              EXCEPT !.at = IF finding THEN c ELSE NoCommit] \in Posts
      BY <1>1, <2>1 DEF Posts
    <3> QED
      BY <3>1, <3>2
  <2>3. ASSUME Request PROVE \E post \in Posts : Adds(post)
    <3>1. PICK t \in NextTimes, c \in Sha \cup {NoCommit}, owned \in BOOLEAN :
             Adds([Post("request", t, c) EXCEPT !.owned = owned])
      BY <2>3 DEF Request
    <3>2. [Post("request", t, c) EXCEPT !.owned = owned] \in Posts
      BY <1>1, <2>1 DEF Posts
    <3> QED
      BY <3>1, <3>2
  <2>4. ASSUME Decline PROVE \E post \in Posts : Adds(post)
    BY <1>1, <2>1, <2>4 DEF Decline
  <2> QED
    BY <2>2, <2>3, <2>4
<1>3. /\ posts' = Append(posts, post) /\ posts \in Seq(Posts)
      /\ UNCHANGED <<head, pushes, loaded, status, moved>>
  BY <1>2 DEF Adds, StatusInv, StatusTypeOK
<1>4. Len(posts') >= Len(posts) /\ \A i \in 1 .. Len(posts) : posts'[i] = posts[i]
  BY <1>3
<1>5. StatusTypeOK'
  BY <1>3 DEF StatusInv, StatusTypeOK
<1> QED
  BY <1>3, <1>4, <1>5, KeptPosts

LEMMA ChangeStep ==
    ASSUME StatusInv, Dismiss \/ Acknowledge
    PROVE  StatusInv'
<1>1. PICK i \in DOMAIN posts : \/ Becomes(i, [posts[i] EXCEPT !.valid = FALSE])
                               \/ Becomes(i, [posts[i] EXCEPT !.acknowledged = TRUE])
  BY DEF Dismiss, Acknowledge
<1>2. posts \in Seq(Posts) /\ posts[i] \in Posts /\ i \in 1 .. Len(posts)
  BY DEF StatusInv, StatusTypeOK
<1>3. PICK p \in {[posts[i] EXCEPT !.valid = FALSE], [posts[i] EXCEPT !.acknowledged = TRUE]} :
         /\ posts' = [posts EXCEPT ![i] = p]
         /\ UNCHANGED <<head, pushes, loaded, status, moved>>
  BY <1>1 DEF Becomes
<1>4. /\ p \in Posts
      /\ p.kind = posts[i].kind /\ p.commit = posts[i].commit /\ p.at = posts[i].at
  BY <1>2 DEF Posts
<1>5. /\ posts' \in Seq(Posts) /\ Len(posts') = Len(posts)
      /\ \A k \in 1 .. Len(posts) : posts'[k] = IF k = i THEN p ELSE posts[k]
  BY <1>2, <1>3, <1>4
<1>6. StatusTypeOK'
  BY <1>3, <1>5 DEF StatusInv, StatusTypeOK
<1>7. Len(posts) \in Nat
  BY <1>2
<1> QED
  BY <1>3, <1>4, <1>5, <1>6, <1>7, KeptPosts

LEMMA PushStep ==
    ASSUME StatusInv, Push
    PROVE  StatusInv'
<1>1. PICK kept \in SUBSET {i \in DOMAIN posts : posts[i].at = head} :
         posts' = [i \in DOMAIN posts |->
                       IF i \in kept THEN [posts[i] EXCEPT !.at = head'] ELSE posts[i]]
  BY DEF Push
<1>2. /\ head' \in Sha /\ moved' = (loaded.next # "pr") /\ UNCHANGED <<loaded, status>>
      /\ posts \in Seq(Posts)
  BY DEF Push, StatusInv, StatusTypeOK
<1>3. \A i \in 1 .. Len(posts) :
         /\ posts'[i] \in Posts
         /\ posts'[i].kind = posts[i].kind /\ posts'[i].commit = posts[i].commit
  <2> SUFFICES ASSUME NEW i \in 1 .. Len(posts)
               PROVE  /\ posts'[i] \in Posts
                      /\ posts'[i].kind = posts[i].kind /\ posts'[i].commit = posts[i].commit
    OBVIOUS
  <2>1. posts[i] \in Posts
    BY <1>2
  <2>2. posts'[i] = posts[i] \/ posts'[i] = [posts[i] EXCEPT !.at = head']
    BY <1>1, <1>2
  <2> QED
    BY <1>2, <2>1, <2>2 DEF Posts
<1>4. posts' \in Seq(Posts) /\ Len(posts') = Len(posts)
  <2>1. /\ Len(posts) \in Nat /\ DOMAIN posts' = 1 .. Len(posts)
        /\ posts' = [i \in 1 .. Len(posts) |-> posts'[i]]
    BY <1>1, <1>2
  <2>2. posts' \in [1 .. Len(posts) -> Posts]
    BY <1>3, <2>1
  <2> QED
    BY <2>1, <2>2
<1>5. StatusTypeOK'
  <2>1. moved' \in BOOLEAN
    BY <1>2
  <2> QED
    BY <1>2, <1>4, <2>1 DEF StatusInv, StatusTypeOK
<1>6. loaded.next = "pr" \/ moved'
  BY <1>2
<1>7. Len(posts) \in Nat
  BY <1>2
<1> QED
  BY <1>2, <1>3, <1>4, <1>5, <1>6, <1>7, KeptPosts

LEMMA LoadStep ==
    ASSUME StatusInv,
           LoadPr \/ LoadReviews \/ LoadInline \/ LoadComments \/ LoadReactions
    PROVE  StatusInv'
<1> USE DEF StatusInv, StatusTypeOK
<1>0. loaded \in Loadings /\ posts \in Seq(Posts) /\ UNCHANGED <<head, posts, pushes, status>>
  BY DEF LoadPr, LoadReviews, LoadInline, LoadComments, LoadReactions, Loads
<1>1. CASE LoadPr
  <2>1. /\ loaded.next = "pr" /\ ~moved'
        /\ loaded' = [[loaded EXCEPT !.head = head] EXCEPT !.next = "reviews"]
    BY <1>1 DEF LoadPr, Loads, After
  <2>2. /\ loaded' \in Loadings /\ loaded'.next = "reviews" /\ loaded'.head = head
        /\ loaded'.reviews = loaded.reviews /\ moved' \in BOOLEAN
    BY <1>0, <1>1, <2>1 DEF Loadings, LoadPr
  <2> QED
    BY <1>0, <2>1, <2>2 DEF KnownInv, InlineInv, CleanInv
<1>2. CASE LoadReviews
  <2> DEFINE known == {i \in DOMAIN posts : posts[i].kind = "review" /\ posts[i].valid}
  <2>1. /\ loaded.next = "reviews" /\ moved' = moved
        /\ loaded' = [[loaded EXCEPT !.reviews = known] EXCEPT !.next = "inline"]
    BY <1>2 DEF LoadReviews, Loads, After
  <2>2. known \subseteq 1 .. Len(posts) /\ \A i \in known : posts[i].kind = "review"
    BY <1>0
  <2> HIDE DEF known
  <2>3. known \subseteq Nat
    BY <1>0, <2>2
  <2>4. /\ loaded' \in Loadings /\ loaded'.next = "inline" /\ loaded'.head = loaded.head
        /\ loaded'.reviews = known
    BY <1>0, <2>1, <2>3 DEF Loadings
  <2> QED
    BY <1>0, <2>1, <2>2, <2>4 DEF KnownInv, InlineInv, CleanInv
<1>3. CASE LoadInline
  <2> DEFINE found == {posts[i].at : i \in {j \in DOMAIN posts : posts[j].kind = "review"}}
                      \ {NoCommit}
  <2>1. /\ loaded.next = "inline" /\ moved' = moved
        /\ loaded' = [[loaded EXCEPT !.inline = found] EXCEPT !.next = "comments"]
    BY <1>3 DEF LoadInline, Loads, After
  <2>2. found \subseteq Sha \cup {NoCommit}
    <3>1. \A i \in DOMAIN posts : posts[i] \in Posts
      BY <1>0
    <3>2. \A p \in Posts : p.at \in Sha \cup {NoCommit}
      BY DEF Posts
    <3> QED
      BY <3>1, <3>2
  <2>3. \A i \in 1 .. Len(posts) :
           posts[i].kind = "review" /\ posts[i].at # NoCommit => posts[i].at \in found
    BY <1>0
  <2> HIDE DEF found
  <2>4. /\ loaded' \in Loadings /\ loaded'.next = "comments" /\ loaded'.head = loaded.head
        /\ loaded'.reviews = loaded.reviews /\ loaded'.inline = found
    BY <1>0, <2>1, <2>2 DEF Loadings
  <2>5. InlineInv'
    BY <1>0, <2>1, <2>3, <2>4, ShaAssumption DEF KnownInv, InlineInv
  <2> QED
    BY <1>0, <2>1, <2>4, <2>5 DEF KnownInv, CleanInv
<1>4. CASE LoadComments \/ LoadReactions
  <2>1. PICK comments \in SUBSET Nat, acknowledged \in SUBSET Nat :
           /\ \/ loaded.next = "comments" /\ loaded'.next = "reactions"
              \/ loaded.next = "reactions" /\ loaded'.next = "report"
           /\ loaded' = [loaded EXCEPT !.next = loaded'.next, !.comments = comments,
                                       !.acknowledged = acknowledged]
    <3>1. CASE LoadComments
      <4> DEFINE c == {i \in DOMAIN posts : posts[i].kind # "review"}
      <4>1. /\ loaded.next = "comments"
            /\ loaded' = [[loaded EXCEPT !.comments = c] EXCEPT !.next = "reactions"]
        BY <3>1 DEF LoadComments, Loads, After
      <4>2. c \in SUBSET Nat /\ loaded.acknowledged \in SUBSET Nat
        BY <1>0 DEF Loadings
      <4> HIDE DEF c
      <4>3. /\ loaded'.next = "reactions"
            /\ loaded' = [loaded EXCEPT !.next = "reactions", !.comments = c,
                                        !.acknowledged = loaded.acknowledged]
        BY <1>0, <4>1 DEF Loadings
      <4> QED
        BY <4>1, <4>2, <4>3
    <3>2. CASE LoadReactions
      <4>1. PICK failed \in SUBSET {i \in loaded.comments : posts[i].kind = "request"} :
               /\ loaded.next = "reactions"
               /\ loaded' = [[loaded EXCEPT !.acknowledged =
                                 {i \in loaded.comments : posts[i].acknowledged} \ failed]
                             EXCEPT !.next = "report"]
        BY <3>2 DEF LoadReactions, Loads, After
      <4> DEFINE a == {i \in loaded.comments : posts[i].acknowledged} \ failed
      <4>2. a \in SUBSET Nat /\ loaded.comments \in SUBSET Nat
        BY <1>0 DEF Loadings
      <4>3. loaded' = [[loaded EXCEPT !.acknowledged = a] EXCEPT !.next = "report"]
        BY <4>1
      <4> HIDE DEF a
      <4>4. /\ loaded'.next = "report"
            /\ loaded' = [loaded EXCEPT !.next = "report", !.comments = loaded.comments,
                                        !.acknowledged = a]
        BY <1>0, <4>3 DEF Loadings
      <4> QED
        BY <4>1, <4>2, <4>4
    <3> QED
      BY <1>4, <3>1, <3>2
  <2>2. /\ loaded' \in Loadings /\ loaded'.head = loaded.head
        /\ loaded'.reviews = loaded.reviews /\ loaded'.inline = loaded.inline
    BY <1>0, <2>1 DEF Loadings
  <2>3. moved' = moved
    BY <1>4 DEF LoadComments, LoadReactions
  <2> QED
    BY <1>0, <2>1, <2>2, <2>3 DEF KnownInv, InlineInv, CleanInv
<1> QED
  BY <1>1, <1>2, <1>3, <1>4

(* Only the report says that there is nothing to do.                       *)
LEMMA CleanStatus ==
    ASSUME StatusInv, StatusNow = "current_without_inline_findings"
    PROVE  /\ loaded.reviews # {}
           /\ posts[Latest(loaded.reviews)].commit = loaded.head
           /\ loaded.head \notin loaded.inline
<1> DEFINE review == Latest(loaded.reviews)
           current == review # 0 /\ posts[review].commit = loaded.head
<1>1. current /\ loaded.head \notin loaded.inline
  BY DEF StatusNow
<1>2. loaded.reviews # {}
  BY <1>1 DEF Latest
<1> QED
  BY <1>1, <1>2

LEMMA EndStep ==
    ASSUME StatusInv, Report \/ Fail
    PROVE  StatusInv'
<1> USE DEF StatusInv, StatusTypeOK
<1>1. /\ loaded' = [loaded EXCEPT !.next = "done"] /\ UNCHANGED <<head, posts, pushes, moved>>
      /\ loaded.next \in {"pr", "reviews", "inline", "comments", "report"}
  BY DEF Report, Fail
<1>2. /\ loaded' \in Loadings /\ loaded'.next = "done" /\ loaded'.head = loaded.head
      /\ loaded'.reviews = loaded.reviews /\ loaded'.inline = loaded.inline
  BY <1>1 DEF Loadings
<1>3. KnownInv'
  <2>1. loaded.next = "pr" => status' = "gh_unavailable"
    BY DEF Report, Fail
  <2>2. status = "gh_unavailable" => loaded.next = "done"
    BY DEF KnownInv
  <2>3. loaded.next # "done"
    BY <1>1
  <2> QED
    BY <1>1, <1>2, <2>1, <2>2, <2>3 DEF KnownInv
<1>4. InlineInv' /\ CleanInv'
  <2>1. CASE Report
    <3>1. status' = StatusNow /\ loaded.next = "report"
      BY <2>1 DEF Report
    <3> QED
      BY <1>1, <1>2, <3>1, CleanStatus DEF InlineInv, CleanInv
  <2>2. CASE Fail
    BY <1>2, <2>2 DEF Fail, InlineInv, CleanInv
  <2> QED
    BY <2>1, <2>2
<1> QED
  BY <1>1, <1>2, <1>3, <1>4

(* Of any pull request, whatever is posted and pushed meanwhile: a status  *)
(* that asks for nothing is about the latest review, of the head, and no   *)
(* review known to it left a finding there.                                *)
THEOREM NothingToDoIsClean == StatusSpec => []CleanReviewIsClean
<1>1. StatusInit => StatusInv
  <2> SUFFICES ASSUME StatusInit PROVE StatusInv
    OBVIOUS
  <2>1. /\ loaded = NothingLoaded /\ loaded.next = "pr" /\ loaded.reviews = {}
        /\ posts = <<>> /\ moved = FALSE /\ head \in Sha /\ status = "none"
    BY DEF StatusInit, NothingLoaded
  <2>2. loaded \in Loadings
    BY <2>1 DEF Loadings, NothingLoaded
  <2>3. moved \in BOOLEAN
    BY Zenon DEF StatusInit
  <2>4. posts \in Seq(Posts)
    BY <2>1
  <2>5. StatusTypeOK
    BY <2>1, <2>2, <2>3, <2>4 DEF StatusTypeOK
  <2> QED
    BY <2>1, <2>5 DEF StatusInv, KnownInv, InlineInv, CleanInv
<1>2. StatusInv /\ [StatusNext]_statusVars => StatusInv'
  <2> SUFFICES ASSUME StatusInv, [StatusNext]_statusVars PROVE StatusInv'
    OBVIOUS
  <2>1. CASE UNCHANGED statusVars
    BY <2>1 DEF statusVars, StatusInv, StatusTypeOK, KnownInv, InlineInv, CleanInv
  <2>2. CASE StatusNext
    BY <2>2, AddStep, ChangeStep, PushStep, LoadStep, EndStep DEF StatusNext
  <2> QED
    BY <2>1, <2>2
<1>3. StatusInv => CleanReviewIsClean
  BY DEF StatusInv, KnownInv, InlineInv, CleanInv, CleanReviewIsClean
<1> QED
  BY <1>1, <1>2, <1>3, PTL DEF StatusSpec

-----------------------------------------------------------------------------
Scripts == {"none", "export", "apply", "rollback"}

Kept == Settings \cup {"absent", "broken"}

ProtectionTypeOK ==
    /\ protection \in [Branch -> Settings]
    /\ snapshot \in [Branch -> Kept]
    /\ replaced \in [Branch -> Settings \cup {"nothing"}]
    /\ doubt \in [Branch -> {"none", "unanswered", "edited"}]
    /\ script \in [name : Scripts, todo : Seq(Branch), next : {"none", "export", "put"}]

(* Between the export and the PUT of one branch, the snapshot is what      *)
(* GitHub has, or there is a doubt.                                        *)
ExportedInv ==
    \A b \in Branch :
        At("put", b) /\ script.name = "apply" =>
            /\ replaced[b] = "nothing"
            /\ \/ snapshot[b] = protection[b]
               \/ snapshot[b] = "null" /\ doubt[b] = "unanswered"
               \/ doubt[b] = "edited"

KeptInv == ProtectionTypeOK /\ ExportedInv /\ ReplacedIsKept

-----------------------------------------------------------------------------
LEMMA NoScriptType ==
    NoScript \in [name : Scripts, todo : Seq(Branch), next : {"none", "export", "put"}]
BY DEF NoScript, Scripts

(* NextBranch stops the script or starts with the next branch, and then    *)
(* an apply starts with its export.                                        *)
LEMMA NextBranchIsFresh ==
    ASSUME ProtectionTypeOK, script.todo # <<>>, NextBranch
    PROVE  /\ script' \in [name : Scripts, todo : Seq(Branch), next : {"none", "export", "put"}]
           /\ ~ (script'.next = "put" /\ script'.name = "apply")
<1>1. CASE Len(script.todo) = 1
  BY <1>1, NoScriptType DEF NextBranch, NoScript
<1>2. CASE Len(script.todo) # 1
  <2>1. Tail(script.todo) \in Seq(Branch)
    BY DEF ProtectionTypeOK
  <2>2. script' = [name |-> script.name, todo |-> Tail(script.todo),
                   next |-> FirstStep(script.name)]
    BY <1>2 DEF NextBranch, ProtectionTypeOK
  <2> QED
    BY <2>1, <2>2 DEF ProtectionTypeOK, FirstStep
<1> QED
  BY <1>1, <1>2

LEMMA ScriptStep ==
    ASSUME KeptInv, NEW b \in Branch, Export(b) \/ ExportBreaks(b) \/ Apply(b) \/ Rollback(b)
    PROVE  KeptInv'
<1> USE DEF KeptInv
<1>0. script.todo # <<>> /\ b = Head(script.todo)
  BY DEF Export, ExportBreaks, Apply, Rollback, At
<1>1. CASE Export(b)
  <2>1. PICK answered \in BOOLEAN :
           /\ snapshot' = [snapshot EXCEPT ![b] = IF answered THEN protection[b] ELSE "null"]
           /\ doubt' = [doubt EXCEPT ![b] = IF answered THEN "none" ELSE "unanswered"]
    BY <1>1 DEF Export
  <2>2. protection' = protection /\ replaced' = [replaced EXCEPT ![b] = "nothing"]
    BY <1>1 DEF Export
  <2>3. /\ script' \in [name : Scripts, todo : Seq(Branch), next : {"none", "export", "put"}]
        /\ script'.next = "put" /\ script'.name = "apply" => Head(script'.todo) = b
    BY <1>0, <1>1, NextBranchIsFresh DEF Export, ProtectionTypeOK
  <2>4. ProtectionTypeOK'
    BY <2>1, <2>2, <2>3 DEF ProtectionTypeOK, Kept, Settings
  <2>5. /\ replaced'[b] = "nothing"
        /\ \/ snapshot'[b] = protection[b]
           \/ snapshot'[b] = "null" /\ doubt'[b] = "unanswered"
    BY <2>1, <2>2 DEF ProtectionTypeOK
  <2>6. ExportedInv'
    BY <2>2, <2>3, <2>5 DEF ExportedInv, At
  <2>7. ReplacedIsKept'
    BY <2>1, <2>2, <2>5 DEF ReplacedIsKept, ProtectionTypeOK
  <2> QED
    BY <2>4, <2>6, <2>7
<1>2. CASE ExportBreaks(b)
  <2>1. ProtectionTypeOK'
    BY <1>2, NoScriptType DEF ExportBreaks, ProtectionTypeOK, Kept
  <2>2. ExportedInv'
    BY <1>2 DEF ExportBreaks, ExportedInv, At, NoScript
  <2>3. ReplacedIsKept'
    BY <1>2 DEF ExportBreaks, ReplacedIsKept, ProtectionTypeOK
  <2> QED
    BY <2>1, <2>2, <2>3
<1>3. CASE Apply(b)
  <2>1. /\ script' \in [name : Scripts, todo : Seq(Branch), next : {"none", "export", "put"}]
        /\ ~ (script'.next = "put" /\ script'.name = "apply")
    BY <1>0, <1>3, NextBranchIsFresh DEF Apply
  <2>2. ProtectionTypeOK'
    BY <1>3, <2>1 DEF Apply, ProtectionTypeOK, Settings
  <2>3. ExportedInv'
    BY <2>1 DEF ExportedInv, At
  <2>4. ReplacedIsKept'
    BY <1>3 DEF Apply, ReplacedIsKept, ExportedInv, ProtectionTypeOK
  <2> QED
    BY <2>2, <2>3, <2>4
<1>4. CASE Rollback(b)
  <2>1. /\ script' \in [name : Scripts, todo : Seq(Branch), next : {"none", "export", "put"}]
        /\ ~ (script'.next = "put" /\ script'.name = "apply")
    BY <1>0, <1>4, NextBranchIsFresh, NoScriptType DEF Rollback, NoScript
  <2>2. protection' \in [Branch -> Settings]
    BY <1>4 DEF Rollback, ProtectionTypeOK, Kept
  <2>3. ProtectionTypeOK'
    BY <1>4, <2>1, <2>2 DEF Rollback, ProtectionTypeOK
  <2>4. ExportedInv'
    BY <2>1 DEF ExportedInv, At
  <2>5. ReplacedIsKept'
    BY <1>4 DEF Rollback, ReplacedIsKept
  <2> QED
    BY <2>3, <2>4, <2>5
<1> QED
  BY <1>1, <1>2, <1>3, <1>4

LEMMA KeptStep == KeptInv /\ [ProtectionNext]_protectionVars => KeptInv'
<1> SUFFICES ASSUME KeptInv, [ProtectionNext]_protectionVars PROVE KeptInv'
  OBVIOUS
<1> USE DEF KeptInv
<1>1. CASE UNCHANGED protectionVars
  BY <1>1 DEF protectionVars, ProtectionTypeOK, ExportedInv, At, ReplacedIsKept
<1>2. ASSUME NEW name \in {"export", "apply", "rollback"}, Run(name)
      PROVE  KeptInv'
  <2>1. PICK todo \in {Branches} \cup {<<b>> : b \in Branch} :
           script' = [name |-> name, todo |-> todo, next |-> FirstStep(name)]
    BY <1>2 DEF Run
  <2>2. todo \in Seq(Branch)
    <3>1. CASE todo = Branches
      BY <3>1, ProtectionAssumption
    <3>2. ASSUME NEW b \in Branch, todo = <<b>> PROVE todo \in Seq(Branch)
      BY <3>2
    <3> QED
      BY <2>1, <3>1, <3>2
  <2>3. ProtectionTypeOK'
    BY <1>2, <2>1, <2>2 DEF Run, ProtectionTypeOK, Scripts, FirstStep
  <2>4. ExportedInv'
    BY <2>1 DEF ExportedInv, At, FirstStep
  <2>5. ReplacedIsKept'
    BY <1>2 DEF Run, ReplacedIsKept
  <2> QED
    BY <2>3, <2>4, <2>5
<1>3. ASSUME NEW b \in Branch, ChangeSettings(b)
      PROVE  KeptInv'
  <2>1. ProtectionTypeOK'
    BY <1>3 DEF ChangeSettings, ProtectionTypeOK, Settings
  <2>2. ExportedInv'
    BY <1>3 DEF ChangeSettings, ExportedInv, At, ProtectionTypeOK
  <2>3. ReplacedIsKept'
    BY <1>3 DEF ChangeSettings, ReplacedIsKept, ProtectionTypeOK
  <2> QED
    BY <2>1, <2>2, <2>3
<1>4. CASE Stop
  BY <1>4, NoScriptType DEF Stop, ProtectionTypeOK, ExportedInv, At, NoScript, ReplacedIsKept
<1> QED
  BY <1>1, <1>2, <1>3, <1>4, ScriptStep DEF ProtectionNext

(* For any list of branches, and any number of scripts, repeated, failing  *)
(* and stopped anywhere, and of changes in the settings: what an apply     *)
(* replaced on a branch is in the snapshot until the next export, or the   *)
(* snapshot says "null" because GitHub did not answer, or somebody changed *)
(* the settings between the export and the PUT.                            *)
THEOREM ReplacedStaysKept == ProtectionSpec => []ReplacedIsKept
<1>1. ProtectionInit => KeptInv
  BY NoScriptType
     DEF ProtectionInit, KeptInv, ProtectionTypeOK, ExportedInv, ReplacedIsKept, Kept, Settings,
         At, NoScript
<1>2. KeptInv => ReplacedIsKept
  BY DEF KeptInv
<1> QED
  BY <1>1, <1>2, KeptStep, PTL DEF ProtectionSpec
=============================================================================
