# Verification of dbt-diagnostics

TLA+ models of the parts of this repository that keep state, share it and can
fail half-way: the issue-metadata writer and the review chain of
`scripts/triage`, the worktree setup (`.codex/bin/setup.sh`), the gates around a
pull request (quality receipt and Stop hook, review packet, status of the bot's
review, branch protection) and the diagnosis of `dbt_diagnostics` (root causes,
lineage and the run of the command). TLC checks each of them on small instances;
TLAPS proves their safety properties for every instance.

## 1. The system

The repository holds a Python tool that explains failed dbt runs, and, around
it, the machinery by which its issues, worktrees and reviews are governed.

| Part | State | Operations | Talks to |
| --- | --- | --- | --- |
| `triage.py plan` / `apply` | plan, approval and receipt files, writer lock, issues on GitHub | plan, validate approval, preflight, write, verify, record | GitHub through `gh` (60 s timeout); other invocations through the lock file |
| `triage.py snapshot` / audit, `readiness.py` | snapshot and audit files | read the tracker page by page, derive the states of issues, dependency graph | GitHub (reads), the frontier |
| `frontier.py` | project plan, synthesis report, review packet, verdict, each with the digests of its sources | select issues, build, validate, judge staleness | files that several shells replace |
| `contract.py`, `official_docs.py` | none | audit the sections of an issue body, propose a normalized body | people, in rounds |
| `common.py`, `repo_config.py` | none | load and validate policy.toml | files |
| `.codex/bin/setup.sh` | lock directory, `.venv` with marker, fingerprint and mode files | acquire lock, remove/build/install/verify, record | other setups through the lock directory |
| `codex_quality.py` and the Stop hook | `quality-receipt.json`, modification times | check, list changed paths, write receipt; decide whether a session may end | each other through files only |
| `scripts/governance/*-branch-protection.sh` | snapshot file per branch | export, apply, rollback | GitHub |
| `codex_github_review_status.py` | none | load head, reviews, comments and reactions; judge whether the review is current | GitHub (reads) |
| `codex_review_packet.py` | `codex-review-packet.json` | list what changed, judge the receipt, take the texts, seal and validate | git, the receipt, files that change meanwhile |
| other `.codex/scripts` | none | checks, doctor | files |
| `root_cause.py`, `run_identity.py`, `grants.py`, `schema_inspector.py` | cached role identity, verdict per object | recover role, probe existence, check grants, conclude | Snowflake |
| `main.py`, classifiers, grouping, renderer | none | classify and print | the above |
| `dag_walker.py`, `enrich.py` lineage | the trail of a finding | walk the DAG, look at each step live, name the disconnect | manifest, Snowflake |
| `column_tracer.py` | none | trace a column through SQL text | manifest |
| `schema_version.py`, `compat/` | none | tolerant access to dbt artifacts | files |
| `connection.py`, `discover.py` | none | find profile, connect | files, Snowflake |

The parts of `scripts/triage` hang together: `snapshot` feeds the audit, the
audit feeds the metadata plan, the frontier and the synthesis report, these feed
the review packet, a reviewer's verdict is validated against it, and what people
and the writer then change on GitHub is in the next snapshot.

What is hard about it, part by part (each hazard is in `PROJECT.json`, at its
line, with the properties that watch over it):

* **apply**: people and other invocations change issues between any two calls;
  a request that timed out may still be served, even after its run has
  released the lock; a run may fail, be interrupted (no exception handler runs)
  or be killed (nothing runs) anywhere; plan and approval files are replaced
  under a running invocation; the lock file outlives a dead run. Correct means:
  one writer at a time, no write without an approval, no write of a batch with
  a stale operation, receipts that tell the truth.
* **plan**: the audit, the policy and GitHub spell labels differently and may
  contradict each other; plans are applied batch by batch and made again.
  Correct means: the batches of one plan do not hinder each other, and plans
  come to an end.
* **snapshot**: the list is sorted by the time of the last update and moves
  while its pages are read. Correct means: what nobody touched is in the
  snapshot, as it is.
* **audit and frontier**: whether an issue is ready depends on other issues,
  pull requests and recorded evidence, and is decided in two files. Correct
  means: ready issues have earned it and do not get in each other's way, none
  is lost between the lists, the release gate comes first.
* **contract**: proposals are filled in by people and made again, and what the
  tool writes itself (titles, the placeholder, audit notes) is read as if a
  person had written it. Correct means: the rounds end in an accepted body, and
  what stands under the first heading of a section, or under an unknown heading
  of level 2, is in the next proposal. Other text is not kept: see §6.
* **review chain**: commands of several shells load and replace the same files.
  Correct means: an accepted verdict is about one packet, made of one complete
  audit of one snapshot that was young enough.
* **setup**: the lock directory is inspected, its owner probed and the
  directory removed in separate steps; the signal trap gives the lock away
  without ending the script; `rm -rf` and pip take an environment apart file by
  file and can be killed in between. Correct means: one setup at a time, a setup
  that says ready has what its mode needs, an installation is verified when it
  is recorded, a user's environment left alone.
* **quality gate**: files change while the checks run and while the hook looks;
  modification times tie and go backwards. Correct means: what fails the checks
  gets past the hook only in a window the code's own order of steps leaves open,
  and a session is not blocked without need.
* **review packet**: git commands, receipt, modification times and texts are
  read one after the other while files are changed, committed and checked.
  Correct means: no change is left out, and packet and hook agree on a receipt.
* **review status**: four calls, between which commits, reviews and comments
  come in. Correct means: a head is called clean only if it is.
* **branch protection**: scripts stop at any request that fails and are run
  again. Correct means: what an apply replaced can be rolled back until something
  is exported again, unless GitHub did not answer the export.
* **root cause**: every question is a query of its own, in one of two roles,
  each may fail, and Snowflake and its query history move on in between.
  Correct means: verdicts with grounds, one role, a retry that ends.
* **lineage**: shared ancestors, nodes the manifest lacks and the bound of the
  depth. Correct means: the nearest origin and the nearest failure are named.
* **pipeline**: artifacts of an interrupted run are broken in many ways, and a
  live path may fail anywhere. Correct means: the reader gets each failure once
  or, for causes that can be named, nothing, and the status CI sees is right.

## 2. Modules

| Module | Models | Composes |
| --- | --- | --- |
| `MetadataPlan` | vocabulary of plan and apply: metadata, operations, plans, approvals, preflight, effect | |
| `GovernedMetadata` | abstract specification of metadata governance | `MetadataPlan` |
| `MetadataApply` | `plan`, approval, concurrent runs of `apply_plan`, GitHub | `MetadataPlan`; implements `GovernedMetadata` |
| `MetadataAudit` | the audit that asks for labels and milestones, plans made again | `MetadataPlan`, `TrackerGraph` |
| `Selection` | the elements of a list that are in a set (a comprehension, or a loop, with a condition), and lists put one after the other | |
| `TrackerSnapshot` | the paginated collection of a snapshot | `Selection` |
| `TrackerGraph` | `find_cycles`, `dependency_impact`, the release gate | |
| `FindCycles` | `find_cycles` as a machine on any graph | `TrackerGraph` |
| `IssueContract` | audit and proposal of issue bodies | `Selection` |
| `IssueReadiness` | governance and implementation states, the frontier's selection | `TrackerGraph` |
| `BacklogSynthesis` | project plan, synthesis report, candidate sets and evidence | `IssueReadiness`, `Selection` |
| `PacketBudget` | the loop that writes a packet's size into it | |
| `SynthesisReview` | the chain of commands and files up to an accepted review | |
| `WorktreeSetup` | `setup.sh` | |
| `QualityGate` | `codex_quality.py` with the Stop hook | |
| `ReviewPacket` | `codex_review_packet.py` beside `codex-quality` and a worktree that changes | `QualityGate` |
| `ReviewStatus` | `codex_github_review_status.py` | |
| `BranchProtection` | export, apply and rollback scripts | |
| `RootCause` | live root-cause diagnosis | |
| `Lineage` | the walks of `dag_walker.py` and the disconnect of `enrich.py` | `Selection` |
| `Pipeline` | a run of `dbt-diagnostics diagnose`, from the artifacts to the exit status | `Selection` |
| `*Proofs` | theorems about the modules they extend | `TLAPS` |
| `InductionLemmas` | least and greatest elements, closed sets of numbers, functions defined by recursion, what a selection keeps and where the elements of joined lists are | `Selection`, `TLAPS` |
| `MC*` | instances for TLC | see below |

`MCMetadataApply` and `MCWorktreeSetup` instantiate one module each.
`MCMetadataReplan` (`MetadataApply`, `MetadataAudit`), `MCGovernance` (the six
modules of the governance), `MCQualityGate` (`ReviewPacket` with its `QualityGate`,
`ReviewStatus`, `BranchProtection`) and `MCRootCause` (`RootCause`, `Lineage`, `Pipeline`) put modules that
share no state into one run: a variable `focus` is chosen at the start, only the
module in focus moves and the others rest in one fixed state. The states of such
a run are the disjoint union of the modules' states, so a property of one module
is checked on exactly the states it has alone. `QualityGate` is looked at twice:
alone, and beside the builder of a packet.

### MetadataApply

`issue` and `inFlight` are GitHub: the metadata of every issue and the requests
on their way. `plan`, `approval` and `receipts` are the files, `lock` maps each
lock file to the run that created it. Every run has a program counter and the
local variables of `apply_plan`: `args`, `loaded`, `selected`, `checks` (the
batch preflight), `todo`, `current`, `executed`. `approvals`, `sent` and
`disturbed` are history: approvals ever written, operations whose request a run
sent, and fields others changed since the run last read them.

| Action | Code (`triage.py`) |
| --- | --- |
| `MakePlan` | `make_plan`, 2278-2381; a contradictory policy raises |
| `Approve` | a maintainer filling in `approval_template` |
| `LoadPlan`, `LoadApproval` | 2879-2889 with `validate_plan`, `validate_approval` |
| `PreflightBatch`, `PassGates` | 2891-2925 |
| `AcquireLock`, `AcquireRaises` | `acquire_lock` 2741-2753, and its failure after the file exists |
| `JustInTime`, `SendRequest` | 2937-2950, `execute_operation` |
| `ReceiveReply`, `RequestTimesOut`, `ServeRequest` | `Runner.run` 122-157, GitHub |
| `VerifyOperation` | 2951-2956 |
| `RecordSuccess`, `RecordFailure`, `ReleaseLock` | 2957-2983 |
| `ReleaseRaises` | the `finally` clause is interrupted before `unlink`, or `unlink` raises (2756-2760, 2982-2983): the run ends and its lock file stays |
| `StepRaises`, `Interrupt`, `Crash` | exceptions, `KeyboardInterrupt`, a kill |
| `RemoveStaleLock` | a maintainer; nothing in the program does it |

Digests are modelled by what they identify: an operation is its own id, a plan
its own digest. The order of a batch follows the approval file, which a
maintainer writes, so a run takes its operations in any order. A read of an
issue is one step; between two reads anybody may act.

### MetadataAudit

`tracker` is GitHub, `policy` the policy and the batches it knows; `pending`
are the operations of the plan at hand. `AuditAndPlan` is the audit
(`Misaligned`, `Unscheduled`: type labels and release milestones), the policy's
desired values, and `make_plan` with its conflict check, which looks at
suggestions that still change something; `ApplyBatch` applies one batch as one
step, since its requests are in `MetadataApply`, and the operations on one issue
together, since they are about different fields; `Touch` is a person. A policy spells labels as it
likes, and a label may not exist on GitHub.

### TrackerSnapshot

`listed` is the repository's list, last updated first, in any order to begin
with. `ReadPage` cuts one page
from it, first of all issues and pull requests, then of the open pull requests;
`Edit` changes an item and moves it to the front in between.
Rows are kept as they come, duplicates included, as `collect_snapshot` does.

### TrackerGraph, FindCycles, IssueReadiness, BacklogSynthesis

A graph maps open issues to the issues they depend on. `find_cycles` is written
as the step of a depth-first search, which `FindCycles` runs on every graph and
the others run to its end. In `IssueReadiness` an issue is the facts the audit
reads from its body and metadata (state, dependencies, blockers, claimed scope,
decisions, external evidence, paths, conformance); `State` is
`audit_issue`'s chain of conditions in its order, `Priority` the frontier's
score, `AuditCandidates` and `ImplementationCandidates` its lists. People change
one fact at a time; each state of the model is a snapshot that can be audited.
`BacklogSynthesis` adds the report's signals (duplicates, overlaps, splits,
inversions, hypotheses), and candidate sets and evidence of a packet for each
`--issues` filter.

### IssueContract

A body is the sequence of its headings, each with its level (1 to 6), the
section it is recognised as and the words that make other sections conditional.
A word stands for a list of patterns; where two of the program's lists share
patterns the model has a word for what they share: "contract" is both what a
provider's name needs beside it (`CONTEXT_PATTERNS`) and what an external one
needs (`GENERIC_CONTRACT_PATTERNS`), "behavior" only the latter. Documentation
evidence is required by two such words anywhere in the body (`KnownProvider`,
`UnknownProvider`), and titles, the placeholder and the audit notes that a
proposal writes have their words too (`TitleWords`, `Placeholder`, `Notes`).
`Propose` is `propose_normalized_body`, `FillIn` a person, `GovernanceState` the
audit.

### PacketBudget, SynthesisReview

`PacketBudget` is the loop of `_finalize_synthesis_review_packet`, with the
lengths of the numbers it writes. In `SynthesisReview` an artifact is a record
of the values its digests are of; `Start`, `Load` and the commands' last steps
(`TakeSnapshot`, `MakeAudit`, `MakePlan`, `MakeReport`, `MakePacket`,
`Validate`) are those of `main`, with the validators of `frontier.py` as their
guards. `EditByHand` and `WriteVerdict` are people; files carry flaws and
verdicts mistakes that the validators are there to find.

### WorktreeSetup

`lock` is the lock directory (none, without a pid, or with somebody's pid),
`venv` the environment: how far `python -m venv` got, marker, fingerprint,
mode, importable modules, and who made it. Each step of the script that touches
either is an action: `MakeLock`, `ReadOwner`, `ProbeOwner`, `StealLock` and
`WritePid` are `acquire_lock` (32-51), `Prepare` decides 109-129, `Remove` is its
`rm -rf`, one file at a time in no order, `Build`, `Configure`, `AddPython` and
`Mark` 131-133, `Check` 138-179, `Uninstall`, `Install` and `VerifyInstall`
180-186 (pip takes away what it is about to upgrade or reinstall, and may fail
or be killed then), `RecordFingerprint` and `RecordMode` 187-188. `Exit` is the
EXIT trap, `Signal` the trap on HUP, INT and TERM, after which the script goes
on, as it does in bash. `set -e` ends a script whose file or interpreter has
gone, and pip does not install without a `pyvenv.cfg`.

### QualityGate

One clock, files with content time, modification time and whether they pass the
checks; `codex-quality` in three steps (`RunChecks`, `BuildReceipt`,
`WriteReceipt`), the Stop hook in three (`StopBegins`, `LoadReceipt`,
`CompareTimes`). A path that is named by `--path` and missing fails the run.
Editors may move an old file into place; runs die before or
while they write. `hook.scanned` (when the checks behind the loaded receipt read
the files), `whole`, `scanned`, `touched` and `quiet` are history.

### ReviewPacket

Extends `QualityGate` by the commits of the branch (`branch`), what the receipt
says of its time and of semantically checked paths (`detail`), a run of the
builder and the packet. The builder has one step per look at the outside:
`BeginPacket` (`--path`), `ListWorktree` (`git status`), `ListBranch`
(`git diff base...head`), `ReadReceipt` and `CompareStamps`
(`_load_quality_receipt`), `TakeSnippets`, `WritePacket`; `BuilderDies` is a
git command that times out, or a kill. Between any two of them a file is
edited or deleted, everything is committed (`CommitToBranch`), or
`codex-quality` takes a step; its actions here are those of `QualityGate` with
the rest of the receipt (`BuildWithDetail` and its like). The Stop hook is
compared with, and takes no steps. `steady`, `kept` and `still` are history: what was
changed all along, and whether anything was touched. All paths are protected;
texts that are redacted or cut only differ in wording.

### ReviewStatus, BranchProtection

`ReviewStatus` loads what `_load_payloads` loads, call by call (`LoadPr`,
`LoadReviews`, `LoadInline`, `LoadComments`, `LoadReactions`), while commits are
pushed and reviews and comments come in, and judges as `build_report` does
(`Report`); `Fail` is a call that fails.
`BranchProtection` runs the scripts step by step and branch by branch; any
request may fail, and `set -e` ends a script where the code says so.
`replaced` and `doubt` are history: what was on a branch when the apply that made
the snapshot replaced it, and why the snapshot may not hold it.

### RootCause

`tables`, `grants` and `history` are Snowflake. The diagnosis takes the groups
in any order; the first one that needs it recovers the role: `LookUpQuery`
(`_row_role`), `CheckLag` (`_is_lagging` and the one retry), `ClimbDown` (the
declared, then the session's role), `RecoveryRaises`. `ProbeExistence` is
`table_exists` in the session's role: SHOW TABLES LIKE takes the name for a
pattern, which may fit other tables (`Fits`), and lists no views (`Views`);
`CheckAccess` is `check_role_grants` for
the run's role, with the branches of `_apply_verdict`. Every query may fail.
`seen` and `pages` record what has been true of each object, and of the query
history, since the diagnosis began; `failed` the groups with a failed query.

### Lineage

The breadth-first walks (`Enqueue`, `Expand`, `VisitForOrigin`,
`VisitForTrail`) over a manifest with or without a `parent_map`, with the parents of
a node in any order and with nodes it lacks, the live status of each step of the trail (`Probe`: any a step can
get), and `_identify_disconnect` (`IdentifyDisconnect`).

### Pipeline

One run of the command. `results` is what the artifacts are: unreadable, of
another shape, or a list of entries, some of which are no mappings; and whether
the manifest is a mapping. `DiagnoseAll` is `_diagnose_all` with the dispatch
(`Registry`, `ClassOf`), the look-ups of run status that raise at a broken entry
(`LookupRaises`) and the notes on cascades; `TryConnect`, `EnrichNext` and
`EnrichmentEnds` are `_try_enrich`, with the profile that is no profile
(`connection.py:195-199`) and the cursor that is refused outside the `try`
(`schema_inspector.py:49,73`); `EndWith` is an end with nothing shown, a traceback
or a note, after the `finally` that closes the connection; `Show` groups the
reports and ends with the status.

## 3. What TLC checks

| Run | Question | Result |
| --- | --- | --- |
| `apply_safety` | two runs, one plan of two operations (one destructive), one edit by a person, every failure, interrupt, kill and late request | holds |
| `apply_replan` | two plans and two approvals of a policy that changes, with ids carried over; and plans made of an audit, applied batch by batch and made again | holds |
| `apply_liveness` | two runs for two batches, with fairness | holds |
| `apply_worktrees` | `LocalWriterExclusion` with one lock file per worktree | violated |
| `setup_two` | two setups, one kill, one signal, one failing command, every kind of initial environment | holds |
| `setup_three` | `SetupExclusion` with three setups and no fault | violated |
| `setup_user` | `UserEnvironmentKept` | violated |
| `quality_gate` | two protected files with changes at any moment, under codex-quality, the hook and the builder of a packet; a review status loaded while people and the bot go on; protection scripts that fail and are run again | holds |
| `quality_checked` | `CoveredMeansChecked` | violated |
| `rootcause` | two objects and the unknown group, one change in Snowflake, failing queries, a moving history; every manifest of four nodes; every list of up to three results | holds |
| `rootcause_denied` | `DeniedMeansBuilt` without any change | violated |
| `governance` | dependency search, issue contract, readiness and frontier, evidence, packet size, snapshot, review chain | holds |

Properties (each is stated above its definition):

* writer: `WriterExclusion`, `LockLeftByOwnerOnly`, `WritesAreGated`,
  `NoBlindWrite`, `ReceiptAccountsForRequests`, `CompletedMeansAchieved`,
  `GovernedSpec` (refinement of `GovernedMetadata`, with one plan and with
  plans that change), `EveryRunEnds`, `LockIsReleased` (unless the run was killed
  or its release itself was interrupted or raised, which alone leave the file);
* plans: `PlanSettles` (the batches of a plan do not hinder each other, and the
  next plan of a policy that agrees with itself has nothing left to do, but to
  type an issue whose last type the policy removes);
* setup: `TwoSetupsExclude` (between two setups the lock holds unless the signal
  trap gave it away), `ReadyMeansInstalled` (what the mode needs and, in an
  environment of setup.sh's own, nothing else), `FingerprintIsEarned` (when it is
  recorded), `UserDirectoryKept`, `EverySetupEnds`;
* gates: `CoveredMeansSound` (which changes that fail the checks can get past the
  hook), `NoNeedlessBlock`; `NoChangeSlipsBy`,
  `UsableMeansHookAgrees` (of packets); `CleanReviewIsClean`; `ReplacedIsKept`;
* diagnosis: `VerdictsHaveGrounds`, `OneIdentity`, `LadderIsRespected`,
  `DiagnosisEnds`; `NearestOriginFound`, `NearestFailureBlamed`;
  `NoFailureGetsLost`;
* dependency search: `CycleReportIsRight`;
* contract: `FilledProposalIsConformant`, `ProposalKeepsText`;
* readiness and frontier: `ReadyIssuesAreIndependent`, `ReadyIsEarned`,
  `NothingFallsBetween`, `GateComesFirst`;
* review chain: `EvidenceResolves`, `BudgetIsExact`, `UntouchedIsSeen` (of
  snapshots), `AcceptedReviewIsCoherent`.

For each of them `PROJECT.json` names a plausible bug (an operator whose name
says what is wrong, marked as a mutant in the module) that makes it fail.

### Bounds

* *apply*: two runs are what every lock and receipt hazard needs (a holder and
  an intruder); the proofs cover any number. Two operations make a batch that is
  executed in part. Two plans and two approvals let a file be replaced between
  two loads; a third adds no new pair. One edit (`MaxEdits`) suffices to make
  an operation stale, or a noop, at any moment. `apply_replan` has no edit and
  one operation per plan, since its question is about files; `apply_liveness`
  has no edit because fairness is about the runs' own steps.
* *plans made again*: two issues, two labels GitHub has (both types, so that the
  only type of an issue can be removed), one it spells otherwise and one it does
  not have, two milestones and one that is gone, every release
  mapping of them; `MaxTouches = 1`: a person comes once between plan, batches
  and next plan.
* *setup*: two setups and `MaxAttempts = 2` (120 in the code) let a waiter find
  the lock held, stale and free again; a third setup is needed for the
  violation.
* *quality gate*: the clock has two ticks (`MaxTime = 1`): before and after are
  all the comparisons distinguish, and ties stay possible. Two files, two edits:
  one is bound by the receipt when the other changes.
* *review packet*: one packet (`OnePacket`), one run of `codex-quality` and one
  edit; commits are bounded by what there is to commit. One change on its way
  from worktree to branch is what the two lists can miss; `Explicit` gives no
  path or both, `Semantic` has both.
* *review status*: two heads, `MaxPosts = 2` and `MaxPushes = 2`: a review, a
  finding and a push may come between any two calls, and a head come back.
* *branch protection*: both branches of the scripts, `MaxScripts = 4` (export,
  apply, apply again, roll back) and `MaxAdmin = 2`: a before-state is exported,
  changed, replaced and exported over.
* *root cause*: two objects, of which the name of one fits the other as well and
  the other may be a view; one change in Snowflake may fall between any two queries about
  one object, and between those about two; the query history moves besides it,
  up to twice. An object that is dropped and built again in between needs two
  changes and is beyond this bound.
* *lineage*: every acyclic manifest of four nodes, in every order of the
  parents, with `MaxDepth = 2`: a diamond, an ancestor on two levels and one
  beyond the depth fit (the code's bounds are deeper, not different; the proofs
  cover every bound). `rootcause_denied` asks nothing of a manifest and has
  `MaxDepth = 1`.
* *pipeline*: `MaxResults = 3` is a group of two and one left over, or a broken
  entry on either side of the one looked for; one schema and no schema, four
  kinds of messages, a chain of three nodes.
* *dependency search*: every graph of three nodes, self-loops included.
* *contract*: bodies of two headings to begin with, on the levels 1 to 3, for two
  kinds of issues, with two optional keys and four words that require others
  (one by itself, one by its section's title, a provider's name and the word for
  an unknown one); four proposals in a row (`MaxRounds`), of which the third is
  the one that has to suffice, and one fill-in with words of a person's own
  (`MaxFills`), after which the proposals are counted again. Two headings are the
  least with which a section has text below it, on any of the three relations of
  levels, or stands behind another of its kind; the proofs cover every length,
  level and kind.
* *readiness*: three issues, a pull request and a number that does not exist,
  four dependency structures (none, a chain, a cycle with an issue behind it, a
  pull request), any two facts of theirs changed (`MaxChanges = 2`); filters of
  none, one and two issues.
* *packet size*: weights around every number of digits and every limit, where
  the loop may take another turn.
* *snapshot*: four items, two of them pull requests, one created late, pages of
  one, two edits: items move across page boundaries in both directions.
* *review chain*: two shells, `MaxCommands = 4`, two versions of the tracker,
  three moments; ages at and over both limits (`WarningAge = 1`,
  `HardAge = 2`). The first state has a consistent set of files, so that four
  commands reach an accepted or a mixed-up review.

Symmetry is used for runs (`apply_safety`, `apply_replan`), setups
(`setup_three`), files and commits (`quality_gate`, `quality_checked`) and
shells (`governance`), never in a run with a liveness property.

### Fairness

`WF_vars(Run(r))`, `WF_vars(Script(p))` and `WF_vars(Diagnose)`: a process that
has been started is scheduled. That a blocked call ends is justified for `gh`
by the timeout of `Runner.run` (an action of the run itself,
`RequestTimesOut`), for `setup.sh` and the diagnosis by the assumption that
commands and queries return; nothing is assumed of people, of GitHub (a
request may be in flight for ever), of the query history or of faults. Faults
may recur, but a run or script that fails takes a step towards its end.
Starting is not fair: a plan may never be applied.

## 4. What is proved

The theorems hold for all values of the constants that satisfy the named
assumptions, finite or infinite, and for all bounds.

| Module | Theorem | Statement |
| --- | --- | --- |
| `MetadataApplyProofs` | `TypeCorrect` | `Spec => []TypeOK` |
| | `WritersExclude` | `Spec => []WriterExclusion` |
| | `LockIsLeftByItsOwner` | `Spec => LockLeftByOwnerOnly` |
| | `Invariance` | `Spec => []IInv` |
| | `WritesStayGated` | `Spec => []WritesAreGated` |
| | `ReceiptsAccount` | `Spec => []ReceiptAccountsForRequests` |
| | `ImplementsGovernance` | `Spec => GovernedSpec` |
| | `NeverWritesBlindly` | `Spec => []NoBlindWrite` |
| | `PlansSettle` | `AuditSpec => []PlanSettles` |
| | `CompletedIsAchieved` | `Spec => []CompletedMeansAchieved` |
| `WorktreeSetupProofs` | `TypeCorrect` | `Spec => []TypeOK` |
| | `UserDirectoryIsKept` | `Spec => UserDirectoryKept` |
| | `TwoSetupsAreExclusive` | `TwoSetups` implies `Spec => []TwoSetupsExclude` |
| | `FingerprintsAreEarned` | `TwoSetups` implies `Spec => FingerprintIsEarned` |
| | `ReadySetupsInstalled` | `TwoSetups` implies `Spec => []ReadyMeansInstalled` |
| `QualityGateProofs` | `CoveredFilesAreSound` | `Spec => CoveredMeansSound` |
| | `NoBlockIsNeedless` | `Spec => []NoNeedlessBlock` |
| | `NoChangeIsLost` | `PacketSpec => []NoChangeSlipsBy` |
| | `PacketAndHookAgree` | `PacketSpec => []UsableMeansHookAgrees` |
| | `NothingToDoIsClean` | `StatusSpec => []CleanReviewIsClean` |
| | `ReplacedStaysKept` | `ProtectionSpec => []ReplacedIsKept` |
| `RootCauseProofs` | `TypeCorrect` | `Spec => []TypeOK` |
| | `VerdictsAreGrounded` | `Spec => []VerdictsHaveGrounds` |
| | `VerdictsNameOneRole` | `Spec => []OneIdentity` |
| | `TheBestRoleIsNamed` | `Spec => []LadderIsRespected` |
| | `OriginIsTheNearest` | `LineageSpec => []NearestOriginFound` |
| | `BlameIsOnTheNearest` | `LineageSpec => []NearestFailureBlamed` |
| | `FailuresAreNeverLost` | `PipelineSpec => []NoFailureGetsLost` |
| `IssueReadinessProofs` | `ReadyIssuesAreEarned` | `ReadinessSpec => []ReadyIsEarned` |
| | `NothingFallsBetweenAuditAndFrontier` | `ReadinessSpec => []NothingFallsBetween` |
| | `ReadyIssuesStandAlone` | `ReadinessSpec => []ReadyIssuesAreIndependent` |
| | `GateGoesFirst` | `ReadinessSpec => []GateComesFirst` |
| | `CycleReportsAreRight` | `SearchSpec => []CycleReportIsRight` |
| | `EvidenceAlwaysResolves` | `ReadinessSpec => []EvidenceResolves` |
| `IssueContractProofs` | `ProposalsKeepText` | `ContractSpec => ProposalKeepsText` |
| | `ThreeProposalsSuffice` | `ContractSpec => []FilledProposalIsConformant` |
| `SynthesisReviewProofs` | `AcceptedReviewsAreCoherent` | `ReviewSpec => []AcceptedReviewIsCoherent` |
| | `UntouchedStaysSeen` | `SnapshotSpec => []UntouchedIsSeen` |
| | `BudgetStaysExact` | `BudgetSpec => []BudgetIsExact` |

Assumptions, which TLC evaluates in the runs: `NoMilestoneAssumption`, `LabelAssumption` (a
label spelled as GitHub spells it is that label), `UnsetAssumption`,
`AuditAssumption` (issues and names are finitely many, policies and trackers have
the type of policies and trackers), `ApplyAssumption` (the lock's `Free` is no run, there is a batch, no label is
called "state", policies are sequences of suggestions, initial issues are
issues), `SetupAssumption` and `UserModulesAssumption`, `GateAssumption`,
`PacketAssumption`, `ShaAssumption`, `ProtectionAssumption`, `RoleAssumption` and
`GrantsAssumption`, `LineageAssumption` (nodes are finitely many numbers, the depth
is at least one; in the code it is always 5), `PipelineAssumption` (the nodes of a
run are numbered so that parents come first), `ReadinessAssumption`,
`NodeAssumption` and `SynthesisAssumption` (issues are finitely many numbers),
`ContractAssumption` (what a person adds are known sections, words and levels),
`SnapshotAssumption` (items are finitely many, a page holds at least one),
`BudgetAssumption`, `ReviewAssumption`. `TwoSetups`, that there are no three
different setups, is no assumption of the model but of the three theorems that
name it: `setup_three` shows that they fail without it.

*Exclusion* needs more than itself: a run that fails to get the lock never
reaches the unlink, so the strengthening is that whoever is between
`acquire_lock` and `release_lock` owns its lock file (`OwnsLock`); a lock may
be removed by hand only after its owner's end, which keeps it.

*Governance*: a request may be served long after its run has ended, when plan
and approval files have changed. `IInv` therefore carries the authority along:
a current approval is among the approvals ever written (`ApprovalRecorded`),
what a run selected is authorised by one of them (`SelectionInv`), what it has
passed its gates with was not stale (`GateInv`), what it sent or has in hand it
selected (`RecordInv`), what is in flight was sent (`InFlightInv`), and
receipts agree with both (`ReceiptInv`). Each conjunct has a lemma that one
step keeps it, with one case per action. From `IInv`, serving a request maps to
`WriterApplies`, an edit to `PersonEdits`, `Approve` to `MaintainerApproves`,
and every other step to stuttering. The refinement mapping is the identity on
`issue` and `approvals` and takes `edits`, the number of edits people have made,
from `used["edits"]`: without that count every change of one issue would pass
for a person's edit, and the refinement would say nothing about the writer.

*No blind write*: the gap between `preflight_operation` and the service of the
request is unbounded, so the invariant `FreshInv` follows an operation from the
read to the service: committed to, it is not stale unless something disturbed
its field or its issue's state after the read. Two facts carry it. `WaitingInv`:
a run has one request on its way at most, and none while it may send one, so a
fresh read never forgives an older request. And preflight is local
(`PreflightIsLocal`): it looks at the issue's state and the operation's own
field, so an edit or another run's effect elsewhere cannot make it stale.

*Completed means achieved*: what a run has verified must survive until it
records success. `ApartInv` says that two operations of one selection have
different targets, `LoopInv` that each selected operation is either still to be
done, in hand, executed or found done, and `SettledInv` that what is executed or
found done is so on GitHub unless somebody disturbed it; the run's own later
requests cannot, because their targets are apart.

*Plans settle*: the wishes of a policy are what it would suggest of a tracker
without labels and milestones (`Wishes`), which no batch changes. A plan stands
(`PlanStands`): it has one operation for a field, none is stale, and each is one
of the wishes. And it is enough (`PlanIsEnough`): every wish is achieved or has an
operation still to come (`Dealt`). When the policy agrees with itself a batch
undoes nothing that was achieved (`StillDealt`), and a suggestion that was not
among the first audit's can only be the type of an issue that lost one
(`TypeLost`).

*Setup*: a pid in the lock directory, or read from it, is that of a setup that
has had the lock, and who is about to steal the lock steals it from one that has
ended (`OwnerInv`, which is where a third setup would do harm); unless a trap
has released the lock of a setup that goes on, who passed `mkdir` has the
directory, and nobody else did (`LockInv`). On top of that, an environment that
carries the marker and a mode holds no module that mode does not ask for
(`Sound`), which no fingerprint left behind by a kill can break, and the setup
inside knows how far it is (`Knows`): what it has verified stays until it ends.
`UserInv`: what a person made carries no marker, and nobody is building it.

*Quality gate*: `ScannedInv` follows the moment at which the files were read from
the run to the receipt and to the hook that loaded it: a path that is bound was
sound then, or got its content later, and a passing run has read it
(`CoveredFilesAreSound`). For the needless block, a complete run binds what is
changed when it lists the files (`RunInv`), its receipt is older than none of
them (`ReceiptInv`), and covers what the hook asks about (`HookInv`), as long as
nothing was touched since the run began, the receipt was written or the hook
began to look.

*Review packet*: the builder's steps leave the gate's state alone, so the type
theorem of `QualityGate` is used as it is (`GateGoesOn`). What the others may do
in between is one lemma (`OthersStep`): a commit never takes a change out of
both lists, and while nothing is touched the branch stays too. `ListedInv` says
how far the lists have got: what is changed all along is listed, or on the
branch, which is listed next. `StampInv`, that a receipt was generated before it
was written, makes the packet's comparison the stricter of the two, and
`UsableInv` carries each finding to the end of the build.

*Branch protection*: between the export and the PUT of a branch the snapshot is
what GitHub has, or GitHub did not answer and it is "null", or the settings were
changed since (`ExportedInv`); so what a PUT replaces is in the snapshot made
before it, until the next export.

*Root cause*: `Grounds` records at each step of an object's ladder which facts
were seen to lead there (`ProbeHasGrounds`); `OneInHand` that the identity in
hand and those in verdicts already given are the same; `Ladder` with
`SearchSoFar` which rungs have been tried, for each place the search may be at.

*Readiness*: both theorems are about the chain of conditions of `audit_issue`:
in which cases the chain falls through to `ready`, and that every other case
leads to a list of the frontier. `ReadyIsEarned` also needs that an issue's
facts keep their types while people change them.

*Review chain*: a sealed packet draws on one audit of one snapshot
(`DrawsOnOneAudit`), wherever it is: in a file, in a shell that has loaded it, or
in a verdict about it (`ArtifactsOK`). That each shell has loaded what its
command takes, in the order it takes it (`ShellOK`), is what the guards of the
commands need to carry this from their inputs to their output.

*Reasoning about searches and loops.* An invariant of a search is inductive
like any other; what needs induction over data are the recursive functions that
the models and properties are written with (`Reach`, `Those`, the nodes at each
distance). `InductionLemmas` has what replaces an induction scheme: a set of
numbers that has 0 and with each number the next has all up to a bound
(`ClosedSet`), a set of numbers has a least and a greatest element, a recursion
defines a function (`RecursionExists`), and a selection has the elements that
are selected, in their order (`ThoseHas`, `ThoseSelects`).

*Ready issues stand alone, and the gate comes first*: what is reached from a
set stays within any set that is closed under the edges (`ReachWithin`). A ready issue has no
open dependency, so what it reaches ends with its own dependencies, and another
ready issue, being open, is not among them. The parts of a score other than the release gate's weight sum up to
less than that weight (`ScoreBounds`).

*Cycles*: until a cycle is found, what a finished node depends on is finished
too, every nonempty set of finished nodes has one that depends on none of the
set, and what a node of the path depends on is finished, left to visit, or next
on the path (`Settled`). When the search ends without a cycle, all nodes are
finished and the second fact says that there is none. The other direction is
that the rest of the path from a node met again is a cycle, and stays one when
it is turned to start at its least node.

*Evidence*: every kind of signal is a finite set, so ranks (`StrictOrder`) give
each signal one place in the report and no place stays empty; what a filter
takes of the report and of the open issues are selections, and an item of
evidence says which place it is at (`ItemsAre`).

*Contract*: what `Chained` makes of the sections has each part at a place of its
own (`ChainedPlaces`), so a proposal has every section it offers once, with its
title and all that was below it (`SectionsAre`, `IsProposal`), and the group of
such a heading in the proposal takes in what had been below it in the body,
unless that heading was on level 1 (`KeepsSection`). Three proposals are needed
because what they write is read again. The first offers an alternative of every
requirement (`FirstProposal`); of the requirements that its own titles bring,
four may be missing (`Late`): the two live sections, compatibility, and
documentation evidence. The second offers those (`NextProposal`), and of the
titles it adds only that on offline or live behavior makes a new condition true:
with a word for an external provider, documentation evidence is required
(`Settled`). The placeholder and the audit notes say "contract" and might do
the same at any time; they do not after the second proposal, since by then the
notes are in the body already, or every category is covered by something a
person has written, so that no notes are added (`DocsSettled`, `Covered`). The
third offers what is left and adds nothing more (`LaterProposal`, `Complete`).
An answer without words of one's own adds no condition (`AnswerKeeps`), one with
such words starts the count of proposals again.

*Snapshot*: an item that nobody has touched is in a row read before, or on a
page still to come (`Beyond`): what is updated moves others back, never forward,
so an untouched item may be read twice but not be skipped. A row about an
untouched item tells its condition (`Tells`).

*Packet size*: the size that goes into a packet grows with the numbers of digits
written in it (`SizesGrow`), and where a packet of at most the hard limit passes,
hardly any of them grows (`LittleGrowth`); `Settling` follows the attempts: from the third on, one writes a larger size
than the one before only if something has grown (`Growth`), so they come to rest
before the loop gives up.

*Lineage*: of a walk, between two steps, nodes wait in the order of their least
distances from the model, and those distances differ by at most one (`InOrder`);
what has been walked through has its parents marked (`PassedOn`). With an empty
queue, a closed set of distances gives that everything within the depth is marked
(`Reached`); `Advance` is the step of any such walk, and both walks are instances
of it. `ColumnInv` carries this through the diagnosis: the origin is nearest of
those that declare the column, the trail lists ancestors in the order of their
distances (`TrailInOrder`), has what the walk has passed (`KeepsUp`) and in the
end all (`ShowsAll`), and the verdict takes the first boundary of the trail.

*Pipeline*: each loop over entries has a lemma that says which entries it keeps
and that it keeps each once (`RowsAreFailures`, `ReportedAreFailures`,
`GroupedOnce`); the invariant is that a run is either still on its way with
these reports, has shown each of them (`RanThrough`), or has raised with status
1, for one of the causes the property names (`Raised`).

*Review status*: what reviews known to the program have found on the head is
among the inline comments once these are loaded (`InlineInv`), since the
comments are read after the reviews, unless a push moved the head.

Only model-checked: liveness (`EveryRunEnds`, `LockIsReleased`,
`EverySetupEnds`, `DiagnosisEnds`), which the prover cannot reach. Every other
invariant and action property of a passing run has a theorem.

## 5. Where the program and its documentation differ

1. `apply_worktrees`: `docs/ISSUE_GOVERNANCE.md:748` promises that two local
   writer sessions never run at once; the lock file is per checkout
   (`triage.py:34,46`) and per `--lock-path`.
2. `setup_three`: `.codex/README.md:69-70` promises that concurrent setup is
   safe; `setup.sh:36-38` removes a lock whose owner it read before the lock
   changed hands.
3. `setup_user`: `.codex/README.md:71-72` promises that a user-managed
   environment is never deleted; `setup.sh:113-116` deletes one whose
   interpreter is gone.
4. `quality_checked`: `.codex/README.md:155-157` reads the binding as proof
   that `codex-quality` ran after the paths changed; it may have read them
   before.
5. `rootcause_denied`: `root_cause.py:7-13` separates "none exist now" from
   "exists, denied"; USAGE on the schema alone turns the first into the second.

These have a run of their own. The following are in the models of passing runs,
whose properties say how far the code keeps what the text promises:

6. `scripts/governance/apply-branch-protection.sh:10-12`: "so there is always a
   before-state to roll back to". The export is repeated by every apply, so the
   before-state of the first one is overwritten with the policy by the second
   (which its header calls idempotent, and `scripts/governance/README.md` calls
   the snapshot "the committed before-state"); and a `gh` that does not answer is
   exported as "null", which a rollback takes for an unprotected branch and
   deletes the protection (the same README, 103-105, calls such a snapshot
   suspect). `ReplacedIsKept` is what remains: the last replaced state, if GitHub
   answered and nobody changed the settings between the export and the PUT.
7. `main.py:253-256` ("Degrade (skip the junk), never raise"),
   `tests/robustness/test_malformed_artifacts.py:2-12` and
   `compat/DESIGN.md:21` ("Degrade, never crash"): a junk entry that stands before
   one that is looked for raises in `runtime_error.py:473`, `data_error.py:149` and
   `enrich.py:376`; so do a manifest that is no mapping, in the constructor of the
   DAG walker; a profile of another shape, of whose exceptions `open_connection`
   catches `ValueError` only (`connection.py:195-199`); and a cursor that is refused
   where it is opened outside the `try` (`schema_inspector.py:49,73`, `params.py`,
   `query_history.py`). Each is a traceback and status 1 with nothing shown;
   `NoFailureGetsLost` states that nothing else is, and that it overrides
   `--no-fail`.
8. `.codex/README.md:133-134`: the receipt must be newer than the protected files.
   A tie is allowed (`>` in `hook_policy.py:266`), so a file that is changed in the
   tick of the receipt passes; and the receipt's time is taken after it was
   loaded, so a second run in between widens the window. `CoveredMeansSound`
   states the window as it is.

## 6. Notes on the models, and what is not modelled

Behaviour that the models follow, and that is worth knowing:

* *Readiness.* The state "overlapping" is never reached. An issue that is ready
  because external evidence is recorded (`readiness.py:1031`,
  `test_readiness.py:383-421`) is rejected by the frontier all the same
  (`frontier.py:3781`): the one exception in `NothingFallsBetween`. Recorded
  evidence is not bound to the body it was recorded for (`readiness.py:648`). An
  issue that supersedes itself counts as a reciprocal overlap.
* *Plan.* `make_plan` looks for conflicts among suggestions that still change
  something (`triage.py:2315`), so a contradictory policy may go back and forth
  between plans: `PlanSettles` asks for a policy that agrees with itself. Even
  such a policy may need a second plan: when it removes the only type label of an
  issue, the next audit suggests the type its title implies (`triage.py:1549`). The
  project plan includes closed issues, so a ready issue with finished
  dependencies is reported as an inversion.
* *Contract.* What a proposal does not keep: text before the first heading;
  the second heading of a section with its text; unknown headings on level 1, and
  those below level 2 that are below nothing that is kept; and, below a section on
  level 1, its headings of level 2 are kept where they are but no longer
  belong to it, so that the section's own check may find it empty. A known section
  below level 2 is offered twice, and every proposal is refused as a duplicate; the
  audit warns of both (`canonical-heading-level`), and `FilledProposalIsConformant`
  excepts bodies it has warned about. Audit notes accumulate. One proposal is not
  always enough (`test_contract.py:1114` has the easy case), and two are not: a
  vendor's name in a body that gains the section on live behavior requires
  documentation evidence only then. A label that names a provider is part of the
  issue, not of the body, and is not modelled: what it requires it requires from
  the first proposal on.
* *Setup.* A kill inside `rm -rf`, or of pip between taking away and putting in
  place, leaves what is there: an environment whose marker is gone is from then
  on taken for a user's, and kept; a directory with neither `pyvenv.cfg` nor
  marker is refused by every later setup until it is removed by hand; and a
  fingerprint may stay on file without its modules, which is why `Check` verifies
  them each time.
* *Review chain.* Staleness is judged when the packet is built, not when the
  review is validated. `--evaluated-at` pins that judgement. A
  `--max-age-hours` below 24 always fails. The digest of a snapshot leaves
  `generated_at` out. Issue numbers of a verdict are not checked against the
  scope of the packet. `review-packet` replaces `proposed-body.md`
  (`triage.py:3762`).
* *Lineage.* A failed query for a table, and a view, count as missing
  (`enrich.py:239-272`). Nodes the manifest lacks are walked through by
  `trace_column_lineage` but not by `find_column_origin`. A step may be both
  passing and failing.
* *Root cause.* What SHOW TABLES LIKE lists is not what exists: the name is taken
  as a pattern (`schema_inspector.py:75`), so that `_` and `%` in it fit other
  tables, and a quoted name may not fit its own; views are not listed, so a
  visible view is "never built", with confidence "high". `VerdictsHaveGrounds` is
  about what was listed and granted at some moment, not about what existed.
* *Pipeline.* The values in an entry and in the manifest have the types dbt gives
  them: a message that is a number, or `nodes` that is null, also raises and is
  not modelled. The note on a cascade is printed for reports outside groups only.
* *Review status.* A push between the loading of the head and that of the
  comments may hide a finding: `CleanReviewIsClean` excludes it (`~moved`).
* *Review packet.* Git is asked by the names of refs, not by the commits
  `source_refs` records, so a diff may be of a later head than `head_sha`. The
  texts are taken after the modification times were compared and may show an
  edit the receipt has not seen. A path that was committed before
  `codex-quality` ran, or is deleted, can be covered by no receipt, although the
  finding asks to run it again (the binding is of `git status` only,
  `codex_quality.py:58-77`); `--path` helps for the former. With `git status` unreadable, a
  receipt that covers the branch's paths is called usable, next to a finding
  that the worktree's evidence is missing: `UsableMeansHookAgrees` asks for
  `packet.tree`.
* *Quality gate.* A file that is moved into place with an old modification time
  is excepted from `CoveredMeansSound`: nothing in the receipt or the hook looks
  at more than the time.
* *Branch protection.* A failed `DELETE` is swallowed, and a failing `jq` leaves
  an empty snapshot, at which a rollback stops. Whether `PUT` accepts what the
  export has made of what `GET` returned is GitHub's matter and not modelled.

Left out of modules that are there: tracker items that are deleted during a
snapshot; findings of the audit without a suggestion; batches of
`MetadataAudit` are one step; worker packets and coordinator results of the frontier (a packet of an earlier run
stays beside a new coordinator's); `frontier` as a command of the review chain;
the previous manifest and the catalog of a diagnosis.

Not modelled because they are text in, text out: what the classifiers read from
a message, `column_tracer.py` (SQL), the templates, the compatibility layer,
`repo_config.py` (validation of policy.toml, classification of shell commands
for the hooks, risk classes of paths), `check_agent_regression.py`,
`check_artifact_contracts.py` and the other checks, which read files and print.
Not modelled because they are input and output only: connection, discovery,
doctor. None of them keeps state that a step of another actor could disturb.

What is left to do, in this order: the coordinator and worker packets of the
frontier with their validators; classification of shell commands as an operator
against a reference definition.
