--------------------------- MODULE MetadataApply ----------------------------
(***************************************************************************)
(* `triage.py plan`, the maintainer's approval and concurrent invocations  *)
(* of `triage.py apply` against issues that people edit on GitHub.         *)
(*                                                                         *)
(* A run of apply_plan loads plan and approval, preflights every selected  *)
(* operation, passes the execution gates, takes the writer lock and then,  *)
(* per operation, preflights again, sends the request, verifies and        *)
(* records it; it ends by writing a receipt and releasing the lock.  A     *)
(* request is a message: GitHub may serve it, refuse it, or serve it after *)
(* the run has stopped waiting.  A run can fail, be interrupted from the   *)
(* keyboard, or be killed at any step, the release of the lock included.   *)
(*                                                                         *)
(* Operations of a batch run in the order of the ids in the approval file, *)
(* which the maintainer chooses: here a run takes them in any order.       *)
(***************************************************************************)
EXTENDS MetadataPlan

CONSTANTS
    Runs,          \* invocations of triage.py apply
    LockPath,      \* the lock file each run uses
    Free,          \* no lock file
    NoOperation,   \* a run has no operation in hand
    Policies,      \* the policies (sequences of suggestions) to plan from
    InitialIssues, \* what the issues may be at first
    MaxPlans, MaxApprovals, MaxEdits  \* bounds of a check

Locks == {LockPath[r] : r \in Runs}

ASSUME ApplyAssumption ==
    /\ Free \notin Runs
    /\ Batches # {}
    /\ "state" \notin Labels
    /\ Policies \subseteq Seq(Suggestion)
    /\ InitialIssues \subseteq [Issues -> Metadata]

VARIABLES
    issue,      \* GitHub: metadata of each issue
    inFlight,   \* GitHub: requests sent and not yet served
    plan,       \* plan.json
    approval,   \* approval.json
    approvals,  \* history: every approval ever written
    lock,       \* lock files: the run that created it, or Free
    receipts,   \* receipt files, at most one per plan and batch
    pc,         \* per run: the next step of apply_plan
    args,       \* per run: command-line arguments and environment gate
    loaded,     \* per run: the plan it loaded
    selected,   \* per run: the operations validate_approval returned
    checks,     \* per run: batch preflight of each selected operation
    todo,       \* per run: operations the write loop has still to visit
    current,    \* per run: the operation in hand
    reply,      \* per run: the answer of gh to its request
    executed,   \* per run: executed_operation_ids
    outcome,    \* per run: how it ended
    sent,       \* history, per run: operations whose request it sent
    disturbed,  \* history, per run: fields others changed since it last read them
    used        \* how much of each bound is spent

github  == <<issue, inFlight>>
files   == <<plan, approval, approvals>>
inputs  == <<args, loaded, selected>>
loop    == <<todo, current, executed, sent>>
vars    == <<github, files, lock, receipts, pc, inputs, checks, loop, reply,
             outcome, disturbed, used>>

-----------------------------------------------------------------------------
Modes == {"dry-run", "execute", "ungated"}

Arguments == [batch : Batches, mode : Modes, sha : {NoPlan} \cup Plan]

Outcomes == {"none", "rejected", "empty", "error", "blocked", "dry run",
             "refused", "locked", "completed", "failed", "interrupted",
             "unreleased"}

(* Steps between acquire_lock and the unlink of release_lock.              *)
Writing == {"next", "write", "sent", "verify", "fail", "release"}

Steps == {"idle", "approval", "preflight", "lock", "done", "crashed"} \cup Writing

NoArguments == [batch |-> CHOOSE b \in Batches : TRUE, mode |-> "dry-run", sha |-> NoPlan]

StateField(op) == <<op.issue, "state">>

Fields == Issues \X ({"state", "milestone"} \cup Labels)

Receipt == [plan : {NoPlan} \cup Plan, batch : Batches,
            status : {"completed", "failed"}, executed : SUBSET Operation, writer : Runs]

Request == [run : Runs, op : Operation]

WorldType ==
    /\ issue \in [Issues -> Metadata]
    /\ inFlight \subseteq Request
    /\ plan \in {NoPlan} \cup Plan
    /\ approval \in {NoApproval} \cup Approval
    /\ approvals \subseteq Approval
    /\ lock \in [Locks -> Runs \cup {Free}]
    /\ receipts \subseteq Receipt
    /\ used \in [{"plans", "approvals", "edits"} -> Nat]

RunType ==
    /\ pc \in [Runs -> Steps]
    /\ args \in [Runs -> Arguments]
    /\ loaded \in [Runs -> {NoPlan} \cup Plan]
    /\ selected \in [Runs -> SUBSET Operation]
    /\ todo \in [Runs -> SUBSET Operation]
    /\ current \in [Runs -> {NoOperation} \cup Operation]
    /\ reply \in [Runs -> {"none", "ok", "error"}]
    /\ executed \in [Runs -> SUBSET Operation]
    /\ outcome \in [Runs -> Outcomes]
    /\ sent \in [Runs -> SUBSET Operation]
    /\ disturbed \in [Runs -> SUBSET Fields]

(* A run keeps one preflight result for each operation it selected.        *)
ChecksType ==
    /\ DOMAIN checks = Runs
    /\ \A r \in Runs : checks[r] \in [selected[r] -> PreflightStatus \cup {"unread"}]

(* A run has an operation in hand where it needs one.                      *)
CurrentType ==
    \A r \in Runs : pc[r] \in {"write", "sent", "verify"} => current[r] \in Operation

TypeOK == WorldType /\ RunType /\ ChecksType /\ CurrentType

Init ==
    /\ issue \in InitialIssues
    /\ inFlight = {}
    /\ plan = NoPlan
    /\ approval = NoApproval
    /\ approvals = {}
    /\ lock = [p \in Locks |-> Free]
    /\ receipts = {}
    /\ pc = [r \in Runs |-> "idle"]
    /\ args = [r \in Runs |-> NoArguments]
    /\ loaded = [r \in Runs |-> NoPlan]
    /\ selected = [r \in Runs |-> {}]
    /\ checks = [r \in Runs |-> [op \in {} |-> "unread"]]
    /\ todo = [r \in Runs |-> {}]
    /\ current = [r \in Runs |-> NoOperation]
    /\ reply = [r \in Runs |-> "none"]
    /\ executed = [r \in Runs |-> {}]
    /\ outcome = [r \in Runs |-> "none"]
    /\ sent = [r \in Runs |-> {}]
    /\ disturbed = [r \in Runs |-> {}]
    /\ used = [k \in {"plans", "approvals", "edits"} |-> 0]

-----------------------------------------------------------------------------
(* Helpers.                                                                *)

Goto(r, step) == pc' = [pc EXCEPT ![r] = step]

Finish(r, how) ==
    /\ Goto(r, "done")
    /\ outcome' = [outcome EXCEPT ![r] = how]

Spend(what, bound) ==
    /\ used[what] < bound
    /\ used' = [used EXCEPT ![what] = @ + 1]

(* Someone other than the runs in `except` changed these fields.           *)
Disturb(fields, except) ==
    disturbed' = [r \in Runs |-> IF r \in except \/ pc[r] = "idle"
                                 THEN disturbed[r] ELSE disturbed[r] \cup fields]

(* preflight_operation by run r: it reads the whole issue.                 *)
Reads(r, op) ==
    disturbed' = [disturbed EXCEPT ![r] = @ \ {Field(op), StateField(op)}]

Status(op) == Preflight(op, issue[op.issue])

-----------------------------------------------------------------------------
(* The world around the writer.                                            *)

OneFieldEdits(meta) ==
    {[meta EXCEPT !.state = s] : s \in States \ {meta.state}}
    \cup {[meta EXCEPT !.milestone = m] : m \in MaybeMilestone \ {meta.milestone}}
    \cup {[meta EXCEPT !.labels = @ \cup {l}] : l \in Labels \ meta.labels}
    \cup {[meta EXCEPT !.labels = @ \ {l}] : l \in meta.labels}

ChangedFields(old, new) ==
    {f \in {"state", "milestone"} : old[f] # new[f]}
    \cup (old.labels \ new.labels) \cup (new.labels \ old.labels)

PersonEdits(i) ==
    /\ Spend("edits", MaxEdits)
    /\ \E meta \in OneFieldEdits(issue[i]) :
         /\ issue' = [issue EXCEPT ![i] = meta]
         /\ Disturb({i} \X ChangedFields(issue[i], meta), {})
    /\ UNCHANGED <<inFlight, files, lock, receipts, pc, inputs, checks, loop, reply,
                   outcome>>

(* triage.py plan, on a fresh snapshot; a contradictory policy raises and  *)
(* leaves the old plan file.                                               *)
MakePlan ==
    /\ Spend("plans", MaxPlans)
    /\ \E policy \in Policies :
         /\ ~ Conflicting(policy, issue)
         /\ plan' = [operations  |-> PlannedOperations(policy, issue),
                     generatedAt |-> used["plans"]]
    /\ UNCHANGED <<github, approval, approvals, lock, receipts, pc, inputs, checks, loop,
                   reply, outcome, disturbed>>

(* The maintainer fills in the template of the plan at hand, perhaps       *)
(* carrying ids over from the approval given before.                       *)
Approve ==
    /\ plan # NoPlan
    /\ Spend("approvals", MaxApprovals)
    /\ \E ids \in SUBSET (plan.operations \cup UNION {a.ids : a \in approvals}),
          batches \in SUBSET Batches, allow \in BOOLEAN :
         approval' = [plan |-> plan, ids |-> ids, batches |-> batches,
                      allowDestructive |-> allow]
    /\ approvals' = approvals \cup {approval'}
    /\ UNCHANGED <<github, plan, lock, receipts, pc, inputs, checks, loop, reply, outcome,
                   disturbed>>

-----------------------------------------------------------------------------
(* A run, before it takes the lock.                                        *)

(* apply_plan starts: plan.json is read, approval.json is not yet.         *)
LoadPlan(r) ==
    /\ pc[r] = "idle"
    /\ plan # NoPlan
    /\ \E batch \in Batches, mode \in Modes, a \in approvals :
         args' = [args EXCEPT ![r] = [batch |-> batch, mode |-> mode, sha |-> a.plan]]
    /\ loaded' = [loaded EXCEPT ![r] = plan]
    /\ Goto(r, "approval")
    /\ UNCHANGED <<github, files, lock, receipts, selected, checks, loop, reply, outcome,
                   disturbed, used>>

LoadApproval(r) ==
    LET chosen == Selected(approval, args[r].batch)
        valid  == ValidApproval(loaded[r], approval, args[r].sha, args[r].batch)
    IN
    /\ pc[r] = "approval"
    /\ \/ /\ ~ valid
          /\ Finish(r, "rejected")
          /\ UNCHANGED <<selected, checks>>
       \/ /\ valid
          /\ chosen = {}
          /\ Finish(r, "empty")
          /\ UNCHANGED <<selected, checks>>
       \/ /\ valid
          /\ chosen # {}
          /\ selected' = [selected EXCEPT ![r] = chosen]
          /\ checks' = [checks EXCEPT ![r] = [op \in chosen |-> "unread"]]
          /\ Goto(r, "preflight")
          /\ UNCHANGED outcome
    /\ UNCHANGED <<github, files, lock, receipts, args, loaded, loop, reply, disturbed, used>>

(* The batch preflight reads the live issue of one selected operation.     *)
PreflightBatch(r) ==
    /\ pc[r] = "preflight"
    /\ \E op \in selected[r] :
         /\ checks[r][op] = "unread"
         /\ checks' = [checks EXCEPT ![r][op] = Status(op)]
         /\ Reads(r, op)
    /\ UNCHANGED <<github, files, lock, receipts, pc, inputs, loop, reply, outcome, used>>

Checked(r) == \A op \in selected[r] : checks[r][op] # "unread"

(* Mutant: only a batch that is stale as a whole is blocked.               *)
BlockedIfAllStale(r) == \A op \in selected[r] : checks[r][op] = "stale"

Blocked(r) == \E op \in selected[r] : checks[r][op] = "stale"

(* The gates between the batch preflight and acquire_lock.                 *)
PassGates(r) ==
    /\ pc[r] = "preflight"
    /\ Checked(r)
    /\ \/ Blocked(r) /\ Finish(r, "blocked")
       \/ ~ Blocked(r) /\ args[r].mode = "dry-run" /\ Finish(r, "dry run")
       \/ ~ Blocked(r) /\ args[r].mode = "ungated" /\ Finish(r, "refused")
       \/ /\ ~ Blocked(r)
          /\ args[r].mode = "execute"
          /\ Goto(r, "lock")
          /\ UNCHANGED outcome
    /\ UNCHANGED <<github, files, lock, receipts, inputs, checks, loop, reply, disturbed, used>>

(* Mutant: acquire_lock moved into the try block, whose finally clause     *)
(* then unlinks a lock file the run did not create.                        *)
AcquireInsideTry(r) ==
    /\ pc[r] = "lock"
    /\ \/ /\ lock[LockPath[r]] = Free
          /\ lock' = [lock EXCEPT ![LockPath[r]] = r]
          /\ todo' = [todo EXCEPT ![r] = {op \in selected[r] : checks[r][op] = "ready"}]
          /\ Goto(r, "next")
       \/ /\ lock[LockPath[r]] # Free
          /\ Goto(r, "release")
          /\ UNCHANGED <<lock, todo>>
    /\ UNCHANGED <<github, files, receipts, inputs, checks, current, executed, sent, reply,
                   outcome, disturbed, used>>

(* Mutant: the lock file is opened without O_EXCL.                         *)
AcquireWithoutExcl(r) ==
    /\ pc[r] = "lock"
    /\ lock' = [lock EXCEPT ![LockPath[r]] = r]
    /\ todo' = [todo EXCEPT ![r] = {op \in selected[r] : checks[r][op] = "ready"}]
    /\ Goto(r, "next")
    /\ UNCHANGED <<github, files, receipts, inputs, checks, current, executed, sent, reply,
                   outcome, disturbed, used>>

(* O_CREAT|O_EXCL: whoever finds the file gives up, whoever wrote it.      *)
AcquireLock(r) ==
    /\ pc[r] = "lock"
    /\ \/ /\ lock[LockPath[r]] = Free
          /\ lock' = [lock EXCEPT ![LockPath[r]] = r]
          /\ todo' = [todo EXCEPT ![r] = {op \in selected[r] : checks[r][op] = "ready"}]
          /\ Goto(r, "next")
          /\ UNCHANGED outcome
       \/ /\ lock[LockPath[r]] # Free
          /\ Finish(r, "locked")
          /\ UNCHANGED <<lock, todo>>
    /\ UNCHANGED <<github, files, receipts, inputs, checks, current, executed, sent, reply,
                   disturbed, used>>

-----------------------------------------------------------------------------
(* A run, while it holds the lock.                                         *)

(* Mutant: only a noop is looked for before the request is sent.           *)
JustInTimeIgnoresStale(r) ==
    /\ pc[r] = "next"
    /\ \E op \in todo[r] :
         /\ Reads(r, op)
         /\ \/ /\ Status(op) = "noop"
               /\ todo' = [todo EXCEPT ![r] = @ \ {op}]
               /\ UNCHANGED <<pc, current>>
            \/ /\ Status(op) # "noop"
               /\ current' = [current EXCEPT ![r] = op]
               /\ Goto(r, "write")
               /\ UNCHANGED todo
    /\ UNCHANGED <<github, files, lock, receipts, inputs, checks, executed, sent, reply,
                   outcome, used>>

(* Mutant: an operation that became stale is skipped like a noop.          *)
JustInTimeSkipsStale(r) ==
    /\ pc[r] = "next"
    /\ \E op \in todo[r] :
         /\ Reads(r, op)
         /\ \/ /\ Status(op) \in {"noop", "stale"}
               /\ todo' = [todo EXCEPT ![r] = @ \ {op}]
               /\ UNCHANGED <<pc, current>>
            \/ /\ Status(op) = "ready"
               /\ current' = [current EXCEPT ![r] = op]
               /\ Goto(r, "write")
               /\ UNCHANGED todo
    /\ UNCHANGED <<github, files, lock, receipts, inputs, checks, executed, sent, reply,
                   outcome, used>>

(* Just-in-time preflight of the next operation the batch found ready.     *)
JustInTime(r) ==
    /\ pc[r] = "next"
    /\ \E op \in todo[r] :
         /\ Reads(r, op)
         /\ \/ /\ Status(op) = "noop"
               /\ todo' = [todo EXCEPT ![r] = @ \ {op}]
               /\ UNCHANGED <<pc, current>>
            \/ /\ Status(op) = "stale"
               /\ Goto(r, "fail")
               /\ UNCHANGED <<todo, current>>
            \/ /\ Status(op) = "ready"
               /\ current' = [current EXCEPT ![r] = op]
               /\ Goto(r, "write")
               /\ UNCHANGED todo
    /\ UNCHANGED <<github, files, lock, receipts, inputs, checks, executed, sent, reply,
                   outcome, used>>

(* execute_operation hands the request to gh.                              *)
SendRequest(r) ==
    /\ pc[r] = "write"
    /\ inFlight' = inFlight \cup {[run |-> r, op |-> current[r]]}
    /\ sent' = [sent EXCEPT ![r] = @ \cup {current[r]}]
    /\ reply' = [reply EXCEPT ![r] = "none"]
    /\ Goto(r, "sent")
    /\ UNCHANGED <<issue, files, lock, receipts, inputs, checks, todo, current, executed,
                   outcome, disturbed, used>>

(* GitHub serves a request, or refuses it; nobody hears the answer when    *)
(* the run has stopped waiting.                                            *)
ServeRequest(q) ==
    /\ inFlight' = inFlight \ {q}
    /\ \/ /\ Acceptable(q.op, issue[q.op.issue])
          /\ issue' = [issue EXCEPT ![q.op.issue] = Effect(q.op, @)]
          /\ reply' = [reply EXCEPT ![q.run] = "ok"]
          /\ IF issue' = issue THEN UNCHANGED disturbed
                               ELSE Disturb({Field(q.op)}, {q.run})
       \/ /\ reply' = [reply EXCEPT ![q.run] = "error"]
          /\ UNCHANGED <<issue, disturbed>>
    /\ UNCHANGED <<files, lock, receipts, pc, inputs, checks, loop, outcome, used>>

ReceiveReply(r) ==
    /\ pc[r] = "sent"
    /\ \/ reply[r] = "ok" /\ Goto(r, "verify")
       \/ reply[r] = "error" /\ Goto(r, "fail")
    /\ UNCHANGED <<github, files, lock, receipts, inputs, checks, loop, reply, outcome,
                   disturbed, used>>

(* Mutant: gh runs without a timeout.                                      *)
RequestNeverTimesOut(r) == FALSE

(* Runner.run gives gh 60 seconds; the request may still be on its way.    *)
RequestTimesOut(r) ==
    /\ pc[r] = "sent"
    /\ Goto(r, "fail")
    /\ UNCHANGED <<github, files, lock, receipts, inputs, checks, loop, reply, outcome,
                   disturbed, used>>

(* Mutant: an operation that did not reach its state is passed over.       *)
VerifyCarriesOn(r) ==
    /\ pc[r] = "verify"
    /\ Reads(r, current[r])
    /\ \/ /\ Status(current[r]) = "noop"
          /\ executed' = [executed EXCEPT ![r] = @ \cup {current[r]}]
       \/ /\ Status(current[r]) # "noop"
          /\ UNCHANGED executed
    /\ todo' = [todo EXCEPT ![r] = @ \ {current[r]}]
    /\ current' = [current EXCEPT ![r] = NoOperation]
    /\ Goto(r, "next")
    /\ UNCHANGED <<github, files, lock, receipts, inputs, checks, sent, reply, outcome, used>>

(* The operation must by now preflight as a noop.                          *)
VerifyOperation(r) ==
    /\ pc[r] = "verify"
    /\ Reads(r, current[r])
    /\ \/ /\ Status(current[r]) = "noop"
          /\ executed' = [executed EXCEPT ![r] = @ \cup {current[r]}]
          /\ todo' = [todo EXCEPT ![r] = @ \ {current[r]}]
          /\ current' = [current EXCEPT ![r] = NoOperation]
          /\ Goto(r, "next")
       \/ /\ Status(current[r]) # "noop"
          /\ Goto(r, "fail")
          /\ UNCHANGED <<executed, todo, current>>
    /\ UNCHANGED <<github, files, lock, receipts, inputs, checks, sent, reply, outcome, used>>

(* write_json replaces the file the plan and batch name.                   *)
WriteReceipt(r, status) ==
    receipts' = {old \in receipts : old.plan # loaded[r] \/ old.batch # args[r].batch}
                \cup {[plan |-> loaded[r], batch |-> args[r].batch, status |-> status,
                       executed |-> executed[r], writer |-> r]}

RecordSuccess(r) ==
    /\ pc[r] = "next"
    /\ todo[r] = {}
    /\ WriteReceipt(r, "completed")
    /\ outcome' = [outcome EXCEPT ![r] = "completed"]
    /\ Goto(r, "release")
    /\ UNCHANGED <<github, files, lock, inputs, checks, loop, reply, disturbed, used>>

(* Mutant: no finally clause, so a failed run leaves its lock file.        *)
RecordFailureOnly(r) ==
    /\ pc[r] = "fail"
    /\ \/ WriteReceipt(r, "failed")
       \/ UNCHANGED receipts
    /\ Finish(r, "failed")
    /\ UNCHANGED <<github, files, lock, inputs, checks, loop, reply, disturbed, used>>

(* The exception handler: an error while it writes is swallowed.           *)
RecordFailure(r) ==
    /\ pc[r] = "fail"
    /\ \/ WriteReceipt(r, "failed")
       \/ UNCHANGED receipts
    /\ outcome' = [outcome EXCEPT ![r] = "failed"]
    /\ Goto(r, "release")
    /\ UNCHANGED <<github, files, lock, inputs, checks, loop, reply, disturbed, used>>

(* unlink, whoever created the file.                                       *)
ReleaseLock(r) ==
    /\ pc[r] = "release"
    /\ lock' = [lock EXCEPT ![LockPath[r]] = Free]
    /\ Goto(r, "done")
    /\ UNCHANGED <<github, files, receipts, inputs, checks, loop, reply, outcome, disturbed,
                   used>>

-----------------------------------------------------------------------------
(* What can go wrong in a run.                                             *)

(* acquire_lock creates its file and then fails, or is interrupted, before *)
(* it returns: the try block, and with it the unlink, is not reached.      *)
AcquireRaises(r) ==
    /\ pc[r] = "lock"
    /\ lock[LockPath[r]] = Free
    /\ lock' = [lock EXCEPT ![LockPath[r]] = r]
    /\ Finish(r, "error")
    /\ UNCHANGED <<github, files, receipts, inputs, checks, loop, reply, disturbed, used>>

(* A read of the API, or the receipt of a finished run, raises.            *)
StepRaises(r) ==
    /\ \/ pc[r] = "preflight" /\ ~ Checked(r) /\ Finish(r, "error")
       \/ pc[r] \in {"next", "verify"} /\ Goto(r, "fail") /\ UNCHANGED outcome
    /\ UNCHANGED <<github, files, lock, receipts, inputs, checks, loop, reply, disturbed, used>>

(* KeyboardInterrupt is no Exception: only the finally clause runs.  One   *)
(* that comes in the finally clause itself is in ReleaseRaises.            *)
Interrupt(r) ==
    /\ \/ pc[r] \in {"approval", "preflight", "lock"} /\ Goto(r, "done")
       \/ pc[r] \in Writing \ {"release"} /\ Goto(r, "release")
    /\ outcome' = [outcome EXCEPT ![r] = "interrupted"]
    /\ UNCHANGED <<github, files, lock, receipts, inputs, checks, loop, reply, disturbed, used>>

(* The finally clause is interrupted before the unlink, or unlink raises   *)
(* anything but FileNotFoundError: the run ends and its lock file stays.   *)
ReleaseRaises(r) ==
    /\ pc[r] = "release"
    /\ Finish(r, "unreleased")
    /\ UNCHANGED <<github, files, lock, receipts, inputs, checks, loop, reply, disturbed, used>>

(* The process is killed: nothing runs any more, and the lock file stays.  *)
Crash(r) ==
    /\ pc[r] \notin {"idle", "done", "crashed"}
    /\ Goto(r, "crashed")
    /\ UNCHANGED <<github, files, lock, receipts, inputs, checks, loop, reply, outcome,
                   disturbed, used>>

(* The maintainer deletes the lock file of a dead run by hand; nothing in  *)
(* the program does.                                                       *)
RemoveStaleLock(p) ==
    /\ lock[p] # Free
    /\ pc[lock[p]] \in {"done", "crashed"}
    /\ lock' = [lock EXCEPT ![p] = Free]
    /\ UNCHANGED <<github, files, receipts, pc, inputs, checks, loop, reply, outcome,
                   disturbed, used>>

-----------------------------------------------------------------------------
Run(r) ==
    \/ LoadApproval(r) \/ PreflightBatch(r) \/ PassGates(r) \/ AcquireLock(r)
    \/ JustInTime(r) \/ SendRequest(r) \/ ReceiveReply(r) \/ RequestTimesOut(r)
    \/ VerifyOperation(r) \/ RecordSuccess(r) \/ RecordFailure(r) \/ ReleaseLock(r)

Fault(r) ==
    AcquireRaises(r) \/ StepRaises(r) \/ Interrupt(r) \/ ReleaseRaises(r) \/ Crash(r)

Next ==
    \/ MakePlan
    \/ Approve
    \/ \E i \in Issues : PersonEdits(i)
    \/ \E q \in inFlight : ServeRequest(q)
    \/ \E p \in Locks : RemoveStaleLock(p)
    \/ \E r \in Runs : LoadPlan(r) \/ Run(r) \/ Fault(r)

(* A started run is scheduled, and no call of gh outlives its timeout.     *)
Fairness == \A r \in Runs : WF_vars(Run(r))

Spec == Init /\ [][Next]_vars

FairSpec == Spec /\ Fairness

-----------------------------------------------------------------------------
(* Safety properties.                                                      *)

(* Two runs that use one lock file are never between acquire_lock and      *)
(* release_lock together, across failures, interrupts, crashes and the     *)
(* removal of a dead run's lock by hand.                                   *)
WriterExclusion ==
    \A r, s \in Runs :
        pc[r] \in Writing /\ pc[s] \in Writing /\ LockPath[r] = LockPath[s] => r = s

(* Only a run in execute mode, past its gates, sends a request, only for   *)
(* operations of the batch it was given, and only if that batch as a whole *)
(* preflighted without a stale operation: one stale operation blocks the   *)
(* batch, and a dry run never calls a write endpoint.                      *)
WritesAreGated ==
    \A r \in Runs :
        sent[r] # {} =>
            /\ args[r].mode = "execute"
            /\ \A op \in sent[r] : op \in selected[r] /\ op.batch = args[r].batch
            /\ \A op \in selected[r] : checks[r][op] \in {"ready", "noop"}

(* A request travels to an issue that preflights as stale only if somebody *)
(* else changed the field, or the issue's state, after the run's just-in-  *)
(* time read: the writer never overwrites a change it had a chance to see. *)
NoBlindWrite ==
    \A q \in inFlight :
        Status(q.op) = "stale" =>
            {Field(q.op), StateField(q.op)} \cap disturbed[q.run] # {}

(* What a receipt file tells of its writer's requests: all of them when it *)
(* says completed, all but at most one (the one that failed) when it says  *)
(* failed, and never one that was not sent.                                *)
ReceiptAccountsForRequests ==
    \A rc \in receipts :
        LET unrecorded == sent[rc.writer] \ rc.executed
        IN  /\ rc.executed \subseteq sent[rc.writer]
            /\ rc.status = "completed" => unrecorded = {}
            /\ \A op1, op2 \in unrecorded : op1 = op2

(* After a completed receipt every selected operation is in its desired    *)
(* state, whether it was executed or skipped as a noop, unless somebody    *)
(* else changed its field after the run last read it.                      *)
CompletedMeansAchieved ==
    \A rc \in receipts :
        rc.status = "completed" =>
            \A op \in selected[rc.writer] :
                Achieved(op, issue[op.issue]) \/ Field(op) \in disturbed[rc.writer]

(* The program never frees or takes over the lock file of a run that is    *)
(* still writing: a lock changes hands through no owner only, by its       *)
(* owner's release or after its owner's end.                               *)
LockLeftByOwnerOnly ==
    [][\A p \in Locks :
          lock[p] # Free /\ lock'[p] # lock[p] =>
              /\ lock'[p] = Free
              /\ pc[lock[p]] \in {"release", "done", "crashed"}]_vars

(* Every change of an issue is a person's edit or the exact effect of an   *)
(* operation that an approval written earlier authorises: late requests,   *)
(* replaced plan files and replaced approval files included.               *)
Governed == INSTANCE GovernedMetadata WITH edits <- used["edits"]
GovernedSpec == Governed!Spec

-----------------------------------------------------------------------------
(* Liveness properties.                                                    *)

(* A started run ends, whatever GitHub, people and other runs do.          *)
EveryRunEnds == \A r \in Runs : pc[r] = "approval" ~> pc[r] \in {"done", "crashed"}

(* Once acquire_lock has returned, the lock file does not outlive the run: *)
(* not when a step raises, when writing the failed receipt raises as well, *)
(* or when the run is interrupted.  It does when the run is killed, and    *)
(* when the finally clause is cut short before its unlink.                 *)
LockIsReleased ==
    \A r \in Runs :
        pc[r] = "next" ~>
            lock[LockPath[r]] # r \/ pc[r] = "crashed" \/ outcome[r] = "unreleased"

-----------------------------------------------------------------------------
(* What the documentation says, and the program does not do.               *)

(* docs/ISSUE_GOVERNANCE.md:748: the lock prevents two local writer        *)
(* sessions from running at once.  LOCK_PATH lies in the checkout, so two  *)
(* worktrees (or two values of --lock-path) have two lock files.           *)
LocalWriterExclusion ==
    \A r, s \in Runs : pc[r] \in Writing /\ pc[s] \in Writing => r = s
=============================================================================
