------------------------ MODULE MetadataApplyProofs -------------------------
(***************************************************************************)
(* Theorems about MetadataApply, for every set of issues, labels,          *)
(* milestones, batches, runs, policies and lock files, and every bound;    *)
(* and about MetadataAudit, for every governance and every tracker.        *)
(***************************************************************************)
EXTENDS MetadataApply, MetadataAudit, InductionLemmas, FiniteSetTheorems

-----------------------------------------------------------------------------
(* The operators of MetadataPlan.                                          *)

(* GitHub's effect of an operation on an issue is an issue again.          *)
LEMMA EffectType ==
    ASSUME NEW op \in Operation, NEW meta \in Metadata
    PROVE  Effect(op, meta) \in Metadata
<1>1. CASE op.kind \in MilestoneKinds
  <2>1. op.value \in MaybeMilestone
    BY <1>1 DEF Operation, MilestoneKinds, LabelKinds
  <2> QED
    BY <1>1, <2>1 DEF Effect, Metadata, MilestoneKinds
<1>2. CASE op.kind = "issue.labels.add"
  BY <1>2 DEF Operation, MilestoneKinds, LabelKinds, Effect, Metadata
<1>3. CASE op.kind = "issue.labels.remove"
  BY <1>3 DEF Operation, MilestoneKinds, LabelKinds, Effect, Metadata
<1> QED
  BY <1>1, <1>2, <1>3 DEF Operation, LabelKinds

(* A preflight ends in one of the three statuses a supported operation has.*)
LEMMA PreflightType ==
    ASSUME NEW op, NEW meta
    PROVE  Preflight(op, meta) \in PreflightStatus
BY DEF Preflight, PreflightStatus

(* An edit of one field makes an issue again.                              *)
LEMMA EditType ==
    ASSUME NEW meta \in Metadata, NEW edited \in OneFieldEdits(meta)
    PROVE  edited \in Metadata
BY DEF OneFieldEdits, Metadata, States, MaybeMilestone

(* A suggestion and the live issue it is about make a supported operation. *)
LEMMA OperationFromType ==
    ASSUME NEW s \in Suggestion, NEW meta \in Metadata
    PROVE  OperationFrom(s, meta) \in Operation
<1>1. CASE s.kind \in MilestoneKinds
  BY <1>1 DEF Suggestion, OperationFrom, Operation, Metadata, MilestoneKinds, LabelKinds
<1>2. CASE s.kind \in LabelKinds
  BY <1>2 DEF Suggestion, OperationFrom, Operation, Metadata, MilestoneKinds, LabelKinds
<1> QED
  BY <1>1, <1>2 DEF Suggestion

(* A plan holds supported operations only.                                 *)
LEMMA PlannedType ==
    ASSUME NEW asked \in Seq(Suggestion), NEW live \in [Issues -> Metadata]
    PROVE  PlannedOperations(asked, live) \subseteq Operation
<1> SUFFICES ASSUME NEW k \in Effective(asked, live)
             PROVE  OperationFrom(asked[k], live[asked[k].issue]) \in Operation
  BY DEF PlannedOperations
<1>1. asked[k] \in Suggestion
  BY DEF Effective
<1>2. asked[k].issue \in Issues
  BY <1>1 DEF Suggestion
<1> QED
  BY <1>1, <1>2, OperationFromType

(* The field of an operation is one of the fields that can be disturbed.   *)
LEMMA FieldType ==
    ASSUME NEW op \in Operation
    PROVE  Field(op) \in Fields /\ StateField(op) \in Fields
<1>1. CASE op.kind \in MilestoneKinds
  BY <1>1 DEF Operation, Field, StateField, Fields
<1>2. CASE op.kind \in LabelKinds
  BY <1>2 DEF Operation, Field, StateField, Fields, MilestoneKinds, LabelKinds
<1> QED
  BY <1>1, <1>2 DEF Operation

-----------------------------------------------------------------------------
(* Type correctness.                                                       *)

(* An edit changes fields of the issue it edits.                           *)
LEMMA ChangedType ==
    ASSUME NEW old \in Metadata, NEW new \in Metadata, NEW i \in Issues
    PROVE  {i} \X ChangedFields(old, new) \subseteq Fields
BY DEF ChangedFields, Fields, Metadata

(* Every variable keeps its type, whatever the bounds of a check.          *)
THEOREM TypeCorrect == Spec => []TypeOK
<1> USE ApplyAssumption DEF github, files, inputs, loop
<1>1. Init => TypeOK
  <2> SUFFICES ASSUME Init PROVE TypeOK
    OBVIOUS
  <2> USE DEF Init
  <2>1. WorldType
    BY DEF WorldType
  <2>2. RunType
    BY DEF RunType, NoArguments, Arguments, Modes, Steps, Outcomes
  <2>3. ChecksType
    BY DEF ChecksType
  <2>4. CurrentType
    BY DEF CurrentType
  <2> QED
    BY <2>1, <2>2, <2>3, <2>4 DEF TypeOK
<1>2. TypeOK /\ [Next]_vars => TypeOK'
  <2> SUFFICES ASSUME TypeOK, [Next]_vars PROVE TypeOK'
    OBVIOUS
  <2> USE DEF TypeOK
  <2>1. ASSUME MakePlan PROVE TypeOK'
    <3>1. WorldType'
      BY <2>1, PlannedType DEF MakePlan, Plan, Spend, WorldType, RunType
    <3>2. RunType'
      BY <2>1, PlannedType DEF MakePlan, Plan, Spend, RunType, WorldType
    <3>3. ChecksType'
      BY <2>1, PlannedType DEF MakePlan, Plan, Spend, ChecksType, RunType, WorldType
    <3>4. CurrentType'
      BY <2>1, PlannedType DEF MakePlan, Plan, Spend, CurrentType, RunType, WorldType
    <3> QED
      BY <3>1, <3>2, <3>3, <3>4
  <2>2. ASSUME Approve PROVE TypeOK'
    <3>1. WorldType'
      BY <2>2 DEF Approve, Approval, Plan, Spend, WorldType, RunType
    <3>2. RunType'
      BY <2>2 DEF Approve, Approval, Plan, Spend, RunType, WorldType
    <3>3. ChecksType'
      BY <2>2 DEF Approve, Approval, Plan, Spend, ChecksType, RunType, WorldType
    <3>4. CurrentType'
      BY <2>2 DEF Approve, Approval, Plan, Spend, CurrentType, RunType, WorldType
    <3> QED
      BY <3>1, <3>2, <3>3, <3>4
  <2>3. ASSUME NEW i \in Issues, PersonEdits(i) PROVE TypeOK'
    <3>1. WorldType'
      BY <2>3, EditType, ChangedType DEF PersonEdits, Spend, Disturb, WorldType, RunType
    <3>2. RunType'
      BY <2>3, EditType, ChangedType DEF PersonEdits, Spend, Disturb, RunType, WorldType
    <3>3. ChecksType'
      BY <2>3, EditType, ChangedType DEF PersonEdits, Spend, Disturb, ChecksType, RunType, WorldType
    <3>4. CurrentType'
      BY <2>3, EditType, ChangedType DEF PersonEdits, Spend, Disturb, CurrentType, RunType, WorldType
    <3> QED
      BY <3>1, <3>2, <3>3, <3>4
  <2>4. ASSUME NEW q \in inFlight, ServeRequest(q) PROVE TypeOK'
    <3>1. WorldType'
      BY <2>4, EffectType, FieldType DEF ServeRequest, Request, Disturb, WorldType, RunType
    <3>2. RunType'
      BY <2>4, EffectType, FieldType DEF ServeRequest, Request, Disturb, RunType, WorldType
    <3>3. ChecksType'
      BY <2>4, EffectType, FieldType DEF ServeRequest, Request, Disturb, ChecksType, RunType, WorldType
    <3>4. CurrentType'
      BY <2>4, EffectType, FieldType DEF ServeRequest, Request, Disturb, CurrentType, RunType, WorldType
    <3> QED
      BY <3>1, <3>2, <3>3, <3>4
  <2>5. ASSUME NEW p \in Locks, RemoveStaleLock(p) PROVE TypeOK'
    <3>1. WorldType'
      BY <2>5 DEF RemoveStaleLock, WorldType, RunType
    <3>2. RunType'
      BY <2>5 DEF RemoveStaleLock, RunType, WorldType
    <3>3. ChecksType'
      BY <2>5 DEF RemoveStaleLock, ChecksType, RunType, WorldType
    <3>4. CurrentType'
      BY <2>5 DEF RemoveStaleLock, CurrentType, RunType, WorldType
    <3> QED
      BY <3>1, <3>2, <3>3, <3>4
  <2>6. ASSUME NEW r \in Runs, LoadPlan(r) PROVE TypeOK'
    <3>1. WorldType'
      BY <2>6 DEF LoadPlan, Goto, Steps, Writing, Arguments, Approval, Plan, WorldType, RunType
    <3>2. RunType'
      BY <2>6 DEF LoadPlan, Goto, Steps, Writing, Arguments, Approval, Plan, RunType, WorldType
    <3>3. ChecksType'
      BY <2>6 DEF LoadPlan, Goto, Steps, Writing, Arguments, Approval, Plan, ChecksType, RunType, WorldType
    <3>4. CurrentType'
      BY <2>6 DEF LoadPlan, Goto, Steps, Writing, Arguments, Approval, Plan, CurrentType, RunType, WorldType
    <3> QED
      BY <3>1, <3>2, <3>3, <3>4
  <2>7. ASSUME NEW r \in Runs, LoadApproval(r) PROVE TypeOK'
    <3>a. ValidApproval(loaded[r], approval, args[r].sha, args[r].batch) =>
              Selected(approval, args[r].batch) \subseteq Operation
      BY DEF ValidApproval, Selected, Approval, Plan, WorldType
    <3>1. WorldType'
      BY <2>7 DEF LoadApproval, Finish, Goto, Steps, Writing, Outcomes, Selected, ValidApproval, Approval, Plan, WorldType, RunType
    <3>2. RunType'
      <4>1. selected' \in [Runs -> SUBSET Operation]
        BY <2>7, <3>a DEF LoadApproval, RunType
      <4>2. pc' \in [Runs -> Steps] /\ outcome' \in [Runs -> Outcomes]
        BY <2>7 DEF LoadApproval, Finish, Goto, Steps, Writing, Outcomes, RunType
      <4> QED
        BY <2>7, <4>1, <4>2 DEF LoadApproval, RunType
    <3>3. ChecksType'
      BY <2>7, <3>a DEF LoadApproval, Finish, Goto, ChecksType, RunType
    <3>4. CurrentType'
      BY <2>7 DEF LoadApproval, Finish, Goto, Steps, Writing, Outcomes, Selected, ValidApproval, Approval, Plan, CurrentType, RunType, WorldType
    <3> QED
      BY <3>1, <3>2, <3>3, <3>4
  <2>8. ASSUME NEW r \in Runs, PreflightBatch(r) PROVE TypeOK'
    <3>1. WorldType'
      BY <2>8, PreflightType DEF PreflightBatch, Reads, Status, WorldType, RunType
    <3>2. RunType'
      BY <2>8, PreflightType DEF PreflightBatch, Reads, Status, RunType, WorldType
    <3>3. ChecksType'
      BY <2>8, PreflightType DEF PreflightBatch, Reads, Status, ChecksType, RunType, WorldType
    <3>4. CurrentType'
      BY <2>8, PreflightType DEF PreflightBatch, Reads, Status, CurrentType, RunType, WorldType
    <3> QED
      BY <3>1, <3>2, <3>3, <3>4
  <2>9. ASSUME NEW r \in Runs, PassGates(r) PROVE TypeOK'
    <3>1. WorldType'
      BY <2>9 DEF PassGates, Finish, Goto, Steps, Outcomes, WorldType, RunType
    <3>2. RunType'
      BY <2>9 DEF PassGates, Finish, Goto, Steps, Outcomes, RunType, WorldType
    <3>3. ChecksType'
      BY <2>9 DEF PassGates, Finish, Goto, Steps, Outcomes, ChecksType, RunType, WorldType
    <3>4. CurrentType'
      BY <2>9 DEF PassGates, Finish, Goto, Steps, Outcomes, CurrentType, RunType, WorldType
    <3> QED
      BY <3>1, <3>2, <3>3, <3>4
  <2>10. ASSUME NEW r \in Runs, AcquireLock(r) PROVE TypeOK'
    <3>a. LockPath[r] \in Locks
      BY DEF Locks
    <3>b. {op \in selected[r] : checks[r][op] = "ready"} \subseteq Operation
      BY DEF RunType
    <3>1. WorldType'
      BY <2>10, <3>a DEF AcquireLock, WorldType
    <3>2. RunType'
      <4>1. todo' \in [Runs -> SUBSET Operation]
        BY <2>10, <3>b DEF AcquireLock, RunType
      <4>2. pc' \in [Runs -> Steps] /\ outcome' \in [Runs -> Outcomes]
        BY <2>10 DEF AcquireLock, Finish, Goto, Steps, Writing, Outcomes, RunType
      <4> QED
        BY <2>10, <4>1, <4>2 DEF AcquireLock, RunType
    <3>3. ChecksType'
      BY <2>10 DEF AcquireLock, Finish, Goto, Steps, Writing, Outcomes, Locks, ChecksType, RunType, WorldType
    <3>4. CurrentType'
      BY <2>10 DEF AcquireLock, Finish, Goto, Steps, Writing, Outcomes, Locks, CurrentType, RunType, WorldType
    <3> QED
      BY <3>1, <3>2, <3>3, <3>4
  <2>11. ASSUME NEW r \in Runs, JustInTime(r) PROVE TypeOK'
    <3>1. WorldType'
      BY <2>11 DEF JustInTime, Reads, Goto, Steps, Writing, WorldType, RunType
    <3>2. RunType'
      BY <2>11 DEF JustInTime, Reads, Goto, Steps, Writing, RunType, WorldType
    <3>3. ChecksType'
      BY <2>11 DEF JustInTime, Reads, Goto, Steps, Writing, ChecksType, RunType, WorldType
    <3>4. CurrentType'
      BY <2>11 DEF JustInTime, Reads, Goto, Steps, Writing, CurrentType, RunType, WorldType
    <3> QED
      BY <3>1, <3>2, <3>3, <3>4
  <2>12. ASSUME NEW r \in Runs, SendRequest(r) PROVE TypeOK'
    <3>a. current[r] \in Operation
      BY <2>12 DEF SendRequest, CurrentType
    <3>1. WorldType'
      BY <2>12, <3>a DEF SendRequest, Goto, Steps, Writing, Request, WorldType, RunType
    <3>2. RunType'
      BY <2>12, <3>a DEF SendRequest, Goto, Steps, Writing, Request, RunType, WorldType
    <3>3. ChecksType'
      BY <2>12 DEF SendRequest, Goto, Steps, Writing, Request, ChecksType, RunType, WorldType
    <3>4. CurrentType'
      BY <2>12 DEF SendRequest, Goto, Steps, Writing, Request, CurrentType, RunType, WorldType
    <3> QED
      BY <3>1, <3>2, <3>3, <3>4
  <2>13. ASSUME NEW r \in Runs, ReceiveReply(r) PROVE TypeOK'
    <3>1. WorldType'
      BY <2>13 DEF ReceiveReply, Goto, Steps, Writing, WorldType, RunType
    <3>2. RunType'
      BY <2>13 DEF ReceiveReply, Goto, Steps, Writing, RunType, WorldType
    <3>3. ChecksType'
      BY <2>13 DEF ReceiveReply, Goto, Steps, Writing, ChecksType, RunType, WorldType
    <3>4. CurrentType'
      BY <2>13 DEF ReceiveReply, Goto, Steps, Writing, CurrentType, RunType, WorldType
    <3> QED
      BY <3>1, <3>2, <3>3, <3>4
  <2>14. ASSUME NEW r \in Runs, RequestTimesOut(r) PROVE TypeOK'
    <3>1. WorldType'
      BY <2>14 DEF RequestTimesOut, Goto, Steps, Writing, WorldType, RunType
    <3>2. RunType'
      BY <2>14 DEF RequestTimesOut, Goto, Steps, Writing, RunType, WorldType
    <3>3. ChecksType'
      BY <2>14 DEF RequestTimesOut, Goto, Steps, Writing, ChecksType, RunType, WorldType
    <3>4. CurrentType'
      BY <2>14 DEF RequestTimesOut, Goto, Steps, Writing, CurrentType, RunType, WorldType
    <3> QED
      BY <3>1, <3>2, <3>3, <3>4
  <2>15. ASSUME NEW r \in Runs, VerifyOperation(r) PROVE TypeOK'
    <3>a. current[r] \in Operation
      BY <2>15 DEF VerifyOperation, CurrentType
    <3>1. WorldType'
      BY <2>15 DEF VerifyOperation, Reads, Goto, Steps, Writing, WorldType, RunType
    <3>2. RunType'
      BY <2>15, <3>a DEF VerifyOperation, Reads, Goto, Steps, Writing, RunType, WorldType
    <3>3. ChecksType'
      BY <2>15 DEF VerifyOperation, Reads, Goto, Steps, Writing, ChecksType, RunType, WorldType
    <3>4. CurrentType'
      BY <2>15 DEF VerifyOperation, Reads, Goto, Steps, Writing, CurrentType, RunType, WorldType
    <3> QED
      BY <3>1, <3>2, <3>3, <3>4
  <2>16. ASSUME NEW r \in Runs, RecordSuccess(r) PROVE TypeOK'
    <3>a. [plan |-> loaded[r], batch |-> args[r].batch, status |-> "completed",
           executed |-> executed[r], writer |-> r] \in Receipt
      BY DEF RunType, Receipt, Arguments, Plan
    <3>1. WorldType'
      BY <2>16, <3>a DEF RecordSuccess, WriteReceipt, Receipt, Arguments, Goto, Steps, Writing, Outcomes, WorldType, RunType
    <3>2. RunType'
      BY <2>16 DEF RecordSuccess, WriteReceipt, Receipt, Arguments, Goto, Steps, Writing, Outcomes, RunType, WorldType
    <3>3. ChecksType'
      BY <2>16 DEF RecordSuccess, WriteReceipt, Receipt, Arguments, Goto, Steps, Writing, Outcomes, ChecksType, RunType, WorldType
    <3>4. CurrentType'
      BY <2>16 DEF RecordSuccess, WriteReceipt, Receipt, Arguments, Goto, Steps, Writing, Outcomes, CurrentType, RunType, WorldType
    <3> QED
      BY <3>1, <3>2, <3>3, <3>4
  <2>17. ASSUME NEW r \in Runs, RecordFailure(r) PROVE TypeOK'
    <3>a. [plan |-> loaded[r], batch |-> args[r].batch, status |-> "failed",
           executed |-> executed[r], writer |-> r] \in Receipt
      BY DEF RunType, Receipt, Arguments, Plan
    <3>1. WorldType'
      BY <2>17, <3>a DEF RecordFailure, WriteReceipt, Receipt, Arguments, Goto, Steps, Writing, Outcomes, WorldType, RunType
    <3>2. RunType'
      BY <2>17 DEF RecordFailure, WriteReceipt, Receipt, Arguments, Goto, Steps, Writing, Outcomes, RunType, WorldType
    <3>3. ChecksType'
      BY <2>17 DEF RecordFailure, WriteReceipt, Receipt, Arguments, Goto, Steps, Writing, Outcomes, ChecksType, RunType, WorldType
    <3>4. CurrentType'
      BY <2>17 DEF RecordFailure, WriteReceipt, Receipt, Arguments, Goto, Steps, Writing, Outcomes, CurrentType, RunType, WorldType
    <3> QED
      BY <3>1, <3>2, <3>3, <3>4
  <2>18. ASSUME NEW r \in Runs, ReleaseLock(r) PROVE TypeOK'
    <3>1. WorldType'
      BY <2>18 DEF ReleaseLock, Locks, Goto, Steps, Writing, WorldType, RunType
    <3>2. RunType'
      BY <2>18 DEF ReleaseLock, Locks, Goto, Steps, Writing, RunType, WorldType
    <3>3. ChecksType'
      BY <2>18 DEF ReleaseLock, Locks, Goto, Steps, Writing, ChecksType, RunType, WorldType
    <3>4. CurrentType'
      BY <2>18 DEF ReleaseLock, Locks, Goto, Steps, Writing, CurrentType, RunType, WorldType
    <3> QED
      BY <3>1, <3>2, <3>3, <3>4
  <2>19. ASSUME NEW r \in Runs, StepRaises(r) PROVE TypeOK'
    <3>1. WorldType'
      BY <2>19 DEF StepRaises, Finish, Goto, Steps, Writing, Outcomes, WorldType, RunType
    <3>2. RunType'
      BY <2>19 DEF StepRaises, Finish, Goto, Steps, Writing, Outcomes, RunType, WorldType
    <3>3. ChecksType'
      BY <2>19 DEF StepRaises, Finish, Goto, Steps, Writing, Outcomes, ChecksType, RunType, WorldType
    <3>4. CurrentType'
      BY <2>19 DEF StepRaises, Finish, Goto, Steps, Writing, Outcomes, CurrentType, RunType, WorldType
    <3> QED
      BY <3>1, <3>2, <3>3, <3>4
  <2>20. ASSUME NEW r \in Runs, Interrupt(r) PROVE TypeOK'
    <3>1. WorldType'
      BY <2>20 DEF Interrupt, Goto, Steps, Writing, Outcomes, WorldType, RunType
    <3>2. RunType'
      BY <2>20 DEF Interrupt, Goto, Steps, Writing, Outcomes, RunType, WorldType
    <3>3. ChecksType'
      BY <2>20 DEF Interrupt, Goto, Steps, Writing, Outcomes, ChecksType, RunType, WorldType
    <3>4. CurrentType'
      BY <2>20 DEF Interrupt, Goto, Steps, Writing, Outcomes, CurrentType, RunType, WorldType
    <3> QED
      BY <3>1, <3>2, <3>3, <3>4
  <2>21. ASSUME NEW r \in Runs, Crash(r) PROVE TypeOK'
    <3>1. WorldType'
      BY <2>21 DEF Crash, Goto, Steps, Writing, WorldType, RunType
    <3>2. RunType'
      BY <2>21 DEF Crash, Goto, Steps, Writing, RunType, WorldType
    <3>3. ChecksType'
      BY <2>21 DEF Crash, Goto, Steps, Writing, ChecksType, RunType, WorldType
    <3>4. CurrentType'
      BY <2>21 DEF Crash, Goto, Steps, Writing, CurrentType, RunType, WorldType
    <3> QED
      BY <3>1, <3>2, <3>3, <3>4
  <2>22. ASSUME NEW r \in Runs, AcquireRaises(r) PROVE TypeOK'
    <3>1. WorldType'
      BY <2>22 DEF AcquireRaises, Locks, WorldType, RunType
    <3>2. RunType'
      BY <2>22 DEF AcquireRaises, Finish, Goto, Steps, Writing, Outcomes, RunType
    <3>3. ChecksType'
      BY <2>22 DEF AcquireRaises, ChecksType
    <3>4. CurrentType'
      BY <2>22 DEF AcquireRaises, Finish, Goto, CurrentType, RunType
    <3> QED
      BY <3>1, <3>2, <3>3, <3>4
  <2>23. CASE UNCHANGED vars
    BY <2>23 DEF vars, WorldType, RunType, ChecksType, CurrentType
  <2>24. ASSUME NEW r \in Runs, ReleaseRaises(r) PROVE TypeOK'
    <3>1. WorldType'
      BY <2>24 DEF ReleaseRaises, WorldType, RunType
    <3>2. RunType'
      BY <2>24 DEF ReleaseRaises, Finish, Goto, Steps, Writing, Outcomes, RunType
    <3>3. ChecksType'
      BY <2>24 DEF ReleaseRaises, ChecksType
    <3>4. CurrentType'
      BY <2>24 DEF ReleaseRaises, Finish, Goto, CurrentType, RunType
    <3> QED
      BY <3>1, <3>2, <3>3, <3>4
  <2> QED
    BY <2>24, <2>1, <2>2, <2>3, <2>4, <2>5, <2>6, <2>7, <2>8, <2>9, <2>10, <2>11, <2>12, <2>13, <2>14, <2>15, <2>16, <2>17, <2>18, <2>19, <2>20, <2>21, <2>22, <2>23
       DEF Next, Run, Fault
<1> QED
  BY <1>1, <1>2, PTL DEF Spec

-----------------------------------------------------------------------------
(* Mutual exclusion of writers.                                            *)

(* A run between acquire_lock and release_lock owns its lock file: nobody  *)
(* unlinks it while its owner lives.                                       *)
OwnsLock == \A r \in Runs : pc[r] \in Writing => lock[LockPath[r]] = r

(* No step of any run, person or service breaks that ownership.            *)
LEMMA OwnsLockStep ==
    ASSUME TypeOK, OwnsLock, [Next]_vars
    PROVE  OwnsLock'
<1> USE DEF TypeOK, RunType, OwnsLock
<1>1. ASSUME NEW p \in Locks, RemoveStaleLock(p) PROVE OwnsLock'
  BY <1>1 DEF RemoveStaleLock, WorldType, Locks, Writing
<1>2. ASSUME NEW r \in Runs, AcquireLock(r) PROVE OwnsLock'
  <2>1. LockPath[r] \in Locks /\ Free \notin Runs
    BY ApplyAssumption DEF Locks
  <2>2. CASE lock[LockPath[r]] = Free
    <3>1. /\ lock' = [lock EXCEPT ![LockPath[r]] = r]
          /\ pc' = [pc EXCEPT ![r] = "next"]
      BY <1>2, <2>2 DEF AcquireLock, Goto
    <3>2. \A s \in Runs \ {r} : pc[s] \in Writing => LockPath[s] # LockPath[r]
      BY <2>1, <2>2
    <3> QED
      BY <2>1, <3>1, <3>2 DEF WorldType
  <2>3. CASE lock[LockPath[r]] # Free
    BY <1>2, <2>3 DEF AcquireLock, Finish, Goto, Writing
  <2> QED
    BY <2>2, <2>3
<1>3. ASSUME NEW r \in Runs, ReleaseLock(r) PROVE OwnsLock'
  <2>1. \A s \in Runs \ {r} : pc[s] \in Writing => LockPath[s] # LockPath[r]
    BY <1>3 DEF ReleaseLock, Writing
  <2> QED
    BY <1>3, <2>1 DEF ReleaseLock, Goto, WorldType, Writing
<1>13. ASSUME NEW r \in Runs, AcquireRaises(r) PROVE OwnsLock'
  <2>1. \A s \in Runs : pc[s] \in Writing => LockPath[s] # LockPath[r]
    BY <1>13, ApplyAssumption DEF AcquireRaises
  <2> QED
    BY <1>13, <2>1 DEF AcquireRaises, Finish, Goto, WorldType, Writing
(* The other steps leave the lock files alone and take no run into the     *)
(* writing steps from outside them.                                        *)
<1>4. ASSUME UNCHANGED lock, \A r \in Runs : pc'[r] \in Writing => pc[r] \in Writing
      PROVE  OwnsLock'
  BY <1>4
<1>5. CASE MakePlan
  BY <1>4, <1>5 DEF MakePlan
<1>6. CASE Approve
  BY <1>4, <1>6 DEF Approve
<1>7. ASSUME NEW i \in Issues, PersonEdits(i) PROVE OwnsLock'
  BY <1>4, <1>7 DEF PersonEdits
<1>8. ASSUME NEW q \in inFlight, ServeRequest(q) PROVE OwnsLock'
  BY <1>4, <1>8 DEF ServeRequest
<1>9. ASSUME NEW r \in Runs,
             LoadPlan(r) \/ LoadApproval(r) \/ PreflightBatch(r) \/ PassGates(r)
      PROVE  OwnsLock'
  BY <1>4, <1>9 DEF LoadPlan, LoadApproval, PreflightBatch, PassGates, Finish, Goto, Writing
<1>10. ASSUME NEW r \in Runs,
              \/ JustInTime(r) \/ SendRequest(r) \/ ReceiveReply(r)
              \/ RequestTimesOut(r) \/ VerifyOperation(r)
       PROVE  OwnsLock'
  BY <1>4, <1>10 DEF JustInTime, SendRequest, ReceiveReply, RequestTimesOut, VerifyOperation,
                     Goto, Writing
<1>11. ASSUME NEW r \in Runs,
              RecordSuccess(r) \/ RecordFailure(r) \/ StepRaises(r) \/ Interrupt(r)
              \/ ReleaseRaises(r) \/ Crash(r)
       PROVE  OwnsLock'
  BY <1>4, <1>11 DEF RecordSuccess, RecordFailure, StepRaises, Interrupt, ReleaseRaises, Crash, Finish, Goto,
                     Writing
<1>12. CASE UNCHANGED vars
  BY <1>4, <1>12 DEF vars
<1> QED
  BY <1>1, <1>2, <1>3, <1>5, <1>6, <1>7, <1>8, <1>9, <1>10, <1>11, <1>12, <1>13
     DEF Next, Run, Fault

(* The writer lock keeps two runs that use one lock file from writing at   *)
(* once, for any number of runs and lock files, whatever fails or dies.    *)
THEOREM WritersExclude == Spec => []WriterExclusion
<1>1. Init => OwnsLock
  BY DEF Init, OwnsLock, Writing
<1>2. TypeOK /\ OwnsLock /\ [Next]_vars => OwnsLock'
  BY OwnsLockStep
<1>3. OwnsLock => WriterExclusion
  BY DEF OwnsLock, WriterExclusion
<1> QED
  BY <1>1, <1>2, <1>3, TypeCorrect, PTL DEF Spec

(* A lock file is freed by its owner's release or after its owner's end,   *)
(* and never taken over.                                                   *)
THEOREM LockIsLeftByItsOwner == Spec => LockLeftByOwnerOnly
<1> DEFINE LockStep ==
      \A p \in Locks :
          lock[p] # Free /\ lock'[p] # lock[p] =>
              /\ lock'[p] = Free
              /\ pc[lock[p]] \in {"release", "done", "crashed"}
<1>1. TypeOK /\ OwnsLock /\ [Next]_vars => LockStep
  <2> SUFFICES ASSUME TypeOK, OwnsLock, [Next]_vars PROVE LockStep
    OBVIOUS
  <2> USE DEF TypeOK, WorldType, RunType
  <2>1. ASSUME NEW r \in Runs, AcquireLock(r) PROVE LockStep
    BY <2>1 DEF AcquireLock
  <2>2. ASSUME NEW r \in Runs, ReleaseLock(r) PROVE LockStep
    BY <2>2 DEF ReleaseLock, OwnsLock, Writing
  <2>3. ASSUME NEW p \in Locks, RemoveStaleLock(p) PROVE LockStep
    BY <2>3 DEF RemoveStaleLock
  <2>4. ASSUME NEW r \in Runs, AcquireRaises(r) PROVE LockStep
    BY <2>4 DEF AcquireRaises
  <2>5. CASE UNCHANGED lock
    BY <2>5
  <2> QED
    BY <2>1, <2>2, <2>3, <2>4, <2>5
       DEF Next, Run, Fault, vars, MakePlan, Approve, PersonEdits, ServeRequest, LoadPlan,
           LoadApproval, PreflightBatch, PassGates, JustInTime, SendRequest, ReceiveReply,
           RequestTimesOut, VerifyOperation, RecordSuccess, RecordFailure, StepRaises,
           Interrupt, ReleaseRaises, Crash
<1>2. Spec => [](TypeOK /\ OwnsLock)
  <2>1. Init => OwnsLock
    BY DEF Init, OwnsLock, Writing
  <2>2. TypeOK /\ OwnsLock /\ [Next]_vars => OwnsLock'
    BY OwnsLockStep
  <2> QED
    BY <2>1, <2>2, TypeCorrect, PTL DEF Spec
<1>3. Spec => [][LockStep]_vars
  BY <1>1, <1>2, PTL DEF Spec
<1> QED
  BY <1>3 DEF LockLeftByOwnerOnly

-----------------------------------------------------------------------------
(* What a run sends, and what it records.                                  *)

Early == {"idle", "approval", "preflight", "lock"}

Authorised(op) == \E a \in approvals : Authorises(a, op)

BatchChecked(r) ==
    /\ args[r].mode = "execute"
    /\ \A op \in selected[r] : checks[r][op] \in {"ready", "noop"}

(* The approval file holds an approval the maintainer wrote.               *)
ApprovalRecorded == approval # NoApproval => approval \in approvals

(* What a run selected is authorised and of its batch, and stays what it   *)
(* selected.                                                               *)
SelectionInv ==
    \A r \in Runs :
        /\ pc[r] \in {"idle", "approval"} => selected[r] = {}
        /\ \A op \in selected[r] : op.batch = args[r].batch /\ Authorised(op)

(* A run past the gates has checked its batch, and works on its selection. *)
GateInv ==
    \A r \in Runs :
        /\ pc[r] \in Early => sent[r] = {} /\ executed[r] = {} /\ todo[r] = {}
        /\ pc[r] \in Writing \cup {"lock"} => BatchChecked(r)
        /\ sent[r] # {} => BatchChecked(r)
        /\ todo[r] \subseteq selected[r]
        /\ sent[r] \subseteq selected[r]
        /\ pc[r] \in {"write", "sent", "verify"} => current[r] \in todo[r]

(* At most the operation in hand is sent and not recorded.                 *)
RecordInv ==
    \A r \in Runs :
        /\ executed[r] \subseteq sent[r]
        /\ pc[r] \in {"next", "write"} => sent[r] \subseteq executed[r]
        /\ pc[r] \in {"sent", "verify"} =>
               /\ current[r] \in sent[r]
               /\ sent[r] \subseteq executed[r] \cup {current[r]}
        /\ \A op1, op2 \in sent[r] \ executed[r] : op1 = op2

(* A receipt is written when its writer will send and record no more.      *)
ReceiptInv ==
    \A rc \in receipts :
        /\ pc[rc.writer] \in {"release", "done", "crashed"}
        /\ rc.executed = executed[rc.writer]
        /\ rc.status = "completed" => sent[rc.writer] \subseteq executed[rc.writer]

(* A request in flight was sent by its run.                                *)
InFlightInv == \A q \in inFlight : q.op \in sent[q.run]

(* Only Approve writes the approval file.                                  *)
LEMMA ApprovalRecordedStep ==
    ASSUME TypeOK, ApprovalRecorded, [Next]_vars
    PROVE  ApprovalRecorded'
<1> USE DEF TypeOK, RunType, ApprovalRecorded, github, files, inputs, loop
<1>1. CASE MakePlan \/ Approve \/ UNCHANGED vars
  BY <1>1 DEF MakePlan, Approve, vars
<1>2. ASSUME NEW i \in Issues, PersonEdits(i) PROVE ApprovalRecorded'
  BY <1>2 DEF PersonEdits
<1>3. ASSUME NEW q \in inFlight, ServeRequest(q) PROVE ApprovalRecorded'
  BY <1>3 DEF ServeRequest
<1>4. ASSUME NEW p \in Locks, RemoveStaleLock(p) PROVE ApprovalRecorded'
  BY <1>4 DEF RemoveStaleLock
<1>5. ASSUME NEW r \in Runs, LoadPlan(r) \/ PreflightBatch(r)
      PROVE  ApprovalRecorded'
  BY <1>5 DEF LoadPlan, PreflightBatch, Goto
<1>6. ASSUME NEW r \in Runs, LoadApproval(r) PROVE ApprovalRecorded'
  BY <1>6 DEF LoadApproval, Finish, Goto
<1>7. ASSUME NEW r \in Runs, PassGates(r) PROVE ApprovalRecorded'
  BY <1>7 DEF PassGates, Finish, Goto
<1>8. ASSUME NEW r \in Runs, AcquireLock(r) PROVE ApprovalRecorded'
  BY <1>8 DEF AcquireLock, Finish, Goto
<1>9. ASSUME NEW r \in Runs, JustInTime(r) PROVE ApprovalRecorded'
  BY <1>9 DEF JustInTime, Goto
<1>10. ASSUME NEW r \in Runs, SendRequest(r) PROVE ApprovalRecorded'
  BY <1>10 DEF SendRequest, Goto
<1>11. ASSUME NEW r \in Runs, ReceiveReply(r) \/ RequestTimesOut(r)
       PROVE  ApprovalRecorded'
  BY <1>11 DEF ReceiveReply, RequestTimesOut, Goto
<1>12. ASSUME NEW r \in Runs, VerifyOperation(r) PROVE ApprovalRecorded'
  BY <1>12 DEF VerifyOperation, Goto
<1>13. ASSUME NEW r \in Runs, RecordSuccess(r) \/ RecordFailure(r)
       PROVE  ApprovalRecorded'
  BY <1>13 DEF RecordSuccess, RecordFailure, WriteReceipt, Goto
<1>14. ASSUME NEW r \in Runs, ReleaseLock(r) \/ AcquireRaises(r)
       PROVE  ApprovalRecorded'
  BY <1>14 DEF ReleaseLock, AcquireRaises, Goto, Finish
<1>15. ASSUME NEW r \in Runs, StepRaises(r) \/ Interrupt(r) \/ ReleaseRaises(r) \/ Crash(r)
       PROVE  ApprovalRecorded'
  BY <1>15 DEF StepRaises, Interrupt, ReleaseRaises, Crash, Finish, Goto
<1> QED
  BY <1>1, <1>2, <1>3, <1>4, <1>5, <1>6, <1>7, <1>8, <1>9, <1>10, <1>11, <1>12,
     <1>13, <1>14, <1>15
     DEF Next, Run, Fault

(* A selection is made once, by LoadApproval, from a valid approval.       *)
LEMMA SelectionStep ==
    ASSUME TypeOK, SelectionInv, ApprovalRecorded, [Next]_vars
    PROVE  SelectionInv'
<1> USE DEF TypeOK, RunType, SelectionInv, github, files, inputs, loop,
            Authorised, ApprovalRecorded
<1>1. CASE MakePlan \/ Approve \/ UNCHANGED vars
  BY <1>1 DEF MakePlan, Approve, vars
<1>2. ASSUME NEW i \in Issues, PersonEdits(i) PROVE SelectionInv'
  BY <1>2 DEF PersonEdits
<1>3. ASSUME NEW q \in inFlight, ServeRequest(q) PROVE SelectionInv'
  BY <1>3 DEF ServeRequest
<1>4. ASSUME NEW p \in Locks, RemoveStaleLock(p) PROVE SelectionInv'
  BY <1>4 DEF RemoveStaleLock
<1>5. ASSUME NEW r \in Runs, LoadPlan(r) \/ PreflightBatch(r) \/ PassGates(r)
      PROVE  SelectionInv'
  BY <1>5 DEF LoadPlan, PreflightBatch, PassGates, Goto, Finish
<1>6. ASSUME NEW r \in Runs, LoadApproval(r) PROVE SelectionInv'
  <2>1. ValidApproval(loaded[r], approval, args[r].sha, args[r].batch) =>
            \A op \in Selected(approval, args[r].batch) :
                op.batch = args[r].batch /\ Authorised(op)
    BY DEF ValidApproval, Selected, Authorises
  <2> QED
    BY <1>6, <2>1 DEF LoadApproval, Finish, Goto
<1>7. ASSUME NEW r \in Runs, AcquireLock(r) PROVE SelectionInv'
  BY <1>7 DEF AcquireLock, Finish, Goto
<1>8. ASSUME NEW r \in Runs, JustInTime(r) PROVE SelectionInv'
  BY <1>8 DEF JustInTime, Goto
<1>9. ASSUME NEW r \in Runs, SendRequest(r) PROVE SelectionInv'
  BY <1>9 DEF SendRequest, Goto
<1>10. ASSUME NEW r \in Runs, ReceiveReply(r) \/ RequestTimesOut(r)
       PROVE  SelectionInv'
  BY <1>10 DEF ReceiveReply, RequestTimesOut, Goto
<1>11. ASSUME NEW r \in Runs, VerifyOperation(r) PROVE SelectionInv'
  BY <1>11 DEF VerifyOperation, Goto
<1>12. ASSUME NEW r \in Runs, RecordSuccess(r) \/ RecordFailure(r)
       PROVE  SelectionInv'
  BY <1>12 DEF RecordSuccess, RecordFailure, WriteReceipt, Goto
<1>13. ASSUME NEW r \in Runs, ReleaseLock(r) \/ AcquireRaises(r)
       PROVE  SelectionInv'
  BY <1>13 DEF ReleaseLock, AcquireRaises, Goto, Finish
<1>14. ASSUME NEW r \in Runs, StepRaises(r) \/ Interrupt(r) \/ ReleaseRaises(r) \/ Crash(r)
       PROVE  SelectionInv'
  BY <1>14 DEF StepRaises, Interrupt, ReleaseRaises, Crash, Finish, Goto
<1> QED
  BY <1>1, <1>2, <1>3, <1>4, <1>5, <1>6, <1>7, <1>8, <1>9, <1>10, <1>11, <1>12,
     <1>13, <1>14
     DEF Next, Run, Fault

(* PassGates alone leads to a write, and only with the batch checked.      *)
LEMMA GateStep ==
    ASSUME TypeOK, GateInv, SelectionInv, ChecksType, [Next]_vars
    PROVE  GateInv'
<1> USE DEF TypeOK, RunType, GateInv, github, files, inputs, loop,
            BatchChecked, Early, Writing, ChecksType, SelectionInv
<1>1. CASE MakePlan \/ Approve \/ UNCHANGED vars
  BY <1>1 DEF MakePlan, Approve, vars
<1>2. ASSUME NEW i \in Issues, PersonEdits(i) PROVE GateInv'
  BY <1>2 DEF PersonEdits
<1>3. ASSUME NEW q \in inFlight, ServeRequest(q) PROVE GateInv'
  BY <1>3 DEF ServeRequest
<1>4. ASSUME NEW p \in Locks, RemoveStaleLock(p) PROVE GateInv'
  BY <1>4 DEF RemoveStaleLock
<1>5. ASSUME NEW r \in Runs, LoadPlan(r) \/ PreflightBatch(r)
      PROVE  GateInv'
  BY <1>5 DEF LoadPlan, PreflightBatch, Goto
<1>6. ASSUME NEW r \in Runs, LoadApproval(r) PROVE GateInv'
  BY <1>6 DEF LoadApproval, Finish, Goto
<1>7. ASSUME NEW r \in Runs, PassGates(r) PROVE GateInv'
  <2>1. ~ Blocked(r) /\ Checked(r) =>
            \A op \in selected[r] : checks[r][op] \in {"ready", "noop"}
    BY DEF Blocked, Checked, PreflightStatus
  <2>2. pc' = [pc EXCEPT ![r] = "done"] \/ pc' = [pc EXCEPT ![r] = "lock"]
    BY <1>7 DEF PassGates, Finish, Goto
  <2>3. UNCHANGED <<args, selected, checks, todo, current, executed, sent>>
    BY <1>7 DEF PassGates
  <2>4. pc'[r] = "lock" => BatchChecked(r)
    <3>1. pc'[r] = "lock" => ~ Blocked(r) /\ Checked(r) /\ args[r].mode = "execute"
      BY <1>7 DEF PassGates, Finish, Goto
    <3> QED
      BY <2>1, <3>1
  <2>5. sent[r] = {} /\ executed[r] = {} /\ todo[r] = {}
    BY <1>7 DEF PassGates
  <2> QED
    BY <2>2, <2>3, <2>4, <2>5
<1>8. ASSUME NEW r \in Runs, AcquireLock(r) PROVE GateInv'
  BY <1>8 DEF AcquireLock, Finish, Goto
<1>9. ASSUME NEW r \in Runs, JustInTime(r) PROVE GateInv'
  BY <1>9 DEF JustInTime, Goto
<1>10. ASSUME NEW r \in Runs, SendRequest(r) PROVE GateInv'
  BY <1>10 DEF SendRequest, Goto
<1>11. ASSUME NEW r \in Runs, ReceiveReply(r) \/ RequestTimesOut(r)
       PROVE  GateInv'
  BY <1>11 DEF ReceiveReply, RequestTimesOut, Goto
<1>12. ASSUME NEW r \in Runs, VerifyOperation(r) PROVE GateInv'
  BY <1>12 DEF VerifyOperation, Goto
<1>13. ASSUME NEW r \in Runs, RecordSuccess(r) \/ RecordFailure(r)
       PROVE  GateInv'
  BY <1>13 DEF RecordSuccess, RecordFailure, WriteReceipt, Goto
<1>14. ASSUME NEW r \in Runs, ReleaseLock(r) \/ AcquireRaises(r)
       PROVE  GateInv'
  BY <1>14 DEF ReleaseLock, AcquireRaises, Goto, Finish
<1>15. ASSUME NEW r \in Runs, StepRaises(r) \/ Interrupt(r) \/ ReleaseRaises(r) \/ Crash(r)
       PROVE  GateInv'
  BY <1>15 DEF StepRaises, Interrupt, ReleaseRaises, Crash, Finish, Goto
<1> QED
  BY <1>1, <1>2, <1>3, <1>4, <1>5, <1>6, <1>7, <1>8, <1>9, <1>10, <1>11, <1>12,
     <1>13, <1>14, <1>15
     DEF Next, Run, Fault

(* A request is sent before, and recorded after, its operation is verified.*)
LEMMA RecordStep ==
    ASSUME TypeOK, RecordInv, GateInv, [Next]_vars
    PROVE  RecordInv'
<1> USE DEF TypeOK, RunType, RecordInv, github, files, inputs, loop
<1>1. CASE MakePlan \/ Approve \/ UNCHANGED vars
  BY <1>1 DEF MakePlan, Approve, vars
<1>2. ASSUME NEW i \in Issues, PersonEdits(i) PROVE RecordInv'
  BY <1>2 DEF PersonEdits
<1>3. ASSUME NEW q \in inFlight, ServeRequest(q) PROVE RecordInv'
  BY <1>3 DEF ServeRequest
<1>4. ASSUME NEW p \in Locks, RemoveStaleLock(p) PROVE RecordInv'
  BY <1>4 DEF RemoveStaleLock
<1>5. ASSUME NEW r \in Runs, LoadPlan(r) \/ PreflightBatch(r)
      PROVE  RecordInv'
  BY <1>5 DEF LoadPlan, PreflightBatch, Goto
<1>6. ASSUME NEW r \in Runs, LoadApproval(r) PROVE RecordInv'
  BY <1>6 DEF LoadApproval, Finish, Goto
<1>7. ASSUME NEW r \in Runs, PassGates(r) PROVE RecordInv'
  <2>1. pc' = [pc EXCEPT ![r] = "done"] \/ pc' = [pc EXCEPT ![r] = "lock"]
    BY <1>7 DEF PassGates, Finish, Goto
  <2>2. UNCHANGED <<current, executed, sent>>
    BY <1>7 DEF PassGates
  <2> QED
    BY <2>1, <2>2
<1>8. ASSUME NEW r \in Runs, AcquireLock(r) PROVE RecordInv'
  BY <1>8 DEF AcquireLock, Finish, Goto, GateInv, Early
<1>9. ASSUME NEW r \in Runs, JustInTime(r) PROVE RecordInv'
  BY <1>9 DEF JustInTime, Goto
<1>10. ASSUME NEW r \in Runs, SendRequest(r) PROVE RecordInv'
  BY <1>10 DEF SendRequest, Goto
<1>11. ASSUME NEW r \in Runs, ReceiveReply(r) \/ RequestTimesOut(r)
       PROVE  RecordInv'
  BY <1>11 DEF ReceiveReply, RequestTimesOut, Goto
<1>12. ASSUME NEW r \in Runs, VerifyOperation(r) PROVE RecordInv'
  <2>1. current[r] \in sent[r] \/ sent[r] \subseteq executed[r]
    BY <1>12 DEF VerifyOperation
  <2>2. CASE Status(current[r]) # "noop"
    BY <1>12, <2>2 DEF VerifyOperation, Goto
  <2>3. CASE Status(current[r]) = "noop"
    <3>1. executed' = [executed EXCEPT ![r] = executed[r] \cup {current[r]}]
      BY <1>12, <2>3 DEF VerifyOperation
    <3>2. pc' = [pc EXCEPT ![r] = "next"]
      BY <1>12, <2>3 DEF VerifyOperation, Goto
    <3>3. current' = [current EXCEPT ![r] = NoOperation] /\ UNCHANGED sent
      BY <1>12, <2>3 DEF VerifyOperation
    <3>4. executed'[r] = sent[r] /\ pc'[r] = "next"
      BY <1>12, <3>1, <3>2 DEF VerifyOperation
    <3>5. ASSUME NEW s \in Runs, s # r
          PROVE  /\ executed'[s] = executed[s]
                 /\ pc'[s] = pc[s]
                 /\ current'[s] = current[s]
      BY <3>1, <3>2, <3>3, <3>5
    <3> QED
      BY <3>3, <3>4, <3>5
  <2> QED
    BY <2>2, <2>3
<1>13. ASSUME NEW r \in Runs, RecordSuccess(r) \/ RecordFailure(r)
       PROVE  RecordInv'
  BY <1>13 DEF RecordSuccess, RecordFailure, WriteReceipt, Goto
<1>14. ASSUME NEW r \in Runs, ReleaseLock(r) \/ AcquireRaises(r)
       PROVE  RecordInv'
  BY <1>14 DEF ReleaseLock, AcquireRaises, Goto, Finish
<1>15. ASSUME NEW r \in Runs, StepRaises(r) \/ Interrupt(r) \/ ReleaseRaises(r) \/ Crash(r)
       PROVE  RecordInv'
  BY <1>15 DEF StepRaises, Interrupt, ReleaseRaises, Crash, Finish, Goto
<1> QED
  BY <1>1, <1>2, <1>3, <1>4, <1>5, <1>6, <1>7, <1>8, <1>9, <1>10, <1>11, <1>12,
     <1>13, <1>14, <1>15
     DEF Next, Run, Fault

(* A run does nothing that its receipt tells of after it wrote the receipt.*)
LEMMA ReceiptStep ==
    ASSUME TypeOK, ReceiptInv, RecordInv, WorldType, [Next]_vars
    PROVE  ReceiptInv'
<1> USE DEF TypeOK, RunType, ReceiptInv, github, files, inputs, loop, Receipt,
            RecordInv, WorldType
<1>1. CASE MakePlan \/ Approve \/ UNCHANGED vars
  BY <1>1 DEF MakePlan, Approve, vars
<1>2. ASSUME NEW i \in Issues, PersonEdits(i) PROVE ReceiptInv'
  BY <1>2 DEF PersonEdits
<1>3. ASSUME NEW q \in inFlight, ServeRequest(q) PROVE ReceiptInv'
  BY <1>3 DEF ServeRequest
<1>4. ASSUME NEW p \in Locks, RemoveStaleLock(p) PROVE ReceiptInv'
  BY <1>4 DEF RemoveStaleLock
<1>5. ASSUME NEW r \in Runs, LoadPlan(r) \/ PreflightBatch(r)
      PROVE  ReceiptInv'
  BY <1>5 DEF LoadPlan, PreflightBatch, Goto
<1>6. ASSUME NEW r \in Runs, LoadApproval(r) PROVE ReceiptInv'
  BY <1>6 DEF LoadApproval, Finish, Goto
<1>7. ASSUME NEW r \in Runs, PassGates(r) PROVE ReceiptInv'
  BY <1>7 DEF PassGates, Finish, Goto
<1>8. ASSUME NEW r \in Runs, AcquireLock(r) PROVE ReceiptInv'
  BY <1>8 DEF AcquireLock, Finish, Goto
<1>9. ASSUME NEW r \in Runs, JustInTime(r) PROVE ReceiptInv'
  BY <1>9 DEF JustInTime, Goto
<1>10. ASSUME NEW r \in Runs, SendRequest(r) PROVE ReceiptInv'
  BY <1>10 DEF SendRequest, Goto
<1>11. ASSUME NEW r \in Runs, ReceiveReply(r) \/ RequestTimesOut(r)
       PROVE  ReceiptInv'
  BY <1>11 DEF ReceiveReply, RequestTimesOut, Goto
<1>12. ASSUME NEW r \in Runs, VerifyOperation(r) PROVE ReceiptInv'
  BY <1>12 DEF VerifyOperation, Goto
<1>13. ASSUME NEW r \in Runs, RecordSuccess(r) \/ RecordFailure(r)
       PROVE  ReceiptInv'
  BY <1>13 DEF RecordSuccess, RecordFailure, WriteReceipt, Goto
<1>14. ASSUME NEW r \in Runs, ReleaseLock(r) \/ AcquireRaises(r)
       PROVE  ReceiptInv'
  BY <1>14 DEF ReleaseLock, AcquireRaises, Goto, Finish
<1>15. ASSUME NEW r \in Runs, StepRaises(r) \/ Interrupt(r) \/ ReleaseRaises(r) \/ Crash(r)
       PROVE  ReceiptInv'
  BY <1>15 DEF StepRaises, Interrupt, ReleaseRaises, Crash, Finish, Goto
<1> QED
  BY <1>1, <1>2, <1>3, <1>4, <1>5, <1>6, <1>7, <1>8, <1>9, <1>10, <1>11, <1>12,
     <1>13, <1>14, <1>15
     DEF Next, Run, Fault

(* Requests are made by SendRequest only.                                  *)
LEMMA InFlightStep ==
    ASSUME TypeOK, InFlightInv, WorldType, [Next]_vars
    PROVE  InFlightInv'
<1> USE DEF TypeOK, RunType, InFlightInv, github, files, inputs, loop, Request,
            WorldType
<1>1. CASE MakePlan \/ Approve \/ UNCHANGED vars
  BY <1>1 DEF MakePlan, Approve, vars
<1>2. ASSUME NEW i \in Issues, PersonEdits(i) PROVE InFlightInv'
  BY <1>2 DEF PersonEdits
<1>3. ASSUME NEW q \in inFlight, ServeRequest(q) PROVE InFlightInv'
  BY <1>3 DEF ServeRequest
<1>4. ASSUME NEW p \in Locks, RemoveStaleLock(p) PROVE InFlightInv'
  BY <1>4 DEF RemoveStaleLock
<1>5. ASSUME NEW r \in Runs, LoadPlan(r) \/ PreflightBatch(r)
      PROVE  InFlightInv'
  BY <1>5 DEF LoadPlan, PreflightBatch, Goto
<1>6. ASSUME NEW r \in Runs, LoadApproval(r) PROVE InFlightInv'
  BY <1>6 DEF LoadApproval, Finish, Goto
<1>7. ASSUME NEW r \in Runs, PassGates(r) PROVE InFlightInv'
  BY <1>7 DEF PassGates, Finish, Goto
<1>8. ASSUME NEW r \in Runs, AcquireLock(r) PROVE InFlightInv'
  BY <1>8 DEF AcquireLock, Finish, Goto
<1>9. ASSUME NEW r \in Runs, JustInTime(r) PROVE InFlightInv'
  BY <1>9 DEF JustInTime, Goto
<1>10. ASSUME NEW r \in Runs, SendRequest(r) PROVE InFlightInv'
  BY <1>10 DEF SendRequest, Goto
<1>11. ASSUME NEW r \in Runs, ReceiveReply(r) \/ RequestTimesOut(r)
       PROVE  InFlightInv'
  BY <1>11 DEF ReceiveReply, RequestTimesOut, Goto
<1>12. ASSUME NEW r \in Runs, VerifyOperation(r) PROVE InFlightInv'
  BY <1>12 DEF VerifyOperation, Goto
<1>13. ASSUME NEW r \in Runs, RecordSuccess(r) \/ RecordFailure(r)
       PROVE  InFlightInv'
  BY <1>13 DEF RecordSuccess, RecordFailure, WriteReceipt, Goto
<1>14. ASSUME NEW r \in Runs, ReleaseLock(r) \/ AcquireRaises(r)
       PROVE  InFlightInv'
  BY <1>14 DEF ReleaseLock, AcquireRaises, Goto, Finish
<1>15. ASSUME NEW r \in Runs, StepRaises(r) \/ Interrupt(r) \/ ReleaseRaises(r) \/ Crash(r)
       PROVE  InFlightInv'
  BY <1>15 DEF StepRaises, Interrupt, ReleaseRaises, Crash, Finish, Goto
<1> QED
  BY <1>1, <1>2, <1>3, <1>4, <1>5, <1>6, <1>7, <1>8, <1>9, <1>10, <1>11, <1>12,
     <1>13, <1>14, <1>15
     DEF Next, Run, Fault

-----------------------------------------------------------------------------
(* The invariant, and what follows from it.                                *)

IInv ==
    /\ TypeOK
    /\ ApprovalRecorded
    /\ SelectionInv
    /\ GateInv
    /\ RecordInv
    /\ ReceiptInv
    /\ InFlightInv

(* The conjunction of the invariants above is an invariant.                *)
THEOREM Invariance == Spec => []IInv
<1>1. Init => ApprovalRecorded /\ SelectionInv /\ GateInv /\ RecordInv
              /\ ReceiptInv /\ InFlightInv
  BY DEF Init, ApprovalRecorded, SelectionInv, GateInv, Early, Writing, RecordInv,
         ReceiptInv, InFlightInv
<1>2. IInv /\ [Next]_vars => /\ ApprovalRecorded'
                             /\ SelectionInv'
                             /\ GateInv'
                             /\ RecordInv'
                             /\ ReceiptInv'
                             /\ InFlightInv'
  BY ApprovalRecordedStep, SelectionStep, GateStep, RecordStep, ReceiptStep, InFlightStep
     DEF IInv, TypeOK
<1> QED
  BY <1>1, <1>2, TypeCorrect, PTL DEF Spec, IInv

(* No request is sent without the gates passed, outside the batch and its  *)
(* approval, or for a batch that did not preflight as a whole.             *)
THEOREM WritesStayGated == Spec => []WritesAreGated
<1>1. IInv => WritesAreGated
  BY DEF IInv, SelectionInv, GateInv, BatchChecked, WritesAreGated
<1> QED
  BY <1>1, Invariance, PTL

(* A receipt tells of all its writer's requests, or of all but the one     *)
(* that failed, and of no other.                                           *)
THEOREM ReceiptsAccount == Spec => []ReceiptAccountsForRequests
<1>1. IInv => ReceiptAccountsForRequests
  <2> SUFFICES ASSUME IInv, NEW rc \in receipts
               PROVE  LET unrecorded == sent[rc.writer] \ rc.executed
                      IN  /\ rc.executed \subseteq sent[rc.writer]
                          /\ rc.status = "completed" => unrecorded = {}
                          /\ \A op1, op2 \in unrecorded : op1 = op2
    BY DEF ReceiptAccountsForRequests
  <2>1. rc.writer \in Runs
    BY DEF IInv, TypeOK, WorldType, Receipt
  <2> QED
    BY <2>1 DEF IInv, RecordInv, ReceiptInv
<1> QED
  BY <1>1, Invariance, PTL

(* The writer implements the governance specification: an issue changes by *)
(* a person's edit or by the exact effect of an authorised operation, even *)
(* when a request is served after its run has failed, died or moved on.    *)
THEOREM ImplementsGovernance == Spec => GovernedSpec
<1>1. Init => Governed!Init
  BY ApplyAssumption
     DEF Init, Governed!Init, Metadata, States, MaybeMilestone, Governed!Metadata,
         Governed!States, Governed!MaybeMilestone
<1>2. IInv /\ [Next]_vars => [Governed!Next]_<<issue, used["edits"], approvals>>
  <2> SUFFICES ASSUME IInv, [Next]_vars
               PROVE  [Governed!Next]_<<issue, used["edits"], approvals>>
    OBVIOUS
  <2>1. ASSUME NEW i \in Issues, PersonEdits(i) PROVE Governed!Next
    <3>1. PICK meta \in OneFieldEdits(issue[i]) : issue' = [issue EXCEPT ![i] = meta]
      BY <2>1 DEF PersonEdits
    <3>2. meta \in Governed!Metadata
      BY EditType DEF IInv, TypeOK, WorldType, Metadata, States, MaybeMilestone,
                      Governed!Metadata, Governed!States, Governed!MaybeMilestone
    <3>3. UNCHANGED approvals
      BY <2>1 DEF PersonEdits, files
    <3>4. used'["edits"] = used["edits"] + 1
      BY <2>1 DEF PersonEdits, Spend, IInv, TypeOK, WorldType
    <3> QED
      BY <3>1, <3>2, <3>3, <3>4 DEF Governed!Next, Governed!PersonEdits
  <2>2. ASSUME Approve PROVE Governed!Next
    <3>1. UNCHANGED <<issue, used["edits"]>>
      BY <2>2 DEF Approve, Spend, github, IInv, TypeOK, WorldType
    <3> QED
      BY <2>2, <3>1 DEF Approve, Governed!Next, Governed!MaintainerApproves
  <2>3. ASSUME NEW q \in inFlight, ServeRequest(q)
        PROVE  [Governed!Next]_<<issue, used["edits"], approvals>>
    <3>1. UNCHANGED <<used["edits"], approvals>>
      BY <2>3 DEF ServeRequest, files
    <3>2. CASE issue' = [issue EXCEPT ![q.op.issue] = Effect(q.op, @)]
      <4>1. q.run \in Runs /\ q.op \in selected[q.run]
        BY DEF IInv, TypeOK, WorldType, Request, InFlightInv, GateInv
      <4>2. PICK a \in approvals : Authorises(a, q.op)
        BY <4>1 DEF IInv, SelectionInv, Authorised
      <4>3. Governed!Authorises(a, q.op) /\ q.op \in a.ids
        BY <4>2 DEF Authorises, Governed!Authorises
      <4>4. issue' = [issue EXCEPT ![q.op.issue] = Governed!Effect(q.op, @)]
        BY <3>2 DEF Effect, Governed!Effect, MilestoneKinds, Governed!MilestoneKinds
      <4>5. Governed!WriterApplies(q.op)
        BY <3>1, <4>3, <4>4 DEF Governed!WriterApplies
      <4>6. q.op \in UNION {x.ids : x \in approvals}
        BY <4>3
      <4> QED
        BY <4>5, <4>6 DEF Governed!Next
    <3>3. CASE UNCHANGED issue
      BY <3>1, <3>3
    <3> QED
      BY <2>3, <3>2, <3>3 DEF ServeRequest
  <2>4. ASSUME MakePlan PROVE UNCHANGED <<issue, used["edits"], approvals>>
    BY <2>4 DEF MakePlan, Spend, github, IInv, TypeOK, WorldType
  <2>5. CASE UNCHANGED <<issue, used["edits"], approvals>>
    BY <2>5
  <2> QED
    BY <2>1, <2>2, <2>3, <2>4, <2>5
       DEF Next, Run, Fault, vars, github, files, RemoveStaleLock, LoadPlan,
           LoadApproval, PreflightBatch, PassGates, AcquireLock, JustInTime, SendRequest,
           ReceiveReply, RequestTimesOut, VerifyOperation, RecordSuccess, RecordFailure,
           ReleaseLock, AcquireRaises, StepRaises, Interrupt, ReleaseRaises, Crash
<1>3. Spec => Governed!Init /\ [][Governed!Next]_<<issue, used["edits"], approvals>>
  BY <1>1, <1>2, Invariance, PTL DEF Spec
<1> QED
  BY <1>3 DEF GovernedSpec, Governed!Spec

-----------------------------------------------------------------------------
(* MetadataApply never writes blindly: between the just-in-time preflight  *)
(* and the service of a request, however late, nothing makes the operation *)
(* stale but a change by somebody else.  And nothing but such a change     *)
(* undoes what a run has done or found done, so that its completed receipt *)
(* tells the truth.                                                        *)

(* A run has one request on its way at most, and only while it waits for   *)
(* the answer or has given up.                                             *)
WaitingInv ==
    /\ \A q \in inFlight :
         /\ pc[q.run] \in {"sent", "fail", "release", "done", "crashed"}
         /\ pc[q.run] = "sent" => reply[q.run] = "none"
    /\ \A q1, q2 \in inFlight : q1.run = q2.run => q1 = q2

(* Operations a run has read for the last time and not seen the effect of. *)
Committed(r, op) ==
    \/ pc[r] = "write" /\ op = current[r]
    \/ [run |-> r, op |-> op] \in inFlight

Disturbed(r, op) == {Field(op), StateField(op)} \cap disturbed[r] # {}

FreshInv ==
    \A r \in Runs, op \in Operation :
        Committed(r, op) => Status(op) # "stale" \/ Disturbed(r, op)

-----------------------------------------------------------------------------
(* What preflight looks at: the issue's state and the operation's field.   *)
LEMMA PreflightIsLocal ==
    ASSUME NEW op \in Operation, NEW old \in Metadata, NEW new \in Metadata,
           new.state = old.state,
           op.kind \in MilestoneKinds => new.milestone = old.milestone,
           op.kind \in LabelKinds => (op.value \in new.labels <=> op.value \in old.labels)
    PROVE  Preflight(op, new) = Preflight(op, old)
<1>1. op.kind \in MilestoneKinds \cup LabelKinds
  BY DEF Operation
<1>2. Achieved(op, new) <=> Achieved(op, old)
  <2>1. CASE op.kind \in MilestoneKinds
    BY <2>1 DEF Achieved, MilestoneKinds
  <2>2. CASE op.kind = "issue.labels.add"
    BY <2>2 DEF Achieved, MilestoneKinds, LabelKinds
  <2>3. CASE op.kind = "issue.labels.remove"
    BY <2>3 DEF Achieved, MilestoneKinds, LabelKinds
  <2> QED
    BY <1>1, <2>1, <2>2, <2>3 DEF LabelKinds
<1>3. /\ new.state # op.issueState <=> old.state # op.issueState
      /\ new.state = op.issueState <=> old.state = op.issueState
      /\ op.kind \in MilestoneKinds /\ new.milestone # op.before
            <=> op.kind \in MilestoneKinds /\ old.milestone # op.before
  OBVIOUS
<1>4. CASE new.state # op.issueState
  BY <1>3, <1>4 DEF Preflight
<1>5. CASE new.state = op.issueState /\ Achieved(op, new)
  BY <1>2, <1>3, <1>5 DEF Preflight
<1>6. CASE new.state = op.issueState /\ ~ Achieved(op, new)
  BY <1>2, <1>3, <1>6 DEF Preflight
<1> QED
  BY <1>4, <1>5, <1>6

(* An edit that is not of the operation's field, nor of the state of its   *)
(* issue, does not change its preflight.                                   *)
LEMMA EditIsLocal ==
    ASSUME NEW op \in Operation, NEW old \in Metadata, NEW new \in Metadata,
           Field(op) \notin {op.issue} \X ChangedFields(old, new),
           StateField(op) \notin {op.issue} \X ChangedFields(old, new)
    PROVE  Preflight(op, new) = Preflight(op, old)
<1>1. new.state = old.state
  BY DEF StateField, ChangedFields
<1>2. op.kind \in MilestoneKinds => new.milestone = old.milestone
  BY DEF Field, ChangedFields
<1>3. op.kind \in LabelKinds => (op.value \in new.labels <=> op.value \in old.labels)
  BY DEF Field, ChangedFields, MilestoneKinds, LabelKinds
<1> QED
  BY <1>1, <1>2, <1>3, PreflightIsLocal

(* The effect of an operation leaves the preflight of operations on other  *)
(* fields alone.                                                           *)
LEMMA EffectIsLocal ==
    ASSUME NEW op \in Operation, NEW by \in Operation, NEW meta \in Metadata,
           by.issue = op.issue, Field(by) # Field(op)
    PROVE  Preflight(op, Effect(by, meta)) = Preflight(op, meta)
<1> DEFINE new == Effect(by, meta)
<1>1. new \in Metadata
  BY EffectType
<1>2. CASE by.kind \in MilestoneKinds
  <2>1. new = [meta EXCEPT !.milestone = by.value]
    BY <1>2 DEF Effect, MilestoneKinds
  <2>2. new.state = meta.state /\ new.labels = meta.labels
    BY <2>1 DEF Metadata
  <2>3. op.kind \notin MilestoneKinds
    BY <1>2 DEF Field
  <2> QED
    BY <1>1, <2>2, <2>3, PreflightIsLocal
<1>3. CASE by.kind \in LabelKinds
  <2>1. \/ new = [meta EXCEPT !.labels = @ \cup {by.value}]
        \/ new = [meta EXCEPT !.labels = @ \ {by.value}]
    BY <1>3 DEF Effect, MilestoneKinds, LabelKinds
  <2>2. /\ new.state = meta.state
        /\ new.milestone = meta.milestone
        /\ \A l : l # by.value => (l \in new.labels <=> l \in meta.labels)
    BY <2>1 DEF Metadata
  <2>3. op.kind \in LabelKinds => op.value # by.value
    BY <1>3 DEF Field, MilestoneKinds, LabelKinds
  <2> QED
    BY <1>1, <2>2, <2>3, PreflightIsLocal
<1> QED
  BY <1>2, <1>3 DEF Operation

-----------------------------------------------------------------------------
(* SendRequest makes the one request; an answer, or a service nobody waits *)
(* for, takes it away before the next is made.                             *)
LEMMA WaitingStep ==
    ASSUME TypeOK, WaitingInv, [Next]_vars
    PROVE  WaitingInv'
<1> USE DEF TypeOK, RunType, WorldType, Request, WaitingInv
<1>1. ASSUME NEW r \in Runs, SendRequest(r) PROVE WaitingInv'
  <2>1. /\ inFlight' = inFlight \cup {[run |-> r, op |-> current[r]]}
        /\ pc' = [pc EXCEPT ![r] = "sent"]
        /\ reply' = [reply EXCEPT ![r] = "none"]
    BY <1>1 DEF SendRequest, Goto
  <2>2. \A q \in inFlight : q.run # r
    BY <1>1 DEF SendRequest
  <2> QED
    BY <2>1, <2>2
<1>2. ASSUME NEW q \in inFlight, ServeRequest(q) PROVE WaitingInv'
  <2>1. /\ inFlight' = inFlight \ {q}
        /\ UNCHANGED pc
        /\ \A r \in Runs \ {q.run} : reply'[r] = reply[r]
    BY <1>2 DEF ServeRequest
  <2>2. \A p \in inFlight' : p \in inFlight /\ p.run # q.run
    BY <2>1
  <2> QED
    BY <2>1, <2>2
<1>3. ASSUME NEW r \in Runs, ReceiveReply(r) PROVE WaitingInv'
  <2>1. \A q \in inFlight : q.run # r
    BY <1>3 DEF ReceiveReply
  <2>2. UNCHANGED <<inFlight, reply>> /\ \A s \in Runs \ {r} : pc'[s] = pc[s]
    BY <1>3 DEF ReceiveReply, Goto, github
  <2> QED
    BY <2>1, <2>2
(* The other steps take no run with a request on its way back to a step    *)
(* where it might send one.                                                *)
<1>4. ASSUME UNCHANGED <<inFlight, reply>>,
             \A r \in Runs :
                \/ pc'[r] = pc[r]
                \/ pc[r] \notin {"sent", "fail", "release", "done", "crashed"}
                \/ pc'[r] \in {"fail", "release", "done", "crashed"}
      PROVE  WaitingInv'
  BY <1>4
<1>5. CASE MakePlan
  BY <1>4, <1>5 DEF MakePlan, github
<1>6. CASE Approve
  BY <1>4, <1>6 DEF Approve, github
<1>7. ASSUME NEW i \in Issues, PersonEdits(i) PROVE WaitingInv'
  BY <1>4, <1>7 DEF PersonEdits
<1>8. ASSUME NEW p \in Locks, RemoveStaleLock(p) PROVE WaitingInv'
  BY <1>4, <1>8 DEF RemoveStaleLock, github
<1>9. ASSUME NEW r \in Runs,
             LoadPlan(r) \/ LoadApproval(r) \/ PreflightBatch(r) \/ PassGates(r)
      PROVE  WaitingInv'
  BY <1>4, <1>9 DEF LoadPlan, LoadApproval, PreflightBatch, PassGates, Finish, Goto, github
<1>10. ASSUME NEW r \in Runs, AcquireLock(r) \/ JustInTime(r) \/ VerifyOperation(r)
       PROVE  WaitingInv'
  BY <1>4, <1>10 DEF AcquireLock, JustInTime, VerifyOperation, Finish, Goto, github
<1>11. ASSUME NEW r \in Runs,
              RequestTimesOut(r) \/ RecordSuccess(r) \/ RecordFailure(r) \/ ReleaseLock(r)
       PROVE  WaitingInv'
  BY <1>4, <1>11 DEF RequestTimesOut, RecordSuccess, RecordFailure, ReleaseLock, Finish, Goto,
                     github
<1>12. ASSUME NEW r \in Runs, AcquireRaises(r) \/ StepRaises(r) \/ Interrupt(r) \/ ReleaseRaises(r) \/ Crash(r)
       PROVE  WaitingInv'
  BY <1>4, <1>12 DEF AcquireRaises, StepRaises, Interrupt, ReleaseRaises, Crash, Finish, Goto, github
<1>13. CASE UNCHANGED vars
  BY <1>4, <1>13 DEF vars, github
<1> QED
  BY <1>1, <1>2, <1>3, <1>5, <1>6, <1>7, <1>8, <1>9, <1>10, <1>11, <1>12, <1>13
     DEF Next, Run, Fault

(* An operation becomes stale after its last read only by a change that    *)
(* disturbs the run.                                                       *)
LEMMA FreshStep ==
    ASSUME TypeOK, WaitingInv, FreshInv, [Next]_vars
    PROVE  FreshInv'
<1> USE DEF TypeOK, RunType, WorldType, Committed, Disturbed
(* Another's change of an issue.                                           *)
<1>1. ASSUME NEW i \in Issues, PersonEdits(i) PROVE FreshInv'
  <2>1. PICK meta \in OneFieldEdits(issue[i]) :
            /\ issue' = [issue EXCEPT ![i] = meta]
            /\ Disturb({i} \X ChangedFields(issue[i], meta), {})
    BY <1>1 DEF PersonEdits
  <2>2. meta \in Metadata
    BY EditType
  <2>3. UNCHANGED <<inFlight, pc, current>>
    BY <1>1 DEF PersonEdits, loop
  <2> SUFFICES ASSUME NEW r \in Runs, NEW op \in Operation, Committed(r, op)
               PROVE  Status(op)' # "stale" \/ Disturbed(r, op)'
    BY <2>3 DEF FreshInv
  <2>4. pc[r] # "idle"
    BY DEF WaitingInv
  <2>5. disturbed'[r] = disturbed[r] \cup ({i} \X ChangedFields(issue[i], meta))
    BY <2>1, <2>4 DEF Disturb
  <2>6. op.issue \in Issues
    BY DEF Operation
  <2>7. CASE op.issue # i
    BY <2>1, <2>5, <2>6, <2>7 DEF FreshInv, Status
  <2>8. CASE op.issue = i
    <3>1. issue'[op.issue] = meta
      BY <2>1, <2>8
    <3>2. CASE /\ Field(op) \notin {i} \X ChangedFields(issue[i], meta)
               /\ StateField(op) \notin {i} \X ChangedFields(issue[i], meta)
      <4>1. Preflight(op, meta) = Preflight(op, issue[i])
        BY <2>2, <2>8, <3>2, EditIsLocal
      <4> QED
        BY <2>5, <2>8, <3>1, <4>1 DEF FreshInv, Status
    <3>3. CASE \/ Field(op) \in {i} \X ChangedFields(issue[i], meta)
               \/ StateField(op) \in {i} \X ChangedFields(issue[i], meta)
      BY <2>5, <3>3
    <3> QED
      BY <3>2, <3>3
  <2> QED
    BY <2>7, <2>8
<1>2. ASSUME NEW q \in inFlight, ServeRequest(q) PROVE FreshInv'
  <2>1. q.op \in Operation /\ q.run \in Runs
    BY DEF Request
  <2>2. inFlight' = inFlight \ {q} /\ UNCHANGED <<pc, current>>
    BY <1>2 DEF ServeRequest, loop
  <2> SUFFICES ASSUME NEW r \in Runs, NEW op \in Operation, Committed(r, op)'
               PROVE  Status(op)' # "stale" \/ Disturbed(r, op)'
    BY DEF FreshInv
  <2>3. Committed(r, op)
    BY <2>2
  <2>4. r # q.run
    BY <2>2 DEF WaitingInv
  <2>5. CASE UNCHANGED <<issue, disturbed>>
    BY <2>3, <2>5 DEF FreshInv, Status
  <2>6. CASE /\ issue' = [issue EXCEPT ![q.op.issue] = Effect(q.op, issue[q.op.issue])]
             /\ Disturb({Field(q.op)}, {q.run})
    <3>1. pc[r] # "idle"
      BY <2>3 DEF WaitingInv
    <3>2. disturbed'[r] = disturbed[r] \cup {Field(q.op)}
      BY <2>4, <2>6, <3>1 DEF Disturb
    <3>3. op.issue \in Issues /\ q.op.issue \in Issues
      BY <2>1 DEF Operation
    <3>4. CASE Field(op) = Field(q.op)
      BY <3>2, <3>4
    <3>5. CASE op.issue # q.op.issue
      BY <2>3, <2>6, <3>2, <3>3, <3>5 DEF FreshInv, Status
    <3>6. CASE op.issue = q.op.issue /\ Field(op) # Field(q.op)
      <4>1. Preflight(op, Effect(q.op, issue[op.issue])) = Preflight(op, issue[op.issue])
        BY <2>1, <3>3, <3>6, EffectIsLocal
      <4>2. issue'[op.issue] = Effect(q.op, issue[op.issue])
        BY <2>6, <3>3, <3>6
      <4> QED
        BY <2>3, <3>2, <4>1, <4>2 DEF FreshInv, Status
    <3> QED
      BY <3>4, <3>5, <3>6
  <2>7. CASE UNCHANGED issue /\ Disturb({Field(q.op)}, {q.run})
    BY <2>3, <2>4, <2>7 DEF FreshInv, Status, Disturb
  <2> QED
    BY <1>2, <2>5, <2>6, <2>7 DEF ServeRequest
(* Reads of the run's own.                                                 *)
<1>3. ASSUME NEW r \in Runs, NEW op \in Operation, Reads(r, op),
             UNCHANGED <<issue, inFlight>>,
             pc[r] \in {"preflight", "next", "verify"},
             pc'[r] = "write" => current'[r] \in Operation /\ Status(current'[r]) = "ready",
             \A s \in Runs \ {r} : pc'[s] = pc[s] /\ current'[s] = current[s]
      PROVE  FreshInv'
  <2> SUFFICES ASSUME NEW s \in Runs, NEW p \in Operation, Committed(s, p)'
               PROVE  Status(p)' # "stale" \/ Disturbed(s, p)'
    BY DEF FreshInv
  <2>1. CASE s # r
    <3>1. Committed(s, p) /\ disturbed'[s] = disturbed[s]
      BY <1>3, <2>1 DEF Reads
    <3> QED
      BY <1>3, <3>1 DEF FreshInv, Status
  <2>2. CASE s = r
    <3>1. \A q \in inFlight : q.run # r
      BY <1>3 DEF WaitingInv
    <3>2. pc'[r] = "write" /\ p = current'[r]
      BY <1>3, <2>2, <3>1
    <3> QED
      BY <1>3, <3>2 DEF Status
  <2> QED
    BY <2>1, <2>2
<1>4. ASSUME NEW r \in Runs, PreflightBatch(r) PROVE FreshInv'
  <2>1. PICK op \in selected[r] : Reads(r, op)
    BY <1>4 DEF PreflightBatch
  <2> QED
    BY <1>3, <1>4, <2>1 DEF PreflightBatch, github, loop
<1>5. ASSUME NEW r \in Runs, JustInTime(r) PROVE FreshInv'
  <2>1. PICK op \in todo[r] :
            /\ Reads(r, op)
            /\ \/ Status(op) = "noop" /\ UNCHANGED <<pc, current>>
               \/ Status(op) = "stale" /\ Goto(r, "fail") /\ UNCHANGED current
               \/ /\ Status(op) = "ready"
                  /\ current' = [current EXCEPT ![r] = op]
                  /\ Goto(r, "write")
    BY <1>5 DEF JustInTime
  <2>2. UNCHANGED <<issue, inFlight>> /\ pc[r] = "next"
    BY <1>5 DEF JustInTime, github
  <2>3. pc'[r] = "write" => current'[r] = op /\ Status(op) = "ready"
    BY <2>1, <2>2 DEF Goto
  <2>4. \A s \in Runs \ {r} : pc'[s] = pc[s] /\ current'[s] = current[s]
    BY <2>1 DEF Goto
  <2> QED
    BY <1>3, <2>1, <2>2, <2>3, <2>4
<1>6. ASSUME NEW r \in Runs, VerifyOperation(r) PROVE FreshInv'
  <2>1. /\ Reads(r, current[r])
        /\ UNCHANGED <<issue, inFlight>>
        /\ pc[r] = "verify"
        /\ pc'[r] # "write"
        /\ \A s \in Runs \ {r} : pc'[s] = pc[s] /\ current'[s] = current[s]
    BY <1>6 DEF VerifyOperation, Goto, github
  <2>2. current[r] \in Operation
    BY <2>1 DEF CurrentType
  <2> QED
    BY <1>3, <2>1, <2>2
(* Sending the request.                                                    *)
<1>7. ASSUME NEW r \in Runs, SendRequest(r) PROVE FreshInv'
  <2>1. /\ inFlight' = inFlight \cup {[run |-> r, op |-> current[r]]}
        /\ pc' = [pc EXCEPT ![r] = "sent"]
        /\ pc[r] = "write"
        /\ UNCHANGED <<issue, current, disturbed>>
    BY <1>7 DEF SendRequest, Goto
  <2>2. \A s \in Runs, p \in Operation : Committed(s, p)' => Committed(s, p)
    BY <2>1
  <2> QED
    BY <2>1, <2>2 DEF FreshInv, Status
(* The other steps read and send nothing.                                  *)
<1>8. ASSUME UNCHANGED <<issue, inFlight, disturbed, current>>,
             \A r \in Runs : pc'[r] = "write" => pc[r] = "write"
      PROVE  FreshInv'
  BY <1>8 DEF FreshInv, Status
<1>9. CASE MakePlan
  BY <1>8, <1>9 DEF MakePlan, github, loop
<1>10. CASE Approve
  BY <1>8, <1>10 DEF Approve, github, loop
<1>11. ASSUME NEW p \in Locks, RemoveStaleLock(p) PROVE FreshInv'
  BY <1>8, <1>11 DEF RemoveStaleLock, github, loop
<1>12. ASSUME NEW r \in Runs,
              LoadPlan(r) \/ LoadApproval(r) \/ PassGates(r) \/ AcquireLock(r)
       PROVE  FreshInv'
  BY <1>8, <1>12 DEF LoadPlan, LoadApproval, PassGates, AcquireLock, Finish, Goto, github, loop
<1>13. ASSUME NEW r \in Runs, ReceiveReply(r) \/ RequestTimesOut(r) \/ ReleaseLock(r)
       PROVE  FreshInv'
  BY <1>8, <1>13 DEF ReceiveReply, RequestTimesOut, ReleaseLock, Goto, github, loop
<1>14. ASSUME NEW r \in Runs, RecordSuccess(r) \/ RecordFailure(r) PROVE FreshInv'
  BY <1>8, <1>14 DEF RecordSuccess, RecordFailure, Goto, github, loop
<1>15. ASSUME NEW r \in Runs, AcquireRaises(r) \/ StepRaises(r) \/ Interrupt(r) \/ ReleaseRaises(r) \/ Crash(r)
       PROVE  FreshInv'
  BY <1>8, <1>15 DEF AcquireRaises, StepRaises, Interrupt, ReleaseRaises, Crash, Finish, Goto, github, loop
<1>16. CASE UNCHANGED vars
  BY <1>8, <1>16 DEF vars, github, loop
<1> QED
  BY <1>1, <1>2, <1>4, <1>5, <1>6, <1>7, <1>9, <1>10, <1>11, <1>12, <1>13, <1>14, <1>15, <1>16
     DEF Next, Run, Fault

-----------------------------------------------------------------------------
(* A request travels to an issue on which it would be stale only if        *)
(* somebody else changed the field or the issue's state after the run's    *)
(* just-in-time read.                                                      *)
THEOREM NeverWritesBlindly == Spec => []NoBlindWrite
<1>1. Init => WaitingInv /\ FreshInv
  BY DEF Init, WaitingInv, FreshInv, Committed
<1>2. TypeOK /\ WaitingInv /\ [Next]_vars => WaitingInv'
  BY WaitingStep
<1>3. TypeOK /\ WaitingInv /\ FreshInv /\ [Next]_vars => FreshInv'
  BY FreshStep
<1>4. TypeOK /\ FreshInv => NoBlindWrite
  <2> SUFFICES ASSUME TypeOK, FreshInv, NEW q \in inFlight, Status(q.op) = "stale"
               PROVE  {Field(q.op), StateField(q.op)} \cap disturbed[q.run] # {}
    BY DEF NoBlindWrite
  <2>1. q.run \in Runs /\ q.op \in Operation /\ q = [run |-> q.run, op |-> q.op]
    BY DEF TypeOK, WorldType, Request
  <2> QED
    BY <2>1 DEF FreshInv, Committed, Disturbed
<1> QED
  BY <1>1, <1>2, <1>3, <1>4, TypeCorrect, PTL DEF Spec

-----------------------------------------------------------------------------
(* What a completed receipt promises.  The operations of a plan are about  *)
(* different fields, so none undoes another.                               *)
Apart(operations) ==
    \A op1, op2 \in operations : Field(op1) = Field(op2) => op1 = op2

ApartInv ==
    /\ plan # NoPlan => Apart(plan.operations)
    /\ \A r \in Runs :
         /\ loaded[r] # NoPlan => Apart(loaded[r].operations)
         /\ pc[r] = "approval" => loaded[r] # NoPlan
         /\ Apart(selected[r])

(* Of two suggestions for one field the later is planned.                  *)
LEMMA PlannedApart ==
    ASSUME NEW X, NEW asked \in Seq(X), NEW live
    PROVE  Apart(PlannedOperations(asked, live))
<1> DEFINE Latest == {k \in Effective(asked, live) :
                        \A j \in Effective(asked, live) :
                            Field(asked[j]) = Field(asked[k]) => j <= k}
<1>1. Latest \subseteq Nat
  BY DEF Effective
<1>2. \A s, meta : Field(OperationFrom(s, meta)) = Field(s)
  BY DEF Field, OperationFrom
<1>3. \A j, k \in Latest : Field(asked[j]) = Field(asked[k]) => j = k
  BY <1>1
<1>4. \A op \in PlannedOperations(asked, live) :
        \E k \in Latest : op = OperationFrom(asked[k], live[asked[k].issue])
  BY DEF PlannedOperations
<1> QED
  BY <1>2, <1>3, <1>4 DEF Apart

LEMMA ApartStep ==
    ASSUME TypeOK, ApartInv, [Next]_vars
    PROVE  ApartInv'
<1> USE DEF TypeOK, RunType, ApartInv, github, files, inputs, loop
<1>1. CASE MakePlan
  <2>1. PICK asked \in Policies : plan'.operations = PlannedOperations(asked, issue)
    BY <1>1 DEF MakePlan
  <2>2. Apart(plan'.operations)
    BY <2>1, PlannedApart, ApplyAssumption
  <2> QED
    BY <1>1, <2>2 DEF MakePlan
<1>2. ASSUME NEW r \in Runs, LoadPlan(r) PROVE ApartInv'
  BY <1>2 DEF LoadPlan, Goto
<1>3. ASSUME NEW r \in Runs, LoadApproval(r) PROVE ApartInv'
  <2>1. ValidApproval(loaded[r], approval, args[r].sha, args[r].batch) =>
            Apart(Selected(approval, args[r].batch))
    BY <1>3 DEF LoadApproval, ValidApproval, Selected, Apart
  <2>2. Apart(selected'[r])
    BY <1>3, <2>1 DEF LoadApproval
  <2>3. /\ UNCHANGED <<plan, loaded>> /\ pc'[r] # "approval"
        /\ \A s \in Runs \ {r} : selected'[s] = selected[s] /\ pc'[s] = pc[s]
    BY <1>3 DEF LoadApproval, Goto, Finish
  <2> QED
    BY <2>2, <2>3
(* No other step touches a plan or a selection.                            *)
<1>4. ASSUME UNCHANGED <<plan, loaded, selected>>,
             \A r \in Runs : pc'[r] = "approval" => pc[r] = "approval"
      PROVE  ApartInv'
  BY <1>4
<1>5. CASE Approve \/ UNCHANGED vars
  BY <1>4, <1>5 DEF Approve, vars
<1>6. CASE \/ \E i \in Issues : PersonEdits(i)
           \/ \E q \in inFlight : ServeRequest(q)
           \/ \E p \in Locks : RemoveStaleLock(p)
  BY <1>4, <1>6 DEF PersonEdits, ServeRequest, RemoveStaleLock
<1>7. ASSUME NEW r \in Runs, PreflightBatch(r) \/ PassGates(r) \/ AcquireLock(r)
      PROVE  ApartInv'
  BY <1>4, <1>7 DEF PreflightBatch, PassGates, AcquireLock, Goto, Finish
<1>8. ASSUME NEW r \in Runs,
             JustInTime(r) \/ SendRequest(r) \/ ReceiveReply(r) \/ RequestTimesOut(r)
             \/ VerifyOperation(r)
      PROVE  ApartInv'
  BY <1>4, <1>8 DEF JustInTime, SendRequest, ReceiveReply, RequestTimesOut, VerifyOperation,
                    Goto
<1>9. ASSUME NEW r \in Runs, RecordSuccess(r) \/ RecordFailure(r) \/ ReleaseLock(r)
      PROVE  ApartInv'
  BY <1>4, <1>9 DEF RecordSuccess, RecordFailure, ReleaseLock, Goto
<1>10. ASSUME NEW r \in Runs, Fault(r) PROVE ApartInv'
  BY <1>4, <1>10 DEF Fault, AcquireRaises, StepRaises, Interrupt, ReleaseRaises, Crash, Goto, Finish
<1> QED
  BY <1>1, <1>2, <1>3, <1>5, <1>6, <1>7, <1>8, <1>9, <1>10 DEF Next, Run

(* The write loop has still to visit what it has not seen achieved.        *)
LoopInv ==
    /\ \A r \in Runs : \A op \in todo[r] : checks[r][op] = "ready"
    /\ \A q \in inFlight : q.op \in todo[q.run]
    /\ \A rc \in receipts :
         rc.status = "completed" => todo[rc.writer] = {} /\ BatchChecked(rc.writer)

LEMMA LoopStep ==
    ASSUME IInv, WaitingInv, LoopInv, [Next]_vars
    PROVE  LoopInv'
<1> USE DEF IInv, TypeOK, RunType, WorldType, ChecksType, Request, Receipt,
            LoopInv, github, files, inputs, loop
(* A run that has neither a request on its way nor a receipt.              *)
<1>1. ASSUME NEW r \in Runs, pc[r] \in Early \cup {"next", "write", "verify"}
      PROVE  /\ \A q \in inFlight : q.run # r
             /\ \A rc \in receipts : rc.writer # r
  BY <1>1 DEF WaitingInv, ReceiptInv, Early
<1>2. ASSUME NEW r \in Runs, pc[r] \in Early \cup {"next", "write", "verify"},
             UNCHANGED <<inFlight, receipts>>,
             \A op \in todo'[r] : checks'[r][op] = "ready",
             \A s \in Runs \ {r} :
                todo'[s] = todo[s] /\ checks'[s] = checks[s] /\ args'[s] = args[s]
                /\ selected'[s] = selected[s]
      PROVE  LoopInv'
  BY <1>1, <1>2 DEF BatchChecked
<1>3. ASSUME NEW r \in Runs, LoadPlan(r) PROVE LoopInv'
  BY <1>2, <1>3 DEF LoadPlan, Early
<1>4. ASSUME NEW r \in Runs, LoadApproval(r) PROVE LoopInv'
  <2>1. pc[r] = "approval" /\ todo'[r] = {} /\ UNCHANGED <<todo, args, inFlight, receipts>>
    BY <1>4 DEF LoadApproval, GateInv, Early
  <2>2. \A s \in Runs \ {r} : checks'[s] = checks[s] /\ selected'[s] = selected[s]
    BY <1>4 DEF LoadApproval
  <2> QED
    BY <1>2, <2>1, <2>2 DEF Early
<1>5. ASSUME NEW r \in Runs, PreflightBatch(r) PROVE LoopInv'
  <2>1. pc[r] = "preflight" /\ todo'[r] = {}
        /\ UNCHANGED <<todo, args, selected, inFlight, receipts>>
    BY <1>5 DEF PreflightBatch, GateInv, Early
  <2>2. \A s \in Runs \ {r} : checks'[s] = checks[s]
    BY <1>5 DEF PreflightBatch
  <2> QED
    BY <1>2, <2>1, <2>2 DEF Early
<1>6. ASSUME NEW r \in Runs, AcquireLock(r) PROVE LoopInv'
  <2>1. pc[r] = "lock" /\ UNCHANGED <<checks, args, selected, inFlight, receipts>>
    BY <1>6 DEF AcquireLock
  <2>2. \/ UNCHANGED todo
        \/ todo' = [todo EXCEPT ![r] = {op \in selected[r] : checks[r][op] = "ready"}]
    BY <1>6 DEF AcquireLock
  <2> QED
    BY <1>2, <2>1, <2>2 DEF Early
<1>7. ASSUME NEW r \in Runs, JustInTime(r) \/ VerifyOperation(r) PROVE LoopInv'
  <2>1. pc[r] \in {"next", "verify"} /\ UNCHANGED <<checks, args, selected, inFlight, receipts>>
    BY <1>7 DEF JustInTime, VerifyOperation
  <2>2. todo' = todo \/ \E op : todo' = [todo EXCEPT ![r] = @ \ {op}]
    BY <1>7 DEF JustInTime, VerifyOperation
  <2>3. todo'[r] \subseteq todo[r] /\ \A s \in Runs \ {r} : todo'[s] = todo[s]
    BY <2>2
  <2> QED
    BY <1>2, <2>1, <2>3
<1>8. ASSUME NEW r \in Runs, SendRequest(r) PROVE LoopInv'
  <2>1. current[r] \in todo[r]
    BY <1>8 DEF SendRequest, GateInv
  <2> QED
    BY <1>8, <2>1 DEF SendRequest, BatchChecked
<1>9. ASSUME NEW r \in Runs, RecordSuccess(r) \/ RecordFailure(r) PROVE LoopInv'
  <2>1. UNCHANGED <<todo, checks, args, selected, inFlight>>
    BY <1>9 DEF RecordSuccess, RecordFailure
  <2>2. \A rc \in receipts' :
          \/ rc \in receipts
          \/ rc.status # "completed"
          \/ rc.writer = r /\ todo[r] = {} /\ pc[r] = "next"
    BY <1>9 DEF RecordSuccess, RecordFailure, WriteReceipt
  <2>3. pc[r] = "next" => BatchChecked(r)
    BY DEF GateInv, Writing
  <2> QED
    BY <2>1, <2>2, <2>3 DEF BatchChecked
(* The other steps leave the loop, the gates and the receipts alone.       *)
<1>10. ASSUME UNCHANGED <<todo, checks, args, selected, receipts>>, inFlight' \subseteq inFlight
       PROVE  LoopInv'
  BY <1>10 DEF BatchChecked
<1>11. CASE MakePlan \/ Approve \/ UNCHANGED vars
  BY <1>10, <1>11 DEF MakePlan, Approve, vars
<1>12. CASE \/ \E i \in Issues : PersonEdits(i)
            \/ \E q \in inFlight : ServeRequest(q)
            \/ \E p \in Locks : RemoveStaleLock(p)
  BY <1>10, <1>12 DEF PersonEdits, ServeRequest, RemoveStaleLock
<1>13. ASSUME NEW r \in Runs,
              PassGates(r) \/ ReceiveReply(r) \/ RequestTimesOut(r) \/ ReleaseLock(r)
       PROVE  LoopInv'
  BY <1>10, <1>13 DEF PassGates, ReceiveReply, RequestTimesOut, ReleaseLock
<1>14. ASSUME NEW r \in Runs, Fault(r) PROVE LoopInv'
  BY <1>10, <1>14 DEF Fault, AcquireRaises, StepRaises, Interrupt, ReleaseRaises, Crash
<1> QED
  BY <1>3, <1>4, <1>5, <1>6, <1>7, <1>8, <1>9, <1>11, <1>12, <1>13, <1>14 DEF Next, Run

(* Operations a run is done with: it found them done, or has done them.    *)
Past(r) ==
    \/ pc[r] \in Writing
    \/ \E rc \in receipts : rc.writer = r /\ rc.status = "completed"

Settled(r, op) ==
    /\ op \in selected[r]
    /\ \/ checks[r][op] = "noop"
       \/ checks[r][op] = "ready" /\ Past(r) /\ op \notin todo[r]

SettledInv ==
    \A r \in Runs, op \in Operation :
        Settled(r, op) => Achieved(op, issue[op.issue]) \/ Field(op) \in disturbed[r]

(* Whether an operation is achieved depends on its field alone.            *)
LEMMA AchievedIsLocal ==
    ASSUME NEW op \in Operation, NEW old \in Metadata, NEW new \in Metadata,
           op.kind \in MilestoneKinds => new.milestone = old.milestone,
           op.kind \in LabelKinds => (op.value \in new.labels <=> op.value \in old.labels)
    PROVE  Achieved(op, new) <=> Achieved(op, old)
<1>1. CASE op.kind \in MilestoneKinds
  BY <1>1 DEF Achieved, MilestoneKinds
<1>2. CASE op.kind = "issue.labels.add"
  BY <1>2 DEF Achieved, MilestoneKinds, LabelKinds
<1>3. CASE op.kind = "issue.labels.remove"
  BY <1>3 DEF Achieved, MilestoneKinds, LabelKinds
<1> QED
  BY <1>1, <1>2, <1>3 DEF Operation, LabelKinds

LEMMA EditKeepsAchieved ==
    ASSUME NEW op \in Operation, NEW old \in Metadata, NEW new \in Metadata,
           Field(op) \notin {op.issue} \X ChangedFields(old, new)
    PROVE  Achieved(op, new) <=> Achieved(op, old)
<1>1. op.kind \in MilestoneKinds => new.milestone = old.milestone
  BY DEF Field, ChangedFields
<1>2. op.kind \in LabelKinds => (op.value \in new.labels <=> op.value \in old.labels)
  BY DEF Field, ChangedFields, MilestoneKinds, LabelKinds
<1> QED
  BY <1>1, <1>2, AchievedIsLocal

LEMMA EffectKeepsAchieved ==
    ASSUME NEW op \in Operation, NEW by \in Operation, NEW meta \in Metadata,
           by.issue = op.issue, Field(by) # Field(op)
    PROVE  Achieved(op, Effect(by, meta)) <=> Achieved(op, meta)
<1> DEFINE new == Effect(by, meta)
<1>1. new \in Metadata
  BY EffectType
<1>2. CASE by.kind \in MilestoneKinds
  <2>1. new = [meta EXCEPT !.milestone = by.value]
    BY <1>2 DEF Effect, MilestoneKinds
  <2>2. new.labels = meta.labels
    BY <2>1 DEF Metadata
  <2>3. op.kind \notin MilestoneKinds
    BY <1>2 DEF Field
  <2> QED
    BY <1>1, <2>2, <2>3, AchievedIsLocal
<1>3. CASE by.kind \in LabelKinds
  <2>1. \/ new = [meta EXCEPT !.labels = @ \cup {by.value}]
        \/ new = [meta EXCEPT !.labels = @ \ {by.value}]
    BY <1>3 DEF Effect, MilestoneKinds, LabelKinds
  <2>2. /\ new.milestone = meta.milestone
        /\ \A l : l # by.value => (l \in new.labels <=> l \in meta.labels)
    BY <2>1 DEF Metadata
  <2>3. op.kind \in LabelKinds => op.value # by.value
    BY <1>3 DEF Field, MilestoneKinds, LabelKinds
  <2> QED
    BY <1>1, <2>2, <2>3, AchievedIsLocal
<1> QED
  BY <1>2, <1>3 DEF Operation

LEMMA NoopIsAchieved ==
    ASSUME NEW op \in Operation, Status(op) = "noop"
    PROVE  Achieved(op, issue[op.issue])
BY DEF Status, Preflight

(* A label called "state" would be taken for the state of its issue.       *)
LEMMA StateIsNoField ==
    ASSUME NEW op \in Operation, NEW by \in Operation
    PROVE  StateField(by) # Field(op)
<1>1. CASE op.kind \in MilestoneKinds
  BY <1>1 DEF StateField, Field
<1>2. CASE op.kind \in LabelKinds
  BY <1>2, ApplyAssumption DEF StateField, Field, Operation, MilestoneKinds, LabelKinds
<1> QED
  BY <1>1, <1>2 DEF Operation

LEMMA SettledByOthers ==
    ASSUME IInv, WaitingInv, ApartInv, LoopInv, SettledInv,
           \/ \E i \in Issues : PersonEdits(i)
           \/ \E q \in inFlight : ServeRequest(q)
    PROVE  SettledInv'
<1> USE DEF IInv, TypeOK, RunType, WorldType, github, files, inputs, loop
<1>1. UNCHANGED <<pc, selected, checks, todo, receipts>>
  BY DEF PersonEdits, ServeRequest
<1> SUFFICES ASSUME NEW r \in Runs, NEW op \in Operation, Settled(r, op)
             PROVE  Achieved(op, issue'[op.issue]) \/ Field(op) \in disturbed'[r]
  BY <1>1 DEF SettledInv, Settled, Past
<1>2. /\ op \in selected[r] /\ op.issue \in Issues /\ op \notin todo[r]
      /\ pc[r] # "idle"
      /\ Achieved(op, issue[op.issue]) \/ Field(op) \in disturbed[r]
  BY DEF SettledInv, Settled, SelectionInv, Operation, LoopInv
<1>3. ASSUME NEW i \in Issues, PersonEdits(i)
      PROVE  Achieved(op, issue'[op.issue]) \/ Field(op) \in disturbed'[r]
  <2>1. PICK meta \in OneFieldEdits(issue[i]) :
            /\ issue' = [issue EXCEPT ![i] = meta]
            /\ Disturb({i} \X ChangedFields(issue[i], meta), {})
    BY <1>3 DEF PersonEdits
  <2>2. meta \in Metadata
    BY EditType
  <2>3. disturbed'[r] = disturbed[r] \cup ({i} \X ChangedFields(issue[i], meta))
    BY <1>2, <2>1 DEF Disturb
  <2>4. CASE op.issue # i
    BY <1>2, <2>1, <2>3, <2>4
  <2>5. CASE op.issue = i /\ Field(op) \in {i} \X ChangedFields(issue[i], meta)
    BY <2>3, <2>5
  <2>6. CASE op.issue = i /\ Field(op) \notin {i} \X ChangedFields(issue[i], meta)
    <3>1. issue'[op.issue] = meta
      BY <2>1, <2>6
    <3>2. Achieved(op, meta) <=> Achieved(op, issue[i])
      BY <2>2, <2>6, EditKeepsAchieved
    <3> QED
      BY <1>2, <2>3, <2>6, <3>1, <3>2
  <2> QED
    BY <2>4, <2>5, <2>6
<1>4. ASSUME NEW q \in inFlight, ServeRequest(q)
      PROVE  Achieved(op, issue'[op.issue]) \/ Field(op) \in disturbed'[r]
  <2>1. q.op \in Operation /\ q.run \in Runs /\ q.op.issue \in Issues
    BY DEF Request, Operation
  <2>2. CASE UNCHANGED <<issue, disturbed>>
    BY <1>2, <2>2
  <2>3. CASE UNCHANGED issue /\ Disturb({Field(q.op)}, {q.run})
    BY <1>2, <2>3 DEF Disturb
  <2>4. CASE /\ issue' = [issue EXCEPT ![q.op.issue] = Effect(q.op, issue[q.op.issue])]
             /\ disturbed' = disturbed \/ Disturb({Field(q.op)}, {q.run})
             /\ issue' # issue => Disturb({Field(q.op)}, {q.run})
    <3>1. disturbed[r] \subseteq disturbed'[r]
      BY <2>4 DEF Disturb
    <3>2. CASE q.run # r /\ Field(q.op) = Field(op)
      <4>1. issue' # issue => disturbed'[r] = disturbed[r] \cup {Field(op)}
        BY <1>2, <2>4, <3>2 DEF Disturb
      <4> QED
        BY <1>2, <3>1, <4>1
    <3>3. CASE op.issue # q.op.issue
      BY <1>2, <2>1, <2>4, <3>1, <3>3
    <3>4. CASE op.issue = q.op.issue /\ Field(q.op) # Field(op)
      <4>1. issue'[op.issue] = Effect(q.op, issue[op.issue])
        BY <2>1, <2>4, <3>4
      <4>2. Achieved(op, Effect(q.op, issue[op.issue])) <=> Achieved(op, issue[op.issue])
        BY <2>1, <3>4, EffectKeepsAchieved
      <4> QED
        BY <1>2, <3>1, <4>1, <4>2
    <3>5. q.run = r => Field(q.op) # Field(op)
      <4>1. q.run = r => q.op \in todo[r] /\ q.op \in selected[r]
        BY DEF LoopInv, GateInv
      <4> QED
        BY <1>2, <4>1 DEF ApartInv, Apart
    <3> QED
      BY <3>2, <3>3, <3>4, <3>5
  <2> QED
    BY <1>4, <2>2, <2>3, <2>4 DEF ServeRequest
<1> QED
  BY <1>3, <1>4

(* A run that reads one of its operations forgets only who disturbed it.   *)
LEMMA SettledByReading ==
    ASSUME IInv, ApartInv, SettledInv, UNCHANGED issue,
           NEW r \in Runs, NEW op \in selected[r], Reads(r, op), UNCHANGED selected,
           Settled(r, op)' => Status(op) = "noop",
           \A s \in Runs, p \in Operation :
              (s # r \/ p # op) /\ Settled(s, p)' => Settled(s, p)
    PROVE  SettledInv'
<1> USE DEF IInv, TypeOK, RunType
<1> SUFFICES ASSUME NEW s \in Runs, NEW p \in Operation, Settled(s, p)'
             PROVE  Achieved(p, issue[p.issue]) \/ Field(p) \in disturbed'[s]
  BY DEF SettledInv
<1>1. op \in Operation
  OBVIOUS
<1>2. CASE s = r /\ p = op
  BY <1>2, NoopIsAchieved
<1>3. CASE s = r /\ p # op
  <2>1. Field(p) # Field(op) /\ Field(p) # StateField(op)
    BY <1>1, <1>3, StateIsNoField DEF Settled, ApartInv, Apart
  <2> QED
    BY <1>3, <2>1 DEF Reads, SettledInv
<1>4. CASE s # r
  BY <1>4 DEF Reads, SettledInv
<1> QED
  BY <1>2, <1>3, <1>4

LEMMA SettledByLoop ==
    ASSUME IInv, ApartInv, LoopInv, SettledInv, NEW r \in Runs,
           PreflightBatch(r) \/ JustInTime(r) \/ VerifyOperation(r)
    PROVE  SettledInv'
<1> USE DEF IInv, TypeOK, RunType, ChecksType, github, files, inputs, loop
<1>1. CASE PreflightBatch(r)
  <2>1. PICK op \in selected[r] :
            checks' = [checks EXCEPT ![r][op] = Status(op)] /\ Reads(r, op)
    BY <1>1 DEF PreflightBatch
  <2>2. UNCHANGED <<issue, pc, selected, todo, receipts>> /\ pc[r] = "preflight"
    BY <1>1 DEF PreflightBatch
  <2>3. checks'[r][op] = Status(op)
    BY <2>1
  <2>4. ~ Past(r)
    BY <2>2 DEF Past, Writing, ReceiptInv
  <2>5. Settled(r, op)' => Status(op) = "noop"
    BY <2>2, <2>3, <2>4 DEF Settled, Past
  <2>6. \A s \in Runs, p \in Operation :
           (s # r \/ p # op) /\ p \in selected[s] => checks'[s][p] = checks[s][p]
    BY <2>1
  <2>7. \A s \in Runs, p \in Operation :
           (s # r \/ p # op) /\ Settled(s, p)' => Settled(s, p)
    BY <2>2, <2>6 DEF Settled, Past
  <2> QED
    BY <2>1, <2>2, <2>5, <2>7, SettledByReading
<1>2. CASE JustInTime(r)
  <2>1. PICK op \in todo[r] :
            /\ Reads(r, op)
            /\ \/ UNCHANGED todo
               \/ Status(op) = "noop" /\ todo' = [todo EXCEPT ![r] = @ \ {op}]
    BY <1>2 DEF JustInTime
  <2>2. UNCHANGED <<issue, selected, checks, receipts>> /\ op \in selected[r]
    BY <1>2, <2>1 DEF JustInTime, GateInv
  <2>3. Past(r) /\ \A s \in Runs : pc'[s] = pc[s] \/ s = r
    BY <1>2 DEF JustInTime, Goto, Past, Writing
  <2>4. checks[r][op] = "ready"
    BY DEF LoopInv
  <2>5. Settled(r, op)' => Status(op) = "noop"
    BY <2>1, <2>2, <2>4 DEF Settled
  <2>6. \A s \in Runs, p \in Operation :
           (s # r \/ p # op) /\ Settled(s, p)' => Settled(s, p)
    BY <2>1, <2>2, <2>3 DEF Settled, Past
  <2> QED
    BY <2>1, <2>2, <2>5, <2>6, SettledByReading
<1>3. CASE VerifyOperation(r)
  <2>1. PICK op \in todo[r] :
            /\ Reads(r, op)
            /\ \/ UNCHANGED todo
               \/ Status(op) = "noop" /\ todo' = [todo EXCEPT ![r] = @ \ {op}]
    BY <1>3 DEF VerifyOperation, GateInv
  <2>2. UNCHANGED <<issue, selected, checks, receipts>> /\ op \in selected[r]
    BY <1>3, <2>1 DEF VerifyOperation, GateInv
  <2>3. Past(r) /\ \A s \in Runs : pc'[s] = pc[s] \/ s = r
    BY <1>3 DEF VerifyOperation, Goto, Past, Writing
  <2>4. checks[r][op] = "ready"
    BY DEF LoopInv
  <2>5. Settled(r, op)' => Status(op) = "noop"
    BY <2>1, <2>2, <2>4 DEF Settled
  <2>6. \A s \in Runs, p \in Operation :
           (s # r \/ p # op) /\ Settled(s, p)' => Settled(s, p)
    BY <2>1, <2>2, <2>3 DEF Settled, Past
  <2> QED
    BY <2>1, <2>2, <2>5, <2>6, SettledByReading
<1> QED
  BY <1>1, <1>2, <1>3

LEMMA SettledStep ==
    ASSUME IInv, WaitingInv, ApartInv, LoopInv, SettledInv, [Next]_vars
    PROVE  SettledInv'
<1> USE DEF IInv, TypeOK, RunType, ChecksType, github, files, inputs, loop
(* The rest leaves the issues alone, and settles nothing.                  *)
<1>1. ASSUME UNCHANGED <<issue, disturbed>>,
             \A r \in Runs, op \in Operation : Settled(r, op)' => Settled(r, op)
      PROVE  SettledInv'
  BY <1>1 DEF SettledInv
<1>2. ASSUME UNCHANGED <<issue, disturbed, selected, checks, todo, receipts>>,
             \A r \in Runs : pc'[r] \in Writing => pc[r] \in Writing
      PROVE  SettledInv'
  <2>1. \A r \in Runs, op \in Operation : Settled(r, op)' => Settled(r, op)
    BY <1>2 DEF Settled, Past
  <2> QED
    BY <1>1, <1>2, <2>1
<1>3. CASE MakePlan \/ Approve \/ UNCHANGED vars
  BY <1>2, <1>3 DEF MakePlan, Approve, vars
<1>4. CASE \E p \in Locks : RemoveStaleLock(p)
  BY <1>2, <1>4 DEF RemoveStaleLock
<1>5. ASSUME NEW r \in Runs, LoadPlan(r) \/ PassGates(r) PROVE SettledInv'
  <2>1. UNCHANGED <<issue, disturbed, selected, checks, todo, receipts>>
    BY <1>5 DEF LoadPlan, PassGates
  <2>2. \A s \in Runs : pc'[s] \in Writing => pc[s] \in Writing
    BY <1>5 DEF LoadPlan, PassGates, Goto, Finish, Writing
  <2> QED
    BY <1>2, <2>1, <2>2
<1>6. ASSUME NEW r \in Runs, LoadApproval(r) PROVE SettledInv'
  <2>1. /\ UNCHANGED <<issue, disturbed, todo, receipts>>
        /\ \A s \in Runs : pc'[s] \in Writing => pc[s] \in Writing
        /\ \A s \in Runs \ {r} : selected'[s] = selected[s] /\ checks'[s] = checks[s]
    BY <1>6 DEF LoadApproval, Goto, Finish, Writing
  <2>2. \/ selected'[r] = selected[r] /\ checks'[r] = checks[r]
        \/ \A op \in selected'[r] : checks'[r][op] = "unread"
    BY <1>6 DEF LoadApproval
  <2>3. \A s \in Runs, op \in Operation : Settled(s, op)' => Settled(s, op)
    BY <2>1, <2>2 DEF Settled, Past
  <2> QED
    BY <1>1, <2>1, <2>3
<1>7. ASSUME NEW r \in Runs, AcquireLock(r) PROVE SettledInv'
  <2>1. /\ UNCHANGED <<issue, disturbed, selected, checks, receipts>>
        /\ \A s \in Runs \ {r} : todo'[s] = todo[s] /\ pc'[s] = pc[s]
    BY <1>7 DEF AcquireLock, Goto, Finish
  <2>2. \/ pc'[r] \notin Writing /\ todo'[r] = todo[r]
        \/ \A op \in selected[r] : checks[r][op] = "ready" => op \in todo'[r]
    BY <1>7 DEF AcquireLock, Goto, Finish, Writing
  <2>3. \A s \in Runs, op \in Operation : Settled(s, op)' => Settled(s, op)
    BY <2>1, <2>2 DEF Settled, Past
  <2> QED
    BY <1>1, <2>1, <2>3
<1>8. ASSUME NEW r \in Runs, SendRequest(r) \/ ReceiveReply(r) \/ RequestTimesOut(r)
                             \/ ReleaseLock(r) \/ Fault(r)
      PROVE  SettledInv'
  <2>1. UNCHANGED <<issue, disturbed, selected, checks, todo, receipts>>
    BY <1>8 DEF SendRequest, ReceiveReply, RequestTimesOut, ReleaseLock, Fault, AcquireRaises,
                StepRaises, Interrupt, ReleaseRaises, Crash
  <2>2. \A s \in Runs : pc'[s] \in Writing => pc[s] \in Writing
    <3>1. CASE SendRequest(r) \/ ReceiveReply(r) \/ RequestTimesOut(r) \/ ReleaseLock(r)
      BY <3>1 DEF SendRequest, ReceiveReply, RequestTimesOut, ReleaseLock, Goto, Writing
    <3>2. CASE Fault(r)
      BY <3>2 DEF Fault, AcquireRaises, StepRaises, Interrupt, ReleaseRaises, Crash, Goto, Finish, Writing
    <3> QED
      BY <1>8, <3>1, <3>2
  <2> QED
    BY <1>2, <2>1, <2>2
<1>9. ASSUME NEW r \in Runs, RecordSuccess(r) \/ RecordFailure(r) PROVE SettledInv'
  <2>1. UNCHANGED <<issue, disturbed, selected, checks, todo>>
    BY <1>9 DEF RecordSuccess, RecordFailure
  <2>2. /\ pc[r] \in Writing
        /\ \A s \in Runs \ {r} : pc'[s] = pc[s]
    BY <1>9 DEF RecordSuccess, RecordFailure, Goto, Writing
  <2>3. \A rc \in receipts' : rc \in receipts \/ rc.writer = r
    BY <1>9 DEF RecordSuccess, RecordFailure, WriteReceipt
  <2>4. \A s \in Runs : Past(s)' => Past(s)
    BY <2>2, <2>3 DEF Past
  <2>5. \A s \in Runs, op \in Operation : Settled(s, op)' => Settled(s, op)
    BY <2>1, <2>4 DEF Settled
  <2> QED
    BY <1>1, <2>1, <2>5
<1> QED
  BY <1>3, <1>4, <1>5, <1>6, <1>7, <1>8, <1>9, SettledByOthers, SettledByLoop DEF Next, Run

(* After a completed receipt every selected operation, executed or skipped *)
(* as a noop, is in its desired state, unless somebody else changed its    *)
(* field after the run last read it.                                       *)
THEOREM CompletedIsAchieved == Spec => []CompletedMeansAchieved
<1>1. Init => WaitingInv /\ ApartInv /\ LoopInv /\ SettledInv
  BY DEF Init, WaitingInv, ApartInv, Apart, LoopInv, SettledInv, Settled
<1>2. IInv /\ WaitingInv /\ [Next]_vars => WaitingInv'
  BY WaitingStep DEF IInv
<1>3. IInv /\ ApartInv /\ [Next]_vars => ApartInv'
  BY ApartStep DEF IInv
<1>4. IInv /\ WaitingInv /\ LoopInv /\ [Next]_vars => LoopInv'
  BY LoopStep
<1>5. IInv /\ WaitingInv /\ ApartInv /\ LoopInv /\ SettledInv /\ [Next]_vars => SettledInv'
  BY SettledStep
<1>6. IInv /\ LoopInv /\ SettledInv => CompletedMeansAchieved
  <2> SUFFICES ASSUME IInv, LoopInv, SettledInv,
                      NEW rc \in receipts, rc.status = "completed",
                      NEW op \in selected[rc.writer]
               PROVE  Achieved(op, issue[op.issue]) \/ Field(op) \in disturbed[rc.writer]
    BY DEF CompletedMeansAchieved
  <2>1. rc.writer \in Runs /\ op \in Operation
    BY DEF IInv, TypeOK, WorldType, RunType, Receipt
  <2>2. Settled(rc.writer, op)
    BY <2>1 DEF LoopInv, BatchChecked, Settled, Past
  <2> QED
    BY <2>1, <2>2 DEF SettledInv
<1> QED
  BY <1>1, <1>2, <1>3, <1>4, <1>5, <1>6, Invariance, PTL DEF Spec

-----------------------------------------------------------------------------
(* Plans made of the tracker.                                              *)

(* A sequence made of a finite set has the elements of the set.            *)
LEMMA SetToSeqElements ==
    ASSUME NEW S, IsFiniteSet(S)
    PROVE  /\ SetToSeq(S) \in Seq(S)
           /\ \A x \in S : \E k \in 1 .. Len(SetToSeq(S)) : SetToSeq(S)[k] = x
<1>1. PICK n \in Nat : n = Cardinality(S)
  BY FS_CardinalityType
<1>2. ExistsBijection(1 .. n, S)
  BY <1>1, FS_CardinalityType
<1>3. \E f \in [1 .. n -> S] : IsInjective(f)
  BY <1>2 DEF ExistsBijection, Bijection, Injection
<1>4. SetToSeq(S) = CHOOSE f \in [1 .. n -> S] : IsInjective(f)
  BY <1>1, Zenon DEF SetToSeq
<1>5. PICK g : g = SetToSeq(S)
  OBVIOUS
<1>6. g \in [1 .. n -> S] /\ IsInjective(g)
  BY <1>3, <1>4, <1>5, Zenon
<1>7. g \in Injection(1 .. n, S)
  BY <1>6, Zenon DEF Injection
<1>8. Cardinality(1 .. n) = n
  <2>1. 1 \in Int /\ n \in Int
    OBVIOUS
  <2>2. Cardinality(1 .. n) = IF 1 > n THEN 0 ELSE n - 1 + 1
    BY <2>1, FS_Interval, Zenon
  <2> QED
    BY <2>2
<1>9. g \in Surjection(1 .. n, S)
  BY <1>1, <1>7, <1>8, FS_Injection
<1>10. g \in Seq(S) /\ Len(g) = n
  BY <1>6
<1>11. \A x \in S : \E k \in 1 .. n : g[k] = x
  BY <1>9 DEF Surjection
<1> QED
  BY <1>5, <1>10, <1>11

Sound(o) ==
    /\ o.issue \in Issues
    /\ \/ o.kind \in MilestoneKinds /\ o.value \in MaybeMilestone
       \/ o.kind \in LabelKinds /\ o.value \in Labels

Matches(o, w) == o.kind = w.kind /\ o.issue = w.issue /\ o.value = w.value

Wishes(p, t) == AuditSuggestions(p, Bare(t)) \cup DesiredSuggestions(p)

Firm(p, t) ==
    AlignSuggestions(p, Bare(t)) \cup ReleaseSuggestions(p, Bare(t)) \cup DesiredSuggestions(p)

Dealt(s, t, ops) ==
    Achieved(s, t.meta[s.issue]) \/ \E o \in ops : Field(o) = Field(s)

(* What the desired entries of the policy name exists on GitHub.           *)
DesiredExist(p) ==
    \A i \in Issues : /\ \A n \in p.desired[i].add : LiveName[n] # NoLabel
                      /\ p.desired[i].milestone \in MaybeMilestone \cup {Unset}

-----------------------------------------------------------------------------
(* A tracker without its labels and milestones.                            *)
LEMMA BareFacts ==
    ASSUME NEW p, NEW t \in Tracker
    PROVE  /\ Bare(t) \in Tracker
           /\ Open(Bare(t)) = Open(t)
           /\ ReleaseIssues(p, Bare(t)) = ReleaseIssues(p, t)
           /\ \A i \in Issues : /\ Inferred(p, Bare(t), i) = Inferred(p, t, i)
                                /\ Bare(t).meta[i].labels = {}
                                /\ Bare(t).meta[i].milestone = NoMilestone
<1> DEFINE bare == [i \in Issues |->
                      [t.meta[i] EXCEPT !.labels = {}, !.milestone = NoMilestone]]
<1>1. /\ t.meta \in [Issues -> Metadata] /\ t.title \in [Issues -> Titles]
      /\ t.body \in [Issues -> Bodies] /\ t = [meta |-> t.meta, title |-> t.title, body |-> t.body]
  BY DEF Tracker
<1>2. Bare(t) = [meta |-> bare, title |-> t.title, body |-> t.body]
  <2>1. Bare(t) = [t EXCEPT !.meta = bare]
    BY Zenon DEF Bare
  <2> HIDE DEF bare
  <2> QED
    BY <1>1, <2>1
<1>3. \A i \in Issues : /\ bare[i] \in Metadata
                        /\ bare[i].labels = {} /\ bare[i].milestone = NoMilestone
                        /\ bare[i].state = t.meta[i].state
  <2> SUFFICES ASSUME NEW i \in Issues
               PROVE  /\ bare[i] \in Metadata
                      /\ bare[i].labels = {} /\ bare[i].milestone = NoMilestone
                      /\ bare[i].state = t.meta[i].state
    OBVIOUS
  <2>1. bare[i] = [t.meta[i] EXCEPT !.labels = {}, !.milestone = NoMilestone]
    OBVIOUS
  <2>2. PICK m \in Metadata : m = t.meta[i]
    BY <1>1
  <2> HIDE DEF bare
  <2> QED
    BY <2>1, <2>2 DEF Metadata, MaybeMilestone
<1>4. bare \in [Issues -> Metadata]
  <2>1. \A i \in Issues : bare[i] \in Metadata
    BY <1>3
  <2> QED
    BY <2>1
<1> HIDE DEF bare
<1>5. /\ Bare(t).meta = bare /\ Bare(t).title = t.title /\ Bare(t).body = t.body
  BY <1>2
<1>6. Bare(t) \in Tracker
  BY <1>1, <1>2, <1>4 DEF Tracker
<1>7. Open(Bare(t)) = Open(t)
  BY <1>3, <1>5 DEF Open
<1>8. ReleaseIssues(p, Bare(t)) = ReleaseIssues(p, t)
  <2>1. Seeds(p, Bare(t)) = Seeds(p, t)
    BY <1>5, Zenon DEF Seeds
  <2> QED
    BY <2>1, <1>5, <1>7, Zenon DEF ReleaseIssues
<1>9. \A i \in Issues : Inferred(p, Bare(t), i) = Inferred(p, t, i)
  BY <1>5 DEF Inferred
<1> QED
  BY <1>3, <1>5, <1>6, <1>7, <1>8, <1>9

LEMMA OpenIssues ==
    ASSUME NEW p, NEW t
    PROVE  Open(t) \subseteq Issues /\ ReleaseIssues(p, t) \subseteq Open(t)
BY DEF Open, ReleaseIssues, Graph!Gate

(* What the audit suggests, and what it is suggested for.                  *)
LEMMA AuditAsks ==
    ASSUME NEW p \in Policy, NEW t \in Tracker, NEW s \in AuditSuggestions(p, t)
    PROVE  Sound(s) /\ s.kind \in {"issue.labels.add", "issue.milestone.set"}
<1>1. \A i \in Issues : Inferred(p, t, i) \in Names \cup {NoLabel}
  BY DEF Policy, Tracker, Inferred
<1>2. \A n \in Names : LiveName[n] # NoLabel => Spelled(n) \in Labels
  BY LabelAssumption DEF Spelled
<1>3. CASE s \in AlignSuggestions(p, t)
  <2>1. PICK i \in Misaligned(p, t) : /\ LiveName[Inferred(p, t, i)] # NoLabel
                                      /\ s = AddLabel(i, Inferred(p, t, i), p.batch[i])
    BY <1>3 DEF AlignSuggestions
  <2>2. i \in Issues /\ Inferred(p, t, i) \in Names
    BY <2>1, <1>1, OpenIssues DEF Misaligned
  <2> QED
    BY <2>1, <2>2, <1>2 DEF AddLabel, Sound, LabelKinds
<1>4. CASE s \in TypeSuggestions(p, t)
  <2>1. PICK i \in Mistyped(p, t) : /\ LiveName[Inferred(p, t, i)] # NoLabel
                                    /\ Inferred(p, t, i) \in p.types
                                    /\ s = AddLabel(i, Inferred(p, t, i), p.batch[i])
    BY <1>4 DEF TypeSuggestions
  <2>2. i \in Issues /\ Inferred(p, t, i) \in Names
    BY <2>1, OpenIssues DEF Mistyped, Policy
  <2> QED
    BY <2>1, <2>2, <1>2 DEF AddLabel, Sound, LabelKinds
<1>5. CASE s \in ReleaseSuggestions(p, t)
  <2>1. PICK i \in Unscheduled(p, t) : s = SetMilestone(i, p.release.milestone, p.batch[i])
    BY <1>5 DEF ReleaseSuggestions
  <2>2. i \in Issues /\ p.release.milestone \in Milestones
    BY <2>1, OpenIssues DEF Unscheduled
  <2>3. p.release.milestone # NoMilestone
    BY <2>2, NoMilestoneAssumption
  <2> QED
    BY <2>1, <2>2, <2>3 DEF SetMilestone, Sound, MilestoneKinds, MaybeMilestone
<1> QED
  BY <1>3, <1>4, <1>5 DEF AuditSuggestions

(* What the policy's maintainer desires can be planned when it exists.     *)
LEMMA DesiredAsks ==
    ASSUME NEW p \in Policy, NEW s \in DesiredSuggestions(p)
    PROVE  /\ s.issue \in Issues
           /\ DesiredExist(p) => Sound(s)
           /\ s.kind = "issue.labels.remove" =>
                \E n \in p.desired[s.issue].remove : Spelled(n) = s.value
<1>1. PICK i \in Issues :
         \/ \E n \in p.desired[i].add : s = AddLabel(i, n, p.desired[i].batch)
         \/ \E n \in p.desired[i].remove :
               LiveName[n] # NoLabel /\ s = RemoveLabel(i, n, p.desired[i].batch)
         \/ /\ p.desired[i].milestone # Unset
            /\ s = SetMilestone(i, p.desired[i].milestone, p.desired[i].batch)
  BY DEF DesiredSuggestions
<1>2. p.desired[i].add \subseteq Names /\ p.desired[i].remove \subseteq Names
  BY DEF Policy
<1>3. ASSUME NEW n \in p.desired[i].add, s = AddLabel(i, n, p.desired[i].batch)
      PROVE  /\ s.issue \in Issues /\ s.kind = "issue.labels.add"
             /\ DesiredExist(p) => Sound(s)
  BY <1>2, <1>3, LabelAssumption DEF AddLabel, Sound, LabelKinds, DesiredExist, Spelled
<1>4. ASSUME NEW n \in p.desired[i].remove, LiveName[n] # NoLabel,
             s = RemoveLabel(i, n, p.desired[i].batch)
      PROVE  s.issue = i /\ s.kind = "issue.labels.remove" /\ Sound(s) /\ Spelled(n) = s.value
  BY <1>2, <1>4, LabelAssumption DEF RemoveLabel, Sound, LabelKinds, Spelled
<1>5. ASSUME p.desired[i].milestone # Unset,
             s = SetMilestone(i, p.desired[i].milestone, p.desired[i].batch)
      PROVE  /\ s.issue \in Issues /\ s.kind # "issue.labels.remove"
             /\ DesiredExist(p) => Sound(s)
  BY <1>5 DEF SetMilestone, Sound, MilestoneKinds, DesiredExist
<1> QED
  BY <1>1, <1>3, <1>4, <1>5

(* Of a wish the audit leaves out only what already holds, or a type for   *)
(* an issue that has one.                                                  *)
LEMMA BareAsksMore ==
    ASSUME NEW p \in Policy, NEW t \in Tracker
    PROVE  /\ AlignSuggestions(p, t) \subseteq AlignSuggestions(p, Bare(t))
           /\ TypeSuggestions(p, t) \subseteq TypeSuggestions(p, Bare(t))
           /\ ReleaseSuggestions(p, t) \subseteq ReleaseSuggestions(p, Bare(t))
           /\ \A s \in AlignSuggestions(p, Bare(t)) :
                 s \in AlignSuggestions(p, t) \/ Achieved(s, t.meta[s.issue])
           /\ \A s \in ReleaseSuggestions(p, Bare(t)) :
                 s \in ReleaseSuggestions(p, t) \/ Achieved(s, t.meta[s.issue])
<1> PICK u : u = Bare(t)
  OBVIOUS
<1>1. /\ u \in Tracker /\ Open(u) = Open(t) /\ ReleaseIssues(p, u) = ReleaseIssues(p, t)
      /\ Open(t) \subseteq Issues /\ ReleaseIssues(p, t) \subseteq Issues
      /\ \A i \in Issues : /\ Inferred(p, u, i) = Inferred(p, t, i)
                           /\ u.meta[i].labels = {} /\ u.meta[i].milestone = NoMilestone
  BY BareFacts, OpenIssues
<1>2. Misaligned(p, t) \subseteq Misaligned(p, u)
  BY <1>1 DEF Misaligned, Live
<1>3. AlignSuggestions(p, t) \subseteq AlignSuggestions(p, u)
  <2> SUFFICES ASSUME NEW i \in Misaligned(p, t), LiveName[Inferred(p, t, i)] # NoLabel
               PROVE  AddLabel(i, Inferred(p, t, i), p.batch[i]) \in AlignSuggestions(p, u)
    BY DEF AlignSuggestions
  <2>1. i \in Issues /\ i \in Misaligned(p, u)
    BY <1>1, <1>2 DEF Misaligned
  <2> QED
    BY <1>1, <2>1 DEF AlignSuggestions
<1>4. TypeSuggestions(p, t) \subseteq TypeSuggestions(p, u)
  <2> SUFFICES ASSUME NEW i \in Mistyped(p, t), TypesPresent(p, t, i) = {},
                      Inferred(p, t, i) \in p.types, LiveName[Inferred(p, t, i)] # NoLabel
               PROVE  AddLabel(i, Inferred(p, t, i), p.batch[i]) \in TypeSuggestions(p, u)
    BY DEF TypeSuggestions
  <2>1. i \in Issues /\ i \in Open(t) /\ p.oneType /\ Cardinality({}) # 1
    BY <1>1, FS_EmptySet DEF Mistyped
  <2>2. TypesPresent(p, u, i) = {}
    BY <1>1, <2>1 DEF TypesPresent, Live
  <2>3. i \in Mistyped(p, u)
    BY <1>1, <2>1, <2>2 DEF Mistyped
  <2> QED
    BY <1>1, <2>1, <2>2, <2>3 DEF TypeSuggestions
<1>5. Unscheduled(p, t) \subseteq Unscheduled(p, u)
  BY <1>1, NoMilestoneAssumption DEF Unscheduled, Live
<1>6. ReleaseSuggestions(p, t) \subseteq ReleaseSuggestions(p, u)
  BY <1>5 DEF ReleaseSuggestions
<1>7. ASSUME NEW s \in AlignSuggestions(p, u), s \notin AlignSuggestions(p, t)
      PROVE  Achieved(s, t.meta[s.issue])
  <2>1. PICK i \in Misaligned(p, u) : /\ LiveName[Inferred(p, u, i)] # NoLabel
                                      /\ s = AddLabel(i, Inferred(p, u, i), p.batch[i])
    BY <1>7 DEF AlignSuggestions
  <2>2. i \in Issues /\ i \in Open(t) /\ p.align /\ Inferred(p, t, i) # NoLabel
    BY <1>1, <2>1 DEF Misaligned
  <2>3. i \notin Misaligned(p, t)
    BY <1>1, <1>7, <2>1, <2>2 DEF AlignSuggestions
  <2>4. Inferred(p, t, i) \in t.meta[i].labels
    BY <2>2, <2>3 DEF Misaligned, Live
  <2>5. Inferred(p, t, i) \in Labels
    BY <2>2, <2>4 DEF Tracker, Metadata
  <2>6. Inferred(p, t, i) \in Names
    BY <2>2 DEF Policy, Tracker, Inferred
  <2>7. Spelled(Inferred(p, t, i)) = Inferred(p, t, i)
    BY <2>5, <2>6, LabelAssumption DEF Spelled
  <2>8. s.kind = "issue.labels.add" /\ s.issue = i /\ s.value = Inferred(p, t, i)
    BY <1>1, <2>1, <2>2, <2>7 DEF AddLabel
  <2> QED
    BY <2>4, <2>8 DEF Achieved, MilestoneKinds
<1>8. ASSUME NEW s \in ReleaseSuggestions(p, u), s \notin ReleaseSuggestions(p, t)
      PROVE  Achieved(s, t.meta[s.issue])
  <2>1. PICK i \in Unscheduled(p, u) : s = SetMilestone(i, p.release.milestone, p.batch[i])
    BY <1>8 DEF ReleaseSuggestions
  <2>2. i \notin Unscheduled(p, t)
    BY <1>8, <2>1 DEF ReleaseSuggestions
  <2>3. i \in Issues /\ t.meta[i].milestone = p.release.milestone
    BY <1>1, <2>1, <2>2 DEF Unscheduled, Live
  <2>4. s.kind \in MilestoneKinds /\ s.issue = i /\ s.value = p.release.milestone
    BY <2>1 DEF SetMilestone, MilestoneKinds
  <2> QED
    BY <2>3, <2>4 DEF Achieved, MilestoneKinds
<1> QED
  BY <1>3, <1>4, <1>6, <1>7, <1>8

(* There are finitely many suggestions.                                    *)
LEMMA SuggestionsAreFinite ==
    ASSUME NEW p \in Policy, NEW t \in Tracker
    PROVE  IsFiniteSet(AuditSuggestions(p, t)) /\ IsFiniteSet(DesiredSuggestions(p))
<1>1. IsFiniteSet(Issues) /\ IsFiniteSet(Names)
  BY AuditAssumption
<1>2. ASSUME NEW I, I \subseteq Issues, NEW f PROVE IsFiniteSet({f[i] : i \in I})
  <2>1. IsFiniteSet(I)
    BY <1>1, <1>2, FS_Subset
  <2>2. [i \in I |-> f[i]] \in Surjection(I, {f[i] : i \in I})
    BY DEF Surjection
  <2> QED
    BY <2>1, <2>2, FS_Surjection
<1>3. IsFiniteSet(AuditSuggestions(p, t))
  <2> DEFINE f == [i \in Issues |-> AddLabel(i, Inferred(p, t, i), p.batch[i])]
             g == [i \in Issues |-> SetMilestone(i, p.release.milestone, p.batch[i])]
             A == {f[i] : i \in Issues}
             B == {g[i] : i \in Issues}
  <2>1. IsFiniteSet(A) /\ IsFiniteSet(B)
    <3> HIDE DEF f, g
    <3> QED
      BY <1>2
  <2>2. AlignSuggestions(p, t) \subseteq A /\ TypeSuggestions(p, t) \subseteq A
    BY OpenIssues DEF AlignSuggestions, TypeSuggestions, Misaligned, Mistyped
  <2>3. ReleaseSuggestions(p, t) \subseteq B
    BY OpenIssues DEF ReleaseSuggestions, Unscheduled
  <2>4. IsFiniteSet(A \cup B)
    <3> HIDE DEF A, B
    <3> QED
      BY <2>1, FS_Union
  <2>5. AuditSuggestions(p, t) \subseteq A \cup B
    <3> HIDE DEF A, B
    <3> QED
      BY <2>2, <2>3 DEF AuditSuggestions
  <2> HIDE DEF A, B
  <2> QED
    BY <2>4, <2>5, FS_Subset
<1>4. IsFiniteSet(DesiredSuggestions(p))
  <2> DEFINE N == Names
             add == [c \in Issues \X Names |-> AddLabel(c[1], c[2], p.desired[c[1]].batch)]
             remove == [c \in Issues \X Names |-> RemoveLabel(c[1], c[2], p.desired[c[1]].batch)]
             set == [i \in Issues |-> SetMilestone(i, p.desired[i].milestone, p.desired[i].batch)]
             A == {add[c] : c \in Issues \X Names}
             B == {remove[c] : c \in Issues \X Names}
             C == {set[i] : i \in Issues}
  <2>1. IsFiniteSet(Issues \X Names)
    BY <1>1, FS_Product
  <2>2. ASSUME NEW f PROVE IsFiniteSet({f[c] : c \in Issues \X Names})
    <3>1. [c \in Issues \X Names |-> f[c]] \in Surjection(Issues \X Names, {f[c] : c \in Issues \X Names})
      BY DEF Surjection
    <3> QED
      BY <2>1, <3>1, FS_Surjection
  <2>3. IsFiniteSet(A) /\ IsFiniteSet(B) /\ IsFiniteSet(C)
    <3> HIDE DEF add, remove, set
    <3> QED
      BY <1>2, <2>2
  <2>4. DesiredSuggestions(p) \subseteq A \cup B \cup C
    <3> SUFFICES ASSUME NEW s \in DesiredSuggestions(p) PROVE s \in A \cup B \cup C
      OBVIOUS
    <3>1. PICK i \in Issues :
             \/ \E n \in p.desired[i].add : s = AddLabel(i, n, p.desired[i].batch)
             \/ \E n \in p.desired[i].remove : s = RemoveLabel(i, n, p.desired[i].batch)
             \/ s = SetMilestone(i, p.desired[i].milestone, p.desired[i].batch)
      BY DEF DesiredSuggestions
    <3>2. p.desired[i].add \subseteq Names /\ p.desired[i].remove \subseteq Names
      BY DEF Policy
    <3>3. ASSUME NEW n \in Names
          PROVE  /\ AddLabel(i, n, p.desired[i].batch) \in A
                 /\ RemoveLabel(i, n, p.desired[i].batch) \in B
      <4>1. <<i, n>> \in Issues \X Names
        OBVIOUS
      <4>2. /\ add[<<i, n>>] = AddLabel(i, n, p.desired[i].batch)
            /\ remove[<<i, n>>] = RemoveLabel(i, n, p.desired[i].batch)
        BY <4>1
      <4> HIDE DEF add, remove
      <4> QED
        BY <4>1, <4>2
    <3>4. SetMilestone(i, p.desired[i].milestone, p.desired[i].batch) \in C
      OBVIOUS
    <3> HIDE DEF A, B, C
    <3> QED
      BY <3>1, <3>2, <3>3, <3>4
  <2> HIDE DEF A, B, C
  <2>5. IsFiniteSet(A \cup B \cup C)
    BY <2>3, FS_Union
  <2> QED
    BY <2>4, <2>5, FS_Subset
<1> QED
  BY <1>3, <1>4

(* For each field that a suggestion would change there is one operation.   *)
IsPlanned(s, asked, live) ==
    \/ Achieved(s, live[s.issue])
    \/ \E o \in PlannedOperations(asked, live) : Field(o) = Field(s)

LEMMA PlannedForEach ==
    ASSUME NEW X, NEW asked \in Seq(X), NEW live, NEW k \in 1 .. Len(asked)
    PROVE  IsPlanned(asked[k], asked, live)
<1> SUFFICES ASSUME ~ Achieved(asked[k], live[asked[k].issue])
             PROVE  \E o \in PlannedOperations(asked, live) : Field(o) = Field(asked[k])
  BY DEF IsPlanned
<1> DEFINE Same == {j \in Effective(asked, live) : Field(asked[j]) = Field(asked[k])}
<1>1. k \in Effective(asked, live) /\ Effective(asked, live) \subseteq 1 .. Len(asked)
  BY DEF Effective
<1>2. PICK n \in Nat : n = Len(asked)
  OBVIOUS
<1>3. Same # {} /\ Same \subseteq 0 .. n
  BY <1>1, <1>2
<1>4. PICK g \in Same : \A j \in Same : j <= g
  <2> HIDE DEF Same
  <2> QED
    BY <1>3, GreatestElement
<1>5. OperationFrom(asked[g], live[asked[g].issue]) \in PlannedOperations(asked, live)
  BY <1>4 DEF PlannedOperations
<1>6. Field(OperationFrom(asked[g], live[asked[g].issue])) = Field(asked[k])
  BY <1>4 DEF Field, OperationFrom
<1> QED
  BY <1>5, <1>6

LEMMA SuggestionsAre ==
    ASSUME NEW p \in Policy, NEW t \in Tracker
    PROVE  LET S == AuditSuggestions(p, t) \cup DesiredSuggestions(p)
           IN  /\ Suggestions(p, t) \in Seq(S)
               /\ \A s \in S : \E k \in 1 .. Len(Suggestions(p, t)) : Suggestions(p, t)[k] = s
<1> PICK A, B : A = AuditSuggestions(p, t) /\ B = DesiredSuggestions(p)
  OBVIOUS
<1>1. IsFiniteSet(A) /\ IsFiniteSet(B)
  BY SuggestionsAreFinite
<1> PICK a, b : a = SetToSeq(A) /\ b = SetToSeq(B)
  OBVIOUS
<1>2. a \in Seq(A) /\ \A x \in A : \E k \in 1 .. Len(a) : a[k] = x
  BY <1>1, SetToSeqElements
<1>3. b \in Seq(B) /\ \A x \in B : \E k \in 1 .. Len(b) : b[k] = x
  BY <1>1, SetToSeqElements
<1>4. a \o b \in Seq(A \cup B)
  BY <1>2, <1>3
<1>5. \A x \in A : \E k \in 1 .. Len(a \o b) : (a \o b)[k] = x
  BY <1>2, <1>3
<1>6. ASSUME NEW x \in B PROVE \E k \in 1 .. Len(a \o b) : (a \o b)[k] = x
  <2>1. PICK k \in 1 .. Len(b) : b[k] = x
    BY <1>3
  <2>2. Len(a) + k \in 1 .. Len(a \o b) /\ (a \o b)[Len(a) + k] = x
    BY <1>2, <1>3, <2>1
  <2> QED
    BY <2>2
<1>7. PICK c : c = a \o b
  OBVIOUS
<1>8. c \in Seq(A \cup B) /\ \A x \in A \cup B : \E k \in 1 .. Len(c) : c[k] = x
  BY <1>4, <1>5, <1>6, <1>7
<1>9. Suggestions(p, t) = c
  BY <1>7 DEF Suggestions
<1> QED
  BY <1>8, <1>9

LEMMA NextPlanIs ==
    ASSUME NEW p \in Policy, NEW t \in Tracker
    PROVE  LET S == AuditSuggestions(p, t) \cup DesiredSuggestions(p)
           IN  /\ Apart(NextPlan(p, t))
               /\ \A o \in NextPlan(p, t) :
                     \E s \in S : /\ ~ Achieved(s, t.meta[s.issue])
                                  /\ o = OperationFrom(s, t.meta[s.issue])
               /\ \A s \in S : Dealt(s, t, NextPlan(p, t))
<1> PICK S : S = AuditSuggestions(p, t) \cup DesiredSuggestions(p)
  OBVIOUS
<1> PICK asked : asked = Suggestions(p, t)
  OBVIOUS
<1>1. asked \in Seq(S) /\ \A s \in S : \E k \in 1 .. Len(asked) : asked[k] = s
  BY SuggestionsAre
<1>2. NextPlan(p, t) = PlannedOperations(asked, t.meta)
  BY DEF NextPlan
<1>3. Apart(NextPlan(p, t))
  BY <1>1, <1>2, PlannedApart
<1>4. ASSUME NEW o \in NextPlan(p, t)
      PROVE  \E s \in S : /\ ~ Achieved(s, t.meta[s.issue])
                          /\ o = OperationFrom(s, t.meta[s.issue])
  <2>1. PICK k \in Effective(asked, t.meta) :
           o = OperationFrom(asked[k], t.meta[asked[k].issue])
    BY <1>2, <1>4 DEF PlannedOperations
  <2>2. asked[k] \in S /\ ~ Achieved(asked[k], t.meta[asked[k].issue])
    BY <1>1, <2>1 DEF Effective
  <2> QED
    BY <2>1, <2>2
<1>5. ASSUME NEW s \in S PROVE Dealt(s, t, NextPlan(p, t))
  <2>1. PICK k \in 1 .. Len(asked) : asked[k] = s
    BY <1>1
  <2>2. IsPlanned(s, asked, t.meta)
    BY <1>1, <2>1, PlannedForEach
  <2> QED
    BY <1>2, <2>2, Zenon DEF Dealt, IsPlanned
<1> QED
  BY <1>3, <1>4, <1>5

-----------------------------------------------------------------------------
(* A batch applied.                                                        *)
ReadyOps(Q, t, i) == {o \in Q : o.issue = i /\ Preflight(o, t.meta[i]) = "ready"}

After(Q, t) ==
    [t EXCEPT !.meta = [i \in Issues |-> Served(ReadyOps(Q, t, i), t.meta[i])]]

LEMMA ServedType ==
    ASSUME NEW ops, \A o \in ops : Sound(o), NEW meta \in Metadata
    PROVE  Served(ops, meta) \in Metadata /\ Served(ops, meta).state = meta.state
<1> DEFINE wanted == {o.value : o \in {o \in ops : o.kind \in MilestoneKinds}}
           added == {o.value : o \in {o \in ops : o.kind = "issue.labels.add"}}
           removed == {o.value : o \in {o \in ops : o.kind = "issue.labels.remove"}}
           m == IF wanted = {} THEN meta.milestone ELSE CHOOSE x \in wanted : TRUE
           l == (meta.labels \ removed) \cup {Canonical(name) : name \in added}
<1>1. wanted \subseteq MaybeMilestone /\ added \subseteq Labels
  BY DEF Sound, MilestoneKinds, LabelKinds
<1>2. meta.milestone \in MaybeMilestone /\ meta.labels \subseteq Labels
  BY DEF Metadata
<1>3. m \in MaybeMilestone
  BY <1>1, <1>2
<1>4. l \subseteq Labels
  BY <1>1, <1>2 DEF Canonical
<1>5. Served(ops, meta) = [meta EXCEPT !.milestone = m, !.labels = l]
  BY Zenon DEF Served
<1> HIDE DEF m, l
<1> QED
  BY <1>3, <1>4, <1>5 DEF Metadata

HasLabelAfter(l, ops, meta) ==
    \/ \E o \in ops : o.kind = "issue.labels.add" /\ o.value = l
    \/ /\ l \in meta.labels
       /\ ~ \E o \in ops : o.kind = "issue.labels.remove" /\ o.value = l

LEMMA ServedLabels ==
    ASSUME NEW ops, \A o \in ops : Sound(o), NEW meta \in Metadata, NEW l \in Labels
    PROVE  l \in Served(ops, meta).labels <=> HasLabelAfter(l, ops, meta)
<1> DEFINE added == {o.value : o \in {o \in ops : o.kind = "issue.labels.add"}}
           removed == {o.value : o \in {o \in ops : o.kind = "issue.labels.remove"}}
<1>1. Served(ops, meta).labels =
        (meta.labels \ removed) \cup {Canonical(name) : name \in added}
  BY DEF Served, Metadata
<1>2. added \subseteq Labels
  BY DEF Sound, MilestoneKinds, LabelKinds
<1>3. {Canonical(name) : name \in added} = added
  BY <1>2 DEF Canonical
<1> QED
  BY <1>1, <1>3 DEF HasLabelAfter

LEMMA ServedMilestone ==
    ASSUME NEW ops, NEW meta \in Metadata
    PROVE  /\ (\A o \in ops : o.kind \notin MilestoneKinds)
                => Served(ops, meta).milestone = meta.milestone
           /\ \A o \in ops :
                 /\ o.kind \in MilestoneKinds
                 /\ \A o2 \in ops : o2.kind \in MilestoneKinds => o2.value = o.value
                 => Served(ops, meta).milestone = o.value
<1> DEFINE wanted == {o.value : o \in {o \in ops : o.kind \in MilestoneKinds}}
<1>1. Served(ops, meta).milestone =
        IF wanted = {} THEN meta.milestone ELSE CHOOSE x \in wanted : TRUE
  BY DEF Served, Metadata
<1> QED
  BY <1>1

LEMMA AfterType ==
    ASSUME NEW t \in Tracker, NEW Q, \A o \in Q : Sound(o)
    PROVE  /\ After(Q, t) \in Tracker
           /\ Bare(After(Q, t)) = Bare(t)
           /\ Open(After(Q, t)) = Open(t)
           /\ \A i \in Issues :
                 /\ After(Q, t).meta[i] = Served(ReadyOps(Q, t, i), t.meta[i])
                 /\ After(Q, t).meta[i].state = t.meta[i].state
                 /\ After(Q, t).meta[i] \in Metadata
           /\ After(Q, t).title = t.title
<1> DEFINE meta2 == [i \in Issues |-> Served(ReadyOps(Q, t, i), t.meta[i])]
<1>1. /\ t.meta \in [Issues -> Metadata] /\ t.title \in [Issues -> Titles]
      /\ t.body \in [Issues -> Bodies] /\ t = [meta |-> t.meta, title |-> t.title, body |-> t.body]
  BY DEF Tracker
<1>2. After(Q, t) = [meta |-> meta2, title |-> t.title, body |-> t.body]
  <2>1. After(Q, t) = [t EXCEPT !.meta = meta2]
    BY Zenon DEF After
  <2> HIDE DEF meta2
  <2> QED
    BY <1>1, <2>1
<1>3. ASSUME NEW i \in Issues
      PROVE  meta2[i] \in Metadata /\ meta2[i].state = t.meta[i].state
  <2>1. \A o \in ReadyOps(Q, t, i) : Sound(o)
    BY DEF ReadyOps
  <2>2. t.meta[i] \in Metadata
    BY <1>1
  <2> QED
    BY <2>1, <2>2, ServedType
<1>4. \A i \in Issues : meta2[i] = Served(ReadyOps(Q, t, i), t.meta[i])
  OBVIOUS
<1>5. DOMAIN meta2 = Issues /\ meta2 = [i \in Issues |-> meta2[i]]
  OBVIOUS
<1> HIDE DEF meta2
<1>6. meta2 \in [Issues -> Metadata]
  BY <1>3, <1>5
<1>7. After(Q, t) \in Tracker
  BY <1>1, <1>2, <1>6 DEF Tracker
<1>8. Open(After(Q, t)) = Open(t)
  BY <1>2, <1>3 DEF Open
<1>9. Bare(After(Q, t)) = Bare(t)
  <2> DEFINE bare(f) == [i \in Issues |-> [f[i] EXCEPT !.labels = {}, !.milestone = NoMilestone]]
  <2>1. bare(meta2) = bare(t.meta)
    <3>1. ASSUME NEW i \in Issues
          PROVE  [meta2[i] EXCEPT !.labels = {}, !.milestone = NoMilestone] =
                 [t.meta[i] EXCEPT !.labels = {}, !.milestone = NoMilestone]
      <4>1. PICK m1, m2 \in Metadata : m1 = meta2[i] /\ m2 = t.meta[i] /\ m1.state = m2.state
        BY <1>1, <1>3
      <4>2. [m1 EXCEPT !.labels = {}, !.milestone = NoMilestone] =
            [m2 EXCEPT !.labels = {}, !.milestone = NoMilestone]
        BY <4>1 DEF Metadata
      <4> QED
        BY <4>1, <4>2
    <3> QED
      BY <3>1
  <2>2. Bare(After(Q, t)) = [meta |-> bare(meta2), title |-> t.title, body |-> t.body]
    <3>1. Bare(After(Q, t)) = [After(Q, t) EXCEPT !.meta = bare(After(Q, t).meta)]
      BY Zenon DEF Bare
    <3>2. After(Q, t).meta = meta2
      BY <1>2
    <3> HIDE DEF bare
    <3> QED
      BY <1>2, <3>1, <3>2
  <2>3. Bare(t) = [meta |-> bare(t.meta), title |-> t.title, body |-> t.body]
    <3>1. Bare(t) = [t EXCEPT !.meta = bare(t.meta)]
      BY Zenon DEF Bare
    <3> HIDE DEF bare
    <3> QED
      BY <1>1, <3>1
  <2> HIDE DEF bare
  <2> QED
    BY <2>1, <2>2, <2>3
<1> QED
  BY <1>2, <1>3, <1>4, <1>6, <1>7, <1>8, <1>9

LEMMA PreflightCases ==
    ASSUME NEW o, Sound(o), NEW meta
    PROVE  /\ Preflight(o, meta) \in {"ready", "noop", "stale"}
           /\ Preflight(o, meta) = "noop" => Achieved(o, meta)
           /\ Preflight(o, meta) = "stale" <=>
                \/ meta.state # o.issueState
                \/ ~ Achieved(o, meta) /\ o.kind \in MilestoneKinds /\ meta.milestone # o.before
BY DEF Preflight

(* A batch does what its operations are for, and undoes nothing that was   *)
(* achieved, unless another operation is about the same field.             *)
LEMMA StillDealt ==
    ASSUME NEW t \in Tracker, NEW P, \A o \in P : Sound(o), NEW Q, Q \subseteq P,
           \A o \in Q : Preflight(o, t.meta[o.issue]) # "stale",
           NEW s, Sound(s), \A o \in P : Field(o) = Field(s) => Matches(o, s),
           Dealt(s, t, P)
    PROVE  Dealt(s, After(Q, t), P \ Q)
<1> SUFFICES ASSUME ~ \E o \in P \ Q : Field(o) = Field(s)
             PROVE  Achieved(s, After(Q, t).meta[s.issue])
  BY DEF Dealt
<1> PICK i : i = s.issue
  OBVIOUS
<1> PICK m, m2, R : m = t.meta[i] /\ m2 = After(Q, t).meta[i] /\ R = ReadyOps(Q, t, i)
  OBVIOUS
<1>1. i \in Issues /\ m \in Metadata /\ m2 = Served(R, m) /\ \A o \in R : Sound(o)
  <2>1. i \in Issues
    BY DEF Sound
  <2>2. \A o \in Q : Sound(o)
    OBVIOUS
  <2>3. m2 = Served(R, m)
    BY <2>1, <2>2, AfterType
  <2>4. \A o \in R : Sound(o)
    BY <2>2 DEF ReadyOps
  <2> QED
    BY <2>1, <2>3, <2>4 DEF Tracker
<1>2. Achieved(s, m) \/ \E o \in R : Matches(o, s)
  <2>1. CASE Achieved(s, m)
    BY <2>1
  <2>2. CASE \E o \in P : Field(o) = Field(s)
    <3>1. PICK o \in Q : Field(o) = Field(s)
      BY <2>2
    <3>2. Matches(o, s) /\ Sound(o)
      BY <3>1
    <3>3. o.issue = i
      BY <3>2 DEF Matches
    <3>4. Preflight(o, m) # "stale"
      BY <3>1, <3>3
    <3>5. CASE Preflight(o, m) = "ready"
      BY <3>2, <3>3, <3>5 DEF ReadyOps
    <3>6. CASE Preflight(o, m) = "noop"
      <4>1. Achieved(o, m)
        BY <3>2, <3>6, PreflightCases
      <4>2. Achieved(s, m)
        BY <3>2, <4>1 DEF Matches, Achieved
      <4> QED
        BY <4>2
    <3> QED
      BY <3>2, <3>4, <3>5, <3>6, PreflightCases
  <2> QED
    BY <2>1, <2>2 DEF Dealt
<1>3. \A o \in R : o \in P /\ o.issue = i /\ Sound(o)
  BY <1>1 DEF ReadyOps
<1>4. CASE s.kind \in MilestoneKinds
  <2>1. \A o \in R : o.kind \in MilestoneKinds => Field(o) = Field(s)
    BY <1>3, <1>4 DEF Field
  <2>2. \A o \in R : o.kind \in MilestoneKinds => o.value = s.value
    BY <1>3, <2>1 DEF Matches
  <2>3. m2.milestone = s.value
    <3>1. CASE \E o \in R : o.kind \in MilestoneKinds
      <4>1. PICK o \in R : o.kind \in MilestoneKinds
        BY <3>1
      <4>2. Served(R, m).milestone = o.value
        BY <1>1, <2>2, <4>1, ServedMilestone
      <4> QED
        BY <1>1, <2>2, <4>1, <4>2
    <3>2. CASE ~ \E o \in R : o.kind \in MilestoneKinds
      <4>1. Served(R, m).milestone = m.milestone
        BY <1>1, <3>2, ServedMilestone
      <4>2. ~ \E o \in R : Matches(o, s)
        BY <1>4, <3>2 DEF Matches
      <4>3. Achieved(s, m)
        BY <1>2, <4>2
      <4> QED
        BY <1>1, <1>4, <4>1, <4>3 DEF Achieved, MilestoneKinds
    <3> QED
      BY <3>1, <3>2
  <2> QED
    BY <1>4, <2>3 DEF Achieved, MilestoneKinds
<1>5. CASE s.kind \in LabelKinds
  <2>1. s.value \in Labels
    BY <1>5 DEF Sound, LabelKinds, MilestoneKinds
  <2>2. \A o \in R : o.kind \in LabelKinds /\ o.value = s.value => o.kind = s.kind
    <3> SUFFICES ASSUME NEW o \in R, o.kind \in LabelKinds, o.value = s.value
                 PROVE  o.kind = s.kind
      OBVIOUS
    <3>1. Field(o) = Field(s)
      BY <1>3, <1>5 DEF Field, LabelKinds, MilestoneKinds
    <3> QED
      BY <1>3, <3>1 DEF Matches
  <2>3. s.value \in m2.labels <=> HasLabelAfter(s.value, R, m)
    BY <1>1, <2>1, ServedLabels
  <2>4. CASE s.kind = "issue.labels.add"
    <3>1. ~ \E o \in R : o.kind = "issue.labels.remove" /\ o.value = s.value
      BY <2>2, <2>4 DEF LabelKinds
    <3>2. s.value \in m.labels \/ \E o \in R : o.kind = "issue.labels.add" /\ o.value = s.value
      BY <1>2, <2>4 DEF Achieved, MilestoneKinds, Matches
    <3>3. s.value \in m2.labels
      BY <2>3, <3>1, <3>2 DEF HasLabelAfter
    <3> QED
      BY <2>4, <3>3 DEF Achieved, MilestoneKinds
  <2>5. CASE s.kind = "issue.labels.remove"
    <3>1. ~ \E o \in R : o.kind = "issue.labels.add" /\ o.value = s.value
      BY <2>2, <2>5 DEF LabelKinds
    <3>2. s.value \notin m.labels \/ \E o \in R : o.kind = "issue.labels.remove" /\ o.value = s.value
      BY <1>2, <2>5 DEF Achieved, MilestoneKinds, Matches
    <3>3. s.value \notin m2.labels
      BY <2>3, <3>1, <3>2 DEF HasLabelAfter
    <3> QED
      BY <2>5, <3>3 DEF Achieved, MilestoneKinds
  <2> QED
    BY <1>5, <2>4, <2>5 DEF LabelKinds
<1> QED
  BY <1>4, <1>5 DEF Sound

(* No batch makes an operation of another one stale.                       *)
LEMMA StillFresh ==
    ASSUME NEW t \in Tracker, NEW P, \A o \in P : Sound(o), Apart(P), NEW Q, Q \subseteq P,
           NEW o \in P \ Q, Preflight(o, t.meta[o.issue]) # "stale"
    PROVE  Preflight(o, After(Q, t).meta[o.issue]) # "stale"
<1> PICK i : i = o.issue
  OBVIOUS
<1> PICK m, m2, R : m = t.meta[i] /\ m2 = After(Q, t).meta[i] /\ R = ReadyOps(Q, t, i)
  OBVIOUS
<1>1. i \in Issues /\ m \in Metadata /\ Sound(o)
  BY DEF Sound, Tracker
<1>2. m2 = Served(R, m) /\ m2.state = m.state
  <2>1. \A x \in Q : Sound(x)
    OBVIOUS
  <2> QED
    BY <1>1, <2>1, AfterType
<1>3. CASE o.kind \in MilestoneKinds
  <2>1. \A x \in R : x.kind \notin MilestoneKinds
    <3> SUFFICES ASSUME NEW x \in R, x.kind \in MilestoneKinds PROVE FALSE
      OBVIOUS
    <3>1. x \in Q /\ x.issue = i
      BY DEF ReadyOps
    <3>2. Field(x) = Field(o)
      BY <1>3, <3>1 DEF Field
    <3> QED
      BY <3>1, <3>2 DEF Apart
  <2>2. m2.milestone = m.milestone
    BY <1>1, <1>2, <2>1, ServedMilestone
  <2>3. Achieved(o, m) <=> Achieved(o, m2)
    BY <1>3, <2>2 DEF Achieved, MilestoneKinds
  <2> QED
    BY <1>1, <1>2, <2>2, <2>3, PreflightCases
<1>4. CASE o.kind \notin MilestoneKinds
  BY <1>1, <1>2, <1>4, PreflightCases
<1> QED
  BY <1>3, <1>4

(* An issue that a batch leaves without a type had one the policy removes. *)
LEMMA TypeLost ==
    ASSUME NEW p \in Policy, NEW t \in Tracker, NEW Q, \A o \in Q : Sound(o),
           \A o \in Q : \E w \in Wishes(p, t) : Matches(o, w),
           NEW s \in TypeSuggestions(p, After(Q, t)), s \notin TypeSuggestions(p, t)
    PROVE  TypeIsTakenAway(p, s.issue)
<1> PICK u : u = After(Q, t)
  OBVIOUS
<1>1. /\ u.title = t.title /\ Open(u) = Open(t)
      /\ \A i \in Issues : u.meta[i] = Served(ReadyOps(Q, t, i), t.meta[i])
  BY AfterType
<1>2. PICK i \in Mistyped(p, u) : /\ TypesPresent(p, u, i) = {}
                                  /\ Inferred(p, u, i) \in p.types
                                  /\ LiveName[Inferred(p, u, i)] # NoLabel
                                  /\ s = AddLabel(i, Inferred(p, u, i), p.batch[i])
  BY DEF TypeSuggestions
<1>3. i \in Issues /\ i \in Open(t) /\ p.oneType /\ Inferred(p, u, i) = Inferred(p, t, i)
  BY <1>1, <1>2, OpenIssues DEF Mistyped, Inferred
<1>4. TypesPresent(p, t, i) # {}
  <2> SUFFICES ASSUME TypesPresent(p, t, i) = {} PROVE FALSE
    OBVIOUS
  <2>1. i \in Mistyped(p, t)
    BY <1>3, FS_EmptySet DEF Mistyped
  <2> QED
    BY <1>2, <1>3, <2>1 DEF TypeSuggestions
<1>5. PICK l : l \in t.meta[i].labels /\ l \in p.types
  BY <1>4 DEF TypesPresent, Live
<1>6. l \notin Served(ReadyOps(Q, t, i), t.meta[i]).labels
  BY <1>1, <1>2, <1>3, <1>5 DEF TypesPresent, Live
<1>7. t.meta[i] \in Metadata /\ l \in Labels
  BY <1>3, <1>5 DEF Tracker, Metadata
<1>8. \A o \in ReadyOps(Q, t, i) : Sound(o)
  BY DEF ReadyOps
<1>9. PICK o \in ReadyOps(Q, t, i) : o.kind = "issue.labels.remove" /\ o.value = l
  BY <1>5, <1>6, <1>7, <1>8, ServedLabels DEF HasLabelAfter
<1>10. o \in Q /\ o.issue = i
  BY DEF ReadyOps
<1>11. PICK w \in Wishes(p, t) : Matches(o, w)
  BY <1>10
<1>12. w.kind = "issue.labels.remove" /\ w.issue = i /\ w.value = l
  BY <1>9, <1>10, <1>11 DEF Matches
<1>13. Bare(t) \in Tracker
  BY BareFacts
<1>14. w \in DesiredSuggestions(p)
  BY <1>12, <1>13, AuditAsks DEF Wishes
<1>15. \E n \in p.desired[i].remove : Spelled(n) = l
  BY <1>12, <1>14, DesiredAsks
<1>16. s.issue = i
  BY <1>2 DEF AddLabel
<1> QED
  BY <1>5, <1>15, <1>16 DEF TypeIsTakenAway

-----------------------------------------------------------------------------
(* A plan stands while its batches are applied: there is one operation for *)
(* a field, none is stale, and each is one that the policy wishes.         *)
PlanStands(p, t, ops) ==
    /\ Apart(ops)
    /\ \A o \in ops : Preflight(o, t.meta[o.issue]) # "stale"
    /\ \A o \in ops : \E w \in Wishes(p, t) : Matches(o, w)

(* And it is enough: every wish is achieved or will be, but for the type   *)
(* of an issue that loses one.                                             *)
PlanIsEnough(p, t, ops) ==
    /\ DesiredExist(p)
    /\ Agrees(p, t) =>
         /\ \A s \in Firm(p, t) : Dealt(s, t, ops)
         /\ \A s \in TypeSuggestions(p, t) : Dealt(s, t, ops) \/ TypeIsTakenAway(p, s.issue)

AuditInv ==
    /\ policy \in Policy /\ tracker \in Tracker
    /\ \A o \in pending : Sound(o)
    /\ phase # "planned" => pending = {}
    /\ quiet =>
         /\ phase # "blocked"
         /\ PlanStands(policy, tracker, pending)
         /\ phase = "planned" => PlanIsEnough(policy, tracker, pending)

LEMMA WishesAre ==
    ASSUME NEW p \in Policy, NEW t \in Tracker, DesiredExist(p)
    PROVE  /\ Wishes(p, t) = Firm(p, t) \cup TypeSuggestions(p, Bare(t))
           /\ TypeSuggestions(p, t) \subseteq Wishes(p, t)
           /\ AuditSuggestions(p, t) \subseteq Wishes(p, t)
           /\ \A s \in Wishes(p, t) : Sound(s)
<1>1. Wishes(p, t) = Firm(p, t) \cup TypeSuggestions(p, Bare(t))
  BY DEF Wishes, Firm, AuditSuggestions
<1>2. TypeSuggestions(p, t) \subseteq Wishes(p, t) /\ AuditSuggestions(p, t) \subseteq Wishes(p, t)
  BY BareAsksMore DEF Wishes, AuditSuggestions
<1>3. Bare(t) \in Tracker
  BY BareFacts
<1>4. \A s \in Wishes(p, t) : Sound(s)
  BY <1>3, AuditAsks, DesiredAsks DEF Wishes
<1> QED
  BY <1>1, <1>2, <1>4

LEMMA PlanStarts ==
    ASSUME NEW p \in Policy, NEW t \in Tracker, ~ Refused(p, t)
    PROVE  /\ \A o \in NextPlan(p, t) : Sound(o)
           /\ PlanStands(p, t, NextPlan(p, t))
           /\ PlanIsEnough(p, t, NextPlan(p, t))
<1> PICK ops : ops = NextPlan(p, t)
  OBVIOUS
<1> PICK S : S = AuditSuggestions(p, t) \cup DesiredSuggestions(p)
  OBVIOUS
<1>1. DesiredExist(p)
  BY DEF Refused, DesiredExist
<1>2. /\ Apart(ops)
      /\ \A o \in ops : \E s \in S : /\ ~ Achieved(s, t.meta[s.issue])
                                     /\ o = OperationFrom(s, t.meta[s.issue])
      /\ \A s \in S : Dealt(s, t, ops)
  BY NextPlanIs
<1>3. S \subseteq Wishes(p, t) /\ \A s \in Wishes(p, t) : Sound(s)
  BY <1>1, WishesAre DEF Wishes
<1>4. ASSUME NEW o \in ops
      PROVE  /\ Sound(o) /\ Preflight(o, t.meta[o.issue]) # "stale"
             /\ \E w \in Wishes(p, t) : Matches(o, w)
  <2>1. PICK s \in S : o = OperationFrom(s, t.meta[s.issue])
    BY <1>2
  <2>2. Sound(s) /\ s \in Wishes(p, t)
    BY <1>3
  <2>3. Matches(o, s) /\ o.issueState = t.meta[o.issue].state
        /\ (o.kind \in MilestoneKinds => o.before = t.meta[o.issue].milestone)
    BY <2>1 DEF OperationFrom, Matches
  <2>4. Sound(o)
    BY <2>2, <2>3 DEF Sound, Matches
  <2>5. Preflight(o, t.meta[o.issue]) # "stale"
    BY <2>3, <2>4, PreflightCases
  <2> QED
    BY <2>2, <2>3, <2>4, <2>5
<1>5. PlanStands(p, t, ops)
  BY <1>2, <1>4 DEF PlanStands
<1>6. ASSUME NEW s \in Firm(p, t) PROVE Dealt(s, t, ops)
  <2>1. s \in S \/ Achieved(s, t.meta[s.issue])
    BY BareAsksMore DEF Firm, AuditSuggestions
  <2> QED
    BY <1>2, <2>1 DEF Dealt
<1>7. \A s \in TypeSuggestions(p, t) : Dealt(s, t, ops)
  BY <1>2 DEF AuditSuggestions
<1>8. PlanIsEnough(p, t, ops)
  BY <1>1, <1>6, <1>7 DEF PlanIsEnough
<1> QED
  BY <1>4, <1>5, <1>8

LEMMA BatchKeepsPlan ==
    ASSUME NEW p \in Policy, NEW t \in Tracker, NEW P, \A o \in P : Sound(o),
           NEW Q, Q \subseteq P, PlanStands(p, t, P)
    PROVE  /\ PlanStands(p, After(Q, t), P \ Q)
           /\ PlanIsEnough(p, t, P) => PlanIsEnough(p, After(Q, t), P \ Q)
<1> PICK u : u = After(Q, t)
  OBVIOUS
<1>1. u \in Tracker /\ Bare(u) = Bare(t)
  BY AfterType
<1>2. Wishes(p, u) = Wishes(p, t) /\ Firm(p, u) = Firm(p, t)
  BY <1>1 DEF Wishes, Firm
<1>3. Agrees(p, u) <=> Agrees(p, t)
  BY <1>1, Zenon DEF Agrees
<1>4. \A o \in P \ Q : Preflight(o, u.meta[o.issue]) # "stale"
  BY StillFresh DEF PlanStands
<1>5. PlanStands(p, u, P \ Q)
  BY <1>2, <1>4 DEF PlanStands, Apart
<1>6. ASSUME PlanIsEnough(p, t, P) PROVE PlanIsEnough(p, u, P \ Q)
  <2> SUFFICES ASSUME Agrees(p, t)
               PROVE  /\ \A s \in Firm(p, u) : Dealt(s, u, P \ Q)
                      /\ \A s \in TypeSuggestions(p, u) :
                            Dealt(s, u, P \ Q) \/ TypeIsTakenAway(p, s.issue)
    BY <1>3, <1>6 DEF PlanIsEnough
  <2>1. DesiredExist(p)
    BY <1>6 DEF PlanIsEnough
  <2>2. ASSUME NEW s \in Wishes(p, t), Dealt(s, t, P) PROVE Dealt(s, u, P \ Q)
    <3>1. Sound(s)
      BY <2>1, WishesAre
    <3>2. ASSUME NEW o \in P, Field(o) = Field(s) PROVE Matches(o, s)
      <4>1. PICK w \in Wishes(p, t) : Matches(o, w)
        BY DEF PlanStands
      <4>2. Field(w) = Field(o)
        BY <4>1 DEF Matches, Field
      <4>3. Field(w) = Field(s)
        BY <3>2, <4>2
      <4>4. w.kind = s.kind /\ w.value = s.value
        BY <4>3, Zenon DEF Agrees, Wishes
      <4>5. o.issue = s.issue
        BY <3>2 DEF Field
      <4> QED
        BY <4>1, <4>4, <4>5 DEF Matches
    <3>3. \A o \in Q : Preflight(o, t.meta[o.issue]) # "stale"
      BY DEF PlanStands
    <3> QED
      BY <2>2, <3>1, <3>2, <3>3, StillDealt
  <2>3. ASSUME NEW s \in Firm(p, u) PROVE Dealt(s, u, P \ Q)
    <3>1. s \in Firm(p, t) /\ s \in Wishes(p, t)
      BY <1>2, <2>1, WishesAre
    <3>2. Dealt(s, t, P)
      BY <1>6, <3>1 DEF PlanIsEnough
    <3> QED
      BY <2>2, <3>1, <3>2
  <2>4. ASSUME NEW s \in TypeSuggestions(p, u)
        PROVE  Dealt(s, u, P \ Q) \/ TypeIsTakenAway(p, s.issue)
    <3>1. s \in Wishes(p, t)
      BY <1>1, <1>2, <2>1, WishesAre
    <3>2. CASE s \in TypeSuggestions(p, t)
      BY <1>6, <2>2, <3>1, <3>2 DEF PlanIsEnough
    <3>3. CASE s \notin TypeSuggestions(p, t)
      <4>1. /\ \A o \in Q : Sound(o)
            /\ \A o \in Q : \E w \in Wishes(p, t) : Matches(o, w)
        BY DEF PlanStands
      <4> QED
        BY <3>3, <4>1, TypeLost
    <3> QED
      BY <3>2, <3>3
  <2> QED
    BY <2>3, <2>4
<1> QED
  BY <1>5, <1>6

(* Of a policy that agrees with itself and a plan that has nothing left.   *)
LEMMA NothingLeft ==
    ASSUME NEW p \in Policy, NEW t \in Tracker, PlanIsEnough(p, t, {}), Agrees(p, t)
    PROVE  /\ ~ Refused(p, t)
           /\ \A o \in NextPlan(p, t) :
                 o.kind = "issue.labels.add" /\ TypeIsTakenAway(p, o.issue)
           /\ Unscheduled(p, t) = {}
           /\ \A i \in Misaligned(p, t) : Spelled(Inferred(p, t, i)) # Inferred(p, t, i)
<1> PICK S : S = AuditSuggestions(p, t) \cup DesiredSuggestions(p)
  OBVIOUS
<1>1. S \subseteq Wishes(p, t) /\ DesiredExist(p)
  BY WishesAre DEF PlanIsEnough, Wishes
<1>2. \A s \in Firm(p, t) : Achieved(s, t.meta[s.issue])
  BY DEF PlanIsEnough, Dealt
<1>3. ASSUME NEW s \in S, s \notin TypeSuggestions(p, t) PROVE Achieved(s, t.meta[s.issue])
  <2>1. s \in Firm(p, t)
    BY <1>3, BareAsksMore DEF Firm, AuditSuggestions
  <2> QED
    BY <1>2, <2>1
<1>4. ~ Refused(p, t)
  <2>1. ~ Conflicting(Suggestions(p, t), t.meta)
    <3> PICK asked : asked = Suggestions(p, t)
      OBVIOUS
    <3>1. asked \in Seq(S)
      BY SuggestionsAre
    <3>2. ASSUME NEW j \in Effective(asked, t.meta), NEW k \in Effective(asked, t.meta),
                 Field(asked[j]) = Field(asked[k])
          PROVE  asked[j].kind = asked[k].kind /\ asked[j].value = asked[k].value
      <4>1. asked[j] \in S /\ asked[k] \in S
        BY <3>1 DEF Effective
      <4>2. asked[j] \in Wishes(p, t) /\ asked[k] \in Wishes(p, t)
        BY <1>1, <4>1
      <4> QED
        BY <3>2, <4>2, Zenon DEF Agrees, Wishes
    <3> QED
      BY <3>2 DEF Conflicting
  <2> QED
    BY <1>1, <2>1 DEF Refused, DesiredExist
<1>5. ASSUME NEW o \in NextPlan(p, t)
      PROVE  o.kind = "issue.labels.add" /\ TypeIsTakenAway(p, o.issue)
  <2>1. PICK s \in S : ~ Achieved(s, t.meta[s.issue]) /\ o = OperationFrom(s, t.meta[s.issue])
    BY NextPlanIs
  <2>2. s \in TypeSuggestions(p, t)
    BY <1>3, <2>1
  <2>3. TypeIsTakenAway(p, s.issue)
    BY <2>1, <2>2 DEF PlanIsEnough, Dealt
  <2>4. s.kind = "issue.labels.add"
    BY <2>2 DEF TypeSuggestions, AddLabel
  <2> QED
    BY <2>1, <2>3, <2>4 DEF OperationFrom
<1>6. Unscheduled(p, t) = {}
  <2> SUFFICES ASSUME NEW i \in Unscheduled(p, t) PROVE FALSE
    OBVIOUS
  <2> PICK s : s = SetMilestone(i, p.release.milestone, p.batch[i])
    OBVIOUS
  <2>1. s \in Firm(p, t)
    BY BareAsksMore DEF ReleaseSuggestions, Firm
  <2>2. s.kind \in MilestoneKinds /\ s.issue = i /\ s.value = p.release.milestone
    BY DEF SetMilestone, MilestoneKinds
  <2>3. t.meta[i].milestone = p.release.milestone
    BY <1>2, <2>1, <2>2 DEF Achieved, MilestoneKinds
  <2> QED
    BY <2>3 DEF Unscheduled, Live
<1>7. ASSUME NEW i \in Misaligned(p, t), Spelled(Inferred(p, t, i)) = Inferred(p, t, i)
      PROVE  FALSE
  <2> PICK s : s = AddLabel(i, Inferred(p, t, i), p.batch[i])
    OBVIOUS
  <2>1. Inferred(p, t, i) # NoLabel
    BY DEF Misaligned
  <2>2. LiveName[Inferred(p, t, i)] # NoLabel
    BY <1>7, <2>1 DEF Spelled
  <2>3. s \in Firm(p, t)
    BY <2>2, BareAsksMore DEF AlignSuggestions, Firm
  <2>4. s.kind = "issue.labels.add" /\ s.issue = i /\ s.value = Inferred(p, t, i)
    BY <1>7 DEF AddLabel
  <2>5. Inferred(p, t, i) \in t.meta[i].labels
    BY <1>2, <2>3, <2>4 DEF Achieved, MilestoneKinds
  <2> QED
    BY <2>5 DEF Misaligned, Live
<1> QED
  BY <1>4, <1>5, <1>6, <1>7

-----------------------------------------------------------------------------
LEMMA AuditInvInit == AuditInit => AuditInv
<1> SUFFICES ASSUME AuditInit PROVE AuditInv
  OBVIOUS
<1>1. policy \in Policy /\ tracker \in Tracker
  BY AuditAssumption DEF AuditInit
<1>2. PlanStands(policy, tracker, {})
  BY DEF PlanStands, Apart
<1> QED
  BY <1>1, <1>2 DEF AuditInit, AuditInv

LEMMA TouchType ==
    ASSUME tracker \in Tracker, NEW i \in Issues, Touch(i)
    PROVE  tracker' \in Tracker
<1> PICK t : t = tracker
  OBVIOUS
<1>1. /\ t.meta \in [Issues -> Metadata] /\ t.title \in [Issues -> Titles]
      /\ t.body \in [Issues -> Bodies] /\ t = [meta |-> t.meta, title |-> t.title, body |-> t.body]
  BY DEF Tracker
<1>2. PICK m \in Metadata : m = t.meta[i]
  BY <1>1
<1>3. ASSUME NEW m2 \in Metadata, tracker' = [t EXCEPT !.meta[i] = m2] PROVE tracker' \in Tracker
  <2>1. [t.meta EXCEPT ![i] = m2] \in [Issues -> Metadata]
    BY <1>1
  <2>2. tracker' = [meta |-> [t.meta EXCEPT ![i] = m2], title |-> t.title, body |-> t.body]
    BY <1>1, <1>3
  <2> QED
    BY <1>1, <2>1, <2>2 DEF Tracker
<1>4. CASE \E s \in States : tracker' = [t EXCEPT !.meta[i].state = s]
  <2>1. PICK s \in States : tracker' = [t EXCEPT !.meta[i].state = s]
    BY <1>4
  <2>2. [m EXCEPT !.state = s] \in Metadata
    BY DEF Metadata
  <2>3. tracker' = [t EXCEPT !.meta[i] = [m EXCEPT !.state = s]]
    BY <1>2, <2>1
  <2> QED
    BY <1>3, <2>2, <2>3
<1>5. CASE \E x \in MaybeMilestone : tracker' = [t EXCEPT !.meta[i].milestone = x]
  <2>1. PICK x \in MaybeMilestone : tracker' = [t EXCEPT !.meta[i].milestone = x]
    BY <1>5
  <2>2. [m EXCEPT !.milestone = x] \in Metadata
    BY DEF Metadata
  <2>3. tracker' = [t EXCEPT !.meta[i] = [m EXCEPT !.milestone = x]]
    BY <1>2, <2>1
  <2> QED
    BY <1>3, <2>2, <2>3
<1>6. CASE \E l \in Labels : \/ tracker' = [t EXCEPT !.meta[i].labels = @ \cup {l}]
                             \/ tracker' = [t EXCEPT !.meta[i].labels = @ \ {l}]
  <2>1. PICK L \in SUBSET Labels : tracker' = [t EXCEPT !.meta[i].labels = L]
    <3>1. m.labels \subseteq Labels
      BY DEF Metadata
    <3> QED
      BY <1>2, <1>6, <3>1
  <2>2. [m EXCEPT !.labels = L] \in Metadata
    BY DEF Metadata
  <2>3. tracker' = [t EXCEPT !.meta[i] = [m EXCEPT !.labels = L]]
    BY <1>2, <2>1
  <2> QED
    BY <1>3, <2>2, <2>3
<1>7. CASE \E x \in Titles : tracker' = [t EXCEPT !.title[i] = x]
  BY <1>1, <1>7 DEF Tracker
<1>8. CASE \E x \in Bodies : tracker' = [t EXCEPT !.body[i] = x]
  BY <1>1, <1>8 DEF Tracker
<1> QED
  BY <1>4, <1>5, <1>6, <1>7, <1>8 DEF Touch

LEMMA AuditInvStep ==
    ASSUME AuditInv, [AuditNext]_auditVars
    PROVE  AuditInv'
<1> USE DEF AuditInv
<1>1. CASE AuditAndPlan
  <2>1. UNCHANGED <<policy, tracker>>
    BY <1>1 DEF AuditAndPlan
  <2>2. CASE Refused(policy, tracker) /\ phase' = "refused" /\ pending' = {}
    <3>1. PlanStands(policy', tracker', pending')
      BY <2>2 DEF PlanStands, Apart
    <3> QED
      BY <2>1, <2>2, <3>1
  <2>3. CASE ~ Refused(policy, tracker) /\ phase' = "planned" /\ pending' = NextPlan(policy, tracker)
    <3>1. /\ \A o \in NextPlan(policy, tracker) : Sound(o)
          /\ PlanStands(policy, tracker, NextPlan(policy, tracker))
          /\ PlanIsEnough(policy, tracker, NextPlan(policy, tracker))
      BY <2>3, PlanStarts
    <3> QED
      BY <2>1, <2>3, <3>1
  <2> QED
    BY <1>1, <2>2, <2>3 DEF AuditAndPlan
<1>2. ASSUME NEW b \in Stages, ApplyBatch(b) PROVE AuditInv'
  <2> DEFINE batch == {op \in pending : op.batch = b}
  <2>1. UNCHANGED <<policy, quiet>>
    BY <1>2 DEF ApplyBatch
  <2>2. CASE /\ \E o \in batch : Preflight(o, tracker.meta[o.issue]) = "stale"
             /\ phase' = "blocked" /\ pending' = {} /\ UNCHANGED tracker
    <3>1. ~ quiet
      BY <2>2 DEF PlanStands
    <3> QED
      BY <2>1, <2>2, <3>1
  <2>3. CASE /\ \A o \in batch : Preflight(o, tracker.meta[o.issue]) # "stale"
             /\ tracker' = After(batch, tracker)
             /\ pending' = pending \ batch /\ UNCHANGED phase
    <3>1. batch \subseteq pending /\ \A o \in batch : Sound(o)
      OBVIOUS
    <3> HIDE DEF batch
    <3>2. tracker' \in Tracker
      BY <2>3, <3>1, AfterType
    <3>3. PlanStands(policy, tracker, pending) =>
            /\ PlanStands(policy, tracker', pending')
            /\ PlanIsEnough(policy, tracker, pending) => PlanIsEnough(policy, tracker', pending')
      BY <2>3, <3>1, BatchKeepsPlan
    <3> QED
      BY <2>1, <2>3, <3>2, <3>3
  <2>4. \A i \in Issues :
          {o \in batch : o.issue = i /\ Preflight(o, tracker.meta[o.issue]) = "ready"} =
          ReadyOps(batch, tracker, i)
    BY DEF ReadyOps
  <2> QED
    BY <1>2, <2>2, <2>3, <2>4 DEF ApplyBatch, After
<1>3. ASSUME NEW i \in Issues, Touch(i) PROVE AuditInv'
  <2>1. tracker' \in Tracker
    BY <1>3, TouchType
  <2>2. quiet' = FALSE /\ UNCHANGED <<policy, pending, phase>>
    BY <1>3 DEF Touch
  <2> QED
    BY <2>1, <2>2
<1>4. CASE UNCHANGED auditVars
  BY <1>4 DEF auditVars
<1> QED
  BY <1>1, <1>2, <1>3, <1>4 DEF AuditNext

(* Plans settle: while nobody edits an issue, no batch of a plan makes     *)
(* another one stale, and after the last batch of the plan of a policy     *)
(* that agrees with itself the next plan is not refused and at most gives  *)
(* a type to an issue that lost its own.                                   *)
THEOREM PlansSettle == AuditSpec => []PlanSettles
<1>1. AuditInv => PlanSettles
  <2> SUFFICES ASSUME AuditInv, quiet, phase = "planned", pending = {}, Agrees(policy, tracker)
               PROVE  /\ ~ Refused(policy, tracker)
                      /\ \A op \in NextPlan(policy, tracker) :
                            op.kind = "issue.labels.add" /\ TypeIsTakenAway(policy, op.issue)
                      /\ Unscheduled(policy, tracker) = {}
                      /\ \A i \in Misaligned(policy, tracker) :
                            Spelled(Inferred(policy, tracker, i)) # Inferred(policy, tracker, i)
    BY Zenon DEF PlanSettles, AuditInv
  <2>1. policy \in Policy /\ tracker \in Tracker /\ PlanIsEnough(policy, tracker, {})
    BY DEF AuditInv
  <2> QED
    BY <2>1, NothingLeft
<1> QED
  BY <1>1, AuditInvInit, AuditInvStep, PTL DEF AuditSpec
=============================================================================
