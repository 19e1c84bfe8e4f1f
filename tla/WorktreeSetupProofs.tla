------------------------- MODULE WorktreeSetupProofs -------------------------
(***************************************************************************)
(* What setup.sh guarantees about one worktree: a directory of the user's  *)
(* survives any number of setups, and two setups, of which either may fail *)
(* or be killed, never work on the environment at once.                    *)
(***************************************************************************)
EXTENDS WorktreeSetup, TLAPS

-----------------------------------------------------------------------------
(* Type correctness.                                                       *)

(* A setup that still looks for the lock has an attempt left.              *)
AttemptLeft ==
    \A p \in Setups :
        pc[p] \in {"start", "mkdir", "inspect", "probe", "steal"} => attempts[p] < MaxAttempts

TypeInv == TypeOK /\ AttemptLeft

(* What an environment is made of.                                         *)
LEMMA EnvironmentType ==
    /\ NoEnvironment \in Environment
    /\ \A m \in Modes : ManagedEnvironment(m) \in Environment
    /\ \A env \in Environment :
          /\ \A k \in Kinds : [env EXCEPT !["kind"] = k] \in Environment
          /\ \A b \in BOOLEAN : [env EXCEPT !["marker"] = b] \in Environment
          /\ \A m \in Modes \cup {"none"} : [env EXCEPT !["fingerprint"] = m] \in Environment
          /\ \A m \in Modes \cup {"unknown"} : [env EXCEPT !["mode"] = m] \in Environment
          /\ \A m \in SUBSET Modules : [env EXCEPT !.modules = m] \in Environment
<1>1. NoEnvironment \in Environment
  BY DEF NoEnvironment, Environment, Kinds, Modes, Modules
<1>2. \A m \in Modes : ManagedEnvironment(m) \in Environment
  BY DEF ManagedEnvironment, Environment, Kinds, Modes, Modules, Needed
<1>3. ASSUME NEW env \in Environment
      PROVE  /\ \A k \in Kinds : [env EXCEPT !["kind"] = k] \in Environment
             /\ \A b \in BOOLEAN : [env EXCEPT !["marker"] = b] \in Environment
             /\ \A m \in Modes \cup {"none"} : [env EXCEPT !["fingerprint"] = m] \in Environment
             /\ \A m \in Modes \cup {"unknown"} : [env EXCEPT !["mode"] = m] \in Environment
             /\ \A m \in SUBSET Modules : [env EXCEPT !.modules = m] \in Environment
  BY DEF Environment, Kinds, Modes, Modules
<1> QED
  BY <1>1, <1>2, <1>3

(* What a step of rm -rf leaves of an environment.                         *)
LEMMA LesserIs ==
    ASSUME NEW env \in Environment, NEW less \in Lesser(env)
    PROVE  /\ less \in Environment /\ less.madeBy = env.madeBy
           /\ less.modules \subseteq env.modules
           /\ less.marker => env.marker
           /\ less.fingerprint \in {env.fingerprint, "none"}
           /\ less.mode \in {env.mode, "unknown"}
           /\ less.kind # "absent" \/ env.kind = "absent"
<1>1. CASE \E k \in PartlyRemoved(env.kind) : less = [env EXCEPT !.kind = k]
  <2>1. PICK k \in PartlyRemoved(env.kind) : less = [env EXCEPT !.kind = k]
    BY <1>1
  <2>2. k \in Kinds \ {"absent"}
    BY DEF PartlyRemoved, Kinds
  <2> QED
    BY <2>1, <2>2 DEF Environment
<1>2. CASE \E m \in env.modules : less = [env EXCEPT !.modules = @ \ {m}]
  <2>1. PICK m \in env.modules : less = [env EXCEPT !.modules = @ \ {m}]
    BY <1>2
  <2>2. env.modules \ {m} \in SUBSET Modules
    BY DEF Environment
  <2> QED
    BY <2>1, <2>2 DEF Environment
<1>3. CASE \/ less = [env EXCEPT !["marker"] = FALSE]
           \/ less = [env EXCEPT !["fingerprint"] = "none"]
           \/ less = [env EXCEPT !["mode"] = "unknown"]
  BY <1>3 DEF Environment
<1> QED
  BY <1>1, <1>2, <1>3 DEF Lesser

LEMMA InitType == Init => TypeInv
<1> SUFFICES ASSUME Init PROVE TypeInv
  OBVIOUS
<1>1. venv \in Environment
  <2>1. CASE venv = NoEnvironment
    BY <2>1, EnvironmentType
  <2>2. CASE venv \in UserEnvironments
    <3>1. PICK kind \in {"bare", "configured", "usable"}, modules \in UserModules :
             venv = UserEnvironment(kind, modules)
      BY <2>2 DEF UserEnvironments
    <3>2. modules \in SUBSET Modules
      BY UserModulesAssumption
    <3>3. venv = [kind |-> kind, marker |-> FALSE, fingerprint |-> "none", mode |-> "unknown",
                  modules |-> modules, madeBy |-> "user"]
      BY <3>1 DEF UserEnvironment, NoEnvironment
    <3> QED
      BY <3>2, <3>3 DEF Environment, Kinds
  <2>3. CASE venv \in {ManagedEnvironment(m) : m \in Modes}
    BY <2>3, EnvironmentType
  <2> QED
    BY <2>1, <2>2, <2>3 DEF Init
<1>2. used \in [{"signals", "kills", "failures"} -> Nat]
  BY DEF Init
<1> QED
  BY <1>1, <1>2, SetupAssumption DEF Init, TypeInv, TypeOK, AttemptLeft, Steps

(* The steps of acquire_lock.                                              *)
LEMMA AcquireType ==
    ASSUME TypeInv, NEW p \in Setups,
           Start(p) \/ MakeLock(p) \/ ReadOwner(p) \/ ProbeOwner(p) \/ StealLock(p) \/ WritePid(p)
    PROVE  TypeInv'
<1> USE SetupAssumption DEF TypeInv, TypeOK, AttemptLeft, Steps, Goto
<1>1. CASE Start(p)
  BY <1>1 DEF Start
<1>2. CASE MakeLock(p)
  BY <1>2 DEF MakeLock
<1>3. CASE ReadOwner(p)
  BY <1>3 DEF ReadOwner, TryAgain
<1>4. CASE ProbeOwner(p)
  BY <1>4 DEF ProbeOwner, TryAgain
<1>5. CASE StealLock(p)
  BY <1>5 DEF StealLock
<1>6. CASE WritePid(p)
  BY <1>6 DEF WritePid, Working
<1> QED
  BY <1>1, <1>2, <1>3, <1>4, <1>5, <1>6

(* A setup that has the lock goes on or ends, whatever it does to the      *)
(* environment.                                                            *)
LEMMA WorkType ==
    ASSUME TypeInv, NEW p \in Setups, venv' \in Environment, lock' \in {lock, NoLock},
           pc' = pc \/ (\E step \in Working \cup {"done"} : Goto(p, step)),
           UNCHANGED <<wanted, held, owner, attempts, signalled, used>>
    PROVE  TypeInv'
<1>1. pc' \in [Setups -> Steps]
  BY DEF TypeInv, TypeOK, Goto, Steps
<1>2. AttemptLeft'
  BY DEF TypeInv, TypeOK, AttemptLeft, Goto, Working
<1> QED
  BY <1>1, <1>2 DEF TypeInv, TypeOK

(* pip leaves some of what was there and of what it is asked for.          *)
LEMMA PipSteps ==
    ASSUME NEW p \in Setups, Uninstall(p) \/ Install(p)
    PROVE  \E modules \in SUBSET (venv.modules \cup Needed(wanted[p])),
              next \in {"fetch", "verify"} : Pip(p, modules, next)
<1>1. CASE Uninstall(p)
  <2>1. PICK lost \in SUBSET Needed(wanted[p]) : Pip(p, venv.modules \ lost, "fetch")
    BY <1>1 DEF Uninstall
  <2>2. venv.modules \ lost \in SUBSET (venv.modules \cup Needed(wanted[p]))
    OBVIOUS
  <2> QED
    BY <2>1, <2>2
<1>2. CASE Install(p)
  <2>1. PICK got \in SUBSET Needed(wanted[p]) : Pip(p, venv.modules \cup got, "verify")
    BY <1>2 DEF Install
  <2>2. venv.modules \cup got \in SUBSET (venv.modules \cup Needed(wanted[p]))
    OBVIOUS
  <2> QED
    BY <2>1, <2>2
<1> QED
  BY <1>1, <1>2

(* The steps on the environment, one after the other.                      *)
LEMMA EnvironmentStepType ==
    ASSUME TypeInv, NEW p \in Setups,
           \/ Prepare(p) \/ Remove(p) \/ Build(p) \/ Configure(p) \/ AddPython(p) \/ Mark(p)
           \/ Check(p) \/ Uninstall(p) \/ Install(p)
           \/ VerifyInstall(p) \/ RecordFingerprint(p) \/ RecordMode(p) \/ Finish(p)
    PROVE  TypeInv'
<1>0. venv \in Environment /\ wanted[p] \in Modes
  BY DEF TypeInv, TypeOK
<1>1. CASE Prepare(p)
  <2>1. venv' \in Environment
    BY <1>0, <1>1, EnvironmentType DEF Prepare
  <2> QED
    BY <1>1, <2>1, WorkType DEF Prepare, Exit, Goto, Working
<1>2. CASE Build(p)
  <2>1. venv' \in Environment
    BY <1>0, <1>2, EnvironmentType DEF Build, Kinds
  <2> QED
    BY <1>2, <2>1, WorkType DEF Build, Exit, Goto, Working
<1>3. CASE Configure(p) \/ AddPython(p)
  <2>1. Configured(venv.kind) \in Kinds /\ Executable(venv.kind) \in Kinds
    BY <1>0 DEF Configured, Executable, Environment, Kinds
  <2>2. venv' \in Environment
    BY <1>0, <1>3, <2>1, EnvironmentType DEF Configure, AddPython, Write
  <2> QED
    BY <1>3, <2>2, WorkType DEF Configure, AddPython, Write, Exit, Goto, Working
<1>11. CASE Remove(p)
  <2>1. venv' \in Environment
    BY <1>0, <1>11, EnvironmentType, LesserIs DEF Remove
  <2> QED
    BY <1>11, <2>1, WorkType DEF Remove, Goto, Working
<1>4. CASE Mark(p)
  <2>1. venv' \in Environment
    BY <1>0, <1>4, EnvironmentType DEF Mark, Write
  <2> QED
    BY <1>4, <2>1, WorkType DEF Mark, Write, Exit, Goto, Working
<1>5. CASE Check(p)
  <2>1. venv' \in Environment
    BY <1>0, <1>5 DEF Check
  <2> QED
    BY <1>5, <2>1, WorkType DEF Check, Exit, Goto, Working
<1>6. CASE Uninstall(p) \/ Install(p)
  <2>1. PICK modules \in SUBSET (venv.modules \cup Needed(wanted[p])),
             next \in {"fetch", "verify"} : Pip(p, modules, next)
    BY <1>6, PipSteps
  <2>3. modules \in SUBSET Modules
    BY <1>0 DEF Environment, Needed, Modules
  <2>2. venv' \in Environment
    BY <1>0, <2>1, <2>3, EnvironmentType DEF Pip
  <2> QED
    BY <2>1, <2>2, WorkType DEF Pip, Exit, Goto, Working
<1>7. CASE VerifyInstall(p)
  <2>1. venv' \in Environment
    BY <1>0, <1>7 DEF VerifyInstall
  <2> QED
    BY <1>7, <2>1, WorkType DEF VerifyInstall, Exit, Goto, Working
<1>8. CASE RecordFingerprint(p)
  <2>1. venv' \in Environment
    BY <1>0, <1>8, EnvironmentType DEF RecordFingerprint, Write
  <2> QED
    BY <1>8, <2>1, WorkType DEF RecordFingerprint, Write, Exit, Goto, Working
<1>9. CASE RecordMode(p)
  <2>1. venv' \in Environment
    BY <1>0, <1>9, EnvironmentType DEF RecordMode, Write
  <2> QED
    BY <1>9, <2>1, WorkType DEF RecordMode, Write, Exit, Goto, Working
<1>10. CASE Finish(p)
  <2>1. venv' \in Environment
    BY <1>0, <1>10 DEF Finish
  <2> QED
    BY <1>10, <2>1, WorkType DEF Finish, Exit, Goto, Working
<1> QED
  BY <1>1, <1>2, <1>3, <1>4, <1>5, <1>6, <1>7, <1>8, <1>9, <1>10, <1>11

LEMMA FaultType ==
    ASSUME TypeInv, NEW p \in Setups, CommandFails(p) \/ Signal(p) \/ Kill(p)
    PROVE  TypeInv'
<1> USE DEF TypeInv, TypeOK, AttemptLeft, Steps, Working, Goto, Exit, Spend
<1>1. CASE CommandFails(p)
  BY <1>1 DEF CommandFails
<1>2. CASE Signal(p)
  BY <1>2 DEF Signal
<1>3. CASE Kill(p)
  BY <1>3 DEF Kill
<1> QED
  BY <1>1, <1>2, <1>3

LEMMA TypeStep == TypeInv /\ [Next]_vars => TypeInv'
<1>1. ASSUME TypeInv, UNCHANGED vars PROVE TypeInv'
  BY <1>1 DEF vars, TypeInv, TypeOK, AttemptLeft
<1> QED
  BY <1>1, AcquireType, EnvironmentStepType, FaultType DEF Next, Script

(* Every variable keeps its type, and a setup that looks for the lock has  *)
(* an attempt left, for any number of setups.                              *)
THEOREM TypeCorrect == Spec => []TypeOK
BY InitType, TypeStep, PTL DEF Spec, TypeInv

-----------------------------------------------------------------------------
(* The user's directory.                                                   *)

(* What a person made carries no marker, and nobody is building it.        *)
UserInv ==
    venv.madeBy = "user" =>
        /\ ~ venv.marker /\ venv.kind # "absent"
        /\ \A p \in Setups : pc[p] \notin {"venv", "python", "mark"}

Keeps ==
    venv.madeBy = "user" /\ venv.kind \in {"bare", "usable"}
      /\ (\A p \in Setups : pc[p] # "remove") =>
          /\ venv'.madeBy = "user" /\ venv'.kind = venv.kind
          /\ \A p \in Setups : pc'[p] # "remove"

(* Steps that do not touch the environment or start to build or remove it. *)
LEMMA UntouchedUser ==
    ASSUME TypeInv, UserInv, venv' = venv,
           \A p \in Setups : /\ pc'[p] \in {"venv", "python", "mark"} =>
                                   pc[p] \in {"venv", "python", "mark"}
                             /\ pc'[p] = "remove" => pc[p] = "remove"
    PROVE  UserInv' /\ Keeps
BY DEF UserInv, Keeps

LEMMA UserStep ==
    ASSUME TypeInv, UserInv, [Next]_vars
    PROVE  UserInv' /\ Keeps
<1>0. venv \in Environment /\ pc \in [Setups -> Steps]
  BY DEF TypeInv, TypeOK
<1>1. CASE UNCHANGED vars
  BY <1>1, UntouchedUser DEF vars
<1>2. ASSUME NEW p \in Setups,
             \/ Start(p) \/ MakeLock(p) \/ ReadOwner(p) \/ ProbeOwner(p) \/ StealLock(p)
             \/ WritePid(p) \/ Check(p) \/ VerifyInstall(p) \/ Finish(p)
             \/ CommandFails(p) \/ Signal(p) \/ Kill(p)
      PROVE  UserInv' /\ Keeps
  <2>1. /\ venv' = venv
        /\ \A q \in Setups : /\ pc'[q] \in {"venv", "python", "mark"} =>
                                   pc[q] \in {"venv", "python", "mark"}
                             /\ pc'[q] = "remove" => pc[q] = "remove"
    BY <1>0, <1>2
       DEF Start, MakeLock, ReadOwner, ProbeOwner, StealLock, WritePid, TryAgain, Check,
           VerifyInstall, Finish, CommandFails, Signal, Kill, Goto, Exit
  <2> QED
    BY <2>1, UntouchedUser
<1>3. ASSUME NEW p \in Setups, Prepare(p)
      PROVE  UserInv' /\ Keeps
  <2>1. venv' = venv /\ \A q \in Setups : pc'[q] \notin {"venv", "python", "mark"}
                                             \/ pc'[q] = pc[q]
    BY <1>0, <1>3 DEF Prepare, Goto, Exit
  <2>2. UserInv'
    BY <2>1 DEF UserInv
  <2>3. Keeps
    BY <1>0, <1>3 DEF Prepare, Incomplete, Obsolete, UserInv, Keeps, Goto, Exit
  <2> QED
    BY <2>2, <2>3
<1>4. ASSUME NEW p \in Setups, Build(p)
      PROVE  UserInv' /\ Keeps
  BY <1>0, <1>4 DEF Build, UserInv, Keeps, Environment, NoEnvironment, Goto
<1>5. ASSUME NEW p \in Setups, Configure(p) \/ AddPython(p) \/ Mark(p)
      PROVE  UserInv' /\ Keeps
  <2>1. venv.madeBy # "user"
    BY <1>5 DEF Configure, AddPython, Mark, UserInv
  <2>2. venv'.madeBy = venv.madeBy
    BY <1>0, <1>5 DEF Configure, AddPython, Mark, Write, Environment
  <2> QED
    BY <2>1, <2>2 DEF UserInv, Keeps
<1>6. ASSUME NEW p \in Setups, Uninstall(p) \/ Install(p) \/ RecordFingerprint(p) \/ RecordMode(p)
      PROVE  UserInv' /\ Keeps
  <2>1. venv'.madeBy = venv.madeBy /\ venv'.marker = venv.marker /\ venv'.kind = venv.kind
    BY <1>0, <1>6 DEF Uninstall, Install, Pip, RecordFingerprint, RecordMode, Write, Environment
  <2>2. \A q \in Setups : /\ pc'[q] \in {"venv", "python", "mark"} =>
                                pc[q] \in {"venv", "python", "mark"}
                          /\ pc'[q] = "remove" => pc[q] = "remove"
    BY <1>0, <1>6
       DEF Uninstall, Install, Pip, RecordFingerprint, RecordMode, Write, Goto, Exit
  <2> QED
    BY <2>1, <2>2 DEF UserInv, Keeps
<1>7. ASSUME NEW p \in Setups, Remove(p)
      PROVE  UserInv' /\ Keeps
  <2>1. Keeps
    BY <1>7 DEF Remove, Keeps
  <2>2. CASE venv' = NoEnvironment
    BY <2>1, <2>2 DEF UserInv, NoEnvironment
  <2>3. CASE venv' \in Lesser(venv) /\ UNCHANGED pc
    <3>1. /\ venv'.madeBy = venv.madeBy
          /\ venv'.marker => venv.marker
          /\ venv'.kind # "absent" \/ venv.kind = "absent"
      BY <1>0, <2>3, LesserIs
    <3>2. venv'.marker \in BOOLEAN
      BY <1>0, <2>3, LesserIs DEF Environment
    <3> QED
      BY <2>1, <2>3, <3>1, <3>2 DEF UserInv
  <2> QED
    BY <1>7, <2>1, <2>2, <2>3 DEF Remove
<1> QED
  BY <1>1, <1>2, <1>3, <1>4, <1>5, <1>6, <1>7 DEF Next, Script

(* A directory of the user's that works, or that is no environment at all, *)
(* is never removed, whatever number of setups run, fail, are killed or    *)
(* get a signal.                                                           *)
THEOREM UserDirectoryIsKept == Spec => UserDirectoryKept
<1>1. Init => UserInv
  <2> SUFFICES ASSUME Init, venv.madeBy = "user" PROVE ~ venv.marker /\ venv.kind # "absent"
    BY DEF Init, UserInv
  <2>1. venv \in UserEnvironments
    BY DEF Init, NoEnvironment, ManagedEnvironment
  <2>2. PICK kind \in {"bare", "configured", "usable"}, modules \in UserModules :
           venv = UserEnvironment(kind, modules)
    BY <2>1 DEF UserEnvironments
  <2> QED
    BY <2>2 DEF UserEnvironment, NoEnvironment
<1>2. TypeInv /\ UserInv /\ [Next]_vars => UserInv' /\ Keeps
  BY UserStep
<1>3. Keeps => [venv.madeBy = "user" /\ venv.kind \in {"bare", "usable"}
                   /\ (\A p \in Setups : pc[p] # "remove") =>
                       /\ venv'.madeBy = "user" /\ venv'.kind = venv.kind
                       /\ \A p \in Setups : pc'[p] # "remove"]_vars
  BY DEF Keeps
<1> QED
  BY InitType, <1>1, TypeStep, <1>2, <1>3, PTL DEF Spec, UserDirectoryKept

-----------------------------------------------------------------------------
(* Exclusion of two setups.                                                *)

Ended == {"done", "killed"}

(* A pid in the lock directory, or read from it, is that of a setup that   *)
(* has had the lock; a setup about to steal the lock steals it from one    *)
(* that has ended.                                                         *)
OwnerInv ==
    \A p \in Setups :
        /\ held[p] => pc[p] \in Working \cup Ended
        /\ lock = p => pc[p] \in Working \cup Ended
        /\ pc[p] \in {"probe", "steal"} =>
              owner[p] \in Setups \ {p} /\ pc[owner[p]] \in Working \cup Ended
        /\ pc[p] = "steal" => pc[owner[p]] \in Ended

(* Unless a trap has released the lock of a setup that goes on, who passed *)
(* mkdir has the lock directory, and nobody else did.                      *)
LockInv ==
    signalled = {} =>
        \A p \in Setups :
            /\ pc[p] \in Working => held[p] /\ lock = p
            /\ pc[p] = "pid" => lock = NoPid
            /\ \A q \in Setups \ {p} :
                  pc[p] \in {"pid"} \cup Working => pc[q] \notin {"pid"} \cup Working

ExclusionInv == TypeInv /\ OwnerInv /\ LockInv

TwoSetups == \A p, q, r \in Setups : p = q \/ q = r \/ p = r

(* A setup with the lock goes on.                                          *)
LEMMA GoesOn ==
    ASSUME ExclusionInv, NEW p \in Setups, NEW step \in Working, pc[p] \in Working,
           Goto(p, step), UNCHANGED <<lock, held, owner, signalled>>
    PROVE  OwnerInv' /\ LockInv'
<1> USE DEF ExclusionInv, TypeInv, TypeOK, Goto, Ended, Working, Steps
<1>1. OwnerInv'
  BY DEF OwnerInv
<1>2. LockInv'
  BY DEF LockInv
<1> QED
  BY <1>1, <1>2

(* A setup with the lock ends.                                             *)
LEMMA Ends ==
    ASSUME ExclusionInv, NEW p \in Setups, pc[p] \in Working, Exit(p),
           UNCHANGED <<held, owner, signalled>>
    PROVE  OwnerInv' /\ LockInv'
<1> USE SetupAssumption DEF ExclusionInv, TypeInv, TypeOK, Exit, Goto, Ended, Working
<1>1. OwnerInv'
  BY DEF OwnerInv
<1>2. LockInv'
  BY DEF LockInv
<1> QED
  BY <1>1, <1>2

LEMMA AcquireStep ==
    ASSUME TwoSetups, ExclusionInv, NEW p \in Setups,
           Start(p) \/ MakeLock(p) \/ ReadOwner(p) \/ ProbeOwner(p) \/ StealLock(p) \/ WritePid(p)
    PROVE  OwnerInv' /\ LockInv'
<1> USE SetupAssumption DEF ExclusionInv, TypeInv, TypeOK, Goto, Ended, Working
<1>1. CASE Start(p)
  <2>1. OwnerInv'
    BY <1>1 DEF Start, OwnerInv
  <2>2. LockInv'
    BY <1>1 DEF Start, LockInv
  <2> QED
    BY <2>1, <2>2
<1>2. CASE MakeLock(p)
  <2>1. OwnerInv'
    BY <1>2 DEF MakeLock, OwnerInv
  <2>2. LockInv'
    BY <1>2 DEF MakeLock, LockInv
  <2> QED
    BY <2>1, <2>2
<1>3. CASE ReadOwner(p)
  <2>1. OwnerInv'
    BY <1>3 DEF ReadOwner, TryAgain, OwnerInv
  <2>2. LockInv'
    BY <1>3 DEF ReadOwner, TryAgain, LockInv
  <2> QED
    BY <2>1, <2>2
<1>4. CASE ProbeOwner(p)
  <2>1. OwnerInv'
    BY <1>4 DEF ProbeOwner, Alive, TryAgain, OwnerInv
  <2>2. LockInv'
    BY <1>4 DEF ProbeOwner, TryAgain, LockInv
  <2> QED
    BY <2>1, <2>2
<1>5. CASE StealLock(p)
  <2>1. OwnerInv'
    BY <1>5 DEF StealLock, OwnerInv
  <2>2. \A q \in Setups \ {p} : pc[q] \in Ended
    BY <1>5 DEF StealLock, OwnerInv, TwoSetups
  <2>3. LockInv'
    BY <1>5, <2>2 DEF StealLock, LockInv
  <2> QED
    BY <2>1, <2>3
<1>6. CASE WritePid(p)
  <2>1. OwnerInv'
    BY <1>6 DEF WritePid, OwnerInv
  <2>2. LockInv'
    BY <1>6 DEF WritePid, LockInv
  <2> QED
    BY <2>1, <2>2
<1> QED
  BY <1>1, <1>2, <1>3, <1>4, <1>5, <1>6

LEMMA ExclusionStep ==
    ASSUME TwoSetups, ExclusionInv, [Next]_vars
    PROVE  ExclusionInv'
<1>0. TypeInv'
  BY TypeStep DEF ExclusionInv
<1>1. CASE UNCHANGED vars
  BY <1>0, <1>1 DEF vars, ExclusionInv, OwnerInv, LockInv
<1>2. ASSUME NEW p \in Setups,
             Start(p) \/ MakeLock(p) \/ ReadOwner(p) \/ ProbeOwner(p) \/ StealLock(p) \/ WritePid(p)
      PROVE  OwnerInv' /\ LockInv'
  BY <1>2, AcquireStep
<1>3. ASSUME NEW p \in Setups,
             \/ Prepare(p) \/ Build(p) \/ Configure(p) \/ AddPython(p) \/ Mark(p)
             \/ Check(p) \/ Uninstall(p) \/ Install(p) \/ VerifyInstall(p) 
             \/ RecordFingerprint(p) \/ RecordMode(p) \/ Finish(p) \/ CommandFails(p)
      PROVE  OwnerInv' /\ LockInv'
  <2>1. /\ pc[p] \in Working /\ UNCHANGED <<held, owner, signalled>>
        /\ Exit(p) \/ (UNCHANGED lock /\ \E step \in Working : Goto(p, step))
    BY <1>3
       DEF Prepare, Build, Configure, AddPython, Mark, Check, Uninstall, Install, Pip,
           VerifyInstall, RecordFingerprint, RecordMode, Finish, CommandFails, Write, Working
  <2> QED
    BY <2>1, GoesOn, Ends
<1>4. ASSUME NEW p \in Setups, Remove(p)
      PROVE  OwnerInv' /\ LockInv'
  <2>1. /\ pc[p] \in Working /\ UNCHANGED <<held, owner, signalled>>
        /\ \/ UNCHANGED <<lock, pc>>
           \/ UNCHANGED lock /\ \E step \in Working : Goto(p, step)
    BY <1>4 DEF Remove, Working
  <2>2. CASE UNCHANGED <<lock, pc>>
    BY <2>1, <2>2 DEF ExclusionInv, OwnerInv, LockInv
  <2> QED
    BY <2>1, <2>2, GoesOn, Ends
<1>5. ASSUME NEW p \in Setups, Signal(p)
      PROVE  OwnerInv' /\ LockInv'
  <2>1. /\ UNCHANGED <<pc, held, owner>>
        /\ UNCHANGED <<lock, signalled>> \/ (lock' = NoLock /\ signalled' # {})
    BY <1>5 DEF Signal
  <2>2. OwnerInv'
    BY <2>1, SetupAssumption DEF ExclusionInv, OwnerInv
  <2>3. LockInv'
    BY <2>1 DEF ExclusionInv, LockInv
  <2> QED
    BY <2>2, <2>3
<1>6. ASSUME NEW p \in Setups, Kill(p)
      PROVE  OwnerInv' /\ LockInv'
  <2> USE <1>6 DEF Kill, Goto, ExclusionInv, TypeInv, TypeOK, Alive, Ended, Working
  <2>1. OwnerInv'
    BY DEF OwnerInv
  <2>2. LockInv'
    BY DEF LockInv
  <2> QED
    BY <2>1, <2>2
<1> QED
  BY <1>0, <1>1, <1>2, <1>3, <1>4, <1>5, <1>6 DEF Next, Script, ExclusionInv

LEMMA ExclusionInit == Init => ExclusionInv
BY InitType, SetupAssumption DEF Init, ExclusionInv, OwnerInv, LockInv, Working, Ended

(* Of two setups of a worktree one at most works on the environment, with  *)
(* any number of attempts, failures and deaths, and any environment.       *)
THEOREM TwoSetupsAreExclusive == ASSUME TwoSetups PROVE Spec => []TwoSetupsExclude
<1>1. Init => ExclusionInv
  BY ExclusionInit
<1>2. ExclusionInv /\ [Next]_vars => ExclusionInv'
  BY ExclusionStep
<1>3. ExclusionInv => TwoSetupsExclude
  BY DEF ExclusionInv, LockInv, TwoSetupsExclude, SetupExclusion
<1> QED
  BY <1>1, <1>2, <1>3, PTL DEF Spec

-----------------------------------------------------------------------------
(* What a setup leaves behind.                                             *)

Late == {"check", "install", "fetch", "verify", "record", "mode", "ready"}

(* An environment setup.sh made holds no module that its recorded mode     *)
(* does not ask for.                                                       *)
Sound == venv.marker /\ venv.mode \in Modes => venv.modules \subseteq Needed(venv.mode)

(* What the setup that works on the environment knows about it.            *)
Knows(p) ==
    /\ pc[p] = "build" =>
          venv.kind = "absent" \/ (HasPython /\ (venv.marker => venv.mode = wanted[p]))
    /\ pc[p] \in {"venv", "python", "mark"} => venv.modules = {} /\ venv.mode = "unknown"
    /\ pc[p] \in Late /\ venv.marker =>
          venv.modules \subseteq Needed(wanted[p]) /\ venv.mode \in {"unknown", wanted[p]}
    /\ pc[p] \in {"record", "mode", "ready"} => Satisfied(wanted[p])

InstalledInv == signalled = {} => Sound /\ \A p \in Setups : Knows(p)

(* Whoever does not work on the environment knows nothing about it.        *)
LEMMA OutsiderKnows ==
    ASSUME ExclusionInv, signalled = {}, NEW p \in Setups, pc[p] \in Working,
           NEW q \in Setups \ {p}, pc'[q] = pc[q]
    PROVE  Knows(q)'
<1>1. pc'[q] \notin Working
  BY DEF ExclusionInv, LockInv
<1> QED
  BY <1>1 DEF Knows, Late, Working

LEMMA InstalledStep ==
    ASSUME ExclusionInv, InstalledInv, NEW p \in Setups, Script(p), signalled = {},
           pc[p] \in Working
    PROVE  Sound' /\ Knows(p)'
<1>0. /\ venv \in Environment /\ pc \in [Setups -> Steps] /\ wanted[p] \in Modes
      /\ Sound /\ Knows(p)
  BY DEF ExclusionInv, TypeInv, TypeOK, InstalledInv
<1> USE <1>0 DEF Sound, Knows, Late, Satisfied, HasPython, Goto, Working, Environment
<1>1. CASE Prepare(p)
  BY <1>1 DEF Prepare, Exit, Obsolete, NoEnvironment, Modes
<1>11. CASE Remove(p)
  <2>1. CASE venv' = NoEnvironment
    BY <1>11, <2>1 DEF Remove, NoEnvironment, Modes
  <2>2. CASE venv' \in Lesser(venv) /\ UNCHANGED pc
    <3>1. /\ venv' \in Environment /\ venv'.modules \subseteq venv.modules
          /\ venv'.marker => venv.marker
          /\ venv'.mode \in {venv.mode, "unknown"}
      BY <2>2, LesserIs
    <3>2. pc'[p] = "remove"
      BY <1>11, <2>2 DEF Remove
    <3> QED
      BY <3>1, <3>2 DEF Modes
  <2> QED
    BY <1>11, <2>1, <2>2 DEF Remove
<1>2. CASE Build(p)
  BY <1>2 DEF Build, NoEnvironment, Modes
<1>3. CASE Configure(p) \/ AddPython(p)
  BY <1>3 DEF Configure, AddPython, Write, Exit, Modes
<1>4. CASE Mark(p)
  BY <1>4 DEF Mark, Write, Exit, Modes
<1>5. CASE Check(p)
  BY <1>5 DEF Check, Exit
<1>6. CASE Uninstall(p) \/ Install(p)
  <2>1. PICK modules \in SUBSET (venv.modules \cup Needed(wanted[p])),
             next \in {"fetch", "verify"} : Pip(p, modules, next)
    BY <1>6, PipSteps
  <2>2. CASE venv.kind # "usable"
    BY <1>6, <2>1, <2>2 DEF Pip, Exit
  <2>3. CASE venv.kind = "usable"
    <3>1. /\ venv'.modules = modules
          /\ venv'.kind = venv.kind /\ venv'.marker = venv.marker
          /\ venv'.fingerprint = venv.fingerprint /\ venv'.mode = venv.mode
      BY <2>1, <2>3 DEF Pip
    <3>2. wanted' = wanted /\ pc'[p] = next /\ pc[p] \in {"install", "fetch"}
      BY <1>6, <2>1, <2>3 DEF Pip, Uninstall, Install
    <3>3. Sound'
      BY <2>1, <3>1, <3>2, SMTT(30) DEF Modes
    <3>4. Knows(p)'
      BY <2>1, <3>1, <3>2
    <3> QED
      BY <3>3, <3>4
  <2> QED
    BY <2>2, <2>3
<1>7. CASE VerifyInstall(p)
  BY <1>7 DEF VerifyInstall, Exit
<1>8. CASE RecordFingerprint(p)
  BY <1>8 DEF RecordFingerprint, Write, Exit, Modes
<1>9. CASE RecordMode(p)
  BY <1>9 DEF RecordMode, Write, Exit, Modes
<1>10. CASE Finish(p)
  BY <1>10 DEF Finish, Exit
<1> QED
  BY <1>1, <1>2, <1>3, <1>4, <1>5, <1>6, <1>7, <1>8, <1>9, <1>10, <1>11
     DEF Script, MakeLock, ReadOwner, ProbeOwner, StealLock, WritePid

LEMMA InstalledInvStep ==
    ASSUME ExclusionInv, InstalledInv, [Next]_vars
    PROVE  InstalledInv'
<1> SUFFICES ASSUME signalled' = {} PROVE Sound' /\ \A p \in Setups : Knows(p)'
  BY DEF InstalledInv
<1>1. CASE UNCHANGED vars
  BY <1>1 DEF vars, InstalledInv, Sound, Knows, Satisfied, HasPython
<1>2. ASSUME NEW p \in Setups, Start(p) \/ Script(p) \/ CommandFails(p) \/ Signal(p) \/ Kill(p)
      PROVE  Sound' /\ \A q \in Setups : Knows(q)'
  <2>1. signalled = {}
    BY <1>2
       DEF Start, Script, CommandFails, Signal, Kill, MakeLock, ReadOwner, ProbeOwner, StealLock,
           WritePid, Prepare, Remove, Build, Configure, AddPython, Mark, Check, Uninstall,
             Install, Pip, VerifyInstall,
           RecordFingerprint, RecordMode, Finish, Write
  <2>2. CASE Script(p) /\ pc[p] \in Working
    <3>1. \A q \in Setups \ {p} : pc'[q] = pc[q]
      BY <2>2
         DEF ExclusionInv, TypeInv, TypeOK, Script, Goto, Exit, Write, MakeLock, ReadOwner,
             ProbeOwner, StealLock, WritePid, Prepare, Remove, Build, Configure, AddPython, Mark,
             Check, Uninstall, Install, Pip,
             VerifyInstall, RecordFingerprint, RecordMode, Finish, TryAgain
    <3>2. \A q \in Setups \ {p} : Knows(q)'
      BY <2>1, <2>2, <3>1, OutsiderKnows
    <3> QED
      BY <2>1, <2>2, <3>2, InstalledStep
  <2>3. CASE \/ Start(p) \/ CommandFails(p) \/ Signal(p) \/ Kill(p)
             \/ Script(p) /\ pc[p] \notin Working
    <3>1. UNCHANGED <<venv, wanted>>
      BY <2>3
         DEF Start, CommandFails, Signal, Kill, Script, MakeLock, ReadOwner, ProbeOwner, StealLock,
             WritePid, Prepare, Remove, Build, Configure, AddPython, Mark, Check, Uninstall,
             Install, Pip, VerifyInstall,
             RecordFingerprint, RecordMode, Finish, Working
    <3>2. \A q \in Setups :
             pc'[q] \in {"build", "venv", "python", "mark"} \cup Late => pc'[q] = pc[q]
      BY <2>3
         DEF ExclusionInv, TypeInv, TypeOK, Start, CommandFails, Signal, Kill, Script, MakeLock,
             ReadOwner, ProbeOwner, StealLock, WritePid, TryAgain, Prepare, Remove, Build,
             Configure, AddPython, Mark, Check, Uninstall, Install, VerifyInstall,
             RecordFingerprint, RecordMode, Finish, Working, Goto, Exit, Late
    <3>3. Sound'
      BY <2>1, <3>1 DEF InstalledInv, Sound, Satisfied
    <3>4. \A q \in Setups : Knows(q)'
      BY <2>1, <3>1, <3>2 DEF InstalledInv, Knows, Satisfied, HasPython, Late
    <3> QED
      BY <3>3, <3>4
  <2> QED
    BY <1>2, <2>2, <2>3
<1> QED
  BY <1>1, <1>2 DEF Next

LEMMA InstalledInit == Init => InstalledInv
<1> SUFFICES ASSUME Init PROVE Sound /\ \A p \in Setups : Knows(p)
  BY DEF InstalledInv
<1>1. Sound
  <2>1. CASE venv = NoEnvironment
    BY <2>1 DEF NoEnvironment, Sound
  <2>2. CASE venv \in UserEnvironments
    <3>1. PICK kind \in {"bare", "configured", "usable"}, modules \in UserModules :
             venv = UserEnvironment(kind, modules)
      BY <2>2 DEF UserEnvironments
    <3> QED
      BY <3>1 DEF UserEnvironment, NoEnvironment, Sound
  <2>3. CASE venv \in {ManagedEnvironment(m) : m \in Modes}
    BY <2>3 DEF ManagedEnvironment, Sound
  <2> QED
    BY <2>1, <2>2, <2>3 DEF Init
<1> QED
  BY <1>1 DEF Init, Knows, Late

EarnedStep ==
    \A mode \in Modes :
        signalled = {} /\ venv.fingerprint # mode /\ venv'.fingerprint = mode =>
            venv'.kind = "usable" /\ Needed(mode) \subseteq venv'.modules

(* Only RecordFingerprint writes a fingerprint.                            *)
LEMMA FingerprintStep ==
    ASSUME ExclusionInv, InstalledInv, [Next]_vars
    PROVE  EarnedStep
<1> SUFFICES ASSUME NEW mode \in Modes, signalled = {},
                    venv.fingerprint # mode, venv'.fingerprint = mode
             PROVE  venv'.kind = "usable" /\ Needed(mode) \subseteq venv'.modules
  BY DEF EarnedStep
<1>0. venv \in Environment /\ mode # "none" /\ venv'.fingerprint # venv.fingerprint
  BY DEF ExclusionInv, TypeInv, TypeOK, Modes
<1>1. PICK p \in Setups : Start(p) \/ Script(p) \/ CommandFails(p) \/ Signal(p) \/ Kill(p)
  BY <1>0 DEF Next, vars
<1>2. RecordFingerprint(p)
  <2>1. venv' # venv
    BY <1>0
  <2>2. CASE Remove(p)
    <3>1. CASE venv' \in Lesser(venv)
      BY <1>0, <3>1, LesserIs
    <3> QED
      BY <1>0, <2>2, <3>1 DEF Remove, NoEnvironment
  <2>3. CASE Build(p)
    BY <1>0, <2>3 DEF Build, NoEnvironment
  <2>4. CASE Configure(p) \/ AddPython(p) \/ Mark(p) \/ RecordMode(p)
    BY <1>0, <2>4 DEF Configure, AddPython, Mark, RecordMode, Write, Environment
  <2>5. CASE Uninstall(p) \/ Install(p)
    BY <1>0, <2>5 DEF Uninstall, Install, Pip, Environment
  <2> QED
    BY <1>1, <2>1, <2>2, <2>3, <2>4, <2>5
       DEF Start, Script, CommandFails, Signal, Kill, MakeLock, ReadOwner, ProbeOwner, StealLock,
           WritePid, Prepare, Check, VerifyInstall, Finish
<1>3. Satisfied(wanted[p])
  BY <1>2 DEF RecordFingerprint, InstalledInv, Knows
<1>4. venv' = [venv EXCEPT !["fingerprint"] = wanted[p]]
  BY <1>0, <1>2 DEF RecordFingerprint, Write
<1> QED
  BY <1>0, <1>3, <1>4 DEF Satisfied, Environment

(* A fingerprint is written over a verified, complete installation only,   *)
(* whatever number of steps the two setups fail at, or are killed at, half *)
(* a removal or installation included.                                     *)
THEOREM FingerprintsAreEarned == ASSUME TwoSetups PROVE Spec => FingerprintIsEarned
<1>1. Init => ExclusionInv
  BY ExclusionInit
<1>2. ExclusionInv /\ [Next]_vars => ExclusionInv'
  BY ExclusionStep
<1>3. ExclusionInv /\ InstalledInv /\ [Next]_vars => InstalledInv'
  BY InstalledInvStep
<1>4. ExclusionInv /\ InstalledInv /\ [Next]_vars =>
          [\A mode \in Modes :
              signalled = {} /\ venv.fingerprint # mode /\ venv'.fingerprint = mode =>
                  venv'.kind = "usable" /\ Needed(mode) \subseteq venv'.modules]_vars
  BY FingerprintStep DEF EarnedStep
<1> QED
  BY <1>1, <1>2, <1>3, <1>4, InstalledInit, PTL DEF Spec, FingerprintIsEarned

(* A setup that reports ready leaves the modules of its mode in place, and *)
(* in an environment of setup.sh no others.                                *)
THEOREM ReadySetupsInstalled == ASSUME TwoSetups PROVE Spec => []ReadyMeansInstalled
<1>1. Init => ExclusionInv
  BY ExclusionInit
<1>2. ExclusionInv /\ [Next]_vars => ExclusionInv'
  BY ExclusionStep
<1>3. ExclusionInv /\ InstalledInv /\ [Next]_vars => InstalledInv'
  BY InstalledInvStep
<1>4. InstalledInv => ReadyMeansInstalled
  BY DEF InstalledInv, Knows, Late, Satisfied, ReadyMeansInstalled
<1> QED
  BY <1>1, <1>2, <1>3, <1>4, InstalledInit, PTL DEF Spec
=============================================================================
