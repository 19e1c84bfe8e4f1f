--------------------------- MODULE WorktreeSetup ----------------------------
(***************************************************************************)
(* .codex/bin/setup.sh: concurrent and repeated setups of one worktree.    *)
(* A setup waits for a lock directory, looks at the virtual environment    *)
(* it finds, removes or builds it, installs into it, and records what it   *)
(* installed.  It can fail at a command, receive a signal (whose trap      *)
(* removes the lock directory and lets the script go on), or be killed.    *)
(*                                                                         *)
(* Abstracted: the version of Python, which is compared where the mode is, *)
(* and the contents of the dependency files, both constant here; reuse of  *)
(* a process id.                                                           *)
(***************************************************************************)
EXTENDS Naturals, FiniteSets

CONSTANTS
    Setups,       \* processes that run setup.sh
    NoLock,       \* there is no lock directory
    NoPid,        \* the lock directory holds no pid file
    UserModules,  \* what a user-managed environment may hold
    MaxAttempts, MaxSignals, MaxKills, MaxFailures  \* bounds of a check

ASSUME SetupAssumption ==
    /\ NoLock \notin Setups /\ NoPid \notin Setups /\ NoLock # NoPid
    /\ MaxAttempts \in Nat \ {0}

VARIABLES
    lock,       \* the lock directory: NoLock, NoPid, or whose pid it holds
    venv,       \* the virtual environment
    pc,         \* per setup: its next step
    wanted,     \* per setup: CODEX_INSTALL_LIVE
    held,       \* per setup: LOCK_HELD
    owner,      \* per setup: owner_pid, as read from the pid file
    attempts,   \* per setup
    signalled,  \* history: setups that got a signal while LOCK_HELD was 1
    used        \* how much of each bound is spent

vars == <<lock, venv, pc, wanted, held, owner, attempts, signalled, used>>

-----------------------------------------------------------------------------
Modes == {"0", "1"}

Modules == {"dev", "live"}

ASSUME UserModulesAssumption == UserModules \subseteq SUBSET Modules

Needed(mode) == IF mode = "1" THEN {"dev", "live"} ELSE {"dev"}

(* What there is of the directory, pyvenv.cfg and bin/python: none, the    *)
(* directory, pyvenv.cfg too, all, or the interpreter without pyvenv.cfg,  *)
(* which is then none of an environment, and pip refuses to install.       *)
Kinds == {"absent", "bare", "configured", "usable", "unconfigured"}

Environment ==
    [kind : Kinds, marker : BOOLEAN, fingerprint : Modes \cup {"none"},
     mode : Modes \cup {"unknown"}, modules : SUBSET Modules, madeBy : {"setup", "user"}]

NoEnvironment ==
    [kind |-> "absent", marker |-> FALSE, fingerprint |-> "none", mode |-> "unknown",
     modules |-> {}, madeBy |-> "setup"]

UserEnvironment(kind, modules) ==
    [NoEnvironment EXCEPT !.kind = kind, !.modules = modules, !.madeBy = "user"]

(* What a setup in this mode left that ran to its end.                     *)
ManagedEnvironment(mode) ==
    [kind |-> "usable", marker |-> TRUE, fingerprint |-> mode, mode |-> mode,
     modules |-> Needed(mode), madeBy |-> "setup"]

UserEnvironments ==
    {UserEnvironment(kind, modules) :
        kind \in {"bare", "configured", "usable"}, modules \in UserModules}

(* Steps between the return of acquire_lock and the end of the script.     *)
Working == {"prepare", "remove", "build", "venv", "python", "mark", "check",
            "install", "fetch", "verify", "record", "mode", "ready"}

Steps == {"start", "mkdir", "inspect", "probe", "steal", "pid", "done", "killed"} \cup Working

TypeOK ==
    /\ lock \in {NoLock, NoPid} \cup Setups
    /\ venv \in Environment
    /\ pc \in [Setups -> Steps]
    /\ wanted \in [Setups -> Modes]
    /\ held \in [Setups -> BOOLEAN]
    /\ owner \in [Setups -> {NoPid} \cup Setups]
    /\ attempts \in [Setups -> 0 .. MaxAttempts]
    /\ signalled \subseteq Setups
    /\ used \in [{"signals", "kills", "failures"} -> Nat]

Init ==
    /\ lock = NoLock
    /\ venv \in {NoEnvironment} \cup UserEnvironments \cup {ManagedEnvironment(m) : m \in Modes}
    /\ pc = [p \in Setups |-> "start"]
    /\ wanted \in [Setups -> Modes]
    /\ held = [p \in Setups |-> FALSE]
    /\ owner = [p \in Setups |-> NoPid]
    /\ attempts = [p \in Setups |-> 0]
    /\ signalled = {}
    /\ used = [k \in {"signals", "kills", "failures"} |-> 0]

-----------------------------------------------------------------------------
(* Helpers.                                                                *)

Alive(p) == pc[p] \notin {"start", "done", "killed"}

Goto(p, step) == pc' = [pc EXCEPT ![p] = step]

(* The script ends: the EXIT trap removes the lock directory if LOCK_HELD. *)
Exit(p) ==
    /\ Goto(p, "done")
    /\ lock' = IF held[p] THEN NoLock ELSE lock

Spend(what, bound) ==
    /\ used[what] < bound
    /\ used' = [used EXCEPT ![what] = @ + 1]

HasPython == venv.kind \in {"usable", "unconfigured"}

(* verify_environment.                                                     *)
Satisfied(mode) == venv.kind = "usable" /\ Needed(mode) \subseteq venv.modules

-----------------------------------------------------------------------------
(* acquire_lock.                                                           *)

Start(p) ==
    /\ pc[p] = "start"
    /\ Goto(p, "mkdir")
    /\ UNCHANGED <<lock, venv, wanted, held, owner, attempts, signalled, used>>

(* Mutant: mkdir -p, which succeeds on a directory that is there.          *)
MakeLockAlways(p) ==
    /\ pc[p] = "mkdir"
    /\ lock' = IF lock = NoLock THEN NoPid ELSE lock
    /\ Goto(p, "pid")
    /\ UNCHANGED <<venv, wanted, held, owner, attempts, signalled, used>>

(* mkdir "$LOCK_DIR": one setup succeeds.                                  *)
MakeLock(p) ==
    /\ pc[p] = "mkdir"
    /\ \/ lock = NoLock /\ lock' = NoPid /\ Goto(p, "pid")
       \/ lock # NoLock /\ Goto(p, "inspect") /\ UNCHANGED lock
    /\ UNCHANGED <<venv, wanted, held, owner, attempts, signalled, used>>

(* Mutant: attempts are not counted.                                       *)
TryForever(p) == Goto(p, "mkdir") /\ UNCHANGED attempts

(* One turn of the loop is over: give up, or sleep and try again.          *)
TryAgain(p) ==
    /\ attempts' = [attempts EXCEPT ![p] = @ + 1]
    /\ Goto(p, IF attempts'[p] >= MaxAttempts THEN "done" ELSE "mkdir")

(* owner_pid="$(cat pid)": empty when there is no file, or no content yet. *)
ReadOwner(p) ==
    /\ pc[p] = "inspect"
    /\ \/ /\ lock \in Setups
          /\ owner' = [owner EXCEPT ![p] = lock]
          /\ Goto(p, "probe")
          /\ UNCHANGED attempts
       \/ lock \notin Setups /\ TryAgain(p) /\ UNCHANGED owner
    /\ UNCHANGED <<lock, venv, wanted, held, signalled, used>>

(* kill -0 "$owner_pid".                                                   *)
ProbeOwner(p) ==
    /\ pc[p] = "probe"
    /\ \/ ~ Alive(owner[p]) /\ Goto(p, "steal") /\ UNCHANGED attempts
       \/ Alive(owner[p]) /\ TryAgain(p)
    /\ UNCHANGED <<lock, venv, wanted, held, owner, signalled, used>>

(* rm -rf "$LOCK_DIR"; continue: whoever's it is by now.                   *)
StealLock(p) ==
    /\ pc[p] = "steal"
    /\ lock' = NoLock
    /\ Goto(p, "mkdir")
    /\ UNCHANGED <<venv, wanted, held, owner, attempts, signalled, used>>

(* The pid is written into whatever lock directory is there; without one   *)
(* the redirection fails and `set -e` ends the script.                     *)
WritePid(p) ==
    /\ pc[p] = "pid"
    /\ \/ /\ lock # NoLock
          /\ lock' = p
          /\ held' = [held EXCEPT ![p] = TRUE]
          /\ Goto(p, "prepare")
       \/ lock = NoLock /\ Goto(p, "done") /\ UNCHANGED <<lock, held>>
    /\ UNCHANGED <<venv, wanted, owner, attempts, signalled, used>>

-----------------------------------------------------------------------------
(* The environment, once acquire_lock has returned.                        *)

(* Mutant: the mode of the environment at hand is not compared.            *)
ObsoleteByMarker(p) == FALSE

(* Mutant: an environment without the marker file is compared as well.     *)
ObsoleteByMode(p) == HasPython /\ venv.mode # wanted[p]

(* A Codex-managed environment for another mode.                           *)
Obsolete(p) == HasPython /\ venv.marker /\ venv.mode # wanted[p]

Incomplete == venv.kind = "configured" \/ (venv.kind = "bare" /\ venv.marker)

(* A directory that is no environment at all is left alone.                *)
Prepare(p) ==
    /\ pc[p] = "prepare"
    /\ \/ /\ Incomplete \/ Obsolete(p)
          /\ Goto(p, "remove")
          /\ UNCHANGED lock
       \/ /\ ~ Incomplete
          /\ venv.kind = "bare"
          /\ Exit(p)
       \/ /\ venv.kind = "absent" \/ (HasPython /\ ~ Obsolete(p))
          /\ Goto(p, "build")
          /\ UNCHANGED lock
    /\ UNCHANGED <<venv, wanted, held, owner, attempts, signalled, used>>

PartlyRemoved(kind) ==
    CASE kind = "usable" -> {"configured", "unconfigured"}
      [] kind \in {"configured", "unconfigured"} -> {"bare"}
      [] OTHER -> {}

(* The environment less one of its files.                                  *)
Lesser(env) ==
    ({[env EXCEPT !.kind = k] : k \in PartlyRemoved(env.kind)}
     \cup {[env EXCEPT !.modules = @ \ {m}] : m \in env.modules}
     \cup {[env EXCEPT !["marker"] = FALSE], [env EXCEPT !["fingerprint"] = "none"],
           [env EXCEPT !["mode"] = "unknown"]}) \ {env}

(* rm -rf: one file after the other, in no order, then the directory.      *)
Remove(p) ==
    /\ pc[p] = "remove"
    /\ \/ venv' \in Lesser(venv) /\ UNCHANGED pc
       \/ Lesser(venv) = {} /\ venv' = NoEnvironment /\ Goto(p, "build")
    /\ UNCHANGED <<lock, wanted, held, owner, attempts, signalled, used>>

(* `python -m venv` makes the directory, pyvenv.cfg and bin/python.        *)
Build(p) ==
    /\ pc[p] = "build"
    /\ \/ /\ venv.kind = "absent"
          /\ venv' = [NoEnvironment EXCEPT !.kind = "bare"]
          /\ Goto(p, "venv")
       \/ /\ venv.kind # "absent"
          /\ Goto(p, "check")
          /\ UNCHANGED venv
    /\ UNCHANGED <<lock, wanted, held, owner, attempts, signalled, used>>

Configured(kind) ==
    CASE kind = "bare" -> "configured" [] kind = "unconfigured" -> "usable" [] OTHER -> kind

Executable(kind) ==
    CASE kind = "bare" -> "unconfigured" [] kind = "configured" -> "usable" [] OTHER -> kind

(* Writing a file into an environment somebody removed fails the script.   *)
Write(p, file, value, next) ==
    /\ \/ /\ venv.kind # "absent"
          /\ venv' = [venv EXCEPT ![file] = value]
          /\ Goto(p, next)
          /\ UNCHANGED lock
       \/ /\ venv.kind = "absent"
          /\ Exit(p)
          /\ UNCHANGED venv
    /\ UNCHANGED <<wanted, held, owner, attempts, signalled, used>>

Configure(p) == pc[p] = "venv" /\ Write(p, "kind", Configured(venv.kind), "python")

AddPython(p) == pc[p] = "python" /\ Write(p, "kind", Executable(venv.kind), "mark")

Mark(p) == pc[p] = "mark" /\ Write(p, "marker", TRUE, "check")

(* The installation is skipped if the fingerprint matches, the environment *)
(* verifies and CODEX_SETUP_FORCE, which may be either, is 0.              *)
Check(p) ==
    /\ pc[p] = "check"
    /\ \/ /\ ~ HasPython
          /\ Exit(p)
       \/ /\ venv.fingerprint = wanted[p] /\ Satisfied(wanted[p])
          /\ Goto(p, "ready")
          /\ UNCHANGED lock
       \/ /\ HasPython
          /\ Goto(p, "install")
          /\ UNCHANGED lock
    /\ UNCHANGED <<venv, wanted, held, owner, attempts, signalled, used>>

(* A step of pip that leaves this of the modules; PIP_REQUIRE_VIRTUALENV.  *)
Pip(p, modules, next) ==
    /\ \/ /\ venv.kind = "usable"
          /\ venv' = [venv EXCEPT !.modules = modules]
          /\ Goto(p, next)
          /\ UNCHANGED lock
       \/ /\ venv.kind # "usable"
          /\ Exit(p)
          /\ UNCHANGED venv
    /\ UNCHANGED <<wanted, held, owner, attempts, signalled, used>>

(* To reinstall or upgrade what is there, pip first takes it away.         *)
Uninstall(p) ==
    /\ pc[p] = "install"
    /\ \E lost \in SUBSET Needed(wanted[p]) : Pip(p, venv.modules \ lost, "fetch")

(* That pip puts every module in place is not taken for granted.           *)
Install(p) ==
    /\ pc[p] = "fetch"
    /\ \E got \in SUBSET Needed(wanted[p]) : Pip(p, venv.modules \cup got, "verify")

(* Mutant: the installation is recorded without verify_environment.        *)
VerifyNothing(p) ==
    /\ pc[p] = "verify"
    /\ Goto(p, "record")
    /\ UNCHANGED <<lock, venv, wanted, held, owner, attempts, signalled, used>>

VerifyInstall(p) ==
    /\ pc[p] = "verify"
    /\ \/ Satisfied(wanted[p]) /\ Goto(p, "record") /\ UNCHANGED lock
       \/ ~ Satisfied(wanted[p]) /\ Exit(p)
    /\ UNCHANGED <<venv, wanted, held, owner, attempts, signalled, used>>

RecordFingerprint(p) ==
    pc[p] = "record" /\ Write(p, "fingerprint", wanted[p], "mode")

RecordMode(p) == pc[p] = "mode" /\ Write(p, "mode", wanted[p], "ready")

(* "Codex environment is ready."                                           *)
Finish(p) ==
    /\ pc[p] = "ready"
    /\ Exit(p)
    /\ UNCHANGED <<venv, wanted, held, owner, attempts, signalled, used>>

-----------------------------------------------------------------------------
(* What can go wrong.                                                      *)

(* A command fails, and `set -e` ends the script.                          *)
CommandFails(p) ==
    /\ pc[p] \in Working
    /\ Spend("failures", MaxFailures)
    /\ Exit(p)
    /\ UNCHANGED <<venv, wanted, held, owner, attempts, signalled>>

(* HUP, INT or TERM: the trap removes the lock directory if LOCK_HELD, and *)
(* the script continues.                                                   *)
Signal(p) ==
    /\ Alive(p)
    /\ Spend("signals", MaxSignals)
    /\ \/ held[p] /\ lock' = NoLock /\ signalled' = signalled \cup {p}
       \/ ~ held[p] /\ UNCHANGED <<lock, signalled>>
    /\ UNCHANGED <<venv, pc, wanted, held, owner, attempts>>

Kill(p) ==
    /\ Alive(p)
    /\ Spend("kills", MaxKills)
    /\ Goto(p, "killed")
    /\ UNCHANGED <<lock, venv, wanted, held, owner, attempts, signalled>>

-----------------------------------------------------------------------------
Script(p) ==
    \/ MakeLock(p) \/ ReadOwner(p) \/ ProbeOwner(p) \/ StealLock(p) \/ WritePid(p)
    \/ Prepare(p) \/ Remove(p) \/ Build(p) \/ Configure(p) \/ AddPython(p) \/ Mark(p)
    \/ Check(p) \/ Uninstall(p) \/ Install(p) \/ VerifyInstall(p)
    \/ RecordFingerprint(p) \/ RecordMode(p) \/ Finish(p)

Next ==
    \E p \in Setups :
        Start(p) \/ Script(p) \/ CommandFails(p) \/ Signal(p) \/ Kill(p)

(* A script that was started is scheduled, and its commands return.        *)
Fairness == \A p \in Setups : WF_vars(Script(p))

Spec == Init /\ [][Next]_vars

FairSpec == Spec /\ Fairness

-----------------------------------------------------------------------------
(* Properties.                                                             *)

(* .codex/README.md:69: the process lock makes concurrent setup safe.  Not *)
(* so: between reading a pid and probing it, its owner may end and another *)
(* setup take the lock, which is then removed as if it were stale.         *)
SetupExclusion ==
    \A p, q \in Setups : pc[p] \in Working /\ pc[q] \in Working => p = q

(* Of two setups one at most works on the environment, though either may   *)
(* fail or be killed at any step, as long as no trap released the lock of  *)
(* a setup that went on.                                                   *)
TwoSetupsExclude == signalled = {} => SetupExclusion

(* A setup that reports ready leaves the modules of its mode in place, and *)
(* in a Codex-managed environment no others, whatever an earlier setup in  *)
(* either mode left behind when it failed or was killed half-way.          *)
ReadyMeansInstalled ==
    \A p \in Setups :
        signalled = {} /\ pc[p] = "ready" =>
            /\ Satisfied(wanted[p])
            /\ venv.marker => venv.modules = Needed(wanted[p])

(* A fingerprint is written over a complete installation only, verified    *)
(* just before, although an earlier or the other setup may have been       *)
(* killed while it removed, uninstalled or installed.  What is on file may *)
(* outlive its modules (a kill in Remove or after Uninstall leaves it), so *)
(* that Check has to verify again: see ReadyMeansInstalled.                *)
FingerprintIsEarned ==
    [][\A mode \in Modes :
          signalled = {} /\ venv.fingerprint # mode /\ venv'.fingerprint = mode =>
              venv'.kind = "usable" /\ Needed(mode) \subseteq venv'.modules]_vars

(* A directory of the user's that is a working environment, or that is no  *)
(* environment at all, loses its interpreter to nobody and is not set out  *)
(* to be removed: concurrent, signalled, failing and killed setups         *)
(* included, which may leave it as it is after any step.                   *)
UserDirectoryKept ==
    [][venv.madeBy = "user" /\ venv.kind \in {"bare", "usable"}
          /\ (\A p \in Setups : pc[p] # "remove") =>
              /\ venv'.madeBy = "user" /\ venv'.kind = venv.kind
              /\ \A p \in Setups : pc'[p] # "remove"]_vars

(* .codex/README.md:72: a user-managed virtual environment is never        *)
(* deleted.  One whose interpreter is gone has a pyvenv.cfg and is removed *)
(* as an incomplete environment.                                           *)
UserEnvironmentKept == [][venv.madeBy = "user" => venv'.madeBy = "user"]_vars

(* A setup ends, if only by giving up on a lock nobody will release.       *)
EverySetupEnds == \A p \in Setups : pc[p] = "mkdir" ~> pc[p] \in {"done", "killed"}
=============================================================================
