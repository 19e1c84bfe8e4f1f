----------------------------- MODULE RootCause ------------------------------
(***************************************************************************)
(* dbt_diagnostics/root_cause.py with enrichers/run_identity.py: one       *)
(* verdict for each object that Snowflake said "does not exist or not      *)
(* authorized".  A LiveObjectProbe recovers the role of the failed run,    *)
(* asks whether the object exists and, if not, what the role is granted.   *)
(* Each question is a query of its own: any of them may fail, and between  *)
(* two of them objects are built and dropped, grants change, and the query *)
(* history catches up with the run.                                        *)
(*                                                                         *)
(* Abstracted: the objects lie in one schema, and the full name of none is *)
(* part of the full name of another.  Taken as a LIKE pattern, in which    *)
(* "_" and "%" stand for anything, a name may fit other objects than its   *)
(* own, or, quoted, not even that.                                         *)
(***************************************************************************)
EXTENDS Naturals

CONSTANTS
    Objects,        \* fully qualified names the reports are about
    Unknown,        \* the group of the reports whose object cannot be told
    Schema,         \* the schema the objects lie in
    Fits,           \* per object: the objects its name fits as a pattern
    Views,          \* the objects that are views
    Roles, NoRole,
    RunRole,        \* the role the failed run used
    SessionRole,    \* the role of the connection that diagnoses
    InitialGrants,  \* what the roles may be granted at first
    MaxChanges      \* bound of the changes in Snowflake

ASSUME RoleAssumption ==
    /\ RunRole \in Roles /\ SessionRole \in Roles /\ NoRole \notin Roles
    /\ Unknown \notin Objects /\ MaxChanges \in Nat
    /\ Fits \in [Objects -> SUBSET Objects] /\ Views \subseteq Objects

VARIABLES
    tables,    \* Snowflake: the objects that exist
    grants,    \* Snowflake: what each role is granted
    history,   \* Snowflake: where the query history is with the failed query
    inputs,    \* declared role of the profile; whether run_results has a
               \* query_id, and a completion time for it
    pc,        \* the next step of the diagnosis
    pending,   \* groups without a verdict
    group,     \* the group in hand
    identity,  \* LiveObjectProbe._role_identity
    attempts,  \* of recover_role_by_query_id
    exists,    \* what the existence probe said of the group in hand
    verdict,   \* per group: verdict, and the role identity it names
    seen,      \* history, per object: what has been true of it so far
    pages,     \* history: where the query history has been so far
    failed,    \* history: groups for which a query was not answered, and
               \* NoRole when one was not while the identity was looked for
    changes    \* how much of the bound is spent

world == <<tables, grants, history, seen, pages, changes>>
vars  == <<world, inputs, pc, pending, group, identity, attempts, exists, verdict, failed>>

-----------------------------------------------------------------------------
Groups == Objects \cup {Unknown}

Grants == [privilege : {"USAGE"}, on : {Schema}]
          \cup [privilege : {"SELECT", "OWNERSHIP"}, on : Objects]

ASSUME GrantsAssumption == InitialGrants \subseteq [Roles -> SUBSET Grants]

(* The failed query is not in the history yet, is there, or is there no    *)
(* more while the history has moved on.                                    *)
Pages == {"behind", "shown", "gone"}

Identity == [role : Roles \cup {NoRole},
             provenance : {"recovered", "declared", "session", "unknown"}]

NoIdentity == [role |-> NoRole, provenance |-> "unknown"]

Verdicts == {"none", "exists_now", "never_built", "denied", "unverified"}

Steps == {"connect", "group", "identity", "lag", "ladder", "exists", "access", "done"}

(* What can be true of an object: that it exists, whether SHOW TABLES LIKE *)
(* would list a table for it, and which roles have no grant that counts.   *)
Listable == [privilege |-> "USAGE", on |-> Schema] \in grants[SessionRole]

Visible(o) == o \in tables /\ \E g \in grants[SessionRole] : g.on = o

Listed(o) == \E t \in Fits[o] \ Views : Visible(t)

(* check_role_grants: grants on the object, and USAGE or OWNERSHIP of      *)
(* anything in the schema.                                                 *)
GrantsFound(role, o) ==
    {g \in grants[role] : g.on = o \/ g.privilege \in {"USAGE", "OWNERSHIP"}}

Facts(o) ==
    (IF o \in tables THEN {"built"} ELSE {})
    \cup (IF Listable THEN {IF Listed(o) THEN "listed" ELSE "unlisted"} ELSE {})
    \cup {r \in Roles : GrantsFound(r, o) = {}}

TypeOK ==
    /\ tables \subseteq Objects
    /\ grants \in [Roles -> SUBSET Grants]
    /\ history \in Pages
    /\ inputs \in [declared : Roles \cup {NoRole}, query : BOOLEAN, ended : BOOLEAN]
    /\ pc \in Steps
    /\ pending \subseteq Groups
    /\ group \in Groups
    /\ identity \in {{}} \cup {{i} : i \in Identity}
    /\ attempts \in 0 .. 1
    /\ exists \in {"yes", "no", "unanswered"}
    /\ verdict \in [Groups -> [says : Verdicts, by : Identity]]
    /\ seen \in [Objects -> SUBSET ({"built", "listed", "unlisted"} \cup Roles)]
    /\ pages \subseteq Pages
    /\ failed \subseteq Objects \cup {NoRole}
    /\ changes \in 0 .. MaxChanges

Init ==
    /\ tables \in SUBSET Objects
    /\ grants \in InitialGrants
    /\ \A r \in Roles, g \in UNION {grants[s] : s \in Roles} :
          g \in grants[r] => g.on \in tables \cup {Schema}
    /\ history \in Pages
    /\ inputs \in [declared : {RunRole, NoRole}, query : BOOLEAN, ended : BOOLEAN]
    /\ inputs.ended => inputs.query
    /\ pc = "connect"
    /\ pending = Groups
    /\ group = Unknown
    /\ identity = {}
    /\ attempts = 0
    /\ exists = "unanswered"
    /\ verdict = [g \in Groups |-> [says |-> "none", by |-> NoIdentity]]
    /\ seen = [o \in Objects |-> Facts(o)]
    /\ pages = {history}
    /\ failed = {}
    /\ changes = 0

-----------------------------------------------------------------------------
(* Snowflake, while the diagnosis runs.                                    *)

Changes ==
    /\ changes < MaxChanges
    /\ changes' = changes + 1
    /\ seen' = [o \in Objects |-> seen[o] \cup Facts(o)']
    /\ UNCHANGED <<history, pages, inputs, pc, pending, group, identity, attempts, exists,
                   verdict, failed>>

(* Another process builds an object, in some role, which owns it.          *)
Build(o, r) ==
    /\ o \notin tables
    /\ tables' = tables \cup {o}
    /\ grants' = [grants EXCEPT ![r] = @ \cup {[privilege |-> "OWNERSHIP", on |-> o]}]
    /\ Changes

Drop(o) ==
    /\ o \in tables
    /\ tables' = tables \ {o}
    /\ grants' = [r \in Roles |-> {g \in grants[r] : g.on # o}]
    /\ Changes

Grant(r) ==
    /\ \E g \in Grants \ grants[r] :
         /\ g.on \in tables \cup {Schema}
         /\ grants' = [grants EXCEPT ![r] = @ \cup {g}]
    /\ UNCHANGED tables
    /\ Changes

Revoke(r) ==
    /\ \E g \in grants[r] : grants' = [grants EXCEPT ![r] = @ \ {g}]
    /\ UNCHANGED tables
    /\ Changes

HistoryMoves ==
    /\ \/ history = "behind" /\ history' \in {"shown", "gone"}
       \/ history = "shown" /\ history' = "gone"
    /\ pages' = pages \cup {history'}
    /\ UNCHANGED <<tables, grants, seen, changes, inputs, pc, pending, group, identity,
                   attempts, exists, verdict, failed>>

-----------------------------------------------------------------------------
(* The diagnosis.                                                          *)

(* With no connection every verdict is "unverified".                       *)
Connect ==
    /\ pc = "connect"
    /\ \/ pc' = "group" /\ UNCHANGED <<pending, verdict>>
       \/ /\ pc' = "done"
          /\ pending' = {}
          /\ verdict' = [g \in Groups |-> [says |-> "unverified", by |-> NoIdentity]]
    /\ UNCHANGED <<world, inputs, group, identity, attempts, exists, failed>>

Conclude(says, by) ==
    /\ verdict' = [verdict EXCEPT ![group'] = [says |-> says, by |-> by]]
    /\ pc' = "group"

(* Mutant: the role is looked up anew for every group.                     *)
NextGroupAsksAgain ==
    /\ pc = "group"
    /\ \E g \in pending :
         /\ group' = g
         /\ pending' = pending \ {g}
         /\ \/ g = Unknown /\ Conclude("unverified", NoIdentity)
            \/ g # Unknown /\ pc' = "identity" /\ UNCHANGED verdict
    /\ UNCHANGED <<world, inputs, identity, attempts, exists, failed>>

(* _apply_verdict: the first group to need it looks for the role.          *)
NextGroup ==
    /\ pc = "group"
    /\ \E g \in pending :
         /\ group' = g
         /\ pending' = pending \ {g}
         /\ \/ g = Unknown /\ Conclude("unverified", NoIdentity)
            \/ g # Unknown /\ identity = {} /\ pc' = "identity" /\ UNCHANGED verdict
            \/ g # Unknown /\ identity # {} /\ pc' = "exists" /\ UNCHANGED verdict
    /\ UNCHANGED <<world, inputs, identity, attempts, exists, failed>>

Finish ==
    /\ pc = "group"
    /\ pending = {}
    /\ pc' = "done"
    /\ UNCHANGED <<world, inputs, pending, group, identity, attempts, exists, verdict, failed>>

Identify(role, provenance) ==
    /\ identity' = {[role |-> role, provenance |-> provenance]}
    /\ pc' = "exists"

(* _row_role: no row, because of the history or because the query failed.  *)
LookUpQuery ==
    /\ pc = "identity"
    /\ \/ ~ inputs.query /\ pc' = "ladder" /\ UNCHANGED <<identity, failed>>
       \/ /\ inputs.query
          /\ history = "shown"
          /\ Identify(RunRole, "recovered")
          /\ UNCHANGED failed
       \/ /\ inputs.query
          /\ pc' = "lag"
          /\ failed' = IF history = "shown" THEN failed \cup {NoRole} ELSE failed
          /\ UNCHANGED identity
    /\ UNCHANGED <<world, inputs, pending, group, attempts, exists, verdict>>

(* Mutant: attempts are not counted.                                       *)
CheckLagForever ==
    /\ pc = "lag"
    /\ \E answered \in BOOLEAN :
         pc' = IF inputs.ended /\ (~ answered \/ history = "behind") THEN "identity" ELSE "ladder"
    /\ UNCHANGED <<world, inputs, pending, group, identity, attempts, exists, verdict, failed>>

(* Mutant: the history lags when it is ahead of the run.                   *)
CheckLagInverted ==
    /\ pc = "lag"
    /\ \E answered \in BOOLEAN :
         LET lagging == inputs.ended /\ (~ answered \/ history # "behind")
         IN  IF lagging /\ attempts < 1
             THEN pc' = "identity" /\ attempts' = attempts + 1
             ELSE pc' = "ladder" /\ UNCHANGED attempts
    /\ UNCHANGED <<world, inputs, pending, group, identity, exists, verdict, failed>>

(* _is_lagging: without a watermark the history is taken to lag.  One more *)
(* attempt is made, after a pause.                                         *)
CheckLag ==
    /\ pc = "lag"
    /\ \E answered \in BOOLEAN :
         LET lagging == inputs.ended /\ (~ answered \/ history = "behind")
         IN  IF lagging /\ attempts < 1
             THEN pc' = "identity" /\ attempts' = attempts + 1
             ELSE pc' = "ladder" /\ UNCHANGED attempts
    /\ UNCHANGED <<world, inputs, pending, group, identity, exists, verdict, failed>>

(* recover_run_role: the declared role, else the session's.                *)
ClimbDown ==
    /\ pc = "ladder"
    /\ \/ inputs.declared # NoRole /\ Identify(inputs.declared, "declared") /\ UNCHANGED failed
       \/ inputs.declared = NoRole /\ Identify(SessionRole, "session") /\ UNCHANGED failed
       \/ /\ inputs.declared = NoRole
          /\ Identify(NoRole, "unknown")
          /\ failed' = failed \cup {NoRole}
    /\ UNCHANGED <<world, inputs, pending, group, attempts, exists, verdict>>

(* recover_run_role raises, as on a closed connection: role_identity keeps *)
(* the declared role.                                                      *)
RecoveryRaises ==
    /\ pc \in {"identity", "lag"}
    /\ inputs.query
    /\ Identify(inputs.declared, IF inputs.declared = NoRole THEN "unknown" ELSE "declared")
    /\ failed' = failed \cup {NoRole}
    /\ UNCHANGED <<world, inputs, pending, group, attempts, exists, verdict>>

TheIdentity == CHOOSE i \in identity : TRUE

(* Mutant: a probe that could not run counts as "no such table".           *)
ProbeFailureIsAbsence ==
    /\ pc = "exists"
    /\ UNCHANGED group
    /\ \/ /\ Listable /\ Listed(group)
          /\ exists' = "yes"
          /\ Conclude("exists_now", TheIdentity)
          /\ UNCHANGED failed
       \/ /\ exists' = "no"
          /\ failed' = failed \cup {group}
          /\ pc' = "access"
          /\ UNCHANGED verdict
    /\ UNCHANGED <<world, inputs, pending, identity, attempts>>

(* table_exists: SHOW TABLES LIKE lists the tables, and no views, that the *)
(* session's role can see and whose names the object's name fits; it fails *)
(* without USAGE on the schema.                                            *)
ProbeExistence ==
    /\ pc = "exists"
    /\ UNCHANGED group
    /\ \/ /\ Listable /\ Listed(group)
          /\ exists' = "yes"
          /\ Conclude("exists_now", TheIdentity)
          /\ UNCHANGED failed
       \/ /\ Listable /\ ~ Listed(group)
          /\ exists' = "no"
          /\ pc' = "access"
          /\ UNCHANGED <<failed, verdict>>
       \/ /\ exists' = "unanswered"
          /\ failed' = failed \cup {group}
          /\ pc' = "access"
          /\ UNCHANGED verdict
    /\ UNCHANGED <<world, inputs, pending, identity, attempts>>

(* Nothing is found without a role, and when SHOW GRANTS fails.            *)
CheckAccess ==
    /\ pc = "access"
    /\ UNCHANGED group
    /\ \E answered \in BOOLEAN :
         LET role  == TheIdentity.role
             found == IF answered /\ role # NoRole THEN GrantsFound(role, group) ELSE {}
             access == \E g \in found : g.on = group
         IN  /\ failed' = IF answered THEN failed ELSE failed \cup {group}
             /\ \/ exists = "no" /\ found # {} /\ Conclude("denied", TheIdentity)
                \/ exists = "no" /\ found = {} /\ Conclude("never_built", TheIdentity)
                \/ exists = "unanswered" /\ ~ access /\ Conclude("denied", TheIdentity)
                \/ exists = "unanswered" /\ access /\ Conclude("unverified", TheIdentity)
    /\ UNCHANGED <<world, inputs, pending, identity, attempts, exists>>

-----------------------------------------------------------------------------
Diagnose ==
    \/ Connect \/ NextGroup \/ Finish
    \/ LookUpQuery \/ CheckLag \/ ClimbDown \/ RecoveryRaises
    \/ ProbeExistence \/ CheckAccess

Next ==
    \/ Diagnose
    \/ \E o \in Objects : Drop(o) \/ \E r \in Roles : Build(o, r)
    \/ \E r \in Roles : Grant(r) \/ Revoke(r)
    \/ HistoryMoves

Spec == Init /\ [][Next]_vars

(* The diagnosis is scheduled, and the connector's queries return.         *)
FairSpec == Spec /\ WF_vars(Diagnose)

-----------------------------------------------------------------------------
(* Properties.                                                             *)

(* A definite verdict has grounds in Snowflake, whatever changed between   *)
(* the queries and whichever of them failed.  "Exists now": at some moment *)
(* the session could list a table that the object's name fits.  "Never     *)
(* built": at some moment it could list none, and at some moment the role  *)
(* the verdict names had no grant on the object or the use of the schema,  *)
(* but when the grants were not answered or no role is known.  That is not *)
(* to say that the object existed, or did not.                             *)
VerdictsHaveGrounds ==
    \A o \in Objects :
        /\ verdict[o].says = "exists_now" => "listed" \in seen[o]
        /\ verdict[o].says = "never_built" =>
              /\ "unlisted" \in seen[o]
              /\ o \in failed \/ verdict[o].by.role \in seen[o] \cup {NoRole}

(* All verdicts of a diagnosis name one role, of one provenance, although  *)
(* the query history may show the run's role between two of them.          *)
OneIdentity ==
    \A o1, o2 \in Objects :
        verdict[o1].by # NoIdentity /\ verdict[o2].says # "none" =>
            verdict[o1].by = verdict[o2].by

(* The role is the best one to be had: the run's own if the history shows  *)
(* the query all the time; never the session's if one is declared; and not *)
(* another than the run's before a second look when the history was behind *)
(* the run all the time.                                                   *)
LadderIsRespected ==
    \A i \in identity :
        /\ NoRole \notin failed /\ inputs.query /\ pages = {"shown"} =>
               i.provenance = "recovered" /\ i.role = RunRole
        /\ inputs.declared # NoRole => i.provenance \in {"recovered", "declared"}
        /\ NoRole \notin failed /\ inputs.ended /\ pages = {"behind"} => attempts = 1

(* Every group gets its verdict, though the history may lag for good.      *)
DiagnosisEnds == pc = "group" ~> pc = "done"

(* root_cause.py:13: "exists, denied -> the run's role cannot see it".     *)
(* USAGE on the schema alone, which the run's role needs to build there,   *)
(* makes an object that was never built one that is denied.                *)
DeniedMeansBuilt ==
    \A o \in Objects :
        verdict[o].says = "denied" /\ o \notin failed => "built" \in seen[o]
=============================================================================
