--------------------------- MODULE RootCauseProofs ---------------------------
(***************************************************************************)
(* What a diagnosis of access failures says is sound, for any objects,     *)
(* roles and grants, any number of changes while it runs, and any queries  *)
(* that fail; a run of the command loses no failure, whatever the          *)
(* artifacts have in them; and the walks up any manifest find the nearest  *)
(* ancestor that declares a column, and blame the nearest that fails.      *)
(***************************************************************************)
EXTENDS RootCause, Lineage, Pipeline, InductionLemmas, FiniteSetTheorems

-----------------------------------------------------------------------------
(* Type correctness.                                                       *)
FactNames == {"built", "listed", "unlisted"} \cup Roles

LEMMA WorldStepType ==
    ASSUME TypeOK,
           \/ \E o \in Objects : Drop(o) \/ \E r \in Roles : Build(o, r)
           \/ \E r \in Roles : Grant(r) \/ Revoke(r)
    PROVE  TypeOK'
<1>1. changes' \in 0 .. MaxChanges
  BY RoleAssumption DEF TypeOK, Drop, Build, Grant, Revoke, Changes
<1>2. seen' \in [Objects -> SUBSET FactNames]
  <2>1. \A o \in Objects : Facts(o)' \subseteq FactNames
    BY DEF Facts, FactNames
  <2>2. seen' = [o \in Objects |-> seen[o] \cup Facts(o)']
    BY DEF Drop, Build, Grant, Revoke, Changes
  <2> QED
    BY <2>1, <2>2 DEF TypeOK, FactNames
<1>3. tables' \subseteq Objects /\ grants' \in [Roles -> SUBSET Grants]
  <2>1. \A o \in Objects : [privilege |-> "OWNERSHIP", on |-> o] \in Grants
    BY DEF Grants
  <2>2. ASSUME NEW o \in Objects, NEW r \in Roles, Build(o, r)
        PROVE  tables' \subseteq Objects /\ grants' \in [Roles -> SUBSET Grants]
    BY <2>1, <2>2 DEF TypeOK, Build
  <2>3. ASSUME NEW o \in Objects, Drop(o)
        PROVE  tables' \subseteq Objects /\ grants' \in [Roles -> SUBSET Grants]
    BY <2>3 DEF TypeOK, Drop
  <2>4. ASSUME NEW r \in Roles, Grant(r) \/ Revoke(r)
        PROVE  tables' \subseteq Objects /\ grants' \in [Roles -> SUBSET Grants]
    BY <2>4 DEF TypeOK, Grant, Revoke
  <2> QED
    BY <2>2, <2>3, <2>4
<1>4. UNCHANGED <<history, pages, inputs, pc, pending, group, identity, attempts, exists,
                  verdict, failed>>
  BY DEF Drop, Build, Grant, Revoke, Changes
<1> QED
  BY <1>1, <1>2, <1>3, <1>4 DEF TypeOK, FactNames

LEMMA IdentifyType ==
    ASSUME NEW role \in Roles \cup {NoRole},
           NEW provenance \in {"recovered", "declared", "session", "unknown"},
           Identify(role, provenance)
    PROVE  /\ identity' \in {{}} \cup {{i} : i \in Identity}
           /\ pc' = "exists"
<1>1. [role |-> role, provenance |-> provenance] \in Identity
  BY DEF Identity
<1> QED
  BY <1>1 DEF Identify

LEMMA ConcludeType ==
    ASSUME TypeOK, NEW says \in Verdicts, NEW by \in Identity, Conclude(says, by), group' \in Groups
    PROVE  verdict' \in [Groups -> [says : Verdicts, by : Identity]] /\ pc' = "group"
BY DEF TypeOK, Conclude

(* From the lookup of the role on, there is one identity and an object.    *)
InHand ==
    /\ pc \in {"identity", "lag", "ladder"} => identity = {}
    /\ pc \in {"exists", "access"} => identity # {}
    /\ pc \in {"identity", "lag", "ladder", "exists", "access"} => group # Unknown

TypeInv == TypeOK /\ InHand

LEMMA TheIdentityType ==
    ASSUME TypeOK, identity # {}
    PROVE  TheIdentity \in Identity /\ identity = {TheIdentity}
<1>1. PICK i \in Identity : identity = {i}
  BY DEF TypeOK
<1>2. TheIdentity = i
  BY <1>1 DEF TheIdentity
<1> QED
  BY <1>1, <1>2

(* The steps that neither identify nor conclude.                           *)
LEMMA PlainStepType ==
    ASSUME TypeInv, HistoryMoves \/ Finish \/ CheckLag
    PROVE  TypeInv'
<1> USE DEF TypeInv, TypeOK, InHand
<1>1. CASE HistoryMoves
  BY <1>1 DEF HistoryMoves, Pages
<1>2. CASE Finish
  BY <1>2 DEF Finish, Steps, world
<1>3. CASE CheckLag
  <2>1. pc' \in {"identity", "ladder"} /\ attempts' \in 0 .. 1 /\ pc = "lag"
    BY <1>3 DEF CheckLag
  <2>2. UNCHANGED <<world, inputs, pending, group, identity, exists, verdict, failed>>
    BY <1>3 DEF CheckLag
  <2> QED
    BY <2>1, <2>2 DEF world, Steps
<1> QED
  BY <1>1, <1>2, <1>3

LEMMA ConnectType ==
    ASSUME TypeInv, Connect
    PROVE  TypeInv'
<1>1. NoIdentity \in Identity
  BY DEF NoIdentity, Identity
<1>2. verdict' \in [Groups -> [says : Verdicts, by : Identity]]
  BY <1>1 DEF Connect, TypeInv, TypeOK, Verdicts
<1>3. pc' \in {"group", "done"} /\ pending' \subseteq Groups
      /\ UNCHANGED <<world, inputs, group, identity, attempts, exists, failed>>
  BY DEF Connect, TypeInv, TypeOK
<1> QED
  BY <1>2, <1>3 DEF TypeInv, TypeOK, InHand, world, Steps

LEMMA NextGroupType ==
    ASSUME TypeInv, NextGroup
    PROVE  TypeInv'
<1>0. NoIdentity \in Identity
  BY DEF NoIdentity, Identity
<1>1. PICK g \in pending :
         /\ group' = g
         /\ pending' = pending \ {g}
         /\ \/ g = Unknown /\ Conclude("unverified", NoIdentity)
            \/ g # Unknown /\ identity = {} /\ pc' = "identity" /\ UNCHANGED verdict
            \/ g # Unknown /\ identity # {} /\ pc' = "exists" /\ UNCHANGED verdict
  BY DEF NextGroup
<1>2. g \in Groups /\ UNCHANGED <<world, inputs, identity, attempts, exists, failed>>
  BY DEF NextGroup, TypeInv, TypeOK
<1>3. /\ verdict' \in [Groups -> [says : Verdicts, by : Identity]]
      /\ \/ pc' = "group"
         \/ g # Unknown /\ identity = {} /\ pc' = "identity"
         \/ g # Unknown /\ identity # {} /\ pc' = "exists"
  BY <1>0, <1>1, <1>2, ConcludeType DEF TypeInv, TypeOK, Verdicts
<1> QED
  BY <1>1, <1>2, <1>3 DEF TypeInv, TypeOK, InHand, world, Steps

(* LookUpQuery, ClimbDown and a recovery that raises.                      *)
LEMMA IdentifyStep ==
    ASSUME TypeInv, LookUpQuery \/ ClimbDown \/ RecoveryRaises
    PROVE  /\ TypeInv'
           /\ \/ UNCHANGED identity /\ pc' \in {"lag", "ladder"}
              \/ identity = {} /\ identity' # {} /\ pc' = "exists"
<1> USE RoleAssumption DEF TypeInv
<1>0. inputs.declared \in Roles \cup {NoRole} /\ identity = {} /\ group # Unknown
  BY DEF TypeOK, InHand, LookUpQuery, ClimbDown, RecoveryRaises
<1>1. /\ UNCHANGED <<world, inputs, pending, group, attempts, exists, verdict>>
      /\ failed' \subseteq Objects \cup {NoRole}
  BY DEF TypeOK, LookUpQuery, ClimbDown, RecoveryRaises
<1>2. \/ UNCHANGED identity /\ pc' \in {"lag", "ladder"}
      \/ \E role \in Roles \cup {NoRole},
            provenance \in {"recovered", "declared", "session", "unknown"} :
               Identify(role, provenance)
  BY <1>0 DEF LookUpQuery, ClimbDown, RecoveryRaises
<1>3. CASE UNCHANGED identity /\ pc' \in {"lag", "ladder"}
  BY <1>0, <1>1, <1>3 DEF TypeOK, InHand, world, Steps
<1>4. ASSUME NEW role \in Roles \cup {NoRole},
             NEW provenance \in {"recovered", "declared", "session", "unknown"},
             Identify(role, provenance)
      PROVE  TypeInv' /\ identity' # {} /\ pc' = "exists"
  <2>1. identity' \in {{}} \cup {{i} : i \in Identity} /\ identity' # {} /\ pc' = "exists"
    BY <1>4, IdentifyType DEF Identify
  <2> QED
    BY <1>0, <1>1, <2>1 DEF TypeOK, InHand, world, Steps
<1> QED
  BY <1>0, <1>2, <1>3, <1>4

LEMMA ProbeType ==
    ASSUME TypeInv, ProbeExistence \/ CheckAccess
    PROVE  /\ TypeInv'
           /\ group \in Objects /\ TheIdentity \in Identity /\ identity = {TheIdentity}
           /\ UNCHANGED <<world, inputs, pending, group, identity, attempts>>
           /\ failed \subseteq failed'
           /\ \/ UNCHANGED verdict /\ pc' = "access"
              \/ \E says \in Verdicts : Conclude(says, TheIdentity)
<1> USE DEF TypeInv
<1>1. group \in Objects /\ identity # {}
  BY DEF TypeOK, InHand, Groups, ProbeExistence, CheckAccess
<1>2. TheIdentity \in Identity /\ identity = {TheIdentity}
  BY <1>1, TheIdentityType
<1>3. UNCHANGED <<world, inputs, pending, group, identity, attempts>>
  BY DEF ProbeExistence, CheckAccess
<1>4. /\ exists' \in {"yes", "no", "unanswered"}
      /\ failed' \subseteq Objects \cup {NoRole} /\ failed \subseteq failed'
  BY <1>1 DEF TypeOK, ProbeExistence, CheckAccess
<1>5. \/ UNCHANGED verdict /\ pc' = "access"
      \/ \E says \in Verdicts : Conclude(says, TheIdentity)
  BY DEF ProbeExistence, CheckAccess, Verdicts
<1>6. verdict' \in [Groups -> [says : Verdicts, by : Identity]] /\ pc' \in {"access", "group"}
  BY <1>1, <1>2, <1>3, <1>5, ConcludeType DEF TypeOK, Groups
<1>7. TypeInv'
  <2>1. TypeOK'
    BY <1>3, <1>4, <1>6 DEF TypeOK, world, Steps
  <2>2. InHand'
    BY <1>1, <1>3, <1>6, RoleAssumption DEF InHand
  <2> QED
    BY <2>1, <2>2
<1> QED
  BY <1>1, <1>2, <1>3, <1>4, <1>5, <1>7

LEMMA TypeStep == TypeInv /\ [Next]_vars => TypeInv'
<1> SUFFICES ASSUME TypeInv, [Next]_vars PROVE TypeInv'
  OBVIOUS
<1>1. CASE UNCHANGED vars
  BY <1>1 DEF vars, world, TypeInv, TypeOK, InHand
<1>2. CASE \/ \E o \in Objects : Drop(o) \/ \E r \in Roles : Build(o, r)
           \/ \E r \in Roles : Grant(r) \/ Revoke(r)
  <2>1. UNCHANGED <<pc, identity, group>>
    BY <1>2 DEF Drop, Build, Grant, Revoke, Changes
  <2> QED
    BY <1>2, <2>1, WorldStepType DEF TypeInv, InHand
<1>3. CASE Diagnose \/ HistoryMoves
  BY <1>3, PlainStepType, ConnectType, NextGroupType, IdentifyStep, ProbeType DEF Diagnose
<1> QED
  BY <1>1, <1>2, <1>3 DEF Next

LEMMA TypeInit == Init => TypeInv
<1> SUFFICES ASSUME Init PROVE TypeInv
  OBVIOUS
<1>1. NoIdentity \in Identity
  BY DEF NoIdentity, Identity
<1>2. verdict \in [Groups -> [says : Verdicts, by : Identity]]
  BY <1>1 DEF Init, Verdicts
<1>3. seen \in [Objects -> SUBSET FactNames]
  BY DEF Init, Facts, FactNames
<1>4. inputs \in [declared : Roles \cup {NoRole}, query : BOOLEAN, ended : BOOLEAN]
  BY RoleAssumption DEF Init
<1> QED
  BY <1>2, <1>3, <1>4, RoleAssumption, GrantsAssumption
     DEF Init, TypeInv, TypeOK, InHand, FactNames, Steps, Groups, Pages

(* Every value the diagnosis keeps has the type that RootCause states.     *)
THEOREM TypeCorrect == Spec => []TypeOK
<1>1. TypeInv => TypeOK
  BY DEF TypeInv
<1> QED
  BY <1>1, TypeInit, TypeStep, PTL DEF Spec

LEMMA TypeInvHolds == Spec => []TypeInv
BY TypeInit, TypeStep, PTL DEF Spec

-----------------------------------------------------------------------------
(* Grounds.  A probe that finds no table leaves the proof of it in seen    *)
(* until the grants are looked at, a query later.                          *)
ProbeHasGrounds ==
    pc = "access" /\ exists = "no" => "unlisted" \in seen[group]

Grounds ==
    /\ \A o \in Objects : Facts(o) \subseteq seen[o]
    /\ ProbeHasGrounds
    /\ VerdictsHaveGrounds

(* What "never built" rests on.                                            *)
HasGroundsToDeny(o, by, unanswered) ==
    /\ "unlisted" \in seen[o]
    /\ o \in unanswered \/ by.role \in seen[o] \cup {NoRole}

(* A diagnosis only asks: what is true of the objects stays so.            *)
LEMMA WorldStays ==
    ASSUME Grounds, UNCHANGED <<tables, grants, seen>>
    PROVE  \A o \in Objects : Facts(o)' \subseteq seen'[o]
BY DEF Grounds, Facts, Listed, Visible, Listable, GrantsFound

(* A verdict with grounds leaves the other objects' verdicts alone.        *)
LEMMA ConcludeHasGrounds ==
    ASSUME TypeOK, Grounds, UNCHANGED <<group, seen>>, group \in Objects,
           NEW says \in Verdicts, NEW by \in Identity, Conclude(says, by),
           says = "exists_now" => "listed" \in seen[group],
           says = "never_built" => HasGroundsToDeny(group, by, failed'),
           failed \subseteq failed'
    PROVE  ProbeHasGrounds' /\ VerdictsHaveGrounds'
<1>1. pc' = "group" /\ group' = group /\ seen' = seen
  BY DEF Conclude
<1>2. /\ verdict'[group] = [says |-> says, by |-> by]
      /\ \A o \in Objects \ {group} : verdict'[o] = verdict[o]
  BY <1>1 DEF Conclude, TypeOK, Groups
<1> QED
  BY <1>1, <1>2 DEF Grounds, ProbeHasGrounds, VerdictsHaveGrounds, HasGroundsToDeny

LEMMA GroundsOfQuestions ==
    ASSUME TypeInv, Grounds, ProbeExistence \/ CheckAccess
    PROVE  ProbeHasGrounds' /\ VerdictsHaveGrounds'
<1>1. /\ group \in Objects /\ TheIdentity \in Identity
      /\ UNCHANGED <<group, seen>> /\ failed \subseteq failed'
  BY ProbeType DEF world
<1>2. Facts(group) \subseteq seen[group] /\ TypeOK
  BY <1>1 DEF Grounds, TypeInv
<1>3. CASE ProbeExistence
  <2>1. CASE Listable /\ Listed(group) /\ Conclude("exists_now", TheIdentity)
    <3>1. "listed" \in seen[group]
      BY <1>2, <2>1 DEF Facts
    <3> QED
      BY <1>1, <1>2, <2>1, <3>1, ConcludeHasGrounds DEF Verdicts
  <2>2. CASE Listable /\ ~ Listed(group) /\ exists' = "no" /\ UNCHANGED verdict
    <3>1. "unlisted" \in seen[group]
      BY <1>2, <2>2 DEF Facts
    <3> QED
      BY <1>1, <2>2, <3>1 DEF Grounds, ProbeHasGrounds, VerdictsHaveGrounds
  <2>3. CASE exists' = "unanswered" /\ UNCHANGED verdict
    BY <1>1, <2>3 DEF Grounds, ProbeHasGrounds, VerdictsHaveGrounds
  <2> QED
    BY <1>3, <2>1, <2>2, <2>3 DEF ProbeExistence
<1>4. CASE CheckAccess
  <2>1. PICK answered \in BOOLEAN :
           LET role   == TheIdentity.role
               found  == IF answered /\ role # NoRole THEN GrantsFound(role, group) ELSE {}
               access == \E g \in found : g.on = group
           IN  /\ failed' = IF answered THEN failed ELSE failed \cup {group}
               /\ \/ exists = "no" /\ found # {} /\ Conclude("denied", TheIdentity)
                  \/ exists = "no" /\ found = {} /\ Conclude("never_built", TheIdentity)
                  \/ exists = "unanswered" /\ ~ access /\ Conclude("denied", TheIdentity)
                  \/ exists = "unanswered" /\ access /\ Conclude("unverified", TheIdentity)
    BY <1>4 DEF CheckAccess
  <2> DEFINE role  == TheIdentity.role
             found == IF answered /\ role # NoRole THEN GrantsFound(role, group) ELSE {}
  <2>2. \/ exists = "no" /\ found = {} /\ Conclude("never_built", TheIdentity)
        \/ \E says \in {"denied", "unverified"} : Conclude(says, TheIdentity)
    BY <2>1
  <2>3. CASE exists = "no" /\ found = {} /\ Conclude("never_built", TheIdentity)
    <3>1. "unlisted" \in seen[group]
      BY <1>4, <2>3 DEF CheckAccess, Grounds, ProbeHasGrounds
    <3>2. role \in Roles \cup {NoRole}
      BY <1>1 DEF Identity
    <3>3. CASE ~ answered
      <4>1. group \in failed'
        BY <2>1, <3>3
      <4> QED
        BY <1>1, <1>2, <2>3, <3>1, <4>1, ConcludeHasGrounds DEF Verdicts, HasGroundsToDeny
    <3>4. CASE answered
      <4>1. role \in seen[group] \cup {NoRole}
        BY <1>2, <2>3, <3>2, <3>4 DEF Facts
      <4> QED
        BY <1>1, <1>2, <2>3, <3>1, <4>1, ConcludeHasGrounds DEF Verdicts, HasGroundsToDeny
    <3> QED
      BY <3>3, <3>4
  <2>4. ASSUME NEW says \in {"denied", "unverified"}, Conclude(says, TheIdentity)
        PROVE  ProbeHasGrounds' /\ VerdictsHaveGrounds'
    BY <1>1, <1>2, <2>4, ConcludeHasGrounds DEF Verdicts
  <2> QED
    BY <2>2, <2>3, <2>4
<1> QED
  BY <1>3, <1>4

LEMMA GroundsOfTheRest ==
    ASSUME TypeInv, Grounds,
           HistoryMoves \/ Finish \/ CheckLag \/ Connect \/ NextGroup
           \/ LookUpQuery \/ ClimbDown \/ RecoveryRaises
    PROVE  ProbeHasGrounds' /\ VerdictsHaveGrounds'
<1>1. CASE HistoryMoves
  BY <1>1 DEF HistoryMoves, Grounds, ProbeHasGrounds, VerdictsHaveGrounds
<1>2. CASE Finish \/ CheckLag
  <2>1. pc' # "access" /\ UNCHANGED <<verdict, seen, failed>>
    BY <1>2 DEF Finish, CheckLag, world
  <2> QED
    BY <2>1 DEF Grounds, ProbeHasGrounds, VerdictsHaveGrounds
<1>3. CASE Connect
  <2>1. /\ pc' # "access" /\ UNCHANGED seen
        /\ \A o \in Objects : verdict'[o] = verdict[o] \/ verdict'[o].says = "unverified"
        /\ failed' = failed
    BY <1>3 DEF Connect, world, Groups
  <2> QED
    BY <2>1 DEF Grounds, ProbeHasGrounds, VerdictsHaveGrounds
<1>4. CASE NextGroup
  <2>1. pc' # "access" /\ UNCHANGED <<seen, failed>>
    BY <1>4 DEF NextGroup, Conclude, world
  <2>2. \A o \in Objects : verdict'[o] = verdict[o]
    BY <1>4, RoleAssumption DEF NextGroup, Conclude, TypeInv, TypeOK, Groups
  <2> QED
    BY <2>1, <2>2 DEF Grounds, ProbeHasGrounds, VerdictsHaveGrounds
<1>5. CASE LookUpQuery \/ ClimbDown \/ RecoveryRaises
  <2>1. pc' # "access" /\ UNCHANGED <<verdict, seen>> /\ failed \subseteq failed'
    BY <1>5 DEF LookUpQuery, ClimbDown, RecoveryRaises, Identify, world
  <2> QED
    BY <2>1 DEF Grounds, ProbeHasGrounds, VerdictsHaveGrounds
<1> QED
  BY <1>1, <1>2, <1>3, <1>4, <1>5

LEMMA GroundsOfWorld ==
    ASSUME TypeInv, Grounds,
           \/ \E o \in Objects : Drop(o) \/ \E r \in Roles : Build(o, r)
           \/ \E r \in Roles : Grant(r) \/ Revoke(r)
    PROVE  Grounds'
<1>1. /\ seen' = [o \in Objects |-> seen[o] \cup Facts(o)']
      /\ UNCHANGED <<pc, exists, group, verdict, failed>>
  BY DEF Drop, Build, Grant, Revoke, Changes
<1>2. \A o \in Objects : Facts(o)' \subseteq seen'[o] /\ seen[o] \subseteq seen'[o]
  BY <1>1
<1>3. pc = "access" => group \in Objects
  BY DEF TypeInv, TypeOK, InHand, Groups
<1>4. ProbeHasGrounds'
  BY <1>1, <1>2, <1>3 DEF Grounds, ProbeHasGrounds
<1>5. VerdictsHaveGrounds'
  BY <1>1, <1>2 DEF Grounds, VerdictsHaveGrounds
<1> QED
  BY <1>2, <1>4, <1>5 DEF Grounds

LEMMA GroundsStep == TypeInv /\ Grounds /\ [Next]_vars => Grounds'
<1> SUFFICES ASSUME TypeInv, Grounds, [Next]_vars PROVE Grounds'
  OBVIOUS
<1>1. CASE UNCHANGED vars
  BY <1>1, WorldStays DEF vars, world, Grounds, ProbeHasGrounds, VerdictsHaveGrounds
<1>2. CASE \/ \E o \in Objects : Drop(o) \/ \E r \in Roles : Build(o, r)
           \/ \E r \in Roles : Grant(r) \/ Revoke(r)
  BY <1>2, GroundsOfWorld
<1>3. CASE Diagnose \/ HistoryMoves
  <2>1. UNCHANGED <<tables, grants, seen>>
    BY <1>3 DEF Diagnose, HistoryMoves, Connect, NextGroup, Finish, LookUpQuery, CheckLag,
                ClimbDown, RecoveryRaises, ProbeExistence, CheckAccess, world
  <2>2. ProbeHasGrounds' /\ VerdictsHaveGrounds'
    BY <1>3, GroundsOfQuestions, GroundsOfTheRest DEF Diagnose
  <2> QED
    BY <2>1, <2>2, WorldStays DEF Grounds
<1> QED
  BY <1>1, <1>2, <1>3 DEF Next

(* A definite verdict has grounds, whatever changed between its queries    *)
(* and whichever failed, for any names and any views: "exists now" in a    *)
(* table that fits the name and could be listed, "never built" in none     *)
(* that could be and no grant of the role named, at some moment each.      *)
THEOREM VerdictsAreGrounded == Spec => []VerdictsHaveGrounds
<1>1. Init => Grounds
  BY DEF Init, Grounds, ProbeHasGrounds, VerdictsHaveGrounds, Groups
<1>2. Grounds => VerdictsHaveGrounds
  BY DEF Grounds
<1> QED
  BY <1>1, <1>2, TypeInvHolds, GroundsStep, PTL DEF Spec

-----------------------------------------------------------------------------
(* One identity.  A verdict on an object names the identity in hand, or is *)
(* none yet, or one of a diagnosis without a connection.                   *)
NamesTheIdentity(o) ==
    \/ verdict[o].says = "none" /\ verdict[o].by = NoIdentity
    \/ identity = {verdict[o].by}
    \/ identity = {} /\ verdict[o].by = NoIdentity /\ pc = "done"

OneInHand ==
    /\ pc = "connect" => identity = {}
    /\ \A o \in Objects : NamesTheIdentity(o)

(* A step of the others' or one that leaves the verdicts alone.            *)
LEMMA OneInHandStays ==
    ASSUME OneInHand, pc # "done" \/ pc' = "done", pc' # "connect" \/ UNCHANGED pc,
           identity' = identity \/ (identity = {} /\ pc # "done"),
           \A o \in Objects : verdict'[o] = verdict[o]
    PROVE  /\ \A o \in Objects : NamesTheIdentity(o)'
           /\ UNCHANGED identity => OneInHand'
BY DEF OneInHand, NamesTheIdentity

LEMMA OneInHandOfQuestions ==
    ASSUME TypeInv, OneInHand, ProbeExistence \/ CheckAccess
    PROVE  OneInHand'
<1>1. /\ TypeOK /\ group \in Objects /\ TheIdentity \in Identity
      /\ identity = {TheIdentity} /\ UNCHANGED <<group, identity>>
      /\ pc # "done" /\ pc' # "connect"
      /\ \/ UNCHANGED verdict
         \/ \E says \in Verdicts : Conclude(says, TheIdentity)
  BY ProbeType DEF TypeInv, ProbeExistence, CheckAccess, Conclude
<1>2. CASE UNCHANGED verdict
  BY <1>1, <1>2, OneInHandStays
<1>3. ASSUME NEW says \in Verdicts, Conclude(says, TheIdentity) PROVE OneInHand'
  <2>1. \A o \in Objects :
          verdict'[o] = IF o = group THEN [says |-> says, by |-> TheIdentity] ELSE verdict[o]
    BY <1>1, <1>3 DEF Conclude, TypeOK, Groups
  <2>2. \A o \in Objects : NamesTheIdentity(o)'
    BY <1>1, <2>1 DEF OneInHand, NamesTheIdentity
  <2> QED
    BY <1>1, <2>2 DEF OneInHand
<1> QED
  BY <1>1, <1>2, <1>3

LEMMA OneInHandStep == TypeInv /\ OneInHand /\ [Next]_vars => OneInHand'
<1> SUFFICES ASSUME TypeInv, OneInHand, [Next]_vars PROVE OneInHand'
  OBVIOUS
<1>1. CASE UNCHANGED vars
  BY <1>1 DEF vars, OneInHand, NamesTheIdentity
<1>2. CASE \/ \E o \in Objects : Drop(o) \/ \E r \in Roles : Build(o, r)
           \/ \E r \in Roles : Grant(r) \/ Revoke(r)
           \/ HistoryMoves
  <2>1. UNCHANGED <<pc, identity, verdict>>
    BY <1>2 DEF Drop, Build, Grant, Revoke, Changes, HistoryMoves
  <2> QED
    BY <2>1 DEF OneInHand, NamesTheIdentity
<1>3. CASE Finish \/ CheckLag
  <2>1. UNCHANGED <<identity, verdict>> /\ pc # "done" /\ pc' # "connect"
    BY <1>3 DEF Finish, CheckLag
  <2> QED
    BY <2>1, OneInHandStays
<1>4. CASE Connect
  <2>1. CASE pc' = "group" /\ UNCHANGED verdict
    <3>1. UNCHANGED identity /\ pc # "done"
      BY <1>4 DEF Connect
    <3> QED
      BY <2>1, <3>1, OneInHandStays
  <2>2. CASE pc' = "done"
             /\ verdict' = [g \in Groups |-> [says |-> "unverified", by |-> NoIdentity]]
    <3>1. identity' = {}
      BY <1>4 DEF Connect, OneInHand
    <3> QED
      BY <2>2, <3>1 DEF OneInHand, NamesTheIdentity, Groups
  <2> QED
    BY <1>4, <2>1, <2>2 DEF Connect
<1>5. CASE NextGroup
  <2>1. UNCHANGED identity /\ pc # "done" /\ pc' # "connect"
    BY <1>5 DEF NextGroup, Conclude
  <2>2. \A o \in Objects : verdict'[o] = verdict[o]
    BY <1>5, RoleAssumption DEF NextGroup, Conclude, TypeInv, TypeOK, Groups
  <2> QED
    BY <2>1, <2>2, OneInHandStays
<1>6. CASE LookUpQuery \/ ClimbDown \/ RecoveryRaises
  <2>1. identity = {} /\ pc # "done" /\ pc' # "connect" /\ UNCHANGED verdict
    BY <1>6 DEF LookUpQuery, ClimbDown, RecoveryRaises, Identify, TypeInv, InHand
  <2> QED
    BY <2>1, OneInHandStays DEF OneInHand
<1>7. CASE ProbeExistence \/ CheckAccess
  BY <1>7, OneInHandOfQuestions
<1> QED
  BY <1>1, <1>2, <1>3, <1>4, <1>5, <1>6, <1>7 DEF Next, Diagnose

(* The verdicts of one diagnosis name one role of one provenance, although *)
(* the history may show the run's own role between two of them.            *)
THEOREM VerdictsNameOneRole == Spec => []OneIdentity
<1>1. Init => OneInHand
  BY DEF Init, OneInHand, NamesTheIdentity, Groups
<1>2. OneInHand => OneIdentity
  <2> SUFFICES ASSUME OneInHand, NEW o1 \in Objects, NEW o2 \in Objects,
                      verdict[o1].by # NoIdentity, verdict[o2].says # "none"
               PROVE  verdict[o1].by = verdict[o2].by
    BY DEF OneIdentity
  <2>1. identity = {verdict[o1].by}
    BY DEF OneInHand, NamesTheIdentity
  <2>2. identity = {verdict[o2].by}
    BY <2>1 DEF OneInHand, NamesTheIdentity
  <2> QED
    BY <2>1, <2>2
<1> QED
  BY <1>1, <1>2, TypeInvHolds, OneInHandStep, PTL DEF Spec

-----------------------------------------------------------------------------
(* The ladder.  What the history has been while the role was looked for is *)
(* known from where the search is.                                         *)
SearchSoFar ==
    /\ history \in pages
    /\ inputs.ended => inputs.query
    /\ pc \in {"lag", "ladder"} /\ inputs.query /\ pages = {"shown"} => NoRole \in failed
    /\ pc = "ladder" /\ inputs.ended /\ pages = {"behind"} => attempts = 1

Ladder == SearchSoFar /\ LadderIsRespected

LEMMA LadderOfHistory == ASSUME TypeInv, Ladder, HistoryMoves PROVE Ladder'
<1>1. /\ history' \in pages' /\ history \in pages' /\ history' # history
      /\ history' # "behind"
      /\ UNCHANGED <<inputs, pc, identity, failed, attempts>>
  BY DEF HistoryMoves, Ladder, SearchSoFar
<1>2. pages' # {"shown"} /\ pages' # {"behind"}
  BY <1>1
<1> QED
  BY <1>1, <1>2 DEF Ladder, SearchSoFar, LadderIsRespected

(* A step that neither looks for the role nor changes it.                  *)
LEMMA LadderStays ==
    ASSUME Ladder, UNCHANGED <<history, pages, inputs, identity, attempts>>,
           failed \subseteq failed', pc' \notin {"lag", "ladder"} \/ UNCHANGED pc
    PROVE  Ladder'
BY DEF Ladder, SearchSoFar, LadderIsRespected

LEMMA LadderOfLag == ASSUME TypeInv, Ladder, CheckLag PROVE Ladder'
<1>1. /\ UNCHANGED <<history, pages, inputs, identity, failed>>
      /\ pc = "lag" /\ identity = {} /\ attempts \in 0 .. 1
  BY DEF CheckLag, world, TypeInv, TypeOK, InHand
<1>2. pc' = "ladder" /\ inputs.ended /\ history = "behind" => attempts' = 1
  BY <1>1 DEF CheckLag
<1>3. pages' = {"behind"} => history = "behind"
  BY <1>1 DEF Ladder, SearchSoFar
<1>4. pc' = "ladder" \/ pc' = "identity"
  BY DEF CheckLag
<1>5. LadderIsRespected'
  BY <1>1 DEF LadderIsRespected
<1> QED
  BY <1>1, <1>2, <1>3, <1>4, <1>5 DEF Ladder, SearchSoFar

LEMMA LadderOfIdentify ==
    ASSUME TypeInv, Ladder, LookUpQuery \/ ClimbDown \/ RecoveryRaises
    PROVE  Ladder'
<1>1. /\ UNCHANGED <<history, pages, inputs, attempts>> /\ failed \subseteq failed'
      /\ identity = {} /\ history \in pages /\ inputs.ended => inputs.query
  BY DEF LookUpQuery, ClimbDown, RecoveryRaises, world, TypeInv, InHand, Ladder, SearchSoFar
<1>2. CASE LookUpQuery
  <2>1. CASE ~ inputs.query /\ pc' = "ladder" /\ UNCHANGED identity
    BY <1>1, <2>1 DEF Ladder, SearchSoFar, LadderIsRespected
  <2>2. CASE history = "shown" /\ Identify(RunRole, "recovered")
    BY <1>1, <2>2 DEF Identify, Ladder, SearchSoFar, LadderIsRespected
  <2>3. CASE /\ pc' = "lag" /\ UNCHANGED identity
             /\ failed' = IF history = "shown" THEN failed \cup {NoRole} ELSE failed
    BY <1>1, <2>3 DEF Ladder, SearchSoFar, LadderIsRespected
  <2> QED
    BY <1>2, <2>1, <2>2, <2>3 DEF LookUpQuery
<1>3. CASE ClimbDown
  <2>1. /\ pc = "ladder" /\ pc' = "exists"
        /\ \/ identity' = {[role |-> inputs.declared, provenance |-> "declared"]}
           \/ inputs.declared = NoRole
    BY <1>3 DEF ClimbDown, Identify
  <2>2. NoRole \notin failed' => ~ (inputs.query /\ pages = {"shown"})
    BY <1>1, <2>1 DEF Ladder, SearchSoFar
  <2>3. inputs.ended /\ pages = {"behind"} => attempts = 1
    BY <2>1 DEF Ladder, SearchSoFar
  <2>4. LadderIsRespected'
    BY <1>1, <2>1, <2>2, <2>3 DEF LadderIsRespected
  <2> QED
    BY <1>1, <2>1, <2>4 DEF Ladder, SearchSoFar
<1>4. CASE RecoveryRaises
  <2>1. /\ NoRole \in failed' /\ pc' = "exists"
        /\ inputs.declared # NoRole =>
             identity' = {[role |-> inputs.declared, provenance |-> "declared"]}
    BY <1>4 DEF RecoveryRaises, Identify
  <2>2. LadderIsRespected'
    BY <1>1, <2>1 DEF LadderIsRespected
  <2> QED
    BY <1>1, <2>1, <2>2 DEF Ladder, SearchSoFar
<1> QED
  BY <1>2, <1>3, <1>4

LEMMA LadderStep == TypeInv /\ Ladder /\ [Next]_vars => Ladder'
<1> SUFFICES ASSUME TypeInv, Ladder, [Next]_vars PROVE Ladder'
  OBVIOUS
<1>1. CASE UNCHANGED vars
  BY <1>1, LadderStays DEF vars, world
<1>2. CASE \/ \E o \in Objects : Drop(o) \/ \E r \in Roles : Build(o, r)
           \/ \E r \in Roles : Grant(r) \/ Revoke(r)
  <2>1. UNCHANGED <<history, pages, inputs, identity, attempts, failed, pc>>
    BY <1>2 DEF Drop, Build, Grant, Revoke, Changes
  <2> QED
    BY <2>1, LadderStays
<1>3. CASE Connect \/ Finish
  <2>1. UNCHANGED <<history, pages, inputs, identity, attempts, failed>>
        /\ pc' \in {"group", "done"}
    BY <1>3 DEF Connect, Finish, world
  <2> QED
    BY <2>1, LadderStays
<1>4. CASE NextGroup
  <2>1. UNCHANGED <<history, pages, inputs, identity, attempts, failed>>
        /\ pc' \in {"group", "identity", "exists"}
    BY <1>4 DEF NextGroup, Conclude, world
  <2> QED
    BY <2>1, LadderStays
<1>5. CASE ProbeExistence \/ CheckAccess
  <2>1. UNCHANGED <<history, pages, inputs, identity, attempts>> /\ failed \subseteq failed'
        /\ pc' \in {"group", "access"}
    BY <1>5, ProbeType DEF Conclude, world
  <2> QED
    BY <2>1, LadderStays
<1> QED
  BY <1>1, <1>2, <1>3, <1>4, <1>5, LadderOfHistory, LadderOfLag, LadderOfIdentify
     DEF Next, Diagnose

(* The role is the best one to be had: the run's own if the history shows  *)
(* the query all the time; never the session's if one is declared; another *)
(* than the run's only after a second look at a history that was behind.   *)
THEOREM TheBestRoleIsNamed == Spec => []LadderIsRespected
<1>1. Init => Ladder
  BY DEF Init, Ladder, SearchSoFar, LadderIsRespected
<1>2. Ladder => LadderIsRespected
  BY DEF Ladder
<1> QED
  BY <1>1, <1>2, TypeInvHolds, LadderStep, PTL DEF Spec

-----------------------------------------------------------------------------
(* The run of the command.                                                 *)

(* What the artifacts can be.                                              *)
EntriesAre(entries) ==
    /\ Len(entries) \in Nat /\ DOMAIN entries = 1 .. Len(entries)
    /\ \A n \in 1 .. Len(entries) :
          /\ entries[n].status \in {"junk", "other", "fail", "error"}
          /\ entries[n].id \in 0 .. MaxResults

LEMMA ArtifactsHaveEntries ==
    ASSUME results \in Artifacts
    PROVE  /\ EntriesAre(results.entries)
           /\ results.read \in {"absent", "corrupt", "shapeless", "list"}
           /\ results.manifest \in {"mapping", "other"}
           /\ results.read # "list" => results.entries = <<>>
<1>1. MaxResults \in Nat
  BY PipelineAssumption
<1>2. CASE results \in [read : {"absent", "corrupt", "shapeless"},
                      manifest : {"mapping", "other"}, entries : {<<>>}]
  <2>1. /\ results.entries = <<>> /\ results.read \in {"absent", "corrupt", "shapeless"}
        /\ results.manifest \in {"mapping", "other"}
    BY <1>2
  <2>2. EntriesAre(<<>>)
    BY DEF EntriesAre
  <2> QED
    BY <2>1, <2>2
<1>3. CASE results \in [read : {"list"}, manifest : {"mapping", "other"},
          entries : UNION {{s \in [1..k -> UNION {Entries(n) : n \in 1..k}] :
                               \A n \in 1..k : s[n] \in Entries(n)} : k \in 0..MaxResults}]
  <2> DEFINE entries == results.entries
  <2>1. results.read = "list" /\ results.manifest \in {"mapping", "other"}
    BY <1>3
  <2>2. PICK k \in 0 .. MaxResults :
           /\ entries \in [1 .. k -> UNION {Entries(n) : n \in 1 .. k}]
           /\ \A n \in 1 .. k : entries[n] \in Entries(n)
    BY <1>3
  <2> HIDE DEF entries
  <2>3. ASSUME NEW n \in 1 .. k
        PROVE  /\ entries[n].status \in {"junk", "other", "fail", "error"}
               /\ entries[n].id \in {0, n}
    BY <2>2 DEF Entries, NoId
  <2>4. DOMAIN entries = 1 .. k /\ Len(entries) = k
    <3> DEFINE X == UNION {Entries(n) : n \in 1 .. k}
    <3>1. entries \in [1 .. k -> X] /\ k \in Nat
      BY <1>1, <2>2
    <3> HIDE DEF X
    <3> QED
      BY <3>1
  <2>5. EntriesAre(entries)
    <3>1. \A n \in 1 .. k : entries[n].id \in 0 .. MaxResults
      BY <1>1, <2>3
    <3> QED
      BY <1>1, <2>3, <2>4, <3>1 DEF EntriesAre
  <2> QED
    BY <2>1, <2>5 DEF entries
<1> QED
  BY <1>2, <1>3 DEF Artifacts

(* A message misses the relation of a parent, if of any node.              *)
LEMMA SeeksAParent ==
    ASSUME results \in Artifacts, NEW i \in DOMAIN results.entries
    PROVE  Entry(i).seeks \in {NoId} \cup ParentsOf(Entry(i).id)
<1>0. MaxResults \in Nat
  BY PipelineAssumption
<1>1. CASE results.entries = <<>>
  BY <1>1
<1>2. CASE results.entries # <<>>
  <2> DEFINE entries == results.entries
  <2>1. results \in [read : {"list"}, manifest : {"mapping", "other"},
          entries : UNION {{s \in [1..k -> UNION {Entries(n) : n \in 1..k}] :
                               \A n \in 1..k : s[n] \in Entries(n)} : k \in 0..MaxResults}]
    BY <1>2 DEF Artifacts
  <2>2. PICK k \in 0 .. MaxResults :
           /\ entries \in [1 .. k -> UNION {Entries(n) : n \in 1 .. k}]
           /\ \A n \in 1 .. k : entries[n] \in Entries(n)
    BY <2>1
  <2>3. i \in 1 .. k
    BY <2>2
  <2>4. Entry(i) \in Entries(i) /\ i \in Nodes
    BY <1>0, <2>2, <2>3 DEF Entry, Nodes
  <2> HIDE DEF entries
  <2> DEFINE e == Entry(i)
  <2>5. e \in Entries(i)
    BY <2>4
  <2> HIDE DEF e
  <2>6. e.seeks = NoId \/ (e.id = i /\ e.seeks \in Parents[i])
    BY <2>5 DEF Entries
  <2> QED
    BY <2>4, <2>6 DEF e, ParentsOf
<1> QED
  BY <1>1, <1>2

(* A list of the entries with a status has these and no others.            *)
LEMMA HavingIsWith ==
    ASSUME EntriesAre(results.entries), NEW status
    PROVE  /\ Having(status) \in Seq(Nat)
           /\ \A k \in 1 .. Len(Having(status)) : Having(status)[k] \in With(status)
           /\ \A i \in With(status) : \E k \in 1 .. Len(Having(status)) : Having(status)[k] = i
<1> DEFINE n == Len(results.entries)
           list == [i \in 1 .. n |-> i]
<1>1. n \in Nat
  BY DEF EntriesAre
<1>2. list \in Seq(Nat) /\ Len(list) = n /\ \A i \in 1 .. n : list[i] = i
  BY <1>1
<1>3. With(status) \subseteq 1 .. n
  BY DEF EntriesAre, With
<1>4. Having(status) = Those(list, With(status))
  BY DEF Having
<1> HIDE DEF n, list
<1> QED
  BY <1>2, <1>3, <1>4, ThoseHas

(* Rows: every failure, and only failures.                                 *)
RowsOf(rows) ==
    /\ rows \in Seq(Nat)
    /\ \A r \in 1 .. Len(rows) : rows[r] \in Failing
    /\ \A i \in Failing : \E r \in 1 .. Len(rows) : rows[r] = i

LEMMA RowsAreFailures ==
    ASSUME EntriesAre(results.entries)
    PROVE  RowsOf(Having("error") \o Having("fail"))
<1> DEFINE a == Having("error")
           b == Having("fail")
           c == a \o b
<1>1. /\ a \in Seq(Nat) /\ \A k \in 1 .. Len(a) : a[k] \in With("error")
      /\ \A i \in With("error") : \E k \in 1 .. Len(a) : a[k] = i
  BY HavingIsWith
<1>2. /\ b \in Seq(Nat) /\ \A k \in 1 .. Len(b) : b[k] \in With("fail")
      /\ \A i \in With("fail") : \E k \in 1 .. Len(b) : b[k] = i
  BY HavingIsWith
<1> HIDE DEF a, b
<1>3. /\ c \in Seq(Nat) /\ Len(c) = Len(a) + Len(b)
      /\ \A r \in 1 .. Len(a) : c[r] = a[r]
      /\ \A r \in 1 .. Len(c) : r > Len(a) => c[r] = b[r - Len(a)]
      /\ Len(a) \in Nat /\ Len(b) \in Nat
  BY <1>1, <1>2
<1> HIDE DEF c
<1>4. ASSUME NEW r \in 1 .. Len(c) PROVE c[r] \in Failing
  <2>1. CASE r \in 1 .. Len(a)
    BY <1>1, <1>3, <2>1 DEF Failing
  <2>2. CASE r > Len(a)
    <3>1. r - Len(a) \in 1 .. Len(b)
      BY <1>3, <2>2
    <3> QED
      BY <1>2, <1>3, <2>2, <3>1 DEF Failing
  <2> QED
    BY <1>3, <2>1, <2>2
<1>5. ASSUME NEW i \in Failing PROVE \E r \in 1 .. Len(c) : c[r] = i
  <2>1. CASE i \in With("error")
    <3>1. PICK k \in 1 .. Len(a) : a[k] = i
      BY <1>1, <2>1
    <3>2. k \in 1 .. Len(c)
      BY <1>3
    <3> QED
      BY <1>3, <3>1, <3>2
  <2>2. CASE i \in With("fail")
    <3>1. PICK k \in 1 .. Len(b) : b[k] = i
      BY <1>2, <2>2
    <3>2. Len(a) + k \in 1 .. Len(c) /\ Len(a) + k > Len(a) /\ Len(a) + k - Len(a) = k
      BY <1>3
    <3> QED
      BY <1>3, <3>1, <3>2
  <2> QED
    BY <2>1, <2>2 DEF Failing
<1> QED
  BY <1>3, <1>4, <1>5 DEF RowsOf, a, b, c

(* The reports made of the rows: each of a failure, every failure has one, *)
(* and a failure first in the lineage follows from no other.               *)
ReportsAre(list) ==
    /\ Len(list) \in Nat /\ DOMAIN list = 1 .. Len(list)
    /\ {list[r].result : r \in 1 .. Len(list)} = Failing
    /\ Len(list) # 0 => \E r \in 1 .. Len(list) : list[r].cascade = {}
    /\ Len(list) = 0 => list = <<>>

LEMMA ReportedAreFailures ==
    ASSUME EntriesAre(results.entries)
    PROVE  ReportsAre(Reported)
<1> DEFINE rows == Having("error") \o Having("fail")
           ids == {Entry(rows[r]).id : r \in DOMAIN rows}
<1>1. RowsOf(rows)
  BY RowsAreFailures
<1> HIDE DEF rows
<1>2. /\ rows \in Seq(Nat) /\ DOMAIN rows = 1 .. Len(rows) /\ Len(rows) \in Nat
      /\ \A r \in 1 .. Len(rows) : rows[r] \in Failing
      /\ \A i \in Failing : \E r \in 1 .. Len(rows) : rows[r] = i
  BY <1>1 DEF RowsOf
<1> DEFINE Report(r) ==
              [result |-> rows[r],
               class |-> IF Entry(rows[r]).status = "fail" THEN "test_failure"
                         ELSE ClassOf(Entry(rows[r]).message),
               cascade |-> Cascade(Entry(rows[r]).id, ids)]
           list == [r \in 1 .. Len(rows) |-> Report(r)]
<1>3. Reported = list
  BY <1>2 DEF Reported, rows
<1>4. /\ DOMAIN list = 1 .. Len(rows)
      /\ \A r \in 1 .. Len(rows) :
            list[r].result = rows[r] /\ list[r].cascade = Cascade(Entry(rows[r]).id, ids)
  BY DEF Cascade
<1>5. Len(list) = Len(rows)
  <2> DEFINE X == {Report(r) : r \in 1 .. Len(rows)}
  <2>1. list \in [1 .. Len(rows) -> X]
    <3> HIDE DEF Report
    <3> QED
      OBVIOUS
  <2> HIDE DEF X, list
  <2> QED
    BY <1>2, <2>1
<1>0. Len(rows) = 0 => list = <<>>
  BY <1>2
<1> HIDE DEF list
<1>6. {list[r].result : r \in 1 .. Len(rows)} = Failing
  <2>1. \A r \in 1 .. Len(rows) : list[r].result = rows[r]
    BY <1>4
  <2>2. {list[r].result : r \in 1 .. Len(rows)} = {rows[r] : r \in 1 .. Len(rows)}
    BY <2>1
  <2>3. {rows[r] : r \in 1 .. Len(rows)} = Failing
    BY <1>2
  <2> QED
    BY <2>2, <2>3
<1>7. ASSUME Len(rows) # 0 PROVE \E r \in 1 .. Len(rows) : list[r].cascade = {}
  <2>1. ids \subseteq Nat /\ ids # {}
    <3>1. \A r \in 1 .. Len(rows) : rows[r] \in 1 .. Len(results.entries)
      BY <1>2 DEF Failing, With, EntriesAre
    <3>2. \A r \in 1 .. Len(rows) : Entry(rows[r]).id \in Nat
      BY <3>1, PipelineAssumption DEF EntriesAre, Entry
    <3>3. 1 \in 1 .. Len(rows)
      BY <1>2, <1>7
    <3> QED
      BY <1>2, <3>2, <3>3
  <2> HIDE DEF ids
  <2>2. PICK m \in ids : \A k \in ids : m <= k
    BY <2>1, LeastElement
  <2>3. PICK r \in 1 .. Len(rows) : Entry(rows[r]).id = m
    BY <1>2, <2>2 DEF ids
  <2>4. Cascade(m, ids) = {}
    <3>1. ASSUME NEW p \in ParentsOf(m) PROVE p \notin ids
      <4>1. m \in 1 .. MaxResults /\ p \in Parents[m]
        BY <3>1 DEF ParentsOf, Nodes
      <4>2. p < m /\ p \in Nat /\ m \in Nat
        BY <4>1, PipelineAssumption
      <4> QED
        BY <2>2, <4>2
    <3> QED
      BY <3>1 DEF Cascade
  <2> QED
    BY <1>4, <2>3, <2>4
<1>8. ReportsAre(list)
  BY <1>2, <1>4, <1>5, <1>6, <1>7, <1>0 DEF ReportsAre
<1> QED
  BY <1>3, <1>8

-----------------------------------------------------------------------------
(* Each report is in one group, or in none and shown by itself.            *)
Once(groups, alone) ==
    /\ (UNION groups) \cup alone = DOMAIN reports
    /\ \A r \in DOMAIN reports : \E h : {g \in groups \cup {alone} : r \in g} = {h}

LEMMA GroupedOnce ==
    ASSUME Len(reports) \in Nat, DOMAIN reports = 1 .. Len(reports)
    PROVE  Once(ReportGroups, Ungrouped)
<1>1. ASSUME NEW r \in DOMAIN reports
      PROVE  /\ r \in Alike(r) /\ Cardinality(Alike(r)) \in Nat
             /\ \A q \in DOMAIN reports : r \in Alike(q) => Alike(q) = Alike(r)
  <2>1. Alike(r) \subseteq 1 .. Len(reports)
    BY DEF Alike
  <2>2. Cardinality(Alike(r)) \in Nat
    <3>1. IsFiniteSet(1 .. Len(reports))
      BY FS_Interval
    <3>2. IsFiniteSet(Alike(r))
      BY <2>1, <3>1, FS_Subset
    <3> QED
      BY <3>2, FS_CardinalityType
  <2> QED
    BY <2>2 DEF Alike
<1>2. ASSUME NEW r \in DOMAIN reports, NEW q \in DOMAIN reports, r \in Alike(q), q \in Keyed
      PROVE  r \in Keyed
  BY <1>2 DEF Alike, Key, Keyed
<1>4. ASSUME NEW r \in DOMAIN reports
      PROVE  \E h : {g \in ReportGroups \cup {Ungrouped} : r \in g} = {h}
  <2>1. CASE r \in Keyed /\ Cardinality(Alike(r)) >= 2
    <3>1. r \notin Ungrouped
      BY <1>1, <2>1 DEF Ungrouped
    <3>2. Alike(r) \in ReportGroups
      BY <2>1 DEF ReportGroups
    <3>3. ASSUME NEW g \in ReportGroups, r \in g PROVE g = Alike(r)
      BY <1>1, <3>3 DEF ReportGroups, Keyed
    <3>4. {g \in ReportGroups \cup {Ungrouped} : r \in g} = {Alike(r)}
      BY <1>1, <3>1, <3>2, <3>3
    <3> QED
      BY <3>4
  <2>2. CASE ~ (r \in Keyed /\ Cardinality(Alike(r)) >= 2)
    <3>1. r \in Ungrouped
      BY <1>1, <2>2 DEF Ungrouped
    <3>2. ASSUME NEW g \in ReportGroups, r \in g PROVE FALSE
      <4>1. PICK q \in Keyed : g = Alike(q) /\ Cardinality(Alike(q)) >= 2
        BY <3>2 DEF ReportGroups
      <4>2. q \in DOMAIN reports
        BY DEF Keyed
      <4> QED
        BY <1>1, <1>2, <2>2, <3>2, <4>1, <4>2
    <3>3. {g \in ReportGroups \cup {Ungrouped} : r \in g} = {Ungrouped}
      BY <3>1, <3>2
    <3> QED
      BY <3>3
  <2> QED
    BY <2>1, <2>2
<1> DEFINE all == (UNION ReportGroups) \cup Ungrouped
<1>6. ASSUME NEW r \in DOMAIN reports PROVE r \in all
  <2>1. PICK h : {g \in ReportGroups \cup {Ungrouped} : r \in g} = {h}
    BY <1>4
  <2>2. h \in {g \in ReportGroups \cup {Ungrouped} : r \in g}
    BY <2>1
  <2>3. h \in ReportGroups \/ h = Ungrouped
    BY <2>2
  <2> QED
    BY <2>2, <2>3
<1>7. ASSUME NEW r \in all PROVE r \in DOMAIN reports
  <2>1. CASE r \in UNION ReportGroups
    <3>1. PICK g \in ReportGroups : r \in g
      BY <2>1
    <3>2. PICK q \in Keyed : g = Alike(q)
      BY DEF ReportGroups
    <3> QED
      BY <3>1, <3>2 DEF Alike
  <2>2. CASE r \in Ungrouped
    BY <2>2 DEF Ungrouped, Keyed
  <2> QED
    BY <2>1, <2>2
<1>8. all = DOMAIN reports
  <2> HIDE DEF all
  <2> QED
    BY <1>6, <1>7
<1> QED
  BY <1>4, <1>8 DEF Once

LEMMA ListedOnce == Once({}, DOMAIN reports)
<1>1. ASSUME NEW r \in DOMAIN reports
      PROVE  \E h : {g \in {} \cup {DOMAIN reports} : r \in g} = {h}
  <2> DEFINE D == DOMAIN reports
  <2>1. r \in D
    OBVIOUS
  <2> HIDE DEF D
  <2>2. {g \in {} \cup {D} : r \in g} = {D}
    BY <2>1
  <2> QED
    BY <2>2 DEF D
<1>2. (UNION {}) \cup DOMAIN reports = DOMAIN reports
  <2>1. UNION {} = {}
    OBVIOUS
  <2> QED
    BY <2>1
<1> QED
  BY <1>1, <1>2 DEF Once

-----------------------------------------------------------------------------
(* The whole run.                                                          *)
Readable == results.read \in {"shapeless", "list"} /\ results.manifest = "mapping"
Clean == Readable /\ Failing = {}
Live(troubles) == ~options.noLive /\ connection \in troubles

(* The command has shown all reports.                                      *)
RanThrough ==
    /\ ReportsAre(reports) /\ Readable
    /\ Once(grouped, single)
    /\ exit = IF reports # <<>> /\ ~options.noFail THEN 1 ELSE 0

(* Or none, for a cause.                                                   *)
Excused == ~Readable \/ JunkInTheWay \/ Live({"unusable", "broken"})
Raised ==
    /\ exit = 1 /\ grouped = {} /\ single = {}
    /\ Excused
    /\ Clean => Live({"unusable"})

PipelineInvariant ==
    /\ results \in Artifacts /\ enriched \in Nat
    /\ step \in {"load", "diagnose", "connect", "enrich", "show", "ended"}
    /\ step \in {"load", "diagnose"} => reports = <<>>
    /\ step \notin {"load", "ended"} => results.read \in {"shapeless", "list"}
    /\ step \in {"connect", "enrich", "show"} => ReportsAre(reports) /\ Readable
    /\ step \in {"connect", "enrich"} => ~options.noLive
    /\ step = "ended" => reports = <<>> \/ ReportsAre(reports)
    /\ step # "ended" => grouped = {} /\ single = {}
    /\ connection = "open" => step = "enrich"
    /\ step = "ended" => RanThrough \/ Raised

LEMMA PipelineBegins == PipelineInit => PipelineInvariant
BY DEF PipelineInit, PipelineInvariant

(* Looking for the entries of an error meets junk only where it is in the  *)
(* way.                                                                    *)
LEMMA JunkIsMet ==
    ASSUME results \in Artifacts, NEW i \in With("error"),
           NEW id \in LookedUp(i), LookupRaises(id)
    PROVE  JunkInTheWay
<1>1. i \in Failing
  BY DEF Failing
<1>2. id \in {Entry(i).id} \cup ParentsOf(Entry(i).id)
  <2>1. CASE ClassOf(Entry(i).message) = "data_error"
    BY <2>1 DEF LookedUp, TrailOfDataError
  <2>2. CASE ClassOf(Entry(i).message) = "runtime_error"
    <3>1. id = Entry(i).seeks /\ id # NoId
      BY <2>2 DEF LookedUp, ParentSought
    <3>2. Entry(i).seeks \in {NoId} \cup ParentsOf(Entry(i).id)
      BY SeeksAParent DEF With
    <3> QED
      BY <3>1, <3>2
  <2> QED
    BY <2>1, <2>2 DEF LookedUp
<1> QED
  BY <1>1, <1>2 DEF JunkInTheWay

(* An end with nothing shown has a cause.                                  *)
LEMMA EndWithKeeps ==
    ASSUME PipelineInvariant, step # "ended", NEW link, EndWith(link), link # "open",
           ~Readable \/ JunkInTheWay \/ (~options.noLive /\ link \in {"unusable", "broken"}),
           Clean => ~options.noLive /\ link = "unusable"
    PROVE  PipelineInvariant'
<1>1. /\ UNCHANGED <<results, options, reports, enriched, grouped, single>>
      /\ step' = "ended" /\ exit' = 1 /\ connection' = link
  BY DEF EndWith
<1>2. /\ Readable' = Readable /\ JunkInTheWay' = JunkInTheWay /\ Clean' = Clean
      /\ ReportsAre(reports)' = ReportsAre(reports)
  BY <1>1 DEF Readable, JunkInTheWay, LookupRaises, ParentsOf, Clean, Failing, With, Entry,
              ReportsAre
<1>3. Excused' /\ (Clean' => Live({"unusable"})')
  BY <1>1, <1>2 DEF Excused, Live
<1>4. Raised'
  BY <1>1, <1>3 DEF Raised, PipelineInvariant
<1>5. reports = <<>> \/ ReportsAre(reports)
  BY DEF PipelineInvariant
<1> QED
  BY <1>1, <1>2, <1>4, <1>5 DEF PipelineInvariant

LEMMA PipelineStep ==
    ASSUME PipelineInvariant, PipelineNext
    PROVE  PipelineInvariant'
<1>1. /\ EntriesAre(results.entries)
      /\ results.read \in {"absent", "corrupt", "shapeless", "list"}
      /\ results.manifest \in {"mapping", "other"} /\ results \in Artifacts
  BY ArtifactsHaveEntries DEF PipelineInvariant
<1>2. ASSUME UNCHANGED <<results, reports>>
      PROVE  ReportsAre(reports)' = ReportsAre(reports) /\ Readable' = Readable
  BY <1>2 DEF ReportsAre, Failing, With, Entry, Readable
<1>3. CASE Load
  <2>1. CASE results.read \in {"absent", "corrupt"}
    <3>1. EndWith(connection) /\ ~Readable /\ ~Clean /\ step # "ended" /\ connection # "open"
      BY <1>3, <2>1 DEF Load, Readable, Clean, PipelineInvariant
    <3> QED
      BY <3>1, EndWithKeeps
  <2>2. CASE results.read \notin {"absent", "corrupt"}
    BY <1>1, <1>3, <2>2 DEF Load, PipelineInvariant
  <2> QED
    BY <2>1, <2>2
<1>4. CASE DiagnoseAll
  <2> DEFINE met == \E i \in With("error") : \E id \in LookedUp(i) : LookupRaises(id)
  <2>1. CASE results.manifest = "other" \/ met
    <3>1. EndWith(connection) /\ step # "ended" /\ connection # "open"
      BY <1>4, <2>1 DEF DiagnoseAll, PipelineInvariant
    <3>2. met => JunkInTheWay
      BY <1>1, JunkIsMet
    <3>3. JunkInTheWay => ~Clean
      BY DEF JunkInTheWay, Clean
    <3>4. results.manifest = "other" => ~Readable /\ ~Clean
      BY DEF Readable, Clean
    <3> QED
      BY <2>1, <3>1, <3>2, <3>3, <3>4, EndWithKeeps
  <2>2. CASE ~ (results.manifest = "other" \/ met)
    <3>1. /\ reports' = Reported /\ step' = IF options.noLive THEN "show" ELSE "connect"
          /\ UNCHANGED <<results, options, connection, enriched, grouped, single, exit>>
          /\ step = "diagnose"
      BY <1>4, <2>2 DEF DiagnoseAll
    <3>2. ReportsAre(Reported)
      BY <1>1, ReportedAreFailures
    <3>3. ReportsAre(reports)'
      BY <3>1, <3>2 DEF ReportsAre, Failing, With, Entry
    <3>4. Readable'
      BY <1>1, <2>2, <3>1 DEF Readable, PipelineInvariant
    <3> HIDE DEF met
    <3> QED
      BY <3>1, <3>3, <3>4 DEF PipelineInvariant
  <2> QED
    BY <2>1, <2>2
<1>5. CASE TryConnect
  <2>1. step = "connect" /\ ~options.noLive /\ Readable /\ connection # "open"
    BY <1>5 DEF TryConnect, PipelineInvariant
  <2>2. CASE EndWith("unusable")
    BY <2>1, <2>2, EndWithKeeps
  <2>3. CASE ~EndWith("unusable")
    BY <1>2, <1>5, <2>1, <2>3 DEF TryConnect, PipelineInvariant
  <2> QED
    BY <2>2, <2>3
<1>6. CASE EnrichNext
  <2>1. /\ ReportsAre(reports) /\ step = "enrich" /\ enriched < Len(reports) /\ enriched \in Nat
        /\ ~options.noLive
    BY <1>6 DEF EnrichNext, PipelineInvariant
  <2>2. reports[enriched + 1].result \in Failing
    <3>1. enriched + 1 \in 1 .. Len(reports)
      BY <2>1 DEF ReportsAre
    <3> QED
      BY <2>1, <3>1 DEF ReportsAre
  <2>3. ~Clean
    BY <2>2 DEF Clean
  <2>4. CASE LookupRaises(Entry(reports[enriched + 1].result).id)
    <3>1. EndWith("closed")
      BY <1>6, <2>4 DEF EnrichNext
    <3>2. JunkInTheWay
      BY <2>2, <2>4 DEF JunkInTheWay
    <3> QED
      BY <2>1, <2>3, <3>1, <3>2, EndWithKeeps
  <2>5. CASE EndWith("broken")
    BY <2>1, <2>3, <2>5, EndWithKeeps
  <2>6. CASE ~LookupRaises(Entry(reports[enriched + 1].result).id) /\ ~EndWith("broken")
    <3>1. /\ enriched' = enriched + 1
          /\ UNCHANGED <<results, options, step, reports, connection, grouped, single, exit>>
      BY <1>6, <2>6 DEF EnrichNext
    <3> QED
      BY <1>2, <2>1, <3>1 DEF PipelineInvariant
  <2> QED
    BY <2>4, <2>5, <2>6
<1>7. CASE EnrichmentEnds
  BY <1>2, <1>7 DEF EnrichmentEnds, PipelineInvariant
<1>8. CASE Show
  <2>1. /\ step = "show" /\ step' = "ended" /\ (Text \/ Document)
        /\ exit' = IF reports # <<>> /\ ~options.noFail THEN 1 ELSE 0
        /\ UNCHANGED <<results, options, reports, connection, enriched>>
    BY <1>8 DEF Show
  <2>2. ReportsAre(reports) /\ Readable
    BY <2>1 DEF PipelineInvariant
  <2>3. Once(ReportGroups, Ungrouped) /\ Once({}, DOMAIN reports)
    BY <2>2, GroupedOnce, ListedOnce DEF ReportsAre
  <2>4. Once(grouped, single)'
    <3>1. CASE Text
      BY <2>1, <2>3, <3>1 DEF Text, Once
    <3>2. CASE Document
      BY <2>1, <2>3, <3>2 DEF Document, Once
    <3> QED
      BY <2>1, <3>1, <3>2
  <2>5. RanThrough'
    BY <1>2, <2>1, <2>2, <2>4 DEF RanThrough
  <2>6. connection' # "open" /\ ReportsAre(reports)'
    BY <1>2, <2>1, <2>2 DEF PipelineInvariant
  <2> QED
    BY <2>1, <2>5, <2>6 DEF PipelineInvariant
<1> QED
  BY <1>3, <1>4, <1>5, <1>6, <1>7, <1>8 DEF PipelineNext

LEMMA EndIsRight == PipelineInvariant => NoFailureGetsLost
<1> SUFFICES ASSUME PipelineInvariant, step = "ended"
             PROVE  /\ exit = 0 \/ Shown # {} =>
                          /\ {reports[r].result : r \in Shown} = Failing
                          /\ \A r \in DOMAIN reports :
                                 Cardinality({g \in grouped \cup {single} : r \in g}) = 1
                          /\ Shown # {} => \E r \in Shown : reports[r].cascade = {}
                    /\ exit # 0 /\ Shown = {} => Excused
                    /\ exit = 0 => Clean \/ options.noFail
                    /\ Clean => exit = 0 \/ Live({"unusable"})
                    /\ connection # "open"
  BY DEF NoFailureGetsLost, Clean, Readable, Excused, Live
<1>1. connection # "open"
  BY DEF PipelineInvariant
<1>2. CASE Raised
  <2>1. Shown = {} /\ exit = 1
    BY <1>2 DEF Shown, Raised
  <2> QED
    BY <1>1, <1>2, <2>1 DEF Raised
<1>3. CASE RanThrough
  <2>1. /\ ReportsAre(reports) /\ Readable
        /\ Once(grouped, single)
        /\ exit = IF reports # <<>> /\ ~options.noFail THEN 1 ELSE 0
    BY <1>3 DEF RanThrough
  <2>2. Shown = DOMAIN reports /\ DOMAIN reports = 1 .. Len(reports) /\ Len(reports) \in Nat
    BY <2>1 DEF Once, Shown, ReportsAre
  <2>3. {reports[r].result : r \in Shown} = Failing
    BY <2>1, <2>2 DEF ReportsAre
  <2>4. reports = <<>> <=> Failing = {}
    <3>1. CASE Len(reports) = 0
      BY <2>1, <2>2, <2>3, <3>1 DEF ReportsAre
    <3>2. CASE Len(reports) # 0
      <4>1. 1 \in Shown
        BY <2>2, <3>2
      <4>2. reports[1].result \in Failing
        BY <2>3, <4>1
      <4> QED
        BY <2>2, <3>2, <4>2
    <3> QED
      BY <3>1, <3>2
  <2>5. ASSUME NEW r \in DOMAIN reports
        PROVE  Cardinality({g \in grouped \cup {single} : r \in g}) = 1
    <3>1. PICK h : {g \in grouped \cup {single} : r \in g} = {h}
      BY <2>1 DEF Once
    <3> QED
      BY <3>1, FS_Singleton
  <2>6. Shown # {} => \E r \in Shown : reports[r].cascade = {}
    BY <2>1, <2>2 DEF ReportsAre
  <2>7. Shown = {} => reports = <<>>
    BY <2>3, <2>4
  <2> QED
    BY <1>1, <2>1, <2>3, <2>4, <2>5, <2>6, <2>7 DEF Clean
<1> QED
  BY <1>2, <1>3 DEF PipelineInvariant

(* Every failure of the run reaches the reader once, and the exit status   *)
(* tells CI of it, unless one of the named causes leaves nothing shown:    *)
(* artifacts or a manifest that cannot be used, a junk entry where a       *)
(* failed node or a parent of one is looked up, an unreadable profile or a *)
(* query that is refused.                                                  *)
THEOREM FailuresAreNeverLost == PipelineSpec => []NoFailureGetsLost
<1>1. PipelineInvariant /\ [PipelineNext]_pipelineVars => PipelineInvariant'
  <2> SUFFICES ASSUME PipelineInvariant, UNCHANGED pipelineVars PROVE PipelineInvariant'
    BY PipelineStep
  <2>1. /\ ReportsAre(reports)' = ReportsAre(reports) /\ Readable' = Readable
        /\ JunkInTheWay' = JunkInTheWay /\ Clean' = Clean
    BY DEF pipelineVars, ReportsAre, Clean, Readable, JunkInTheWay, LookupRaises, ParentsOf,
           Failing, With, Entry
  <2>2. RanThrough' = RanThrough /\ Raised' = Raised
    BY <2>1 DEF pipelineVars, RanThrough, Raised, Excused, Live, Once
  <2> QED
    BY <2>1, <2>2 DEF pipelineVars, PipelineInvariant
<1> QED
  BY <1>1, PipelineBegins, EndIsRight, PTL DEF PipelineSpec

-----------------------------------------------------------------------------
(* The walks up the manifest.                                              *)

(* The nodes at each distance of the model, over nodes of a set; the least *)
(* distance of a node.                                                     *)
Distances(at, par, through) ==
    /\ at \in [0 .. MaxDepth -> SUBSET Node]
    /\ at[0] = {Root}
    /\ \A d \in 1 .. MaxDepth :
          at[d] = UNION {par[n] : n \in at[d - 1] \cap (through \cup {Root})}

Nearest(at, n, d) == n \in at[d] /\ \A e \in 0 .. d - 1 : n \notin at[e]

Waiting(q) == {q[i][1] : i \in 1 .. Len(q)}

(* What holds of a queue q and the nodes v that were marked, between two   *)
(* steps of a walk: nodes wait in the order of their least distances, and  *)
(* what has been walked through has its parents marked.                    *)
InOrder(q, v, at) ==
    /\ q \in Seq(Node \X (1 .. MaxDepth))
    /\ Root \in v /\ v \subseteq Node
    /\ \A i \in 1 .. Len(q) : q[i][1] \in v \ {Root} /\ Nearest(at, q[i][1], q[i][2])
    /\ \A i, j \in 1 .. Len(q) : i < j => q[i][2] <= q[j][2]
    /\ \A i \in 1 .. Len(q) : q[i][2] <= q[1][2] + 1

PassedOn(q, v, at, par, through) ==
    \A n \in v \ Waiting(q) : \A e \in 0 .. MaxDepth - 1 :
        n \in at[e] \cap (through \cup {Root}) => par[n] \subseteq v

LEMMA Reached ==
    ASSUME NEW par \in [Node -> SUBSET Node], NEW through, NEW at, Distances(at, par, through),
           NEW q, NEW v, InOrder(q, v, at), PassedOn(q, v, at, par, through),
           NEW d \in 0 .. MaxDepth, \A i \in 1 .. Len(q) : d <= q[i][2]
    PROVE  /\ \A e \in 0 .. d : at[e] \subseteq v
           /\ \A e \in 0 .. d - 1 : at[e] \cap Waiting(q) = {}
<1>0. MaxDepth \in Nat \ {0} /\ d \in Nat
  BY LineageAssumption
<1> USE <1>0
<1>1. ASSUME NEW e \in 0 .. d - 1, NEW n \in at[e] \cap Waiting(q) PROVE FALSE
  <2>1. PICK i \in 1 .. Len(q) : n = q[i][1]
    BY DEF Waiting
  <2>2. Nearest(at, n, q[i][2]) /\ q[i][2] \in 1 .. MaxDepth /\ d <= q[i][2]
    BY <2>1 DEF InOrder
  <2>3. e \in 0 .. q[i][2] - 1
    BY <2>2
  <2> QED
    BY <2>2, <2>3 DEF Nearest
<1> DEFINE T == {e \in 0 .. d : at[e] \subseteq v}
<1>2. 0 \in T
  BY DEF Distances, InOrder
<1>3. ASSUME NEW e \in 1 .. d, e - 1 \in T PROVE e \in T
  <2>1. ASSUME NEW x \in at[e] PROVE x \in v
    <3>1. e \in 1 .. MaxDepth
      OBVIOUS
    <3>2. PICK n \in at[e - 1] \cap (through \cup {Root}) : x \in par[n]
      BY <2>1, <3>1 DEF Distances
    <3>3. n \in v
      BY <1>3, <3>2
    <3>4. n \notin Waiting(q)
      BY <1>1, <3>2
    <3>5. e - 1 \in 0 .. MaxDepth - 1
      OBVIOUS
    <3> QED
      BY <3>2, <3>3, <3>4, <3>5 DEF PassedOn
  <2> QED
    BY <2>1
<1>4. 0 .. d \subseteq T
  <2> HIDE DEF T
  <2> QED
    BY <1>2, <1>3, ClosedSet
<1> QED
  BY <1>1, <1>4

(* The head of the queue leaves it, and its parents that are not marked    *)
(* join it if they are within the depth and the walk goes through it.      *)
Advances(q, v, r, w, par, through) ==
    LET n == q[1][1]
        d == q[1][2]
        joins == Len(q) .. Len(r)
    IN  /\ r \in Seq(Node \X (1 .. MaxDepth)) /\ Len(r) >= Len(q) - 1
        /\ \A i \in 1 .. Len(q) - 1 : r[i] = q[i + 1]
        /\ \A i \in joins : r[i][1] \in par[n] \ v /\ r[i][2] = d + 1
        /\ w = v \cup {r[i][1] : i \in joins}
        /\ joins # {} => d < MaxDepth /\ n \in through
        /\ d < MaxDepth /\ n \in through => par[n] \subseteq w

LEMMA Advance ==
    ASSUME NEW par \in [Node -> SUBSET Node], NEW through, NEW at, Distances(at, par, through),
           NEW q, NEW v, InOrder(q, v, at), PassedOn(q, v, at, par, through), Len(q) > 0,
           NEW r, NEW w, Advances(q, v, r, w, par, through)
    PROVE  /\ InOrder(r, w, at) /\ PassedOn(r, w, at, par, through)
           /\ w \ Waiting(r) \subseteq (v \ Waiting(q)) \cup {q[1][1]}
           /\ \A i \in 1 .. Len(r) : q[1][2] <= r[i][2]
<1> DEFINE n == q[1][1]
           d == q[1][2]
           joins == Len(q) .. Len(r)
<1>0. /\ MaxDepth \in Nat \ {0}
      /\ q \in Seq(Node \X (1 .. MaxDepth)) /\ Len(q) \in Nat
      /\ n \in Node /\ d \in 1 .. MaxDepth
      /\ n \in v \ {Root} /\ Nearest(at, n, d)
  BY LineageAssumption DEF InOrder
<1>1. /\ r \in Seq(Node \X (1 .. MaxDepth)) /\ Len(r) >= Len(q) - 1 /\ Len(r) \in Nat
      /\ \A i \in 1 .. Len(q) - 1 : r[i] = q[i + 1]
      /\ \A i \in joins : r[i][1] \in par[n] \ v /\ r[i][2] = d + 1
      /\ w = v \cup {r[i][1] : i \in joins}
      /\ joins # {} => d < MaxDepth /\ n \in through
      /\ d < MaxDepth /\ n \in through => par[n] \subseteq w
  BY DEF Advances
<1>2. /\ Root \in v /\ v \subseteq Node
      /\ \A i \in 1 .. Len(q) : q[i][1] \in v \ {Root} /\ Nearest(at, q[i][1], q[i][2])
      /\ \A i, j \in 1 .. Len(q) : i < j => q[i][2] <= q[j][2]
      /\ \A i \in 1 .. Len(q) : q[i][2] <= d + 1
  BY DEF InOrder
<1>3. \A i \in 1 .. Len(q) : q[i] \in Node \X (1 .. MaxDepth)
  BY <1>0
<1>4. \A i \in 1 .. Len(q) : d <= q[i][2]
  <2> SUFFICES ASSUME NEW i \in 1 .. Len(q) PROVE d <= q[i][2]
    OBVIOUS
  <2>1. CASE i = 1
    BY <1>0, <2>1
  <2>2. CASE i # 1
    <3>1. 1 < i /\ 1 \in 1 .. Len(q)
      BY <2>2
    <3> QED
      BY <1>2, <3>1
  <2> QED
    BY <2>1, <2>2
<1>5. /\ \A e \in 0 .. d : at[e] \subseteq v
      /\ \A e \in 0 .. d - 1 : at[e] \cap Waiting(q) = {}
  <2>1. d \in 0 .. MaxDepth
    BY <1>0
  <2> HIDE DEF d, n, joins
  <2> QED
    BY <1>4, <2>1, Reached
<1>6. \A i \in 1 .. Len(r) :
         \/ i \in 1 .. Len(q) - 1 /\ i + 1 \in 1 .. Len(q)
         \/ i \in joins
  BY <1>0, <1>1
<1> HIDE DEF n, d, joins
<1>7. ASSUME NEW i \in joins PROVE r[i][1] \in w \ {Root} /\ Nearest(at, r[i][1], r[i][2])
  <2>1. r[i][1] \in par[n] \ v /\ r[i][2] = d + 1 /\ d < MaxDepth /\ n \in through
    BY <1>1, <1>7
  <2>2. n \in at[d] \cap (through \cup {Root})
    BY <1>0, <2>1 DEF Nearest
  <2>3. d + 1 \in 1 .. MaxDepth /\ (d + 1) - 1 = d
    BY <1>0, <2>1
  <2>4. r[i][1] \in at[d + 1]
    BY <2>1, <2>2, <2>3 DEF Distances
  <2>5. \A e \in 0 .. (d + 1) - 1 : r[i][1] \notin at[e]
    BY <1>5, <2>1, <2>3
  <2> QED
    BY <1>1, <1>2, <2>1, <2>4, <2>5 DEF Nearest
<1>8. ASSUME NEW i \in 1 .. Len(r)
      PROVE  r[i][1] \in w \ {Root} /\ Nearest(at, r[i][1], r[i][2]) /\ r[i][2] \in d .. d + 1
  <2>1. CASE i \in joins
    BY <1>0, <1>1, <1>7, <2>1
  <2>2. CASE i \in 1 .. Len(q) - 1 /\ i + 1 \in 1 .. Len(q)
    <3>1. q[i + 1][2] \in 1 .. MaxDepth
      BY <1>3, <2>2
    <3> QED
      BY <1>0, <1>1, <1>2, <1>4, <2>2, <3>1
  <2> QED
    BY <1>6, <2>1, <2>2
<1>9. ASSUME NEW i \in 1 .. Len(r), NEW j \in 1 .. Len(r), i < j PROVE r[i][2] <= r[j][2]
  <2>1. CASE j \in joins
    BY <1>0, <1>1, <1>8, <2>1
  <2>2. CASE j \in 1 .. Len(q) - 1 /\ j + 1 \in 1 .. Len(q)
    <3>1. i \in 1 .. Len(q) - 1 /\ i + 1 \in 1 .. Len(q) /\ i + 1 < j + 1
      BY <1>0, <1>9, <2>2
    <3> QED
      BY <1>1, <1>2, <2>2, <3>1
  <2> QED
    BY <1>6, <2>1, <2>2
<1>10. \A i \in 1 .. Len(r) : r[i][2] <= r[1][2] + 1
  <2> SUFFICES ASSUME NEW i \in 1 .. Len(r) PROVE r[i][2] <= r[1][2] + 1
    OBVIOUS
  <2>1. 1 \in 1 .. Len(r)
    BY <1>1
  <2>2. r[1][2] \in d .. d + 1 /\ r[i][2] \in d .. d + 1
    BY <1>8, <2>1
  <2> QED
    BY <1>0, <2>2
<1>11. Root \in w /\ w \subseteq Node
  <2>1. par[n] \subseteq Node
    BY <1>0
  <2> QED
    BY <1>1, <1>2, <2>1
<1>12. InOrder(r, w, at)
  BY <1>1, <1>8, <1>9, <1>10, <1>11 DEF InOrder
<1>13. ASSUME NEW x \in w \ Waiting(r), x \notin v \ Waiting(q) PROVE x = n
  <2>1. \A i \in joins : r[i][1] \in Waiting(r)
    BY <1>0, <1>1 DEF Waiting, joins
  <2>2. x \in v
    BY <1>1, <1>13, <2>1
  <2>3. PICK i \in 1 .. Len(q) : x = q[i][1]
    BY <1>13, <2>2 DEF Waiting
  <2>4. CASE i = 1
    BY <2>3, <2>4 DEF n
  <2>5. CASE i # 1
    <3>1. i - 1 \in 1 .. Len(q) - 1 /\ i - 1 \in 1 .. Len(r) /\ (i - 1) + 1 = i
      BY <1>0, <1>1, <2>5
    <3>2. r[i - 1] = q[i]
      BY <1>1, <3>1
    <3> QED
      BY <1>13, <2>3, <3>1, <3>2 DEF Waiting
  <2> QED
    BY <2>4, <2>5
<1>14. PassedOn(r, w, at, par, through)
  <2> SUFFICES ASSUME NEW x \in w \ Waiting(r), NEW e \in 0 .. MaxDepth - 1,
                      x \in at[e] \cap (through \cup {Root})
               PROVE  par[x] \subseteq w
    BY DEF PassedOn
  <2>1. CASE x \in v \ Waiting(q)
    <3>1. par[x] \subseteq v
      BY <2>1 DEF PassedOn
    <3> QED
      BY <1>1, <3>1
  <2>2. CASE x = n
    <3>1. n \in through
      BY <1>0, <2>2
    <3>2. ~ (e \in 0 .. d - 1)
      BY <1>0, <2>2 DEF Nearest
    <3>3. d < MaxDepth
      BY <1>0, <3>2
    <3> QED
      BY <1>1, <2>2, <3>1, <3>3
  <2> QED
    BY <1>13, <2>1, <2>2
<1>15. \A i \in 1 .. Len(r) : d <= r[i][2]
  BY <1>0, <1>8
<1> QED
  BY <1>12, <1>13, <1>14, <1>15 DEF n, d

(* What is known of the manifest: nothing is its own descendant, so the    *)
(* model is nobody's parent.                                               *)
Ancestors == Node \ {Root}

ManifestOK ==
    /\ Root \in Node
    /\ manifest.known \subseteq Node /\ Root \in manifest.known
    /\ manifest.declares \subseteq manifest.known \cap Ancestors
    /\ \A n \in Node : GetParents(n) \in Seq(Ancestors)

Above == [n \in Node |-> Range(GetParents(n))]

LEMMA LeastNumber ==
    ASSUME NEW S, S \subseteq Nat, S # {}
    PROVE  Min(S) \in S /\ \A n \in S : Min(S) <= n
<1>1. PICK k \in S : \A n \in S : k <= n
  BY LeastElement
<1> QED
  BY <1>1 DEF Min

LEMMA LeastIs ==
    ASSUME NEW S, S \subseteq Nat, NEW x \in S, \A y \in S : x <= y
    PROVE  Min(S) = x
<1>1. PICK m : m = Min(S)
  OBVIOUS
<1>2. m \in S /\ \A y \in S : m <= y
  BY <1>1 DEF Min
<1>3. m \in Nat /\ x \in Nat /\ m <= x /\ x <= m
  BY <1>2
<1>4. m = x
  BY <1>3
<1> QED
  BY <1>1, <1>4

LEMMA AnyManifest ==
    ASSUME manifest \in Manifests
    PROVE  ManifestOK
<1>1. Root \in Node /\ \A n \in Node : Root <= n
  BY LineageAssumption, LeastNumber DEF Root
<1>2. PICK g \in {h \in [Node -> SUBSET Node] : \A n \in Node : \A p \in h[n] : n < p},
           order \in Orders :
             manifest.parents = [n \in Node |-> Those(order, g[n])]
  BY DEF Manifests
<1>3. order \in Seq(Node)
  <2>1. order \in [1 .. Cardinality(Node) -> Node]
    BY DEF Orders
  <2>2. Cardinality(Node) \in Nat
    BY LineageAssumption, FS_CardinalityType
  <2> DEFINE c == Cardinality(Node)
  <2> HIDE DEF c
  <2>3. order \in [1 .. c -> Node] /\ c \in Nat
    BY <2>1, <2>2 DEF c
  <2> QED
    BY <2>3
<1>4. ASSUME NEW n \in Node PROVE GetParents(n) \in Seq(Ancestors)
  <2> DEFINE t == Those(order, g[n])
  <2>1. t \in Seq(Node) /\ \A k \in 1 .. Len(t) : t[k] \in g[n]
    BY <1>3, ThoseHas
  <2>2. GetParents(n) \in {t, <<>>}
    BY <1>2 DEF GetParents
  <2> HIDE DEF t
  <2>3. \A k \in 1 .. Len(t) : t[k] \in Node \ {Root}
    <3> SUFFICES ASSUME NEW k \in 1 .. Len(t) PROVE t[k] \in Node \ {Root}
      OBVIOUS
    <3>1. t[k] \in Node /\ t[k] \in g[n]
      BY <2>1
    <3>2. n < t[k]
      BY <1>2, <3>1
    <3>3. Root <= n /\ Root \in Nat /\ n \in Nat /\ t[k] \in Nat
      BY <1>1, <3>1, LineageAssumption
    <3> QED
      BY <3>1, <3>2, <3>3
  <2>4. t \in Seq(Ancestors)
    <3> DEFINE m == Len(t)
    <3>1. m \in Nat /\ t = [k \in 1 .. m |-> t[k]]
      BY <2>1
    <3>2. \A k \in 1 .. m : t[k] \in Ancestors
      BY <2>3 DEF Ancestors
    <3> HIDE DEF m
    <3>3. t \in [1 .. m -> Ancestors]
      BY <3>1, <3>2
    <3> QED
      BY <3>1, <3>3
  <2>5. <<>> \in Seq(Ancestors)
    OBVIOUS
  <2> QED
    BY <2>2, <2>4, <2>5
<1> QED
  BY <1>1, <1>4 DEF ManifestOK, Manifests, Ancestors

LEMMA RangeOfList ==
    ASSUME NEW X, NEW s \in Seq(X)
    PROVE  /\ Range(s) \subseteq X
           /\ \A k \in 1 .. Len(s) : s[k] \in Range(s)
           /\ \A x \in Range(s) : \E k \in 1 .. Len(s) : x = s[k]
BY DEF Range

LEMMA AboveType ==
    ASSUME ManifestOK
    PROVE  /\ Above \in [Node -> SUBSET Node]
           /\ \A n \in Node : /\ Above[n] = Range(GetParents(n))
                              /\ Root \notin Above[n]
                              /\ \A k \in 1 .. Len(GetParents(n)) : GetParents(n)[k] \in Above[n]
<1>1. ASSUME NEW n \in Node
      PROVE  /\ Range(GetParents(n)) \subseteq Ancestors
             /\ \A k \in 1 .. Len(GetParents(n)) : GetParents(n)[k] \in Range(GetParents(n))
  <2> DEFINE t == GetParents(n)
  <2>1. t \in Seq(Ancestors)
    BY DEF ManifestOK
  <2> HIDE DEF t
  <2>2. Range(t) \subseteq Ancestors /\ \A k \in 1 .. Len(t) : t[k] \in Range(t)
    BY <2>1, RangeOfList
  <2> QED
    BY <2>2 DEF t
<1> QED
  BY <1>1 DEF Above, Ancestors

LEMMA DistancesExist ==
    ASSUME ManifestOK, NEW through
    PROVE  Distances(AtDistance(through), Above, through)
<1> DEFINE Onward(R) == UNION {Range(GetParents(n)) : n \in R \cap (through \cup {Root})}
           onward == [p \in (1 .. MaxDepth) \X (SUBSET Node) |-> Onward(p[2])]
           IsRec(f) == f = [d \in 0 .. MaxDepth |-> IF d = 0 THEN {Root} ELSE Onward(f[d - 1])]
           nodes == CHOOSE f : IsRec(f)
<1>0. MaxDepth \in Nat /\ {Root} \in SUBSET Node
  BY LineageAssumption DEF ManifestOK
<1>1. \A R \in SUBSET Node : Onward(R) \in SUBSET Node
  BY AboveType
<1>2. \A R \in SUBSET Node : Onward(R) = UNION {Above[n] : n \in R \cap (through \cup {Root})}
  BY AboveType
<1>3. AtDistance(through) = nodes
  BY DEF AtDistance
<1> HIDE DEF Onward
<1>4. onward \in [(1 .. MaxDepth) \X (SUBSET Node) -> SUBSET Node]
  BY <1>1
<1>5. PICK f : Recursive(f, MaxDepth, SUBSET Node, {Root}, onward)
  <2> HIDE DEF onward
  <2> QED
    BY <1>0, <1>4, RecursionExists
<1>6. \A d \in 1 .. MaxDepth : f[d] = Onward(f[d - 1])
  <2> SUFFICES ASSUME NEW d \in 1 .. MaxDepth PROVE f[d] = Onward(f[d - 1])
    OBVIOUS
  <2>1. f[d - 1] \in SUBSET Node
    BY <1>0, <1>5 DEF Recursive
  <2>2. <<d, f[d - 1]>> \in (1 .. MaxDepth) \X (SUBSET Node)
    BY <2>1
  <2> QED
    BY <1>5, <2>2 DEF Recursive
<1>7. IsRec(f)
  <2>1. \A d \in 0 .. MaxDepth : f[d] = IF d = 0 THEN {Root} ELSE Onward(f[d - 1])
    BY <1>0, <1>5, <1>6 DEF Recursive
  <2> QED
    BY <1>5, <2>1 DEF Recursive
<1>8. IsRec(nodes)
  <2> HIDE DEF IsRec
  <2> QED
    BY <1>7
<1> HIDE DEF nodes
<1>9. nodes[0] = {Root} /\ \A d \in 1 .. MaxDepth : nodes[d] = Onward(nodes[d - 1])
  <2>1. \A d \in 0 .. MaxDepth : nodes[d] = IF d = 0 THEN {Root} ELSE Onward(nodes[d - 1])
    BY <1>8
  <2> HIDE DEF IsRec
  <2> QED
    BY <1>0, <2>1
<1> DEFINE T == {d \in 0 .. MaxDepth : nodes[d] \in SUBSET Node}
<1>10. 0 \in T
  BY <1>0, <1>9
<1>11. ASSUME NEW d \in 1 .. MaxDepth, d - 1 \in T PROVE d \in T
  BY <1>0, <1>1, <1>9, <1>11
<1>12. 0 .. MaxDepth \subseteq T
  <2> HIDE DEF T
  <2> QED
    BY <1>0, <1>10, <1>11, ClosedSet
<1>13. nodes \in [0 .. MaxDepth -> SUBSET Node]
  BY <1>8, <1>12
<1>14. \A d \in 1 .. MaxDepth :
          nodes[d] = UNION {Above[n] : n \in nodes[d - 1] \cap (through \cup {Root})}
  <2> SUFFICES ASSUME NEW d \in 1 .. MaxDepth
               PROVE  nodes[d] = UNION {Above[n] : n \in nodes[d - 1] \cap (through \cup {Root})}
    OBVIOUS
  <2>1. nodes[d - 1] \in SUBSET Node
    BY <1>0, <1>13
  <2> QED
    BY <1>2, <1>9, <2>1
<1> QED
  BY <1>3, <1>9, <1>13, <1>14 DEF Distances

LEMMA QueuedType ==
    ASSUME NEW X, NEW s \in Seq(X), NEW D, NEW d \in D
    PROVE  /\ Queued(s, d) \in Seq(X \X D) /\ Len(Queued(s, d)) = Len(s)
           /\ \A i \in 1 .. Len(s) : Queued(s, d)[i] = <<s[i], d>>
<1> DEFINE n == Len(s)
           u == Queued(s, d)
           Y == X \X D
<1>1. n \in Nat /\ \A i \in 1 .. n : s[i] \in X
  OBVIOUS
<1>2. u = [i \in 1 .. n |-> <<s[i], d>>]
  BY DEF Queued
<1>3. \A i \in 1 .. n : <<s[i], d>> \in Y
  BY <1>1
<1> HIDE DEF n, u, Y
<1>4. u \in [1 .. n -> Y] /\ \A i \in 1 .. n : u[i] = <<s[i], d>>
  BY <1>2, <1>3
<1>5. u \in Seq(Y) /\ Len(u) = n
  BY <1>1, <1>4
<1> QED
  BY <1>4, <1>5 DEF n, u, Y

LEMMA WalkStarts ==
    ASSUME ManifestOK, NEW through, NEW at, Distances(at, Above, through),
           NEW q, q = Queued(GetParents(Root), 1),
           NEW v, v = {Root} \cup Range(GetParents(Root))
    PROVE  InOrder(q, v, at) /\ PassedOn(q, v, at, Above, through) /\ v \ Waiting(q) \subseteq {Root}
<1> DEFINE s == GetParents(Root)
           one == 1
<1>0. MaxDepth \in Nat \ {0} /\ Root \in Node /\ 1 \in 1 .. MaxDepth
  BY LineageAssumption DEF ManifestOK
<1>1. /\ s \in Seq(Ancestors) /\ Above[Root] = Range(s) /\ Above[Root] \subseteq Ancestors
      /\ \A k \in 1 .. Len(s) : s[k] \in Above[Root]
  BY <1>0, AboveType DEF ManifestOK, Ancestors
<1>2. /\ q \in Seq(Ancestors \X (1 .. MaxDepth)) /\ Len(q) = Len(s)
      /\ \A i \in 1 .. Len(s) : q[i] = <<s[i], 1>>
  <2> HIDE DEF s, one
  <2>1. q = Queued(s, one) /\ one \in 1 .. MaxDepth
    BY <1>0 DEF s, one
  <2>2. /\ Queued(s, one) \in Seq(Ancestors \X (1 .. MaxDepth)) /\ Len(Queued(s, one)) = Len(s)
        /\ \A i \in 1 .. Len(s) : Queued(s, one)[i] = <<s[i], one>>
    BY <1>1, <2>1, QueuedType
  <2> QED
    BY <2>1, <2>2 DEF one
<1>3. v = {Root} \cup Above[Root]
  BY <1>1
<1>4. at[1] = Above[Root] /\ at[0] = {Root}
  <2>1. at[1] = UNION {Above[n] : n \in at[0] \cap (through \cup {Root})} /\ at[0] = {Root}
    BY <1>0 DEF Distances
  <2> QED
    BY <2>1
<1>5. \A x \in Range(s) : \E k \in 1 .. Len(s) : x = s[k]
  <2> HIDE DEF s
  <2> QED
    BY <1>1, RangeOfList
<1> HIDE DEF s
<1>6. \A i \in 1 .. Len(q) : q[i][1] \in v \ {Root} /\ q[i][2] = 1 /\ Nearest(at, q[i][1], 1)
  BY <1>1, <1>2, <1>3, <1>4 DEF Nearest, Ancestors
<1>7. q \in Seq(Node \X (1 .. MaxDepth))
  BY <1>0, <1>2 DEF Ancestors
<1>8. \A i \in 1 .. Len(q) : q[1][2] = 1
  BY <1>2, <1>6
<1>9. InOrder(q, v, at)
  BY <1>0, <1>1, <1>3, <1>6, <1>7, <1>8 DEF InOrder, Ancestors
<1>10. v \ Waiting(q) \subseteq {Root}
  <2> SUFFICES ASSUME NEW x \in Range(s) PROVE x \in Waiting(q)
    BY <1>1, <1>3
  <2>1. PICK k \in 1 .. Len(s) : x = s[k]
    BY <1>5
  <2>2. k \in 1 .. Len(q) /\ q[k][1] = x
    BY <1>2, <2>1
  <2> QED
    BY <2>2 DEF Waiting
<1>11. PassedOn(q, v, at, Above, through)
  BY <1>3, <1>10 DEF PassedOn
<1> QED
  BY <1>9, <1>10, <1>11

LEMMA HeadLeaves ==
    ASSUME NEW par, NEW through, NEW at, NEW q, NEW v, InOrder(q, v, at), Len(q) > 0,
           ~ (q[1][2] < MaxDepth /\ q[1][1] \in through)
    PROVE  Advances(q, v, Tail(q), v, par, through)
<1>1. q \in Seq(Node \X (1 .. MaxDepth))
  BY DEF InOrder
<1>2. /\ Tail(q) \in Seq(Node \X (1 .. MaxDepth)) /\ Len(Tail(q)) = Len(q) - 1
      /\ \A i \in 1 .. Len(q) - 1 : Tail(q)[i] = q[i + 1]
  BY <1>1
<1>3. Len(q) .. Len(Tail(q)) = {}
  BY <1>1, <1>2
<1> QED
  BY <1>2, <1>3 DEF Advances

LEMMA ParentsJoin ==
    ASSUME NEW par, NEW through, NEW at, NEW q, NEW v, InOrder(q, v, at), Len(q) > 0,
           q[1][2] < MaxDepth, q[1][1] \in through,
           NEW fresh \in Seq(Node), \A k \in 1 .. Len(fresh) : fresh[k] \in par[q[1][1]] \ v,
           par[q[1][1]] \subseteq v \cup Range(fresh)
    PROVE  Advances(q, v, Tail(q) \o Queued(fresh, q[1][2] + 1), v \cup Range(fresh), par, through)
<1> DEFINE n == q[1][1]
           d == q[1][2] + 1
           u == Queued(fresh, d)
           r == Tail(q) \o u
           m == Len(q) - 1
<1>0. /\ q \in Seq(Node \X (1 .. MaxDepth)) /\ Len(q) \in Nat /\ MaxDepth \in Nat
      /\ n \in Node /\ d \in 1 .. MaxDepth
  BY LineageAssumption DEF InOrder
<1>1. /\ u \in Seq(Node \X (1 .. MaxDepth)) /\ Len(u) = Len(fresh)
      /\ \A i \in 1 .. Len(fresh) : u[i] = <<fresh[i], d>>
  <2> HIDE DEF d
  <2> QED
    BY <1>0, QueuedType
<1>2. /\ Tail(q) \in Seq(Node \X (1 .. MaxDepth)) /\ Len(Tail(q)) = m /\ m \in Nat
      /\ \A i \in 1 .. m : Tail(q)[i] = q[i + 1]
  BY <1>0
<1>3. Len(u) \in Nat
  BY <1>1
<1> HIDE DEF u
<1>4. /\ r \in Seq(Node \X (1 .. MaxDepth)) /\ Len(r) = m + Len(u)
      /\ \A i \in 1 .. m : r[i] = Tail(q)[i]
      /\ \A i \in m + 1 .. Len(r) : r[i] = u[i - m]
  <2> HIDE DEF m
  <2> QED
    BY <1>1, <1>2
<1> HIDE DEF r, d
<1>5. Len(q) = m + 1
  BY <1>0
<1> HIDE DEF m
<1>6. ASSUME NEW i \in m + 1 .. Len(r)
      PROVE  \E k \in 1 .. Len(fresh) : r[i] = <<fresh[k], d>>
  <2>1. i - m \in 1 .. Len(fresh)
    BY <1>1, <1>2, <1>3, <1>4
  <2> QED
    BY <1>1, <1>4, <2>1
<1>7. ASSUME NEW k \in 1 .. Len(fresh)
      PROVE  \E i \in m + 1 .. Len(r) : r[i] = <<fresh[k], d>>
  <2>1. k + m \in m + 1 .. Len(r) /\ (k + m) - m = k
    BY <1>1, <1>2, <1>3, <1>4
  <2>2. r[k + m] = <<fresh[k], d>>
    BY <1>1, <1>4, <2>1
  <2> QED
    BY <2>1, <2>2
<1>8. \A i \in m + 1 .. Len(r) : r[i][1] \in par[n] \ v /\ r[i][2] = d
  <2> SUFFICES ASSUME NEW i \in m + 1 .. Len(r) PROVE r[i][1] \in par[n] \ v /\ r[i][2] = d
    OBVIOUS
  <2>1. PICK k \in 1 .. Len(fresh) : r[i] = <<fresh[k], d>>
    BY <1>6
  <2> QED
    BY <2>1
<1>9. Range(fresh) = {r[i][1] : i \in m + 1 .. Len(r)}
  <2>1. ASSUME NEW x \in Range(fresh) PROVE x \in {r[i][1] : i \in m + 1 .. Len(r)}
    <3>1. PICK k \in 1 .. Len(fresh) : x = fresh[k]
      BY RangeOfList
    <3>2. PICK i \in m + 1 .. Len(r) : r[i] = <<fresh[k], d>>
      BY <1>7
    <3>3. r[i][1] = x
      BY <3>1, <3>2
    <3> QED
      BY <3>3
  <2>2. ASSUME NEW i \in m + 1 .. Len(r) PROVE r[i][1] \in Range(fresh)
    <3>1. PICK k \in 1 .. Len(fresh) : r[i] = <<fresh[k], d>>
      BY <1>6
    <3>2. fresh[k] \in Range(fresh)
      BY RangeOfList
    <3> QED
      BY <3>1, <3>2
  <2> QED
    BY <2>1, <2>2
<1>10. \A i \in 1 .. Len(q) - 1 : r[i] = q[i + 1]
  BY <1>2, <1>4, <1>5
<1>11. d = q[1][2] + 1
  BY DEF d
<1>12. Len(r) >= Len(q) - 1
  BY <1>2, <1>3, <1>4, <1>5
<1>13. Advances(q, v, r, v \cup Range(fresh), par, through)
  BY <1>4, <1>5, <1>8, <1>9, <1>10, <1>11, <1>12 DEF Advances
<1> QED
  BY <1>13 DEF r, u, d

LEMMA FreshParents ==
    ASSUME ManifestOK, NEW n \in Node, NEW v
    PROVE  LET fresh == Those(GetParents(n), Node \ v) IN
           /\ fresh \in Seq(Node) /\ \A k \in 1 .. Len(fresh) : fresh[k] \in Above[n] \ v
           /\ Above[n] \subseteq v \cup Range(fresh)
<1> DEFINE s == GetParents(n)
           Unmarked == Node \ v
           fresh == Those(s, Unmarked)
<1>1. /\ s \in Seq(Ancestors) /\ Above[n] = Range(s) /\ Above[n] \subseteq Node
      /\ \A k \in 1 .. Len(s) : s[k] \in Above[n]
  BY AboveType DEF ManifestOK
<1> HIDE DEF s, Unmarked
<1>3. /\ fresh \in Seq(Ancestors)
      /\ \A k \in 1 .. Len(fresh) : fresh[k] \in Unmarked /\ \E i \in 1 .. Len(s) : s[i] = fresh[k]
      /\ \A i \in 1 .. Len(s) : s[i] \in Unmarked => \E k \in 1 .. Len(fresh) : fresh[k] = s[i]
  BY <1>1, ThoseHas
<1> HIDE DEF fresh
<1>4. \A x \in Range(s) : \E i \in 1 .. Len(s) : x = s[i]
  BY <1>1, RangeOfList
<1>5. \A k \in 1 .. Len(fresh) : fresh[k] \in Range(fresh)
  BY <1>3, RangeOfList
<1>6. ASSUME NEW x \in Above[n], x \notin v PROVE x \in Range(fresh)
  <2>1. PICK i \in 1 .. Len(s) : x = s[i]
    BY <1>1, <1>4
  <2>2. PICK k \in 1 .. Len(fresh) : fresh[k] = s[i]
    BY <1>1, <1>3, <1>6, <2>1 DEF Unmarked
  <2> QED
    BY <1>5, <2>1, <2>2
<1>7. ASSUME NEW k \in 1 .. Len(fresh) PROVE fresh[k] \in Above[n] \ v
  BY <1>1, <1>3 DEF Unmarked
<1>8. fresh \in Seq(Node)
  BY <1>3 DEF Ancestors
<1> QED
  BY <1>6, <1>7, <1>8 DEF fresh, s, Unmarked

(* Expand, of a node that the walk goes through.                           *)
LEMMA ExpandAdvances ==
    ASSUME ManifestOK, NEW through, NEW at, InOrder(queue, visited, at), queue # <<>>,
           queue[1][1] \in through, Expand(queue[1][1], queue[1][2])
    PROVE  Advances(queue, visited, queue', visited', Above, through)
<1>0. Len(queue) > 0 /\ queue[1][1] \in Node
  BY DEF InOrder
<1>1. CASE queue[1][2] < MaxDepth
  <2> DEFINE fresh == Those(GetParents(queue[1][1]), Node \ visited)
             d == queue[1][2] + 1
  <2>1. queue' = Tail(queue) \o Queued(fresh, d) /\ visited' = visited \cup Range(fresh)
    BY <1>1 DEF Expand, Enqueue
  <2>2. /\ fresh \in Seq(Node)
        /\ \A k \in 1 .. Len(fresh) : fresh[k] \in Above[queue[1][1]] \ visited
        /\ Above[queue[1][1]] \subseteq visited \cup Range(fresh)
    BY <1>0, FreshParents
  <2> HIDE DEF fresh
  <2>3. Advances(queue, visited, Tail(queue) \o Queued(fresh, d),
                 visited \cup Range(fresh), Above, through)
    BY <1>0, <1>1, <2>2, ParentsJoin
  <2> QED
    BY <2>1, <2>3
<1>2. CASE ~ (queue[1][2] < MaxDepth)
  <2>1. queue' = Tail(queue) /\ visited' = visited
    BY <1>2 DEF Expand
  <2>2. Advances(queue, visited, Tail(queue), visited, Above, through)
    BY <1>0, <1>2, HeadLeaves
  <2> QED
    BY <2>1, <2>2
<1> QED
  BY <1>1, <1>2

-----------------------------------------------------------------------------
(* The diagnosis of an invalid column, step by step.                       *)
Lives == {"unknown", "exists", "missing", "no_column"}

TrailEntries ==
    [node : Node, depth : 0 .. MaxDepth, manifest : {"declared", "not_found"}, live : Lives,
     run : {"error", "none"}]

OriginIsNearest(o, near, declares) ==
    IF o = NoNode
    THEN \A d \in 0 .. MaxDepth : near[d] \cap declares = {}
    ELSE \E d \in 1 .. MaxDepth :
            /\ o \in near[d] \cap declares
            /\ \A e \in 0 .. d - 1 : near[e] \cap declares = {}

(* A trail is the model and then ancestors in the order of their least     *)
(* distances, with what the manifest says of each.                         *)
TrailInOrder(t, all, declares) ==
    /\ t \in Seq(TrailEntries) /\ Len(t) >= 1
    /\ t[1].node = Root /\ t[1].manifest = "declared" /\ t[1].run = "error"
    /\ \A i \in 2 .. Len(t) :
          /\ t[i].node # Root /\ Nearest(all, t[i].node, t[i].depth)
          /\ t[i].manifest = IF t[i].node \in declares THEN "declared" ELSE "not_found"
          /\ t[i].run = "none"
    /\ \A i, j \in 2 .. Len(t) : i < j => t[i].depth <= t[j].depth

Shows(t, n) == \E i \in 2 .. Len(t) : t[i].node = n

(* The trail has what the walk has passed, and is behind what it waits for. *)
KeepsUp(t, q, v) ==
    /\ \A i \in 2 .. Len(t) : \A j \in 1 .. Len(q) : t[i].depth <= q[j][2]
    /\ \A n \in v \ (Waiting(q) \cup {Root}) : Shows(t, n)

ShowsAll(t, all) == \A d \in 0 .. MaxDepth : \A n \in all[d] \ {Root} : Shows(t, n)

ColumnInv(near, all) ==
    /\ phase \in {"classify", "origin"} => origin = NoNode
    /\ phase = "origin" =>
          /\ InOrder(queue, visited, near)
          /\ PassedOn(queue, visited, near, Above, manifest.known)
          /\ (visited \ Waiting(queue)) \cap manifest.declares = {}
    /\ phase \in {"origin-known", "trail", "enrich"} =>
          OriginIsNearest(origin, near, manifest.declares)
    /\ phase = "trail" =>
          /\ InOrder(queue, visited, all)
          /\ PassedOn(queue, visited, all, Above, Node)
          /\ KeepsUp(trail, queue, visited)
    /\ phase \in {"trail", "enrich", "identified"} =>
          TrailInOrder(trail, all, manifest.declares)
    /\ phase \in {"enrich", "identified"} => ShowsAll(trail, all)
    /\ phase = "identified" => disconnect = Disconnect

LineageInv ==
    /\ ManifestOK /\ probed \in Nat
    /\ error = "column" => ColumnInv(AtDistance(manifest.known), AtDistance(Node))

LEMMA ManifestStays ==
    ASSUME ManifestOK, manifest' = manifest
    PROVE  ManifestOK' /\ Above' = Above
BY DEF ManifestOK, Above, GetParents

LEMMA TraceColumnInv ==
    ASSUME ManifestOK, NEW near, NEW all, Distances(near, Above, manifest.known),
           ColumnInv(near, all), TraceColumn
    PROVE  ColumnInv(near, all)'
<1>1. /\ queue' = Queued(GetParents(Root), 1) /\ visited' = {Root} \cup Range(GetParents(Root))
      /\ phase' = "origin" /\ origin' = NoNode /\ manifest' = manifest
  BY DEF TraceColumn, StartWalk, ColumnInv
<1>2. /\ InOrder(queue', visited', near) /\ PassedOn(queue', visited', near, Above, manifest.known)
      /\ visited' \ Waiting(queue') \subseteq {Root}
  BY <1>1, WalkStarts
<1>3. Root \notin manifest.declares
  BY DEF ManifestOK, Ancestors
<1> QED
  BY <1>1, <1>2, <1>3, ManifestStays DEF ColumnInv

LEMMA HeadOfQueue ==
    ASSUME NEW at, InOrder(queue, visited, at), queue # <<>>
    PROVE  /\ Len(queue) > 0 /\ Head(queue) = queue[1]
           /\ queue[1][1] \in Node \ {Root} /\ queue[1][2] \in 1 .. MaxDepth
           /\ Nearest(at, queue[1][1], queue[1][2])
           /\ \A i \in 1 .. Len(queue) : queue[1][2] <= queue[i][2]
<1>1. queue \in Seq(Node \X (1 .. MaxDepth)) /\ Len(queue) > 0 /\ Head(queue) = queue[1]
  BY DEF InOrder
<1>2. /\ \A i \in 1 .. Len(queue) : queue[i][1] \in visited \ {Root} /\ Nearest(at, queue[i][1], queue[i][2])
      /\ \A i, j \in 1 .. Len(queue) : i < j => queue[i][2] <= queue[j][2]
  BY DEF InOrder
<1>3. 1 \in 1 .. Len(queue) /\ queue[1] \in Node \X (1 .. MaxDepth)
  BY <1>1
<1>4. queue[1][1] \in Node \ {Root} /\ queue[1][2] \in 1 .. MaxDepth
      /\ Nearest(at, queue[1][1], queue[1][2])
  BY <1>2, <1>3
<1>5. ASSUME NEW i \in 1 .. Len(queue) PROVE queue[1][2] <= queue[i][2]
  <2>1. CASE i = 1
    BY <1>4, <2>1, LineageAssumption
  <2>2. CASE i # 1
    BY <1>2, <1>3, <2>2
  <2> QED
    BY <2>1, <2>2
<1> QED
  BY <1>1, <1>4, <1>5

LEMMA VisitForOriginInv ==
    ASSUME ManifestOK, NEW near, NEW all, Distances(near, Above, manifest.known),
           ColumnInv(near, all), VisitForOrigin
    PROVE  ColumnInv(near, all)'
<1> DEFINE n == queue[1][1]
           d == queue[1][2]
<1>1. /\ phase = "origin" /\ queue # <<>> /\ origin = NoNode /\ manifest' = manifest
      /\ InOrder(queue, visited, near)
      /\ PassedOn(queue, visited, near, Above, manifest.known)
      /\ (visited \ Waiting(queue)) \cap manifest.declares = {}
  BY DEF VisitForOrigin, ColumnInv
<1>2. /\ Len(queue) > 0 /\ Head(queue) = queue[1] /\ n \in Node \ {Root} /\ d \in 1 .. MaxDepth
      /\ Nearest(near, n, d) /\ \A i \in 1 .. Len(queue) : d <= queue[i][2]
  BY <1>1, HeadOfQueue
<1>3. Above \in [Node -> SUBSET Node] /\ manifest.declares \subseteq manifest.known
  BY AboveType DEF ManifestOK
<1>4. ASSUME Advances(queue, visited, queue', visited', Above, manifest.known),
             n \notin manifest.declares, phase' = "origin", origin' = NoNode
      PROVE  ColumnInv(near, all)'
  <2>1. /\ InOrder(queue', visited', near) /\ PassedOn(queue', visited', near, Above, manifest.known)
        /\ visited' \ Waiting(queue') \subseteq (visited \ Waiting(queue)) \cup {n}
    BY <1>1, <1>2, <1>3, <1>4, Advance
  <2>2. (visited' \ Waiting(queue')) \cap manifest.declares = {}
    BY <1>1, <1>4, <2>1
  <2> QED
    BY <1>1, <1>4, <2>1, <2>2, ManifestStays DEF ColumnInv
<1>5. CASE n \notin manifest.known /\ queue' = Tail(queue) /\ UNCHANGED <<phase, visited, origin>>
  <2>1. Advances(queue, visited, Tail(queue), visited, Above, manifest.known)
    BY <1>1, <1>2, <1>5, HeadLeaves
  <2> QED
    BY <1>1, <1>3, <1>4, <1>5, <2>1
<1>6. CASE n \in manifest.declares /\ origin' = n /\ phase' = "origin-known"
  <2>1. /\ \A e \in 0 .. d : near[e] \subseteq visited
        /\ \A e \in 0 .. d - 1 : near[e] \cap Waiting(queue) = {}
    <3>1. d \in 0 .. MaxDepth
      BY <1>2, LineageAssumption
    <3> HIDE DEF d
    <3> QED
      BY <1>1, <1>2, <1>3, <3>1, Reached
  <2>2. \A e \in 0 .. d - 1 : near[e] \cap manifest.declares = {}
    <3> SUFFICES ASSUME NEW e \in 0 .. d - 1, NEW x \in near[e] \cap manifest.declares PROVE FALSE
      OBVIOUS
    <3>1. e \in 0 .. d
      BY <1>2, LineageAssumption
    <3>2. x \in visited \ Waiting(queue)
      BY <2>1, <3>1
    <3> QED
      BY <1>1, <3>2
  <2>3. n \in near[d] \cap manifest.declares /\ n # NoNode
    BY <1>2, <1>6, LineageAssumption DEF Nearest, NoNode
  <2>4. OriginIsNearest(n, near, manifest.declares)
    <3> HIDE DEF n, d
    <3> QED
      BY <1>2, <2>2, <2>3 DEF OriginIsNearest
  <2> QED
    BY <1>1, <1>6, <2>4 DEF ColumnInv
<1>7. CASE n \in manifest.known \ manifest.declares /\ Expand(n, d) /\ UNCHANGED <<phase, origin>>
  <2>1. Advances(queue, visited, queue', visited', Above, manifest.known)
    BY <1>1, <1>7, ExpandAdvances
  <2> QED
    BY <1>1, <1>4, <1>7, <2>1
<1> QED
  BY <1>2, <1>5, <1>6, <1>7 DEF VisitForOrigin

LEMMA StartTrailInv ==
    ASSUME ManifestOK, NEW near, NEW all, Distances(near, Above, manifest.known),
           Distances(all, Above, Node), ColumnInv(near, all), StartTrail
    PROVE  ColumnInv(near, all)'
<1>1. /\ queue' = Queued(GetParents(Root), 1) /\ visited' = {Root} \cup Range(GetParents(Root))
      /\ phase' = "trail" /\ origin' = origin /\ manifest' = manifest
      /\ trail' = <<Step(Root, 0, "declared")>>
  BY DEF StartTrail, StartWalk
<1>2. /\ InOrder(queue', visited', all) /\ PassedOn(queue', visited', all, Above, Node)
      /\ visited' \ Waiting(queue') \subseteq {Root}
  BY <1>1, WalkStarts
<1>3. OriginIsNearest(origin, near, manifest.declares)
  <2>1. CASE phase = "origin-known"
    BY <2>1 DEF ColumnInv
  <2>2. CASE phase = "origin" /\ queue = <<>>
    <3>1. /\ origin = NoNode /\ InOrder(queue, visited, near)
          /\ PassedOn(queue, visited, near, Above, manifest.known)
          /\ (visited \ Waiting(queue)) \cap manifest.declares = {}
      BY <2>2 DEF ColumnInv
    <3>2. Len(queue) = 0 /\ Waiting(queue) = {}
      BY <2>2 DEF Waiting
    <3>3. MaxDepth \in 0 .. MaxDepth
      BY LineageAssumption
    <3>4. \A e \in 0 .. MaxDepth : near[e] \subseteq visited
      BY <3>1, <3>2, <3>3, AboveType, Reached
    <3> QED
      BY <3>1, <3>2, <3>4 DEF OriginIsNearest
  <2> QED
    BY <2>1, <2>2 DEF StartTrail
<1>4. TrailInOrder(trail', all, manifest.declares)
  <2> DEFINE s == Step(Root, 0, "declared")
  <2>1. s \in TrailEntries /\ s.node = Root /\ s.manifest = "declared" /\ s.run = "error"
    BY LineageAssumption DEF Step, TrailEntries, Lives, ManifestOK
  <2> HIDE DEF s
  <2>2. trail' = <<s>>
    BY <1>1 DEF s
  <2>3. trail' \in Seq(TrailEntries) /\ Len(trail') = 1 /\ trail'[1] = s
    BY <2>1, <2>2
  <2> QED
    BY <2>1, <2>3 DEF TrailInOrder
<1>5. KeepsUp(trail', queue', visited')
  <2>1. Len(trail') = 1
    BY <1>1
  <2> QED
    BY <1>2, <2>1 DEF KeepsUp
<1> QED
  BY <1>1, <1>2, <1>3, <1>4, <1>5, ManifestStays DEF ColumnInv

LEMMA TrailGrows ==
    ASSUME NEW all, NEW declares, NEW t, TrailInOrder(t, all, declares), NEW s \in TrailEntries,
           s.node # Root, Nearest(all, s.node, s.depth), s.run = "none",
           s.manifest = IF s.node \in declares THEN "declared" ELSE "not_found",
           \A i \in 2 .. Len(t) : t[i].depth <= s.depth
    PROVE  /\ TrailInOrder(Append(t, s), all, declares)
           /\ Shows(Append(t, s), s.node) /\ \A n : Shows(t, n) => Shows(Append(t, s), n)
           /\ \A i \in 2 .. Len(Append(t, s)) : Append(t, s)[i].depth <= s.depth
<1> DEFINE u == Append(t, s)
           l == Len(t)
<1>1. /\ t \in Seq(TrailEntries) /\ l \in Nat /\ l >= 1
      /\ t[1].node = Root /\ t[1].manifest = "declared" /\ t[1].run = "error"
      /\ \A i \in 2 .. l :
            /\ t[i].node # Root /\ Nearest(all, t[i].node, t[i].depth)
            /\ t[i].manifest = IF t[i].node \in declares THEN "declared" ELSE "not_found"
            /\ t[i].run = "none"
      /\ \A i, j \in 2 .. l : i < j => t[i].depth <= t[j].depth
  BY DEF TrailInOrder
<1>2. u \in Seq(TrailEntries) /\ Len(u) = l + 1 /\ u[l + 1] = s /\ \A i \in 1 .. l : u[i] = t[i]
  BY <1>1
<1>3. s.depth \in Nat
  BY LineageAssumption DEF TrailEntries
<1> HIDE DEF u
<1>4. \A i \in 2 .. Len(u) : i = l + 1 \/ (i \in 2 .. l /\ i \in 1 .. l)
  BY <1>1, <1>2
<1> HIDE DEF l
<1>5. ASSUME NEW i \in 2 .. Len(u)
      PROVE  /\ u[i].node # Root /\ Nearest(all, u[i].node, u[i].depth)
             /\ u[i].manifest = IF u[i].node \in declares THEN "declared" ELSE "not_found"
             /\ u[i].run = "none"
             /\ u[i].depth <= s.depth
  <2>1. CASE i = l + 1
    BY <1>2, <1>3, <2>1
  <2>2. CASE i \in 2 .. l /\ i \in 1 .. l
    <3>1. u[i] = t[i]
      BY <1>2, <2>2
    <3>2. t[i].depth <= s.depth
      BY <2>2 DEF l
    <3> QED
      BY <1>1, <2>2, <3>1, <3>2
  <2> QED
    BY <1>4, <2>1, <2>2
<1>6. ASSUME NEW i \in 2 .. Len(u), NEW j \in 2 .. Len(u), i < j PROVE u[i].depth <= u[j].depth
  <2>1. CASE j = l + 1
    BY <1>2, <1>5, <2>1
  <2>2. CASE j \in 2 .. l /\ j \in 1 .. l
    <3>1. i \in 2 .. l /\ i \in 1 .. l
      BY <1>1, <1>6, <2>2
    <3> QED
      BY <1>1, <1>2, <1>6, <2>2, <3>1
  <2> QED
    BY <1>4, <2>1, <2>2
<1>7. u[1] = t[1] /\ Len(u) >= 1 /\ l + 1 \in 2 .. Len(u)
  BY <1>1, <1>2
<1>8. TrailInOrder(u, all, declares)
  BY <1>1, <1>2, <1>5, <1>6, <1>7 DEF TrailInOrder
<1>9. Shows(u, s.node)
  BY <1>2, <1>7 DEF Shows
<1>10. ASSUME NEW n, Shows(t, n) PROVE Shows(u, n)
  <2>1. PICK i \in 2 .. l : t[i].node = n
    BY <1>10 DEF Shows, l
  <2>2. i \in 2 .. Len(u) /\ u[i] = t[i]
    BY <1>1, <1>2, <2>1
  <2> QED
    BY <2>1, <2>2 DEF Shows
<1> QED
  BY <1>5, <1>8, <1>9, <1>10 DEF u

LEMMA VisitForTrailInv ==
    ASSUME ManifestOK, NEW near, NEW all, Distances(all, Above, Node),
           ColumnInv(near, all), VisitForTrail
    PROVE  ColumnInv(near, all)'
<1> DEFINE n == queue[1][1]
           d == queue[1][2]
           s == Step(n, d, Declared(n))
           declares == manifest.declares
<1>1. /\ phase = "trail" /\ phase' = "trail" /\ queue # <<>> /\ origin' = origin
      /\ manifest' = manifest
      /\ InOrder(queue, visited, all) /\ PassedOn(queue, visited, all, Above, Node)
      /\ KeepsUp(trail, queue, visited) /\ TrailInOrder(trail, all, declares)
      /\ OriginIsNearest(origin, near, declares)
  BY DEF VisitForTrail, ColumnInv
<1>2. /\ Len(queue) > 0 /\ Head(queue) = queue[1] /\ n \in Node \ {Root} /\ d \in 1 .. MaxDepth
      /\ Nearest(all, n, d)
  BY <1>1, HeadOfQueue
<1>3. trail' = Append(trail, s) /\ Expand(n, d)
  BY <1>2 DEF VisitForTrail
<1>4. Advances(queue, visited, queue', visited', Above, Node)
  BY <1>1, <1>2, <1>3, ExpandAdvances
<1>5. /\ InOrder(queue', visited', all) /\ PassedOn(queue', visited', all, Above, Node)
      /\ visited' \ Waiting(queue') \subseteq (visited \ Waiting(queue)) \cup {n}
      /\ \A i \in 1 .. Len(queue') : d <= queue'[i][2]
  BY <1>1, <1>2, <1>4, AboveType, Advance
<1>6. /\ s \in TrailEntries /\ s.node = n /\ s.depth = d /\ s.run = "none"
      /\ s.manifest = IF n \in declares THEN "declared" ELSE "not_found"
  BY <1>2, LineageAssumption DEF Step, Declared, TrailEntries, Lives
<1> HIDE DEF s, n, d, declares
<1>7. \A i \in 2 .. Len(trail) : trail[i].depth <= d
  <2>1. 1 \in 1 .. Len(queue)
    BY <1>1, <1>2 DEF InOrder
  <2> QED
    BY <1>1, <2>1 DEF KeepsUp, d
<1>8. /\ TrailInOrder(trail', all, declares) /\ Shows(trail', n)
      /\ \A x : Shows(trail, x) => Shows(trail', x)
      /\ \A i \in 2 .. Len(trail') : trail'[i].depth <= d
  BY <1>1, <1>2, <1>3, <1>6, <1>7, TrailGrows
<1>9. KeepsUp(trail', queue', visited')
  <2>1. ASSUME NEW i \in 2 .. Len(trail'), NEW j \in 1 .. Len(queue')
        PROVE  trail'[i].depth <= queue'[j][2]
    <3>1. trail'[i].depth <= d /\ d <= queue'[j][2]
      BY <1>5, <1>8
    <3>2. d \in Nat /\ queue'[j][2] \in Nat /\ trail'[i].depth \in Nat
      <4>1. queue' \in Seq(Node \X (1 .. MaxDepth)) /\ queue'[j] \in Node \X (1 .. MaxDepth)
        BY <1>5 DEF InOrder
      <4>2. trail' \in Seq(TrailEntries)
        BY <1>8 DEF TrailInOrder
      <4>3. trail'[i] \in TrailEntries
        BY <4>2
      <4>4. MaxDepth \in Nat
        BY LineageAssumption
      <4>5. d \in Nat
        BY <1>2, <4>4
      <4>6. queue'[j][2] \in Nat
        BY <4>1, <4>4
      <4>7. trail'[i].depth \in Nat
        BY <4>3, <4>4 DEF TrailEntries
      <4> QED
        BY <4>5, <4>6, <4>7
    <3> QED
      BY <3>1, <3>2
  <2>2. ASSUME NEW x \in visited' \ (Waiting(queue') \cup {Root}) PROVE Shows(trail', x)
    <3>1. x = n \/ x \in visited \ (Waiting(queue) \cup {Root})
      BY <1>5
    <3> QED
      BY <1>1, <1>8, <3>1 DEF KeepsUp
  <2> QED
    BY <2>1, <2>2 DEF KeepsUp
<1> QED
  BY <1>1, <1>5, <1>8, <1>9, ManifestStays DEF ColumnInv, declares

LEMMA EndTrailInv ==
    ASSUME ManifestOK, NEW near, NEW all, Distances(all, Above, Node),
           ColumnInv(near, all), EndTrail
    PROVE  ColumnInv(near, all)'
<1>1. /\ phase = "trail" /\ phase' = "enrich" /\ queue = <<>>
      /\ origin' = origin /\ manifest' = manifest /\ trail' = trail
      /\ InOrder(queue, visited, all) /\ PassedOn(queue, visited, all, Above, Node)
      /\ KeepsUp(trail, queue, visited) /\ TrailInOrder(trail, all, manifest.declares)
      /\ OriginIsNearest(origin, near, manifest.declares)
  BY DEF EndTrail, ColumnInv
<1>2. Len(queue) = 0 /\ Waiting(queue) = {}
  BY <1>1 DEF Waiting
<1>3. \A e \in 0 .. MaxDepth : all[e] \subseteq visited
  <2>1. MaxDepth \in 0 .. MaxDepth
    BY LineageAssumption
  <2> QED
    BY <1>1, <1>2, <2>1, AboveType, Reached
<1>4. ShowsAll(trail, all)
  BY <1>1, <1>2, <1>3 DEF ShowsAll, KeepsUp
<1> QED
  BY <1>1, <1>4 DEF ColumnInv

LEMMA TrailLookedAt ==
    ASSUME NEW all, NEW declares, NEW t, TrailInOrder(t, all, declares), ShowsAll(t, all),
           NEW p \in 1 .. Len(t), NEW live \in Lives
    PROVE  LET u == [t EXCEPT ![p] = [@ EXCEPT !.live = live]]
           IN  TrailInOrder(u, all, declares) /\ ShowsAll(u, all)
<1> DEFINE u == [t EXCEPT ![p] = [@ EXCEPT !.live = live]]
<1>1. t \in Seq(TrailEntries) /\ Len(t) \in Nat /\ \A i \in 1 .. Len(t) : t[i] \in TrailEntries
  BY DEF TrailInOrder
<1>2. DOMAIN u = 1 .. Len(t) /\ Len(u) = Len(t)
  BY <1>1
<1>3. \A i \in 1 .. Len(t) : u[i] = IF i = p THEN [t[p] EXCEPT !.live = live] ELSE t[i]
  BY <1>1
<1>4. u = [i \in 1 .. Len(t) |-> u[i]]
  BY <1>1
<1> HIDE DEF u
<1>5. ASSUME NEW e \in TrailEntries
      PROVE  LET f == [e EXCEPT !.live = live]
             IN  /\ f \in TrailEntries /\ f.node = e.node /\ f.depth = e.depth
                 /\ f.manifest = e.manifest /\ f.run = e.run
  BY DEF TrailEntries
<1>6. ASSUME NEW i \in 1 .. Len(t)
      PROVE  /\ u[i] \in TrailEntries /\ u[i].node = t[i].node /\ u[i].depth = t[i].depth
             /\ u[i].manifest = t[i].manifest /\ u[i].run = t[i].run
  BY <1>1, <1>3, <1>5
<1>7. u \in Seq(TrailEntries)
  <2> DEFINE n == Len(t)
  <2>1. n \in Nat /\ u = [i \in 1 .. n |-> u[i]] /\ \A i \in 1 .. n : u[i] \in TrailEntries
    BY <1>1, <1>4, <1>6
  <2> HIDE DEF n
  <2>2. u \in [1 .. n -> TrailEntries]
    BY <2>1
  <2> QED
    BY <2>1, <2>2
<1>8. \A i \in 2 .. Len(t) : i \in 1 .. Len(t)
  BY <1>1
<1>9. Len(t) >= 1 /\ 1 \in 1 .. Len(t)
  BY <1>1 DEF TrailInOrder
<1>10. TrailInOrder(u, all, declares)
  <2>1. u[1].node = Root /\ u[1].manifest = "declared" /\ u[1].run = "error"
    BY <1>6, <1>9 DEF TrailInOrder
  <2>2. \A i \in 2 .. Len(u) :
           /\ u[i].node # Root /\ Nearest(all, u[i].node, u[i].depth)
           /\ u[i].manifest = IF u[i].node \in declares THEN "declared" ELSE "not_found"
           /\ u[i].run = "none"
    BY <1>2, <1>6, <1>8 DEF TrailInOrder
  <2>3. \A i, j \in 2 .. Len(u) : i < j => u[i].depth <= u[j].depth
    BY <1>2, <1>6, <1>8 DEF TrailInOrder
  <2> QED
    BY <1>2, <1>7, <1>9, <2>1, <2>2, <2>3 DEF TrailInOrder
<1>11. ShowsAll(u, all)
  BY <1>2, <1>6, <1>8 DEF ShowsAll, Shows
<1> QED
  BY <1>10, <1>11 DEF u

LEMMA ProbeInv ==
    ASSUME ManifestOK, NEW near, NEW all, ColumnInv(near, all), Probe, error = "column",
           probed \in Nat
    PROVE  ColumnInv(near, all)'
<1>1. /\ phase = "enrich" /\ phase' = "enrich" /\ origin' = origin /\ manifest' = manifest
      /\ probed' = probed + 1 /\ probed < Len(trail)
      /\ TrailInOrder(trail, all, manifest.declares) /\ ShowsAll(trail, all)
      /\ OriginIsNearest(origin, near, manifest.declares)
  BY DEF Probe, ColumnInv
<1>2. trail \in Seq(TrailEntries) /\ probed + 1 \in 1 .. Len(trail)
  BY <1>1 DEF TrailInOrder
<1>3. PICK live \in Lives : trail' = [trail EXCEPT ![probed + 1] = [@ EXCEPT !.live = live]]
  BY <1>1 DEF Probe, Findings, Lives
<1>4. TrailInOrder(trail', all, manifest.declares) /\ ShowsAll(trail', all)
  BY <1>1, <1>2, <1>3, TrailLookedAt
<1> QED
  BY <1>1, <1>4 DEF ColumnInv

LEMMA IdentifyInv ==
    ASSUME NEW near, NEW all, ColumnInv(near, all), IdentifyDisconnect
    PROVE  ColumnInv(near, all)'
<1>1. Disconnect' = Disconnect
  BY DEF IdentifyDisconnect, Disconnect, Boundaries, IsPassing, IsFailing
<1>2. /\ phase = "enrich" /\ phase' = "identified" /\ disconnect' = Disconnect
      /\ origin' = origin /\ manifest' = manifest /\ trail' = trail
  BY DEF IdentifyDisconnect
<1> QED
  BY <1>1, <1>2 DEF ColumnInv

LEMMA LineageInvariant == LineageSpec => []LineageInv
<1>1. LineageInit => LineageInv
  <2> SUFFICES ASSUME LineageInit PROVE LineageInv
    OBVIOUS
  <2>1. ManifestOK
    BY AnyManifest DEF LineageInit
  <2>2. phase = "classify" /\ origin = NoNode /\ probed = 0
    BY DEF LineageInit
  <2>3. ASSUME NEW near, NEW all PROVE ColumnInv(near, all)
    BY <2>2 DEF ColumnInv
  <2> QED
    BY <2>1, <2>2, <2>3 DEF LineageInv
<1>2. LineageInv /\ [LineageNext]_lineageVars => LineageInv'
  <2> SUFFICES ASSUME LineageInv, [LineageNext]_lineageVars PROVE LineageInv'
    OBVIOUS
  <2>1. manifest' = manifest /\ error' = error
    BY DEF LineageNext, lineageVars, TraceColumn, VisitForOrigin, StartTrail, VisitForTrail,
           EndTrail, TraceObject, TraceData, Probe, IdentifyDisconnect, CheckWriteAccess
  <2>2. probed' \in Nat
    BY DEF LineageInv, LineageNext, lineageVars, TraceColumn, VisitForOrigin, StartTrail,
           VisitForTrail, EndTrail, TraceObject, TraceData, Probe, IdentifyDisconnect,
           CheckWriteAccess
  <2>3. ManifestOK /\ ManifestOK' /\ probed \in Nat
    BY <2>1, ManifestStays DEF LineageInv
  <2>4. PICK near, all : near = AtDistance(manifest.known) /\ all = AtDistance(Node)
    OBVIOUS
  <2>5. AtDistance(manifest.known)' = near /\ AtDistance(Node)' = all
    BY <2>1, <2>4 DEF AtDistance, GetParents
  <2>6. ASSUME error = "column" PROVE ColumnInv(near, all)'
    <3>1. ColumnInv(near, all)
      BY <2>4, <2>6 DEF LineageInv
    <3>2. Distances(near, Above, manifest.known) /\ Distances(all, Above, Node)
      BY <2>3, <2>4, DistancesExist
    <3>3. CASE TraceColumn
      BY <2>3, <3>1, <3>2, <3>3, TraceColumnInv
    <3>4. CASE VisitForOrigin
      BY <2>3, <3>1, <3>2, <3>4, VisitForOriginInv
    <3>5. CASE StartTrail
      BY <2>3, <3>1, <3>2, <3>5, StartTrailInv
    <3>6. CASE VisitForTrail
      BY <2>3, <3>1, <3>2, <3>6, VisitForTrailInv
    <3>7. CASE EndTrail
      BY <2>3, <3>1, <3>2, <3>7, EndTrailInv
    <3>8. CASE Probe
      BY <2>3, <2>6, <3>1, <3>8, ProbeInv
    <3>9. CASE IdentifyDisconnect
      BY <3>1, <3>9, IdentifyInv
    <3>10. CASE TraceObject \/ TraceData
      BY <2>6, <3>10 DEF TraceObject, TraceData
    <3>11. CASE CheckWriteAccess
      BY <3>11 DEF CheckWriteAccess, ColumnInv
    <3>12. CASE UNCHANGED lineageVars
      <4>1. Above' = Above
        BY <2>1, <2>3, ManifestStays
      <4>2. Disconnect' = Disconnect
        BY <3>12 DEF lineageVars, Disconnect, Boundaries, IsPassing, IsFailing
      <4> QED
        BY <3>1, <3>12, <4>1, <4>2 DEF lineageVars, ColumnInv
    <3> QED
      BY <3>3, <3>4, <3>5, <3>6, <3>7, <3>8, <3>9, <3>10, <3>11, <3>12 DEF LineageNext
  <2> QED
    BY <2>1, <2>2, <2>3, <2>5, <2>6 DEF LineageInv
<1> QED
  BY <1>1, <1>2, PTL DEF LineageSpec

(* A walk through fewer nodes gets nowhere that a walk through more does   *)
(* not.                                                                    *)
LEMMA MoreIsReached ==
    ASSUME NEW par, NEW few, NEW many, few \subseteq many,
           NEW near, Distances(near, par, few), NEW all, Distances(all, par, many)
    PROVE  \A d \in 0 .. MaxDepth : near[d] \subseteq all[d]
<1> DEFINE T == {d \in 0 .. MaxDepth : near[d] \subseteq all[d]}
<1>0. MaxDepth \in Nat
  BY LineageAssumption
<1>1. 0 \in T
  BY <1>0 DEF Distances
<1>2. ASSUME NEW d \in 1 .. MaxDepth, d - 1 \in T PROVE d \in T
  <2>1. ASSUME NEW x \in near[d] PROVE x \in all[d]
    <3>1. PICK n \in near[d - 1] \cap (few \cup {Root}) : x \in par[n]
      BY <2>1 DEF Distances
    <3>2. n \in all[d - 1] \cap (many \cup {Root})
      BY <1>2, <3>1
    <3> QED
      BY <3>1, <3>2 DEF Distances
  <2> QED
    BY <1>0, <2>1
<1>3. 0 .. MaxDepth \subseteq T
  <2> HIDE DEF T
  <2> QED
    BY <1>0, <1>1, <1>2, ClosedSet
<1> QED
  BY <1>3

(* Of every manifest, find_column_origin names an ancestor nearest to the  *)
(* model of those that declare the column, and none only if none within    *)
(* the depth does; and the trail shows it.                                 *)
THEOREM OriginIsTheNearest == LineageSpec => []NearestOriginFound
<1>1. LineageInv => NearestOriginFound
  <2> SUFFICES ASSUME LineageInv, error = "column", phase \in {"origin-known", "trail", "enrich"}
               PROVE  LET at == AtDistance(manifest.known)
                          hits == {d \in 1 .. MaxDepth : at[d] \cap manifest.declares # {}}
                      IN  /\ origin = NoNode => hits = {}
                          /\ origin # NoNode => hits # {} /\ origin \in at[Min(hits)] \cap manifest.declares
                          /\ phase = "enrich" /\ origin # NoNode =>
                                 \E i \in DOMAIN trail :
                                     trail[i].node = origin /\ trail[i].manifest = "declared"
    BY DEF NearestOriginFound
  <2> DEFINE near == AtDistance(manifest.known)
             all == AtDistance(Node)
             declares == manifest.declares
             hits == {d \in 1 .. MaxDepth : near[d] \cap declares # {}}
  <2>0. MaxDepth \in Nat
    BY LineageAssumption
  <2>1. Distances(near, Above, manifest.known) /\ Distances(all, Above, Node)
    BY DistancesExist DEF LineageInv
  <2>2. OriginIsNearest(origin, near, declares)
    BY DEF LineageInv, ColumnInv
  <2>3. phase = "enrich" => TrailInOrder(trail, all, declares) /\ ShowsAll(trail, all)
    BY DEF LineageInv, ColumnInv
  <2>4. manifest.known \subseteq Node /\ Root \notin declares
    BY DEF LineageInv, ManifestOK, Ancestors
  <2> HIDE DEF near, all, declares
  <2>5. origin = NoNode => hits = {}
    BY <2>0, <2>2 DEF OriginIsNearest
  <2>6. ASSUME origin # NoNode
        PROVE  \E d \in 1 .. MaxDepth : d \in hits /\ Min(hits) = d /\ origin \in near[d] \cap declares
    <3>1. PICK d \in 1 .. MaxDepth : /\ origin \in near[d] \cap declares
                                     /\ \A e \in 0 .. d - 1 : near[e] \cap declares = {}
      BY <2>2, <2>6 DEF OriginIsNearest
    <3>2. d \in hits /\ hits \subseteq Nat
      BY <2>0, <3>1
    <3>3. \A e \in hits : d <= e
      <4> SUFFICES ASSUME NEW e \in 1 .. MaxDepth, near[e] \cap declares # {}, ~ (d <= e) PROVE FALSE
        OBVIOUS
      <4>1. e \in 0 .. d - 1
        BY <2>0
      <4> QED
        BY <3>1, <4>1
    <3> HIDE DEF hits
    <3>4. Min(hits) = d
      BY <3>2, <3>3, LeastIs
    <3> QED
      BY <3>1, <3>2, <3>4
  <2>7. ASSUME phase = "enrich", origin # NoNode
        PROVE  \E i \in DOMAIN trail : trail[i].node = origin /\ trail[i].manifest = "declared"
    <3>1. PICK d \in 1 .. MaxDepth : origin \in near[d] \cap declares
      BY <2>6, <2>7
    <3>2. d \in 0 .. MaxDepth
      BY <2>0
    <3>3. origin \in all[d] \ {Root}
      BY <2>1, <2>4, <3>1, <3>2, MoreIsReached
    <3>4. PICK i \in 2 .. Len(trail) : trail[i].node = origin
      BY <2>3, <2>7, <3>2, <3>3 DEF ShowsAll, Shows
    <3>5. trail[i].manifest = "declared"
      BY <2>3, <2>7, <3>1, <3>4 DEF TrailInOrder
    <3>6. i \in DOMAIN trail
      BY <2>3, <2>7 DEF TrailInOrder
    <3> QED
      BY <3>4, <3>5, <3>6
  <2> QED
    BY <2>5, <2>6, <2>7 DEF near, declares
<1> QED
  BY <1>1, LineageInvariant, PTL

-----------------------------------------------------------------------------
(* The verdict on a trail.                                                 *)
BadIn(t, declares, n) ==
    n \notin declares \/ \E i \in 1 .. Len(t) : t[i].node = n /\ t[i].live \in {"missing", "no_column"}

(* Every step after the first passes or fails, and fails only if its node  *)
(* is bad.                                                                 *)
LEMMA StepsPassOrFail ==
    ASSUME NEW all, TrailInOrder(trail, all, manifest.declares), NEW i \in 2 .. Len(trail)
    PROVE  /\ IsPassing(trail[i]) \/ IsFailing(trail[i])
           /\ IsFailing(trail[i]) <=> \/ trail[i].node \notin manifest.declares
                                      \/ trail[i].live \in {"missing", "no_column"}
<1>1. trail[i] \in TrailEntries
  BY DEF TrailInOrder
<1>2. /\ trail[i].manifest = IF trail[i].node \in manifest.declares THEN "declared" ELSE "not_found"
      /\ trail[i].run = "none"
  BY DEF TrailInOrder
<1> QED
  BY <1>1, <1>2 DEF IsPassing, IsFailing, TrailEntries, Lives

(* Where a step fails, a boundary is at or before it.                      *)
LEMMA BoundaryBefore ==
    ASSUME NEW all, TrailInOrder(trail, all, manifest.declares),
           trail[1].live \in {"unknown", "exists"},
           NEW j \in 2 .. Len(trail), IsFailing(trail[j])
    PROVE  \E b \in Boundaries : b + 1 <= j
<1>0. trail \in Seq(TrailEntries) /\ Len(trail) \in Nat /\ trail[1].manifest = "declared"
  BY DEF TrailInOrder
<1> DEFINE T == {i \in 2 .. Len(trail) : IsFailing(trail[i])}
<1>1. T \subseteq Nat /\ j \in T
  BY <1>0
<1>2. PICK f \in T : \A i \in T : f <= i
  <2> HIDE DEF T
  <2> QED
    BY <1>1, LeastElement
<1>3. f \in 2 .. Len(trail) /\ IsFailing(trail[f]) /\ f <= j
  BY <1>1, <1>2
<1>4. f - 1 \in 1 .. Len(trail) - 1 /\ (f - 1) + 1 = f
  BY <1>0, <1>3
<1>5. IsPassing(trail[f - 1])
  <2>1. CASE f - 1 = 1
    BY <1>0, <2>1 DEF IsPassing
  <2>2. CASE f - 1 # 1
    <3>1. f - 1 \in 2 .. Len(trail)
      BY <1>0, <1>3, <2>2
    <3>2. f - 1 \notin T
      BY <1>0, <1>2, <1>3
    <3> QED
      BY <3>1, <3>2, StepsPassOrFail
  <2> QED
    BY <2>1, <2>2
<1>6. f - 1 \in Boundaries
  BY <1>3, <1>4, <1>5 DEF Boundaries
<1> QED
  BY <1>3, <1>4, <1>6

LEMMA VerdictOfTrail ==
    ASSUME NEW all, Distances(all, Above, Node), TrailInOrder(trail, all, manifest.declares),
           ShowsAll(trail, all), trail[1].live \in {"unknown", "exists"}, Len(trail) > 1
    PROVE  LET bad == {n \in Node \ {Root} : BadIn(trail, manifest.declares, n)}
               hits == {d \in 1 .. MaxDepth : all[d] \cap bad # {}}
           IN  /\ Disconnect.confidence = "low" => hits = {}
               /\ Disconnect.confidence = "found" =>
                      hits # {} /\ Disconnect.node \in all[Min(hits)] \cap bad
               /\ Disconnect # NoVerdict
<1> DEFINE bad == {n \in Node \ {Root} : BadIn(trail, manifest.declares, n)}
           hits == {d \in 1 .. MaxDepth : all[d] \cap bad # {}}
<1>0. /\ trail \in Seq(TrailEntries) /\ Len(trail) \in Nat /\ MaxDepth \in Nat
      /\ trail[1].run = "error"
      /\ \A i \in 2 .. Len(trail) : trail[i].node # Root /\ Nearest(all, trail[i].node, trail[i].depth)
      /\ \A i, j \in 2 .. Len(trail) : i < j => trail[i].depth <= trail[j].depth
  BY LineageAssumption DEF TrailInOrder
<1>1. \A i \in 1 .. Len(trail) : trail[i].node \in Node /\ trail[i].depth \in 0 .. MaxDepth
  <2>1. \A i \in 1 .. Len(trail) : trail[i] \in TrailEntries
    BY <1>0
  <2>2. \A e \in TrailEntries : e.node \in Node /\ e.depth \in 0 .. MaxDepth
    BY DEF TrailEntries
  <2> QED
    BY <2>1, <2>2
<1>2. ASSUME NEW d \in hits
      PROVE  \E j \in 2 .. Len(trail) : IsFailing(trail[j]) /\ trail[j].depth <= d
  <2>1. d \in 1 .. MaxDepth /\ d \in 0 .. MaxDepth /\ d \in Nat
    BY <1>0
  <2>2. PICK n \in all[d] : n \in Node \ {Root} /\ BadIn(trail, manifest.declares, n)
    BY <2>1
  <2>3. \A j \in 2 .. Len(trail) : trail[j].node = n => trail[j].depth <= d
    <3> SUFFICES ASSUME NEW j \in 2 .. Len(trail), trail[j].node = n, ~ (trail[j].depth <= d) PROVE FALSE
      OBVIOUS
    <3>1. j \in 1 .. Len(trail) /\ trail[j].depth \in 0 .. MaxDepth
      BY <1>0, <1>1
    <3>2. d \in 0 .. trail[j].depth - 1
      BY <1>0, <2>1, <3>1
    <3> QED
      BY <1>0, <2>2, <3>2 DEF Nearest
  <2>4. CASE n \notin manifest.declares
    <3>1. PICK j \in 2 .. Len(trail) : trail[j].node = n
      BY <2>1, <2>2 DEF ShowsAll, Shows
    <3> QED
      BY <2>3, <2>4, <3>1, StepsPassOrFail
  <2>5. CASE \E i \in 1 .. Len(trail) : trail[i].node = n /\ trail[i].live \in {"missing", "no_column"}
    <3>1. PICK i \in 1 .. Len(trail) : trail[i].node = n /\ trail[i].live \in {"missing", "no_column"}
      BY <2>5
    <3>2. i # 1
      BY <2>2, <3>1 DEF TrailInOrder
    <3>3. i \in 2 .. Len(trail)
      BY <1>0, <3>2
    <3> QED
      BY <2>3, <3>1, <3>3, StepsPassOrFail
  <2> QED
    BY <2>2, <2>4, <2>5 DEF BadIn
<1>3. CASE Boundaries = {}
  <2>1. hits = {}
    <3> SUFFICES ASSUME NEW d \in hits PROVE FALSE
      OBVIOUS
    <3> HIDE DEF hits
    <3> QED
      BY <1>2, <1>3, BoundaryBefore
  <2>2. Disconnect.confidence = "low"
    <3> DEFINE failing == {i \in DOMAIN trail : IsFailing(trail[i])}
    <3>1. 1 \in failing
      BY <1>0 DEF IsFailing
    <3> HIDE DEF failing
    <3>2. Disconnect = [node |-> trail[Max(failing)].node, confidence |-> "low"]
      BY <1>0, <1>3, <3>1 DEF Disconnect, failing
    <3> QED
      BY <3>2
  <2>3. Disconnect # NoVerdict
    BY <2>2 DEF NoVerdict
  <2> HIDE DEF hits
  <2> QED
    BY <2>1, <2>2, <2>3 DEF hits
<1>4. CASE Boundaries # {}
  <2> DEFINE b == Min(Boundaries)
             f == b + 1
             d == trail[f].depth
  <2>1. b \in Boundaries /\ \A c \in Boundaries : b <= c
    <3>1. Boundaries \subseteq Nat
      BY <1>0 DEF Boundaries
    <3> QED
      BY <1>4, <3>1, LeastNumber
  <2>2. b \in 1 .. Len(trail) - 1 /\ IsFailing(trail[f]) /\ f \in 2 .. Len(trail) /\ f \in 1 .. Len(trail)
    BY <1>0, <2>1 DEF Boundaries
  <2>3. Disconnect = [node |-> trail[f].node, confidence |-> "found"]
    BY <1>0, <1>4 DEF Disconnect
  <2> HIDE DEF b
  <2>4. trail[f].node \in bad
    <3>1. trail[f].node \in Node \ {Root}
      BY <1>0, <1>1, <2>2
    <3>2. trail[f].node \notin manifest.declares \/ trail[f].live \in {"missing", "no_column"}
      BY <2>2, StepsPassOrFail
    <3>3. BadIn(trail, manifest.declares, trail[f].node)
      BY <2>2, <3>2 DEF BadIn
    <3> QED
      BY <3>1, <3>3
  <2> HIDE DEF bad
  <2>5. trail[f].node \in all[d] /\ trail[f].node # Root /\ d \in 0 .. MaxDepth
    BY <1>0, <1>1, <2>2 DEF Nearest
  <2>6. d \in 1 .. MaxDepth
    <3>1. d # 0
      BY <2>5 DEF Distances
    <3> QED
      BY <1>0, <2>5, <3>1
  <2>7. d \in hits
    BY <2>4, <2>5, <2>6
  <2>8. \A e \in hits : d <= e
    <3> SUFFICES ASSUME NEW e \in hits, ~ (d <= e) PROVE FALSE
      OBVIOUS
    <3>1. PICK j \in 2 .. Len(trail) : IsFailing(trail[j]) /\ trail[j].depth <= e
      BY <1>2
    <3>2. e \in Nat /\ d \in Nat /\ trail[j].depth \in Nat /\ j \in Nat /\ f \in Nat
      BY <1>0, <1>1, <2>2, <2>6
    <3>3. PICK c \in Boundaries : c + 1 <= j
      BY <3>1, BoundaryBefore
    <3>4. c \in Nat /\ b \in Nat /\ b <= c
      BY <1>0, <2>1, <2>2 DEF Boundaries
    <3>5. f <= j
      BY <3>2, <3>3, <3>4
    <3> HIDE DEF hits, f
    <3>6. trail[f].depth <= trail[j].depth
      <4>1. CASE f = j
        BY <3>2, <4>1
      <4>2. CASE f < j
        BY <1>0, <2>2, <4>2
      <4> QED
        BY <3>2, <3>5, <4>1, <4>2
    <3> QED
      BY <3>1, <3>2, <3>6
  <2>9. Min(hits) = d
    <3>1. hits \subseteq Nat
      BY <1>0
    <3> HIDE DEF hits, d
    <3> QED
      BY <2>7, <2>8, <3>1, LeastIs
  <2>10. Disconnect # NoVerdict /\ Disconnect.confidence = "found" /\ Disconnect.node = trail[f].node
    BY <2>3 DEF NoVerdict
  <2>11. Disconnect.node \in all[Min(hits)] \cap bad
    BY <2>4, <2>5, <2>9, <2>10
  <2> HIDE DEF hits
  <2> QED
    BY <2>7, <2>10, <2>11 DEF hits, bad
<1> QED
  BY <1>3, <1>4

(* Of every manifest and whatever Snowflake answers, the verdict on a      *)
(* model that is there blames an ancestor nearest to it of those that are  *)
(* at fault, and does so with low confidence only if there is none.        *)
THEOREM BlameIsOnTheNearest == LineageSpec => []NearestFailureBlamed
<1>1. LineageInv => NearestFailureBlamed
  <2> SUFFICES ASSUME LineageInv, error = "column", phase = "identified",
                      trail[1].live \in {"unknown", "exists"}, Len(trail) > 1
               PROVE  LET at == AtDistance(Node)
                          live(n) == {trail[i].live : i \in {j \in DOMAIN trail : trail[j].node = n}}
                          bad == {n \in Node \ {Root} :
                                     n \notin manifest.declares \/ live(n) \cap {"missing", "no_column"} # {}}
                          hits == {d \in 1 .. MaxDepth : at[d] \cap bad # {}}
                      IN  /\ disconnect.confidence = "low" => hits = {}
                          /\ disconnect.confidence = "found" =>
                                 hits # {} /\ disconnect.node \in at[Min(hits)] \cap bad
                          /\ disconnect # NoVerdict
    BY DEF NearestFailureBlamed
  <2> DEFINE all == AtDistance(Node)
             live(n) == {trail[i].live : i \in {j \in DOMAIN trail : trail[j].node = n}}
             bad == {n \in Node \ {Root} :
                        n \notin manifest.declares \/ live(n) \cap {"missing", "no_column"} # {}}
             worse == {n \in Node \ {Root} : BadIn(trail, manifest.declares, n)}
  <2>1. Distances(all, Above, Node)
    BY DistancesExist DEF LineageInv
  <2>2. TrailInOrder(trail, all, manifest.declares) /\ ShowsAll(trail, all) /\ disconnect = Disconnect
    BY DEF LineageInv, ColumnInv
  <2>3. bad = worse
    <3>1. DOMAIN trail = 1 .. Len(trail)
      BY <2>2 DEF TrailInOrder
    <3>2. \A n : live(n) \cap {"missing", "no_column"} # {} <=>
                    \E i \in 1 .. Len(trail) : trail[i].node = n /\ trail[i].live \in {"missing", "no_column"}
      BY <3>1
    <3> HIDE DEF live
    <3> QED
      BY <3>2 DEF BadIn
  <2> HIDE DEF all, bad
  <2>4. LET hits == {d \in 1 .. MaxDepth : all[d] \cap worse # {}}
        IN  /\ Disconnect.confidence = "low" => hits = {}
            /\ Disconnect.confidence = "found" => hits # {} /\ Disconnect.node \in all[Min(hits)] \cap worse
            /\ Disconnect # NoVerdict
    BY <2>1, <2>2, VerdictOfTrail
  <2>5. LET hits == {d \in 1 .. MaxDepth : all[d] \cap bad # {}}
        IN  /\ disconnect.confidence = "low" => hits = {}
            /\ disconnect.confidence = "found" => hits # {} /\ disconnect.node \in all[Min(hits)] \cap bad
            /\ disconnect # NoVerdict
    <3> HIDE DEF worse
    <3> QED
      BY <2>2, <2>3, <2>4
  <2> QED
    BY <2>5 DEF all, bad
<1> QED
  BY <1>1, LineageInvariant, PTL
=============================================================================
