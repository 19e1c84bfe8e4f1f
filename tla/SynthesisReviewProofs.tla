------------------------ MODULE SynthesisReviewProofs ------------------------
(***************************************************************************)
(* What an accepted review stands for, for any number of shells, commands, *)
(* hand edits, and changes of the tracker, and for any ages; what a        *)
(* snapshot of a tracker in use shows, and what size a packet says it has. *)
(***************************************************************************)
EXTENDS SynthesisReview, TrackerSnapshot, PacketBudget, InductionLemmas, FiniteSetTheorems

-----------------------------------------------------------------------------
(* The artifacts.  A sealed packet draws on one audit of one snapshot.     *)
Snapshots == [content : Int, at : Int]

Audits == [snapshot : Int, scope : {"all", "some"}, evidence : {"none", "given"}]

Derivations ==
    [snapshot : Int, audit : Audits, flaw : Flaws \cup {"none"}, sealed : BOOLEAN]

Statuses == {"fresh", "warning", "stale"}

DrawsOnOneAudit(p) ==
    /\ p.audit.snapshot = p.snapshot /\ p.audit.scope = "all"
    /\ \A d \in {p.report, p.plan} \ {None} :
          d.snapshot = p.snapshot /\ d.audit = p.audit /\ d.sealed
    /\ p.report.flaw = "none" /\ (p.plan # None => p.plan.flaw \notin {"content", "claim"})

PacketShapes ==
    [snapshot : Int, audit : Audits, report : Derivations, plan : Derivations \cup {None},
     age : Int, maxAge : Int, status : Statuses, sealed : BOOLEAN]

Packets == {p \in PacketShapes : p.sealed => DrawsOnOneAudit(p)}

Verdicts ==
    [packet : Packets, snapshot : Int, audit : Audits, report : Derivations,
     status : Statuses, mistake : Mistakes, sealed : BOOLEAN]

Files ==
    [snapshot : Snapshots, audit : Audits, plan : Derivations, report : Derivations,
     packet : Packets, verdict : Verdicts]

Kinds == {"tracker", "snapshot", "audit", "plan", "report", "packet", "verdict"}

(* What a command may have loaded as one of its inputs.                    *)
Loads(c, kind) ==
    CASE kind = "tracker"  -> Int
      [] kind = "snapshot" -> Snapshots
      [] kind = "audit"    -> IF <<c, kind>> \in Optional THEN Audits \cup {None} ELSE Audits
      [] kind = "plan"     -> Derivations \cup {None}
      [] kind = "report"   -> Derivations
      [] kind = "packet"   -> Packets
      [] kind = "verdict"  -> Verdicts

Loaded ==
    Int \cup Snapshots \cup Audits \cup Derivations \cup {None} \cup Packets \cup Verdicts

ShellOK(s) ==
    /\ s \in [cmd : Commands \cup {"idle"}, read : Seq(Loaded)]
    /\ s.cmd = "idle" => s = Idle
    /\ s.cmd # "idle" =>
          /\ Len(s.read) <= Len(Inputs[s.cmd])
          /\ \A i \in 1 .. Len(s.read) : s.read[i] \in Loads(s.cmd, Inputs[s.cmd][i])

ArtifactsOK ==
    /\ file \in Files
    /\ DOMAIN shell = Shell /\ \A h \in Shell : ShellOK(shell[h])
    /\ now \in Int /\ version \in Int

ReviewInv == ArtifactsOK /\ AcceptedReviewIsCoherent

-----------------------------------------------------------------------------
LEMMA InputsAre ==
    /\ Inputs["snapshot"] = <<"tracker">> /\ Inputs["audit"] = <<"snapshot">>
    /\ Inputs["plan"] = <<"snapshot", "audit">> /\ Inputs["report"] = <<"snapshot", "audit">>
    /\ Inputs["packet"] = <<"snapshot", "audit", "report", "plan">>
    /\ Inputs["verdict"] = <<"packet">> /\ Inputs["validate"] = <<"packet", "verdict">>
BY DEF Inputs

LEMMA CommandsAre ==
    /\ Commands = {"snapshot", "audit", "plan", "report", "packet", "verdict", "validate"}
    /\ \A c \in Commands : Inputs[c] \in Seq(Kinds)
<1>1. Commands = {"snapshot", "audit", "plan", "report", "packet", "verdict", "validate"}
  BY DEF Commands, Inputs
<1>2. \A c \in Commands : Inputs[c] \in Seq(Kinds)
  <2>1. /\ <<"tracker">> \in Seq(Kinds) /\ <<"snapshot">> \in Seq(Kinds)
        /\ <<"snapshot", "audit">> \in Seq(Kinds) /\ <<"packet">> \in Seq(Kinds)
        /\ <<"packet", "verdict">> \in Seq(Kinds)
    BY DEF Kinds
  <2>2. <<"snapshot", "audit", "report", "plan">> \in Seq(Kinds)
    BY DEF Kinds
  <2> QED
    BY <1>1, <2>1, <2>2, InputsAre
<1> QED
  BY <1>1, <1>2

(* A command that ends has loaded all its inputs.                          *)
LEMMA AllLoaded ==
    ASSUME ArtifactsOK, NEW h \in Shell, NEW c \in Commands, Ends(h, c)
    PROVE  /\ ShellOK(shell[h]) /\ shell[h].cmd = c
           /\ \A i \in 1 .. Len(Inputs[c]) : shell[h].read[i] \in Loads(c, Inputs[c][i])
           /\ DOMAIN shell' = Shell /\ (\A g \in Shell : ShellOK(shell'[g]))
           /\ now' = now /\ version' = version
<1>1. ShellOK(shell[h]) /\ shell[h].cmd = c /\ c # "idle"
  BY CommandsAre DEF ArtifactsOK, Ends
<1>2. shell[h] # Idle
  BY <1>1 DEF Idle
<1>3. Len(shell[h].read) \in Nat /\ Len(Inputs[c]) \in Nat
  BY <1>1, CommandsAre DEF ShellOK
<1>4. Len(shell[h].read) = Len(Inputs[c])
  BY <1>1, <1>2, <1>3 DEF Ends, Loading, ShellOK
<1>5. ShellOK(Idle)
  BY DEF ShellOK, Idle
<1>6. shell' = [shell EXCEPT ![h] = Idle]
  BY DEF Ends
<1>7. DOMAIN shell' = Shell /\ (\A g \in Shell : ShellOK(shell'[g]))
  BY <1>5, <1>6 DEF ArtifactsOK
<1> QED
  BY <1>1, <1>4, <1>7 DEF ShellOK, Ends

(* The inputs of each command, when it ends.                               *)
LEMMA InputTypes ==
    ASSUME ArtifactsOK, NEW h \in Shell
    PROVE  LET read == shell[h].read IN
           /\ Ends(h, "snapshot") => read[1] \in Int
           /\ Ends(h, "audit") => read[1] \in Snapshots
           /\ Ends(h, "plan") => read[1] \in Snapshots /\ read[2] \in Audits
           /\ Ends(h, "report") => read[1] \in Snapshots /\ read[2] \in Audits \cup {None}
           /\ Ends(h, "packet") =>
                 /\ read[1] \in Snapshots /\ read[2] \in Audits
                 /\ read[3] \in Derivations /\ read[4] \in Derivations \cup {None}
           /\ Ends(h, "verdict") => read[1] \in Packets
           /\ Ends(h, "validate") => read[1] \in Packets /\ read[2] \in Verdicts
<1>1. ASSUME Ends(h, "snapshot")
      PROVE  shell[h].read[1] \in Int
  <2>1. \A i \in 1 .. 1 : shell[h].read[i] \in Loads("snapshot", Inputs["snapshot"][i])
    BY <1>1, AllLoaded, CommandsAre, InputsAre
  <2> QED
    BY <2>1, InputsAre DEF Loads, Optional
<1>2. ASSUME Ends(h, "audit")
      PROVE  shell[h].read[1] \in Snapshots
  <2>1. \A i \in 1 .. 1 : shell[h].read[i] \in Loads("audit", Inputs["audit"][i])
    BY <1>2, AllLoaded, CommandsAre, InputsAre
  <2> QED
    BY <2>1, InputsAre DEF Loads, Optional
<1>3. ASSUME Ends(h, "plan")
      PROVE  shell[h].read[1] \in Snapshots /\ shell[h].read[2] \in Audits
  <2>1. \A i \in 1 .. 2 : shell[h].read[i] \in Loads("plan", Inputs["plan"][i])
    BY <1>3, AllLoaded, CommandsAre, InputsAre
  <2> QED
    BY <2>1, InputsAre DEF Loads, Optional
<1>4. ASSUME Ends(h, "report")
      PROVE  shell[h].read[1] \in Snapshots /\ shell[h].read[2] \in Audits \cup {None}
  <2>1. \A i \in 1 .. 2 : shell[h].read[i] \in Loads("report", Inputs["report"][i])
    BY <1>4, AllLoaded, CommandsAre, InputsAre
  <2> QED
    BY <2>1, InputsAre DEF Loads, Optional
<1>5. ASSUME Ends(h, "packet")
      PROVE  /\ shell[h].read[1] \in Snapshots /\ shell[h].read[2] \in Audits
             /\ shell[h].read[3] \in Derivations /\ shell[h].read[4] \in Derivations \cup {None}
  <2>1. \A i \in 1 .. 4 : shell[h].read[i] \in Loads("packet", Inputs["packet"][i])
    BY <1>5, AllLoaded, CommandsAre, InputsAre
  <2> QED
    BY <2>1, InputsAre DEF Loads, Optional
<1>6. ASSUME Ends(h, "verdict")
      PROVE  shell[h].read[1] \in Packets
  <2>1. \A i \in 1 .. 1 : shell[h].read[i] \in Loads("verdict", Inputs["verdict"][i])
    BY <1>6, AllLoaded, CommandsAre, InputsAre
  <2> QED
    BY <2>1, InputsAre DEF Loads, Optional
<1>7. ASSUME Ends(h, "validate")
      PROVE  shell[h].read[1] \in Packets /\ shell[h].read[2] \in Verdicts
  <2>1. \A i \in 1 .. 2 : shell[h].read[i] \in Loads("validate", Inputs["validate"][i])
    BY <1>7, AllLoaded, CommandsAre, InputsAre
  <2> QED
    BY <2>1, InputsAre DEF Loads, Optional
<1> QED
  BY <1>1, <1>2, <1>3, <1>4, <1>5, <1>6, <1>7

-----------------------------------------------------------------------------
(* The commands that write a file.                                         *)
LEMMA WriteKeepsFiles ==
    ASSUME ArtifactsOK, NEW kind \in {"snapshot", "audit", "plan", "report", "packet", "verdict"},
           NEW artifact,
           artifact \in CASE kind = "snapshot" -> Snapshots
                          [] kind = "audit"    -> Audits
                          [] kind = "plan"     -> Derivations
                          [] kind = "report"   -> Derivations
                          [] kind = "packet"   -> Packets
                          [] kind = "verdict"  -> Verdicts,
           file' = [file EXCEPT ![kind] = artifact]
    PROVE  file' \in Files
BY DEF ArtifactsOK, Files

LEMMA SourceStep ==
    ASSUME ArtifactsOK, NEW h \in Shell, TakeSnapshot(h) \/ MakeAudit(h)
    PROVE  file' \in Files
<1>1. CASE TakeSnapshot(h)
  <2>1. shell[h].read[1] \in Int
    BY <1>1, InputTypes DEF TakeSnapshot
  <2>2. SnapshotOf(shell[h].read[1], now) \in Snapshots
    BY <2>1 DEF ArtifactsOK, SnapshotOf, Snapshots
  <2> QED
    BY <1>1, <2>2, WriteKeepsFiles DEF TakeSnapshot, Writes
<1>2. CASE MakeAudit(h)
  <2>1. shell[h].read[1] \in Snapshots
    BY <1>2, InputTypes DEF MakeAudit
  <2>2. ASSUME NEW scope \in {"all", "some"}, NEW e \in {"none", "given"}
        PROVE  AuditOf(shell[h].read[1], scope, e) \in Audits
    BY <2>1 DEF AuditOf, Audits, Snapshots
  <2> QED
    BY <1>2, <2>2, WriteKeepsFiles DEF MakeAudit, Writes
<1> QED
  BY <1>1, <1>2

LEMMA DerivedType ==
    ASSUME NEW s \in Snapshots, NEW a \in Audits
    PROVE  DerivedOf(s, a) \in Derivations
BY DEF DerivedOf, Derivations, Snapshots

LEMMA DerivationStep ==
    ASSUME ArtifactsOK, NEW h \in Shell, MakePlan(h) \/ MakeReport(h)
    PROVE  file' \in Files
<1>1. CASE MakePlan(h)
  <2>1. shell[h].read[1] \in Snapshots /\ shell[h].read[2] \in Audits
    BY <1>1, InputTypes DEF MakePlan
  <2>2. DerivedOf(shell[h].read[1], shell[h].read[2]) \in Derivations
    BY <2>1, DerivedType
  <2>3. file \in Files
    BY DEF ArtifactsOK
  <2> QED
    BY <1>1, <2>2, <2>3, WriteKeepsFiles DEF MakePlan, Writes, Refuses
<1>2. CASE MakeReport(h)
  <2>1. shell[h].read[1] \in Snapshots /\ shell[h].read[2] \in Audits \cup {None}
    BY <1>2, InputTypes DEF MakeReport
  <2>2. PICK e \in {"none", "given"} :
           LET s == shell[h].read[1]
               a == IF shell[h].read[2] = None THEN AuditOf(s, "all", e) ELSE shell[h].read[2]
           IN  Writes("report", DerivedOf(s, a)) \/ UNCHANGED file
    BY <1>2 DEF MakeReport, Refuses
  <2>3. (IF shell[h].read[2] = None THEN AuditOf(shell[h].read[1], "all", e) ELSE shell[h].read[2])
            \in Audits
    BY <2>1 DEF AuditOf, Audits, Snapshots
  <2>4. file \in Files
    BY DEF ArtifactsOK
  <2> QED
    BY <2>1, <2>2, <2>3, <2>4, DerivedType, WriteKeepsFiles DEF Writes
<1> QED
  BY <1>1, <1>2

LEMMA FreshnessType ==
    ASSUME NEW age \in Int, NEW maxAge \in Int
    PROVE  /\ Freshness(age, maxAge) \in Statuses
           /\ Freshness(age, maxAge) # "stale" /\ WarningAge <= maxAge => age <= maxAge
           /\ Freshness(age, maxAge) # "stale" /\ age > WarningAge =>
                 Freshness(age, maxAge) = "warning"
BY ReviewAssumption DEF Freshness, Statuses

(* What may go into a packet.                                              *)
LEMMA PacketType ==
    ASSUME NEW s \in Snapshots, NEW a \in Audits, NEW r \in Derivations,
           NEW plan \in Derivations \cup {None}, NEW evaluated \in Int, NEW maxAge \in Int,
           AuditMatches(a, s), CoversAll(a), ReportIsValid(r), PlanIsValid(plan),
           SourcesMatch(s, a, r, plan)
    PROVE  PacketOf(s, a, r, plan, evaluated, maxAge) \in Packets
<1> DEFINE p == PacketOf(s, a, r, plan, evaluated, maxAge)
<1>1. s.content \in Int /\ evaluated - s.at \in Int
  BY DEF Snapshots
<1>2. p \in PacketShapes
  BY <1>1, FreshnessType DEF PacketOf, PacketShapes
<1>3. DrawsOnOneAudit(p)
  <2>1. r.flaw = "none"
    BY DEF ReportIsValid, IsReadOnly, SignalsAreSound, ClaimsAreSound, Derivations, Flaws
  <2>2. p.audit.snapshot = p.snapshot /\ p.audit.scope = "all"
    BY DEF PacketOf, AuditMatches, CoversAll
  <2>3. p.report = r /\ p.plan = plan /\ p.snapshot = s.content /\ p.audit = a
    BY DEF PacketOf
  <2> QED
    BY <2>1, <2>2, <2>3
       DEF DrawsOnOneAudit, ReportIsValid, PlanIsValid, PlanShapeIsSound, SourcesMatch
<1> QED
  BY <1>2, <1>3 DEF Packets

LEMMA ReviewFilesStep ==
    ASSUME ArtifactsOK, NEW h \in Shell, MakePacket(h) \/ WriteVerdict(h)
    PROVE  file' \in Files
<1>1. CASE MakePacket(h)
  <2>1. /\ shell[h].read[1] \in Snapshots /\ shell[h].read[2] \in Audits
        /\ shell[h].read[3] \in Derivations /\ shell[h].read[4] \in Derivations \cup {None}
    BY <1>1, InputTypes DEF MakePacket
  <2>2. PICK maxAge \in Ages, evaluated \in {0, now} :
           LET s == shell[h].read[1]
               a == shell[h].read[2]
               r == shell[h].read[3]
               plan == shell[h].read[4]
           IN  \/ UNCHANGED file
              \/ /\ AuditMatches(a, s) /\ CoversAll(a)
                 /\ ReportIsValid(r) /\ PlanIsValid(plan) /\ SourcesMatch(s, a, r, plan)
                 /\ Writes("packet", PacketOf(s, a, r, plan, evaluated, maxAge))
    BY <1>1 DEF MakePacket, Refuses
  <2>3. maxAge \in Int /\ evaluated \in Int /\ file \in Files
    BY ReviewAssumption DEF ArtifactsOK
  <2> QED
    BY <2>1, <2>2, <2>3, PacketType, WriteKeepsFiles DEF Writes
<1>2. CASE WriteVerdict(h)
  <2>1. shell[h].read[1] \in Packets
    BY <1>2, InputTypes DEF WriteVerdict
  <2>2. ASSUME NEW mistake \in Mistakes
        PROVE  VerdictOf(shell[h].read[1], mistake) \in Verdicts
    BY <2>1 DEF VerdictOf, Verdicts, Packets, PacketShapes
  <2> QED
    BY <1>2, <2>2, WriteKeepsFiles DEF WriteVerdict, Writes
<1> QED
  BY <1>1, <1>2

(* Hands and other programs.                                               *)
LEMMA ForeignStep ==
    ASSUME ArtifactsOK, EditByHand \/ ComesFromElsewhere
    PROVE  file' \in Files
<1>0. file \in Files /\ file["snapshot"] \in Snapshots /\ file["audit"] \in Audits
  BY DEF ArtifactsOK, Files
<1>1. DerivedOf(file["snapshot"], file["audit"]) \in Derivations
  BY <1>0, DerivedType
<1>2. ASSUME file' = [file EXCEPT !["packet"].status = "fresh", !["packet"].sealed = FALSE]
      PROVE  file' \in Files
  <2>1. [file.packet EXCEPT !.status = "fresh", !.sealed = FALSE] \in Packets
    BY <1>0 DEF Files, Packets, PacketShapes, Statuses
  <2> QED
    BY <1>0, <1>2, <2>1 DEF Files
<1>3. ASSUME file' = [file EXCEPT !["verdict"].status = "fresh", !["verdict"].sealed = FALSE]
      PROVE  file' \in Files
  <2>1. [file.verdict EXCEPT !.status = "fresh", !.sealed = FALSE] \in Verdicts
    BY <1>0 DEF Files, Verdicts, Statuses
  <2> QED
    BY <1>0, <1>3, <2>1 DEF Files
<1>4. ASSUME NEW kind \in {"report", "plan"}, NEW d \in Derivations,
             file' = [file EXCEPT ![kind] = d]
      PROVE  file' \in Files
  BY <1>0, <1>4 DEF Files
<1>5. CASE EditByHand
  <2>1. [DerivedOf(file["snapshot"], file["audit"]) EXCEPT !.sealed = FALSE] \in Derivations
    BY <1>1 DEF Derivations
  <2> QED
    BY <1>2, <1>3, <1>4, <1>5, <2>1 DEF EditByHand
<1>6. CASE ComesFromElsewhere
  <2>1. ASSUME NEW flaw \in Flaws
        PROVE  [DerivedOf(file["snapshot"], file["audit"]) EXCEPT !.flaw = flaw] \in Derivations
    BY <1>1 DEF Derivations
  <2> QED
    BY <1>4, <1>6, <2>1 DEF ComesFromElsewhere
<1> QED
  BY <1>5, <1>6

-----------------------------------------------------------------------------
(* The shells.                                                             *)
LEMMA StartStep ==
    ASSUME ArtifactsOK, NEW h \in Shell, Start(h)
    PROVE  ArtifactsOK'
<1>1. PICK c \in Commands : shell' = [shell EXCEPT ![h] = [cmd |-> c, read |-> <<>>]]
  BY DEF Start
<1>2. ShellOK([cmd |-> c, read |-> <<>>])
  BY CommandsAre DEF ShellOK
<1> QED
  BY <1>1, <1>2 DEF ArtifactsOK, Start

LEMMA LoadStep ==
    ASSUME ArtifactsOK, NEW h \in Shell, Load(h)
    PROVE  ArtifactsOK'
<1> DEFINE c == shell[h].cmd
           n == Len(shell[h].read) + 1
           kind == Inputs[c][n]
<1>1. ShellOK(shell[h]) /\ c \in Commands /\ n \in 1 .. Len(Inputs[c])
  BY CommandsAre DEF ArtifactsOK, Load, Loading, ShellOK
<1>2. kind \in Kinds
  <2>1. Inputs[c] \in Seq(Kinds)
    BY <1>1, CommandsAre
  <2> QED
    BY <1>1, <2>1
<1>3. PICK x : /\ shell' = [shell EXCEPT ![h].read = Append(@, x)]
               /\ \/ x = None /\ <<c, kind>> \in Optional
                  \/ x = IF kind = "tracker" THEN version ELSE file[kind]
  BY DEF Load
<1>4. x \in Loads(c, kind)
  <2>1. CASE x = None /\ <<c, kind>> \in Optional
    BY <2>1 DEF Loads, Optional
  <2>2. CASE x = IF kind = "tracker" THEN version ELSE file[kind]
    BY <1>2, <2>2 DEF ArtifactsOK, Files, Loads, Kinds
  <2> QED
    BY <1>3, <2>1, <2>2
<1>5. x \in Loaded
  BY <1>2, <1>4 DEF Loads, Loaded, Kinds
<1>6. ShellOK([shell[h] EXCEPT !.read = Append(@, x)])
  <2> DEFINE read == Append(shell[h].read, x)
  <2>1. shell[h].read \in Seq(Loaded) /\ c # "idle"
    BY <1>1, CommandsAre DEF ShellOK
  <2>2. read \in Seq(Loaded) /\ Len(read) = n /\ Len(read) <= Len(Inputs[c])
    BY <1>1, <1>5, <2>1
  <2>3. ASSUME NEW i \in 1 .. Len(read) PROVE read[i] \in Loads(c, Inputs[c][i])
    <3>1. CASE i = n
      BY <1>4, <2>1, <2>2, <3>1
    <3>2. CASE i # n
      <4>1. i \in 1 .. Len(shell[h].read) /\ read[i] = shell[h].read[i]
        BY <2>1, <2>2, <3>2
      <4> QED
        BY <1>1, <2>1, <4>1 DEF ShellOK
    <3> QED
      BY <3>1, <3>2
  <2>4. /\ [shell[h] EXCEPT !.read = Append(@, x)].cmd = c
        /\ [shell[h] EXCEPT !.read = Append(@, x)].read = read
        /\ [shell[h] EXCEPT !.read = Append(@, x)]
              \in [cmd : Commands \cup {"idle"}, read : Seq(Loaded)]
    BY <1>1, <2>2 DEF ShellOK
  <2> QED
    BY <2>1, <2>2, <2>3, <2>4 DEF ShellOK
<1> QED
  BY <1>3, <1>6 DEF ArtifactsOK, Load

-----------------------------------------------------------------------------
(* What backlog-review-validate accepts is coherent: the packet is sealed, *)
(* hence draws on one audit, and the verdict is of that packet.            *)
LEMMA ValidateStep ==
    ASSUME ArtifactsOK, NEW h \in Shell, Validate(h)
    PROVE  AcceptedReviewIsCoherent'
<1> DEFINE p == shell[h].read[1]
           v == shell[h].read[2]
<1>1. p \in Packets /\ v \in Verdicts
  BY InputTypes DEF Validate
<1>2. result' = IF PacketIsValid(p, FALSE) /\ VerdictIsValid(v) /\ VerdictIsOf(v, p)
                THEN [valid |-> TRUE, packet |-> p, verdict |-> v]
                ELSE Invalid
  BY DEF Validate
<1>3. CASE ~ (PacketIsValid(p, FALSE) /\ VerdictIsValid(v) /\ VerdictIsOf(v, p))
  BY <1>2, <1>3 DEF AcceptedReviewIsCoherent, Invalid
<1>4. CASE PacketIsValid(p, FALSE) /\ VerdictIsValid(v) /\ VerdictIsOf(v, p)
  <2>1. result'.packet = p /\ result'.verdict = v
    BY <1>2, <1>4
  <2>2. v.packet = p
    BY <1>4 DEF VerdictIsOf
  <2>3. v.mistake \in {"none", "drops-warning"}
    BY <1>1, <1>4
       DEF Verdicts, Mistakes, VerdictIsValid, VerdictIsOf, IsAdvisory, ItemsAreSound, CitesPacket
  <2>4. DrawsOnOneAudit(p)
    BY <1>1, <1>4 DEF Packets, PacketIsValid
  <2>5. p.age \in Int /\ p.maxAge \in Int
    BY <1>1 DEF Packets, PacketShapes
  <2>6. 0 <= p.age /\ p.maxAge <= HardAge /\ WarningAge <= p.maxAge
    BY <1>4, <2>5 DEF PacketIsValid, AgesAreSound
  <2>7. p.status = Freshness(p.age, p.maxAge) /\ p.status # "stale"
    BY <1>4 DEF PacketIsValid, StatusIsHonest
  <2>8. p.age <= p.maxAge
    BY <2>5, <2>6, <2>7, FreshnessType
  <2>9. p.age > WarningAge => v.mistake = "none"
    BY <1>4, <2>3, <2>5, <2>7, FreshnessType DEF VerdictIsOf, KeepsWarning
  <2> QED
    BY <2>1, <2>2, <2>3, <2>4, <2>6, <2>8, <2>9 DEF AcceptedReviewIsCoherent, DrawsOnOneAudit
<1> QED
  BY <1>3, <1>4

LEMMA ReviewInvStep == ReviewInv /\ [ReviewNext]_reviewVars => ReviewInv'
<1> SUFFICES ASSUME ReviewInv, [ReviewNext]_reviewVars PROVE ReviewInv'
  OBVIOUS
<1> USE DEF ReviewInv
<1>1. CASE UNCHANGED reviewVars
  BY <1>1 DEF reviewVars, ArtifactsOK, AcceptedReviewIsCoherent
<1>2. UNCHANGED result => AcceptedReviewIsCoherent'
  BY DEF AcceptedReviewIsCoherent
<1>3. ASSUME NEW h \in Shell, Start(h) \/ Load(h)
      PROVE  ReviewInv'
  BY <1>2, <1>3, StartStep, LoadStep DEF Start, Load
<1>4. ASSUME NEW h \in Shell, NEW c \in Commands, Ends(h, c), file' \in Files
      PROVE  ArtifactsOK'
  BY <1>4, AllLoaded DEF ArtifactsOK
<1>5. ASSUME NEW h \in Shell,
             \/ TakeSnapshot(h) \/ MakeAudit(h) \/ MakePlan(h) \/ MakeReport(h)
             \/ MakePacket(h) \/ WriteVerdict(h)
      PROVE  ReviewInv'
  <2>1. file' \in Files
    BY <1>5, SourceStep, DerivationStep, ReviewFilesStep
  <2>2. \E c \in Commands : Ends(h, c)
    BY <1>5, CommandsAre
       DEF TakeSnapshot, MakeAudit, MakePlan, MakeReport, MakePacket, WriteVerdict
  <2>3. UNCHANGED result
    BY <1>5
       DEF TakeSnapshot, MakeAudit, MakePlan, MakeReport, MakePacket, WriteVerdict, Writes, Refuses
  <2> QED
    BY <1>2, <1>4, <2>1, <2>2, <2>3
<1>6. ASSUME NEW h \in Shell, Validate(h)
      PROVE  ReviewInv'
  <2>1. Ends(h, "validate") /\ file' \in Files
    BY <1>6 DEF Validate, ArtifactsOK
  <2> QED
    BY <1>4, <1>6, <2>1, ValidateStep, CommandsAre
<1>7. ASSUME EditByHand \/ ComesFromElsewhere
      PROVE  ReviewInv'
  BY <1>2, <1>7, ForeignStep DEF EditByHand, ComesFromElsewhere, ArtifactsOK
<1>8. ASSUME TimePasses \/ TrackerChanges
      PROVE  ReviewInv'
  BY <1>2, <1>8 DEF TimePasses, TrackerChanges, ArtifactsOK
<1> QED
  BY <1>1, <1>3, <1>5, <1>6, <1>7, <1>8 DEF ReviewNext

LEMMA ReviewInvInit == ReviewInit => ReviewInv
<1> SUFFICES ASSUME ReviewInit PROVE ReviewInv
  OBVIOUS
<1> DEFINE s == SnapshotOf(0, 0)
           a == AuditOf(s, "all", "none")
           d == DerivedOf(s, a)
           p == PacketOf(s, a, d, d, 0, HardAge)
<1>1. s \in Snapshots
  BY DEF SnapshotOf, Snapshots
<1>2. a \in Audits
  BY <1>1 DEF AuditOf, Audits, Snapshots
<1>3. d \in Derivations
  BY <1>1, <1>2, DerivedType
<1>4. p \in Packets
  <2>1. ReportIsValid(d) /\ PlanIsValid(d)
    BY DEF DerivedOf, ReportIsValid, PlanIsValid, IsReadOnly, SignalsAreSound, ClaimsAreSound,
           PlanShapeIsSound
  <2>2. AuditMatches(a, s) /\ CoversAll(a) /\ SourcesMatch(s, a, d, d)
    BY DEF AuditMatches, CoversAll, SourcesMatch, AuditOf, DerivedOf
  <2>3. HardAge \in Int
    BY ReviewAssumption
  <2> QED
    BY <1>1, <1>2, <1>3, <2>1, <2>2, <2>3, PacketType
<1>5. VerdictOf(p, "none") \in Verdicts
  BY <1>4 DEF VerdictOf, Verdicts, Packets, PacketShapes, Mistakes
<1>6. file \in Files
  BY <1>1, <1>2, <1>3, <1>4, <1>5 DEF ReviewInit, Files
<1>7. ShellOK(Idle)
  BY DEF ShellOK, Idle
<1> QED
  BY <1>6, <1>7 DEF ReviewInit, ReviewInv, ArtifactsOK, AcceptedReviewIsCoherent, Invalid

(* However the commands of any number of shells mix with each other, with  *)
(* hand edits and with a changing tracker, an accepted review is coherent. *)
THEOREM AcceptedReviewsAreCoherent == ReviewSpec => []AcceptedReviewIsCoherent
<1>1. ReviewInv => AcceptedReviewIsCoherent
  BY DEF ReviewInv
<1> QED
  BY <1>1, ReviewInvInit, ReviewInvStep, PTL DEF ReviewSpec

-----------------------------------------------------------------------------
(* The snapshot of the tracker.                                            *)
Conditions == {"open", "closed", "merged"}

Row == [number : Item, condition : Conditions]

SnapshotType ==
    /\ listed \in Seq(Item) /\ condition \in [Item -> Conditions]
    /\ stage \in {"tracker", "open", "done"} /\ page \in Nat
    /\ tracker \in Seq(Row) /\ openPulls \in Seq(Row) /\ touched \subseteq Item

(* A row tells what is so, unless somebody has touched the item since; and *)
(* what was merged when the row was read is still merged.                  *)
Tells(rows, actual, changed) ==
    \A r \in 1 .. Len(rows) :
        /\ rows[r].number \notin changed => rows[r].condition = actual[rows[r].number]
        /\ rows[r].condition = "merged" => actual[rows[r].number] = "merged"

Has(rows, n) == \E r \in 1 .. Len(rows) : rows[r].number = n

(* The item is on a page still to come.                                    *)
Beyond(list, n, place) == \E i \in 1 .. Len(list) : list[i] = n /\ i > place

SnapshotInvariant ==
    /\ SnapshotType
    /\ Tells(tracker, condition, touched) /\ Tells(openPulls, condition, touched)
    /\ \A n \in Item \ (Late \cup touched) :
          Has(tracker, n) \/ (stage = "tracker" /\ Beyond(listed, n, page * PageSize))

LEMMA SnapshotBegins == SnapshotInit => SnapshotInvariant
<1> SUFFICES ASSUME NEW early \in [Item \ Late -> {"open", "closed"}],
                    NEW order \in Orders(Item \ Late),
                    SnapshotStart(order, [n \in Item |-> IF n \in Late THEN "open" ELSE early[n]])
             PROVE  SnapshotInvariant
  BY DEF SnapshotInit
<1> DEFINE size == Cardinality(Item \ Late)
<1>1. size \in Nat
  BY SnapshotAssumption, FS_Subset, FS_CardinalityType
<1>2. /\ order \in [1 .. size -> Item \ Late]
      /\ \A n \in Item \ Late : \E i \in DOMAIN order : order[i] = n
  BY DEF Orders
<1> HIDE DEF size
<1>3. order \in Seq(Item) /\ Len(order) = size
  BY <1>1, <1>2
<1>4. SnapshotType
  BY <1>3 DEF SnapshotStart, SnapshotType, Conditions
<1>5. Tells(tracker, condition, touched) /\ Tells(openPulls, condition, touched)
  BY DEF SnapshotStart, Tells
<1>6. page * PageSize = 0
  BY SnapshotAssumption DEF SnapshotStart
<1>7. ASSUME NEW n \in Item \ Late PROVE Beyond(listed, n, 0)
  BY <1>1, <1>2, <1>3 DEF SnapshotStart, Beyond
<1> QED
  BY <1>4, <1>5, <1>6, <1>7 DEF SnapshotInvariant, SnapshotStart

-----------------------------------------------------------------------------
(* Reading a page.                                                         *)

(* The rows of a page are rows of the list, as things are.                 *)
LEMMA PageTells ==
    ASSUME NEW list \in Seq(Item), NEW first \in Nat, NEW last \in 0 .. Len(list),
           condition \in [Item -> Conditions]
    PROVE  /\ RowsFrom(list, first, last) \in Seq(Row)
           /\ Tells(RowsFrom(list, first, last), condition, touched)
           /\ \A i \in first + 1 .. last : Has(RowsFrom(list, first, last), list[i])
<1> DEFINE rows == RowsFrom(list, first, last)
           size == IF first < last THEN last - first ELSE 0
<1>1. size \in Nat /\ \A r \in 1 .. size : first + r \in 1 .. Len(list)
  OBVIOUS
<1>2. \A r \in 1 .. size : list[first + r] \in Item
  BY <1>1
<1>3. rows = [r \in 1 .. size |->
                [number |-> list[first + r], condition |-> condition[list[first + r]]]]
  BY DEF RowsFrom
<1>4. /\ \A r \in 1 .. size : rows[r] \in Row
      /\ \A r \in 1 .. size :
            rows[r].number = list[first + r] /\ rows[r].condition = condition[list[first + r]]
  BY <1>2, <1>3 DEF Row
<1> HIDE DEF size
<1>5. rows \in Seq(Row) /\ Len(rows) = size
  <2>1. rows \in [1 .. size -> Row]
    BY <1>3, <1>4
  <2> HIDE DEF rows
  <2> QED
    BY <1>1, <2>1
<1>6. Tells(rows, condition, touched)
  BY <1>4, <1>5 DEF Tells
<1>7. ASSUME NEW i \in first + 1 .. last PROVE Has(rows, list[i])
  <2>1. i - first \in 1 .. size /\ first + (i - first) = i
    BY DEF size
  <2> QED
    BY <1>4, <1>5, <2>1 DEF Has
<1> QED
  BY <1>5, <1>6, <1>7

LEMMA JoinedTells ==
    ASSUME NEW a \in Seq(Row), NEW b \in Seq(Row), NEW actual, NEW changed,
           Tells(a, actual, changed), Tells(b, actual, changed)
    PROVE  /\ a \o b \in Seq(Row) /\ Tells(a \o b, actual, changed)
           /\ \A n : Has(a, n) \/ Has(b, n) => Has(a \o b, n)
<1>1. /\ a \o b \in Seq(Row) /\ Len(a \o b) = Len(a) + Len(b)
      /\ \A r \in 1 .. Len(a) : (a \o b)[r] = a[r]
      /\ \A r \in 1 .. Len(a) + Len(b) : r > Len(a) => (a \o b)[r] = b[r - Len(a)]
  OBVIOUS
<1> DEFINE c == a \o b
<1> HIDE DEF c
<1>2. Tells(c, actual, changed)
  <2> SUFFICES ASSUME NEW r \in 1 .. Len(c)
               PROVE  /\ c[r].number \notin changed => c[r].condition = actual[c[r].number]
                      /\ c[r].condition = "merged" => actual[c[r].number] = "merged"
    BY DEF Tells
  <2>1. CASE r \in 1 .. Len(a)
    BY <1>1, <2>1 DEF Tells, c
  <2>2. CASE r > Len(a)
    <3>1. c[r] = b[r - Len(a)] /\ r - Len(a) \in 1 .. Len(b)
      BY <1>1, <2>2 DEF c
    <3> QED
      BY <3>1 DEF Tells
  <2> QED
    BY <1>1, <2>1, <2>2 DEF c
<1>3. ASSUME NEW n, Has(a, n) PROVE Has(c, n)
  <2>1. PICK r \in 1 .. Len(a) : a[r].number = n
    BY <1>3 DEF Has
  <2>2. r \in 1 .. Len(c) /\ c[r] = a[r]
    BY <1>1 DEF c
  <2> QED
    BY <2>1, <2>2 DEF Has
<1>4. ASSUME NEW n, Has(b, n) PROVE Has(c, n)
  <2>1. PICK r \in 1 .. Len(b) : b[r].number = n
    BY <1>4 DEF Has
  <2>2. Len(a) + r \in 1 .. Len(c) /\ c[Len(a) + r] = b[r]
    BY <1>1 DEF c
  <2> QED
    BY <2>1, <2>2 DEF Has
<1> QED
  BY <1>1, <1>2, <1>3, <1>4 DEF c

LEMMA ListingIsOfItems ==
    ASSUME listed \in Seq(Item), NEW name
    PROVE  Listing(name) \in Seq(Item)
<1>1. Those(listed, OpenPulls) \in Seq(Item)
  BY ThoseSelects
<1> QED
  BY <1>1 DEF Listing

LEMMA PageKeepsInvariant ==
    ASSUME SnapshotInvariant, ReadPage
    PROVE  SnapshotInvariant'
<1> DEFINE first == page * PageSize
           full == (page + 1) * PageSize
           list == Listing(stage)
           last == IF full < Len(list) THEN full ELSE Len(list)
           rows == RowsFrom(list, first, last)
           more == Len(list) > full
<1>1. SnapshotType /\ stage \in {"tracker", "open"} /\ PageSize \in Nat
  BY SnapshotAssumption DEF SnapshotInvariant, ReadPage
<1>2. first \in Nat /\ full \in Nat
  BY <1>1 DEF SnapshotType
<1>3. list \in Seq(Item)
  BY <1>1, ListingIsOfItems DEF SnapshotType
<1>4. last \in 0 .. Len(list)
  BY <1>2, <1>3
<1>5. /\ rows \in Seq(Row) /\ Tells(rows, condition, touched)
      /\ \A i \in first + 1 .. last : Has(rows, list[i])
  <2> HIDE DEF first, full, list, last
  <2> QED
    BY <1>1, <1>2, <1>3, <1>4, PageTells DEF SnapshotType
<1>6. Rows(stage, page) = rows
  BY DEF Rows
<1>7. /\ page' = IF more THEN page + 1 ELSE 0
      /\ stage' = IF more THEN stage ELSE IF stage = "tracker" THEN "open" ELSE "done"
      /\ UNCHANGED <<listed, condition, touched>>
  BY <1>1 DEF ReadPage
<1>8. /\ stage = "tracker" => tracker' = tracker \o rows /\ openPulls' = openPulls
      /\ stage # "tracker" => openPulls' = openPulls \o rows /\ tracker' = tracker
  BY <1>6 DEF ReadPage
<1> HIDE DEF rows
<1>9. /\ tracker' \in Seq(Row) /\ Tells(tracker', condition, touched)
      /\ openPulls' \in Seq(Row) /\ Tells(openPulls', condition, touched)
      /\ \A n : Has(tracker, n) => Has(tracker', n)
      /\ (stage = "tracker" => \A n : Has(rows, n) => Has(tracker', n))
  <2>1. /\ tracker \in Seq(Row) /\ Tells(tracker, condition, touched)
        /\ openPulls \in Seq(Row) /\ Tells(openPulls, condition, touched)
    BY DEF SnapshotInvariant, SnapshotType
  <2>2. /\ tracker \o rows \in Seq(Row) /\ Tells(tracker \o rows, condition, touched)
        /\ \A n : Has(tracker, n) \/ Has(rows, n) => Has(tracker \o rows, n)
    BY <1>5, <2>1, JoinedTells
  <2>3. openPulls \o rows \in Seq(Row) /\ Tells(openPulls \o rows, condition, touched)
    BY <1>5, <2>1, JoinedTells
  <2>4. CASE stage = "tracker"
    <3>1. tracker' = tracker \o rows /\ openPulls' = openPulls
      BY <1>8, <2>4
    <3> QED
      BY <2>1, <2>2, <2>4, <3>1
  <2>5. CASE stage # "tracker"
    <3>1. openPulls' = openPulls \o rows /\ tracker' = tracker
      BY <1>8, <2>5
    <3> QED
      BY <2>1, <2>3, <2>5, <3>1
  <2> QED
    BY <2>4, <2>5
<1>10. SnapshotType'
  <2> HIDE DEF more
  <2> QED
    BY <1>1, <1>7, <1>9 DEF SnapshotType
<1>11. Tells(tracker, condition, touched)' /\ Tells(openPulls, condition, touched)'
  BY <1>7, <1>9
<1>12. ASSUME NEW n \in Item \ (Late \cup touched)
       PROVE  Has(tracker', n) \/ (stage' = "tracker" /\ Beyond(listed, n, page' * PageSize))
  <2>1. CASE Has(tracker, n)
    BY <1>9, <2>1
  <2>2. CASE stage = "tracker" /\ Beyond(listed, n, first)
    <3>1. list = listed
      BY <2>2 DEF Listing
    <3>2. PICK i \in 1 .. Len(listed) : listed[i] = n /\ i > first
      BY <2>2 DEF Beyond
    <3> HIDE DEF first, full, list
    <3>3. CASE i <= last
      <4>1. i \in first + 1 .. last
        BY <1>2, <3>2, <3>3
      <4> QED
        BY <1>5, <1>9, <2>2, <3>1, <3>2, <4>1
    <3>4. CASE ~ (i <= last)
      <4>1. i > full /\ more
        BY <1>1, <1>2, <1>4, <3>1, <3>2, <3>4
      <4>2. page' * PageSize = full /\ stage' = "tracker"
        BY <1>7, <2>2, <4>1 DEF full
      <4> QED
        BY <3>2, <4>1, <4>2 DEF Beyond
    <3> QED
      BY <3>3, <3>4
  <2> QED
    BY <2>1, <2>2 DEF SnapshotInvariant
<1> QED
  BY <1>7, <1>10, <1>11, <1>12 DEF SnapshotInvariant

-----------------------------------------------------------------------------
(* Others at work.                                                         *)

(* What comes to the front pushes the others back, and never forward.      *)
LEMMA OthersMoveBack ==
    ASSUME listed \in Seq(Item), NEW n \in Item, ToFront(n)
    PROVE  /\ listed' \in Seq(Item)
           /\ \A k \in Item \ {n}, place \in Nat :
                 Beyond(listed, k, place) => Beyond(listed', k, place)
<1> DEFINE size == Len(listed)
           found == \E i \in 1 .. size : listed[i] = n
           at == IF found THEN CHOOSE i \in 1 .. size : listed[i] = n ELSE size + 1
           long == IF at > size THEN at ELSE size
<1>1. size \in Nat /\ \A i \in 1 .. size : listed[i] \in Item
  OBVIOUS
<1>2. at \in 1 .. size + 1 /\ (at # size + 1 => listed[at] = n)
  <2>1. CASE found
    BY <1>1, <2>1
  <2>2. CASE ~ found
    BY <1>1, <2>2
  <2> QED
    BY <2>1, <2>2
<1>3. listed' = [k \in 1 .. long |->
                    IF k = 1 THEN n ELSE IF k > at THEN listed[k] ELSE listed[k - 1]]
  BY DEF ToFront
<1> HIDE DEF at, size
<1>4. long \in Nat /\ size <= long /\ (at = size + 1 => long = size + 1) /\ (at # size + 1 => long = size)
  BY <1>1, <1>2
<1> HIDE DEF long
<1>5. \A k \in 1 .. long :
         listed'[k] = IF k = 1 THEN n ELSE IF k > at THEN listed[k] ELSE listed[k - 1]
  BY <1>3
<1>6. \A k \in 1 .. long : listed'[k] \in Item
  <2> SUFFICES ASSUME NEW k \in 1 .. long PROVE listed'[k] \in Item
    OBVIOUS
  <2>1. CASE k = 1
    BY <1>5, <2>1
  <2>2. CASE k > at
    <3>1. k \in 1 .. size /\ k # 1
      BY <1>1, <1>2, <1>4, <2>2
    <3> QED
      BY <1>1, <1>5, <2>2, <3>1
  <2>3. CASE k # 1 /\ ~ (k > at)
    <3>1. k - 1 \in 1 .. size
      BY <1>1, <1>2, <1>4, <2>3
    <3> QED
      BY <1>1, <1>5, <2>3, <3>1
  <2> QED
    BY <2>1, <2>2, <2>3
<1>7. listed' \in Seq(Item) /\ Len(listed') = long
  BY <1>3, <1>4, <1>6
<1>8. ASSUME NEW k \in Item \ {n}, NEW place \in Nat, Beyond(listed, k, place)
      PROVE  Beyond(listed', k, place)
  <2>1. PICK i \in 1 .. size : listed[i] = k /\ i > place
    BY <1>8 DEF Beyond, size
  <2>2. i # at
    BY <1>1, <1>2, <2>1
  <2>3. CASE i < at
    <3>1. i + 1 \in 1 .. long /\ i + 1 # 1 /\ ~ (i + 1 > at) /\ (i + 1) - 1 = i
      BY <1>1, <1>2, <1>4, <2>3
    <3>2. listed'[i + 1] = k /\ i + 1 > place
      BY <1>5, <2>1, <3>1
    <3> QED
      BY <1>7, <3>1, <3>2 DEF Beyond
  <2>4. CASE i > at
    <3>1. i \in 1 .. long /\ i # 1
      BY <1>1, <1>2, <1>4, <2>4
    <3>2. listed'[i] = k
      BY <1>5, <2>1, <2>4, <3>1
    <3> QED
      BY <1>7, <2>1, <3>1, <3>2 DEF Beyond
  <2> QED
    BY <1>1, <1>2, <2>2, <2>3, <2>4
<1> QED
  BY <1>7, <1>8

LEMMA TouchKeepsTelling ==
    ASSUME NEW rows \in Seq(Row), NEW actual \in [Item -> Conditions], NEW changed,
           Tells(rows, actual, changed), NEW n \in Item, NEW c \in Conditions,
           actual[n] = "merged" => c = "merged"
    PROVE  Tells(rows, [actual EXCEPT ![n] = c], changed \cup {n})
<1> SUFFICES ASSUME NEW r \in 1 .. Len(rows)
             PROVE  LET later == [actual EXCEPT ![n] = c] IN
                    /\ rows[r].number \notin changed \cup {n} =>
                          rows[r].condition = later[rows[r].number]
                    /\ rows[r].condition = "merged" => later[rows[r].number] = "merged"
  BY DEF Tells
<1>1. rows[r] \in Row
  OBVIOUS
<1>2. rows[r].number \in Item
  BY <1>1 DEF Row
<1>3. /\ rows[r].number \notin changed => rows[r].condition = actual[rows[r].number]
      /\ rows[r].condition = "merged" => actual[rows[r].number] = "merged"
  BY DEF Tells
<1> QED
  BY <1>2, <1>3

LEMMA EditKeepsInvariant ==
    ASSUME SnapshotInvariant, Edit
    PROVE  SnapshotInvariant'
<1>1. PICK n \in Item : Touch(n)
  BY DEF Edit
<1>2. PICK c \in Conditions :
         /\ condition[n] = "merged" => c = "merged"
         /\ condition' = [condition EXCEPT ![n] = c]
  BY <1>1 DEF Touch, Conditions
<1>3. /\ ToFront(n) /\ touched' = touched \cup {n}
      /\ UNCHANGED <<stage, page, tracker, openPulls>> /\ SnapshotType
  BY <1>1 DEF Touch, Edit, SnapshotInvariant
<1>4. /\ listed' \in Seq(Item)
      /\ \A k \in Item \ {n}, place \in Nat :
            Beyond(listed, k, place) => Beyond(listed', k, place)
  BY <1>3, OthersMoveBack DEF SnapshotType
<1>5. SnapshotType'
  BY <1>2, <1>3, <1>4 DEF SnapshotType
<1>6. Tells(tracker, condition', touched') /\ Tells(openPulls, condition', touched')
  BY <1>2, <1>3, TouchKeepsTelling DEF SnapshotInvariant, SnapshotType
<1>7. page * PageSize \in Nat
  BY <1>3, SnapshotAssumption DEF SnapshotType
<1>8. ASSUME NEW k \in Item \ (Late \cup touched')
      PROVE  Has(tracker, k) \/ (stage = "tracker" /\ Beyond(listed', k, page * PageSize))
  BY <1>3, <1>4, <1>7 DEF SnapshotInvariant
<1> QED
  BY <1>3, <1>5, <1>6, <1>8 DEF SnapshotInvariant

-----------------------------------------------------------------------------
(* What the last row of a number says.                                     *)
LEMMA LastRowIsARow ==
    ASSUME NEW rows \in Seq(Row), NEW n, Has(rows, n)
    PROVE  \E r \in 1 .. Len(rows) :
              rows[r].number = n /\ LastRow(rows, n) = rows[r].condition
<1> DEFINE of == {r \in 1 .. Len(rows) : rows[r].number = n}
           last == CHOOSE r \in of : \A q \in of : q <= r
<1>1. of # {} /\ of \subseteq 0 .. Len(rows) /\ Len(rows) \in Nat
  BY DEF Has
<1>2. \E r \in of : \A q \in of : q <= r
  <2> HIDE DEF of
  <2> QED
    BY <1>1, GreatestElement
<1>3. last \in of
  <2> HIDE DEF of
  <2> QED
    BY <1>2
<1>4. LastRow(rows, n) = rows[last].condition
  BY <1>1 DEF LastRow
<1> HIDE DEF last
<1> QED
  BY <1>3, <1>4

LEMMA NoLastRow ==
    ASSUME NEW rows \in Seq(Row), NEW n, ~ Has(rows, n)
    PROVE  LastRow(rows, n) = "missing"
BY DEF LastRow, Has

LEMMA TellingIsSeeing == SnapshotInvariant => UntouchedIsSeen
<1> SUFFICES ASSUME SnapshotInvariant, stage = "done"
             PROVE  /\ \A n \in Item \ (Late \cup touched) : Seen(n) = condition[n]
                    /\ \A n \in Item : Seen(n) = "merged" => condition[n] = "merged"
  BY DEF UntouchedIsSeen
<1> DEFINE Of(n) == IF n \in PullItem THEN tracker \o openPulls ELSE tracker
<1>1. ASSUME NEW n \in Item
      PROVE  /\ Of(n) \in Seq(Row) /\ Tells(Of(n), condition, touched)
             /\ Has(tracker, n) => Has(Of(n), n)
             /\ Seen(n) = LastRow(Of(n), n)
  BY JoinedTells DEF SnapshotInvariant, SnapshotType, Seen
<1> HIDE DEF Of
<1>2. ASSUME NEW n \in Item \ (Late \cup touched) PROVE Seen(n) = condition[n]
  <2>1. Has(Of(n), n)
    BY <1>1 DEF SnapshotInvariant
  <2>2. PICK r \in 1 .. Len(Of(n)) :
           Of(n)[r].number = n /\ LastRow(Of(n), n) = Of(n)[r].condition
    BY <1>1, <2>1, LastRowIsARow
  <2> QED
    BY <1>1, <2>2 DEF Tells
<1>3. ASSUME NEW n \in Item, Seen(n) = "merged" PROVE condition[n] = "merged"
  <2>1. Has(Of(n), n)
    BY <1>1, <1>3, NoLastRow
  <2>2. PICK r \in 1 .. Len(Of(n)) :
           Of(n)[r].number = n /\ LastRow(Of(n), n) = Of(n)[r].condition
    BY <1>1, <2>1, LastRowIsARow
  <2> QED
    BY <1>1, <1>3, <2>2 DEF Tells
<1> QED
  BY <1>2, <1>3

(* However many pages there are and whatever is updated between them, the  *)
(* snapshot has all that nobody touched, in its condition.                 *)
THEOREM UntouchedStaysSeen == SnapshotSpec => []UntouchedIsSeen
<1>1. SnapshotInvariant /\ [SnapshotNext]_snapshotVars => SnapshotInvariant'
  <2> SUFFICES ASSUME SnapshotInvariant, [SnapshotNext]_snapshotVars PROVE SnapshotInvariant'
    OBVIOUS
  <2>1. CASE ReadPage
    BY <2>1, PageKeepsInvariant
  <2>2. CASE Edit
    BY <2>2, EditKeepsInvariant
  <2>3. CASE UNCHANGED snapshotVars
    BY <2>3 DEF snapshotVars, SnapshotInvariant, SnapshotType
  <2> QED
    BY <2>1, <2>2, <2>3 DEF SnapshotNext
<1> QED
  BY <1>1, SnapshotBegins, TellingIsSeeing, PTL DEF SnapshotSpec

-----------------------------------------------------------------------------
(* The size of a packet that says its size.                                *)
LEMMA DigitsRecursion ==
    ASSUME NEW n \in Nat
    PROVE  \E f \in [0 .. n -> Nat] :
              /\ Digits(n) = f[n]
              /\ \A k \in 0 .. n : f[k] = IF k < 10 THEN 1 ELSE 1 + f[k \div 10]
<1> DEFINE Rec(f, m) == \A k \in 0 .. m : f[k] = IF k < 10 THEN 1 ELSE 1 + f[k \div 10]
           IsRec(f) == f = [k \in 0 .. n |-> IF k < 10 THEN 1 ELSE 1 + f[k \div 10]]
           T == {m \in 0 .. n : \E f \in [0 .. m -> Nat] : Rec(f, m)}
           of == CHOOSE f : IsRec(f)
<1>1. 0 \in T
  <2>1. [k \in 0 .. 0 |-> 1] \in [0 .. 0 -> Nat] /\ Rec([k \in 0 .. 0 |-> 1], 0)
    OBVIOUS
  <2> HIDE DEF Rec
  <2> QED
    BY <2>1
<1>2. ASSUME NEW m \in 1 .. n, m - 1 \in T PROVE m \in T
  <2>1. PICK f \in [0 .. m - 1 -> Nat] : Rec(f, m - 1)
    BY <1>2
  <2> DEFINE g == [k \in 0 .. m |-> IF k = m THEN IF m < 10 THEN 1 ELSE 1 + f[m \div 10] ELSE f[k]]
  <2>2. m >= 10 => m \div 10 \in 0 .. m - 1
    OBVIOUS
  <2>3. g \in [0 .. m -> Nat]
    BY <2>2
  <2>4. ASSUME NEW k \in 0 .. m PROVE g[k] = IF k < 10 THEN 1 ELSE 1 + g[k \div 10]
    <3>1. CASE k = m
      <4>1. m >= 10 => g[m \div 10] = f[m \div 10]
        BY <2>2
      <4> QED
        BY <3>1, <4>1
    <3>2. CASE k # m
      <4>1. k \in 0 .. m - 1 /\ (k >= 10 => k \div 10 \in 0 .. m - 1)
        BY <3>2
      <4>2. g[k] = f[k] /\ (k >= 10 => g[k \div 10] = f[k \div 10])
        BY <4>1
      <4>3. f[k] = IF k < 10 THEN 1 ELSE 1 + f[k \div 10]
        BY <2>1, <4>1
      <4> HIDE DEF g
      <4> QED
        BY <4>1, <4>2, <4>3
    <3> QED
      BY <3>1, <3>2
  <2>5. Rec(g, m)
    <3> HIDE DEF g
    <3> QED
      BY <2>4
  <2> HIDE DEF Rec, g
  <2> QED
    BY <2>3, <2>5
<1>3. n \in T
  <2> HIDE DEF T
  <2> QED
    BY <1>1, <1>2, ClosedSet
<1>4. PICK f \in [0 .. n -> Nat] : Rec(f, n)
  BY <1>3
<1>5. IsRec(f)
  <2>1. f = [k \in 0 .. n |-> f[k]]
    OBVIOUS
  <2> QED
    BY <1>4, <2>1
<1>6. IsRec(of)
  <2> HIDE DEF IsRec
  <2> QED
    BY <1>5
<1>7. \A k \in 0 .. n : of[k] = IF k < 10 THEN 1 ELSE 1 + of[k \div 10]
  <2> HIDE DEF of
  <2> QED
    BY <1>6
<1>10. of = [k \in 0 .. n |-> of[k]]
  <2> HIDE DEF of
  <2> QED
    BY <1>6
<1>8. of \in [0 .. n -> Nat]
  <2> DEFINE U == {m \in 0 .. n : \A k \in 0 .. m : of[k] \in Nat}
  <2> HIDE DEF of
  <2>1. 0 \in U
    BY <1>7
  <2>2. ASSUME NEW m \in 1 .. n, m - 1 \in U PROVE m \in U
    <3>1. m >= 10 => m \div 10 \in 0 .. m - 1
      OBVIOUS
    <3>2. of[m] = IF m < 10 THEN 1 ELSE 1 + of[m \div 10]
      BY <1>7
    <3>3. \A k \in 0 .. m - 1 : of[k] \in Nat
      BY <2>2
    <3>4. of[m] \in Nat
      BY <3>1, <3>2, <3>3
    <3> QED
      BY <3>3, <3>4
  <2>3. n \in U
    <3> HIDE DEF U
    <3>1. 0 .. n \subseteq U
      BY <2>1, <2>2, ClosedSet
    <3> QED
      BY <3>1
  <2> QED
    BY <1>10, <2>3
<1>9. Digits(n) = of[n]
  BY DEF Digits
<1> HIDE DEF of
<1> QED
  BY <1>7, <1>8, <1>9

(* The digits of a number of less than a million.                          *)
DigitTable(n) ==
    IF n < 10 THEN 1 ELSE IF n < 100 THEN 2 ELSE IF n < 1000 THEN 3
    ELSE IF n < 10000 THEN 4 ELSE IF n < 100000 THEN 5 ELSE 6

LEMMA DigitsAre ==
    ASSUME NEW n \in Nat
    PROVE  Digits(n) \in Nat /\ (n < 1000000 => Digits(n) = DigitTable(n))
<1>1. PICK f \in [0 .. n -> Nat] :
         /\ Digits(n) = f[n]
         /\ \A k \in 0 .. n : f[k] = IF k < 10 THEN 1 ELSE 1 + f[k \div 10]
  BY DigitsRecursion
<1>2. \A k \in 0 .. n : k < 10 => f[k] = 1
  BY <1>1
<1>3. \A k \in 0 .. n : k >= 10 => k \div 10 \in 0 .. n /\ f[k] = 1 + f[k \div 10]
  BY <1>1
<1>4. \A k \in 0 .. n : k >= 10 /\ k < 100 => f[k] = 2
  <2> SUFFICES ASSUME NEW k \in 0 .. n, k >= 10, k < 100 PROVE f[k] = 2
    OBVIOUS
  <2>1. k \div 10 >= 1 /\ k \div 10 < 10
    OBVIOUS
  <2>2. k \div 10 \in 0 .. n /\ f[k] = 1 + f[k \div 10]
    BY <1>3
  <2>3. f[k \div 10] = 1
    BY <1>2, <2>1, <2>2
  <2> QED
    BY <2>2, <2>3
<1>5. \A k \in 0 .. n : k >= 100 /\ k < 1000 => f[k] = 3
  <2> SUFFICES ASSUME NEW k \in 0 .. n, k >= 100, k < 1000 PROVE f[k] = 3
    OBVIOUS
  <2>1. k \div 10 >= 10 /\ k \div 10 < 100
    OBVIOUS
  <2>2. k \div 10 \in 0 .. n /\ f[k] = 1 + f[k \div 10]
    BY <1>3
  <2>3. f[k \div 10] = 2
    BY <1>4, <2>1, <2>2
  <2> QED
    BY <2>2, <2>3
<1>6. \A k \in 0 .. n : k >= 1000 /\ k < 10000 => f[k] = 4
  <2> SUFFICES ASSUME NEW k \in 0 .. n, k >= 1000, k < 10000 PROVE f[k] = 4
    OBVIOUS
  <2>1. k \div 10 >= 100 /\ k \div 10 < 1000
    OBVIOUS
  <2>2. k \div 10 \in 0 .. n /\ f[k] = 1 + f[k \div 10]
    BY <1>3
  <2>3. f[k \div 10] = 3
    BY <1>5, <2>1, <2>2
  <2> QED
    BY <2>2, <2>3
<1>7. \A k \in 0 .. n : k >= 10000 /\ k < 100000 => f[k] = 5
  <2> SUFFICES ASSUME NEW k \in 0 .. n, k >= 10000, k < 100000 PROVE f[k] = 5
    OBVIOUS
  <2>1. k \div 10 >= 1000 /\ k \div 10 < 10000
    OBVIOUS
  <2>2. k \div 10 \in 0 .. n /\ f[k] = 1 + f[k \div 10]
    BY <1>3
  <2>3. f[k \div 10] = 4
    BY <1>6, <2>1, <2>2
  <2> QED
    BY <2>2, <2>3
<1>8. \A k \in 0 .. n : k >= 100000 /\ k < 1000000 => f[k] = 6
  <2> SUFFICES ASSUME NEW k \in 0 .. n, k >= 100000, k < 1000000 PROVE f[k] = 6
    OBVIOUS
  <2>1. k \div 10 >= 10000 /\ k \div 10 < 100000
    OBVIOUS
  <2>2. k \div 10 \in 0 .. n /\ f[k] = 1 + f[k \div 10]
    BY <1>3
  <2>3. f[k \div 10] = 5
    BY <1>7, <2>1, <2>2
  <2> QED
    BY <2>2, <2>3
<1>9. f[n] \in Nat /\ n \in 0 .. n
  OBVIOUS
<1> QED
  BY <1>1, <1>2, <1>4, <1>5, <1>6, <1>7, <1>8, <1>9 DEF DigitTable

(* The size that goes into a packet that says it has b bytes.              *)
NextSize(w, b) == Serialized(w, b, Estimated(b), WarningsOf(b, Estimated(b)))

WarningWidth(b) == IF b > 204800 THEN 73 ELSE IF b > 200000 THEN 33 ELSE 0

LEMMA SizesAre ==
    ASSUME NEW b \in Nat
    PROVE  /\ Estimated(b) \in Nat
           /\ Width(WarningsOf(b, Estimated(b))) = WarningWidth(b)
<1>1. Estimated(b) \in Nat /\ (Estimated(b) > 50000 <=> b > 200000)
  BY DEF Estimated
<1> DEFINE t == Estimated(b)
<1> HIDE DEF t
<1>2. /\ "serialized_bytes_exceeds_target_bytes" \in WarningsOf(b, t) <=> b > 204800
      /\ "estimated_tokens_exceeds_target" \in WarningsOf(b, t) <=> t > 50000
      /\ WarningsOf(b, t) = Warnings <=> b > 204800 /\ t > 50000
  BY DEF WarningsOf, Warnings, TargetBytes, TargetTokens
<1> QED
  BY <1>1, <1>2 DEF Width, WarningWidth, t

LEMMA NextSizeIs ==
    ASSUME NEW w \in Nat, NEW b \in Nat
    PROVE  /\ NextSize(w, b) \in Nat /\ NextSize(w, b) >= w
           /\ b < 1000000 =>
                 NextSize(w, b) = w + DigitTable(b) + DigitTable(Estimated(b)) + WarningWidth(b)
<1>1. Estimated(b) \in Nat /\ (b < 1000000 => Estimated(b) < 1000000)
  BY DEF Estimated
<1>2. /\ Digits(b) \in Nat /\ Digits(Estimated(b)) \in Nat
      /\ b < 1000000 =>
            Digits(b) = DigitTable(b) /\ Digits(Estimated(b)) = DigitTable(Estimated(b))
  BY <1>1, DigitsAre
<1>3. WarningWidth(b) \in Nat /\ Width(WarningsOf(b, Estimated(b))) = WarningWidth(b)
  BY SizesAre DEF WarningWidth
<1> QED
  BY <1>2, <1>3 DEF NextSize, Serialized

(* How many of its parts have grown in a packet of b bytes.                *)
Growth(b) ==
    DigitTable(b) + DigitTable(Estimated(b))
      + (IF b > 200000 THEN 1 ELSE 0) + (IF b > 204800 THEN 1 ELSE 0)

LEMMA TableGrows ==
    ASSUME NEW b \in Nat, NEW c \in Nat, b <= c
    PROVE  /\ DigitTable(b) \in 1 .. 6 /\ DigitTable(b) <= DigitTable(c)
           /\ Estimated(b) <= Estimated(c)
BY DEF DigitTable, Estimated

LEMMA GrowthIsANumber == \A n \in Nat : Growth(n) \in Int
<1> SUFFICES ASSUME NEW n \in Nat PROVE Growth(n) \in Int
  OBVIOUS
<1>1. Estimated(n) \in Nat
  BY SizesAre
<1>2. DigitTable(n) \in 1 .. 6 /\ DigitTable(Estimated(n)) \in 1 .. 6
  BY <1>1, TableGrows
<1> QED
  BY <1>2 DEF Growth

(* A larger size makes a packet no smaller, and a larger packet has grown. *)
LEMMA SizesGrow ==
    ASSUME NEW w \in Nat, NEW b \in Nat, NEW c \in Nat, b <= c, c < 1000000
    PROVE  /\ NextSize(w, b) <= NextSize(w, c)
           /\ NextSize(w, b) < NextSize(w, c) => Growth(b) + 1 <= Growth(c)
<1>1. Estimated(b) \in Nat /\ Estimated(c) \in Nat
  BY SizesAre
<1>2. /\ NextSize(w, b) = w + DigitTable(b) + DigitTable(Estimated(b)) + WarningWidth(b)
      /\ NextSize(w, c) = w + DigitTable(c) + DigitTable(Estimated(c)) + WarningWidth(c)
  BY NextSizeIs
<1>3. /\ DigitTable(b) \in 1 .. 6 /\ DigitTable(c) \in 1 .. 6
      /\ DigitTable(b) <= DigitTable(c)
      /\ Estimated(b) <= Estimated(c)
  BY TableGrows
<1>4. /\ DigitTable(Estimated(b)) \in 1 .. 6 /\ DigitTable(Estimated(c)) \in 1 .. 6
      /\ DigitTable(Estimated(b)) <= DigitTable(Estimated(c))
  BY <1>1, <1>3, TableGrows
<1> QED
  BY <1>2, <1>3, <1>4 DEF Growth, WarningWidth

SmallEnough(w) == w \in Nat /\ w <= 307200

(* The sizes a packet can be given.                                        *)
Possible(w, b) == b \in Nat /\ w + 2 <= b /\ b <= w + 88

(* In the range of sizes a packet passes through, hardly anything grows.   *)
LEMMA LittleGrowth ==
    ASSUME NEW w, NEW b, SmallEnough(w), Possible(w, b)
    PROVE  Growth(b) <= Growth(w + 2) + 3
<1> DEFINE a == w + 2
<1>1. a \in Nat /\ b \in Nat /\ a <= b /\ b <= a + 86 /\ b < 1000000
  BY DEF SmallEnough, Possible
<1>2. DigitTable(b) <= DigitTable(a) + 1 /\ DigitTable(a) \in 1 .. 6 /\ DigitTable(b) \in 1 .. 6
  BY <1>1 DEF DigitTable
<1>3. Estimated(a) \in Nat /\ Estimated(b) \in Nat /\ Estimated(b) <= Estimated(a) + 22
  BY <1>1 DEF Estimated
<1>4. /\ DigitTable(Estimated(b)) <= DigitTable(Estimated(a)) + 1
      /\ DigitTable(Estimated(a)) \in 1 .. 6 /\ DigitTable(Estimated(b)) \in 1 .. 6
  BY <1>3 DEF DigitTable
<1> HIDE DEF a
<1> QED
  BY <1>1, <1>2, <1>4 DEF Growth, a

LEMMA SizeRange ==
    ASSUME NEW w, NEW b \in Nat, SmallEnough(w), b <= w + 88
    PROVE  Possible(w, NextSize(w, b))
<1>1. w \in Nat /\ b < 1000000 /\ Estimated(b) \in Nat
  BY SizesAre DEF SmallEnough
<1>2. NextSize(w, b) = w + DigitTable(b) + DigitTable(Estimated(b)) + WarningWidth(b)
  BY <1>1, NextSizeIs
<1>3. DigitTable(b) \in 1 .. 6 /\ DigitTable(Estimated(b)) \in 1 .. 6
  BY <1>1, TableGrows
<1> QED
  BY <1>1, <1>2, <1>3 DEF WarningWidth, Possible

-----------------------------------------------------------------------------
(* The loop.  Each attempt but the first two writes a larger size than the *)
(* one before only if something has grown between the two before it.       *)
Settling(w, k, b) ==
    \/ k = 0 /\ b = 0
    \/ k = 1 /\ b = w + 2
    \/ k = 2 /\ b = NextSize(w, w + 2)
    \/ /\ k >= 3
       /\ \E q \in Nat :
             /\ Possible(w, q) /\ q <= NextSize(w, q) /\ b = NextSize(w, NextSize(w, q))
             /\ k + Growth(w + 2) <= 3 + Growth(q)

LEMMA SettlingGoesOn ==
    ASSUME NEW w, NEW k \in Nat, NEW b \in Nat, SmallEnough(w), Settling(w, k, b)
    PROVE  /\ k <= 6 /\ NextSize(w, b) \in Nat
           /\ NextSize(w, b) # b => Settling(w, k + 1, NextSize(w, b))
           /\ k = 0 => NextSize(w, b) = w + 2
<1>1. w \in Nat /\ Possible(w, w + 2) /\ w + 88 < 1000000
  BY DEF SmallEnough, Possible
<1>2. NextSize(w, b) \in Nat
  BY <1>1, NextSizeIs
<1>3. CASE k = 0
  <2>1. b = 0
    BY <1>3 DEF Settling
  <2>2. NextSize(w, 0) = w + 2
    BY <1>1, NextSizeIs DEF DigitTable, Estimated, WarningWidth
  <2> QED
    BY <1>2, <1>3, <2>1, <2>2 DEF Settling
<1>4. CASE k = 1
  BY <1>2, <1>4 DEF Settling
<1>5. CASE k = 2
  <2>1. b = NextSize(w, w + 2) /\ w + 2 <= b
    <3>1. b = NextSize(w, w + 2)
      BY <1>5 DEF Settling
    <3>2. Possible(w, NextSize(w, w + 2))
      BY <1>1, SizeRange
    <3> QED
      BY <3>1, <3>2 DEF Possible
  <2>2. Settling(w, 3, NextSize(w, b))
    <3> DEFINE q == w + 2
    <3>1. q \in Nat /\ 3 + Growth(w + 2) <= 3 + Growth(q)
      BY <1>1, GrowthIsANumber
    <3>2. Possible(w, q) /\ q <= NextSize(w, q) /\ NextSize(w, b) = NextSize(w, NextSize(w, q))
      BY <1>1, <2>1
    <3> HIDE DEF q
    <3> QED
      BY <3>1, <3>2 DEF Settling
  <2> QED
    BY <1>2, <1>5, <2>2
<1>6. CASE k >= 3
  <2>1. PICK q \in Nat :
           /\ Possible(w, q) /\ q <= NextSize(w, q) /\ b = NextSize(w, NextSize(w, q))
           /\ k + Growth(w + 2) <= 3 + Growth(q)
    BY <1>6 DEF Settling
  <2> DEFINE p == NextSize(w, q)
  <2>2. Possible(w, p) /\ b = NextSize(w, p) /\ q <= p
    BY <1>1, <2>1, SizeRange DEF Possible
  <2>3. q \in Nat /\ p \in Nat /\ p < 1000000
    BY <1>1, <2>1, <2>2 DEF Possible
  <2> HIDE DEF p
  <2>4. Growth(w + 2) \in Int /\ Growth(q) \in Int /\ Growth(p) \in Int
    BY <1>1, <2>3, GrowthIsANumber
  <2>5. k <= 6
    <3>1. Growth(q) <= Growth(w + 2) + 3
      BY <2>1, LittleGrowth
    <3> QED
      BY <2>1, <2>4, <3>1
  <2>6. ASSUME NextSize(w, b) # b PROVE Settling(w, k + 1, NextSize(w, b))
    <3>1. p <= b /\ p # b
      <4>1. NextSize(w, q) <= NextSize(w, p)
        BY <1>1, <2>2, <2>3, SizesGrow
      <4> QED
        BY <2>2, <2>6, <4>1 DEF p
    <3>2. NextSize(w, q) < NextSize(w, p)
      BY <2>2, <2>3, <3>1 DEF p
    <3>3. Growth(q) + 1 <= Growth(p)
      BY <1>1, <2>2, <2>3, <3>2, SizesGrow
    <3>4. k + 1 + Growth(w + 2) <= 3 + Growth(p)
      BY <2>1, <2>4, <3>3
    <3>5. k + 1 >= 3 /\ p <= NextSize(w, p) /\ NextSize(w, b) = NextSize(w, NextSize(w, p))
      BY <1>6, <2>2, <3>1
    <3> QED
      BY <2>2, <2>3, <3>4, <3>5 DEF Settling
  <2> QED
    BY <1>2, <1>6, <2>5, <2>6
<1>7. k = 0 \/ k = 1 \/ k = 2 \/ k >= 3
  OBVIOUS
<1> QED
  BY <1>3, <1>4, <1>5, <1>6, <1>7

BudgetInvariant ==
    /\ weight \in Nat /\ bytes \in Nat /\ attempt \in Nat /\ finished \in BOOLEAN
    /\ tokens = Estimated(bytes) /\ warned = WarningsOf(bytes, tokens)
    /\ sealed = IF attempt = 0 THEN <<>> ELSE <<bytes, tokens, warned>>
    /\ attempt > 0 => bytes >= weight
    /\ finished => attempt > 0
    /\ weight <= HardBytes =>
          IF finished THEN bytes = NextSize(weight, bytes)
          ELSE Settling(weight, attempt, bytes)

LEMMA BudgetBegins == BudgetInit => BudgetInvariant
<1> SUFFICES ASSUME BudgetInit PROVE BudgetInvariant
  OBVIOUS
<1>1. Estimated(0) = 0 /\ WarningsOf(0, 0) = {}
  BY DEF Estimated, WarningsOf, TargetBytes, TargetTokens
<1>2. weight \in Nat /\ Settling(weight, attempt, bytes)
  BY BudgetAssumption DEF BudgetInit, Settling
<1>3. sealed = IF attempt = 0 THEN <<>> ELSE <<bytes, tokens, warned>>
  BY DEF BudgetInit
<1>4. /\ bytes = 0 /\ tokens = Estimated(bytes) /\ warned = WarningsOf(bytes, tokens)
      /\ attempt = 0 /\ ~finished /\ finished \in BOOLEAN
  <2>1. bytes = 0 /\ tokens = 0 /\ warned = {} /\ attempt = 0 /\ finished = FALSE
    BY DEF BudgetInit
  <2> QED
    BY <1>1, <2>1
<1> QED
  BY <1>2, <1>3, <1>4 DEF BudgetInvariant

LEMMA AttemptSettles ==
    ASSUME BudgetInvariant, Attempt
    PROVE  BudgetInvariant'
<1> DEFINE b == NextSize(weight, bytes)
<1>1. b = Serialized(weight, bytes, tokens, warned) /\ weight \in Nat /\ bytes \in Nat
  BY DEF BudgetInvariant, NextSize
<1>2. /\ ~finished /\ bytes' = b /\ tokens' = Estimated(b)
      /\ warned' = WarningsOf(b, Estimated(b))
      /\ attempt' = attempt + 1
      /\ finished' = (Fixpoint(b, Estimated(b), WarningsOf(b, Estimated(b)), sealed)
                         \/ attempt + 1 = MaxAttempts)
      /\ sealed' = <<b, Estimated(b), WarningsOf(b, Estimated(b))>>
      /\ weight' = weight
  BY <1>1 DEF Attempt
<1>3. b \in Nat /\ b >= weight
  BY <1>1, NextSizeIs
<1> HIDE DEF b
<1>4. Fixpoint(b, Estimated(b), WarningsOf(b, Estimated(b)), sealed)
        <=> attempt # 0 /\ b = bytes /\ b = NextSize(weight, b)
  <2>1. b = NextSize(weight, bytes)
    BY DEF b
  <2>2. CASE attempt = 0
    BY <2>2 DEF Fixpoint, BudgetInvariant
  <2>3. CASE attempt # 0
    <3>1. sealed = <<bytes, Estimated(bytes), WarningsOf(bytes, Estimated(bytes))>>
      BY <2>3 DEF BudgetInvariant
    <3>2. sealed = <<b, Estimated(b), WarningsOf(b, Estimated(b))>> <=> b = bytes
      BY <3>1
    <3> QED
      BY <2>3, <3>2 DEF Fixpoint, NextSize
  <2> QED
    BY <2>2, <2>3
<1>5. ASSUME weight <= HardBytes
      PROVE  IF finished' THEN b = NextSize(weight, b) ELSE Settling(weight, attempt + 1, b)
  <2>1. Settling(weight, attempt, bytes) /\ attempt \in Nat
    BY <1>2, <1>5 DEF BudgetInvariant
  <2>2. SmallEnough(weight)
    BY <1>1, <1>5 DEF SmallEnough, HardBytes
  <2>3. /\ attempt <= 6 /\ (b # bytes => Settling(weight, attempt + 1, b))
        /\ (attempt = 0 => b = weight + 2)
    BY <1>1, <2>1, <2>2, SettlingGoesOn DEF b
  <2>4. attempt + 1 # MaxAttempts
    BY <2>1, <2>3 DEF MaxAttempts
  <2>5. CASE b = bytes
    <3>1. attempt # 0
      BY <1>1, <2>1, <2>3, <2>5 DEF Settling
    <3>2. b = NextSize(weight, b)
      BY <2>5 DEF b
    <3> QED
      BY <1>2, <1>4, <2>5, <3>1, <3>2
  <2>6. CASE b # bytes
    BY <1>2, <1>4, <2>3, <2>4, <2>6
  <2> QED
    BY <2>5, <2>6
<1>6. finished' \in BOOLEAN
  BY <1>2
<1>7. attempt' \in Nat /\ attempt' > 0 /\ attempt' # 0
  BY <1>2 DEF BudgetInvariant
<1> QED
  BY <1>1, <1>2, <1>3, <1>5, <1>6, <1>7 DEF BudgetInvariant

LEMMA SettledIsExact == BudgetInvariant => BudgetIsExact
<1> SUFFICES ASSUME BudgetInvariant, finished, ~ (bytes > HardBytes)
             PROVE  BudgetIsAccepted
  BY DEF BudgetIsExact
<1>1. weight <= HardBytes /\ bytes <= HardBytes /\ attempt # 0
  BY DEF BudgetInvariant, HardBytes
<1>2. bytes = NextSize(weight, bytes)
  BY <1>1 DEF BudgetInvariant
<1> QED
  BY <1>1, <1>2 DEF BudgetInvariant, BudgetIsAccepted, NextSize

(* Of whatever size the rest of it is, a packet that is not too large says *)
(* its exact size and has the warnings that size deserves.                 *)
THEOREM BudgetStaysExact == BudgetSpec => []BudgetIsExact
<1>1. BudgetInvariant /\ [Attempt]_budgetVars => BudgetInvariant'
  <2> SUFFICES ASSUME BudgetInvariant, UNCHANGED budgetVars PROVE BudgetInvariant'
    BY AttemptSettles
  <2> QED
    BY DEF budgetVars, BudgetInvariant
<1> QED
  BY <1>1, BudgetBegins, SettledIsExact, PTL DEF BudgetSpec
=============================================================================
