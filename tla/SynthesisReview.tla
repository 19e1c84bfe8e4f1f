---------------------------- MODULE SynthesisReview --------------------------
(***************************************************************************)
(* The chain of files from a snapshot of the tracker to an accepted review *)
(* of the backlog (main of triage.py, validators of frontier.py).  Every   *)
(* command loads files one after the other, checks them against each other *)
(* and replaces one file, or refuses.  Shells run commands side by side on *)
(* one output directory; a shell that stops is one that was interrupted.   *)
(*                                                                         *)
(* An artifact names its sources by digest; a digest stands for the value  *)
(* it is of.  The digest of a snapshot leaves out when it was taken.       *)
(***************************************************************************)
EXTENDS Integers, Sequences

CONSTANTS
    Shell,
    WarningAge,   \* of the source of a packet: older ones carry a warning
    HardAge,      \* the largest --max-age-hours
    Ages,         \* values of --max-age-hours
    MaxCommands,  \* bound of the commands started and edits made
    MaxNow,       \* bound of the clock
    MaxVersion    \* bound of the changes to the tracker

ASSUME ReviewAssumption ==
    WarningAge \in Nat /\ HardAge \in Nat /\ Ages \subseteq Int /\ MaxNow \in Nat

VARIABLES
    file,      \* per kind: the artifact in the output directory
    shell,     \* per shell: its command and what it has loaded, or idle
    now,
    version,   \* of the tracker
    commands,  \* started, and edits made, so far
    result     \* last result of backlog-review-validate

reviewVars == <<file, shell, now, version, commands, result>>

None == [none |-> TRUE]
Idle == [cmd |-> "idle", read |-> <<>>]
Invalid == [valid |-> FALSE]

(* What a command loads, in this order.                                    *)
Inputs ==
    [snapshot |-> <<"tracker">>, audit |-> <<"snapshot">>, plan |-> <<"snapshot", "audit">>,
     report |-> <<"snapshot", "audit">>, packet |-> <<"snapshot", "audit", "report", "plan">>,
     verdict |-> <<"packet">>, validate |-> <<"packet", "verdict">>]
Commands == DOMAIN Inputs

(* --audit-file may be left out of backlog-synthesis, which then makes an  *)
(* audit of its own, and --project-plan of the packet.                     *)
Optional == {<<"report", "audit">>, <<"packet", "plan">>}

-----------------------------------------------------------------------------
SnapshotOf(v, t) == [content |-> v, at |-> t]
AuditOf(snapshot, scope, evidence) ==
    [snapshot |-> snapshot.content, scope |-> scope, evidence |-> evidence]
DerivedOf(snapshot, audit) ==
    [snapshot |-> snapshot.content, audit |-> audit, flaw |-> "none", sealed |-> TRUE]

(* What another program may put into a report or a plan: content or state  *)
(* of an issue, a request to GitHub, or a claim about itself that it must  *)
(* not make, in its safety block or by an id.                              *)
Flaws == {"content", "request", "claim"}

(* build_synthesis_review_packet_staleness                                 *)
Freshness(age, maxAge) ==
    CASE age <= WarningAge -> "fresh"
      [] age > WarningAge /\ age <= maxAge -> "warning"
      [] age > WarningAge /\ age > maxAge -> "stale"

PacketOf(snapshot, audit, report, plan, evaluated, maxAge) ==
    [snapshot |-> snapshot.content, audit |-> audit, report |-> report, plan |-> plan,
     age |-> evaluated - snapshot.at, maxAge |-> maxAge,
     status |-> Freshness(evaluated - snapshot.at, maxAge), sealed |-> TRUE]

(* What a reviewer makes of a packet, with at most one mistake: a warning  *)
(* not passed on, evidence cited that the packet does not have, something  *)
(* to execute, or items that do not hold together: two verdicts with one   *)
(* id, a recommendation that is not there, no verdict and no word why.     *)
Mistakes ==
    {"none", "drops-warning", "unknown-evidence", "executable", "incoherent-items"}

VerdictOf(packet, mistake) ==
    [packet |-> packet, snapshot |-> packet.snapshot, audit |-> packet.audit,
     report |-> packet.report, status |-> packet.status, mistake |-> mistake, sealed |-> TRUE]

ReviewInit ==
    LET s == SnapshotOf(0, 0)
        a == AuditOf(s, "all", "none")
        d == DerivedOf(s, a)
        p == PacketOf(s, a, d, d, 0, HardAge)
    IN  /\ file = [snapshot |-> s, audit |-> a, plan |-> d, report |-> d, packet |-> p,
                   verdict |-> VerdictOf(p, "none")]
        /\ shell = [h \in Shell |-> Idle]
        /\ now = 0 /\ version = 0 /\ commands = 0
        /\ result = Invalid

-----------------------------------------------------------------------------
(* Checks.                                                                 *)
(* validate_readiness_audit, require_full_audit_coverage                   *)
AuditMatches(audit, snapshot) == audit.snapshot = snapshot.content

CoversAll(audit) == audit.scope = "all"

(* validate_synthesis_review_packet_sources                                *)
(* Mutant.  The report need not be of this audit.                          *)
SourcesOfSnapshot(snapshot, audit, report, plan) ==
    /\ report.snapshot = snapshot.content
    /\ plan # None => plan.snapshot = snapshot.content /\ plan.audit = audit

SourcesMatch(snapshot, audit, report, plan) ==
    /\ report.snapshot = snapshot.content /\ report.audit = audit
    /\ plan # None => plan.snapshot = snapshot.content /\ plan.audit = audit

(* The shapes of a plan: a request in it is not looked for.                *)
PlanShapeIsSound(plan) == plan.flaw \notin {"content", "claim"}

(* The shapes of a report, and what a read-only artifact may not hold.     *)
SignalsAreSound(report) == report.flaw # "content"
IsReadOnly(report) == report.flaw \notin {"content", "request"}
ClaimsAreSound(report) == report.flaw # "claim"

(* ProjectPlanValidator, BacklogSynthesisReportValidator                   *)
PlanIsValid(plan) == plan # None => plan.sealed /\ PlanShapeIsSound(plan)
ReportIsValid(report) ==
    /\ report.sealed /\ IsReadOnly(report)
    /\ SignalsAreSound(report) /\ ClaimsAreSound(report)

(* SynthesisReviewPacketStalenessShape                                     *)
AgesAreSound(packet) ==
    packet.age >= 0 /\ packet.maxAge <= HardAge /\ WarningAge <= packet.maxAge
StatusIsHonest(packet) == packet.status = Freshness(packet.age, packet.maxAge)

(* SynthesisReviewPacketValidator                                          *)
PacketIsValid(packet, allowStale) ==
    /\ packet.sealed
    /\ AgesAreSound(packet) /\ StatusIsHonest(packet)
    /\ packet.status = "stale" => allowStale

(* _validate_verdict_executable_shape                                      *)
IsAdvisory(verdict) == verdict.mistake # "executable"

ItemsAreSound(verdict) == verdict.mistake # "incoherent-items"

(* _verdict_preserves_warnings                                             *)
KeepsWarning(verdict) == verdict.mistake # "drops-warning"

(* BacklogReviewVerdictValidator                                           *)
VerdictIsValid(verdict) ==
    /\ verdict.sealed
    /\ IsAdvisory(verdict) /\ ItemsAreSound(verdict)
    /\ verdict.status # "stale"
    /\ verdict.status = "warning" => KeepsWarning(verdict)

CitesPacket(verdict, packet) == verdict.mistake # "unknown-evidence"

(* BacklogReviewVerdictPacketValidator                                     *)
VerdictIsOf(verdict, packet) ==
    /\ verdict.packet = packet
    /\ verdict.snapshot = packet.snapshot /\ verdict.audit = packet.audit
    /\ verdict.report = packet.report
    /\ CitesPacket(verdict, packet)
    /\ verdict.status = packet.status
    /\ packet.status # "stale"
    /\ packet.status = "warning" => KeepsWarning(verdict)

-----------------------------------------------------------------------------
Start(h) ==
    /\ shell[h] = Idle /\ commands < MaxCommands
    /\ commands' = commands + 1
    /\ \E c \in Commands : shell' = [shell EXCEPT ![h] = [cmd |-> c, read |-> <<>>]]
    /\ UNCHANGED <<file, now, version, result>>

Loading(h) == shell[h] # Idle /\ Len(shell[h].read) < Len(Inputs[shell[h].cmd])

Load(h) ==
    /\ Loading(h)
    /\ LET c == shell[h].cmd
           kind == Inputs[c][Len(shell[h].read) + 1]
       IN  \/ shell' = [shell EXCEPT ![h].read =
                  Append(@, IF kind = "tracker" THEN version ELSE file[kind])]
           \/ <<c, kind>> \in Optional /\ shell' = [shell EXCEPT ![h].read = Append(@, None)]
    /\ UNCHANGED <<file, now, version, commands, result>>

Ends(h, c) ==
    /\ shell[h].cmd = c /\ ~Loading(h)
    /\ shell' = [shell EXCEPT ![h] = Idle]
    /\ UNCHANGED <<now, version, commands>>

Writes(kind, artifact) == file' = [file EXCEPT ![kind] = artifact] /\ UNCHANGED result

(* What cannot be used is refused, and no file is changed.                 *)
Refuses(allowed) == ~allowed /\ UNCHANGED <<file, result>>

(* generated_at is read when all pages are in.                             *)
TakeSnapshot(h) ==
    /\ Ends(h, "snapshot")
    /\ Writes("snapshot", SnapshotOf(shell[h].read[1], now))

MakeAudit(h) ==
    /\ Ends(h, "audit")
    /\ \E scope \in {"all", "some"}, e \in {"none", "given"} :
          Writes("audit", AuditOf(shell[h].read[1], scope, e))

MakePlan(h) ==
    /\ Ends(h, "plan")
    /\ LET s == shell[h].read[1]
           a == shell[h].read[2]
           allowed == AuditMatches(a, s) /\ CoversAll(a)
       IN  (allowed /\ Writes("plan", DerivedOf(s, a))) \/ Refuses(allowed)

MakeReport(h) ==
    /\ Ends(h, "report")
    /\ \E e \in {"none", "given"} :
          LET s == shell[h].read[1]
              a == IF shell[h].read[2] = None THEN AuditOf(s, "all", e) ELSE shell[h].read[2]
              allowed == AuditMatches(a, s) /\ CoversAll(a)
          IN  (allowed /\ Writes("report", DerivedOf(s, a))) \/ Refuses(allowed)

(* --evaluated-at may name an earlier moment.                              *)
MakePacket(h) ==
    /\ Ends(h, "packet")
    /\ \E maxAge \in Ages, evaluated \in {0, now}, allowStale \in BOOLEAN :
          LET s == shell[h].read[1]
              a == shell[h].read[2]
              r == shell[h].read[3]
              plan == shell[h].read[4]
              p == PacketOf(s, a, r, plan, evaluated, maxAge)
              allowed ==
                  /\ 0 < maxAge /\ WarningAge <= maxAge /\ maxAge <= HardAge
                  /\ AuditMatches(a, s) /\ CoversAll(a)
                  /\ ReportIsValid(r) /\ PlanIsValid(plan) /\ SourcesMatch(s, a, r, plan)
                  /\ PacketIsValid(p, allowStale)
          IN  (allowed /\ Writes("packet", p)) \/ Refuses(allowed)

WriteVerdict(h) ==
    /\ Ends(h, "verdict")
    /\ \E mistake \in Mistakes : Writes("verdict", VerdictOf(shell[h].read[1], mistake))

Validate(h) ==
    /\ Ends(h, "validate")
    /\ LET p == shell[h].read[1]
           v == shell[h].read[2]
       IN  result' = IF PacketIsValid(p, FALSE) /\ VerdictIsValid(v) /\ VerdictIsOf(v, p)
                     THEN [valid |-> TRUE, packet |-> p, verdict |-> v]
                     ELSE Invalid
    /\ UNCHANGED file

-----------------------------------------------------------------------------
(* Somebody calls a packet, or its review, fresh in an editor, or writes   *)
(* the digests of the present sources into an old report or plan.          *)
EditByHand ==
    /\ commands < MaxCommands /\ commands' = commands + 1
    /\ \/ \E kind \in {"packet", "verdict"} :
             /\ file[kind].status # "fresh"
             /\ file' = [file EXCEPT ![kind].status = "fresh", ![kind].sealed = FALSE]
       \/ \E kind \in {"report", "plan"} :
             LET current == DerivedOf(file["snapshot"], file["audit"]) IN
             /\ [file[kind] EXCEPT !.sealed = TRUE] # current
             /\ file' = [file EXCEPT ![kind] = [current EXCEPT !.sealed = FALSE]]
    /\ UNCHANGED <<shell, now, version, result>>

(* A report or a plan comes from another program: the digests are right,   *)
(* what it says is not.                                                    *)
ComesFromElsewhere ==
    /\ commands < MaxCommands /\ commands' = commands + 1
    /\ \E kind \in {"report", "plan"}, flaw \in Flaws :
          file' = [file EXCEPT ![kind] =
                      [DerivedOf(file["snapshot"], file["audit"]) EXCEPT !.flaw = flaw]]
    /\ UNCHANGED <<shell, now, version, result>>

TimePasses ==
    /\ now < MaxNow /\ now' = now + 1
    /\ UNCHANGED <<file, shell, version, commands, result>>

TrackerChanges ==
    /\ version < MaxVersion /\ version' = version + 1
    /\ UNCHANGED <<file, shell, now, commands, result>>

ReviewNext ==
    \/ \E h \in Shell :
          \/ Start(h) \/ Load(h)
          \/ TakeSnapshot(h) \/ MakeAudit(h) \/ MakePlan(h) \/ MakeReport(h)
          \/ MakePacket(h) \/ WriteVerdict(h) \/ Validate(h)
    \/ EditByHand \/ ComesFromElsewhere \/ TimePasses \/ TrackerChanges

ReviewSpec == ReviewInit /\ [][ReviewNext]_reviewVars

-----------------------------------------------------------------------------
(* However the commands of several shells mix, an accepted review is about *)
(* the packet it was validated with, everything in that packet comes from  *)
(* one audit of the whole of one snapshot, the snapshot was young enough   *)
(* when the packet was built, and if it was no longer fresh, the review    *)
(* says so.  No mistake of the reviewer's that matters gets through, and   *)
(* nothing in the report that is more than advice.                         *)
AcceptedReviewIsCoherent ==
    result.valid =>
        LET p == result.packet IN
        /\ result.verdict.packet = p
        /\ result.verdict.mistake \in {"none", "drops-warning"}
        /\ p.audit.snapshot = p.snapshot /\ p.audit.scope = "all"
        /\ \A d \in {p.report, p.plan} \ {None} :
              d.snapshot = p.snapshot /\ d.audit = p.audit /\ d.sealed
        /\ p.report.flaw = "none" /\ (p.plan # None => p.plan.flaw \notin {"content", "claim"})
        /\ 0 <= p.age /\ p.age <= p.maxAge /\ p.maxAge <= HardAge
        /\ p.age > WarningAge => result.verdict.mistake = "none"
=============================================================================
