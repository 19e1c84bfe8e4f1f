------------------------------ MODULE Pipeline ------------------------------
(***************************************************************************)
(* One run of `dbt-diagnostics diagnose`, from the artifacts to the exit   *)
(* status a CI job looks at: cmd_diagnose, _diagnose_all and _try_enrich   *)
(* of main.py, the dispatch to the classifiers, and the grouping of the    *)
(* reports that the renderer shows.                                        *)
(*                                                                         *)
(* Abstracted: a message is the set of classifiers whose patterns are in   *)
(* it; a report has a class, a schema and the reports it follows from.     *)
(* Catalog and previous manifest, which are read when they can be, add     *)
(* text only.  An entry of run_results.json is a mapping with values of    *)
(* the types that dbt gives them, or junk.  What the live queries find is  *)
(* modelled in Lineage and RootCause: here they are asked or not, and may  *)
(* fail where nothing catches it.                                          *)
(***************************************************************************)
EXTENDS Integers, Sequences, FiniteSets, Selection

CONSTANTS
    MaxResults,  \* entries of run_results.json
    Messages,    \* sets of classes, see above
    Schemas,     \* DB.SCHEMA prefixes
    Parents      \* of each node, in the manifest

ASSUME PipelineAssumption ==
    /\ MaxResults \in Nat
    /\ Parents \in [1..MaxResults -> SUBSET (1..MaxResults)]
    /\ \A n \in 1..MaxResults : \A p \in Parents[n] : p < n

VARIABLES
    results,     \* the artifacts: whether they can be read, what JSON value the
                 \* manifest is, and entries of run_results.json
    options,     \* --no-live and --no-fail
    step,
    reports,     \* DiagnosticReports, in order
    connection,  \* to Snowflake: "none", "unusable" for want of a profile that can
                 \* be read, "open", "closed", or "broken" and closed
    enriched,    \* reports that have been enriched
    grouped,     \* sets of reports shown as groups
    single,      \* reports shown one by one
    exit         \* the status, or Running

pipelineVars ==
    <<results, options, step, reports, connection, enriched, grouped, single, exit>>

NoId == 0          \* no unique_id: the report is called "unknown"
NoSchema == "none"
Running == -1
Nodes == 1..MaxResults

(* Entry n of the list: no mapping, of no interest, or made a report of.   *)
(* `seeks` is the parent whose relation the message misses.                *)
Entries(n) ==
    LET Entry(status, ids, messages, schemas, seeks) ==
            [status : {status}, id : ids, message : messages, schema : schemas, seeks : seeks]
        any == Schemas \cup {NoSchema}
    IN  Entry("junk", {NoId}, {{}}, {NoSchema}, {NoId})
        \cup Entry("other", {n}, {{}}, {NoSchema}, {NoId})
        \cup Entry("fail", {n}, {{}}, any, {NoId})
        \cup Entry("error", {n, NoId}, Messages, any, {NoId})
        \cup Entry("error", {n}, {m \in Messages : "runtime_error" \in m}, any, Parents[n])

Artifacts ==
    [read : {"absent", "corrupt", "shapeless"}, manifest : {"mapping", "other"},
     entries : {<<>>}]
    \cup [read : {"list"}, manifest : {"mapping", "other"},
          entries : UNION {{s \in [1..k -> UNION {Entries(n) : n \in 1..k}] :
                               \A n \in 1..k : s[n] \in Entries(n)} : k \in 0..MaxResults}]

PipelineInit ==
    /\ results \in Artifacts
    /\ options \in [noLive : BOOLEAN, noFail : BOOLEAN]
    /\ step = "load" /\ reports = <<>> /\ connection = "none" /\ enriched = 0
    /\ grouped = {} /\ single = {} /\ exit = Running

-----------------------------------------------------------------------------
Entry(i) == results.entries[i]
ParentsOf(id) == IF id \in Nodes THEN Parents[id] ELSE {}

(* The first class of the registry that matches.  The runtime classifier   *)
(* hands over to schema_change, which matches nothing, when the column     *)
(* that is invalid is declared upstream.                                   *)
Registry == <<"contract_violation", "compilation_error", "timeout_error", "data_error",
              "schema_change_error", "runtime_error">>
Matching(message) == message \ {"schema_change_error"}
Delegated(class, message) ==
    IF class = "runtime_error" /\ "schema_change_error" \in message
    THEN "schema_change_error" ELSE class

ClassOf(message) ==
    LET matching == Those(Registry, Matching(message))
    IN  IF matching = <<>> THEN "unknown" ELSE Delegated(Head(matching), message)

(* Looking for an id among the results stops where it is found, and raises *)
(* at an entry that is no mapping: _find_result, _get_run_status.          *)
LookupRaises(id) ==
    \E k \in DOMAIN results.entries :
        /\ Entry(k).status = "junk"
        /\ \A j \in 1..(k - 1) : id = NoId \/ Entry(j).id # id

(* The ids whose run status a classifier looks up: the failed node and its *)
(* parents for the trail of a data error, or the parent whose relation the *)
(* message misses.                                                         *)
TrailOfDataError(i) == {Entry(i).id} \cup ParentsOf(Entry(i).id)
ParentSought(i) == {Entry(i).seeks} \ {NoId}
LookedUp(i) ==
    CASE ClassOf(Entry(i).message) = "data_error" -> TrailOfDataError(i)
      [] ClassOf(Entry(i).message) = "runtime_error" -> ParentSought(i)
      [] OTHER -> {}

With(status) == {i \in DOMAIN results.entries : Entry(i).status = status}

Having(status) == Those([i \in 1 .. Len(results.entries) |-> i], With(status))

(* The note names the direct parents that failed too.                      *)
Cascade(id, failed) == ParentsOf(id) \cap failed

(* Errors come first, whatever their order in the artifact.                *)
Reported ==
    LET rows == Having("error") \o Having("fail")
        ids == {Entry(rows[r]).id : r \in DOMAIN rows}
    IN  [r \in DOMAIN rows |->
            [result |-> rows[r],
             class |-> IF Entry(rows[r]).status = "fail" THEN "test_failure"
                       ELSE ClassOf(Entry(rows[r]).message),
             cascade |-> Cascade(Entry(rows[r]).id, ids)]]

(* The end with nothing shown: a note on an artifact, or a traceback.      *)
EndWith(link) ==
    /\ step' = "ended" /\ exit' = 1 /\ connection' = link
    /\ UNCHANGED <<results, options, reports, enriched, grouped, single>>

Load ==
    /\ step = "load"
    /\ IF results.read \in {"absent", "corrupt"} THEN EndWith(connection)
       ELSE /\ step' = "diagnose"
            /\ UNCHANGED <<results, options, reports, connection, enriched, grouped, single,
                           exit>>

DiagnoseAll ==
    /\ step = "diagnose"
    /\ IF \/ results.manifest = "other"
          \/ \E i \in With("error") : \E id \in LookedUp(i) : LookupRaises(id)
       THEN EndWith(connection)
       ELSE /\ reports' = Reported
            /\ step' = IF options.noLive THEN "show" ELSE "connect"
            /\ UNCHANGED <<results, options, connection, enriched, grouped, single, exit>>

(* No connector, no profile, no answer: the diagnosis goes on offline.     *)
(* Of what reading the profile raises, only a ValueError is caught.        *)
TryConnect ==
    /\ step = "connect"
    /\ \/ /\ \/ connection' = "open" /\ step' = "enrich"
             \/ UNCHANGED connection /\ step' = "show"
          /\ UNCHANGED <<results, options, reports, enriched, grouped, single, exit>>
       \/ EndWith("unusable")

(* The classes whose findings are enriched by queries of their own.  A     *)
(* cursor that is refused, as of a connection lost meanwhile, is caught    *)
(* nowhere; the connection is closed in `finally`.                         *)
Queried == {"contract_violation", "runtime_error"}

EnrichNext ==
    /\ step = "enrich" /\ enriched < Len(reports)
    /\ LET report == reports[enriched + 1]
       IN  IF LookupRaises(Entry(report.result).id) THEN EndWith("closed")
           ELSE \/ /\ enriched' = enriched + 1
                   /\ UNCHANGED <<results, options, step, reports, connection, grouped,
                                  single, exit>>
                \/ report.class \in Queried /\ EndWith("broken")

EnrichmentEnds ==
    /\ step = "enrich" /\ enriched = Len(reports)
    /\ step' = "show" /\ connection' = "closed"
    /\ UNCHANGED <<results, options, reports, enriched, grouped, single, exit>>

-----------------------------------------------------------------------------
Key(r) == <<reports[r].class, Entry(reports[r].result).schema>>
Alike(r) == {q \in DOMAIN reports : Key(q) = Key(r)}
Keyed == {r \in DOMAIN reports : Entry(reports[r].result).schema # NoSchema}

ReportGroups == {Alike(r) : r \in {q \in Keyed : Cardinality(Alike(q)) >= 2}}

(* Mutant.  Reports with a key of their own are forgotten.                 *)
WithoutKey == DOMAIN reports \ Keyed

Ungrouped == (DOMAIN reports \ Keyed) \cup {r \in Keyed : Cardinality(Alike(r)) < 2}

Text == grouped' = ReportGroups /\ single' = Ungrouped
Document == grouped' = {} /\ single' = DOMAIN reports

(* The output, and the status for CI.                                      *)
Show ==
    /\ step = "show"
    /\ Text \/ Document
    /\ step' = "ended"
    /\ exit' = IF reports # <<>> /\ ~options.noFail THEN 1 ELSE 0
    /\ UNCHANGED <<results, options, reports, connection, enriched>>

PipelineNext == Load \/ DiagnoseAll \/ TryConnect \/ EnrichNext \/ EnrichmentEnds \/ Show

PipelineSpec == PipelineInit /\ [][PipelineNext]_pipelineVars

-----------------------------------------------------------------------------
Failing == With("error") \cup With("fail")
Shown == (UNION grouped) \cup single

(* A junk entry stands before an entry that has to be looked for: that of  *)
(* a failed node, or of a parent of one.                                   *)
JunkInTheWay ==
    \E i \in Failing : \E id \in {Entry(i).id} \cup ParentsOf(Entry(i).id) : LookupRaises(id)

(* A diagnosis is all or nothing, and only what is named here costs the    *)
(* reader all of it.  When anything is shown, or the status is 0, every    *)
(* failure of the dbt run is shown once, and one of them follows from no   *)
(* other.  Nothing is shown of a run that ends with 1 only if an artifact  *)
(* cannot be read or the manifest is no mapping, or a junk entry stands in *)
(* the way, or, never with --no-live, the profile cannot be read or a      *)
(* query is refused.  Without --no-fail the status is 0 for clean runs     *)
(* only, and a clean run gets another only from such a profile.  And no    *)
(* connection stays open.                                                  *)
NoFailureGetsLost ==
    step = "ended" =>
        LET readable == /\ results.read \in {"shapeless", "list"}
                        /\ results.manifest = "mapping"
            clean == readable /\ Failing = {}
            live(troubles) == ~options.noLive /\ connection \in troubles
        IN  /\ exit = 0 \/ Shown # {} =>
                   /\ {reports[r].result : r \in Shown} = Failing
                   /\ \A r \in DOMAIN reports :
                          Cardinality({g \in grouped \cup {single} : r \in g}) = 1
                   /\ Shown # {} => \E r \in Shown : reports[r].cascade = {}
            /\ exit # 0 /\ Shown = {} =>
                   ~readable \/ JunkInTheWay \/ live({"unusable", "broken"})
            /\ exit = 0 => clean \/ options.noFail
            /\ clean => exit = 0 \/ live({"unusable"})
            /\ connection # "open"
=============================================================================
