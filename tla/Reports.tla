------------------------------- MODULE Reports -------------------------------
(***************************************************************************)
(* The event facts, usage metrics and search records of analytics-service, *)
(* and the reports made of them.  A report is a series of queries without  *)
(* a transaction around them, each of which sees what is committed by      *)
(* then.                                                                   *)
(*                                                                         *)
(* A figure of a report is represented by the rows it is counted from: two *)
(* figures agree if they are of the same rows.  Rows are those of the      *)
(* names, types and times that a report is about; a row of no institution  *)
(* is a row of an institution that no report is of.                        *)
(***************************************************************************)
EXTENDS Naturals, Sequences, FiniteSets

CONSTANTS
    Fact,          \* events that may be ingested
    Metric,        \* usage metrics that may be created
    Resource,      \* resources, of the type a report is of, that may be indexed
    Institution,
    Snapshot,      \* rows of report_snapshots, each made by one request
    MaxWrites      \* bound on the writes of search records

\* Rows of different tables are different.
ASSUME ReportsAssumption ==
    /\ MaxWrites \in Nat
    /\ Fact \cap Metric = {}
    /\ (Fact \cup Metric) \cap (Resource \X [institution : Institution, status : {"active", "other"}]) = {}

VARIABLES
    facts,         \* the event facts, with the institution of each
    metrics,       \* the usage metrics, with the institution of each
    indexed,       \* the search records, by resource
    snapshot,      \* the snapshots, and the requests that make them
    writes

reportTables == <<facts, metrics, indexed>>
reportVars == <<reportTables, snapshot, writes>>

ResourceStatus == {"active", "other"}
Record == [institution : Institution, status : ResourceStatus]

ReportType ==
    {"active_users", "enrollments", "completion_rates", "assessment_results", "system_usage"}

\* Mutation of Queries: a usage report counts its rows before it lists them.
CountFirstQueries ==
    [active_users       |-> <<"active", "indexed", "events", "by_status">>,
     enrollments        |-> <<"indexed", "events", "by_status">>,
     completion_rates   |-> <<"average", "metrics", "events">>,
     assessment_results |-> <<"average", "metrics", "indexed", "by_status">>,
     system_usage       |-> <<"metrics", "events", "by_name", "by_type">>]

\* The figures of each report, in the order in which they are queried.
Queries ==
    [active_users       |-> <<"active", "indexed", "events", "by_status">>,
     enrollments        |-> <<"indexed", "events", "by_status">>,
     completion_rates   |-> <<"average", "metrics", "events">>,
     assessment_results |-> <<"average", "metrics", "indexed", "by_status">>,
     system_usage       |-> <<"by_name", "by_type", "metrics", "events">>]

\* A report is of an institution, or of all.
Within(scope, i) == scope \in {"all", i}

FactRows(scope) == {e \in DOMAIN facts : Within(scope, facts[e])}

MetricRows(scope) == {m \in DOMAIN metrics : Within(scope, metrics[m])}

IndexRows(scope) ==
    {r \in Resource \X Record :
        r[1] \in DOMAIN indexed /\ indexed[r[1]] = r[2] /\ Within(scope, r[2].institution)}

Active(rows) == {r \in rows : r[2].status = "active"}

\* The rows a figure is counted from.
FigureRows(figure, scope) ==
    CASE figure = "active" -> Active(IndexRows(scope))
      [] figure \in {"indexed", "by_status"} -> IndexRows(scope)
      [] figure \in {"average", "metrics", "by_name"} -> MetricRows(scope)
      [] figure \in {"events", "by_type"} -> FactRows(scope)

AnyRow == Fact \cup Metric \cup (Resource \X Record)

\* moved says whether a row was written between the first query and the last: history.
ReportSnapshot ==
    [type : ReportType, scope : Institution \cup {"all"}, figures : Seq(SUBSET AnyRow),
     stored : BOOLEAN, moved : BOOLEAN]
Unbegun == [type |-> "none"]

ReportsTypeOK ==
    /\ DOMAIN facts \subseteq Fact /\ \A e \in DOMAIN facts : facts[e] \in Institution
    /\ DOMAIN metrics \subseteq Metric /\ \A m \in DOMAIN metrics : metrics[m] \in Institution
    /\ DOMAIN indexed \subseteq Resource /\ \A r \in DOMAIN indexed : indexed[r] \in Record
    /\ snapshot \in [Snapshot -> ReportSnapshot \cup {Unbegun}]
    /\ writes \in 0 .. MaxWrites

\* A service without seed data has no rows; the seed data have one in each table,
\* of one institution, and the learner that they index has no status.
ReportsInit ==
    /\ \/ facts = <<>> /\ metrics = <<>> /\ indexed = <<>>
       \/ \E e \in Fact, m \in Metric, r \in Resource, i \in Institution :
             /\ facts = [x \in {e} |-> i] /\ metrics = [x \in {m} |-> i]
             /\ indexed = [x \in {r} |-> [institution |-> i, status |-> "other"]]
    /\ snapshot = [n \in Snapshot |-> Unbegun]
    /\ writes = 0

-----------------------------------------------------------------------------
(* The tables *)

\* A request that is querying.
Making(n) == snapshot[n] # Unbegun /\ ~snapshot[n].stored

\* A row is written while reports are being made.
Move ==
    snapshot' = [n \in Snapshot |->
        IF Making(n) /\ Len(snapshot[n].figures) \in 1 .. Len(Queries[snapshot[n].type]) - 1
        THEN [snapshot[n] EXCEPT !.moved = TRUE] ELSE snapshot[n]]

Store(f, k, v) == [x \in DOMAIN f \cup {k} |-> IF x = k THEN v ELSE f[x]]

\* ingest_event: get_or_create on the unique event_id.
IngestFact(e, i) ==
    /\ e \notin DOMAIN facts
    /\ facts' = Store(facts, e, i)
    /\ Move
    /\ UNCHANGED <<metrics, indexed, writes>>

\* create_usage_metric
CreateMetric(m, i) ==
    /\ m \notin DOMAIN metrics
    /\ metrics' = Store(metrics, m, i)
    /\ Move
    /\ UNCHANGED <<facts, indexed, writes>>

\* upsert_search_index_record
IndexResource(r, record) ==
    /\ writes < MaxWrites /\ writes' = writes + 1
    /\ indexed' = Store(indexed, r, record)
    /\ Move
    /\ UNCHANGED <<facts, metrics>>

\* delete_search_index_record
DropResource(r) ==
    /\ r \in DOMAIN indexed
    /\ writes < MaxWrites /\ writes' = writes + 1
    /\ indexed' = [q \in DOMAIN indexed \ {r} |-> indexed[q]]
    /\ Move
    /\ UNCHANGED <<facts, metrics>>

-----------------------------------------------------------------------------
(* generate_report_snapshot *)

BeginReport(n, type, scope) ==
    /\ snapshot[n] = Unbegun
    /\ snapshot' = [snapshot EXCEPT ![n] =
          [type |-> type, scope |-> scope, figures |-> <<>>, stored |-> FALSE, moved |-> FALSE]]
    /\ UNCHANGED <<reportTables, writes>>

\* The next query, which sees all that is committed.
QueryFigure(n) ==
    LET x == snapshot[n] IN
    /\ Making(n)
    /\ Len(x.figures) < Len(Queries[x.type])
    /\ snapshot' = [snapshot EXCEPT ![n].figures =
          Append(@, FigureRows(Queries[x.type][Len(@) + 1], x.scope))]
    /\ UNCHANGED <<reportTables, writes>>

StoreReport(n) ==
    /\ Making(n)
    /\ Len(snapshot[n].figures) = Len(Queries[snapshot[n].type])
    /\ snapshot' = [snapshot EXCEPT ![n].stored = TRUE]
    /\ UNCHANGED <<reportTables, writes>>

\* create_report_snapshot: the client gives the result.
PostReport(n, type, scope) ==
    /\ snapshot[n] = Unbegun
    /\ snapshot' = [snapshot EXCEPT ![n] =
          [type |-> type, scope |-> scope, figures |-> <<>>, stored |-> TRUE, moved |-> FALSE]]
    /\ UNCHANGED <<reportTables, writes>>

FailReport(n) ==
    /\ Making(n)
    /\ snapshot' = [snapshot EXCEPT ![n] = Unbegun]
    /\ UNCHANGED <<reportTables, writes>>

ReportsNext ==
    \/ \E i \in Institution :
        (\E e \in Fact : IngestFact(e, i)) \/ (\E m \in Metric : CreateMetric(m, i))
    \/ \E r \in Resource : DropResource(r) \/ (\E x \in Record : IndexResource(r, x))
    \/ \E n \in Snapshot :
        \/ \E type \in ReportType, scope \in Institution \cup {"all"} :
              PostReport(n, type, scope) \/ BeginReport(n, type, scope)
        \/ QueryFigure(n) \/ StoreReport(n) \/ FailReport(n)

-----------------------------------------------------------------------------
(* Properties *)

\* The snapshots that were generated, and their figures by name.
Generated == {n \in Snapshot : snapshot[n] # Unbegun /\ snapshot[n].stored /\ snapshot[n].figures # <<>>}
Place(n, name) == {k \in DOMAIN snapshot[n].figures : Queries[snapshot[n].type][k] = name}
Figure(n, name) == UNION {snapshot[n].figures[k] : k \in Place(n, name)}

\* Two figures, if the report has the first of them.
Contained(n, name, whole) == Place(n, name) = {} \/ Figure(n, name) \subseteq Figure(n, whole)
Equal(n, name, other) == Place(n, name) = {} \/ Figure(n, name) = Figure(n, other)

\* Whatever is written meanwhile, a usage report counts all the metrics and events
\* that it lists, and an average is of no metric that the report does not count.
ListedIsCounted ==
    \A n \in Generated :
        /\ Contained(n, "by_name", "metrics")
        /\ Contained(n, "by_type", "events")
        /\ Contained(n, "average", "metrics")

\* The figures of a report agree with each other if no row was written between its
\* first query and its last.
ReportAddsUp ==
    \A n \in Generated : ~snapshot[n].moved =>
        /\ Equal(n, "by_status", "indexed")
        /\ Place(n, "active") # {} => Figure(n, "active") = Active(Figure(n, "by_status"))
        /\ Equal(n, "by_type", "events")
        /\ Equal(n, "average", "metrics")

\* No figure of a report of an institution is of a row that belonged to another.
ReportWithinScope ==
    \A n \in Generated : snapshot[n].scope # "all" =>
        \A k \in DOMAIN snapshot[n].figures : \A row \in snapshot[n].figures[k] :
            CASE row \in Fact -> facts[row] = snapshot[n].scope
              [] row \in Metric -> metrics[row] = snapshot[n].scope
              [] OTHER -> row[2].institution = snapshot[n].scope

\* The figures of a report tell the same of the institution it is about, although each is
\* a query of its own.
ReportsAgree == ReportsTypeOK /\ ListedIsCounted /\ ReportAddsUp /\ ReportWithinScope

=============================================================================
