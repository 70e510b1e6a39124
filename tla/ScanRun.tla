------------------------------ MODULE ScanRun ------------------------------
(***************************************************************************)
(* One scan.Run, internal/scan/scan.go: the dashboards, alerts and SLOs    *)
(* are read, their selectors extracted, the series catalog fetched and     *)
(* every selector correlated with it.  The report says which series are    *)
(* used and why a selector matched none; the OpenTelemetry fragment drops  *)
(* metrics and strips labels by it.                                        *)
(*                                                                         *)
(* The parallel fetch of the series is one step here, with the result that *)
(* Gather promises; SeriesFetch is its detail.  Dashboards are read in any *)
(* order (nothing depends on it), and so are the selectors, which the code *)
(* finds in a map.                                                         *)
(***************************************************************************)
EXTENDS Selectors, ApiCalls

CONSTANTS
  Resources,  \* the tenant's dashboards, alerts and SLOs: [kind, id, version]
  NoId,       \* ""
  Docs,       \* the JSON documents that they may have: sets of Text
  Tenants     \* the sets of series that the tenant may have

Kinds == {"dashboard", "alert", "slo"}

ASSUME ResourcesAssumption == IsFiniteSet(Resources) /\ \A r \in Resources : r.kind \in Kinds
ASSUME DocsAssumption      == \A d \in Docs : d \subseteq Text
ASSUME TenantsAssumption   == Tenants \subseteq SUBSET Series

VARIABLES
  tenant,    \* the series that exist in the window
  doc,       \* the document of each resource
  skip,      \* the kinds that the options skip
  phase,     \* where Run is
  todo,      \* the dashboards left to read, or the alerts left to list
  resources, \* the selectors of each resource that was read
  refs,      \* the <<resource, selector>> left to correlate
  skipped,   \* the kinds that the warnings call skipped
  unread,    \* the resources that the warnings say could not be read
  garbled,   \* history: those in whose place came a 2xx answer of another shape
  catalog,   \* catalogSeries
  cut,       \* the metrics of which the series limit left series out
  usage,     \* usageBySeries, as triples <<series, kind, id>>
  issues     \* the lists of selectors without a match

env      == <<tenant, doc, skip>>
sources  == <<todo, resources, garbled>>
warnings == <<skipped, unread>>
found    == <<catalog, cut, usage, issues>>
vars     == <<env, phase, sources, refs, warnings, found>>

Of(kind) == {r \in Resources : r.kind = kind}

\* An alert without an id has that of its version.
AlertID(r) == IF r.id # NoId THEN r.id ELSE r.version
IdOf(r)    == IF r.kind = "alert" THEN AlertID(r) ELSE r.id

\* Of two alerts or SLOs with the same id the code would keep the second.
ASSUME IdsAssumption ==
  \A r, q \in Resources : r.kind = q.kind /\ IdOf(r) = IdOf(q) /\ IdOf(r) # NoId => r = q

Init ==
  /\ tenant \in Tenants
  /\ doc \in [Resources -> Docs]
  /\ skip \in SUBSET Kinds
  /\ phase = "dashboards"
  /\ todo = Of("dashboard")
  /\ resources = [r \in Resources |-> {}]
  /\ refs = {}
  /\ skipped = {}
  /\ unread = {}
  /\ garbled = {}
  /\ catalog = {}
  /\ cut = {}
  /\ usage = {}
  /\ issues = {}

-----------------------------------------------------------------------------
(* The three sources.                                                      *)

After(kind) == CASE kind = "dashboard" -> "alerts"
                 [] kind = "alert"     -> "slos"
                 [] kind = "slo"       -> "series"

PhaseOf(kind) == CASE kind = "dashboard" -> "dashboards"
                   [] kind = "alert"     -> "alerts"
                   [] kind = "slo"       -> "slos"

\* What the next source has to read.
Enter(kind) ==
  /\ phase' = After(kind)
  /\ todo' = IF kind = "dashboard" /\ "alert" \notin skip THEN Of("alert") ELSE {}

\* --skip-dashboards, --skip-alerts, --skip-slo.
SkipSource(kind) ==
  /\ phase = PhaseOf(kind)
  /\ kind \in skip
  /\ Enter(kind)
  /\ skipped' = skipped \cup {kind}
  /\ UNCHANGED <<env, resources, garbled, refs, unread, found>>

Reading(kind) == phase = PhaseOf(kind) /\ kind \notin skip

\* The catalog, a page of alerts, the SLOs, the names or the series fail.
Abort ==
  /\ \/ /\ "error" \in ListOutcomes
        /\ \E kind \in Kinds : Reading(kind) /\ (kind = "dashboard" => todo = Of(kind))
     \/ "error" \in PrometheusOutcomes /\ phase = "series"
  /\ phase' = "failed"
  /\ UNCHANGED <<env, sources, refs, warnings, found>>

\* What is read of a resource: nothing without an id.
Load(rs) == [r \in Resources |-> IF r \in rs /\ IdOf(r) # NoId THEN ExtractFromJSON(doc[r])
                                                             ELSE resources[r]]

\* A 2xx answer without the list that is expected counts as an empty one, for
\* alerts as the last page.
AnswerWithoutList(kind) ==
  /\ Reading(kind)
  /\ "nothing" \in ListOutcomes
  /\ kind = "dashboard" => todo = Of(kind)
  /\ Enter(kind)
  /\ LET lost == IF kind = "alert" THEN todo ELSE Of(kind)
     IN  /\ garbled' = garbled \cup lost
         /\ resources' = Load(Of(kind) \ lost)
  /\ UNCHANGED <<env, refs, warnings, found>>

FetchDashboard(r) ==
  /\ Reading("dashboard")
  /\ r \in todo
  /\ todo' = todo \ {r}
  /\ \/ resources' = Load({r}) /\ UNCHANGED garbled
     \/ /\ IdOf(r) # NoId /\ "nothing" \in DashboardOutcomes
        /\ garbled' = garbled \cup {r}
        /\ UNCHANGED resources
  /\ UNCHANGED <<env, phase, refs, warnings, found>>

\* A dashboard that cannot be read costs a warning only.
FetchFailsSilently(r) ==                     \* mutant: no warning
  /\ Reading("dashboard")
  /\ r \in todo /\ IdOf(r) # NoId
  /\ todo' = todo \ {r}
  /\ UNCHANGED <<env, phase, resources, garbled, refs, warnings, found>>
FetchFails(r) ==
  /\ Reading("dashboard")
  /\ r \in todo /\ IdOf(r) # NoId
  /\ "error" \in DashboardOutcomes
  /\ todo' = todo \ {r}
  /\ unread' = unread \cup {r}
  /\ UNCHANGED <<env, phase, resources, garbled, refs, skipped, found>>

DashboardsRead ==
  /\ Reading("dashboard")
  /\ todo = {}
  /\ Enter("dashboard")
  /\ UNCHANGED <<env, resources, garbled, refs, warnings, found>>

\* FetchAllAlertDefs: a page, and the token of the next if it has one.  The
\* alerts count when the last page is there.
AlertPage(page) ==
  /\ Reading("alert")
  /\ page \subseteq todo
  /\ todo' = todo \ page
  /\ UNCHANGED <<env, phase, resources, garbled, refs, warnings, found>>

LastAlertPage(page) ==
  /\ Reading("alert")
  /\ page = todo
  /\ Enter("alert")
  /\ resources' = Load(Of("alert"))
  /\ UNCHANGED <<env, garbled, refs, warnings, found>>

\* SLOs come with their definitions, in one list.
LoadSLOs ==
  /\ Reading("slo")
  /\ Enter("slo")
  /\ resources' = Load(Of("slo"))
  /\ UNCHANGED <<env, garbled, refs, warnings, found>>

-----------------------------------------------------------------------------
(* The catalog and the correlation.                                        *)

\* The series that omitCoralogixInternalMetricNames leaves to ask for.
NothingOmitted == tenant                     \* mutant: internal ones included
CustomerSeries == {s \in tenant : s.name \notin Internal}

\* The API lists every series of a metric, or as many as the limit allows,
\* which is at least one, and then the metric counts as truncated.  An answer
\* with null for its data lists none, as does one to the request for the names.
FetchSeries ==
  /\ phase = "series"
  /\ phase' = "correlate"
  /\ \E listed \in SUBSET CustomerSeries :
       /\ "nothing" \in PrometheusOutcomes \/ NamesOf(listed) = NamesOf(CustomerSeries)
       /\ catalog' = listed
       /\ cut' = NamesOf(CustomerSeries \ listed) \cap NamesOf(listed)
  /\ refs' = UNION {{r} \X resources[r] : r \in Resources}
  /\ UNCHANGED <<env, sources, warnings, usage, issues>>

Issue(r, sel, why) == [resource |-> r, selector |-> sel, why |-> why]

Candidates(sel) == {s \in catalog : s.name = sel.name}

Matched(sel) == {s \in Candidates(sel) : MatchesSeries(sel, s)}

\* The list that a selector is put into, if any.
Verdict(r, sel) ==
  CASE sel.name = NoName      -> {Issue(r, sel, "noMetricName")}
    [] sel.name \in Internal  -> {}
    [] OTHER -> IF Candidates(sel) = {}   THEN {Issue(r, sel, "metricAbsent")}
                ELSE IF Matched(sel) = {} THEN {Issue(r, sel, "noLabelMatch")}
                ELSE {}

\* The body of the correlation loop.
CorrelateNoContinue(r, sel) ==               \* mutant: a missing continue
  /\ phase = "correlate"
  /\ <<r, sel>> \in refs
  /\ refs' = refs \ {<<r, sel>>}
  /\ usage' = usage \cup {<<s, r.kind, IdOf(r)>> : s \in Matched(sel)}
  /\ issues' = issues \cup
       (IF Candidates(sel) = {} THEN {Issue(r, sel, "metricAbsent")} ELSE {})
       \cup (IF Matched(sel) = {} THEN {Issue(r, sel, "noLabelMatch")} ELSE {})
  /\ UNCHANGED <<env, phase, sources, warnings, catalog, cut>>
Correlate(r, sel) ==
  /\ phase = "correlate"
  /\ <<r, sel>> \in refs
  /\ refs' = refs \ {<<r, sel>>}
  /\ usage' = usage \cup {<<s, r.kind, IdOf(r)>> : s \in Matched(sel)}
  /\ issues' = issues \cup Verdict(r, sel)
  /\ UNCHANGED <<env, phase, sources, warnings, catalog, cut>>

CorrelationEnds ==
  /\ phase = "correlate"
  /\ refs = {}
  /\ phase' = "done"
  /\ UNCHANGED <<env, sources, refs, warnings, found>>

Next ==
  \/ \E kind \in Kinds : SkipSource(kind) \/ AnswerWithoutList(kind)
  \/ Abort
  \/ \E r \in Resources : FetchDashboard(r) \/ FetchFails(r)
  \/ DashboardsRead
  \/ \E page \in SUBSET todo : AlertPage(page) \/ LastAlertPage(page)
  \/ LoadSLOs
  \/ FetchSeries
  \/ \E r \in Resources : \E sel \in resources[r] : Correlate(r, sel)
  \/ CorrelationEnds
  \/ phase \in {"done", "failed"} /\ UNCHANGED vars

Spec == Init /\ [][Next]_vars

-----------------------------------------------------------------------------
(* The report.                                                             *)

Used   == {s \in catalog : \E u \in usage : u[1] = s}
Unused == catalog \ Used
Drops  == DropMetricNames(Used, Unused)
Strips == StripStatements(Used, Unused)

\* usage.dashboards, .alerts and .slos of a series.
UsageCount(s, kind) == Cardinality({u \in usage : u[1] = s /\ u[2] = kind})

-----------------------------------------------------------------------------
(* Properties.                                                             *)

Done == phase = "done"

\* The resources of a kind that refer to a series by a selector that names
\* its metric.
Referrers(s, kind) ==
  {r \in Of(kind) : \E sel \in resources[r] : MatchersAccept(sel, s) /\ sel.name = s.name}

\* Every variable has its type, and no internal series is in the report.
TypeOK ==
  /\ tenant \subseteq Series
  /\ doc \in [Resources -> Docs]
  /\ skip \subseteq Kinds
  /\ phase \in {"dashboards", "alerts", "slos", "series", "correlate", "done", "failed"}
  /\ todo \subseteq Resources
  /\ \A x \in refs : x[1] \in Resources /\ x[2] \in resources[x[1]]
  /\ resources \in [Resources -> SUBSET Selector]
  /\ skipped \subseteq Kinds
  /\ unread \subseteq Resources
  /\ garbled \subseteq Resources
  /\ catalog \subseteq {s \in tenant : s.name \notin Internal}
  /\ cut \subseteq Metrics \ Internal
  /\ \A u \in usage : u[1] \in catalog
  /\ \A i \in issues : i.why \in {"noMetricName", "metricAbsent", "noLabelMatch"}

\* The usage counts of a series say how many resources of each kind refer to
\* it, however many selectors they do it with and in whatever order those were
\* correlated: so a series is unused exactly if nothing that was read
\* refers to it by name.
UsageCountsReferrers ==
  Done => \A s \in catalog, kind \in Kinds :
    UsageCount(s, kind) = Cardinality(Referrers(s, kind))

\* A selector of a resource that was read either makes a series used or is
\* reported in one of the three lists, not both; only a selector of an internal
\* metric may do neither.
SelectorsAccounted ==
  Done => \A r \in Resources : \A sel \in resources[r] :
    LET hits    == {s \in catalog : MatchesSeries(sel, s)}
        reports == {i \in issues : i.resource = r /\ i.selector = sel}
    IN  /\ Cardinality(reports) <= 1
        /\ hits # {} => hits \subseteq Used /\ reports = {}
        /\ hits = {} => reports # {} \/ sel.name \in Internal

\* The generated fragment leaves every used series as it is: its metric is not
\* dropped and none of its labels is deleted.
UsedSeriesSurvive ==
  Done => \A s \in Used : s.name \notin Drops /\ Strip(Strips, s) = s

\* A dropped metric of which some series is referred to by name, in a document
\* with an id that the extraction understands, is explained by the report:
\* the source was skipped, the dashboard is in the warnings, or the metric was
\* truncated.  Only a 2xx answer of another shape, which the code takes for an
\* empty list or document, goes unnoticed.
DropIsExplained ==
  Done => \A s \in {x \in tenant : x.name \in Drops}, r \in {x \in Resources : IdOf(x) # NoId} :
    (\E sel \in ExtractFromJSON(doc[r]) : MatchesSeries(sel, s)) =>
      r.kind \in skipped \/ r \in unread \/ s.name \in cut \/ r \in garbled

\* README: a metric is dropped only if no scanned dashboard, alert or SLO
\* matched any of its series.  Scanned means read: what was skipped, is in
\* the warnings or came as an answer of another shape does not count.
DroppedMetricsUnmatched ==
  Done => \A s \in {x \in catalog : x.name \in Drops}, r \in Resources :
    \A t \in doc[r] : \A sel \in t.selectors :
      MatchersAccept(sel, s) =>
        r.kind \in skipped \/ r \in unread \/ r \in garbled \/ IdOf(r) = NoId

=============================================================================
