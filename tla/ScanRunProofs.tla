--------------------------- MODULE ScanRunProofs ---------------------------
(***************************************************************************)
(* What the report says of series and selectors, for any tenant, any       *)
(* documents and any options; and, at the end, what the calls of the scan  *)
(* are and say of their errors, for any answer.                            *)
(***************************************************************************)
EXTENDS ScanRun, Replication, FiniteSetTheorems, FunctionTheorems, SequenceTheorems, TLAPS

USE ResourcesAssumption

Sourcing == {"dashboards", "alerts", "slos", "series"}
Fetched  == {"correlate", "done"}

\* What the report can say of a resource, once its source is through.
Accounted(r) ==
  \/ IdOf(r) = NoId
  \/ r.kind \in skipped
  \/ r \in unread \cup garbled
  \/ resources[r] = ExtractFromJSON(doc[r])

Through(kind) ==
  CASE kind = "dashboard" -> {"alerts", "slos", "series", "correlate", "done"}
    [] kind = "alert"     -> {"slos", "series", "correlate", "done"}
    [] kind = "slo"       -> {"series", "correlate", "done"}

SourcesInv ==
  /\ phase = "dashboards" => \A r \in Of("dashboard") \ todo : Accounted(r)
  /\ \A kind \in Kinds : phase \in Through(kind) => \A r \in Of(kind) : Accounted(r)

Credited(r, sel) == \A s \in Matched(sel) : <<s, r.kind, IdOf(r)>> \in usage

Credit(u) ==
  \E r \in Resources : \E sel \in resources[r] : \E s \in Matched(sel) :
    u = <<s, r.kind, IdOf(r)>>

IssuesOf(r, sel) == {i \in issues : i.resource = r /\ i.selector = sel}

CorrelationInv ==
  /\ phase \in Sourcing => refs = {} /\ usage = {} /\ issues = {}
  /\ phase = "done" => refs = {}
  /\ phase \in Fetched =>
       /\ \A u \in usage : Credit(u)
       /\ \A s \in tenant : s.name \notin Internal /\ s.name \in NamesOf(catalog)
                             => s \in catalog \/ s.name \in cut
       /\ \A r \in Resources : \A sel \in resources[r] :
            IF <<r, sel>> \in refs THEN IssuesOf(r, sel) = {}
            ELSE Credited(r, sel) /\ IssuesOf(r, sel) = Verdict(r, sel)

Inv == TypeOK /\ SourcesInv /\ CorrelationInv

-----------------------------------------------------------------------------
(* Steps that read: the correlation has not begun.                         *)

LEMMA ExtractType ==
  ASSUME NEW d \in Docs PROVE ExtractFromJSON(d) \in SUBSET Selector
  BY DocsAssumption DEF ExtractFromJSON, Text

LEMMA LoadType ==
  ASSUME TypeOK, NEW rs PROVE Load(rs) \in [Resources -> SUBSET Selector]
  BY ExtractType DEF Load, TypeOK

LEMMA LoadFacts ==
  ASSUME TypeOK, NEW rs, NEW r \in Resources
  PROVE  /\ r \notin rs => Load(rs)[r] = resources[r]
         /\ r \in rs /\ IdOf(r) # NoId => Load(rs)[r] = ExtractFromJSON(doc[r])
         /\ r \in rs /\ IdOf(r) = NoId => Load(rs)[r] = resources[r]
  BY DEF Load

LEMMA InitInv == Init => Inv
  <1> SUFFICES ASSUME Init PROVE Inv
    OBVIOUS
  <1>1. TypeOK
    BY TenantsAssumption DEF Init, TypeOK, Of
  <1>2. SourcesInv
    BY DEF Init, SourcesInv, Through, Kinds, Of
  <1>3. CorrelationInv
    BY DEF Init, CorrelationInv, Fetched
  <1> QED
    BY <1>1, <1>2, <1>3 DEF Inv

\* A step from one source to the next or within one, that leaves the parts
\* of the correlation alone, keeps the type and the correlation's invariant.
LEMMA ReadStep ==
  ASSUME Inv, phase \in Sourcing, phase' \in Sourcing \cup {"failed"},
         todo' \subseteq Resources, resources' \in [Resources -> SUBSET Selector],
         garbled' \subseteq Resources, unread' \subseteq Resources, skipped' \subseteq Kinds,
         UNCHANGED <<env, refs, found>>
  PROVE  TypeOK' /\ CorrelationInv'
  <1>1. refs = {} /\ usage = {} /\ issues = {}
    BY DEF Inv, CorrelationInv
  <1>2. TypeOK'
    BY <1>1 DEF Inv, TypeOK, env, found, Sourcing
  <1>3. CorrelationInv'
    BY <1>1 DEF CorrelationInv, found, Sourcing, Fetched
  <1> QED
    BY <1>2, <1>3

LEMMA AfterFacts ==
  ASSUME NEW kind \in Kinds, phase = PhaseOf(kind), Enter(kind)
  PROVE  /\ phase \in Sourcing /\ phase' \in Sourcing \ {"dashboards"}
         /\ todo' \subseteq Resources
         /\ \A k \in Kinds : phase' \in Through(k) => k = kind \/ phase \in Through(k)
  BY DEF Kinds, PhaseOf, Enter, After, Through, Sourcing, Of

\* A source is done with when its own resources are accounted for.
LEMMA SourceDone ==
  ASSUME Inv, NEW kind \in Kinds, phase = PhaseOf(kind), Enter(kind),
         UNCHANGED <<env, unread>>, skipped \subseteq skipped', garbled \subseteq garbled',
         \A r \in Resources \ Of(kind) : resources'[r] = resources[r],
         \A r \in Of(kind) : Accounted(r)'
  PROVE  SourcesInv'
  <1>1. phase' # "dashboards"
    BY AfterFacts
  <1>2. ASSUME NEW k \in Kinds, phase' \in Through(k), NEW r \in Of(k) PROVE Accounted(r)'
    <2>1. CASE k = kind
      BY <1>2, <2>1
    <2>2. CASE k # kind
      <3>1. Accounted(r)
        BY <1>2, <2>2, AfterFacts DEF Inv, SourcesInv
      <3>2. r \in Resources \ Of(kind)
        BY <1>2, <2>2 DEF Of
      <3> QED
        BY <3>1, <3>2 DEF Accounted, env, IdOf, AlertID
    <2> QED
      BY <2>1, <2>2
  <1> QED
    BY <1>1, <1>2 DEF SourcesInv

-----------------------------------------------------------------------------
(* The actions of the three sources.                                       *)

LEMMA SkipInv ==
  ASSUME Inv, NEW kind \in Kinds, SkipSource(kind) PROVE Inv'
  <1>1. phase = PhaseOf(kind) /\ Enter(kind)
    BY DEF SkipSource
  <1>2. TypeOK' /\ CorrelationInv'
    BY <1>1, AfterFacts, ReadStep DEF SkipSource, Inv, TypeOK
  <1>3. \A r \in Of(kind) : Accounted(r)'
    BY DEF SkipSource, Accounted, Of
  <1>4. SourcesInv'
    BY <1>1, <1>3, SourceDone DEF SkipSource
  <1> QED
    BY <1>2, <1>4 DEF Inv

LEMMA AnswerWithoutListInv ==
  ASSUME Inv, NEW kind \in Kinds, AnswerWithoutList(kind) PROVE Inv'
  <1> DEFINE lost == IF kind = "alert" THEN todo ELSE Of(kind)
  <1>1. /\ phase = PhaseOf(kind) /\ Enter(kind)
        /\ garbled' = garbled \cup lost /\ resources' = Load(Of(kind) \ lost)
        /\ UNCHANGED <<env, refs, warnings, found>>
    BY DEF AnswerWithoutList, Reading
  <1>2. lost \subseteq Resources
    BY DEF Inv, TypeOK, Of
  <1>3. resources' \in [Resources -> SUBSET Selector]
    BY <1>1, LoadType DEF Inv
  <1> HIDE DEF lost
  <1>4. TypeOK' /\ CorrelationInv'
    BY <1>1, <1>2, <1>3, AfterFacts, ReadStep DEF Inv, TypeOK, warnings
  <1>5. ASSUME NEW r \in Of(kind) PROVE Accounted(r)'
    <2>1. r \in Resources
      BY <1>5 DEF Of
    <2>2. CASE r \in lost
      BY <1>1, <2>2 DEF Accounted
    <2>3. CASE r \notin lost
      BY <1>1, <1>5, <2>1, <2>3, LoadFacts DEF Accounted, Inv, env, IdOf, AlertID
    <2> QED
      BY <2>2, <2>3
  <1>6. \A r \in Resources \ Of(kind) : resources'[r] = resources[r]
    BY <1>1, LoadFacts DEF Inv
  <1> QED
    BY <1>1, <1>4, <1>5, <1>6, SourceDone DEF Inv, warnings

\* The last page of alerts, and the SLOs.
LEMMA LoadInv ==
  ASSUME Inv, NEW kind \in Kinds, phase = PhaseOf(kind), Enter(kind),
         resources' = Load(Of(kind)), UNCHANGED <<env, garbled, refs, warnings, found>>
  PROVE  Inv'
  <1>1. resources' \in [Resources -> SUBSET Selector]
    BY LoadType DEF Inv
  <1>2. TypeOK' /\ CorrelationInv'
    BY <1>1, AfterFacts, ReadStep DEF Inv, TypeOK, warnings
  <1>3. ASSUME NEW r \in Of(kind) PROVE Accounted(r)'
    BY <1>3, LoadFacts DEF Of, Accounted, Inv, env, IdOf, AlertID
  <1>4. \A r \in Resources \ Of(kind) : resources'[r] = resources[r]
    BY LoadFacts DEF Inv
  <1> QED
    BY <1>2, <1>3, <1>4, SourceDone DEF Inv, warnings

LEMMA DashboardsReadInv ==
  ASSUME Inv, DashboardsRead PROVE Inv'
  <1>1. phase = PhaseOf("dashboard") /\ Enter("dashboard") /\ "dashboard" \in Kinds
    BY DEF DashboardsRead, Reading, Kinds
  <1>2. UNCHANGED <<env, resources, garbled, refs, warnings, found>> /\ todo = {}
    BY DEF DashboardsRead
  <1>3. TypeOK' /\ CorrelationInv'
    BY <1>1, <1>2, AfterFacts, ReadStep DEF Inv, TypeOK, warnings
  <1>4. phase = "dashboards"
    BY <1>1 DEF PhaseOf
  <1>5. ASSUME NEW r \in Of("dashboard") PROVE Accounted(r)'
    <2>1. Accounted(r)
      BY <1>2, <1>4, <1>5 DEF Inv, SourcesInv
    <2> QED
      BY <2>1, <1>2 DEF Accounted, env, warnings, IdOf, AlertID
  <1> QED
    BY <1>1, <1>2, <1>3, <1>5, SourceDone DEF Inv, warnings

\* Within the phase of the dashboards, one of them is read or not.
LEMMA DashboardStep ==
  ASSUME Inv, phase = "dashboards", NEW r \in todo, todo' = todo \ {r},
         resources' \in [Resources -> SUBSET Selector],
         \A x \in Resources \ {r} : resources'[x] = resources[x],
         garbled \subseteq garbled', garbled' \subseteq Resources,
         unread \subseteq unread', unread' \subseteq Resources,
         UNCHANGED <<env, phase, refs, skipped, found>>,
         Accounted(r)'
  PROVE  Inv'
  <1>1. TypeOK' /\ CorrelationInv'
    BY ReadStep DEF Inv, TypeOK, Sourcing
  <1>2. ASSUME NEW x \in Of("dashboard") \ todo' PROVE Accounted(x)'
    <2>1. CASE x = r
      BY <2>1
    <2>2. CASE x # r
      <3>1. Accounted(x)
        BY <1>2, <2>2 DEF Inv, SourcesInv
      <3> QED
        BY <3>1, <1>2, <2>2 DEF Accounted, env, IdOf, AlertID, Of
    <2> QED
      BY <2>1, <2>2
  <1>3. \A kind \in Kinds : phase' \notin Through(kind)
    BY DEF Kinds, Through
  <1> QED
    BY <1>1, <1>2, <1>3 DEF Inv, SourcesInv

LEMMA FetchDashboardInv ==
  ASSUME Inv, NEW r \in Resources, FetchDashboard(r) PROVE Inv'
  <1>1. /\ phase = "dashboards" /\ r \in todo /\ todo' = todo \ {r}
        /\ UNCHANGED <<env, phase, refs, warnings, found>>
    BY DEF FetchDashboard, Reading, PhaseOf
  <1>2. CASE resources' = Load({r}) /\ UNCHANGED garbled
    <2>1. Accounted(r)'
      BY <1>1, <1>2, LoadFacts DEF Accounted, Inv, env, IdOf, AlertID
    <2>2. resources' \in [Resources -> SUBSET Selector]
      BY <1>2, LoadType DEF Inv
    <2>3. \A x \in Resources \ {r} : resources'[x] = resources[x]
      BY <1>2, LoadFacts DEF Inv
    <2> QED
      BY <1>1, <1>2, <2>1, <2>2, <2>3, DashboardStep DEF Inv, TypeOK, warnings
  <1>3. CASE garbled' = garbled \cup {r} /\ UNCHANGED resources
    <2>1. Accounted(r)'
      BY <1>3 DEF Accounted
    <2> QED
      BY <1>1, <1>3, <2>1, DashboardStep DEF Inv, TypeOK, warnings
  <1> QED
    BY <1>2, <1>3 DEF FetchDashboard

LEMMA FetchFailsInv ==
  ASSUME Inv, NEW r \in Resources, FetchFails(r) PROVE Inv'
  <1>1. /\ phase = "dashboards" /\ r \in todo /\ todo' = todo \ {r}
        /\ unread' = unread \cup {r}
        /\ UNCHANGED <<env, phase, resources, garbled, refs, skipped, found>>
    BY DEF FetchFails, Reading, PhaseOf
  <1>2. Accounted(r)'
    BY <1>1 DEF Accounted
  <1> QED
    BY <1>1, <1>2, DashboardStep DEF Inv, TypeOK

LEMMA AlertPageInv ==
  ASSUME Inv, NEW page, AlertPage(page) PROVE Inv'
  <1>1. /\ phase = "alerts" /\ todo' = todo \ page
        /\ UNCHANGED <<env, phase, resources, garbled, refs, warnings, found>>
    BY DEF AlertPage, Reading, PhaseOf
  <1>2. TypeOK' /\ CorrelationInv'
    BY <1>1, ReadStep DEF Inv, TypeOK, Sourcing, warnings
  <1>3. SourcesInv'
    BY <1>1 DEF Inv, SourcesInv, Accounted, env, warnings, IdOf, AlertID, Of
  <1> QED
    BY <1>2, <1>3 DEF Inv

LEMMA AbortInv == ASSUME Inv, Abort PROVE Inv'
  <1>1. phase \in Sourcing /\ phase' = "failed"
    BY DEF Abort, Reading, PhaseOf, Kinds, Sourcing
  <1>2. UNCHANGED <<env, sources, refs, warnings, found>>
    BY DEF Abort
  <1>3. TypeOK' /\ CorrelationInv'
    BY <1>1, <1>2, ReadStep DEF Inv, TypeOK, sources, warnings
  <1>4. SourcesInv'
    BY <1>1 DEF SourcesInv, Through, Kinds
  <1> QED
    BY <1>3, <1>4 DEF Inv

-----------------------------------------------------------------------------
(* The catalog and the correlation.                                        *)

LEMMA SourcesKept ==
  ASSUME SourcesInv, phase \in {"series", "correlate", "done"},
         phase' \in {"correlate", "done"}, UNCHANGED <<env, sources, warnings>>
  PROVE  SourcesInv'
  <1>1. \A kind \in Kinds : phase \in Through(kind)
    BY DEF Kinds, Through
  <1>2. \A kind \in Kinds : \A r \in Of(kind) : Accounted(r)'
    BY <1>1 DEF SourcesInv, Accounted, env, sources, warnings, IdOf, AlertID
  <1> QED
    BY <1>2 DEF SourcesInv, Of

LEMMA FetchSeriesInv == ASSUME Inv, FetchSeries PROVE Inv'
  <1>1. /\ phase = "series" /\ phase' = "correlate"
        /\ UNCHANGED <<env, sources, warnings, usage, issues>>
    BY DEF FetchSeries
  <1>2. usage = {} /\ issues = {}
    BY <1>1 DEF Inv, CorrelationInv, Sourcing
  <1>3. PICK listed \in SUBSET CustomerSeries :
             catalog' = listed /\ cut' = NamesOf(CustomerSeries \ listed) \cap NamesOf(listed)
    BY DEF FetchSeries
  <1>4. refs' = UNION {{r} \X resources[r] : r \in Resources}
    BY DEF FetchSeries
  <1>5. \A x \in refs' : x[1] \in Resources /\ x[2] \in resources[x[1]]
    BY <1>4
  <1>6. \A r \in Resources : \A sel \in resources[r] : <<r, sel>> \in refs'
    BY <1>4
  <1>7. cut' \subseteq Metrics \ Internal
    BY <1>3 DEF Inv, TypeOK, CustomerSeries, NamesOf, Series
  <1>8. TypeOK'
    BY <1>1, <1>2, <1>3, <1>5, <1>7 DEF Inv, TypeOK, env, sources, warnings, CustomerSeries
  <1>9. \A s \in tenant : s.name \notin Internal /\ s.name \in NamesOf(catalog')
                            => s \in catalog' \/ s.name \in cut'
    BY <1>3 DEF CustomerSeries, NamesOf
  <1>10. CorrelationInv'
    BY <1>1, <1>2, <1>6, <1>9 DEF CorrelationInv, Sourcing, Fetched, IssuesOf, env, sources
  <1> QED
    BY <1>1, <1>8, <1>10, SourcesKept DEF Inv

LEMMA MatchedInCatalog == ASSUME NEW sel PROVE Matched(sel) \subseteq catalog
  BY DEF Matched, Candidates

LEMMA VerdictType ==
  ASSUME NEW r, NEW sel
  PROVE  \A i \in Verdict(r, sel) :
           /\ i.resource = r /\ i.selector = sel
           /\ i.why \in {"noMetricName", "metricAbsent", "noLabelMatch"}
  BY DEF Verdict, Issue

LEMMA CorrelateInv ==
  ASSUME Inv, NEW r \in Resources, NEW sel \in resources[r], Correlate(r, sel) PROVE Inv'
  <1>1. /\ phase = "correlate" /\ phase' = "correlate"
        /\ refs' = refs \ {<<r, sel>>} /\ <<r, sel>> \in refs
        /\ usage' = usage \cup {<<s, r.kind, IdOf(r)>> : s \in Matched(sel)}
        /\ issues' = issues \cup Verdict(r, sel)
        /\ UNCHANGED <<env, sources, warnings, catalog, cut>>
    BY DEF Correlate
  <1>2. TypeOK'
    <2>1. \A u \in usage' : u[1] \in catalog
      BY <1>1, MatchedInCatalog DEF Inv, TypeOK
    <2>2. \A i \in issues' : i.why \in {"noMetricName", "metricAbsent", "noLabelMatch"}
      BY <1>1, VerdictType DEF Inv, TypeOK
    <2> QED
      BY <1>1, <2>1, <2>2 DEF Inv, TypeOK, env, sources, warnings
  <1>3. ASSUME NEW x \in Resources, NEW t \in resources[x]
        PROVE  IF <<x, t>> \in refs' THEN IssuesOf(x, t)' = {}
               ELSE Credited(x, t)' /\ IssuesOf(x, t)' = Verdict(x, t)'
    <2>1. Matched(t)' = Matched(t) /\ Verdict(x, t)' = Verdict(x, t)
      BY <1>1 DEF Matched, Candidates, Verdict
    <2>2. Credited(x, t) => Credited(x, t)'
      BY <1>1, <2>1 DEF Credited
    <2>3. IF <<x, t>> \in refs THEN IssuesOf(x, t) = {}
          ELSE Credited(x, t) /\ IssuesOf(x, t) = Verdict(x, t)
      BY <1>1 DEF Inv, CorrelationInv, Fetched
    <2>4. CASE x = r /\ t = sel
      <3>1. Credited(x, t)'
        BY <1>1, <2>1, <2>4 DEF Credited
      <3>2. IssuesOf(x, t) = {}
        BY <1>1, <2>3, <2>4
      <3>3. \A i \in Verdict(x, t) : i.resource = x /\ i.selector = t
        BY VerdictType
      <3>4. IssuesOf(x, t)' = Verdict(x, t)
        BY <1>1, <2>4, <3>2, <3>3 DEF IssuesOf
      <3> QED
        BY <3>1, <3>4, <1>1, <2>1, <2>4
    <2>5. CASE <<x, t>> # <<r, sel>>
      <3>1. IssuesOf(x, t)' = IssuesOf(x, t)
        BY <1>1, <2>5, VerdictType DEF IssuesOf
      <3>2. <<x, t>> \in refs' <=> <<x, t>> \in refs
        BY <1>1, <2>5
      <3> QED
        BY <3>1, <3>2, <2>1, <2>2, <2>3
    <2> QED
      BY <2>4, <2>5
  <1>4. \A u \in usage' : Credit(u)'
    <2>1. \A t : Matched(t)' = Matched(t)
      BY <1>1 DEF Matched, Candidates
    <2>2. \A u \in usage : Credit(u)'
      BY <1>1, <2>1 DEF Inv, CorrelationInv, Fetched, Credit, sources
    <2>3. \A s \in Matched(sel) : Credit(<<s, r.kind, IdOf(r)>>)'
      BY <1>1, <2>1 DEF Credit, sources
    <2> QED
      BY <1>1, <2>2, <2>3
  <1>5. CorrelationInv'
    BY <1>1, <1>3, <1>4 DEF Inv, CorrelationInv, Sourcing, Fetched, env, sources
  <1> QED
    BY <1>1, <1>2, <1>5, SourcesKept DEF Inv

LEMMA CorrelationEndsInv == ASSUME Inv, CorrelationEnds PROVE Inv'
  <1>1. /\ phase = "correlate" /\ phase' = "done" /\ refs = {}
        /\ UNCHANGED <<env, sources, refs, warnings, found>>
    BY DEF CorrelationEnds
  <1>2. TypeOK'
    BY <1>1 DEF Inv, TypeOK, env, sources, warnings, found
  <1>3. CorrelationInv'
    BY <1>1 DEF Inv, CorrelationInv, Sourcing, Fetched, IssuesOf, Credited, Credit, Matched,
                Candidates, Verdict, env, sources, found
  <1> QED
    BY <1>1, <1>2, <1>3, SourcesKept DEF Inv

LEMMA NextInv == ASSUME Inv, [Next]_vars PROVE Inv'
  <1>1. CASE UNCHANGED vars
    BY <1>1 DEF vars, env, sources, warnings, found, Inv, TypeOK, SourcesInv, CorrelationInv,
                Accounted, IdOf, AlertID, Of, Credited, Credit, IssuesOf, Matched,
                Candidates, Verdict
  <1>2. ASSUME NEW kind \in Kinds, SkipSource(kind) \/ AnswerWithoutList(kind) PROVE Inv'
    BY <1>2, SkipInv, AnswerWithoutListInv
  <1>3. ASSUME NEW r \in Resources, FetchDashboard(r) \/ FetchFails(r) PROVE Inv'
    BY <1>3, FetchDashboardInv, FetchFailsInv
  <1>4. ASSUME NEW page \in SUBSET todo, AlertPage(page) \/ LastAlertPage(page) PROVE Inv'
    <2>1. CASE LastAlertPage(page)
      BY <2>1, LoadInv DEF LastAlertPage, Reading, Kinds
    <2> QED
      BY <1>4, <2>1, AlertPageInv
  <1>5. CASE LoadSLOs
    BY <1>5, LoadInv DEF LoadSLOs, Reading, Kinds
  <1>6. ASSUME NEW r \in Resources, NEW sel \in resources[r], Correlate(r, sel) PROVE Inv'
    BY <1>6, CorrelateInv
  <1> QED
    BY <1>1, <1>2, <1>3, <1>4, <1>5, <1>6, AbortInv, DashboardsReadInv, FetchSeriesInv,
       CorrelationEndsInv DEF Next

LEMMA SpecInv == Spec => []Inv
  BY InitInv, NextInv, PTL DEF Spec

-----------------------------------------------------------------------------
(* The theorems.                                                           *)

\* The variables keep their types, and no internal series gets into a report.
THEOREM Typed == Spec => []TypeOK
  <1>1. Inv => TypeOK
    BY DEF Inv
  <1> QED
    BY <1>1, SpecInv, PTL

\* The generated fragment leaves every used series as it is, for any tenant.
THEOREM UsedSurvive == Spec => []UsedSeriesSurvive
  <1>1. ASSUME Inv PROVE UsedSeriesSurvive
    <2> SUFFICES ASSUME NEW s \in Used
                 PROVE  s.name \notin Drops /\ Strip(Strips, s) = s
      BY DEF UsedSeriesSurvive
    <2>1. s \in Series
      BY <1>1 DEF Inv, TypeOK, Used
    <2>2. s.name \in NamesOf(Used)
      BY DEF NamesOf
    <2>3. s.name \notin Drops
      BY <2>2 DEF Drops, DropMetricNames
    <2>4. ASSUME NEW k \in Keys, <<s.name, k>> \in Strips PROVE s.labels[k] = Empty
      <3>1. k \notin KeysOf(Used, s.name)
        BY <2>4 DEF Strips, StripStatements
      <3> QED
        BY <3>1 DEF KeysOf, LabelKeys
    <2>5. [k \in Keys |-> IF <<s.name, k>> \in Strips THEN Empty ELSE s.labels[k]] = s.labels
      BY <2>1, <2>4 DEF Series
    <2>6. Strip(Strips, s) = s
      BY <2>1, <2>5 DEF Strip, Series
    <2> QED
      BY <2>3, <2>6
  <1> QED
    BY <1>1, SpecInv, PTL

\* What has no id has no selectors.
NoIdInv == \A r \in Resources : IdOf(r) = NoId => resources[r] = {}

LEMMA NoIdAlways == Spec => []NoIdInv
  <1>1. Init => NoIdInv
    BY DEF Init, NoIdInv
  <1>2. Inv /\ NoIdInv /\ [Next]_vars => NoIdInv'
    <2> SUFFICES ASSUME Inv, NoIdInv, [Next]_vars PROVE NoIdInv'
      OBVIOUS
    <2>1. (\E rs : resources' = Load(rs)) \/ resources' = resources
      BY
         DEF Next, vars, sources, SkipSource, Abort, AnswerWithoutList, FetchDashboard, FetchFails,
             DashboardsRead, AlertPage, LastAlertPage, LoadSLOs, FetchSeries, Correlate,
             CorrelationEnds
    <2>2. \A r : IdOf(r)' = IdOf(r)
      BY DEF IdOf, AlertID
    <2>3. CASE resources' = resources
      BY <2>2, <2>3 DEF NoIdInv
    <2>4. CASE \E rs : resources' = Load(rs)
      <3>1. PICK rs : resources' = Load(rs)
        BY <2>4
      <3> QED
        BY <2>2, <3>1, LoadFacts DEF NoIdInv, Inv
    <2> QED
      BY <2>1, <2>3, <2>4
  <1> QED
    BY <1>1, <1>2, SpecInv, PTL DEF Spec

\* The counts of a series are those of the resources that refer to it, if the
\* ids are distinct.
THEOREM CountsAreReferrers == Spec => []UsageCountsReferrers
  <1>1. ASSUME Inv, NoIdInv PROVE UsageCountsReferrers
    <2> SUFFICES ASSUME Done, NEW s \in catalog, NEW kind \in Kinds
                 PROVE  UsageCount(s, kind) = Cardinality(Referrers(s, kind))
      BY DEF UsageCountsReferrers
    <2> DEFINE entries == {u \in usage : u[1] = s /\ u[2] = kind}
               entry   == [r \in Referrers(s, kind) |-> <<s, kind, IdOf(r)>>]
    <2>1. ASSUME NEW r \in Resources, NEW sel \in resources[r]
          PROVE  (MatchersAccept(sel, s) /\ sel.name = s.name) <=> s \in Matched(sel)
      <3>1. s.name # NoName
        BY <1>1, NoNameAssumption DEF Inv, TypeOK, Series
      <3> QED
        BY <3>1 DEF Matched, Candidates, MatchesSeries
    <2>2. ASSUME NEW r \in Referrers(s, kind)
          PROVE  /\ r \in Resources /\ r.kind = kind /\ IdOf(r) # NoId
                 /\ entry[r] \in entries
      <3>1. r \in Resources /\ r.kind = kind
        BY DEF Referrers, Of
      <3>2. PICK sel \in resources[r] : s \in Matched(sel)
        BY <2>1, <3>1 DEF Referrers
      <3>3. Credited(r, sel)
        BY <1>1, <3>1 DEF Inv, CorrelationInv, Fetched, Done
      <3> QED
        BY <1>1, <3>1, <3>2, <3>3 DEF Credited, NoIdInv
    <2>3. ASSUME NEW u \in entries PROVE \E r \in Referrers(s, kind) : entry[r] = u
      <3>1. Credit(u)
        BY <1>1 DEF Inv, CorrelationInv, Fetched, Done
      <3>2. PICK r \in Resources :
                 \E sel \in resources[r] : s \in Matched(sel) /\ u = <<s, r.kind, IdOf(r)>>
        BY <3>1 DEF Credit
      <3>3. r \in Referrers(s, kind)
        BY <2>1, <3>2 DEF Referrers, Of
      <3> QED
        BY <3>2, <3>3
    <2>4. entry \in [Referrers(s, kind) -> entries]
      BY <2>2
    <2>5. \A q, r \in Referrers(s, kind) : entry[q] = entry[r] => q = r
      BY <2>2, IdsAssumption
    <2>6. entry \in Bijection(Referrers(s, kind), entries)
      BY <2>3, <2>4, <2>5, Fun_IsBij
    <2>7. IsFiniteSet(Referrers(s, kind))
      <3>1. Referrers(s, kind) \subseteq Resources
        BY DEF Referrers, Of
      <3> QED
        BY <3>1, FS_Subset
    <2>8. Cardinality(entries) = Cardinality(Referrers(s, kind))
      BY <2>6, <2>7, FS_Bijection DEF ExistsBijection
    <2> QED
      BY <2>8 DEF UsageCount
  <1> QED
    BY <1>1, SpecInv, NoIdAlways, PTL

\* Every selector that was read makes a series used or is reported once.
THEOREM SelectorsAreAccounted == Spec => []SelectorsAccounted
  <1>1. ASSUME Inv PROVE SelectorsAccounted
    <2> SUFFICES ASSUME Done, NEW r \in Resources, NEW sel \in resources[r]
                 PROVE  /\ Cardinality(IssuesOf(r, sel)) <= 1
                        /\ {s \in catalog : MatchesSeries(sel, s)} # {} =>
                              /\ {s \in catalog : MatchesSeries(sel, s)} \subseteq Used
                              /\ IssuesOf(r, sel) = {}
                        /\ {s \in catalog : MatchesSeries(sel, s)} = {} =>
                              IssuesOf(r, sel) # {} \/ sel.name \in Internal
      BY DEF SelectorsAccounted, IssuesOf
    <2>1. {s \in catalog : MatchesSeries(sel, s)} = Matched(sel)
      BY DEF Matched, Candidates, MatchesSeries
    <2>2. Credited(r, sel) /\ IssuesOf(r, sel) = Verdict(r, sel)
      BY <1>1 DEF Inv, CorrelationInv, Fetched, Done
    <2>3. Matched(sel) \subseteq Used
      BY <2>2, MatchedInCatalog DEF Credited, Used
    <2>4. Verdict(r, sel) = {} \/ \E i : Verdict(r, sel) = {i}
      BY DEF Verdict
    <2>5. Cardinality(IssuesOf(r, sel)) <= 1
      <3>1. CASE Verdict(r, sel) = {}
        <4>1. Cardinality({}) = 0
          BY FS_EmptySet
        <4> QED
          BY <3>1, <4>1, <2>2
      <3>2. CASE \E i : Verdict(r, sel) = {i}
        <4>1. PICK i : Verdict(r, sel) = {i}
          BY <3>2
        <4>2. Cardinality({i}) = 1
          BY FS_Singleton
        <4> QED
          BY <4>1, <4>2, <2>2
      <3> QED
        BY <3>1, <3>2, <2>4
    <2>6. Matched(sel) # {} => Verdict(r, sel) = {}
      BY DEF Verdict, Matched, MatchesSeries, Candidates
    <2>7. Matched(sel) = {} => Verdict(r, sel) # {} \/ sel.name \in Internal
      BY DEF Verdict
    <2> QED
      BY <2>1, <2>2, <2>3, <2>5, <2>6, <2>7
  <1> QED
    BY <1>1, SpecInv, PTL

\* A drop of a metric that some document refers to by name is explained.
THEOREM DropsExplained == Spec => []DropIsExplained
  <1>1. ASSUME Inv PROVE DropIsExplained
    <2> SUFFICES ASSUME Done, NEW s \in tenant, s.name \in Drops,
                        NEW r \in Resources, IdOf(r) # NoId,
                        NEW sel \in ExtractFromJSON(doc[r]), MatchesSeries(sel, s),
                        r.kind \notin skipped, r \notin unread, s.name \notin cut,
                        r \notin garbled
                 PROVE  FALSE
      BY DEF DropIsExplained
    <2>1. Accounted(r)
      <3>1. r.kind \in Kinds /\ r \in Of(r.kind) /\ phase \in Through(r.kind)
        BY DEF Of, Kinds, Through, Done
      <3> QED
        BY <1>1, <3>1 DEF Inv, SourcesInv
    <2>2. sel \in resources[r]
      BY <2>1 DEF Accounted
    <2>3. PICK x \in Unused : x.name = s.name
      BY DEF Drops, DropMetricNames, NamesOf
    <2>4. s.name \notin Internal
      BY <1>1, <2>3 DEF Inv, TypeOK, Unused
    <2>5. s \in catalog
      BY <1>1, <2>3, <2>4 DEF Inv, CorrelationInv, Fetched, Done, NamesOf, Unused
    <2>6. s \in Matched(sel)
      BY <2>5 DEF Matched, Candidates, MatchesSeries
    <2>7. Credited(r, sel)
      BY <1>1, <2>2 DEF Inv, CorrelationInv, Fetched, Done
    <2>8. s \in Used
      BY <2>5, <2>6, <2>7 DEF Credited, Used
    <2> QED
      BY <2>8 DEF Drops, DropMetricNames, NamesOf
  <1> QED
    BY <1>1, SpecInv, PTL

-----------------------------------------------------------------------------
(* The calls that a scan makes: Replication.                                *)

\* FlattenSeq of five sequences, which is defined by recursion over them.
LEMMA FlattenFive ==
  ASSUME NEW s, s = [i \in 1..5 |-> s[i]]
  PROVE  FlattenSeq(s) = (((s[1] \o s[2]) \o s[3]) \o s[4]) \o s[5]
  <1> DEFINE S == {s[i] : i \in 1..5}
             Step(f) == [i \in 1..Len(s) |-> IF i = 1 THEN s[i] ELSE f[i-1] \o s[i]]
             join(a, b) == a \o b
             flatten == CHOOSE f : f = Step(f)
             g == [i \in 1..5 |-> CASE i = 1 -> s[1]
                                    [] i = 2 -> s[1] \o s[2]
                                    [] i = 3 -> (s[1] \o s[2]) \o s[3]
                                    [] i = 4 -> ((s[1] \o s[2]) \o s[3]) \o s[4]
                                    [] i = 5 -> (((s[1] \o s[2]) \o s[3]) \o s[4]) \o s[5]]
  <1>1. s \in Seq(S) /\ Len(s) = 5
    <2>1. s \in [1..5 -> S]
      OBVIOUS
    <2>2. s \in Seq(S)
      BY <2>1, IsASeq
    <2>3. DOMAIN s = 1..5
      BY <2>1
    <2>4. DOMAIN s = 1..Len(s) /\ Len(s) \in Nat
      BY <2>2, LenProperties
    <2> QED
      BY <2>2, <2>3, <2>4
  <1>2. \A i \in 1..5 : g[i] = IF i = 1 THEN s[i] ELSE g[i-1] \o s[i]
    <2> TAKE i \in 1..5
    <2> QED
      BY i \in {1, 2, 3, 4, 5}
  <1>3. g = Step(g)
    BY <1>1, <1>2
  <1>4. flatten = Step(flatten)
    <2> HIDE DEF Step, g
    <2> QED
      BY <1>3
  <1>5. FlattenSeq(s) = flatten[Len(s)]
    BY <1>1 DEF FlattenSeq
  <1> HIDE DEF flatten
  <1>6. \A i \in 1..5 : flatten[i] = IF i = 1 THEN s[i] ELSE join(flatten[i-1], s[i])
    BY <1>1, <1>4
  <1> HIDE DEF join
  <1>7. /\ flatten[1] = s[1]
        /\ flatten[2] = join(flatten[1], s[2]) /\ flatten[3] = join(flatten[2], s[3])
        /\ flatten[4] = join(flatten[3], s[4]) /\ flatten[5] = join(flatten[4], s[5])
    BY <1>6
  <1>8. FlattenSeq(s) = flatten[5]
    BY <1>1, <1>5
  <1> QED
    BY <1>7, <1>8, Zenon DEF join

\* The lines of one field.
Row(h, f) == IF f \in DOMAIN h THEN [j \in DOMAIN h[f] |-> <<f, h[f][j]>>] ELSE <<>>

\* Lines puts the lines of the fields after each other.
LEMMA LinesAre ==
  ASSUME NEW h, NEW fields, DOMAIN fields = 1..5
  PROVE  Lines(h, fields)
           = (((Row(h, fields[1]) \o Row(h, fields[2])) \o Row(h, fields[3])) \o Row(h, fields[4]))
               \o Row(h, fields[5])
  <1> DEFINE rows == [i \in DOMAIN fields |-> Row(h, fields[i])]
  <1>1. Lines(h, fields) = FlattenSeq(rows)
    BY DEF Lines, Row
  <1>2. /\ rows = [i \in 1..5 |-> rows[i]]
        /\ \A i \in 1..5 : rows[i] = Row(h, fields[i])
    OBVIOUS
  <1> HIDE DEF rows
  <1>3. /\ rows[1] = Row(h, fields[1]) /\ rows[2] = Row(h, fields[2]) /\ rows[3] = Row(h, fields[3])
        /\ rows[4] = Row(h, fields[4]) /\ rows[5] = Row(h, fields[5])
    BY <1>2
  <1>4. FlattenSeq(rows) = (((rows[1] \o rows[2]) \o rows[3]) \o rows[4]) \o rows[5]
    BY <1>2, FlattenFive
  <1> QED
    BY <1>1, <1>3, <1>4, Zenon

LEMMA TwoSingletons == ASSUME NEW a, NEW b PROVE <<a>> \o <<b>> = <<a, b>>
  <1>1. <<a>> \in Seq({a, b}) /\ <<b>> \in Seq({a, b}) /\ <<a, b>> \in Seq({a, b})
    OBVIOUS
  <1> DEFINE ab == <<a>> \o <<b>>
  <1>2. ab \in Seq({a, b}) /\ Len(ab) = 2 /\ ab[1] = a /\ ab[2] = b
    <2>1. /\ ab \in Seq({a, b})
          /\ Len(ab) = Len(<<a>>) + Len(<<b>>)
          /\ \A i \in 1 .. Len(<<a>>) + Len(<<b>>) : ab[i] =
                       IF i <= Len(<<a>>) THEN <<a>>[i] ELSE <<b>>[i - Len(<<a>>)]
      BY <1>1, ConcatProperties
    <2> HIDE DEF ab
    <2>2. Len(<<a>>) = 1 /\ Len(<<b>>) = 1
      OBVIOUS
    <2> QED
      BY <2>1, <2>2
  <1> HIDE DEF ab
  <1>3. ab = <<a, b>>
    BY <1>1, <1>2, SeqEqual
  <1> QED
    BY <1>3 DEF ab

\* The lines of the header of a request, in both orders, whatever the key.
LEMMA RequestLines ==
  ASSUME NEW h, NEW k,
         h = [f \in {"Authorization", "Content-Type"} |->
                IF f = "Authorization" THEN <<k>> ELSE <<"application/json">>]
  PROVE  /\ SortedHeaderLines(h)
               = <<<<"Authorization", k>>, <<"Content-Type", "application/json">>>>
         /\ Lines(h, CurlFieldNames)
               = <<<<"Content-Type", "application/json">>, <<"Authorization", k>>>>
  <1> DEFINE auth == <<<<"Authorization", k>>>>
             json == <<<<"Content-Type", "application/json">>>>
             S == {<<"Authorization", k>>, <<"Content-Type", "application/json">>}
  <1>1. DOMAIN h = {"Authorization", "Content-Type"}
    OBVIOUS
  <1>2. h["Authorization"] = <<k>> /\ h["Content-Type"] = <<"application/json">>
    OBVIOUS
  <1>3. Row(h, "Authorization") = auth
    BY <1>1, <1>2 DEF Row
  <1>4. Row(h, "Content-Type") = json
    BY <1>1, <1>2 DEF Row
  <1>5. Row(h, "Cookie") = <<>> /\ Row(h, "Date") = <<>> /\ Row(h, "Set-Cookie") = <<>>
    BY <1>1 DEF Row
  <1> HIDE DEF auth, json
  <1>6. SortedHeaderLines(h)
          = (((Row(h, "Authorization") \o Row(h, "Content-Type")) \o Row(h, "Cookie"))
               \o Row(h, "Date")) \o Row(h, "Set-Cookie")
    <2> DEFINE fields == FieldNames
    <2>1. /\ DOMAIN fields = 1..5
          /\ fields[1] = "Authorization" /\ fields[2] = "Content-Type" /\ fields[3] = "Cookie"
          /\ fields[4] = "Date" /\ fields[5] = "Set-Cookie"
      BY DEF FieldNames
    <2> QED
      BY <2>1, LinesAre, Zenon DEF SortedHeaderLines
  <1>7. SortedHeaderLines(h) = (((auth \o json) \o <<>>) \o <<>>) \o <<>>
    BY <1>3, <1>4, <1>5, <1>6, Zenon
  <1>8. Lines(h, CurlFieldNames)
          = (((Row(h, "Content-Type") \o Row(h, "Date")) \o Row(h, "Set-Cookie"))
               \o Row(h, "Cookie")) \o Row(h, "Authorization")
    <2> DEFINE fields == CurlFieldNames
    <2>1. /\ DOMAIN fields = 1..5
          /\ fields[1] = "Content-Type" /\ fields[2] = "Date" /\ fields[3] = "Set-Cookie"
          /\ fields[4] = "Cookie" /\ fields[5] = "Authorization"
      BY DEF CurlFieldNames
    <2> QED
      BY <2>1, LinesAre, Zenon
  <1>9. Lines(h, CurlFieldNames) = (((json \o <<>>) \o <<>>) \o <<>>) \o auth
    BY <1>3, <1>4, <1>5, <1>8, Zenon
  <1>10. auth \in Seq(S) /\ json \in Seq(S)
    BY DEF auth, json
  <1> HIDE DEF S
  <1>11. auth \o json \in Seq(S)
    BY <1>10, ConcatProperties
  <1>12. auth \o json = <<<<"Authorization", k>>, <<"Content-Type", "application/json">>>>
    BY TwoSingletons DEF auth, json
  <1>13. json \o auth = <<<<"Content-Type", "application/json">>, <<"Authorization", k>>>>
    BY TwoSingletons DEF auth, json
  <1>14. SortedHeaderLines(h) = auth \o json
    BY <1>7, <1>11, ConcatEmptySeq, Zenon
  <1>15. Lines(h, CurlFieldNames) = json \o auth
    BY <1>9, <1>10, ConcatEmptySeq, Zenon
  <1> QED
    BY <1>12, <1>13, <1>14, <1>15, Zenon

\* A copy of that header has another key, as a key is never empty.
LEMMA RedactedRequest ==
  ASSUME NEW c
  PROVE  RedactedHeadersCopy(RequestOf(c).header)
           = [f \in {"Authorization", "Content-Type"} |->
                IF f = "Authorization" THEN <<Redacted>> ELSE <<"application/json">>]
  <1> DEFINE h == RequestOf(c).header
  <1>1. h = [f \in {"Authorization", "Content-Type"} |->
               IF f = "Authorization" THEN <<Key>> ELSE <<"application/json">>]
    BY DEF RequestOf
  <1> HIDE DEF h
  <1>2. /\ DOMAIN h = {"Authorization", "Content-Type"}
        /\ h["Authorization"] = <<Key>> /\ h["Content-Type"] = <<"application/json">>
    BY <1>1
  <1>3. Head(h["Authorization"]) = Key
    BY <1>2
  <1>4. RedactedHeadersCopy(h)
          = [f \in {"Authorization", "Content-Type"} |->
               IF f = "Authorization" THEN <<Redacted>> ELSE <<"application/json">>]
    BY <1>2, <1>3, KeyAssumption DEF RedactedHeadersCopy, Secrets
  <1> QED
    BY <1>4 DEF h

\* The request that is built for the text is the one that was sent.
LEMMA RebuiltIsSent ==
  ASSUME NEW c PROVE ReplicaOf(c) = RequestOf(c)
  <1>1. [f \in {"Content-Type", "Authorization"} |->
           IF f = "Content-Type" THEN <<"application/json">> ELSE <<Key>>]
        = [f \in {"Authorization", "Content-Type"} |->
           IF f = "Authorization" THEN <<Key>> ELSE <<"application/json">>]
    OBVIOUS
  <1> QED
    BY <1>1 DEF ReplicaOf, RequestOf

\* So the text of any error replays its request.
LEMMA TextReplays ==
  ASSUME NEW c, NEW response
  PROVE  Replays(Replicate(RequestOf(c), response), RequestOf(c))
  <1> DEFINE request == RequestOf(c)
             text == Replicate(request, response)
             auth == <<"Authorization", Redacted>>
             key  == <<"Authorization", Key>>
             json == <<"Content-Type", "application/json">>
             lines == CurlHeaderLines(request.header)
             curl == [i \in DOMAIN text.curl |-> text.curl[i].line]
             hidden(line) == IF line[1] \in Secrets THEN <<line[1], Redacted>> ELSE line
  <1>1. request.header = [f \in {"Authorization", "Content-Type"} |->
                            IF f = "Authorization" THEN <<Key>> ELSE <<"application/json">>]
    BY DEF RequestOf
  <1>2. SortedHeaderLines(request.header) = <<key, json>>
    <2> HIDE DEF request
    <2> QED
      BY <1>1, RequestLines
  <1>3. lines = <<json, auth>>
    BY RedactedRequest, RequestLines DEF CurlHeaderLines
  <1>4. SortedHeaderLines(RedactedHeadersCopy(request.header)) = <<auth, json>>
    BY RedactedRequest, RequestLines
  <1> HIDE DEF request, lines
  <1>5. /\ text.url = <<request.url, request.query>>
        /\ text.request = <<auth, json>>
        /\ text.curl = [i \in DOMAIN lines |-> [line |-> lines[i], continued |-> i # Len(lines)]]
    BY <1>4 DEF Replicate, lines
  <1>6. DOMAIN lines = {1, 2} /\ Len(lines) = 2 /\ lines[1] = json /\ lines[2] = auth
    BY <1>3
  <1> HIDE DEF text, auth, json
  <1>7. /\ DOMAIN text.curl = {1, 2}
        /\ \A i \in {1, 2} : text.curl[i].line = lines[i] /\ text.curl[i].continued = (i # 2)
    <2> DEFINE entry(i) == [line |-> lines[i], continued |-> i # Len(lines)]
    <2>1. DOMAIN text.curl = {1, 2} /\ \A i \in {1, 2} : text.curl[i] = entry(i)
      <3> HIDE DEF entry
      <3>1. text.curl = [i \in DOMAIN lines |-> entry(i)]
        BY <1>5 DEF entry
      <3> QED
        BY <1>6, <3>1
    <2>2. \A i : entry(i).line = lines[i] /\ entry(i).continued = (i # Len(lines))
      BY Zenon
    <2> HIDE DEF entry
    <2>3. \A i \in {1, 2} : text.curl[i].continued = (i # Len(lines))
      BY <2>1, <2>2, Zenon
    <2>4. \A i \in {1, 2} : text.curl[i].line = lines[i]
      BY <2>1, <2>2, Zenon
    <2> QED
      BY <1>6, <2>1, <2>3, <2>4, Zenon
  <1>8. curl = <<json, auth>>
    <2>1. curl = [i \in {1, 2} |-> <<json, auth>>[i]]
      BY <1>6, <1>7
    <2> QED
      BY <2>1
  <1>9. ToSet(curl) = {json, auth} /\ DOMAIN curl = {1, 2} /\ Len(curl) = 2 /\ curl[2] = auth
    BY <1>8 DEF ToSet
  <1>10. ToSet(text.request) = {auth, json}
    BY <1>5 DEF ToSet
  <1>11. ToSet(<<key, json>>) = {key, json} /\ Len(<<key, json>>) = 2
    BY DEF ToSet
  <1>12. hidden(key) = auth /\ hidden(json) = json
    BY DEF auth, json, Secrets
  <1>13. {hidden(line) : line \in ToSet(<<key, json>>)} = {json, auth}
    <2> HIDE DEF hidden, key
    <2> QED
      BY <1>11, <1>12
  <1>14. auth[1] = "Authorization"
    BY DEF auth
  <1> HIDE DEF curl, key, hidden, request
  <1>15. \A i \in DOMAIN curl : text.curl[i].continued <=> i < Len(curl)
    <2>1. \A i \in {1, 2} : i # 2 <=> i < Len(curl)
      BY <1>9
    <2> QED
      BY <1>7, <1>9, <2>1, Zenon
  <1>16. Len(curl) = Len(SortedHeaderLines(request.header))
    BY <1>2, <1>9, <1>11
  <1>17. ToSet(curl) = {hidden(line) : line \in ToSet(SortedHeaderLines(request.header))}
    BY <1>2, <1>9, <1>13
  <1>18. ToSet(text.request) = ToSet(curl)
    BY <1>9, <1>10
  <1>19. curl[Len(curl)][1] = "Authorization"
    BY <1>9, <1>14
  <1>20. Replays(text, request)
    BY <1>5, <1>15, <1>16, <1>17, <1>18, <1>19, Zenon DEF Replays, curl, hidden
  <1> QED
    BY <1>20 DEF text, request

-----------------------------------------------------------------------------
(* The steps of a call.                                                    *)

\* Until a call is done it has no error and the request is the one built for it; a
\* body is decoded only if it has been read whole.
CallInv ==
  /\ call \in Calls /\ answer \in Answer /\ size \in 0..MaxSize
  /\ pc \in {"build", "sent", "status", "decode", "done"}
  /\ pc # "build" => req = RequestOf(call)
  /\ pc # "done" => err = None
  /\ pc = "status" => answer.arrives
  /\ pc = "decode" => Get(answer)
  /\ RequestReplayed
  /\ BodyNotMisquoted
  /\ OutcomeIsApiCalls

\* A call whose body is not there has to end with an error.
LEMMA NoOutcome ==
  ASSUME CallInv, ~Get(answer) PROVE Outcome = "error"
  <1>1. call.kind \in {"metrics", "list", "dashboard"}
    BY CallsAssumption DEF CallInv
  <1>2. PrometheusDataOf(answer) = "error" /\ ListOf(answer) = "error" /\ BodyOf(answer) = "error"
    BY DEF PrometheusDataOf, ListOf, BodyOf
  <1> QED
    BY <1>1, <1>2 DEF Outcome

\* BodyNotMisquoted, of an error with these parts.
Quoting(kind, excerpt, text) ==
  /\ kind = "status" =>
       LET body == text.response.body
       IN  QuotedWell(body, size, BodyLimit) /\ (~body.cut => answer.whole)
  /\ kind = "decode" /\ text # None =>
       \E n \in (IF answer.body = "mistyped" THEN 0..size ELSE {size}) :
         QuotedWell(excerpt, n, ExcerptLimit)

\* An error that ends a call well.
LEMMA EndsWell ==
  ASSUME CallInv, NEW step \in {"sent", "status", "decode"}, NEW kind, NEW excerpt, NEW text,
         Ends(step, kind, excerpt, text),
         text = None \/ Replays(text, req),
         Quoting(kind, excerpt, text),
         Outcome = "error"
  PROVE  CallInv'
  <1>1. /\ pc' = "done" /\ UNCHANGED <<call, req, answer, size>>
        /\ err' = [is |-> kind, excerpt |-> excerpt, text |-> text]
        /\ pc = step
    BY DEF Ends
  <1>2. err'.is = kind /\ err'.excerpt = excerpt /\ err'.text = text
    BY <1>1
  <1>3. err' # None
    BY <1>1 DEF None
  <1>4. RequestReplayed'
    BY <1>1, <1>2 DEF RequestReplayed
  <1>5. BodyNotMisquoted'
    BY <1>1, <1>2 DEF BodyNotMisquoted, Quoting
  <1>6. OutcomeIsApiCalls'
    BY <1>1, <1>3 DEF OutcomeIsApiCalls, Outcome, PrometheusDataOf, ListOf, BodyOf, Get
  <1> QED
    BY <1>1, <1>4, <1>5, <1>6 DEF CallInv

\* Both texts that an error may have.
LEMMA ErrorTexts ==
  ASSUME CallInv, pc # "build", NEW response
  PROVE  /\ Replays(Replicate(req, response), req)
         /\ Replays(Replicate(ReplicaOf(call), response), req)
  <1>1. req = RequestOf(call) /\ ReplicaOf(call) = RequestOf(call)
    BY RebuiltIsSent DEF CallInv
  <1> QED
    BY <1>1, TextReplays

\* What readResponseBodyLimited quotes of a body, and what truncate does.
LEMMA BodyWell ==
  ASSUME CallInv, NEW body,
         body = ReadResponseBodyLimited(size, answer.whole), body # None
  PROVE  /\ QuotedWell([shown |-> body.shown, cut |-> body.cut], size, BodyLimit)
         /\ ~body.cut => answer.whole
  <1>1. size \in Nat /\ BodyLimit \in Nat /\ answer.whole \in BOOLEAN
    BY LimitsAssumption DEF CallInv, Answer
  <1>2. /\ answer.whole \/ size > BodyLimit
        /\ body.shown = IF size > BodyLimit THEN BodyLimit ELSE size
        /\ body.cut = (size > BodyLimit)
    BY <1>1 DEF ReadResponseBodyLimited
  <1> DEFINE quote == [shown |-> body.shown, cut |-> body.cut]
  <1>3. quote.shown = body.shown /\ quote.cut = body.cut
    OBVIOUS
  <1> HIDE DEF quote
  <1>4. CASE size > BodyLimit
    <2>1. quote.cut /\ quote.shown = BodyLimit /\ body.cut
      BY <1>2, <1>3, <1>4
    <2>2. QuotedWell(quote, size, BodyLimit)
      BY <1>1, <1>4, <2>1 DEF QuotedWell
    <2> QED
      BY <2>1, <2>2, Zenon DEF quote
  <1>5. CASE ~(size > BodyLimit)
    <2>1. ~quote.cut /\ quote.shown = size /\ answer.whole
      BY <1>2, <1>3, <1>5
    <2>2. QuotedWell(quote, size, BodyLimit)
      BY <1>1, <1>5, <2>1 DEF QuotedWell
    <2> QED
      BY <2>1, <2>2, Zenon DEF quote
  <1> QED
    BY <1>4, <1>5

LEMMA TruncateWell ==
  ASSUME NEW n \in Nat
  PROVE  QuotedWell(Truncate(n), n, ExcerptLimit)
  BY LimitsAssumption DEF Truncate, QuotedWell

\* Each step of a call.
LEMMA CallStep ==
  ASSUME CallInv, [CallNext]_callVars
  PROVE  CallInv'
  <1>1. CASE Build
    BY <1>1 DEF Build, CallInv, RequestReplayed, BodyNotMisquoted, OutcomeIsApiCalls
  <1>2. CASE TransportFails
    <2>1. ~Get(answer)
      BY <1>2 DEF TransportFails, Get
    <2>2. Outcome = "error"
      BY <2>1, NoOutcome
    <2>3. pc # "build"
      BY <1>2 DEF TransportFails, Ends
    <2>4. Replays(Replicate(req, None), req)
      BY <2>3, ErrorTexts
    <2>5. Quoting("transport", Nothing, Replicate(req, None))
      BY DEF Quoting
    <2> QED
      BY <1>2, <2>2, <2>4, <2>5, EndsWell DEF TransportFails
  <1>3. CASE Arrives
    BY <1>3 DEF Arrives, Passes, CallInv, RequestReplayed, BodyNotMisquoted,
      OutcomeIsApiCalls
  <1>4. CASE BadStatus
    <2> DEFINE body == ReadResponseBodyLimited(size, answer.whole)
               shown == [shown |-> body.shown, cut |-> body.cut]
    <2>1. ~Get(answer)
      BY <1>4 DEF BadStatus, Get
    <2>2. Outcome = "error"
      BY <2>1, NoOutcome
    <2>3. pc # "build"
      BY <1>4 DEF BadStatus, Ends
    <2>4. CASE body = None
      <3>1. Ends("status", "read", Nothing, Replicate(req, Response(Nothing)))
        BY <1>4, <2>4 DEF BadStatus
      <3>2. Replays(Replicate(req, Response(Nothing)), req)
        BY <2>3, ErrorTexts
      <3>3. Quoting("read", Nothing, Replicate(req, Response(Nothing)))
        BY DEF Quoting
      <3> QED
        BY <2>2, <3>1, <3>2, <3>3, EndsWell
    <2>5. CASE body # None
      <3> DEFINE text == Replicate(req, Response(shown))
      <3>1. Ends("status", "status", Nothing, text)
        BY <1>4, <2>5 DEF BadStatus
      <3>2. Replays(text, req)
        BY <2>3, ErrorTexts
      <3>3. text.response.body = shown
        BY DEF Replicate, Response
      <3>4. QuotedWell(shown, size, BodyLimit) /\ (~body.cut => answer.whole)
        BY <2>5, BodyWell
      <3>5. Quoting("status", Nothing, text)
        BY <3>3, <3>4 DEF Quoting
      <3> QED
        BY <2>2, <3>1, <3>2, <3>5, EndsWell
    <2> QED
      BY <2>4, <2>5
  <1>5. CASE BodyFails
    <2>1. ~Get(answer)
      BY <1>5 DEF BodyFails, Get
    <2>2. Outcome = "error"
      BY <2>1, NoOutcome
    <2>3. pc # "build"
      BY <1>5 DEF BodyFails, Ends
    <2>4. Replays(Replicate(req, Response(Nothing)), req)
      BY <2>3, ErrorTexts
    <2>5. Quoting("read", Nothing, Replicate(req, Response(Nothing)))
      BY DEF Quoting
    <2> QED
      BY <1>5, <2>2, <2>4, <2>5, EndsWell DEF BodyFails
  <1>6. CASE BodyRead
    BY <1>6 DEF BodyRead, Passes, CallInv, RequestReplayed, BodyNotMisquoted,
      OutcomeIsApiCalls, Get
  <1>7. CASE DecodeFails
    <2>1. CASE /\ call.kind = "metrics"
               /\ answer.body \notin {"expected", "noData"}
               /\ \E n \in (IF answer.body = "mistyped" THEN 0..size ELSE {size}) :
                    Ends("decode", "decode", Truncate(n),
                              Replicate(ReplicaOf(call), None))
      <3> DEFINE text == Replicate(ReplicaOf(call), None)
      <3>1. PICK n \in (IF answer.body = "mistyped" THEN 0..size ELSE {size}) :
              Ends("decode", "decode", Truncate(n), text)
        BY <2>1
      <3>2. Outcome = "error"
        BY <2>1 DEF Outcome, PrometheusDataOf
      <3>3. Replays(text, req)
        BY <3>1, ErrorTexts DEF Ends
      <3>4. n \in Nat
        BY <3>1 DEF CallInv
      <3>5. Quoting("decode", Truncate(n), text)
        BY <3>1, <3>4, TruncateWell DEF Quoting
      <3> QED
        BY <3>1, <3>2, <3>3, <3>5, EndsWell
    <2>2. CASE /\ call.kind = "list"
               /\ answer.body \in {"mistyped", "garbage"}
               /\ Ends("decode", "decode", Nothing, None)
      <3>1. Outcome = "error"
        BY <2>2 DEF Outcome, ListOf
      <3>2. Quoting("decode", Nothing, None)
        BY DEF Quoting
      <3> QED
        BY <2>2, <3>1, <3>2, EndsWell
    <2> QED
      BY <1>7, <2>1, <2>2 DEF DecodeFails
  <1>8. CASE Decoded
    <2>1. Passes("decode", "done") /\ Outcome # "error"
      <3>1. Passes("decode", "done") /\ Get(answer)
        BY <1>8 DEF Decoded, Passes, CallInv
      <3>2. CASE call.kind = "metrics" /\ answer.body \in {"expected", "noData"}
        BY <3>1, <3>2 DEF Outcome, PrometheusDataOf
      <3>3. CASE call.kind = "list" /\ answer.body \notin {"mistyped", "garbage"}
        BY <3>1, <3>3 DEF Outcome, ListOf
      <3>4. CASE call.kind = "dashboard"
        BY <3>1, <3>4 DEF Outcome, BodyOf
      <3> QED
        BY <1>8, <3>1, <3>2, <3>3, <3>4 DEF Decoded
    <2>2. pc' = "done" /\ UNCHANGED <<call, req, answer, size, err>> /\ err = None
      BY <2>1 DEF Passes, CallInv
    <2>3. OutcomeIsApiCalls'
      BY <2>1, <2>2 DEF OutcomeIsApiCalls, Outcome, PrometheusDataOf, ListOf,
        BodyOf, Get
    <2>4. pc # "build"
      BY <2>1 DEF Passes
    <2> QED
      BY <2>2, <2>3, <2>4 DEF CallInv, RequestReplayed, BodyNotMisquoted
  <1>9. CASE UNCHANGED callVars
    BY <1>9 DEF callVars, CallInv, RequestReplayed, BodyNotMisquoted,
      OutcomeIsApiCalls, Outcome, PrometheusDataOf,
      ListOf, BodyOf, Get
  <1> QED
    BY <1>1, <1>2, <1>3, <1>4, <1>5, <1>6, <1>7, <1>8, <1>9 DEF CallNext

LEMMA CallAlways == CallSpec => []CallInv
  <1>1. CallInit => CallInv
    BY DEF CallInit, CallInv, RequestReplayed, BodyNotMisquoted, OutcomeIsApiCalls
  <1>2. CallInv /\ [CallNext]_callVars => CallInv'
    BY CallStep
  <1> QED
    BY <1>1, <1>2, PTL DEF CallSpec

\* The command in the text of an error is the request that was sent, with the key
\* nowhere and its place on the last line, for any URL, query and key.
THEOREM CommandReplays == CallSpec => []RequestReplayed
  <1>1. CallInv => RequestReplayed
    BY DEF CallInv
  <1> QED
    BY <1>1, CallAlways, PTL

\* An error quotes a body within its limit and says whether it is cut, for all
\* limits and sizes of bodies.
THEOREM BodiesQuoted == CallSpec => []BodyNotMisquoted
  <1>1. CallInv => BodyNotMisquoted
    BY DEF CallInv
  <1> QED
    BY <1>1, CallAlways, PTL

\* A call has an error exactly where ApiCalls, with which the scan is modelled,
\* says so.
THEOREM CallsAreApiCalls == CallSpec => []OutcomeIsApiCalls
  <1>1. CallInv => OutcomeIsApiCalls
    BY DEF CallInv
  <1> QED
    BY <1>1, CallAlways, PTL
=============================================================================
