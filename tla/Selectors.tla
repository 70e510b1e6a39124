----------------------------- MODULE Selectors -----------------------------
(***************************************************************************)
(* Series, selectors, and the two computations that connect them:          *)
(* which selectors a JSON document holds and which series a selector       *)
(* matches (internal/promqlextract), and what the generated OpenTelemetry  *)
(* fragment does to a metric (internal/report/otel.go).                    *)
(*                                                                         *)
(* A matcher is the set of values that it accepts, so that =, !=, =~ and   *)
(* !~ need no syntax.  A series has the value Empty for each key that it   *)
(* does not carry; CanonicalSeries, which is injective on label sets,      *)
(* makes two series one map entry exactly if they are equal here.          *)
(***************************************************************************)
EXTENDS Integers, FiniteSets

CONSTANTS
  Metrics,   \* metric names
  Internal,  \* those that start with "cx_"
  NoName,    \* "", the name of a selector without one
  Keys,      \* label names other than __name__
  Values,    \* non-empty label values
  Empty      \* ""

ASSUME InternalAssumption == Internal \subseteq Metrics
ASSUME NoNameAssumption   == NoName \notin Metrics
ASSUME EmptyAssumption    == Empty \notin Values

Series == [name: Metrics, labels: [Keys -> Values \cup {Empty}]]

\* name is the metric name a selector states, as foo{} or __name__="foo";
\* names is what all its matchers of __name__ accept.
Selector == [name: Metrics \cup {NoName}, names: SUBSET Metrics,
             accept: [Keys -> SUBSET (Values \cup {Empty})]]

LabelKeys(s) == {k \in Keys : s.labels[k] # Empty}

-----------------------------------------------------------------------------
(* internal/promqlextract                                                  *)

\* A string of a JSON document: does it have one of the characters {}()[],
\* does the PromQL parser take it, and which selectors are in it.
Text == [brackets: BOOLEAN, parses: BOOLEAN, selectors: SUBSET Selector]

ExtractFromJSON(doc) ==
  UNION {t.selectors : t \in {u \in doc : u.brackets /\ u.parses}}

\* Every matcher accepts the value of its label, "" if there is none.
MatchersAccept(sel, s) ==
  s.name \in sel.names /\ \A k \in Keys : s.labels[k] \in sel.accept[k]

MatchesIfPresent(sel, s) ==                  \* mutant: no value, no match
  /\ sel.name # NoName
  /\ s.name = sel.name
  /\ s.name \in sel.names
  /\ \A k \in Keys : sel.accept[k] # Values \cup {Empty} =>
       s.labels[k] \in sel.accept[k] \ {Empty}
MatchesSeries(sel, s) ==
  /\ sel.name # NoName
  /\ s.name = sel.name
  /\ MatchersAccept(sel, s)

-----------------------------------------------------------------------------
(* BuildOTELProcessorPlan                                                  *)

NamesOf(ss) == {s.name : s \in ss}
KeysOf(ss, m) == UNION {LabelKeys(s) : s \in {x \in ss : x.name = m}}

\* Metrics of which every series is unused.
DropMetricNames(used, unused) == NamesOf(unused) \ NamesOf(used)

\* delete_key(attributes, key) where metric.name == metric.
StripAnyUnused(used, unused) ==              \* mutant: usedKeys ignored
  {x \in (NamesOf(unused) \cap NamesOf(used)) \X Keys : x[2] \in KeysOf(unused, x[1])}
StripStatements(used, unused) ==
  {x \in (NamesOf(unused) \cap NamesOf(used)) \X Keys :
     x[2] \in KeysOf(unused, x[1]) \ KeysOf(used, x[1])}

\* What the collector's transform processor makes of a series.
Strip(stmts, s) ==
  [s EXCEPT !.labels = [k \in Keys |-> IF <<s.name, k>> \in stmts THEN Empty ELSE @[k]]]
=============================================================================
