--------------------------- MODULE BillingFetch ---------------------------
(***************************************************************************)
(* EnrichCatalog, internal/metricusage/client.go: one goroutine per metric *)
(* name, at most Workers of them past the semaphore, fetches the billing   *)
(* rows of its metric and shares each out among the catalog series with    *)
(* the same label names.  A request that fails costs a warning, not the    *)
(* other metrics' results.                                                 *)
(*                                                                         *)
(* The context is never cancelled (scan.Run gets context.Background()) and *)
(* no goroutine returns an error, so that neither gctx nor the error of    *)
(* Wait plays a part.  A call of FetchVariationUnits is one step here,     *)
(* with the result that VariationPages describes; it has no deadline.      *)
(***************************************************************************)
EXTENDS Integers, FiniteSets, Functions

CONSTANTS
  Metrics,   \* metricNames
  Labels,    \* label names other than __name__
  Catalog,   \* the keys of catalogSeries
  MetricOf,  \* the metric of each
  KeyOf,     \* variationKeyFromCatalogLabels of each: a set of label names
  Answers,   \* what FetchVariationUnits may return: usage by set of label names
  Workers    \* opt.Workers

Keys  == SUBSET Labels
Usage == [bytes: Nat, days: Nat]

ASSUME MetricsAssumption == IsFiniteSet(Metrics)
ASSUME CatalogAssumption == IsFiniteSet(Catalog) /\ MetricOf \in [Catalog -> Metrics]
ASSUME KeyOfAssumption   == KeyOf \in [Catalog -> Keys]
ASSUME AnswersAssumption ==
  \A a \in Answers : \A k \in DOMAIN a :
    k \in Keys /\ DOMAIN a[k] = {"bytes", "days"} /\ a[k].bytes \in Nat /\ a[k].days \in Nat
ASSUME WorkersAssumption == Workers \in Nat \ {0}

VARIABLES
  main,      \* EnrichCatalog: "wait", then "done"
  pc,        \* the goroutine of each metric
  sem,       \* how many values are in the channel sem
  byVar,     \* what FetchVariationUnits returned for each metric
  result,    \* the usage attributed to some of the series
  split,     \* splitCount, for the same series
  warnings,  \* the metrics that have a warning
  done,      \* the atomic counter of metrics
  mine,      \* what done.Add(1) gave each goroutine
  shown      \* the count in the status line

progress == <<done, mine, shown>>
vars     == <<main, pc, sem, byVar, result, split, warnings, progress>>

None == [k \in {} |-> 0]

\* Every goroutine is about to be started.
Init ==
  /\ main = "wait"
  /\ pc = [m \in Metrics |-> "select"]
  /\ sem = 0
  /\ byVar = [m \in Metrics |-> None]
  /\ result = None
  /\ split = None
  /\ warnings = {}
  /\ done = 0
  /\ mine = [m \in Metrics |-> 0]
  /\ shown = 0

Goto(m, from, to) == pc[m] = from /\ pc' = [pc EXCEPT ![m] = to]

SeriesOf(m) == {s \in Catalog : MetricOf[s] = m}

\* The series that share the variation of s: byVarKey.
GroupOfMetric(s) == SeriesOf(MetricOf[s])    \* mutant: all of the metric's
Group(s) == {t \in SeriesOf(MetricOf[s]) : KeyOf[t] = KeyOf[s]}

\* splitUsage: integer division, and the days are everyone's.
Split(u, n) == IF n <= 1 THEN u ELSE [u EXCEPT !.bytes = @ \div n]

-----------------------------------------------------------------------------
(* The goroutine of a metric.                                              *)

Acquire(m) ==
  /\ Goto(m, "select", "start")
  /\ sem < Workers
  /\ sem' = sem + 1
  /\ UNCHANGED <<main, byVar, result, split, warnings, progress>>

\* A metric without series is not asked about.
Call(m) ==
  /\ Goto(m, "start", IF SeriesOf(m) = {} THEN "count" ELSE "fetch")
  /\ UNCHANGED <<main, sem, byVar, result, split, warnings, progress>>

FetchReturns(m, answer) ==
  /\ Goto(m, "fetch", "merge")
  /\ byVar' = [byVar EXCEPT ![m] = answer]
  /\ UNCHANGED <<main, sem, result, split, warnings, progress>>

FetchFails(m) ==
  /\ Goto(m, "fetch", "warn")
  /\ UNCHANGED <<main, sem, byVar, result, split, warnings, progress>>

\* The section under mu of a failed request.
Warn(m) ==
  /\ Goto(m, "warn", "count")
  /\ warnings' = warnings \cup {m}
  /\ UNCHANGED <<main, sem, byVar, result, split, progress>>

\* The section under mu of a successful one: localResult and localSplit, one
\* entry for each series whose label names are those of some variation.
Billed(m) == {s \in SeriesOf(m) : KeyOf[s] \in DOMAIN byVar[m]}

MergeReplaces(m) ==                          \* mutant: the last result only
  /\ Goto(m, "merge", "count")
  /\ result' = [s \in Billed(m) |-> Split(byVar[m][KeyOf[s]], Cardinality(Group(s)))]
  /\ split' = [s \in Billed(m) |-> Cardinality(Group(s))]
  /\ UNCHANGED <<main, sem, byVar, warnings, progress>>
Merge(m) ==
  /\ Goto(m, "merge", "count")
  /\ result' = [s \in DOMAIN result \cup Billed(m) |->
                  IF s \in Billed(m) THEN Split(byVar[m][KeyOf[s]], Cardinality(Group(s)))
                  ELSE result[s]]
  /\ split' = [s \in DOMAIN split \cup Billed(m) |->
                 IF s \in Billed(m) THEN Cardinality(Group(s)) ELSE split[s]]
  /\ UNCHANGED <<main, sem, byVar, warnings, progress>>

\* The two halves of onProgress: the counter is taken, and then the status line
\* is set to it.  Another goroutine may set it in between.
Count(m) ==
  /\ Goto(m, "count", "show")
  /\ done' = done + 1
  /\ mine' = [mine EXCEPT ![m] = done + 1]
  /\ UNCHANGED <<main, sem, byVar, result, split, warnings, shown>>

ShowNext(m) ==                               \* mutant: the metric to come
  /\ Goto(m, "show", "release")
  /\ shown' = mine[m] + 1
  /\ UNCHANGED <<main, sem, byVar, result, split, warnings, done, mine>>
Show(m) ==
  /\ Goto(m, "show", "release")
  /\ shown' = mine[m]
  /\ UNCHANGED <<main, sem, byVar, result, split, warnings, done, mine>>

\* The deferred <-sem, and return nil.
ReleaseLeaks(m) ==                           \* mutant: keeps its slot
  /\ Goto(m, "release", "gone")
  /\ UNCHANGED <<main, sem, byVar, result, split, warnings, progress>>
ReleaseTwice(m) ==                           \* mutant: gives back two slots
  /\ Goto(m, "release", "gone")
  /\ sem' = sem - 2
  /\ UNCHANGED <<main, byVar, result, split, warnings, progress>>
Release(m) ==
  /\ Goto(m, "release", "gone")
  /\ sem' = sem - 1
  /\ UNCHANGED <<main, byVar, result, split, warnings, progress>>

\* g.Wait returns, and scan.Run puts the result into the report.
WaitReturns ==
  /\ main = "wait"
  /\ \A m \in Metrics : pc[m] = "gone"
  /\ main' = "done"
  /\ UNCHANGED <<pc, sem, byVar, result, split, warnings, progress>>

Answered(m) == FetchFails(m) \/ \E answer \in Answers : FetchReturns(m, answer)

Worker(m) == Acquire(m) \/ Call(m) \/ Warn(m) \/ Merge(m) \/ Count(m) \/ Show(m) \/ Release(m)

Next ==
  \/ \E m \in Metrics : Worker(m) \/ Answered(m)
  \/ WaitReturns
  \/ main = "done" /\ UNCHANGED vars

Spec == Init /\ [][Next]_vars

\* Goroutines run, and each takes a slot once; nothing is assumed of the calls.
FairSpec == Spec /\ WF_vars(WaitReturns) /\ \A m \in Metrics : WF_vars(Worker(m))

-----------------------------------------------------------------------------
(* Properties.                                                             *)

Done == main = "done"

\* Every variable has its type; sem never holds more than its capacity.
TypeOK ==
  /\ main \in {"wait", "done"}
  /\ pc \in [Metrics -> {"select", "start", "fetch", "merge", "warn", "count", "show", "release",
                        "gone"}]
  /\ sem \in 0..Workers
  /\ byVar \in [Metrics -> Answers \cup {None}]
  /\ DOMAIN result \subseteq Catalog
  /\ DOMAIN split = DOMAIN result
  /\ warnings \subseteq Metrics
  /\ done \in 0..Cardinality(Metrics)
  /\ mine \in [Metrics -> 0..done]
  /\ shown \in 0..done

\* A failed request takes nothing from the other metrics, in whatever order
\* the goroutines merge: at the end each metric with series in the catalog has
\* a warning and no billing, or billing for every series that has the label
\* names of one of its variations.
OneFailureLosesNothing ==
  Done =>
    /\ DOMAIN result = UNION {Billed(m) : m \in Metrics}
    /\ \A m \in warnings : Billed(m) = {}
    /\ \A m \in Metrics : SeriesOf(m) # {} => m \in warnings \/ byVar[m] \in Answers

\* The shares of a variation add up to its usage but for the remainder of the
\* integer division, which is less than the number of shares; and the split
\* count of a series is the number of shares.
SharesAddUp ==
  Done => \A s \in DOMAIN result :
    LET sharers == {t \in DOMAIN result : MetricOf[t] = MetricOf[s] /\ KeyOf[t] = KeyOf[s]}
        lost    == byVar[MetricOf[s]][KeyOf[s]].bytes
                     - SumFunctionOnSet([t \in sharers |-> result[t].bytes], sharers)
    IN  lost \in 0..(split[s] - 1) /\ split[s] = Cardinality(sharers)

\* In whatever order the goroutines get to the status line, it never counts a
\* metric that is not finished; and no two were given the same count.
Finished == {m \in Metrics : pc[m] \in {"show", "release", "gone"}}

ProgressHonest ==
  /\ shown <= Cardinality(Finished)
  /\ done = Cardinality(Finished)
  /\ \A m, n \in Finished : mine[m] = mine[n] => m = n

\* If no call hangs, every goroutine gets a slot and the fetch ends.
EnrichEnds == (\A m \in Metrics : []<>(pc[m] # "fetch")) => <>Done

\* README: a variation row is attributed to catalog series whose labels only
\* subset-match it.  Whichever of the two sets of names contains the other,
\* such a series would have billing.
SubsetMatchIsBilled ==
  Done => \A s \in Catalog :
    (\E k \in DOMAIN byVar[MetricOf[s]] : k \subseteq KeyOf[s] \/ KeyOf[s] \subseteq k)
      => s \in DOMAIN result
=============================================================================
