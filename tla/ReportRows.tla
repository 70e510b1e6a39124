---------------------------- MODULE ReportRows ----------------------------
(***************************************************************************)
(* What Report.Write puts into its files (internal/report): the unused     *)
(* series by cost, the rollups by metric, and the processors.              *)
(*                                                                         *)
(* Strings that are compared are their ranks: metric names and series keys *)
(* are numbers, "" is 0, and "(unknown)" is 1, as "(" sorts before what a  *)
(* metric name may start with.  Of the usage figures there are one that is *)
(* added up and the days; float rounding is left out.  The keys of a       *)
(* report's series are distinct, so that its lists are sets, sorted where  *)
(* the order is not that of the keys.                                      *)
(***************************************************************************)
EXTENDS Selectors, FiniteSetsExt, SequencesExt

CONSTANT Nil    \* no value

ASSUME NamesAreRanks == NoName = 0 /\ Metrics \subseteq Nat \ {0, 1}

Unknown == 1

SeriesBilling == [units: Nat, days: Nat]

\* UsedSeries and UnusedSeries: the labels, with the name apart, the key and
\* the billing.
ReportSeries == [name: Metrics \cup {NoName}, labels: [Keys -> Values \cup {Empty}],
                 series: Nat, billing: SeriesBilling \cup {Nil}]

UnitUsageOf(b) == IF b = Nil THEN 0 ELSE b.units

\* sort.Slice: the elements of S in the order of Before.
Sorted(S, Before(_, _)) ==
  CHOOSE list \in SetToSeqs(S) :
    \A i, j \in DOMAIN list : i < j => Before(list[i], list[j])

\* SortUnusedByCost: the most expensive first.
CostsMore(x, y) ==
  \/ UnitUsageOf(x.billing) > UnitUsageOf(y.billing)
  \/ UnitUsageOf(x.billing) = UnitUsageOf(y.billing) /\ x.series < y.series

SortUnusedByCost(ss) == Sorted(ss, CostsMore)

\* unusedRowsFromSeries; the split counts are of the billed series only.
UnusedRows(list, splitN) ==
  [i \in DOMAIN list |->
     LET u == list[i] IN
     [series  |-> u.series,
      metric  |-> u.name,
      present |-> u.billing # Nil,
      units   |-> UnitUsageOf(u.billing),
      days    |-> IF u.billing = Nil THEN 0 ELSE u.billing.days,
      splitN  |-> IF u.series \in DOMAIN splitN /\ splitN[u.series] > 1
                  THEN splitN[u.series] ELSE 0]]

Bucketed(name) == IF name = NoName THEN Unknown ELSE name

NoBuckets == [name \in {} |-> 0]
EmptyBucket == [n |-> 0, nb |-> 0, units |-> 0, days |-> 0]
BucketOf(m, name) == IF name \in DOMAIN m THEN m[name] ELSE EmptyBucket

\* m[name] = b.
WithBucket(m, name, b) ==
  [x \in DOMAIN m \cup {name} |-> IF x = name THEN b ELSE m[x]]

\* The rows of a rollup, by cost and then by name.
RollupRows(m) == {[metric |-> name, bucket |-> m[name]] : name \in DOMAIN m}

Outweighs(x, y) ==
  \/ x.bucket.units > y.bucket.units
  \/ x.bucket.units = y.bucket.units /\ x.metric < y.metric

SortRollup(m) == Sorted(RollupRows(m), Outweighs)

\* The body of the loop of AggregateUnusedByMetric.
AddRowUnbilled(m, row) ==                    \* mutant: n counts billed rows only
  LET name == Bucketed(row.metric)
      b    == BucketOf(m, name)
      k    == IF row.present THEN 1 ELSE 0
  IN  WithBucket(m, name, [n |-> b.n + k, nb |-> b.nb + k, units |-> b.units + row.units,
                           days |-> Max({b.days, row.days})])
AddRow(m, row) ==
  LET name == Bucketed(row.metric)
      b    == BucketOf(m, name)
  IN  WithBucket(m, name,
        IF row.present
        THEN [n |-> b.n + 1, nb |-> b.nb + 1, units |-> b.units + row.units,
              days |-> Max({b.days, row.days})]
        ELSE [b EXCEPT !.n = @ + 1])

AggregateUnusedByMetric(rows) == SortRollup(FoldLeft(AddRow, NoBuckets, rows))

\* add of AggregateAllByMetric, for one series of either list.
AddSeries(m, s) ==
  LET name == Bucketed(s.name)
      b    == BucketOf(m, name)
  IN  WithBucket(m, name, [b EXCEPT !.n = @ + 1, !.units = @ + UnitUsageOf(s.billing)])

AggregateAllByMetric(used, unused) ==
  SortRollup(FoldLeft(AddSeries, NoBuckets, SetToSeq(used) \o SetToSeq(unused)))

\* OTELUnusedProcessorsYAML: a section for each processor that has anything to
\* do, and "processors: {}" if none has.  Series without a name are passed over.
Named(ss) == {s \in ss : s.name # NoName}

OTELUnusedProcessorsYAML(used, unused) ==
  LET plan == [drop  |-> DropMetricNames(Named(used), Named(unused)),
               strip |-> StripStatements(Named(used), Named(unused))]
  IN  [section \in {x \in DOMAIN plan : plan[x] # {}} |-> plan[section]]

\* What is in each of the files of a report.  The CSV files have the rows of
\* the JSON files of the same names.
ContentOf(r) ==
  LET costRows == UnusedRows(SortUnusedByCost(r.unused), r.split)
      byMetric == AggregateUnusedByMetric(costRows)
  IN  [summary          |-> r,
       unused_series    |-> r.unused,
       unused_by_cost   |-> costRows,
       unused_by_metric |-> byMetric,
       all_by_metric    |-> AggregateAllByMetric(r.used, r.unused),
       otel_processors  |-> OTELUnusedProcessorsYAML(r.used, r.unused)]
=============================================================================
