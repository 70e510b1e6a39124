---------------------------- MODULE SeriesFetch ----------------------------
(***************************************************************************)
(* The parallel series fetch of scan.Run, internal/scan/scan.go: one       *)
(* goroutine per metric name, at most Workers of them past the semaphore,  *)
(* a catalog and a counter under a mutex, and an errgroup that remembers   *)
(* the first error and cancels the others' context.                        *)
(*                                                                         *)
(* The context scan.Run gets is never cancelled by its callers, so gctx is *)
(* cancelled by a failing goroutine only.  A request for a series has      *)
(* http.Client's timeout, so that it returns sooner or later.              *)
(***************************************************************************)
EXTENDS Integers, FiniteSets

CONSTANTS
  Metrics,   \* the metric names left after omitCoralogixInternalMetricNames
  NoMetric,  \* no metric
  Series,    \* the series (label sets) that the API may list
  Limit,     \* opt.SeriesLimitPerMetric
  Workers    \* opt.Workers

ASSUME MetricsAssumption == IsFiniteSet(Metrics) /\ NoMetric \notin Metrics
ASSUME SeriesAssumption  == IsFiniteSet(Series)
ASSUME WorkersAssumption == Workers \in Nat \ {0}
ASSUME LimitAssumption   == Limit \in Nat \ {0}

VARIABLES
  main,       \* scan.Run: "spawn", "wait", then "ok" or "failed"
  pc,         \* the goroutine of each metric
  sem,        \* how many values are in the channel sem
  answer,     \* the series listed for each metric
  err,        \* what went wrong with each metric: "none", "own", "canceled"
  catalog,    \* catalogSeries
  truncated,  \* truncatedCount
  done,       \* metricsDone
  first,      \* the goroutine whose error the errgroup keeps
  cancelled   \* gctx is done

shared == <<catalog, truncated, done>>
group  == <<first, cancelled>>
vars   == <<main, pc, sem, answer, err, shared, group>>

Init ==
  /\ main = "spawn"
  /\ pc = [m \in Metrics |-> "new"]
  /\ sem = 0
  /\ answer = [m \in Metrics |-> {}]
  /\ err = [m \in Metrics |-> "none"]
  /\ catalog = {}
  /\ truncated = 0
  /\ done = 0
  /\ first = NoMetric
  /\ cancelled = FALSE

Goto(m, from, to) == pc[m] = from /\ pc' = [pc EXCEPT ![m] = to]

\* g.Go starts the goroutine of m.
Spawn(m) ==
  /\ main = "spawn"
  /\ Goto(m, "new", "select")
  /\ UNCHANGED <<main, sem, answer, err, shared, group>>

\* case sem <- struct{}{}
AcquireOverfull(m) ==                        \* mutant: one slot too many
  /\ Goto(m, "select", "fetch")
  /\ sem <= Workers
  /\ sem' = sem + 1
  /\ UNCHANGED <<main, answer, err, shared, group>>
Acquire(m) ==
  /\ Goto(m, "select", "fetch")
  /\ sem < Workers
  /\ sem' = sem + 1
  /\ UNCHANGED <<main, answer, err, shared, group>>

\* case <-gctx.Done(): select may choose it even if there is a free slot.
GiveUp(m) ==
  /\ cancelled
  /\ Goto(m, "select", "return")
  /\ err' = [err EXCEPT ![m] = "canceled"]
  /\ UNCHANGED <<main, sem, answer, shared, group>>

\* FetchSeriesForMetric returns series; an answer may be in before the
\* cancellation is noticed.
FetchReturns(m, series) ==
  /\ Goto(m, "fetch", "merge")
  /\ Cardinality(series) <= Limit
  /\ answer' = [answer EXCEPT ![m] = series]
  /\ UNCHANGED <<main, sem, err, shared, group>>

\* It fails for a reason of its own, or because gctx is done.
FetchFails(m, why) ==
  /\ Goto(m, "fetch", "release")
  /\ why = "canceled" => cancelled
  /\ err' = [err EXCEPT ![m] = why]
  /\ UNCHANGED <<main, sem, answer, shared, group>>

TruncatedAbove(series) == Cardinality(series) > Limit   \* mutant: not >=
Truncated(series) == Cardinality(series) >= Limit

\* The section under mu.
MergeOverwrites(m) ==                        \* mutant: the last answer wins
  /\ Goto(m, "merge", "count")
  /\ truncated' = truncated + IF Truncated(answer[m]) THEN 1 ELSE 0
  /\ catalog' = answer[m]
  /\ UNCHANGED <<main, sem, answer, err, done, group>>
Merge(m) ==
  /\ Goto(m, "merge", "count")
  /\ truncated' = truncated + IF Truncated(answer[m]) THEN 1 ELSE 0
  /\ catalog' = catalog \cup answer[m]
  /\ UNCHANGED <<main, sem, answer, err, done, group>>

\* metricsDone.Add(1) and the status line.
Count(m) ==
  /\ Goto(m, "count", "release")
  /\ done' = done + 1
  /\ UNCHANGED <<main, sem, answer, err, catalog, truncated, group>>

\* The deferred <-sem.
ReleaseLeaks(m) ==                           \* mutant: keeps its slot
  /\ Goto(m, "release", "return")
  /\ UNCHANGED <<main, sem, answer, err, shared, group>>
Release(m) ==
  /\ Goto(m, "release", "return")
  /\ sem' = sem - 1
  /\ UNCHANGED <<main, answer, err, shared, group>>

\* The errgroup keeps the first error that is returned to it, and cancels.
ReturnLast(m) ==                             \* mutant: keeps the last error
  /\ Goto(m, "return", "gone")
  /\ IF err[m] # "none" THEN first' = m /\ cancelled' = TRUE ELSE UNCHANGED group
  /\ UNCHANGED <<main, sem, answer, err, shared>>
Return(m) ==
  /\ Goto(m, "return", "gone")
  /\ IF err[m] # "none" /\ first = NoMetric
       THEN first' = m /\ cancelled' = TRUE
       ELSE UNCHANGED group
  /\ UNCHANGED <<main, sem, answer, err, shared>>

\* The loop over metricNames is over.
StartWait ==
  /\ main = "spawn"
  /\ \A m \in Metrics : pc[m] # "new"
  /\ main' = "wait"
  /\ UNCHANGED <<pc, sem, answer, err, shared, group>>

\* g.Wait returns when every goroutine has, and scan.Run goes on or fails.
WaitReturns ==
  /\ main = "wait"
  /\ \A m \in Metrics : pc[m] = "gone"
  /\ main' = IF first = NoMetric THEN "ok" ELSE "failed"
  /\ UNCHANGED <<pc, sem, answer, err, shared, group>>

Worker(m) ==
  \/ Acquire(m) \/ GiveUp(m)
  \/ \E series \in SUBSET Series : FetchReturns(m, series)
  \/ \E why \in {"own", "canceled"} : FetchFails(m, why)
  \/ Merge(m) \/ Count(m) \/ Release(m) \/ Return(m)

Finished == main \in {"ok", "failed"}

Next ==
  \/ \E m \in Metrics : Spawn(m) \/ Worker(m)
  \/ StartWait
  \/ WaitReturns
  \/ Finished /\ UNCHANGED vars

Spec == Init /\ [][Next]_vars

\* Goroutines run, requests time out, and each goroutine takes a slot once,
\* so weak fairness is enough.
Fairness ==
  /\ \A m \in Metrics : WF_vars(Spawn(m)) /\ WF_vars(Worker(m))
  /\ WF_vars(StartWait) /\ WF_vars(WaitReturns)

FairSpec == Spec /\ Fairness

-----------------------------------------------------------------------------
(* Properties.                                                             *)

\* Every variable has its type; sem never holds more than its capacity.
TypeOK ==
  /\ main \in {"spawn", "wait", "ok", "failed"}
  /\ pc \in [Metrics -> {"new", "select", "fetch", "merge", "count", "release",
                         "return", "gone"}]
  /\ sem \in 0..Workers
  /\ answer \in [Metrics -> SUBSET Series]
  /\ err \in [Metrics -> {"none", "own", "canceled"}]
  /\ catalog \subseteq Series
  /\ truncated \in Nat
  /\ done \in Nat
  /\ first \in Metrics \cup {NoMetric}
  /\ cancelled \in BOOLEAN

\* At most Workers requests are under way.
FetchesBounded == Cardinality({m \in Metrics : pc[m] = "fetch"}) <= Workers

\* scan.Run goes on only with the series of every metric, and with the number
\* of metrics whose answer was cut at the limit.
ReportIsComplete ==
  main = "ok" =>
    /\ catalog = UNION {answer[m] : m \in Metrics}
    /\ truncated = Cardinality({m \in Metrics : Cardinality(answer[m]) = Limit})
    /\ done = Cardinality(Metrics)

\* The error that scan.Run returns is one that a request met by itself, never
\* the cancellation that another request's failure brought about.
RootCauseReported == main = "failed" => first \in Metrics /\ err[first] = "own"

\* The fetch comes to an end: no goroutine waits for a slot for ever.
FetchEnds == <>Finished

\* The fetch implements Gather: a metric is pending until its answer is merged.
Merged(m) == err[m] = "none" /\ pc[m] \in {"count", "release", "return", "gone"}

G == INSTANCE Gather WITH
       pending <- {m \in Metrics : ~Merged(m)},
       cause   <- first,
       verdict <- IF Finished THEN main ELSE "running"

\* Every step of the goroutines is a step of Gather or changes nothing there.
ImplementsGather == G!Spec
=============================================================================
