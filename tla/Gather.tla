------------------------------- MODULE Gather -------------------------------
(***************************************************************************)
(* What the series part of scan.Run promises: the answers for all metrics  *)
(* are collected, in any order, and the verdict is "ok" with the whole     *)
(* catalog, or "failed" because of one metric whose request failed.        *)
(***************************************************************************)
EXTENDS Integers

CONSTANTS
  Metrics, NoMetric, Series,
  Truncated(_)   \* whether an answer reached the limit

VARIABLES
  pending,    \* the metrics whose series are not in the catalog
  catalog,    \* the series collected
  truncated,  \* how many answers reached the limit
  cause,      \* the metric the failure is put down to
  verdict     \* "running", "ok" or "failed"

vars == <<pending, catalog, truncated, cause, verdict>>

Init ==
  /\ pending = Metrics
  /\ catalog = {}
  /\ truncated = 0
  /\ cause = NoMetric
  /\ verdict = "running"

Collect(m, listed) ==
  /\ m \in pending
  /\ m # cause
  /\ pending' = pending \ {m}
  /\ catalog' = catalog \cup listed
  /\ truncated' = truncated + IF Truncated(listed) THEN 1 ELSE 0
  /\ UNCHANGED <<cause, verdict>>

Blame(m) ==
  /\ m \in pending
  /\ cause = NoMetric
  /\ cause' = m
  /\ UNCHANGED <<pending, catalog, truncated, verdict>>

Finish ==
  /\ verdict' = IF cause = NoMetric THEN "ok" ELSE "failed"
  /\ cause = NoMetric => pending = {}
  /\ UNCHANGED <<pending, catalog, truncated, cause>>

Next ==
  /\ verdict = "running"
  /\ \/ \E m \in Metrics : Blame(m) \/ \E listed \in SUBSET Series : Collect(m, listed)
     \/ Finish

Spec == Init /\ [][Next]_vars
=============================================================================
