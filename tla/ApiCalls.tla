------------------------------ MODULE ApiCalls ------------------------------
(***************************************************************************)
(* What the calls of internal/coralogix/client.go make of an HTTP answer.  *)
(* No call is repeated, and each has the client's timeout, after which the *)
(* answer does not arrive.  The text of an error is left out.              *)
(***************************************************************************)

\* A body is a JSON object as expected; an object (or null) without the field
\* that is read; JSON of other types; or no JSON.  A Prometheus envelope may
\* also have a status other than "success", or null for its data.
Answer == [arrives: BOOLEAN, ok: BOOLEAN, whole: BOOLEAN,
           body: {"expected", "foreign", "mistyped", "garbage", "failure", "noData"}]

\* get returns a body.
Get(a) == a.arrives /\ a.ok /\ a.whole

\* json.Unmarshal into a struct gives nil for a field that is not there.
ListOf(a) == IF ~Get(a) \/ a.body \in {"mistyped", "garbage"} THEN "error"
             ELSE IF a.body = "expected" THEN "items" ELSE "nothing"

\* FetchDashboard returns the body as it is.
BodyOf(a) == IF ~Get(a) THEN "error"
             ELSE IF a.body = "expected" THEN "items" ELSE "nothing"

\* FetchMetricNames and FetchSeriesForMetric look at status and data.
PrometheusDataOf(a) ==
  IF ~Get(a) \/ a.body \notin {"expected", "noData"} THEN "error"
  ELSE IF a.body = "expected" THEN "items" ELSE "nothing"

\* What can come of a call.
ListOutcomes       == {ListOf(a) : a \in Answer}
DashboardOutcomes  == {BodyOf(a) : a \in Answer}
PrometheusOutcomes == {PrometheusDataOf(a) : a \in Answer}
=============================================================================
