--------------------------- MODULE MCBillingFetch ---------------------------
(***************************************************************************)
(* Model checking BillingFetch: a metric of which three series have two    *)
(* sets of label names, two metrics with one series, and one without any.  *)
(***************************************************************************)
EXTENDS BillingFetch, TLC

CONSTANTS m1, m2, m3, m4, job, env

MCCatalog == {<<m1, 1>>, <<m1, 2>>, <<m1, 3>>, <<m2, 1>>, <<m3, 1>>}
MCMetricOf == [s \in MCCatalog |-> s[1]]
MCKeyOf == [s \in MCCatalog |-> IF s[2] = 3 THEN {job, env} ELSE {job}]

Row(bytes) == [bytes |-> bytes, days |-> 7]
\* The last has nothing for any series.  The empty answer is not among these, as
\* it is what byVar has before there is one.
MCAnswers == { {job} :> Row(5), {job} :> Row(1) @@ {job, env} :> Row(4),
               {env} :> Row(2) }
=============================================================================
