--------------------------- MODULE MCReplication ---------------------------
(* An instance of Replication: a call of each kind, bodies below, at and    *)
(* above both limits, and responses without and with repeated fields.       *)
EXTENDS Replication

MCCalls ==
  {[kind |-> "metrics", url |-> "series", query |-> "match"],
   [kind |-> "list", url |-> "alerts", query |-> "page"],
   [kind |-> "dashboard", url |-> "dashboard", query |-> "none"]}

MCResponseHeaders ==
  {[f \in {} |-> <<>>],
   [f \in {"Content-Type", "Date", "Set-Cookie"} |->
      IF f = "Set-Cookie" THEN <<"a", "b">> ELSE <<f>>]}
=============================================================================
