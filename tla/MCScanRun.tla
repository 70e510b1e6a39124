----------------------------- MODULE MCScanRun -----------------------------
(***************************************************************************)
(* Model checking ScanRun: two customer metrics and an internal one, with  *)
(* one label, and documents that use every kind of selector there is.      *)
(***************************************************************************)
EXTENDS ScanRun

CONSTANTS a, b, cx, env1, prod, dev, d1, d2, a1, s1

Any == {prod, dev, Empty}

Serie(name, value) == [name |-> name, labels |-> [k \in Keys |-> value]]
Sel(name, values) ==
  [name |-> name, names |-> {name}, accept |-> [k \in Keys |-> values]]
Nameless == [name |-> NoName, names |-> {a, b}, accept |-> [k \in Keys |-> Any]]
Query(sels) == [brackets |-> TRUE, parses |-> TRUE, selectors |-> sels]

R(kind, id, version) == [kind |-> kind, id |-> id, version |-> version]
MCResources == {R("dashboard", d1, NoId), R("dashboard", d2, NoId),
                R("alert", NoId, a1),
                R("slo", s1, NoId), R("slo", NoId, NoId)}
MCDocs ==
  { {Query({Sel(a, Any)}),
     [brackets |-> FALSE, parses |-> TRUE, selectors |-> {Sel(b, Any)}],
     [brackets |-> TRUE, parses |-> FALSE, selectors |-> {Sel(b, Any)}]},
    {Query({Sel(a, {dev, Empty})}), Query({Nameless})},
    {Query({Sel(b, {prod}), Sel(cx, Any)})} }
MCTenants ==
  { {Serie(a, prod), Serie(a, dev), Serie(b, Empty), Serie(cx, prod)},
    {Serie(a, prod), Serie(a, Empty)} }

\* For the disagreement: one dashboard, which reads all metrics by a label.
NamelessResources == {R("dashboard", d1, NoId)}
NamelessDocs == {{Query({Nameless})}}
=============================================================================
