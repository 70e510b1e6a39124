-------------------------- MODULE MCVariationPages --------------------------
(***************************************************************************)
(* Model checking VariationPages: yesterday and today, up to four          *)
(* variations a day and pages of two, so that a list may end where a page  *)
(* does; three of the rows differ in label values only and share a key.    *)
(***************************************************************************)
EXTENDS VariationPages

CONSTANTS r1, r2, r3, r4, job, env

MCUnits == [r \in Rows |-> CASE r = r1 -> 1 [] r = r2 -> 3 [] OTHER -> 5]
MCKeyOf == [r \in Rows |-> IF r = r3 THEN env ELSE job]
=============================================================================
