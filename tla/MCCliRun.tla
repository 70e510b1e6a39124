----------------------------- MODULE MCCliRun -----------------------------
(***************************************************************************)
(* Model checking CliRun: one invocation with a catalog of two metrics and *)
(* all kinds of flags, around the end of a leap day or of a year, and      *)
(* beside it a small one, of which a series has no name.  Three of the     *)
(* eight files stand for all of them.                                      *)
(***************************************************************************)
EXTENDS CliRun

CONSTANTS p1, p2, job

Serie(name, value, key) ==
  [name |-> name, labels |-> [k \in Keys |-> value], series |-> key, billing |-> Nil]

MCCatalog == p1 :> {Serie(2, Empty, 2), Serie(2, "x", 3), Serie(2, "y", 4), Serie(3, "x", 5)}
             @@ p2 :> {Serie(NoName, "x", 1), Serie(3, "x", 5)}

Default == [days |-> 7, months |-> 0, region |-> "EU2 ", key |-> TRUE,
            skipBilling |-> FALSE, debug |-> FALSE, skip |-> {}]

MCInvocations ==
  p1 :> { Default,
          [Default EXCEPT !.days = 90, !.debug = TRUE],
          [Default EXCEPT !.months = 2, !.region = "us2.coralogix.com"],
          [Default EXCEPT !.months = 25, !.debug = TRUE, !.region = "api.new.example"],
          [Default EXCEPT !.months = 241, !.skip = {"alerts"}],
          [Default EXCEPT !.days = 0, !.debug = TRUE],
          [Default EXCEPT !.days = -1],
          [Default EXCEPT !.key = FALSE],
          [Default EXCEPT !.region = "api.eu2.coralogix.com/"],
          [Default EXCEPT !.skipBilling = TRUE, !.skip = Kinds] }
  @@ p2 :> { [Default EXCEPT !.skipBilling = TRUE] }

MCShares == {[units |-> 1, days |-> 7], [units |-> 3, days |-> 2]}

MCReplies == { [default |-> <<"A", " ", "/", "B">>, teams |-> <<>>],
               [default |-> <<>>, teams |-> <<<<>>, <<" ", "A", "_", "B", "!">>>>],
               [default |-> <<" ">>, teams |-> <<<<"A">>>>] }

MCNormal(s) == IF s = "EU2 " THEN "eu2" ELSE s

MCMidnights == {ToDay([year |-> 2024, month |-> 2, day |-> 29]),
                ToDay([year |-> 2023, month |-> 12, day |-> 31])}

MCFiles == <<[name |-> "usage_summary.json", csv |-> FALSE],
             [name |-> "unused_by_cost.csv", csv |-> TRUE],
             [name |-> "otel_processors.yaml", csv |-> FALSE]>>
=============================================================================
