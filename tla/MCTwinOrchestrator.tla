------------------------- MODULE MCTwinOrchestrator -------------------------
(* TwinOrchestrator with values for TLC.                                   *)
EXTENDS TwinOrchestrator, TLC

CONSTANTS r1, r2

Symmetry == Permutations(Requests)

MCTypes == {"CNC", "ROBOT"}
MCSeeds == <<"CNC">>

Make(types, name, flaw, at) ==
  [op |-> "create", types |-> types, name |-> name, flaw |-> flaw, at |-> at,
   target |-> EmptyText]
Find(op, target, flaw) ==
  [op |-> op, types |-> <<>>, name |-> NoText, flaw |-> flaw, at |-> 1, target |-> target]

Second == [type |-> "CNC", n |-> 2, lower |-> FALSE]
Third  == [type |-> "CNC", n |-> 3, lower |-> FALSE]
InLowerCase(text) == [text EXCEPT !.lower = TRUE]

MCIntents ==
  {Make(<<"CNC">>, NoText, flaw, 1) : flaw \in {"none", "components", "energy", "level", "name"}}
  \cup {Make(<<"CNC", "ROBOT">>, NoText, "none", 1),
        Make(<<"ROBOT", "CNC">>, NoText, "type", 2),
        Make(<<"CNC">>, Third, "none", 1)}
  \cup {Find("query", Third, "none"), Find("query", InLowerCase(Third), "none"),
        Find("query", EmptyText, "none"), Find("kpi", Second, "none"),
        Find("kpi", [type |-> "ROBOT", n |-> 0, lower |-> TRUE], "none"),
        Find("query", EmptyText, "target"), Find("list", EmptyText, "none")}

=============================================================================
