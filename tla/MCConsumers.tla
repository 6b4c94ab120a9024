---------------------------- MODULE MCConsumers -----------------------------
(***************************************************************************)
(* Instances of Consumers: the proposals of example/proposals (a column    *)
(* added, a column dropped), and the other differences changes tells apart.*)
(***************************************************************************)
EXTENDS Consumers

MCNames    == {"tx_id", "amount", "category"}
MCTypes    == {"VARCHAR", "DOUBLE"}
MCCastable == MCTypes \X MCTypes

Id     == [name |-> "tx_id", type |-> "VARCHAR", nullable |-> FALSE, primary_key |-> TRUE]
Amount == [name |-> "amount", type |-> "DOUBLE", nullable |-> FALSE, primary_key |-> FALSE]

Code   == [name |-> "category", type |-> "VARCHAR", nullable |-> TRUE, primary_key |-> FALSE]

V1 == {Id, Amount}
V2 == {Id, Amount, Code}
MCShapes ==
  {V1, V2, {Id, Code}, {Id, [Amount EXCEPT !.nullable = TRUE]},
   {Id, [Amount EXCEPT !.type = "VARCHAR"]}}

\* A proposal that leaves out one primary_key: true.
Unkeyed == {V1, {[Id EXCEPT !.primary_key = FALSE], Amount}}
=============================================================================
