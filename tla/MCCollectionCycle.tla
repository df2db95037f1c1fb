------------------------- MODULE MCCollectionCycle -------------------------
(***************************************************************************)
(* Model checking of CollectionCycle: what is found by which collector, and *)
(* the order of the collectors.                                            *)
(***************************************************************************)
EXTENDS Baseline

OneCollector == <<"processes">>
TwoCollectors == <<"processes", "launch_items">>

\* Artifacts are named for what they are.
FinderOf == [process |-> "processes", agent |-> "launch_items",
             connection |-> "flows"]
MCCollectorOf == [a \in Artifacts |-> FinderOf[a]]
=============================================================================
