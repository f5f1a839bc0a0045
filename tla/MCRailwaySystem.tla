-------------------------- MODULE MCRailwaySystem --------------------------
(***************************************************************************)
(* RailwaySystem on small instances.                                       *)
(***************************************************************************)
EXTENDS RailwaySystem

CONSTANT j1

OneJob == {j1}
=============================================================================
