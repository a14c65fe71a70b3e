---------------------------- MODULE MCRouteSystem ----------------------------
(***************************************************************************)
(* An instance of RouteSystem for TLC: one terminal that carries the tag.  *)
(***************************************************************************)
EXTENDS RouteSystem

MCTagOf == [e \in Entries |-> "ipan"]
MCSimilar == [g \in Tags |-> {g}]
MCTagsAt == [t \in Terminals |-> <<{"ipan"}, {"ipan"}>>]
=============================================================================
