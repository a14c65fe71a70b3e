---------------------------- MODULE MCRouteEvents ----------------------------
(***************************************************************************)
(* Instances of RouteEvents for TLC: nameset names that collide in the     *)
(* ways lower case and dots allow, and the edge lists made of them.        *)
(***************************************************************************)
EXTENDS RouteEvents

\* "Broadview" and "BROADVIEW" differ by case only; "Broadview.UHD" is a path
\* through "Broadview"; "Mnemonic" is unrelated to them.
MCNamesets == {"Broadview", "BROADVIEW", "Broadview.UHD", "Mnemonic"}
MCKey == [n \in MCNamesets |->
            CASE n = "Broadview.UHD" -> <<"broadview", "uhd">>
              [] n = "Mnemonic" -> <<"mnemonic">>
              [] OTHER -> <<"broadview">>]

Mappings == MCNamesets \cup {Nil}

\* Nameset lists of at most n entries.
Names(n) == UNION {[1..k -> NamesetName] : k \in 0..n}

\* Edges with the given ids, nameset lists and sources, and any tags.
Edges(ids, names, sources) ==
  [id : ids, tags : SUBSET Tags, names : names,
   phys : sources \cup {Nil}, sub : sources \cup {Nil}]

\* One edge: a destination with up to two nameset values and sources with up
\* to one, or a single source with up to two.
OneEdge ==
  {<<e>> : e \in Edges({1}, Names(2), Names(1))} \cup
  {<<e>> : e \in {f \in Edges({1}, Names(1), Names(2)) : Nil \in {f.phys, f.sub}}}

\* Up to three edges that differ in their tags.
SomeEdges ==
  UNION {[1..k -> Edges({1, 2}, {<< >>}, {<< >>})] : k \in 0..2}
    \cup [1..3 -> Edges({1, 2}, {<< >>}, {})]

LabelInputs == [mapping : Mappings, tag : {"ipan"}, edges : OneEdge]
TagInputs == [mapping : {Nil}, tag : Tags, edges : SomeEdges]
MCInputs == LabelInputs \cup TagInputs

=============================================================================
