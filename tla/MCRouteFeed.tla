----------------------------- MODULE MCRouteFeed -----------------------------
(***************************************************************************)
(* Instances of RouteFeed for TLC.                                         *)
(***************************************************************************)
EXTENDS RouteFeed

\* "ipan" stands in the list twice; the server's filter takes "ipan2" for it.
MCTagOf == [e \in Entries |-> "ipan"]
MCSimilar == [g \in Tags |-> {"ipan", "ipan2"}]

\* cam has the tag and loses it with its last version.  mon comes with a tag
\* that only resembles it and then has none: with a limit of one it crowds cam
\* out of the answers until then.
MCTagsAt == [t \in Terminals |->
               IF t = "cam" THEN <<{"ipan"}, {"ipan"}, {}>> ELSE <<{"ipan2"}, {}>>]
=============================================================================
