---------------------------- MODULE RouteRegister ----------------------------
(***************************************************************************)
(* What the feed of one routebeat promises its reader, without saying how: *)
(* for every tag and terminal a register with the route last published.    *)
(* A poll is a read of the server that publishes what was current at some  *)
(* moment since it asked.  A notification may publish any earlier route,   *)
(* but only an entry with a subscription has any.  Neither publishes a     *)
(* route without the tag.                                                  *)
(***************************************************************************)
EXTENDS Naturals

CONSTANTS Terminals, Tags, Entries, TagOf, MaxVersion, TagsAt

VARIABLES
  version,     \* version[t]: the version of terminal t's route on the server
  subscribed,  \* the entries that have a subscription
  asked,       \* asked[e]: the versions when poll e last asked
  shown        \* shown[g][t]: the version last published for t with tag g

vars == <<version, subscribed, asked, shown>>

Init ==
  /\ version = [t \in Terminals |-> 1]
  /\ subscribed \in SUBSET Entries
  /\ asked = [e \in Entries |-> version]
  /\ shown = [g \in Tags |-> [t \in Terminals |-> 0]]

Changes(t) ==
  /\ version[t] < MaxVersion
  /\ version' = [version EXCEPT ![t] = @ + 1]
  /\ UNCHANGED <<subscribed, asked, shown>>

Asks(e) ==
  /\ asked' = [asked EXCEPT ![e] = version]
  /\ UNCHANGED <<version, subscribed, shown>>

Polls(e, t) ==
  /\ \E v \in asked[e][t]..version[t] :
       /\ TagOf[e] \in TagsAt[t][v]
       /\ shown' = [shown EXCEPT ![TagOf[e]][t] = v]
  /\ UNCHANGED <<version, subscribed, asked>>

Notifies(e, t) ==
  /\ e \in subscribed
  /\ \E v \in 1..version[t] : /\ TagOf[e] \in TagsAt[t][v]
                             /\ shown' = [shown EXCEPT ![TagOf[e]][t] = v]
  /\ UNCHANGED <<version, subscribed, asked>>

Next ==
  \/ \E t \in Terminals : Changes(t)
  \/ \E e \in Entries : Asks(e)
  \/ \E e \in Entries, t \in Terminals : Polls(e, t) \/ Notifies(e, t)

Spec == Init /\ [][Next]_vars
=============================================================================
