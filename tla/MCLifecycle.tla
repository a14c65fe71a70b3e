----------------------------- MODULE MCLifecycle -----------------------------
(***************************************************************************)
(* Instances of Lifecycle for TLC: which configurations a run starts from. *)
(***************************************************************************)
EXTENDS Lifecycle

\* Every configuration over Tags.
AllConfs == Config

\* A configuration New accepts and Run can use, with every tag in it.
GoodConf == [tags |-> Tags, mapping |-> "off", period |-> "positive",
             url |-> "wellformed", notifications |-> TRUE]
GoodConfs == {GoodConf}

\* The same, with and without notifications.
LiveConfs == {[GoodConf EXCEPT !.notifications = b] : b \in BOOLEAN}

\* What tests/system/config/routebeat.yml.j2 leaves in force.
TestConfs == {DefaultConfig}

=============================================================================
