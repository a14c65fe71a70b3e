--------------------------- MODULE RouteFeedProofs ---------------------------
(***************************************************************************)
(* Proofs about RouteFeed, for every set of terminals, list of tags, limit *)
(* and server filter: what is published for a tag, how old a poll can be,  *)
(* and that the feed implements RouteRegister.                             *)
(***************************************************************************)
EXTENDS RouteFeed, TLAPS

USE TagOfAssumption, VersionAssumption DEF Version, feed

-----------------------------------------------------------------------------
(* BuildEvents *)

\* What a round of BuildEvents leaves in shown: the edge, if it carries the
\* tag, in the row of the tag, and nothing else.
LEMMA BuildEventShows ==
  ASSUME shown \in [Tags -> [Terminals -> 0..MaxVersion]],
         NEW tag \in Tags, NEW t \in Terminals, NEW v \in Version,
         BuildEvent(tag, t, v)
  PROVE  /\ shown' \in [Tags -> [Terminals -> 0..MaxVersion]]
         /\ \A g \in Tags, u \in Terminals :
              shown'[g][u] = IF g = tag /\ u = t /\ tag \in TagsAt[t][v]
                               THEN v ELSE shown[g][u]
  BY DEF BuildEvent

-----------------------------------------------------------------------------
(* The inductive invariant *)

\* Nobody knows of a version the server has not had; and while an answer may
\* still be published, it is no older than the request.
KnownVersions ==
  /\ \A e \in Entries, t \in Terminals : asked[e][t] <= version[t]
  /\ \A e \in Entries : \A t \in DOMAIN answer[e] :
       /\ answer[e][t] <= version[t]
       /\ query[e] # "select" => asked[e][t] <= answer[e][t]
  /\ \A e \in Entries : \A m \in callbacks[e] : m.version <= version[m.terminal]

\* The query variable is new in every iteration, and BuildEvents visits the
\* edges in it.
QueryVariable ==
  \A e \in Entries : /\ query[e] = "asked" => DOMAIN answer[e] = {}
                     /\ rest[e] \subseteq DOMAIN answer[e]
                     /\ rest[e] # {} => query[e] = "building"

\* Only an entry with a subscription is called back.
HeardBySubscribed == \A e \in Entries : callbacks[e] # {} => e \in subscribed

IInv ==
  /\ TypeOK
  /\ KnownVersions
  /\ QueryVariable
  /\ HeardBySubscribed
  /\ OnlyTaggedRoutes

LEMMA InitIInv == Init => IInv
  <1> SUFFICES ASSUME Init PROVE IInv
    OBVIOUS
  <1> QED
    BY DEF Init, IInv, TypeOK, KnownVersions, QueryVariable, HeardBySubscribed,
           OnlyTaggedRoutes, NoEdges

\* One step per action; what an action publishes is bounded by what its
\* answer or message was.
LEMMA NextIInv == IInv /\ [Next]_vars => IInv'
  <1> SUFFICES ASSUME IInv, [Next]_vars PROVE IInv'
    OBVIOUS
  <1> USE DEF IInv
  <1>1. ASSUME NEW t \in Terminals, ServerChanges(t) PROVE IInv'
    <2> DEFINE new == [terminal |-> t, version |-> version[t] + 1]
    <2>1. /\ version' = [version EXCEPT ![t] = version[t] + 1]
          /\ version[t] + 1 \in Version
          /\ UNCHANGED <<subscribed, feed, shown>>
      BY <1>1, TagsAtAssumption DEF ServerChanges, TypeOK
    <2>2. version' \in [Terminals -> Version]
      BY <2>1 DEF TypeOK
    <2>3. \A u \in Terminals : version[u] <= version'[u]
      BY <2>1 DEF TypeOK
    <2>4. new \in Message /\ new.version = version'[new.terminal]
      BY <2>1 DEF TypeOK, Message
    <2> HIDE DEF new
    <2>5. /\ DOMAIN callbacks' = Entries
          /\ callbacks' = [e \in Entries |-> callbacks'[e]]
          /\ \A e \in Entries : callbacks'[e] \subseteq callbacks[e] \cup {new}
      BY <1>1 DEF ServerChanges, new
    <2>6. callbacks' \in [Entries -> SUBSET Message]
      BY <2>4, <2>5 DEF TypeOK
    <2>7. TypeOK'
      BY <2>1, <2>2, <2>6 DEF TypeOK
    <2>8. \A e \in Entries : \A m \in callbacks'[e] :
            m.version <= version'[m.terminal]
      <3> SUFFICES ASSUME NEW e \in Entries, NEW m \in callbacks'[e]
                   PROVE  m.version <= version'[m.terminal]
        OBVIOUS
      <3>1. CASE m = new
        BY <3>1, <2>2, <2>4 DEF Message
      <3>2. CASE m # new
        <4>1. m \in callbacks[e] /\ m \in Message
          BY <3>2, <2>5 DEF TypeOK
        <4> QED
          BY <4>1, <2>2, <2>3 DEF KnownVersions, TypeOK, Message
      <3> QED BY <3>1, <3>2
    <2>9. KnownVersions'
      BY <2>1, <2>2, <2>3, <2>8 DEF KnownVersions, TypeOK
    <2>10. OnlyTaggedRoutes'
      BY <2>1, <2>2, <2>3 DEF OnlyTaggedRoutes, TypeOK
    <2>11. HeardBySubscribed'
      BY <1>1, <2>1 DEF ServerChanges, HeardBySubscribed
    <2>12. QueryVariable'
      BY <2>1 DEF QueryVariable
    <2> QED BY <2>7, <2>9, <2>10, <2>11, <2>12
  <1>2. ASSUME NEW e \in Entries, QueryTicks(e) PROVE IInv'
    <2>1. /\ query[e] = "select"
          /\ query' = [query EXCEPT ![e] = "asked"]
          /\ asked' = [asked EXCEPT ![e] = version]
          /\ answer' = [answer EXCEPT ![e] = NoEdges]
          /\ UNCHANGED <<version, subscribed, rest, callbacks, shown>>
      BY <1>2 DEF QueryTicks
    <2>2. /\ DOMAIN answer' = Entries
          /\ \A i \in Entries : \/ i = e /\ DOMAIN answer'[i] = {}
                                \/ i # e /\ answer'[i] = answer[i]
      BY <2>1 DEF TypeOK, NoEdges
    <2>3. TypeOK'
      BY <2>1, <2>2 DEF TypeOK
    <2>4. KnownVersions'
      BY <2>1, <2>2 DEF TypeOK, KnownVersions
    <2>5. QueryVariable'
      BY <2>1, <2>2 DEF TypeOK, QueryVariable
    <2> QED BY <2>1, <2>3, <2>4, <2>5 DEF HeardBySubscribed, OnlyTaggedRoutes
  <1>3. ASSUME NEW e \in Entries, ServerReads(e) PROVE IInv'
    <2>1. PICK edges \in Cut(Matching(TagOf[e])) :
            answer' = [answer EXCEPT ![e] = [t \in edges |-> version[t]]]
      BY <1>3 DEF ServerReads
    <2>2. edges \subseteq Terminals
      BY <2>1 DEF Cut, Matching, kSubset
    <2>3. DOMAIN answer' = Entries
      BY <2>1 DEF TypeOK
    <2>4. \A i \in Entries : \/ answer'[i] = answer[i] /\ i # e
                             \/ /\ i = e /\ DOMAIN answer'[i] = edges
                                /\ \A t \in edges : answer'[i][t] = version[t]
      BY <2>1 DEF TypeOK
    <2>5. UNCHANGED <<version, subscribed, asked, rest, callbacks, shown>>
      BY <1>3 DEF ServerReads
    <2>6. query[e] = "asked" /\ query' = [query EXCEPT ![e] = "answered"]
      BY <1>3 DEF ServerReads
    <2>7. TypeOK'
      BY <2>2, <2>3, <2>4, <2>5, <2>6 DEF TypeOK
    <2>8. KnownVersions'
      BY <2>2, <2>4, <2>5, <2>6 DEF KnownVersions, TypeOK
    <2>9. QueryVariable'
      BY <2>4, <2>5, <2>6 DEF QueryVariable, TypeOK
    <2> QED BY <2>5, <2>7, <2>8, <2>9 DEF HeardBySubscribed, OnlyTaggedRoutes
  <1>4. ASSUME NEW e \in Entries, ServerAnswersNull(e) PROVE IInv'
    BY <1>4 DEF ServerAnswersNull, TypeOK, KnownVersions, QueryVariable,
                HeardBySubscribed, OnlyTaggedRoutes
  <1>5. ASSUME NEW e \in Entries, QueryFails(e) PROVE IInv'
    BY <1>5 DEF QueryFails, TypeOK, KnownVersions, QueryVariable,
                HeardBySubscribed, OnlyTaggedRoutes
  <1>6. ASSUME NEW e \in Entries, QueryReturns(e) PROVE IInv'
    <2>1. /\ query[e] = "answered"
          /\ query' = [query EXCEPT ![e] = IF DOMAIN answer[e] = {}
                                             THEN "select" ELSE "building"]
          /\ rest' = [rest EXCEPT ![e] = DOMAIN answer[e]]
          /\ UNCHANGED <<version, subscribed, asked, answer, callbacks, shown>>
      BY <1>6 DEF QueryReturns
    <2>2. TypeOK'
      BY <2>1 DEF TypeOK
    <2>3. KnownVersions'
      BY <2>1 DEF TypeOK, KnownVersions
    <2>4. QueryVariable'
      BY <2>1 DEF TypeOK, QueryVariable
    <2> QED BY <2>1, <2>2, <2>3, <2>4 DEF HeardBySubscribed, OnlyTaggedRoutes
  <1>7. ASSUME NEW e \in Entries, NEW t \in rest[e], BuildsEvent(e, t)
        PROVE  IInv'
    <2>1. /\ BuildEvent(TagOf[e], t, answer[e][t])
          /\ rest' = [rest EXCEPT ![e] = @ \ {t}]
          /\ UNCHANGED <<version, subscribed, asked, answer, query, callbacks>>
      BY <1>7 DEF BuildsEvent
    <2>2. /\ t \in Terminals /\ TagOf[e] \in Tags
          /\ answer[e][t] \in Version /\ answer[e][t] <= version[t]
      BY DEF TypeOK, KnownVersions, QueryVariable
    <2>3. /\ shown' \in [Tags -> [Terminals -> 0..MaxVersion]]
          /\ \A g \in Tags, u \in Terminals :
               shown'[g][u] = IF /\ g = TagOf[e] /\ u = t
                                 /\ TagOf[e] \in TagsAt[t][answer[e][t]]
                                THEN answer[e][t] ELSE shown[g][u]
      BY <2>1, <2>2, BuildEventShows DEF TypeOK
    <2>4. TypeOK'
      BY <2>1, <2>3 DEF TypeOK
    <2>5. KnownVersions' /\ HeardBySubscribed'
      BY <2>1 DEF KnownVersions, HeardBySubscribed
    <2>6. QueryVariable'
      BY <2>1 DEF TypeOK, QueryVariable
    <2>7. OnlyTaggedRoutes'
      BY <2>1, <2>2, <2>3 DEF OnlyTaggedRoutes
    <2> QED BY <2>4, <2>5, <2>6, <2>7
  <1>8. ASSUME NEW e \in Entries, PublishReturns(e) PROVE IInv'
    BY <1>8 DEF PublishReturns, TypeOK, KnownVersions, QueryVariable,
                HeardBySubscribed, OnlyTaggedRoutes
  <1>9. ASSUME NEW e \in Entries, NEW m \in callbacks[e], CallbackRuns(e, m)
        PROVE  IInv'
    <2>1. /\ BuildEvent(TagOf[e], m.terminal, m.version)
          /\ callbacks' = [callbacks EXCEPT ![e] = @ \ {m}]
          /\ UNCHANGED <<version, subscribed, feed>>
      BY <1>9 DEF CallbackRuns
    <2>2. /\ m.terminal \in Terminals /\ m.version \in Version
          /\ m.version <= version[m.terminal]
      BY DEF TypeOK, KnownVersions, Message
    <2>3. /\ shown' \in [Tags -> [Terminals -> 0..MaxVersion]]
          /\ \A g \in Tags, u \in Terminals :
               shown'[g][u] = IF /\ g = TagOf[e] /\ u = m.terminal
                                 /\ TagOf[e] \in TagsAt[m.terminal][m.version]
                                THEN m.version ELSE shown[g][u]
      BY <2>1, <2>2, BuildEventShows DEF TypeOK
    <2>4. \A e1 \in Entries : callbacks'[e1] \subseteq callbacks[e1]
      BY <2>1 DEF TypeOK
    <2>5. TypeOK'
      BY <2>1, <2>3 DEF TypeOK
    <2>6. KnownVersions'
      BY <2>1, <2>4 DEF KnownVersions
    <2>7. OnlyTaggedRoutes'
      BY <2>1, <2>2, <2>3 DEF OnlyTaggedRoutes
    <2>8. HeardBySubscribed' /\ QueryVariable'
      BY <2>1, <2>4 DEF HeardBySubscribed, QueryVariable
    <2> QED BY <2>5, <2>6, <2>7, <2>8
  <1>10. CASE UNCHANGED vars
    BY <1>10 DEF vars, TypeOK, KnownVersions, QueryVariable, HeardBySubscribed,
                 OnlyTaggedRoutes
  <1> QED
    BY <1>1, <1>2, <1>3, <1>4, <1>5, <1>6, <1>7, <1>8, <1>9, <1>10
    DEF Next, Routine

LEMMA Invariance == Spec => []IInv
  BY InitIInv, NextIInv, PTL DEF Spec

-----------------------------------------------------------------------------
(* Theorems *)

\* Type correctness.
THEOREM TypeCorrect == Spec => []TypeOK
  BY Invariance, PTL DEF IInv

\* What is published for a tag is a route its terminal has had with that tag.
THEOREM PublishesTagged == Spec => []OnlyTaggedRoutes
  BY Invariance, PTL DEF IInv

\* A poll publishes nothing that had been replaced before it asked.
THEOREM PollsAreFresh == Spec => FreshAsOfRequest
  <1> DEFINE Fresh == \A e \in Entries, t \in Terminals :
                        LET new == shown'[TagOf[e]][t]
                        IN  t \in rest[e] \ rest'[e] /\ new # shown[TagOf[e]][t]
                              => new >= asked[e][t]
  <1>1. IInv /\ [Next]_vars => [Fresh]_vars
    <2> SUFFICES ASSUME IInv, Next, NEW e \in Entries, NEW t \in Terminals,
                        t \in rest[e] \ rest'[e],
                        shown'[TagOf[e]][t] # shown[TagOf[e]][t]
                 PROVE  shown'[TagOf[e]][t] >= asked[e][t]
      OBVIOUS
    <2> USE DEF IInv, TypeOK
    <2>1. \A u \in Terminals : ~ServerChanges(u)
      BY DEF ServerChanges
    <2>2. \A i \in Entries : /\ ~QueryTicks(i) /\ ~ServerReads(i)
                             /\ ~ServerAnswersNull(i) /\ ~QueryFails(i)
                             /\ ~QueryReturns(i) /\ ~PublishReturns(i)
      BY DEF QueryTicks, ServerReads, ServerAnswersNull, QueryFails,
             QueryReturns, PublishReturns
    <2>3. \A i \in Entries : \A m \in callbacks[i] : ~CallbackRuns(i, m)
      BY DEF CallbackRuns
    <2>4. PICK i \in Entries : \E u \in rest[i] : BuildsEvent(i, u)
      BY <2>1, <2>2, <2>3 DEF Next, Routine
    <2>5. BuildsEvent(e, t)
      BY <2>4 DEF BuildsEvent
    <2>6. t \in DOMAIN answer[e] /\ query[e] = "building"
      BY DEF QueryVariable
    <2>7. BuildEvent(TagOf[e], t, answer[e][t])
      BY <2>5 DEF BuildsEvent
    <2>8. shown'[TagOf[e]][t] = answer[e][t]
      BY <2>6, <2>7, BuildEventShows
    <2>9. answer[e][t] \in Nat /\ asked[e][t] \in Nat
      BY <2>6
    <2> QED BY <2>6, <2>8, <2>9 DEF KnownVersions
  <1> QED
    BY <1>1, Invariance, PTL DEF Spec, FreshAsOfRequest

\* An action of the feed is an action of the registers or leaves them alone.
LEMMA StepRefines == IInv /\ [Next]_vars => [Register!Next]_(Register!vars)
  <1> SUFFICES ASSUME IInv, [Next]_vars
               PROVE  Register!Next \/ UNCHANGED Register!vars
    OBVIOUS
  <1> USE DEF IInv, Register!vars
  <1>1. ASSUME NEW t \in Terminals, ServerChanges(t) PROVE Register!Changes(t)
    BY <1>1, TagsAtAssumption DEF ServerChanges, Register!Changes, TypeOK
  <1>2. ASSUME NEW e \in Entries, QueryTicks(e) PROVE Register!Asks(e)
    BY <1>2 DEF QueryTicks, Register!Asks
  <1>3. ASSUME NEW e \in Entries,
               \/ ServerReads(e) \/ ServerAnswersNull(e)
               \/ QueryFails(e) \/ QueryReturns(e) \/ PublishReturns(e)
        PROVE  UNCHANGED Register!vars
    BY <1>3 DEF ServerReads, ServerAnswersNull, QueryFails, QueryReturns,
                PublishReturns
  <1>4. ASSUME NEW e \in Entries, NEW t \in rest[e], BuildsEvent(e, t)
        PROVE  Register!Next \/ UNCHANGED Register!vars
    <2> DEFINE v == answer[e][t]
    <2>1. /\ BuildEvent(TagOf[e], t, v) /\ query[e] = "building"
          /\ UNCHANGED <<version, subscribed, asked>>
      BY <1>4 DEF BuildsEvent
    <2>2. t \in DOMAIN answer[e] /\ t \in Terminals
      BY DEF TypeOK, QueryVariable
    <2>3. v \in asked[e][t]..version[t]
      <3>1. v \in Int /\ asked[e][t] \in Int /\ version[t] \in Int
        BY <2>2 DEF TypeOK
      <3>2. asked[e][t] <= v /\ v <= version[t]
        BY <2>1, <2>2 DEF KnownVersions
      <3> QED BY <3>1, <3>2
    <2>4. CASE TagOf[e] \in TagsAt[t][v]
      <3>1. shown' = [shown EXCEPT ![TagOf[e]][t] = v]
        BY <2>1, <2>4 DEF BuildEvent
      <3>2. Register!Polls(e, t)
        BY <2>1, <2>3, <2>4, <3>1 DEF Register!Polls
      <3> QED BY <2>2, <3>2 DEF Register!Next
    <2>5. CASE TagOf[e] \notin TagsAt[t][v]
      BY <2>1, <2>5 DEF BuildEvent
    <2> QED BY <2>4, <2>5
  <1>5. ASSUME NEW e \in Entries, NEW m \in callbacks[e], CallbackRuns(e, m)
        PROVE  Register!Next \/ UNCHANGED Register!vars
    <2> DEFINE g == TagOf[e]
               t == m.terminal
    <2>1. BuildEvent(g, t, m.version) /\ UNCHANGED <<version, subscribed, asked>>
      BY <1>5 DEF CallbackRuns
    <2>2. t \in Terminals /\ m.version \in 1..version[t]
      BY DEF TypeOK, KnownVersions, Message
    <2>3. e \in subscribed
      BY DEF HeardBySubscribed
    <2>4. CASE g \in TagsAt[t][m.version]
      <3>1. shown' = [shown EXCEPT ![g][t] = m.version]
        BY <2>1, <2>4 DEF BuildEvent
      <3>2. Register!Notifies(e, t)
        BY <2>1, <2>2, <2>3, <2>4, <3>1 DEF Register!Notifies
      <3> QED BY <2>2, <3>2 DEF Register!Next
    <2>5. CASE g \notin TagsAt[t][m.version]
      BY <2>1, <2>5 DEF BuildEvent
    <2> QED BY <2>4, <2>5
  <1>6. CASE UNCHANGED vars
    BY <1>6 DEF vars
  <1> QED
    BY <1>1, <1>2, <1>3, <1>4, <1>5, <1>6 DEF Next, Routine, Register!Next

\* The feed keeps the promise of the abstract registers.
THEOREM Refinement == Spec => ImplementsRegister
  <1>1. Init => Register!Init
    BY DEF Init, Register!Init
  <1> QED
    BY <1>1, Invariance, StepRefines, PTL DEF Spec, ImplementsRegister, Register!Spec
=============================================================================
