-------------------------- MODULE RouteSystemProofs --------------------------
(***************************************************************************)
(* What RouteFeedProofs shows of the feed alone, carried over to the feed  *)
(* whose queries need a valid token.                                       *)
(***************************************************************************)
EXTENDS RouteSystem, TLAPS

\* The feed alone, with the theorems about it.
Alone == INSTANCE RouteFeedProofs

-----------------------------------------------------------------------------
(* The feed in the composition answers queries as the feed alone does.     *)

LEMMA SameMatching == \A g : Feed!Matching(g) = Alone!Matching(g)
  BY DEF Feed!Matching, Alone!Matching, Feed!Matches, Alone!Matches

LEMMA SameCardinality == \A S : Feed!Cardinality(S) = Alone!Cardinality(S)
  BY DEF Feed!Cardinality, Alone!Cardinality

LEMMA SameCut == \A S : Feed!Cut(S) = Alone!Cut(S)
<1>1. \A S : Feed!kSubset(Limit, S) = Alone!kSubset(Limit, S)
  BY SameCardinality DEF Feed!kSubset, Alone!kSubset
<1> QED
  BY <1>1, SameCardinality DEF Feed!Cut, Alone!Cut

\* What expired tokens and the refresh goroutine do is, to the feed, a query
\* that is not evaluated or nothing.
LEMMA StepOfFeed == [SystemNext]_systemVars => [Alone!Next]_(Alone!vars)
<1> SUFFICES ASSUME [SystemNext]_systemVars PROVE [Alone!Next]_(Alone!vars)
  OBVIOUS
<1>1. CASE UNCHANGED feedVars
  BY <1>1 DEF feedVars, Alone!vars, Alone!feed
<1>2. CASE FeedStep
  <2>1. ASSUME NEW t \in Terminals, Feed!ServerChanges(t) PROVE Alone!Next
    BY <2>1 DEF Alone!Next, Alone!ServerChanges, Alone!Matches, Alone!feed,
                Feed!ServerChanges, Feed!Matches, Feed!feed
  <2>2. ASSUME NEW e \in Entries, Feed!Routine(e) PROVE Alone!Routine(e)
    <3>1. Feed!QueryTicks(e) => Alone!QueryTicks(e)
      BY DEF Alone!QueryTicks, Alone!NoEdges, Feed!QueryTicks, Feed!NoEdges
    <3>2. Feed!QueryFails(e) => Alone!QueryFails(e)
      BY DEF Alone!QueryFails, Feed!QueryFails
    <3>3. Feed!QueryReturns(e) => Alone!QueryReturns(e)
      BY DEF Alone!QueryReturns, Feed!QueryReturns
    <3>4. Feed!PublishReturns(e) => Alone!PublishReturns(e)
      BY DEF Alone!PublishReturns, Feed!PublishReturns
    <3>5. \A t \in rest[e] : Feed!BuildsEvent(e, t) => Alone!BuildsEvent(e, t)
      BY DEF Alone!BuildsEvent, Alone!BuildEvent, Feed!BuildsEvent, Feed!BuildEvent
    <3> QED
      BY <2>2, <3>1, <3>2, <3>3, <3>4, <3>5 DEF Alone!Routine, Feed!Routine
  <2>3. ASSUME NEW e \in Entries, Feed!ServerReads(e) PROVE Alone!ServerReads(e)
    BY <2>3, SameCut, SameMatching DEF Alone!ServerReads, Feed!ServerReads
  <2>4. ASSUME NEW e \in Entries, Feed!ServerAnswersNull(e)
        PROVE  Alone!ServerAnswersNull(e)
    BY <2>4 DEF Alone!ServerAnswersNull, Feed!ServerAnswersNull
  <2>5. ASSUME NEW e \in Entries, NEW m \in callbacks[e],
               Feed!CallbackRuns(e, m)
        PROVE  Alone!CallbackRuns(e, m)
    BY <2>5 DEF Alone!CallbackRuns, Alone!BuildEvent, Alone!feed,
                Feed!CallbackRuns, Feed!BuildEvent, Feed!feed
  <2> QED
    BY <1>2, <2>1, <2>2, <2>3, <2>4, <2>5
    DEF FeedStep, ServerAnswers, Alone!Next
<1> QED
  BY <1>1, <1>2 DEF SystemNext, systemVars

\* Every behaviour of the composition is one of the feed.
LEMMA FeedOfSystem == SystemSpec => Alone!Spec
<1>1. SystemInit => Alone!Init
  BY DEF SystemInit, Feed!Init, Feed!NoEdges, Alone!Init, Alone!NoEdges
<1> QED
  BY <1>1, StepOfFeed, PTL DEF SystemSpec, Alone!Spec

-----------------------------------------------------------------------------
\* Whatever the token's age does to the queries, only routes a terminal has
\* had with the very tag are published, no poll publishes a route that had
\* been replaced before it asked, and every step is one the abstract registers
\* allow.
THEOREM FeedIsSound ==
  SystemSpec =>
    []Feed!OnlyTaggedRoutes /\ Feed!FreshAsOfRequest /\ Feed!ImplementsRegister
<1>1. Alone!Spec => []Alone!OnlyTaggedRoutes
  BY FeedAssumption, Alone!PublishesTagged DEF Alone!Version
<1>2. Alone!Spec => Alone!FreshAsOfRequest
  BY FeedAssumption, Alone!PollsAreFresh DEF Alone!Version
<1>3. Alone!OnlyTaggedRoutes => Feed!OnlyTaggedRoutes
  BY DEF Alone!OnlyTaggedRoutes, Feed!OnlyTaggedRoutes
<1>4. Alone!FreshAsOfRequest => Feed!FreshAsOfRequest
  BY DEF Alone!FreshAsOfRequest, Feed!FreshAsOfRequest, Alone!vars, Feed!vars,
         Alone!feed, Feed!feed
<1>5. Alone!Spec => Alone!ImplementsRegister
  BY FeedAssumption, Alone!Refinement DEF Alone!Version
<1>6. Alone!Register!Init => Feed!Register!Init
  BY DEF Alone!Register!Init, Feed!Register!Init
<1>7. [Alone!Register!Next]_(Alone!Register!vars)
        => [Feed!Register!Next]_(Feed!Register!vars)
  BY DEF Alone!Register!Next, Alone!Register!Changes, Alone!Register!Asks,
         Alone!Register!Polls, Alone!Register!Notifies, Alone!Register!vars,
         Feed!Register!Next, Feed!Register!Changes, Feed!Register!Asks,
         Feed!Register!Polls, Feed!Register!Notifies, Feed!Register!vars
<1>8. Alone!ImplementsRegister => Feed!ImplementsRegister
  BY <1>6, <1>7, PTL
  DEF Alone!ImplementsRegister, Alone!Register!Spec,
      Feed!ImplementsRegister, Feed!Register!Spec
<1> QED
  BY <1>1, <1>2, <1>3, <1>4, <1>5, <1>8, FeedOfSystem, PTL
=============================================================================
