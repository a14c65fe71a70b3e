----------------------------- MODULE RouteSystem -----------------------------
(***************************************************************************)
(* MagnumAuth extended with RouteFeed as New and Run compose them: both    *)
(* use the one http client, so a query is evaluated only while the token   *)
(* in its cookie jar is valid, and polling starts once New has             *)
(* authenticated.                                                          *)
(***************************************************************************)
EXTENDS MagnumAuth

CONSTANTS
  Terminals, Tags, Entries, TagOf, MaxVersion, TagsAt, Similar, Limit,
  Lifetime   \* the age at which the server no longer accepts a token

\* A token is accepted for longer than it takes to arrive.
ASSUME LifetimeAssumption == Lifetime \in Nat /\ Lifetime > Latency

VARIABLES version, subscribed, query, asked, answer, rest, callbacks, shown

Feed == INSTANCE RouteFeed

\* What RouteFeed assumes of its constants.
ASSUME FeedAssumption ==
  /\ TagOf \in [Entries -> Tags]
  /\ MaxVersion \in Nat \ {0}
  /\ \A t \in Terminals : DOMAIN TagsAt[t] \subseteq 1..MaxVersion
  /\ \A g \in Tags : g \in Similar[g]
  /\ Limit \in Nat

feedVars == <<version, subscribed, query, asked, answer, rest, callbacks, shown>>
systemVars == <<vars, feedVars>>

SystemInit == Init /\ Feed!Init

\* Run is called when New has returned without an error.
Running == pc \notin {"auth", "unauthenticated"}

Authorised == age < Lifetime

\* The server evaluates queries that come with a valid token; those that come
\* without fail.
ServerAnswers(e) ==
  Authorised /\ (Feed!ServerReads(e) \/ Feed!ServerAnswersNull(e))

FeedStep ==
  \/ \E t \in Terminals : Feed!ServerChanges(t)
  \/ \E e \in Entries :
       \/ Feed!Routine(e) \/ ServerAnswers(e)
       \/ \E m \in callbacks[e] : Feed!CallbackRuns(e, m)

SystemNext ==
  \/ Next /\ UNCHANGED feedVars
  \/ Running /\ FeedStep /\ UNCHANGED vars

SystemSpec == SystemInit /\ [][SystemNext]_systemVars

\* As in the components.  Polls are more frequent than the times at which the
\* token is valid, so some are asked, and some evaluated, at such times.
SystemFairness ==
  /\ Fairness
  /\ \A e \in Entries :
       /\ SF_systemVars(Running /\ Authorised /\ Feed!QueryTicks(e) /\ UNCHANGED vars)
       /\ SF_systemVars(Running /\ Authorised /\ Feed!ServerReads(e) /\ UNCHANGED vars)
       /\ WF_systemVars(/\ Running /\ UNCHANGED vars
                        /\ Feed!QueryFails(e) \/ Feed!QueryReturns(e))
       /\ SF_systemVars(Running /\ Feed!AnswerInTime(e) /\ UNCHANGED vars)
       /\ WF_systemVars(/\ Running /\ UNCHANGED vars
                        /\ \E t \in rest[e] : Feed!BuildsEvent(e, t))
       /\ WF_systemVars(/\ Running /\ UNCHANGED vars
                        /\ \E m \in callbacks[e] : Feed!CallbackRuns(e, m))

SystemFairSpec == SystemSpec /\ SystemFairness

-----------------------------------------------------------------------------
\* Refreshes that fail and queries that are refused meanwhile only delay the
\* feed: it still converges to the routes, unless New fails, Stop is called or
\* the output stays blocked for ever.
ConvergesWithToken ==
  \/ <>[](pc = "unauthenticated" \/ done \/ Feed!Current)
  \/ \E e \in Entries : <>[]Feed!Blocked(e)
=============================================================================
