------------------------------ MODULE RouteFeed ------------------------------
(***************************************************************************)
(* How routes reach the publisher: one polling routine and at most one     *)
(* subscription per entry of the tags list, against a server whose routes  *)
(* change meanwhile.  A terminal's route is a version number; an event     *)
(* takes its place among the events of its terminal and tag when           *)
(* BuildEvents gives it its timestamp.                                     *)
(*                                                                         *)
(* The server belongs to the environment: its filter also takes tags that  *)
(* merely resemble the one asked for, and updates are lost while the       *)
(* websocket is down.                                                      *)
(***************************************************************************)
EXTENDS Naturals, FiniteSets, FiniteSetsExt

CONSTANTS
  Terminals,   \* the destinations the server knows
  Tags,        \* the tags the configuration lists
  Entries,     \* the places in the tags list, where a tag may be repeated
  TagOf,       \* TagOf[e]: the tag at place e
  MaxVersion,  \* bound on the changes of a route
  TagsAt,      \* TagsAt[t]: the tags of terminal t in each of its versions
  Similar,     \* Similar[g]: the tags the server's filter takes for g
  Limit        \* api.limit

Version == 1..MaxVersion

ASSUME TagOfAssumption == TagOf \in [Entries -> Tags]
ASSUME VersionAssumption == MaxVersion \in Nat \ {0}
ASSUME TagsAtAssumption == \A t \in Terminals : DOMAIN TagsAt[t] \subseteq Version
ASSUME SimilarAssumption == \A g \in Tags : g \in Similar[g]
ASSUME LimitAssumption == Limit \in Nat

VARIABLES
  version,     \* version[t]: the version of terminal t's route on the server
  subscribed,  \* the entries whose Subscribe succeeded
  query,       \* query[e]: where QueryTerminalsRoutine is
  asked,       \* asked[e]: the versions when it last called client.Query
  answer,      \* answer[e]: its query variable, the versions of the edges
  rest,        \* rest[e]: the edges that BuildEvents has still to visit
  callbacks,   \* callbacks[e]: messages whose callback has not run BuildEvents
  shown        \* shown[g][t]: version in the last event for t with dstTag g

feed == <<asked, answer, rest, query>>
vars == <<version, subscribed, feed, callbacks, shown>>

NoEdges == [t \in {} |-> 0]
Message == [terminal : Terminals, version : Version]

TypeOK ==
  /\ version \in [Terminals -> Version]
  /\ subscribed \subseteq Entries
  /\ query \in [Entries -> {"select", "asked", "answered", "building"}]
  /\ asked \in [Entries -> [Terminals -> Version]]
  /\ DOMAIN answer = Entries
  /\ \A e \in Entries : /\ DOMAIN answer[e] \subseteq Terminals
                        /\ \A t \in DOMAIN answer[e] : answer[e][t] \in Version
  /\ rest \in [Entries -> SUBSET Terminals]
  /\ callbacks \in [Entries -> SUBSET Message]
  /\ shown \in [Tags -> [Terminals -> 0..MaxVersion]]

\* Subscriptions are made once; those that failed, or all of them when
\* notifications are off, are never made.
Init ==
  /\ version = [t \in Terminals |-> 1]
  /\ subscribed \in SUBSET Entries
  /\ query = [e \in Entries |-> "select"]
  /\ asked = [e \in Entries |-> version]
  /\ answer = [e \in Entries |-> NoEdges]
  /\ rest = [e \in Entries |-> {}]
  /\ callbacks = [e \in Entries |-> {}]
  /\ shown = [g \in Tags |-> [t \in Terminals |-> 0]]

-----------------------------------------------------------------------------
(* BuildEvents                                                             *)

\* Mutation of BuildEvent: the tag test is left to the server's filter.
BuildEvent_NoTagTest(tag, t, v) ==
  shown' = [shown EXCEPT ![tag][t] = v]

\* One round of the loop: an event, with the time of this round, if the edge
\* carries the very tag.
BuildEvent(tag, t, v) ==
  shown' = IF tag \in TagsAt[t][v] THEN [shown EXCEPT ![tag][t] = v]
                                   ELSE shown

-----------------------------------------------------------------------------
(* The server                                                              *)

Matches(tag, t, v) == TagsAt[t][v] \cap Similar[tag] # {}

Matching(tag) == {t \in Terminals : Matches(tag, t, version[t])}

\* A route changes.  Subscriptions whose filter it passes receive it, except
\* those whose session is down or whose message cannot be unmarshalled.
ServerChanges(t) ==
  /\ version[t] + 1 \in DOMAIN TagsAt[t]
  /\ version' = [version EXCEPT ![t] = @ + 1]
  /\ \E heard \in SUBSET {e \in subscribed :
                            Matches(TagOf[e], t, version[t] + 1)} :
       callbacks' = [e \in Entries |->
         IF e \in heard
           THEN callbacks[e] \cup {[terminal |-> t, version |-> version[t] + 1]}
           ELSE callbacks[e]]
  /\ UNCHANGED <<subscribed, feed, shown>>

Cut(S) == IF Cardinality(S) <= Limit THEN {S} ELSE kSubset(Limit, S)

\* The query is evaluated: at most Limit of the terminals that match.
ServerReads(e) ==
  /\ query[e] = "asked"
  /\ \E edges \in Cut(Matching(TagOf[e])) :
       answer' = [answer EXCEPT ![e] = [t \in edges |-> version[t]]]
  /\ query' = [query EXCEPT ![e] = "answered"]
  /\ UNCHANGED <<version, subscribed, asked, rest, callbacks, shown>>

\* An answer whose terminals are null is decoded into nothing: the query
\* variable stays as it was.
ServerAnswersNull(e) ==
  /\ query[e] = "asked"
  /\ query' = [query EXCEPT ![e] = "answered"]
  /\ UNCHANGED <<version, subscribed, asked, answer, rest, callbacks, shown>>

-----------------------------------------------------------------------------
(* QueryTerminalsRoutine                                                   *)

\* Mutation of QueryTicks: every tick starts a query, though the answer to
\* the one before is still to be processed.
QueryTicks_Overlaps(e) ==
  /\ query[e] \in {"select", "answered"}
  /\ query' = [query EXCEPT ![e] = IF @ = "select" THEN "asked" ELSE @]
  /\ asked' = [asked EXCEPT ![e] = version]
  /\ UNCHANGED <<version, subscribed, answer, rest, callbacks, shown>>

\* Mutation of QueryTicks: the query variable is declared before the loop.
QueryTicks_Hoisted(e) ==
  /\ query[e] = "select"
  /\ query' = [query EXCEPT ![e] = "asked"]
  /\ asked' = [asked EXCEPT ![e] = version]
  /\ UNCHANGED <<version, subscribed, answer, rest, callbacks, shown>>

\* Mutation of QueryTicks: tags with a subscription are not polled.
QueryTicks_UnlessSubscribed(e) ==
  /\ query[e] = "select" /\ e \notin subscribed
  /\ query' = [query EXCEPT ![e] = "asked"]
  /\ asked' = [asked EXCEPT ![e] = version]
  /\ answer' = [answer EXCEPT ![e] = NoEdges]
  /\ UNCHANGED <<version, subscribed, rest, callbacks, shown>>

\* A tick; a new query variable; client.Query is called.
QueryTicks(e) ==
  /\ query[e] = "select"
  /\ query' = [query EXCEPT ![e] = "asked"]
  /\ asked' = [asked EXCEPT ![e] = version]
  /\ answer' = [answer EXCEPT ![e] = NoEdges]
  /\ UNCHANGED <<version, subscribed, rest, callbacks, shown>>

\* Mutation of QueryFails: a failed query ends the routine.
QueryFails_Returns(e) ==
  /\ query[e] \in {"asked", "answered"}
  /\ query' = [query EXCEPT ![e] = "exited"]
  /\ UNCHANGED <<version, subscribed, asked, answer, rest, callbacks, shown>>

\* An error, or CLIENT_TIMEOUT has passed, whether the server has evaluated
\* the query or not: what was decoded of its answer is never looked at.
QueryFails(e) ==
  /\ query[e] \in {"asked", "answered"}
  /\ query' = [query EXCEPT ![e] = "select"]
  /\ UNCHANGED <<version, subscribed, asked, answer, rest, callbacks, shown>>

\* The answer arrives in time.  Without a terminal in it (TotalCount < 1)
\* there is nothing to build; otherwise BuildEvents is called with its edges.
QueryReturns(e) ==
  /\ query[e] = "answered"
  /\ query' = [query EXCEPT ![e] =
                 IF DOMAIN answer[e] = {} THEN "select" ELSE "building"]
  /\ rest' = [rest EXCEPT ![e] = DOMAIN answer[e]]
  /\ UNCHANGED <<version, subscribed, asked, answer, callbacks, shown>>

\* A round of BuildEvents, with other routines and callbacks in between; the
\* server may list the edges in any order.
BuildsEvent(e, t) ==
  /\ query[e] = "building" /\ t \in rest[e]
  /\ rest' = [rest EXCEPT ![e] = @ \ {t}]
  /\ BuildEvent(TagOf[e], t, answer[e][t])
  /\ UNCHANGED <<version, subscribed, asked, answer, query, callbacks>>

\* BuildEvents has called PublishAll, which blocks until the publisher's queue
\* has room.
PublishReturns(e) ==
  /\ query[e] = "building" /\ rest[e] = {}
  /\ query' = [query EXCEPT ![e] = "select"]
  /\ UNCHANGED <<version, subscribed, asked, answer, rest, callbacks, shown>>

-----------------------------------------------------------------------------
(* The callback of SubscribeTerminals, on a goroutine for every message, so *)
(* that callbacks run in any order.  What blocks one in PublishAll has no   *)
(* effect on the others.                                                    *)
CallbackRuns(e, m) ==
  /\ m \in callbacks[e]
  /\ callbacks' = [callbacks EXCEPT ![e] = @ \ {m}]
  /\ BuildEvent(TagOf[e], m.terminal, m.version)
  /\ UNCHANGED <<version, subscribed, feed>>

-----------------------------------------------------------------------------
Routine(e) ==
  \/ QueryTicks(e) \/ QueryFails(e) \/ QueryReturns(e) \/ PublishReturns(e)
  \/ \E t \in rest[e] : BuildsEvent(e, t)

Next ==
  \/ \E t \in Terminals : ServerChanges(t)
  \/ \E e \in Entries :
       \/ Routine(e) \/ ServerReads(e) \/ ServerAnswersNull(e)
       \/ \E m \in callbacks[e] : CallbackRuns(e, m)

Spec == Init /\ [][Next]_vars

AnswerInTime(e) == QueryReturns(e) /\ DOMAIN answer[e] # {}

\* Tickers tick, queries end within CLIENT_TIMEOUT and goroutines run; of the
\* queries asked for ever some are evaluated, and of those some are answered
\* in time.  PublishAll need not return.
Fairness ==
  \A e \in Entries :
    /\ WF_vars(QueryTicks(e))
    /\ SF_vars(ServerReads(e))
    /\ WF_vars(QueryFails(e) \/ QueryReturns(e))
    /\ SF_vars(AnswerInTime(e))
    /\ WF_vars(\E t \in rest[e] : BuildsEvent(e, t))
    /\ WF_vars(\E m \in callbacks[e] : CallbackRuns(e, m))

FairSpec == Spec /\ Fairness

-----------------------------------------------------------------------------
(* Properties                                                              *)

\* What is published for a tag is a route its terminal has had, at a time
\* when it carried that very tag, whatever the server's filter let through.
OnlyTaggedRoutes ==
  \A g \in Tags, t \in Terminals :
    shown[g][t] # 0 => /\ shown[g][t] <= version[t]
                       /\ g \in TagsAt[t][shown[g][t]]

\* A poll may overwrite a newer notification, but never with a route that
\* had been replaced before the poll asked, be it from this answer or left
\* over from an earlier query.
FreshAsOfRequest ==
  [][\A e \in Entries, t \in Terminals :
       LET new == shown'[TagOf[e]][t]
       IN  t \in rest[e] \ rest'[e] /\ new # shown[TagOf[e]][t]
             => new >= asked[e][t]]_vars

\* Every step is one the abstract registers allow.
Register == INSTANCE RouteRegister
ImplementsRegister == Register!Spec

\* The server's answer for the tag is not cut by the limit.
Fits(tag) == Cut(Matching(tag)) = {Matching(tag)}

Current ==
  \A e \in Entries, t \in Terminals :
    LET g == TagOf[e]
    IN  Fits(g) /\ g \in TagsAt[t][version[t]] => shown[g][t] = version[t]

\* PublishAll does not return to this routine.
Blocked(e) == query[e] = "building" /\ rest[e] = {}

\* Once the routes have stopped changing, the last event of every terminal
\* with a configured tag shows its route, although notifications are lost,
\* reordered or overtaken by stale polls, Subscribe failed, queries time out
\* or a tag is listed twice - unless the limit cuts the answers or the output
\* stays blocked for ever.
Converges == <>[]Current \/ \E e \in Entries : <>[]Blocked(e)
=============================================================================
