------------------------------ MODULE Lifecycle ------------------------------
(***************************************************************************)
(* The life of one routebeat process: New validates the configuration and  *)
(* authenticates, Run connects the publisher, starts one polling goroutine *)
(* per tag, makes the subscriptions and starts the reconnect goroutine,    *)
(* Stop - called by libbeat on a goroutine of its own, at any moment after *)
(* New - tears all of it down.  Nothing but the done channel synchronises  *)
(* Stop with Run, so every interleaving of their statements is a behaviour.*)
(*                                                                         *)
(* What is fetched and published is abstracted here to "a batch with       *)
(* something in it"; the publisher's queue is bounded and its output may   *)
(* be down, so PublishAll may block.                                       *)
(***************************************************************************)
EXTENDS Naturals

CONSTANTS
  Tags,      \* the entries of the configuration's tags list
  Confs,     \* the configurations a behaviour may start with
  QueueCap   \* events the publisher's queue holds before PublishAll blocks

(***************************************************************************)
(* A configuration, as far as it decides control.  mapping: the section is *)
(* absent, present with a blank nameset, or present with a nameset.        *)
(* period: whether time.NewTicker accepts it.  url: whether url.Parse      *)
(* accepts api.url.                                                        *)
(***************************************************************************)
Config == [tags : SUBSET Tags,
           mapping : {"off", "blank", "named"},
           period : {"positive", "nonpositive"},
           url : {"wellformed", "malformed"},
           notifications : BOOLEAN]

ASSUME ConfsAssumption == Confs \subseteq Config
ASSUME QueueAssumption == QueueCap \in Nat \ {0}

\* What an operator who sets nothing gets: no tags, no mapping.
DefaultConfig == [tags |-> {}, mapping |-> "off", period |-> "positive",
                  url |-> "wellformed", notifications |-> TRUE]

VARIABLES
  conf,      \* bt.config, fixed once New has read it
  run,       \* where the goroutine that executes New and Run is
  todo,      \* the tags the Run loop being executed has still to visit
  made,      \* the subscription whose id Run holds but has not appended
  stop,      \* where the goroutine that executes Stop is
  snapshot,  \* what is left of bt.subIds as Stop's range statement read it
  done,      \* is bt.done closed?
  client,    \* bt.client: "nil", "open" or "closed"
  subClient, \* bt.subClient: "nil" or "built"
  subIds,    \* bt.subIds
  subs,      \* the subscriptions bt.subClient knows (GetSubscriptions)
  session,   \* the websocket session of bt.subClient: "up" or "down"
  subRun,    \* where SubscriptionClientRun is
  query,     \* where each tag's QueryTerminalsRoutine is
  handler,   \* where each tag's subscription callback is
  queue,     \* events waiting in the publisher's queue
  panic      \* the panic that killed the process, or "none"

vars == <<conf, run, todo, made, stop, snapshot, done, client, subClient,
          subIds, subs, session, subRun, query, handler, queue, panic>>

\* Groups of variables that several actions leave alone together.
loop == <<todo, made>>
runVars == <<run, loop>>
stopVars == <<stop, snapshot, done>>
subVars == <<subIds, subs, session>>
pollVars == <<query, handler, queue>>
clients == <<client, subClient>>
mainVars == <<conf, runVars, stopVars, clients>>
linkVars == <<subVars, subRun>>

\* Where New has ended without a beater.
Refused == {"unreadable", "rejected", "unauthenticated"}
RunPC == {"new", "start", "connect", "failed", "queries", "subscribe",
          "append", "wait", "returned"} \cup Refused
StopPC == {"idle", "range", "unsubscribe", "finished"}
SubRunPC == {"absent", "check", "call", "inRun", "count", "exited"}
QueryPC == {"absent", "spawned", "select", "query", "publish", "exited"}
HandlerPC == {"idle", "publish"}
Panics == {"none", "nilClient", "nilSubClient", "doneClosedTwice",
           "wssURL", "ticker"}

TypeOK ==
  /\ conf \in Config
  /\ run \in RunPC
  /\ todo \subseteq Tags
  /\ made \subseteq Tags
  /\ stop \in StopPC
  /\ snapshot \subseteq Tags
  /\ done \in BOOLEAN
  /\ client \in {"nil", "open", "closed"}
  /\ subClient \in {"nil", "built"}
  /\ subIds \subseteq Tags
  /\ subs \subseteq Tags
  /\ session \in {"down", "up"}
  /\ subRun \in SubRunPC
  /\ query \in [Tags -> QueryPC]
  /\ handler \in [Tags -> HandlerPC]
  /\ queue \in 0..QueueCap
  /\ panic \in Panics

Init ==
  /\ conf \in Confs
  /\ run = "new" /\ todo = {} /\ made = {}
  /\ stop = "idle" /\ snapshot = {} /\ done = FALSE
  /\ client = "nil" /\ subClient = "nil"
  /\ subIds = {} /\ subs = {} /\ session = "down"
  /\ subRun = "absent"
  /\ query = [t \in Tags |-> "absent"]
  /\ handler = [t \in Tags |-> "idle"]
  /\ queue = 0
  /\ panic = "none"

-----------------------------------------------------------------------------
(* New                                                                     *)

Acceptable(c) == c.tags # {} /\ c.mapping # "blank"

\* New: Unpack, which may fail, the two validations, then the first token
\* request, which may fail.
New ==
  /\ run = "new"
  /\ \/ run' = "unreadable"
     \/ ~Acceptable(conf) /\ run' = "rejected"
     \/ Acceptable(conf) /\ run' \in {"start", "unauthenticated"}
  /\ UNCHANGED <<conf, loop, stopVars, clients, linkVars, pollVars, panic>>

-----------------------------------------------------------------------------
(* Run                                                                     *)

\* "routebeat is running! Hit CTRL-C to stop it."
RunLogs ==
  /\ run = "start"
  /\ run' = "connect"
  /\ UNCHANGED <<conf, loop, stopVars, clients, linkVars, pollVars, panic>>

\* Mutation of RunConnects: the error is not returned.
RunConnects_ErrorIgnored ==
  /\ run = "connect"
  /\ client' \in {"open", "nil"} /\ run' = "queries" /\ todo' = conf.tags
  /\ UNCHANGED <<conf, made, stopVars, subClient, linkVars, pollVars, panic>>

\* b.Publisher.Connect: on success Run goes on to the loop over the tags.
RunConnects ==
  /\ run = "connect"
  /\ \/ client' = "open" /\ run' = "queries" /\ todo' = conf.tags
     \/ run' = "failed" /\ UNCHANGED <<client, todo>>
  /\ UNCHANGED <<conf, made, stopVars, subClient, linkVars, pollVars, panic>>

\* go bt.QueryTerminalsRoutine(queryClient, tag, bt.done)
RunSpawnsQuery(t) ==
  /\ run = "queries" /\ t \in todo
  /\ todo' = todo \ {t}
  /\ query' = [query EXCEPT ![t] = "spawned"]
  /\ UNCHANGED <<conf, run, made, stopVars, clients, linkVars,
                 handler, queue, panic>>

\* The subscription client is built whether it is needed or not; getWssURL
\* ignores url.Parse's error and dereferences the nil URL.
RunBuildsSubClient ==
  /\ run = "queries" /\ todo = {}
  /\ \/ /\ conf.url = "malformed"
        /\ panic' = "wssURL"
        /\ UNCHANGED <<run, todo, subClient>>
     \/ /\ conf.url = "wellformed"
        /\ subClient' = "built"
        /\ run' = IF conf.notifications THEN "subscribe" ELSE "wait"
        /\ todo' = IF conf.notifications THEN conf.tags ELSE {}
        /\ UNCHANGED panic
  /\ UNCHANGED <<conf, made, stopVars, client, linkVars, pollVars>>

\* bt.SubscribeTerminals: the client registers the subscription, or returns
\* an error and the loop continues with the next tag.
RunSubscribes(t) ==
  /\ run = "subscribe" /\ t \in todo
  /\ todo' = todo \ {t}
  /\ \/ run' = "append" /\ made' = {t} /\ subs' = subs \cup {t}
     \/ UNCHANGED <<run, made, subs>>
  /\ UNCHANGED <<conf, stopVars, clients, subIds, session, subRun,
                 pollVars, panic>>

\* Mutation of RunAppends: the result of append is not assigned.
RunAppends_IdLost ==
  /\ run = "append"
  /\ run' = "subscribe"
  /\ made' = {}
  /\ UNCHANGED <<conf, todo, stopVars, clients, linkVars, pollVars, panic>>

\* bt.subIds = append(bt.subIds, subscriptionId)
RunAppends ==
  /\ run = "append"
  /\ run' = "subscribe"
  /\ subIds' = subIds \cup made
  /\ made' = {}
  /\ UNCHANGED <<conf, todo, stopVars, clients, subs, session,
                 subRun, pollVars, panic>>

\* go bt.SubscriptionClientRun(), then block on the done channel.
RunSpawnsReconnect ==
  /\ run = "subscribe" /\ todo = {}
  /\ run' = "wait"
  /\ subRun' = "check"
  /\ UNCHANGED <<conf, loop, stopVars, clients, subVars, pollVars, panic>>

\* Mutation of RunReturns: no deferred Close.
RunReturns_NoClose ==
  /\ run = "wait" /\ done
  /\ run' = "returned"
  /\ UNCHANGED <<conf, loop, stopVars, clients, linkVars, pollVars, panic>>

\* <-bt.done, then the deferred bt.subClient.Close() and the return.
RunReturns ==
  /\ run = "wait" /\ done
  /\ run' = "returned"
  /\ subs' = {} /\ session' = "down"
  /\ UNCHANGED <<conf, loop, stopVars, clients, subIds, subRun,
                 pollVars, panic>>

-----------------------------------------------------------------------------
(* Stop, which libbeat calls at most once, as soon as New has returned.    *)

\* Mutation of StopClosesClient: Stop leaves the publisher client open.
StopClosesClient_LeftOpen ==
  /\ stop = "idle"
  /\ run \notin {"new"} \cup Refused
  /\ stop' = "range"
  /\ UNCHANGED <<conf, runVars, snapshot, done, clients, linkVars,
                 pollVars, panic>>

\* bt.client.Close(): before Run has connected it is a call on a nil
\* interface.  Closing the client releases whoever is blocked in PublishAll.
StopClosesClient ==
  /\ stop = "idle"
  /\ run \notin {"new"} \cup Refused
  /\ \/ client = "nil" /\ panic' = "nilClient" /\ UNCHANGED <<stop, client>>
     \/ client # "nil" /\ client' = "closed" /\ stop' = "range"
        /\ UNCHANGED panic
  /\ UNCHANGED <<conf, runVars, snapshot, done, subClient, linkVars, pollVars>>

\* The range statement evaluates bt.subIds once: ids that Run appends later
\* are not visited.
StopReadsSubIds ==
  /\ stop = "range"
  /\ stop' = "unsubscribe"
  /\ snapshot' = subIds
  /\ UNCHANGED <<conf, runVars, done, clients, linkVars, pollVars, panic>>

\* bt.subClient.Unsubscribe(id): an error is logged, the loop goes on and the
\* client may still hold the subscription.
StopUnsubscribes(t) ==
  /\ stop = "unsubscribe" /\ t \in snapshot
  /\ \/ subClient = "nil" /\ panic' = "nilSubClient" /\ UNCHANGED <<snapshot, subs>>
     \/ subClient = "built" /\ snapshot' = snapshot \ {t}
        /\ subs' \in {subs, subs \ {t}}
        /\ UNCHANGED panic
  /\ UNCHANGED <<conf, runVars, stop, done, clients, subIds, session,
                 subRun, pollVars>>

\* close(bt.done), which panics on a channel that is closed already.
StopClosesDone ==
  /\ stop = "unsubscribe" /\ snapshot = {}
  /\ stop' = "finished"
  /\ done' = TRUE
  /\ panic' = IF done THEN "doneClosedTwice" ELSE panic
  /\ UNCHANGED <<conf, runVars, snapshot, clients, linkVars, pollVars>>

-----------------------------------------------------------------------------
(* SubscriptionClientRun, and the graphql client under it                  *)

\* The non-blocking select at the top of the loop.
ReconnectChecksDone ==
  /\ subRun = "check"
  /\ subRun' = IF done THEN "exited" ELSE "call"
  /\ UNCHANGED <<mainVars, subVars, pollVars, panic>>

\* Mutation of ReconnectCallsRun: a dial error ends the goroutine.
ReconnectCallsRun_ErrorEnds ==
  /\ subRun = "call"
  /\ \/ session' = "up" /\ subRun' = "inRun"
     \/ session' = session /\ subRun' = "exited"
  /\ UNCHANGED <<mainVars, subIds, subs, pollVars, panic>>

\* bt.subClient.Run() dials: a session comes up, or it returns an error.
ReconnectCallsRun ==
  /\ subRun = "call"
  /\ \/ session' = "up" /\ subRun' = "inRun"
     \/ session' = session /\ subRun' = "count"
  /\ UNCHANGED <<mainVars, subIds, subs, pollVars, panic>>

\* Run returns when its session has ended or no subscription is left to it.
ReconnectRunReturns ==
  /\ subRun = "inRun"
  /\ session = "down" \/ subs = {}
  /\ session' = "down"
  /\ subRun' = "count"
  /\ UNCHANGED <<mainVars, subIds, subs, pollVars, panic>>

\* Mutation of ReconnectCounts: the goroutine runs the client only once.
ReconnectCounts_RunOnce ==
  /\ subRun = "count"
  /\ subRun' = "exited"
  /\ UNCHANGED <<mainVars, subVars, pollVars, panic>>

\* len(bt.subClient.GetSubscriptions()) == 0 ends the goroutine.
ReconnectCounts ==
  /\ subRun = "count"
  /\ subRun' = IF subs = {} THEN "exited" ELSE "check"
  /\ UNCHANGED <<mainVars, subVars, pollVars, panic>>

\* The connection drops, or OnError hands an error back to the client.
SessionEnds ==
  /\ session = "up"
  /\ session' = "down"
  /\ UNCHANGED <<mainVars, subIds, subs, subRun, pollVars, panic>>

\* The server completes a subscription and the client forgets it.
ServerCompletes(t) ==
  /\ session = "up" /\ t \in subs
  /\ subs' = subs \ {t}
  /\ UNCHANGED <<mainVars, subIds, session, subRun, pollVars, panic>>

-----------------------------------------------------------------------------
(* QueryTerminalsRoutine and the subscription callback                     *)

\* Mutation of PublishAll: the queue's limit is not respected.
PublishAll_Unbounded ==
  \/ client = "open" /\ queue' = queue + 1 /\ UNCHANGED panic
  \/ client = "closed" /\ UNCHANGED <<queue, panic>>
  \/ client = "nil" /\ panic' = "nilClient" /\ UNCHANGED queue

\* bt.client.PublishAll: blocks while the open client's queue is full, drops
\* the batch once the client is closed, is a nil call before Run connected.
PublishAll ==
  \/ client = "open" /\ queue < QueueCap /\ queue' = queue + 1
     /\ UNCHANGED panic
  \/ client = "closed" /\ UNCHANGED <<queue, panic>>
  \/ client = "nil" /\ panic' = "nilClient" /\ UNCHANGED queue

\* time.NewTicker(bt.config.Period) panics unless the period is positive.
QueryStarts(t) ==
  /\ query[t] = "spawned"
  /\ \/ /\ conf.period = "positive"
        /\ query' = [query EXCEPT ![t] = "select"]
        /\ UNCHANGED panic
     \/ /\ conf.period = "nonpositive"
        /\ panic' = "ticker"
        /\ UNCHANGED query
  /\ UNCHANGED <<mainVars, linkVars, handler, queue>>

\* case <-bt.done
QueryExits(t) ==
  /\ query[t] = "select" /\ done
  /\ query' = [query EXCEPT ![t] = "exited"]
  /\ UNCHANGED <<mainVars, linkVars, handler, queue, panic>>

\* case <-ticker.C: still possible when done is closed, as select picks any
\* ready case.
QueryTicks(t) ==
  /\ query[t] = "select"
  /\ query' = [query EXCEPT ![t] = "query"]
  /\ UNCHANGED <<mainVars, linkVars, handler, queue, panic>>

\* Mutation of QueryReturns: a failed query returns instead of continuing.
QueryReturns_ErrorExits(t) ==
  /\ query[t] = "query"
  /\ \E next \in {"exited", "select", "publish"} :
        query' = [query EXCEPT ![t] = next]
  /\ UNCHANGED <<mainVars, linkVars, handler, queue, panic>>

\* client.Query returns within CLIENT_TIMEOUT.  An error, a zero count or
\* edges that all fail the exact tag test send the routine back to select;
\* otherwise BuildEvents has a batch to publish.
QueryReturns(t) ==
  /\ query[t] = "query"
  /\ \E next \in {"select", "publish"} : query' = [query EXCEPT ![t] = next]
  /\ UNCHANGED <<mainVars, linkVars, handler, queue, panic>>

QueryPublishes(t) ==
  /\ query[t] = "publish"
  /\ PublishAll
  /\ query' = [query EXCEPT ![t] = "select"]
  /\ UNCHANGED <<mainVars, linkVars, handler>>

\* A message that unmarshals to edges carrying the tag: the client calls the
\* closure SubscribeTerminals gave it, on a goroutine of the client's own.
Notification(t) ==
  /\ session = "up" /\ t \in subs
  /\ handler[t] = "idle"
  /\ handler' = [handler EXCEPT ![t] = "publish"]
  /\ UNCHANGED <<mainVars, linkVars, query, queue, panic>>

NotificationPublishes(t) ==
  /\ handler[t] = "publish"
  /\ PublishAll
  /\ handler' = [handler EXCEPT ![t] = "idle"]
  /\ UNCHANGED <<mainVars, linkVars, query>>

\* The output takes an event off the queue, if it is up.
OutputDrains ==
  /\ queue > 0
  /\ queue' = queue - 1
  /\ UNCHANGED <<mainVars, linkVars, query, handler, panic>>

-----------------------------------------------------------------------------
RunStep ==
  \/ New \/ RunLogs \/ RunConnects \/ RunBuildsSubClient
  \/ RunAppends \/ RunSpawnsReconnect \/ RunReturns
  \/ \E t \in Tags : RunSpawnsQuery(t) \/ RunSubscribes(t)

StopStep ==
  \/ StopClosesClient \/ StopReadsSubIds \/ StopClosesDone
  \/ \E t \in Tags : StopUnsubscribes(t)

ReconnectStep ==
  \/ ReconnectChecksDone \/ ReconnectCallsRun
  \/ ReconnectRunReturns \/ ReconnectCounts

QueryStep(t) ==
  \/ QueryStarts(t) \/ QueryExits(t) \/ QueryTicks(t)
  \/ QueryReturns(t) \/ QueryPublishes(t)

Environment ==
  \/ SessionEnds \/ OutputDrains
  \/ \E t \in Tags : ServerCompletes(t) \/ Notification(t)

\* A panic in any goroutine ends the process.
Next ==
  /\ panic = "none"
  /\ \/ RunStep \/ StopStep \/ ReconnectStep \/ Environment
     \/ \E t \in Tags : QueryStep(t) \/ NotificationPublishes(t)

Spec == Init /\ [][Next]_vars

-----------------------------------------------------------------------------
(* Fairness.  Every goroutine of the process is scheduled (WF), select and *)
(* a contended channel do not pass one case or one sender over for ever    *)
(* (SF), and a dial that is retried for ever succeeds at times (SF).  The  *)
(* signal, the output and the server owe nothing.                          *)

Alive(A) == panic = "none" /\ A

StopProceeds == StopStep /\ stop # "idle"

Dials == ReconnectCallsRun /\ session' = "up"

Fairness ==
  /\ WF_vars(Alive(RunStep))
  /\ WF_vars(Alive(StopProceeds))
  /\ WF_vars(Alive(ReconnectStep))
  /\ SF_vars(Alive(Dials))
  /\ \A t \in Tags :
       /\ WF_vars(Alive(QueryStep(t)))
       /\ SF_vars(Alive(QueryExits(t)))
       /\ SF_vars(Alive(QueryPublishes(t)))
       /\ SF_vars(Alive(NotificationPublishes(t)))

FairSpec == Spec /\ Fairness

-----------------------------------------------------------------------------
(* Safety                                                                  *)

\* The process panics only where New let a configuration through that Run
\* cannot use (period, URL) or where Stop came before Run had connected.  No
\* other interleaving makes Stop, a polling routine or a callback use a nil
\* client, a nil subscription client or a closed channel.
OnlyKnownPanics ==
  panic # "none" =>
    \/ panic = "ticker" /\ conf.period = "nonpositive"
    \/ panic = "wssURL" /\ conf.url = "malformed"
    \/ panic = "nilClient" /\ stop = "idle"
         /\ run \in {"start", "connect", "failed"}

\* A subscription the client holds can be found by Stop: it is in bt.subIds,
\* but for the one whose id Run is about to append.
RegisteredIsRecorded == subs \ subIds \subseteq made

\* SubscriptionClientRun ends before shutdown only if no subscription is
\* left: a live subscription is never abandoned after a lost connection.
ReconnectAbandonsNothing == subRun = "exited" /\ ~done => subs = {}

\* Once Run has returned no callback starts any more, although Stop may have
\* read bt.subIds before Run filled it and SubscriptionClientRun may enter
\* the client's Run after the deferred Close.
NoCallbackAfterRun ==
  [][run = "returned" =>
       \A t \in Tags : handler[t] = "idle" => handler'[t] = "idle"]_vars

\* Where Beater's phase and Stop are.
Phase ==
  IF panic # "none" THEN "crashed"
  ELSE IF run = "new" THEN "created"
  ELSE IF run \in Refused THEN "refused"
  ELSE IF run \in {"failed", "returned"} THEN run
  ELSE "running"
Stopping == IF stop \in {"range", "unsubscribe"} THEN "called" ELSE stop

Polling == {t \in Tags : query[t] \notin {"absent", "exited"}}
Calling == {t \in Tags : handler[t] # "idle"}

Contract == INSTANCE Beater WITH
  phase <- Phase, stopping <- Stopping, polling <- Polling, calling <- Calling

\* The process keeps the promises of Beater: Run does not return and no
\* polling routine ends before Stop has finished, whatever fails; work begins
\* only while Run runs; and once Run has returned nothing panics but a
\* polling routine that has still to end.
ImplementsBeater == Contract!Spec

-----------------------------------------------------------------------------
(* Liveness                                                                *)

Quiescent ==
  /\ run = "returned"
  /\ subRun \in {"absent", "exited"}
  /\ \A t \in Tags : query[t] \in {"absent", "exited"} /\ handler[t] = "idle"

\* "Stops go routines": once Stop is past its first statement Run returns and
\* every goroutine ends, even one that is blocked in PublishAll because the
\* output is down.
StopEndsEverything == stop # "idle" ~> Quiescent \/ panic # "none"

\* "make it reconnect on connnection lost": while a subscription is held and
\* nobody calls Stop, a lost session is followed by a new one.
SessionComesBack ==
  run = "wait" /\ subs # {} ~>
    session = "up" \/ subs = {} \/ stop # "idle" \/ panic # "none"

\* A tag's routine polls again and again, whatever its queries return and the
\* other goroutines do, until Stop or unless the output stays blocked.
PollingContinues ==
  \A t \in Tags :
    query[t] # "absent" ~>
      \/ []<>(query[t] = "query") /\ []<>(query[t] = "select")
      \/ <>[](queue = QueueCap) \/ stop # "idle" \/ panic # "none"

-----------------------------------------------------------------------------
(* Statements of the repository's system test that the code does not meet  *)

\* tests/system/test_base.py: a beat that has logged "routebeat is running"
\* and is then signalled exits with code 0.
ExitsNormallyOnceRunning == run \notin {"new", "start"} => panic = "none"

\* tests/system/config/routebeat.yml.j2 sets nothing under routebeat, and
\* test_base.py expects the beat to run on it.
TestConfigIsAccepted == conf = DefaultConfig => run # "rejected"
=============================================================================
