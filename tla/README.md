# routebeat, in TLA+

routebeat is a libbeat beat.  It authenticates with a Magnum server, polls its
GraphQL API for the terminals of each configured tag, subscribes to their
updates over a websocket, and publishes one event per terminal that says how it
is routed.  This directory holds the model of the program, the TLC runs that
check it and the TLAPS proofs about it.

All paths below are relative to `src/`.

## 1. Inventory

| Part | Source | State | Operations | Model |
|---|---|---|---|---|
| Lifecycle | `beater/routebeat.go:44-169` | `bt.client`, `bt.subClient`, `bt.subIds`, `bt.done` | `New`, `Run`, `Stop` | `Lifecycle` |
| Reconnect goroutine | `routebeat.go:171-191` | the subscription client's session and subscriptions | `SubscriptionClientRun` | `Lifecycle` |
| Polling, one goroutine per tag | `routebeat.go:193-232` | its ticker and its place in the loop | `QueryTerminalsRoutine` | `Lifecycle`, `RouteFeed` |
| Notifications | `routebeat.go:234-265` | callbacks in flight | the closure of `SubscribeTerminals` | `Lifecycle`, `RouteFeed` |
| Event building | `routebeat.go:268-387`, `utils.go:20-37`, `models_graphql.go` | the loop over the edges, the events | `BuildEvents` | `RouteEvents`, `RouteFeed` |
| Authentication | `httpclient/http_client.go` | cookie jar, ticker, request in flight | `NewHTTPClient`, `magnumAuth`, `getNewToken` | `MagnumAuth`, `RouteSystem` |
| Configuration | `config/config.go` | the configuration | validation in `New` | `Lifecycle` |
| URL conversion | `utils.go:12-18` | none | `getWssURL` | `Lifecycle` |
| Entry point | `main.go`, `cmd/root.go` | none | hands `New` to libbeat | no |
| Build, generated fields, licences, Logstash | `magefile.go`, `include/`, `licenses/`, `tools/`, `logstash/` | none in the process | | no |

How they interact:

* `New` calls `NewHTTPClient`, whose cookie jar is then shared by the query
  client, the subscription client and the token goroutine.
* `Run` starts one polling goroutine per tag and, with notifications on, one
  reconnect goroutine; each of these and every subscription callback ends in
  `BuildEvents` and so in `bt.client.PublishAll`, which blocks while the
  publisher's queue is full.
* libbeat calls `Stop` from a goroutine of its own as soon as `New` has
  returned.  `Stop` and `Run` share `bt.client`, `bt.subClient` and `bt.subIds`
  without a lock; only the channel `bt.done` synchronises them.  Closing it is
  meant to end the token goroutine, the polling goroutines, the reconnect
  goroutine and `Run`.

What is hard here: `Stop` at every point of `Run`; goroutines that block in
`PublishAll`, in the subscription client or in a request without a timeout when
`Stop` is called; sessions that end and have to come back; polling that has to
survive every error; the age of the token when refreshes are late or fail; the
overwriting rules behind the nameset objects and labels of an event; and the
order in which polled and notified states of a route are published.
`PROJECT.json` lists each of these under "hazards", at its line.

What makes the parts correct:

* Lifecycle: no panic but those a bad configuration or a very early signal
  cause; every subscription is found again; Stop ends everything.
* Reconnect goroutine: it never gives up a live subscription; sessions return.
* Polling: it goes on for ever, whatever a query returns.
* Polling and notifications together: only routes that carry the tag are
  published, a poll never goes back behind its own request, and the last event
  of each terminal comes to show its route.
* Event building: every tagged edge becomes an event, no nameset value is lost
  but by a collision of names, labels agree with the namesets beside them.
* Authentication: the token's age is bounded as long as the endpoint answers;
  refreshing goes on; Stop ends it.

## 2. Modules

| Module | What it is |
|---|---|
| `Lifecycle` | New, Run, Stop, SubscriptionClientRun, QueryTerminalsRoutine and the subscription callback, interleaved |
| `MCLifecycle` | the configurations its runs start from |
| `Beater` | what a beater promises libbeat: how long Run, the polling and the callbacks go on, and when it may panic |
| `LifecycleProofs` | its proofs, and that it implements `Beater` |
| `MagnumAuth` | the first token request and the refresh goroutine, with time |
| `MagnumAuthProofs` | its proofs |
| `RouteRegister` | the promise of the feed: a register per tag and terminal |
| `RouteFeed` | which routes the polls and notifications of each tag publish, in which order |
| `MCRouteFeed` | the tags and routes of its run |
| `RouteFeedProofs` | its proofs, and that it implements `RouteRegister` |
| `RouteSystem` | `MagnumAuth` composed with `RouteFeed`: queries need a valid token |
| `MCRouteSystem` | the instance of its run |
| `RouteSystemProofs` | that the theorems about the feed alone hold of the feed in it |
| `RouteEvents` | one call of BuildEvents |
| `MCRouteEvents` | nameset names that collide, and the edge lists made of them |
| `NamesetProofs` | lemmas about the recursive functions and the nameset operators of `RouteEvents` |
| `RouteEventsProofs` | its proofs |

An operator called `A_Something` whose comment begins "Mutation of" is a form of
action or helper `A` with a plausible bug.  Nothing in the specifications uses
it; it stands there so that one can check that a property notices the bug.

### Lifecycle

One variable per field (`client`, `subClient`, `subIds`, `done`), one program
counter per goroutine (`run`, `stop`, `subRun`, `query[t]`, `handler[t]`), and
the external state the goroutines act on: the websocket `session`, the
subscriptions `subs` that go-graphql-client holds, and the publisher's `queue`.
The granularity is that of statements with effects visible to another
goroutine: Subscribe and the `append` of its id are two actions, and so are the
four parts of Stop.  A Go panic in any goroutine ends the process, so `Next`
requires `panic = "none"`.

Abstractions:

* A batch of events is one entry of the queue; a query returns something to
  publish or not.  A batch all of whose edges were filtered out is published as
  an empty list, which the queue does not notice.
* `cfg.Unpack` fails for reasons of its own, before anything is looked at
  (`"unreadable"`).
* `conf.period` and `conf.url` are reduced to whether `time.NewTicker` and
  `url.Parse` accept them, `conf.mapping` to absent, blank or named.
* One callback per tag is in flight at a time.
* The tags are a set; what a tag listed twice does to the published routes is
  in `RouteFeed`.
* go-graphql-client is external.  Its `Run` either fails to dial or brings a
  session up and returns when the session ends or no subscription is left;
  `Close` forgets every subscription and ends the session; `Unsubscribe` forgets
  one or fails, which Stop only logs.  The libbeat client's `Close` releases blocked publishers and drops what
  is published after it.
* Access to `bt.subIds` and `bt.client` from Stop is a data race in Go.  The
  model lets Stop see any value that was ever assigned before it reads, in the
  order of the interleaving; torn reads of the slice header are not modelled.

`Beater` says what all this promises libbeat, in four variables: the phase the
beater is in, whether Stop has been called and has finished, the tags being
polled and those with a callback running.  Run fails only before it has begun
anything and returns only after Stop has finished; a poll ends only then, so no
error of a query ends it; polls and callbacks begin only while Run runs; after
Run has returned nothing panics but a polling routine that has yet to end (it
may still be at `time.NewTicker`).  It says nothing of connections,
subscriptions, ids, queues or the channel.  `Lifecycle!ImplementsBeater` reads
the four off the program counters (`Phase`, `Stopping`, `Polling`, `Calling`).

### MagnumAuth

Time is counted in units; the age of the token, the time since the request was
sent and the time to the next tick are kept relative to now, so that no clock
grows without bound except the age, which is the quantity of interest.  The
goroutine takes a step that it can take before time passes on (`Ready`), which
idealises scheduling only.  `ticker.C` holds one tick; the ticker drops others.
A request is answered, successfully or not, within `Latency` - or never, when
`ServerMayHang` is TRUE, because `getNewToken` has no timeout.  Time passes and
the token ages on while a refresh hangs; nothing bounds that in the code, so
`MaxAge` bounds it in the model.  `TokenAgeBounded` is about an endpoint that
answers: once a request hangs there is no bound to state, and that the goroutine
is then stuck is finding 3.  `MaxFailures` caps the failures in a row.

### RouteFeed

What `Lifecycle` calls "something to publish" is spelled out here: a terminal's
route is a version number, a query carries the versions at the moment the server
evaluated it, a notification one version of one terminal.  There is one polling
routine and at most one subscription per *entry* of the tags list (`Entries`,
`TagOf`), so a tag may be listed twice.  `shown[g][t]` is the version in the
event for terminal `t` and tag `g` with the latest timestamp, which is what a
consumer that keeps the last event per destination shows.

| Action | Code |
|---|---|
| `QueryTicks(e)` | a tick, a new `query` variable, the call of `client.Query` (`routebeat.go:193-216`) |
| `ServerReads(e)` | Magnum evaluates the query: the terminals whose tags pass its filter, at most `limit` of them, any of them when there are more |
| `ServerAnswersNull(e)` | an answer whose `terminals` is null, which leaves the `query` variable as it was |
| `QueryFails(e)` | an error or the 10 s timeout, before or after the server has evaluated the query (`212-221`); what was decoded stays in the variable until the next iteration has a new one |
| `QueryReturns(e)` | the answer in time (`216-231`): without edges back to select (`TotalCount < 1`), otherwise BuildEvents is called |
| `BuildsEvent(e, t)` | one round of the loop in BuildEvents (`278-376`), the edges in any order; other routines and callbacks run in between |
| `PublishReturns(e)` | `PublishAll` returns (`384`), which it need never do |
| `CallbackRuns(e, m)` | the closure of SubscribeTerminals on message `m` (`241-257`), in any order |
| `ServerChanges(t)` | a route changes; each subscription hears of it or, while its session is down or when its message does not unmarshal, does not |
| `BuildEvent(tag, t, v)` | the event of one edge, if it has the very tag (`278-288`) |

Abstractions: an event takes its place among the events of its terminal when
BuildEvents stamps it with `time.Now()`; when PublishAll lets it through does not
change that.  A callback that is blocked in PublishAll affects no other goroutine
of the feed, so for callbacks its return is not a step.  A message is about one
terminal; a message about several is several messages.  Subscriptions are made
before the routes start to change, those that fail (`routebeat.go:134`) never;
the session's ups and downs appear as lost notifications.  Shutdown is in
`Lifecycle`, not here.  `asked` is the version of each route when `client.Query`
was called; the code does not keep it, the properties need it.

`RouteRegister` says the same without routines, queries, answers and messages: a
poll asks, and later replaces registers of its tag, one at a time, with versions that
were current at some moment since it asked; a notification, which only entries with a
subscription have, replaces one register with any version the route has had; both
only with versions that carry the tag.  `RouteFeed!ImplementsRegister` maps
`version`, `subscribed`, `asked` and `shown` to themselves and hides the rest.

### RouteSystem

`EXTENDS MagnumAuth`, `Feed == INSTANCE RouteFeed`.  A step is one of
authentication or, once New has returned, one of the feed; the only coupling is
that of the code, the cookie jar of the one http client: the server evaluates a
query only while the token in the jar is younger than `Lifetime`.
`LifetimeAssumption` only says that a token is accepted for longer than it takes to
arrive.  The time a poll takes is not related to the time of `MagnumAuth`.

### RouteEvents

A nested `mapstr.M` is a function from leaf paths to values.  `Put` has the
semantics BuildEvents relies on: an error (ignored by the code) if the path goes
through a leaf, otherwise whatever is at the path - leaf or map - is replaced.
`Key[n]` is the path of nameset name `n`: lower case, split at the dots.  The
fields BuildEvents copies unread are left out.  `Map`, `Route` and `EventFields`
are the types of what an event holds; `NilAssumption` only says that the value
that stands for Go's nil is none of the others.  `Tagged` is the reference the
properties compare the events with: the edges that carry the very tag, in order,
as a recursive function (`Carrying`) that says nothing of the loop.

## 3. Runs

| Run | Checks | Result |
|---|---|---|
| `lifecycle_safety` | `TypeOK`, `OnlyKnownPanics`, `RegisteredIsRecorded`, `ReconnectAbandonsNothing`, `NoCallbackAfterRun`, `ImplementsBeater` from all 96 configurations | holds, 88k states |
| `lifecycle_stop` | `StopEndsEverything`, `SessionComesBack` | holds |
| `lifecycle_polling` | `PollingContinues` | holds |
| `lifecycle_signal` | `ExitsNormallyOnceRunning` | violated: finding 1 |
| `lifecycle_testconfig` | `TestConfigIsAccepted` | violated: finding 2 |
| `auth_age` | `TypeOK`, `TokenAgeBounded` | holds, 16k states |
| `auth_live` | `RefreshContinues`, `RefreshStops` | holds |
| `auth_hang` | `RefreshStops` with an endpoint that may hang | violated: finding 3 |
| `feed` | `TypeOK`, `OnlyTaggedRoutes`, `FreshAsOfRequest`, `ImplementsRegister`, `Converges` with a tag listed twice, answers cut by the limit or null, and an output that may block | holds, 141k states |
| `system` | `ConvergesWithToken` with tokens that expire | holds, 26k states |
| `events_build` | `TypeOK`, `PublishesTaggedEdges`, `NamesetsAreKept`, `LabelsMatchNamesets` | holds, 520k states |
| `events_default` | `DefaultMeansEmptyRoute` | violated: finding 4 |

Deadlock is not checked where the modelled process, or a call of BuildEvents,
ends; it is checked in `feed`.

What `feed` shows: a stale poll may overwrite a newer notification, and an older
notification a newer one - the code orders neither - but a poll never publishes
what had been replaced before it asked, even after earlier queries timed out and
when the answer is decoded into nothing, and
the next polls repair whatever was lost, reordered or overtaken: once the routes
stop changing the last event of every terminal with the tag shows its route.
Three exceptions are in the property `Converges` because they are in the code: as
long as the limit cuts the server's answer, terminals that only resemble the tag
may keep others out of it (`Fits`); a terminal that has lost the tag fails
the test at `routebeat.go:281`, so its last event is never corrected
(`g \in TagsAt[t][version[t]]` in `Current`); and a routine whose `PublishAll`
never returns, because the output is down for good, polls no more (`Blocked`).
`Lifecycle!PollingContinues` makes the same exception.  `system` adds that refreshes which
fail and queries which are refused meanwhile only delay this.

Bounds, and why they are enough:

* `Tags` has two elements in `Lifecycle`.  The goroutines of different tags
  share only the queue, the session and `subIds`; two of them give every way in
  which one tag's Subscribe fails, one id is appended after Stop has read the
  list, or one routine holds the queue while another waits.
* `QueueCap = 1`: the smallest queue that is sometimes full and sometimes not;
  a larger one only delays blocking.
* `auth_age`: `Period = 4` minutes as in the code and `Latency = 6`, so that
  ticks arrive during a request and are dropped; up to two failures in a row.
  A token that is replaced in time is at most `Budget(2) + Latency` = 30 old;
  `MaxAge = 32` lets one whose replacement hangs grow older than that.
  `auth_live` and `auth_hang` use `Latency = 3`, the usual case of requests
  shorter than the period; without hanging `MaxAge` plays no part.
* `feed`: one tag, listed twice, is enough for two routines and two
  subscriptions that write the same registers; routines of different tags share
  none.  `cam` has two versions with the tag, the least for a stale value, and
  one without it; `mon` first carries a tag that only passes the server's filter
  and with `Limit = 1` crowds `cam` out, then none, after which the answer fits.
  `MaxVersion = 3` bounds the changes.
* `system`: `Period = 2`, `Latency = 1`, `MaxFailures = 2` and
  `Lifetime = 5`, the smallest at which a token does not expire without a
  failure: one failed refresh may let the token expire, two must.  One terminal with two versions, one entry, no hanging
  endpoint, since it is the recovery that is asked about.
* `events_build`: four nameset names that differ in case only, by a dot, or
  entirely; two values; destinations with up to two entries and sources with up
  to one, or one source with up to two - the smallest lists with a collision,
  an overwritten map and a first match that is not the last; lists of up to
  three edges for the filter.

### Fairness

`Lifecycle!Fairness`: weak fairness of every goroutine, which Go's scheduler
gives; strong fairness of a polling routine's `case <-bt.done`, as select picks
at random among ready cases; strong fairness of whoever waits for room in the
queue, as waiters are served in turn; and strong fairness of a successful dial,
which says that a server that is dialled for ever is reachable at times.  The
signal, the output and the server owe nothing: the output may stay down for
ever, and `StopEndsEverything` holds nevertheless because Stop closes the
client first.

`MagnumAuth!Fairness`: weak fairness of New's request, of the goroutine, of time and of an
endpoint that has not hung, and strong fairness of `case <-c.Done` for the same
reason as above.

`RouteFeed!Fairness`: weak fairness of the ticks, of the end of a query, which
has a timeout, of the rounds of BuildEvents and of the callbacks' goroutines;
strong fairness of the server's evaluation with terminals that are not null and
of an answer with edges in time, which says that of the queries asked for ever not
all fail.  PublishAll owes nothing: `PublishReturns` has no fairness, a routine may
stay in it for ever, and `Converges` says so.  Routes need not change,
notifications need not arrive.  `RouteSystem!SystemFairness` keeps these for
polls while the token is valid: a poll is asked, evaluated and answered at such
times again and again, because the polling period is much shorter than the time
a token is valid.  A query is never required to succeed without a token.

### Findings

1. `ExitsNormallyOnceRunning`: Run logs "routebeat is running" before it has
   connected the publisher.  A signal in between makes Stop call `Close` on a
   nil interface.  The system test (`tests/system/test_base.py:17-19`) waits for
   that message, kills the beat and asserts exit code 0.
2. `TestConfigIsAccepted`: the configuration of that test configures no tag and
   `New` rejects it, so the test cannot pass.
3. `RefreshStops`: a token request has no timeout, so closing `bt.done` does not
   end the token goroutine if the endpoint never answers, contrary to the
   comment at `routebeat.go:163-164`; nor is the token refreshed again.
4. `DefaultMeansEmptyRoute`: `routebeat.yml:14` documents the mapping's default
   as the value for an empty route.  A destination routed from a physical source
   that has the nameset is labelled with it too when its subscribed source does
   not have the nameset, since the second lookup overwrites the first.

## 4. Proofs

Proved by TLAPS for every value of the constants, from the named assumptions on
them only:

* `LifecycleProofs`: `TypeCorrect`, `PanicsAreKnown`, `SubscriptionsAreRecorded`,
  `NothingIsAbandoned` and `CallbacksStopWithRun`.  The inductive invariant
  `IInv` adds to the properties what they silently depend on: the client is nil
  exactly until Run has connected, and without it Stop is not past its first
  statement, no session is up and no polling routine or callback exists
  (`ClientInv`); there is a subscription client wherever Run subscribes or an id
  is recorded or waits to be unsubscribed (`SubClientInv`); `done` is closed
  exactly when Stop has finished (`DoneInv`); an id is pending only while Run is
  about to append it, the reconnect goroutine is there whenever a session is,
  and after Run's return no subscription is left (`SubscriptionInv`).  The last
  one is what makes late callbacks impossible although the reconnect goroutine may dial once more after the deferred Close.
  Type correctness is proved first and used in every step.
  `Refinement`: `Lifecycle` implements `Beater`.  `StepRefines` has a step per
  action; most change nothing Beater sees (`SilentStep`), the others add or take
  one tag (`QueryMoves`, `HandlerMoves`) or move the phase.  That a callback
  never starts, and nothing crashes, where Beater forbids it is what
  `SubscriptionInv` and `ClientInv` are needed for.
* `MagnumAuthProofs`: `TypeCorrect` and `TokenAge`.  The bound on the token's age
  is not inductive: it says nothing of how late the next request will be.
  `SelectInv` bounds the age at the moment the next tick is there for the
  goroutine, `RequestInv` the age when the request in flight was sent and ties
  its duration to the ticker.  `BudgetGrows` is the arithmetic: a failure adds
  at least a period and at least a slow request to the budget.
* `RouteFeedProofs`: `TypeCorrect`, `PublishesTagged`, `PollsAreFresh` and
  `Refinement`, for every set of terminals, list of tags, filter and limit.  The
  inductive invariant adds `KnownVersions`: no request, answer or message knows
  of a version the server has not had, and while an answer may still be published
  it is no older than its request; `QueryVariable`: a query starts with an empty
  variable and BuildEvents visits only edges in it, which is what rules out edges
  left over from a query that failed; and `HeardBySubscribed`: only an entry with a
  subscription is called back.
  `BuildEventShows` states what a round of BuildEvents leaves in `shown`.
  `StepRefines` maps each action to the registers' action or to a stutter.
* `RouteSystemProofs`: `FeedIsSound` - in the composed system, too,
  `OnlyTaggedRoutes`, `FreshAsOfRequest` and `ImplementsRegister` hold.
  The theorems of an instance hold under the instantiated
  assumptions, which `RouteSystem` therefore states (`FeedAssumption`); the
  definitions of two instances are different symbols to the prover, so
  `StepOfFeed` shows action by action that a step of the feed inside the
  composition is one of the feed alone.
* `NamesetProofs`: what the helpers of BuildEvents do, for lists of any length.
  Induction over a list is not available to the provers as a rule, but its
  instances are: a recursive function on `0..n` exists because there is no least
  `i` up to which it does not (`Least`, `UpTo`, `Trace`), and a fact about every
  prefix is proved from the same least counterexample.  The lemmas that say
  something of the program are `PutKeepsTree` (writing at a path, whether it
  fails, replaces a leaf or replaces a whole map, leaves a tree), `PutKeeps` (a
  Put at a path that does not overlap loses nothing), `RangeKeeps` (so neither
  does `rangeOverNamesets`), `FindsByName` and `LabelAgrees` (the first exact
  match agrees with the last write of the lower-cased name, unless names clash)
  and `CarryingSelects` (the tagged edges are a pick of all of them).
* `RouteEventsProofs`: `TypeCorrect`, `PublishesTagged`, `NamesetsKept` and
  `LabelsMatch`.  The inductive invariant `LoopInv` ties the loop to its past:
  the events are those of the tagged edges among the first `next - 1`, in order,
  the rest of these are discarded, and nothing is published before the last.  The
  properties of single events then follow from the lemmas about the operators,
  since every event is `Event(edge)` of its edge.  `PublishesPick` says what
  `PublishesTagged` says without the recursive `Tagged`, and of whole events:
  there is an increasing choice of indices that picks the edges with the tag.

The strengthenings were checked by TLC on the instances of the runs before they
were proved.  From `InputsAssumption` the proofs about `RouteEvents` use that the
lists are lists of edges, not which ones.

Every safety property of a passing run - invariant, action property or refinement
- is proved.  Only model-checked is what is out of the prover's reach, liveness
under fairness: `StopEndsEverything`, `SessionComesBack`, `PollingContinues`,
`RefreshContinues`, `RefreshStops`, `Converges` and `ConvergesWithToken`.

## 5. Plan

The components of section 1 that keep state are modelled and what can be proved
of them is.  What could still be added, in order of importance:

1. `Lifecycle` and `RouteFeed` both model the polling loop, one for when it runs
   and one for what it publishes.  A common refinement would let shutdown cut a
   poll of `RouteFeed` short.
2. Overlapping reads and writes of `bt.subIds` below the level of statements
   (torn slice headers), for which the model would need Go's memory model.

## 6. Not modelled

The entry point (`main.go`, `cmd/root.go`) hands `New` to libbeat; it keeps no
state.  Generated code, build targets and the Logstash configuration have no
state of this process.  TLS settings, the cookie's host, the texts of
queries, log messages and the fields that BuildEvents copies unread decide
nothing in the behaviour modelled here.
