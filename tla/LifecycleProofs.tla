--------------------------- MODULE LifecycleProofs ---------------------------
(***************************************************************************)
(* Proofs about Lifecycle, for every set of tags, every set of             *)
(* configurations and every queue capacity.                                *)
(***************************************************************************)
EXTENDS Lifecycle, TLAPS

\* Before Run has connected nothing but Run itself (and a first statement of
\* Stop that panics) can take a step.
BeforeConnect == {"new", "start", "connect", "failed"} \cup Refused

ClientInv ==
  /\ client = "nil" <=> run \in BeforeConnect
  /\ stop # "idle" => client # "nil"
  /\ session = "up" => client # "nil"
  /\ \A t \in Tags : /\ query[t] # "absent" => client # "nil"
                     /\ handler[t] # "idle" => client # "nil"

\* The subscription client exists before any id is recorded, so whatever
\* Stop has read can be unsubscribed.
SubClientInv ==
  /\ run \in {"subscribe", "append", "wait", "returned"} => subClient = "built"
  /\ subIds # {} => subClient = "built"
  /\ snapshot # {} => subClient = "built"

\* done is closed by the last statement of Stop and by nothing else.
DoneInv == done <=> stop = "finished"

\* Every Subscribe precedes the reconnect goroutine, which is there whenever
\* a session is; the deferred Close leaves no subscription behind.
SubscriptionInv ==
  /\ made # {} => run = "append"
  /\ subRun # "absent" => run \in {"wait", "returned"}
  /\ session = "up" => subRun # "absent"
  /\ run = "returned" => subs = {} /\ done

IInv ==
  /\ ClientInv
  /\ SubClientInv
  /\ DoneInv
  /\ SubscriptionInv
  /\ RegisteredIsRecorded
  /\ ReconnectAbandonsNothing
  /\ OnlyKnownPanics

-----------------------------------------------------------------------------
(* Type correctness                                                        *)

LEMMA InitTypeOK == Init => TypeOK
<1> SUFFICES ASSUME Init PROVE TypeOK
  OBVIOUS
<1>1. conf \in Config /\ queue \in 0..QueueCap
  BY ConfsAssumption, QueueAssumption DEF Init
<1>2. /\ query \in [Tags -> QueryPC]
      /\ handler \in [Tags -> HandlerPC]
  BY DEF Init, QueryPC, HandlerPC
<1>3. QED
  BY <1>1, <1>2 DEF Init, TypeOK, RunPC, Refused, StopPC, SubRunPC, Panics

LEMMA NextTypeOK == TypeOK /\ [Next]_vars => TypeOK'
<1> SUFFICES ASSUME TypeOK, [Next]_vars PROVE TypeOK'
  OBVIOUS
<1> USE QueueAssumption
    DEF TypeOK, RunPC, Refused, StopPC, SubRunPC, QueryPC, HandlerPC, Panics, runVars,
        stopVars, subVars, pollVars, loop, clients, mainVars, linkVars
<1>1. CASE Next
  <2>1. CASE New
    BY <2>1 DEF New
  <2>2. CASE RunLogs
    BY <2>2 DEF RunLogs
  <2>3. CASE RunConnects
    BY <2>3 DEF RunConnects, Config
  <2>4. CASE RunBuildsSubClient
    BY <2>4 DEF RunBuildsSubClient, Config
  <2>5. CASE RunAppends
    BY <2>5 DEF RunAppends
  <2>6. CASE RunSpawnsReconnect
    BY <2>6 DEF RunSpawnsReconnect
  <2>7. CASE RunReturns
    BY <2>7 DEF RunReturns
  <2>8. ASSUME NEW t \in Tags, RunSpawnsQuery(t) PROVE TypeOK'
    BY <2>8 DEF RunSpawnsQuery
  <2>9. ASSUME NEW t \in Tags, RunSubscribes(t) PROVE TypeOK'
    BY <2>9 DEF RunSubscribes
  <2>10. CASE StopClosesClient
    BY <2>10 DEF StopClosesClient
  <2>11. CASE StopReadsSubIds
    BY <2>11 DEF StopReadsSubIds
  <2>12. CASE StopClosesDone
    BY <2>12 DEF StopClosesDone
  <2>13. ASSUME NEW t \in Tags, StopUnsubscribes(t) PROVE TypeOK'
    BY <2>13 DEF StopUnsubscribes
  <2>14. CASE ReconnectChecksDone
    BY <2>14 DEF ReconnectChecksDone
  <2>15. CASE ReconnectCallsRun
    BY <2>15 DEF ReconnectCallsRun
  <2>16. CASE ReconnectRunReturns
    BY <2>16 DEF ReconnectRunReturns
  <2>17. CASE ReconnectCounts
    BY <2>17 DEF ReconnectCounts
  <2>18. CASE SessionEnds
    BY <2>18 DEF SessionEnds
  <2>19. CASE OutputDrains
    BY <2>19 DEF OutputDrains
  <2>20. ASSUME NEW t \in Tags, ServerCompletes(t) PROVE TypeOK'
    BY <2>20 DEF ServerCompletes
  <2>21. ASSUME NEW t \in Tags, Notification(t) PROVE TypeOK'
    BY <2>21 DEF Notification
  <2>22. ASSUME NEW t \in Tags, QueryStarts(t) PROVE TypeOK'
    BY <2>22 DEF QueryStarts
  <2>23. ASSUME NEW t \in Tags, QueryExits(t) PROVE TypeOK'
    BY <2>23 DEF QueryExits
  <2>24. ASSUME NEW t \in Tags, QueryTicks(t) PROVE TypeOK'
    BY <2>24 DEF QueryTicks
  <2>25. ASSUME NEW t \in Tags, QueryReturns(t) PROVE TypeOK'
    BY <2>25 DEF QueryReturns
  <2>26. ASSUME NEW t \in Tags, QueryPublishes(t) PROVE TypeOK'
    BY <2>26 DEF QueryPublishes, PublishAll
  <2>27. ASSUME NEW t \in Tags, NotificationPublishes(t) PROVE TypeOK'
    BY <2>27 DEF NotificationPublishes, PublishAll
  <2>28. QED
    BY <1>1, <2>1, <2>2, <2>3, <2>4, <2>5, <2>6, <2>7, <2>8, <2>9, <2>10,
       <2>11, <2>12, <2>13, <2>14, <2>15, <2>16, <2>17, <2>18, <2>19, <2>20,
       <2>21, <2>22, <2>23, <2>24, <2>25, <2>26, <2>27
    DEF Next, RunStep, StopStep, ReconnectStep, QueryStep, Environment
<1>2. CASE UNCHANGED vars
  BY <1>2 DEF vars
<1>3. QED
  BY <1>1, <1>2

\* Every behaviour keeps every variable in its type; in particular the
\* publisher's queue never holds more than QueueCap events.
THEOREM TypeCorrect == Spec => []TypeOK
<1>1. Init => TypeOK
  BY InitTypeOK
<1>2. TypeOK /\ [Next]_vars => TypeOK'
  BY NextTypeOK
<1>3. QED
  BY <1>1, <1>2, PTL DEF Spec

-----------------------------------------------------------------------------
(* The inductive invariant                                                 *)

LEMMA InitIInv == Init => IInv
  BY DEF Init, IInv, ClientInv, BeforeConnect, Refused, SubClientInv, DoneInv,
         SubscriptionInv, RegisteredIsRecorded, ReconnectAbandonsNothing,
         OnlyKnownPanics

LEMMA NextIInv == TypeOK /\ IInv /\ [Next]_vars => IInv'
<1> SUFFICES ASSUME TypeOK, IInv, [Next]_vars PROVE IInv'
  OBVIOUS
<1> USE DEF IInv, ClientInv, BeforeConnect, SubClientInv, DoneInv,
            SubscriptionInv, RegisteredIsRecorded, ReconnectAbandonsNothing,
            OnlyKnownPanics, Refused, runVars, stopVars, subVars, pollVars,
            loop, clients, mainVars, linkVars
<1>1. CASE Next
  <2> panic = "none"
    BY <1>1 DEF Next
  <2>1. CASE New
    BY <2>1 DEF New, Acceptable
  <2>2. CASE RunLogs
    BY <2>2 DEF RunLogs
  <2>3. CASE RunConnects
    BY <2>3 DEF RunConnects
  <2>4. CASE RunBuildsSubClient
    BY <2>4 DEF RunBuildsSubClient
  <2>5. CASE RunAppends
    BY <2>5 DEF RunAppends
  <2>6. CASE RunSpawnsReconnect
    BY <2>6 DEF RunSpawnsReconnect
  <2>7. CASE RunReturns
    BY <2>7 DEF RunReturns
  <2>8. ASSUME NEW t \in Tags, RunSpawnsQuery(t) PROVE IInv'
    BY <2>8 DEF RunSpawnsQuery, TypeOK
  <2>9. ASSUME NEW t \in Tags, RunSubscribes(t) PROVE IInv'
    BY <2>9 DEF RunSubscribes
  <2>10. CASE StopClosesClient
    BY <2>10 DEF StopClosesClient
  <2>11. CASE StopReadsSubIds
    BY <2>11 DEF StopReadsSubIds
  <2>12. CASE StopClosesDone
    BY <2>12 DEF StopClosesDone
  <2>13. ASSUME NEW t \in Tags, StopUnsubscribes(t) PROVE IInv'
    BY <2>13 DEF StopUnsubscribes
  <2>14. CASE ReconnectChecksDone
    BY <2>14 DEF ReconnectChecksDone
  <2>15. CASE ReconnectCallsRun
    BY <2>15 DEF ReconnectCallsRun
  <2>16. CASE ReconnectRunReturns
    BY <2>16 DEF ReconnectRunReturns
  <2>17. CASE ReconnectCounts
    BY <2>17 DEF ReconnectCounts
  <2>18. CASE SessionEnds
    BY <2>18 DEF SessionEnds
  <2>19. CASE OutputDrains
    BY <2>19 DEF OutputDrains
  <2>20. ASSUME NEW t \in Tags, ServerCompletes(t) PROVE IInv'
    BY <2>20 DEF ServerCompletes
  <2>21. ASSUME NEW t \in Tags, Notification(t) PROVE IInv'
    BY <2>21 DEF Notification, TypeOK
  <2>22. ASSUME NEW t \in Tags, QueryStarts(t) PROVE IInv'
    BY <2>22 DEF QueryStarts, TypeOK
  <2>23. ASSUME NEW t \in Tags, QueryExits(t) PROVE IInv'
    BY <2>23 DEF QueryExits, TypeOK
  <2>24. ASSUME NEW t \in Tags, QueryTicks(t) PROVE IInv'
    BY <2>24 DEF QueryTicks, TypeOK
  <2>25. ASSUME NEW t \in Tags, QueryReturns(t) PROVE IInv'
    BY <2>25 DEF QueryReturns, TypeOK
  <2>26. ASSUME NEW t \in Tags, QueryPublishes(t) PROVE IInv'
    BY <2>26 DEF QueryPublishes, PublishAll, TypeOK
  <2>27. ASSUME NEW t \in Tags, NotificationPublishes(t) PROVE IInv'
    BY <2>27 DEF NotificationPublishes, PublishAll, TypeOK
  <2>28. QED
    BY <1>1, <2>1, <2>2, <2>3, <2>4, <2>5, <2>6, <2>7, <2>8, <2>9, <2>10,
       <2>11, <2>12, <2>13, <2>14, <2>15, <2>16, <2>17, <2>18, <2>19, <2>20,
       <2>21, <2>22, <2>23, <2>24, <2>25, <2>26, <2>27
    DEF Next, RunStep, StopStep, ReconnectStep, QueryStep, Environment
<1>2. CASE UNCHANGED vars
  BY <1>2 DEF vars
<1>3. QED
  BY <1>1, <1>2

LEMMA Invariance == Spec => [](TypeOK /\ IInv)
<1>1. Init => TypeOK /\ IInv
  BY InitTypeOK, InitIInv
<1>2. TypeOK /\ IInv /\ [Next]_vars => TypeOK' /\ IInv'
  BY NextTypeOK, NextIInv
<1>3. QED
  BY <1>1, <1>2, PTL DEF Spec

-----------------------------------------------------------------------------
(* What it implies                                                         *)

\* Whatever the interleaving of Run, Stop, the polling routines and the
\* callbacks, a panic is one of three: a period NewTicker refuses, a URL
\* url.Parse refuses, or Stop before Connect.
THEOREM PanicsAreKnown == Spec => []OnlyKnownPanics
<1>1. IInv => OnlyKnownPanics
  BY DEF IInv
<1>2. QED
  BY <1>1, Invariance, PTL

\* Stop can find every subscription but the one Run is about to append.
THEOREM SubscriptionsAreRecorded == Spec => []RegisteredIsRecorded
<1>1. IInv => RegisteredIsRecorded
  BY DEF IInv
<1>2. QED
  BY <1>1, Invariance, PTL

\* The reconnect goroutine never leaves a live subscription without a session
\* for good: it ends early only if there is none.
THEOREM NothingIsAbandoned == Spec => []ReconnectAbandonsNothing
<1>1. IInv => ReconnectAbandonsNothing
  BY DEF IInv
<1>2. QED
  BY <1>1, Invariance, PTL

\* No callback starts after Run has returned.
THEOREM CallbacksStopWithRun == Spec => NoCallbackAfterRun
<1> DEFINE Quiet == run = "returned" =>
             \A t \in Tags : handler[t] = "idle" => handler'[t] = "idle"
<1>1. TypeOK /\ IInv /\ [Next]_vars => [Quiet]_vars
  <2> SUFFICES ASSUME TypeOK, IInv, Next, run = "returned",
                      NEW t \in Tags, handler[t] = "idle"
               PROVE  handler'[t] = "idle"
    OBVIOUS
  <2>1. subs = {}
    BY DEF IInv, SubscriptionInv
  <2>2. UNCHANGED handler \/ \E u \in Tags : NotificationPublishes(u)
    BY <2>1 DEF Next, RunStep, StopStep, ReconnectStep, QueryStep,
       Environment, pollVars, New, RunLogs, RunConnects, RunBuildsSubClient,
       RunAppends, RunSpawnsReconnect, RunReturns, RunSpawnsQuery,
       RunSubscribes, StopClosesClient, StopReadsSubIds, StopClosesDone,
       StopUnsubscribes, ReconnectChecksDone, ReconnectCallsRun,
       ReconnectRunReturns, ReconnectCounts, SessionEnds, OutputDrains,
       ServerCompletes, Notification, QueryStarts, QueryExits, QueryTicks,
       QueryReturns, QueryPublishes
  <2>3. QED
    BY <2>2 DEF TypeOK, NotificationPublishes
<1>2. QED
  BY <1>1, Invariance, PTL DEF Spec, NoCallbackAfterRun

-----------------------------------------------------------------------------
(* The refinement of Beater                                                *)

\* Steps that Beater does not see.
LEMMA SilentStep ==
  ASSUME UNCHANGED <<Phase, Stopping, Polling, Calling>>
  PROVE  [Contract!Next]_(Contract!vars)
  BY DEF Contract!vars

\* What a step does to the routines of one tag.
LEMMA QueryMoves ==
  ASSUME TypeOK, NEW t \in Tags, NEW pc, query' = [query EXCEPT ![t] = pc]
  PROVE  /\ pc \notin {"absent", "exited"} => Polling' = Polling \cup {t}
         /\ pc \in {"absent", "exited"} => Polling' = Polling \ {t}
         /\ query[t] \notin {"absent", "exited"} /\ pc \notin {"absent", "exited"}
              => Polling' = Polling
  BY DEF TypeOK, Polling

LEMMA HandlerMoves ==
  ASSUME TypeOK, NEW t \in Tags, NEW pc, handler' = [handler EXCEPT ![t] = pc]
  PROVE  /\ pc # "idle" => Calling' = Calling \cup {t}
         /\ pc = "idle" => Calling' = Calling \ {t}
  BY DEF TypeOK, Calling

\* Every step of the process is a step of Beater or hidden from it.
LEMMA StepRefines ==
  TypeOK /\ IInv /\ [Next]_vars => [Contract!Next]_(Contract!vars)
<1> SUFFICES ASSUME TypeOK, IInv, [Next]_vars
             PROVE  [Contract!Next]_(Contract!vars)
  OBVIOUS
<1> USE DEF Refused, runVars, stopVars, subVars, pollVars, loop, clients, mainVars, linkVars
<1>1. CASE Next
  <2>1. panic = "none"
    BY <1>1 DEF Next
  <2>2. /\ run \in RunPC /\ stop \in StopPC
        /\ client = "nil" <=> run \in BeforeConnect
        /\ stop # "idle" => client # "nil"
        /\ session = "up" => client # "nil"
        /\ client = "nil" => Polling = {} /\ Calling = {}
        /\ run = "returned" => subs = {} /\ done
        /\ done <=> stop = "finished"
    BY DEF TypeOK, IInv, ClientInv, SubscriptionInv, DoneInv, Polling, Calling
  <2>3. /\ run # "new" => Phase # "created"
        /\ run = "new" => Phase = "created"
        /\ run \in {"start", "connect", "queries", "subscribe", "append", "wait"}
             => Phase = "running"
        /\ run \in {"failed", "returned"} => Phase = run
        /\ run \in Refused => Phase = "refused"
    BY <2>1 DEF Phase
  <2>4. CASE New
    <3>1. Phase' \in {"refused", "running"} /\ Phase = "created"
      BY <2>1, <2>3, <2>4 DEF New, Phase
    <3>2. UNCHANGED <<Stopping, Polling, Calling>>
      BY <2>4 DEF New, Stopping, Polling, Calling
    <3>3. Contract!Creates
      BY <3>1, <3>2 DEF Contract!Creates
    <3> QED
      BY <3>1, <3>3 DEF Contract!Next
  <2>5. CASE \/ RunLogs \/ RunAppends \/ RunSpawnsReconnect
             \/ \E t \in Tags : RunSubscribes(t)
    <3>1. UNCHANGED <<Phase, Stopping, Polling, Calling>>
      BY <2>5 DEF RunLogs, RunAppends, RunSpawnsReconnect, RunSubscribes,
         Phase, Stopping, Polling, Calling
    <3> QED
      BY <3>1, SilentStep
  <2>6. CASE RunConnects
    <3>1. UNCHANGED <<Stopping, Polling, Calling>>
      BY <2>6 DEF RunConnects, Stopping, Polling, Calling
    <3>2. CASE run' = "queries"
      <4>1. Phase' = Phase
        BY <2>6, <3>2 DEF RunConnects, Phase
      <4> QED
        BY <3>1, <4>1, SilentStep
    <3>3. CASE run' = "failed"
      <4>1. Phase' = "failed" /\ Phase = "running"
        BY <2>1, <2>6, <3>3 DEF RunConnects, Phase
      <4>2. Stopping = "idle" /\ Polling = {} /\ Calling = {}
        BY <2>2, <2>6 DEF RunConnects, BeforeConnect, Stopping
      <4>3. Contract!Fails
        BY <3>1, <4>1, <4>2 DEF Contract!Fails
      <4> QED
        BY <4>1, <4>3 DEF Contract!Next
    <3> QED
      BY <2>6, <3>2, <3>3 DEF RunConnects
  <2>7. ASSUME NEW t \in Tags, RunSpawnsQuery(t)
        PROVE  [Contract!Next]_(Contract!vars)
    <3>1. Phase = "running" /\ UNCHANGED <<Phase, Stopping, Calling>>
      BY <2>1, <2>7 DEF RunSpawnsQuery, Phase, Stopping, Calling
    <3>2. Polling' = Polling \cup {t}
      <4>1. query' = [query EXCEPT ![t] = "spawned"]
        BY <2>7 DEF RunSpawnsQuery
      <4>2. "spawned" \notin {"absent", "exited"}
        OBVIOUS
      <4> QED
        BY <4>1, <4>2, QueryMoves, Zenon
    <3>3. Contract!PollStarts(t)
      BY <3>1, <3>2 DEF Contract!PollStarts
    <3> QED
      BY <3>1, <3>3 DEF Contract!Next
  <2>8. CASE RunBuildsSubClient
    <3>1. UNCHANGED <<Stopping, Polling, Calling>>
      BY <2>8 DEF RunBuildsSubClient, Stopping, Polling, Calling
    <3>2. CASE panic' = "none"
      <4>1. Phase' = Phase
        BY <2>1, <2>8, <3>2 DEF RunBuildsSubClient, Phase
      <4> QED
        BY <3>1, <4>1, SilentStep
    <3>3. CASE panic' # "none"
      <4>1. Phase' = "crashed" /\ Phase = "running"
        BY <2>1, <2>8, <3>3 DEF RunBuildsSubClient, Phase
      <4>2. Contract!Crashes
        BY <3>1, <4>1 DEF Contract!Crashes
      <4> QED
        BY <4>1, <4>2 DEF Contract!Next
    <3> QED
      BY <3>2, <3>3
  <2>9. CASE RunReturns
    <3>1. Phase' = "returned" /\ Phase = "running" /\ Stopping = "finished"
      BY <2>1, <2>2, <2>9 DEF RunReturns, Phase, Stopping
    <3>2. UNCHANGED <<Stopping, Polling, Calling>>
      BY <2>9 DEF RunReturns, Stopping, Polling, Calling
    <3>3. Contract!Returns
      BY <3>1, <3>2 DEF Contract!Returns
    <3> QED
      BY <3>1, <3>3 DEF Contract!Next
  <2>10. CASE StopClosesClient
    <3>1. UNCHANGED <<Polling, Calling>>
      BY <2>10 DEF StopClosesClient, Polling, Calling
    <3>2. CASE client = "nil"
      <4>1. /\ Phase' = "crashed" /\ Phase \in {"running", "failed"}
            /\ Stopping = "idle" /\ Stopping' = Stopping
        BY <2>1, <2>2, <2>10, <3>2 DEF StopClosesClient, Phase, Stopping,
           BeforeConnect
      <4>2. Contract!Crashes
        BY <3>1, <4>1 DEF Contract!Crashes
      <4> QED
        BY <4>1, <4>2 DEF Contract!Next
    <3>3. CASE client # "nil"
      <4>1. Phase = "running"
        BY <2>1, <2>2, <2>10, <3>3 DEF StopClosesClient, Phase, BeforeConnect,
           RunPC
      <4>2. Phase' = Phase /\ Stopping = "idle" /\ Stopping' = "called"
        BY <2>10, <3>3 DEF StopClosesClient, Phase, Stopping
      <4>3. Contract!IsStopped
        BY <3>1, <4>1, <4>2 DEF Contract!IsStopped
      <4> QED
        BY <4>1, <4>3 DEF Contract!Next
    <3> QED
      BY <3>2, <3>3
  <2>11. CASE StopReadsSubIds
    <3>1. UNCHANGED <<Phase, Stopping, Polling, Calling>>
      BY <2>11 DEF StopReadsSubIds, Phase, Stopping, Polling, Calling
    <3> QED
      BY <3>1, SilentStep
  <2>12. ASSUME NEW t \in Tags, StopUnsubscribes(t)
         PROVE  [Contract!Next]_(Contract!vars)
    <3>1. subClient = "built"
      BY <2>12 DEF StopUnsubscribes, IInv, SubClientInv
    <3>2. UNCHANGED <<Phase, Stopping, Polling, Calling>>
      BY <2>12, <3>1 DEF StopUnsubscribes, Phase, Stopping, Polling, Calling
    <3> QED
      BY <3>2, SilentStep
  <2>13. CASE StopClosesDone
    <3>1. panic' = "none"
      BY <2>1, <2>2, <2>13 DEF StopClosesDone
    <3>2. UNCHANGED <<Phase, Polling, Calling>>
      BY <2>1, <2>13, <3>1 DEF StopClosesDone, Phase, Polling, Calling
    <3>3. Stopping = "called" /\ Stopping' = "finished"
      BY <2>13 DEF StopClosesDone, Stopping
    <3>4. Phase \notin {"refused", "crashed"}
      BY <2>1, <2>2, <2>13 DEF StopClosesDone, Phase, BeforeConnect
    <3>5. Contract!StopFinishes
      BY <3>2, <3>3 DEF Contract!StopFinishes
    <3> QED
      BY <3>4, <3>5 DEF Contract!Next
  <2>14. CASE ReconnectStep \/ SessionEnds \/ OutputDrains
              \/ \E t \in Tags : ServerCompletes(t)
    <3>1. UNCHANGED <<run, stop, query, handler, panic>>
      BY <2>14 DEF ReconnectStep, ReconnectChecksDone, ReconnectCallsRun,
         ReconnectRunReturns, ReconnectCounts, SessionEnds, OutputDrains,
         ServerCompletes
    <3>2. UNCHANGED <<Phase, Stopping, Polling, Calling>>
      BY <3>1 DEF Phase, Stopping, Polling, Calling
    <3> QED
      BY <3>2, SilentStep
  <2>15. ASSUME NEW t \in Tags, QueryStep(t)
         PROVE  [Contract!Next]_(Contract!vars)
    <3>1. UNCHANGED <<run, stop, handler>>
      BY <2>15 DEF QueryStep, QueryStarts, QueryExits, QueryTicks,
         QueryReturns, QueryPublishes
    <3>2. Stopping' = Stopping /\ Calling' = Calling
      BY <3>1 DEF Stopping, Calling
    <3>3. Phase \notin {"created", "refused", "failed", "crashed"}
      <4>1. client # "nil"
        BY <2>15 DEF QueryStep, QueryStarts, QueryExits, QueryTicks,
           QueryReturns, QueryPublishes, IInv, ClientInv
      <4> QED
        BY <2>1, <2>2, <4>1 DEF Phase, BeforeConnect
    <3>4. CASE panic' # "none"
      <4>1. QueryStarts(t) /\ UNCHANGED query
        <5>1. ~QueryPublishes(t)
          BY <2>1, <3>4 DEF QueryPublishes, PublishAll, IInv, ClientInv
        <5> QED
          BY <2>1, <2>15, <3>4, <5>1 DEF QueryStep, QueryStarts, QueryExits,
             QueryTicks, QueryReturns
      <4>2. Polling' = Polling /\ t \in Polling
        BY <4>1 DEF QueryStarts, Polling
      <4>3. Phase' = "crashed" /\ Phase \in {"running", "returned"}
        BY <2>1, <3>3, <3>4 DEF Phase
      <4>4. Contract!Crashes
        BY <3>2, <4>2, <4>3 DEF Contract!Crashes
      <4> QED
        BY <3>3, <4>4 DEF Contract!Next
    <3>5. CASE panic' = "none"
      <4>1. Phase' = Phase
        BY <2>1, <3>1, <3>5 DEF Phase
      <4>2. CASE QueryExits(t)
        <5>1. Stopping = "finished"
          BY <2>2, <4>2 DEF QueryExits, Stopping
        <5>2. Polling' = Polling \ {t}
          BY <4>2, QueryMoves DEF QueryExits
        <5>3. Contract!PollEnds(t)
          BY <3>2, <4>1, <5>1, <5>2 DEF Contract!PollEnds
        <5> QED
          BY <3>3, <5>3 DEF Contract!Next
      <4>3. CASE ~QueryExits(t)
        <5>1. \E pc \in {"select", "query", "publish"} :
                /\ query' = [query EXCEPT ![t] = pc]
                /\ query[t] \notin {"absent", "exited"}
          BY <2>1, <2>15, <3>5, <4>3 DEF QueryStep, QueryStarts, QueryTicks,
             QueryReturns, QueryPublishes
        <5>2. Polling' = Polling
          BY <5>1, QueryMoves
        <5> QED
          BY <3>2, <4>1, <5>2, SilentStep
      <4> QED
        BY <4>2, <4>3
    <3> QED
      BY <3>4, <3>5
  <2>16. ASSUME NEW t \in Tags, Notification(t)
         PROVE  [Contract!Next]_(Contract!vars)
    <3>1. Phase = "running"
      BY <2>1, <2>2, <2>16 DEF Notification, Phase, BeforeConnect
    <3>2. UNCHANGED <<Phase, Stopping, Polling>>
      BY <2>16 DEF Notification, Phase, Stopping, Polling
    <3>3. Calling' = Calling \cup {t}
      <4>1. handler' = [handler EXCEPT ![t] = "publish"]
        BY <2>16 DEF Notification
      <4>2. "publish" # "idle"
        OBVIOUS
      <4> QED
        BY <4>1, <4>2, HandlerMoves, Zenon
    <3>4. Contract!CallbackStarts(t)
      BY <3>1, <3>2, <3>3 DEF Contract!CallbackStarts
    <3> QED
      BY <3>1, <3>4 DEF Contract!Next
  <2>17. ASSUME NEW t \in Tags, NotificationPublishes(t)
         PROVE  [Contract!Next]_(Contract!vars)
    <3>1. client # "nil"
      BY <2>17 DEF NotificationPublishes, IInv, ClientInv
    <3>2. panic' = "none"
      BY <2>1, <2>17, <3>1 DEF NotificationPublishes, PublishAll
    <3>3. Phase \notin {"refused", "crashed"}
      BY <2>1, <2>2, <3>1 DEF Phase, BeforeConnect
    <3>4. UNCHANGED <<Phase, Stopping, Polling>>
      BY <2>1, <2>17, <3>2 DEF NotificationPublishes, Phase, Stopping, Polling
    <3>5. Calling' = Calling \ {t}
      BY <2>17, HandlerMoves DEF NotificationPublishes
    <3>6. Contract!CallbackEnds(t)
      BY <3>4, <3>5 DEF Contract!CallbackEnds
    <3> QED
      BY <3>3, <3>6 DEF Contract!Next
  <2> QED
    BY <1>1, <2>4, <2>5, <2>6, <2>7, <2>8, <2>9, <2>10, <2>11, <2>12, <2>13,
       <2>14, <2>15, <2>16, <2>17 DEF Next, RunStep, StopStep, Environment
<1>2. CASE UNCHANGED vars
  <2>1. UNCHANGED <<Phase, Stopping, Polling, Calling>>
    BY <1>2 DEF vars, Phase, Stopping, Polling, Calling
  <2> QED
    BY <2>1, SilentStep
<1> QED
  BY <1>1, <1>2

\* Lifecycle implements Beater: Run and every polling routine go on until
\* Stop has finished, no work begins once Run has returned, and after that
\* nothing panics but a polling routine that has still to end.
THEOREM Refinement == Spec => ImplementsBeater
<1>1. Init => Contract!Init
  BY DEF Init, Contract!Init, Phase, Stopping, Polling, Calling
<1> QED
  BY <1>1, Invariance, StepRefines, PTL DEF Spec, ImplementsBeater, Contract!Spec

=============================================================================
