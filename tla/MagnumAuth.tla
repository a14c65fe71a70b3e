------------------------------ MODULE MagnumAuth ------------------------------
(***************************************************************************)
(* Authentication: magnumAuth requests a token, puts it into the cookie    *)
(* jar and starts the goroutine that replaces it at every tick of a        *)
(* ticker until bt.done is closed.                                         *)
(*                                                                         *)
(* Time passes in units; ages, delays and the ticker are kept relative to  *)
(* now.  A goroutine that can take a step takes it before time passes on.  *)
(***************************************************************************)
EXTENDS Naturals

CONSTANTS
  Period,         \* between two ticks: 4 * time.Minute
  Latency,        \* the longest a token request takes, unless it hangs
  MaxFailures,    \* token requests that may fail in a row
  ServerMayHang,  \* may the token endpoint never answer?
  MaxAge          \* bound on the age of a token whose replacement hangs

ASSUME PeriodAssumption == Period \in Nat \ {0}
ASSUME LatencyAssumption == Latency \in Nat
ASSUME FailuresAssumption == MaxFailures \in Nat
ASSUME HangAssumption == ServerMayHang \in BOOLEAN
ASSUME MaxAgeAssumption == MaxAge \in Nat

VARIABLES
  pc,        \* where magnumAuth, later its goroutine, is
  server,    \* what the token endpoint does with the request
  elapsed,   \* time since the request was sent
  issued,    \* age of the token issued for the request
  age,       \* age of the token in the jar
  tick,      \* time until the ticker's next tick
  queued,    \* ticks waiting in ticker.C, which holds one
  failures,  \* requests failed since the jar was last set
  done       \* is the done channel closed?

vars == <<pc, server, elapsed, issued, age, tick, queued, failures, done>>

request == <<server, elapsed, issued>>
ticker == <<tick, queued>>

PC == {"auth", "unauthenticated", "select", "request", "exited"}

TypeOK ==
  /\ pc \in PC
  /\ server \in {"idle", "working", "issued", "hung"}
  /\ server = "idle" <=> pc \notin {"auth", "request"}
  /\ elapsed \in 0..Latency
  /\ issued \in 0..elapsed
  /\ age \in Nat
  /\ tick \in 1..Period
  /\ queued \in 0..1
  /\ failures \in 0..MaxFailures
  /\ done \in BOOLEAN

Init ==
  /\ pc = "auth"
  /\ server = "working" /\ elapsed = 0 /\ issued = 0
  /\ age = 0 /\ failures = 0
  /\ tick = Period /\ queued = 0
  /\ done = FALSE

-----------------------------------------------------------------------------
(* The token endpoint                                                      *)

ServerIssues ==
  /\ server = "working"
  /\ server' = "issued" /\ issued' = 0
  /\ UNCHANGED <<pc, elapsed, age, ticker, failures, done>>

\* getNewToken uses context.Background() and a client without a timeout:
\* nothing ends a request that is never answered.
ServerHangs ==
  /\ ServerMayHang
  /\ server = "working"
  /\ server' = "hung"
  /\ UNCHANGED <<pc, elapsed, issued, age, ticker, failures, done>>

Answered == server' = "idle" /\ elapsed' = 0 /\ issued' = 0

-----------------------------------------------------------------------------
(* NewHTTPClient and magnumAuth, which New calls                           *)

\* jar.SetCookies, then the goroutine with its ticker.
AuthSucceeds ==
  /\ pc = "auth" /\ server = "issued"
  /\ Answered
  /\ age' = issued
  /\ pc' = "select"
  /\ UNCHANGED <<ticker, failures, done>>

\* The error New returns.
AuthFails ==
  /\ pc = "auth" /\ server # "hung"
  /\ Answered
  /\ pc' = "unauthenticated"
  /\ UNCHANGED <<age, ticker, failures, done>>

-----------------------------------------------------------------------------
(* The goroutine                                                           *)

\* Mutation of Exits: a break, which leaves the select but not the loop.
Exits_BreaksSelect ==
  /\ pc = "select" /\ done
  /\ pc' = "select"
  /\ UNCHANGED <<request, age, ticker, failures, done>>

\* case <-c.Done
Exits ==
  /\ pc = "select" /\ done
  /\ pc' = "exited"
  /\ UNCHANGED <<request, age, ticker, failures, done>>

\* case <-ticker.C: select may prefer it to a closed c.Done.
Requests ==
  /\ pc = "select" /\ queued = 1
  /\ queued' = 0
  /\ pc' = "request" /\ server' = "working"
  /\ UNCHANGED <<elapsed, issued, age, tick, failures, done>>

\* Mutation of RefreshSucceeds: the cookie set is the token magnumAuth itself
\* requested, the variable that the goroutine's token shadows.
RefreshSucceeds_OuterToken ==
  /\ pc = "request" /\ server = "issued"
  /\ Answered
  /\ failures' = 0
  /\ pc' = "select"
  /\ UNCHANGED <<age, ticker, done>>

\* jar.SetCookies replaces the cookie.
RefreshSucceeds ==
  /\ pc = "request" /\ server = "issued"
  /\ Answered
  /\ age' = issued
  /\ failures' = 0
  /\ pc' = "select"
  /\ UNCHANGED <<ticker, done>>

\* Mutation of RefreshFails: a failed request ends the goroutine.
RefreshFails_Returns ==
  /\ pc = "request" /\ server # "hung" /\ failures < MaxFailures
  /\ Answered
  /\ failures' = failures + 1
  /\ pc' = "exited"
  /\ UNCHANGED <<age, ticker, done>>

\* An error is logged; the old cookie stays and the next try is at the next
\* tick.
RefreshFails ==
  /\ pc = "request" /\ server # "hung" /\ failures < MaxFailures
  /\ Answered
  /\ failures' = failures + 1
  /\ pc' = "select"
  /\ UNCHANGED <<age, ticker, done>>

-----------------------------------------------------------------------------
(* Stop closes the channel, once New has returned.                         *)
StopClosesDone ==
  /\ pc \in {"select", "request"} /\ ~done
  /\ done' = TRUE
  /\ UNCHANGED <<pc, request, age, ticker, failures>>

-----------------------------------------------------------------------------
(* Time                                                                    *)

\* The goroutine has a case to take.
Ready == pc = "select" /\ (queued = 1 \/ done)

\* Mutation of TickerAdvances: every tick is kept.
TickerAdvances_AllQueued ==
  IF tick > 1 THEN tick' = tick - 1 /\ UNCHANGED queued
              ELSE tick' = Period /\ queued' = queued + 1

\* ticker.C holds one tick; a tick that finds it full is dropped.
TickerAdvances ==
  IF tick > 1 THEN tick' = tick - 1 /\ UNCHANGED queued
              ELSE tick' = Period /\ queued' = 1

\* A unit of time.  Before the goroutine exists there is no ticker.
TimePasses ==
  /\ ~Ready
  /\ \/ /\ pc = "auth" /\ server # "hung" /\ elapsed < Latency
        /\ elapsed' = elapsed + 1
        /\ UNCHANGED <<age, ticker>>
     \/ /\ pc = "request" /\ server # "hung" /\ elapsed < Latency
        /\ elapsed' = elapsed + 1
        /\ age' = age + 1
        /\ TickerAdvances
     \/ /\ pc = "select"
        /\ age' = age + 1
        /\ TickerAdvances
        /\ UNCHANGED elapsed
     \/ /\ pc = "request" /\ server = "hung" /\ age < MaxAge
        /\ age' = age + 1
        /\ TickerAdvances
        /\ UNCHANGED elapsed
  /\ issued' = IF server = "issued" THEN issued + 1 ELSE issued
  /\ UNCHANGED <<pc, server, failures, done>>

-----------------------------------------------------------------------------
GoroutineStep == Exits \/ Requests \/ RefreshSucceeds \/ RefreshFails

Next ==
  \/ AuthSucceeds \/ AuthFails \/ GoroutineStep
  \/ ServerIssues \/ ServerHangs \/ StopClosesDone \/ TimePasses

Spec == Init /\ [][Next]_vars

(***************************************************************************)
(* New and the goroutine run, time passes, and select does not prefer the   *)
(* ticker to a closed channel for ever.  A server that has not hung        *)
(* answers, for time cannot pass beyond Latency without it.                *)
(***************************************************************************)
Fairness ==
  /\ WF_vars(AuthSucceeds \/ AuthFails)
  /\ WF_vars(GoroutineStep)
  /\ SF_vars(Exits)
  /\ WF_vars(ServerIssues)
  /\ WF_vars(TimePasses)

FairSpec == Spec /\ Fairness

-----------------------------------------------------------------------------
(* Properties                                                              *)

Longer(a, b) == IF a > b THEN a ELSE b

\* The most that may pass from the moment a token is issued to the next
\* request when f requests have failed since.
Budget(f) == (f + 1) * Longer(Period, Latency) + Latency

\* The token in the jar is never older than one ticker period, or one slow
\* request, for it and for every failure in a row since, plus the delays of
\* the request that got it and of the one that replaces it: late, queued and
\* dropped ticks do not add to that, as long as the endpoint answers.
TokenAgeBounded ==
  pc \in {"select", "request"} /\ server # "hung" =>
    age <= Budget(failures) + Latency

\* The jar's token is replaced again and again until Stop, although requests
\* fail.
RefreshContinues == age > Latency ~> age <= Latency \/ done

\* "Stops go routines: magnum token refresh": once the channel is closed the
\* goroutine ends.
RefreshStops == done ~> pc = "exited"
=============================================================================
