--------------------------- MODULE MagnumAuthProofs ---------------------------
(***************************************************************************)
(* Proofs about MagnumAuth: type correctness and the bound on the age of   *)
(* the token, for every period, latency and number of failures.            *)
(***************************************************************************)
EXTENDS MagnumAuth, TLAPS

USE PeriodAssumption, LatencyAssumption, FailuresAssumption, HangAssumption

-----------------------------------------------------------------------------
(* The budget                                                              *)

\* The budget is a number that covers the first wait, and one more failure
\* adds to it at least a period and at least a slow request.
LEMMA BudgetGrows ==
  ASSUME NEW f \in Nat
  PROVE  /\ Budget(f) \in Nat
         /\ Budget(f) >= Latency + Period
         /\ Budget(f) >= Latency + Latency
         /\ Budget(f + 1) >= Budget(f) + Period
         /\ Budget(f + 1) >= Budget(f) + Latency
<1> DEFINE M == Longer(Period, Latency)
<1>1. M \in Nat /\ M >= Period /\ M >= Latency
  BY DEF Longer
<1> HIDE DEF M
<1>2. (f + 1) * M \in Nat /\ (f + 1) * M = f * M + M /\ f * M \in Nat
  BY <1>1
<1>3. (f + 1 + 1) * M = (f + 1) * M + M
  BY <1>1
<1>4. Budget(f) = (f + 1) * M + Latency /\ Budget(f + 1) = (f + 1 + 1) * M + Latency
  BY DEF Budget, M
<1> QED BY <1>1, <1>2, <1>3, <1>4

-----------------------------------------------------------------------------
(* The inductive invariant                                                 *)

\* Before the goroutine exists its ticker has not started.
AuthInv == pc = "auth" => tick = Period /\ queued = 0 /\ failures = 0

\* Between requests their clocks stand at zero.
IdleInv == server = "idle" => elapsed = 0 /\ issued = 0

\* While the goroutine waits, the token's age at the moment the next tick is
\* there for it is within the budget.
SelectInv ==
  pc = "select" =>
    /\ queued = 1 => age <= Budget(failures)
    /\ queued = 0 => age + tick <= Budget(failures)

\* A request that is still to be answered started within the budget, and no
\* later than its tick.
RequestInv ==
  pc = "request" /\ server # "hung" =>
    /\ age <= Budget(failures) + elapsed
    /\ queued = 0 => elapsed + tick <= Period

IInv == TypeOK /\ AuthInv /\ IdleInv /\ SelectInv /\ RequestInv

LEMMA InitIInv == Init => IInv
<1> SUFFICES ASSUME Init PROVE IInv
  OBVIOUS
<1>1. TypeOK
  <2>1. done \in BOOLEAN
    BY DEF Init
  <2>2. pc = "auth" /\ server = "working"
    BY DEF Init
  <2>3. /\ elapsed \in 0..Latency /\ issued \in 0..elapsed /\ age \in Nat
        /\ tick \in 1..Period /\ queued \in 0..1 /\ failures \in 0..MaxFailures
    BY DEF Init
  <2> QED BY <2>1, <2>2, <2>3 DEF TypeOK, PC
<1>2. AuthInv /\ IdleInv /\ SelectInv /\ RequestInv
  BY DEF Init, AuthInv, IdleInv, SelectInv, RequestInv
<1> QED BY <1>1, <1>2 DEF IInv

LEMMA NextTypeOK == TypeOK /\ [Next]_vars => TypeOK'
<1> SUFFICES ASSUME TypeOK, [Next]_vars PROVE TypeOK'
  OBVIOUS
<1> USE DEF TypeOK, PC, request, ticker, Answered
<1>1. CASE AuthSucceeds   BY <1>1 DEF AuthSucceeds
<1>2. CASE AuthFails      BY <1>2 DEF AuthFails
<1>3. CASE Exits          BY <1>3 DEF Exits
<1>4. CASE Requests       BY <1>4 DEF Requests
<1>5. CASE RefreshSucceeds BY <1>5 DEF RefreshSucceeds
<1>6. CASE RefreshFails   BY <1>6 DEF RefreshFails
<1>7. CASE ServerIssues   BY <1>7 DEF ServerIssues
<1>8. CASE ServerHangs    BY <1>8 DEF ServerHangs
<1>9. CASE StopClosesDone BY <1>9 DEF StopClosesDone
<1>10. CASE TimePasses    BY <1>10 DEF TimePasses, TickerAdvances, Ready
<1>11. CASE UNCHANGED vars BY <1>11 DEF vars
<1> QED
  BY <1>1, <1>2, <1>3, <1>4, <1>5, <1>6, <1>7, <1>8, <1>9, <1>10, <1>11
     DEF Next, GoroutineStep

LEMMA NextAge ==
  IInv /\ [Next]_vars => AuthInv' /\ IdleInv' /\ SelectInv' /\ RequestInv'
<1> SUFFICES ASSUME IInv, [Next]_vars
             PROVE  AuthInv' /\ IdleInv' /\ SelectInv' /\ RequestInv'
  OBVIOUS
<1> USE DEF IInv, TypeOK, PC, AuthInv, IdleInv, SelectInv, RequestInv,
            request, ticker, Answered
<1>0. failures \in Nat /\ 0 \in Nat /\ Budget(failures) \in Nat /\ Budget(0) \in Nat
  BY BudgetGrows
<1>1. CASE AuthSucceeds
  BY <1>0, <1>1, BudgetGrows DEF AuthSucceeds
<1>2. CASE AuthFails
  BY <1>2 DEF AuthFails
<1>3. CASE Exits
  BY <1>3 DEF Exits
<1>4. CASE Requests
  BY <1>0, <1>4 DEF Requests
<1>5. CASE RefreshSucceeds
  BY <1>0, <1>5, BudgetGrows DEF RefreshSucceeds
<1>6. CASE RefreshFails
  <2>1. /\ Budget(failures + 1) >= Budget(failures) + Period
        /\ Budget(failures + 1) >= Budget(failures) + Latency
        /\ Budget(failures + 1) \in Nat
    BY <1>0, BudgetGrows
  <2> QED BY <1>0, <1>6, <2>1 DEF RefreshFails
<1>7. CASE ServerIssues
  BY <1>0, <1>7 DEF ServerIssues
<1>8. CASE ServerHangs
  BY <1>0, <1>8 DEF ServerHangs
<1>9. CASE StopClosesDone
  BY <1>0, <1>9 DEF StopClosesDone
<1>10. CASE TimePasses
  BY <1>0, <1>10 DEF TimePasses, TickerAdvances, Ready
<1>11. CASE UNCHANGED vars
  BY <1>0, <1>11 DEF vars
<1> QED
  BY <1>1, <1>2, <1>3, <1>4, <1>5, <1>6, <1>7, <1>8, <1>9, <1>10, <1>11
     DEF Next, GoroutineStep

LEMMA Invariance == Spec => []IInv
<1>1. IInv /\ [Next]_vars => IInv'
  BY NextTypeOK, NextAge DEF IInv
<1> QED
  BY InitIInv, <1>1, PTL DEF Spec

-----------------------------------------------------------------------------
(* Theorems                                                                *)

\* Type correctness of magnumAuth and its goroutine.
THEOREM TypeCorrect == Spec => []TypeOK
<1>1. IInv => TypeOK
  BY DEF IInv
<1> QED
  BY Invariance, <1>1, PTL

\* Whatever the period, the latency of the endpoint and the failures in a
\* row, the token in the jar is no older than the budget and one request.
THEOREM TokenAge == Spec => []TokenAgeBounded
<1>1. IInv => TokenAgeBounded
  <2> SUFFICES ASSUME IInv PROVE TokenAgeBounded
    OBVIOUS
  <2>1. Budget(failures) \in Nat
    BY BudgetGrows DEF IInv, TypeOK
  <2> QED
    BY <2>1 DEF IInv, TypeOK, SelectInv, RequestInv, TokenAgeBounded
<1> QED
  BY Invariance, <1>1, PTL
=============================================================================
