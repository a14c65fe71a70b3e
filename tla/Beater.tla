-------------------------------- MODULE Beater --------------------------------
(***************************************************************************)
(* What one routebeat promises libbeat, which creates it, calls Run and -  *)
(* from another goroutine - Stop, without saying how: Run goes on until    *)
(* Stop has finished, so does the polling of every tag, and after Run has  *)
(* returned no work is begun.  It also says when the process may panic.    *)
(***************************************************************************)
CONSTANT Tags

VARIABLES
  phase,     \* where the beater is in its life
  stopping,  \* Stop: "idle", "called" or "finished"
  polling,   \* the tags that are being polled
  calling    \* the tags for which a subscription callback is running

vars == <<phase, stopping, polling, calling>>

Init == phase = "created" /\ stopping = "idle" /\ polling = {} /\ calling = {}

Creates ==
  /\ phase = "created"
  /\ phase' \in {"refused", "running"}
  /\ UNCHANGED <<stopping, polling, calling>>

\* Run gives up with an error, before it has begun anything.
Fails ==
  /\ phase = "running" /\ stopping = "idle"
  /\ polling = {} /\ calling = {}
  /\ phase' = "failed"
  /\ UNCHANGED <<stopping, polling, calling>>

PollStarts(t) ==
  /\ phase = "running"
  /\ polling' = polling \cup {t}
  /\ UNCHANGED <<phase, stopping, calling>>

PollEnds(t) ==
  /\ stopping = "finished"
  /\ polling' = polling \ {t}
  /\ UNCHANGED <<phase, stopping, calling>>

CallbackStarts(t) ==
  /\ phase = "running"
  /\ calling' = calling \cup {t}
  /\ UNCHANGED <<phase, stopping, polling>>

CallbackEnds(t) ==
  /\ calling' = calling \ {t}
  /\ UNCHANGED <<phase, stopping, polling>>

IsStopped ==
  /\ phase = "running" /\ stopping = "idle"
  /\ stopping' = "called"
  /\ UNCHANGED <<phase, polling, calling>>

StopFinishes ==
  /\ stopping = "called"
  /\ stopping' = "finished"
  /\ UNCHANGED <<phase, polling, calling>>

Returns ==
  /\ phase = "running" /\ stopping = "finished"
  /\ phase' = "returned"
  /\ UNCHANGED <<stopping, polling, calling>>

\* A failed Run leaves a Stop that panics; a Run that has returned leaves no
\* panic but in a routine that has still to end.
Crashes ==
  /\ \/ phase = "running"
     \/ phase = "failed" /\ stopping = "idle"
     \/ phase = "returned" /\ polling # {}
  /\ phase' = "crashed"
  /\ UNCHANGED <<stopping, polling, calling>>

Next ==
  /\ phase \notin {"refused", "crashed"}
  /\ \/ Creates \/ Fails \/ IsStopped \/ StopFinishes \/ Returns \/ Crashes
     \/ \E t \in Tags : \/ PollStarts(t) \/ PollEnds(t)
                        \/ CallbackStarts(t) \/ CallbackEnds(t)

Spec == Init /\ [][Next]_vars
=============================================================================
