--------------------------- MODULE FailoverBench ---------------------------
(***************************************************************************)
(* The failover benchmark, cmd_measure of benchmarks/run_failover_bench.py *)
(* as scripts/05_run_benchmarks.sh runs it, and the pod it kills.          *)
(*                                                                         *)
(* Four kinds of thread: the main one, which sleeps, kills, sleeps again   *)
(* and writes the report; the load generator, which attempts one request   *)
(* per tick; one thread per request in flight; and the poller that looks   *)
(* for the killed pod's Ready condition.  What the service answers, and    *)
(* when, is arbitrary: a response can trickle for longer than the socket   *)
(* timeout, which bounds each read and not the request.                    *)
(*                                                                         *)
(* Attempt n is due at tick n.  Time advances when no thread that only     *)
(* waits for the clock is due.                                             *)
(***************************************************************************)
EXTENDS FailoverRule

CONSTANTS
  BaselineTime,    \* --baseline-seconds
  RecoveryTime,    \* --recovery-seconds
  RequestTimeout,  \* --request-timeout
  ThreadJoin,      \* how long the generator waits for one thread: request_timeout + 5
  JoinTimeout,     \* how long main waits for the generator: request_timeout + 15
  KillLimit,       \* subprocess timeout of the kill command
  MaxInflight      \* --max-inflight

\* cmd_self_check: the run can observe what it will be judged by.
ASSUME ConstantsAssumption ==
  /\ {RequestTimeout, KillLimit, MaxResidual, MaxBaseline} \subseteq Nat
  /\ {BaselineTime, MaxBlackout, MaxP99Ratio, MaxInflight} \subseteq Nat \ {0}
  /\ RecoveryTime \in Nat /\ RecoveryTime > MaxBlackout
  /\ MaxRejoin \in Nat /\ RecoveryTime >= MaxRejoin
  /\ ThreadJoin \in Nat /\ ThreadJoin > RequestTimeout
  /\ JoinTimeout \in Nat /\ JoinTimeout > ThreadJoin

VARIABLES
  kill_waits, \* --kill-command without --wait=false: it returns when the pod is gone
  now,       \* the clock
  main,      \* program point of the main thread
  until,     \* when its sleep, or its join, ends
  issued,    \* attempts made so far
  inflight,  \* attempts whose thread is running
  samples,   \* results
  t0,        \* kill_issued_epoch
  end,       \* end_epoch
  kill_rc,   \* record["kill_rc"]
  rejoin,    \* record["rejoin_epoch"]
  pod,       \* the target pod: "ready", "stopping" (and still Ready) or "loading"
  killed,    \* the API server has accepted the deletion
  back       \* whether the replacement became Ready "never", in "time" or "late"; for the
             \* properties only

measure == <<kill_waits, main, until, t0, end, kill_rc>>
load    == <<issued, inflight, samples>>
replica == <<pod, killed, back>>
vars    == <<now, measure, load, rejoin, replica>>

Horizon == BaselineTime + KillLimit + RecoveryTime + JoinTimeout
Times   == 0..Horizon

TypeOK ==
  /\ kill_waits \in BOOLEAN /\ now \in Times /\ until \in Times
  /\ main \in {"baseline", "killing", "recovery", "drain", "done", "aborted"}
  /\ issued \in 0..(Horizon + 1)
  /\ inflight \subseteq Times /\ Cardinality(inflight) <= MaxInflight
  /\ samples \subseteq [id : Times, t : Times, ok : BOOLEAN, latency : 0..(Horizon + 1)]
  /\ {t0, end, rejoin} \subseteq Times \union {Unmeasured}
  /\ kill_rc \in {Unmeasured, 0, 1}
  /\ pod \in {"ready", "stopping", "loading"} /\ killed \in BOOLEAN
  /\ back \in {"never", "time", "late"}
  /\ inflight \intersect {s.id : s \in samples} = {}
  /\ inflight \union {s.id : s \in samples} = 0..(issued - 1)
  /\ Cardinality(samples) = issued - Cardinality(inflight)

\* 05 has looked at the pods and the second replica, not at the Ready condition of the
\* pod it is about to kill.
Init ==
  /\ kill_waits \in BOOLEAN
  /\ now = 0 /\ main = "baseline" /\ until = BaselineTime
  /\ issued = 0 /\ inflight = {} /\ samples = {}
  /\ t0 = Unmeasured /\ end = Unmeasured /\ kill_rc = Unmeasured /\ rejoin = Unmeasured
  /\ pod \in {"ready", "loading"} /\ killed = FALSE /\ back = "never"
-----------------------------------------------------------------------------
(***************************************************************************)
(* The load generator and its requests.                                    *)
(***************************************************************************)
Stopped == main \in {"drain", "done", "aborted"}
Over    == main \in {"done", "aborted"}

Sample(id, ok, latency) == [id |-> id, t |-> now, ok |-> ok, latency |-> latency]

\* Mutant: an attempt beyond the cap is skipped.
ShedSilently ==
  /\ ~Stopped /\ issued <= now
  /\ issued' = issued + 1
  /\ inflight' = IF Cardinality(inflight) < MaxInflight THEN inflight \union {issued}
                 ELSE inflight
  /\ UNCHANGED <<now, measure, samples, rejoin, replica>>

\* An attempt that is due.  Beyond the cap it is recorded as a loss at once.
Issue ==
  /\ ~Stopped /\ issued <= now
  /\ issued' = issued + 1
  /\ \/ /\ Cardinality(inflight) < MaxInflight
        /\ inflight' = inflight \union {issued}
        /\ UNCHANGED samples
     \/ /\ Cardinality(inflight) = MaxInflight
        /\ samples' = samples \union {Sample(issued, FALSE, 0)}
        /\ UNCHANGED inflight
  /\ UNCHANGED <<now, measure, rejoin, replica>>

\* one_shot: the request ends, in a latency of its ticks rounded up.
RequestEnds(id, ok) ==
  /\ ~Over /\ id \in inflight
  /\ inflight' = inflight \ {id}
  /\ samples' = samples \union {Sample(id, ok, now - id + 1)}
  /\ UNCHANGED <<now, measure, issued, rejoin, replica>>
-----------------------------------------------------------------------------
(***************************************************************************)
(* The main thread.                                                        *)
(***************************************************************************)
\* No request completed during the baseline phase.
Abort ==
  /\ main = "baseline" /\ now = until /\ samples = {}
  /\ main' = "aborted"
  /\ UNCHANGED <<kill_waits, now, until, t0, end, kill_rc, load, rejoin, replica>>

\* run_kill: T0.
IssueKill ==
  /\ main = "baseline" /\ now = until /\ samples # {}
  /\ main' = "killing" /\ t0' = now
  /\ UNCHANGED <<kill_waits, now, until, end, kill_rc, load, rejoin, replica>>

\* The command returns, fails or is timed out; the poller starts.
KillReturns(rc) ==
  /\ main = "killing"
  /\ rc = 0 => killed /\ (kill_waits => pod # "stopping")
  /\ kill_rc' = rc /\ main' = "recovery" /\ until' = now + RecoveryTime
  /\ UNCHANGED <<kill_waits, now, t0, end, load, rejoin, replica>>

\* end_epoch is read, then the generator and the poller are told to stop.
StopLoad ==
  /\ main = "recovery" /\ now = until
  /\ end' = now /\ main' = "drain" /\ until' = now + JoinTimeout
  /\ UNCHANGED <<kill_waits, now, t0, kill_rc, load, rejoin, replica>>

\* Mutant: no join.
ReportAtOnce ==
  /\ main = "drain"
  /\ main' = "done"
  /\ UNCHANGED <<kill_waits, now, until, t0, end, kill_rc, load, rejoin, replica>>

\* Mutant: a join without a timeout.
ReportWhenAllEnded ==
  /\ main = "drain" /\ inflight = {}
  /\ main' = "done"
  /\ UNCHANGED <<kill_waits, now, until, t0, end, kill_rc, load, rejoin, replica>>

\* gen.join returns, by its timeout or with the generator, which joins its threads one
\* after the other: a thread that is still running has cost it a timeout, the others may
\* have been waited for in no time.  Then the samples are frozen and the report is written.
Report ==
  /\ main = "drain"
  /\ Cardinality(inflight) * ThreadJoin <= now - end \/ now = until
  /\ main' = "done"
  /\ UNCHANGED <<kill_waits, now, until, t0, end, kill_rc, load, rejoin, replica>>
-----------------------------------------------------------------------------
(***************************************************************************)
(* The pod, from its manifest: a deleted pod passes its readiness probe    *)
(* while preStop sleeps, and the StatefulSet replaces it under its name.   *)
(***************************************************************************)
DeletionAccepted ==
  /\ main = "killing" /\ ~killed
  /\ killed' = TRUE /\ pod' = IF pod = "ready" THEN "stopping" ELSE pod
  /\ UNCHANGED <<now, measure, load, rejoin, back>>

PodStops ==
  /\ ~Over /\ pod = "stopping"
  /\ pod' = "loading"
  /\ UNCHANGED <<now, measure, load, rejoin, killed, back>>

\* Nobody looks at the pod before the kill, or after the report; what it is when it is
\* killed, Init says.
PodReady ==
  /\ ~Over /\ killed /\ pod = "loading"
  /\ pod' = "ready" /\ back' = IF now - t0 <= MaxRejoin THEN "time" ELSE "late"
  /\ UNCHANGED <<now, measure, load, rejoin, killed>>

\* Mutant: a pod that runs counts, Ready or not.
PollRunning ==
  /\ main \in {"recovery", "drain"} /\ rejoin = Unmeasured
  /\ rejoin' = now
  /\ UNCHANGED <<now, measure, load, replica>>

\* poll_rejoin sees the Ready condition.  main does not join the poller: a poll that
\* was running when it was told to stop can still record what it saw.
Poll ==
  /\ main \in {"recovery", "drain"} /\ rejoin = Unmeasured
  /\ pod \in {"ready", "stopping"}
  /\ rejoin' = now
  /\ UNCHANGED <<now, measure, load, replica>>
-----------------------------------------------------------------------------
\* Nobody that only waits for the clock is due.
Idle ==
  /\ ~Stopped => issued > now
  /\ main \in {"baseline", "recovery", "drain"} => now < until
  /\ main = "killing" => now < t0 + KillLimit

Tick ==
  /\ ~Over /\ Idle
  /\ now' = now + 1
  /\ UNCHANGED <<measure, load, rejoin, replica>>

Main == Abort \/ IssueKill \/ (\E rc \in {0, 1} : KillReturns(rc)) \/ StopLoad \/ Report

Next ==
  \/ Main \/ Issue \/ Poll \/ Tick
  \/ \E id \in inflight, ok \in BOOLEAN : RequestEnds(id, ok)
  \/ DeletionAccepted \/ PodStops \/ PodReady

Spec == Init /\ [][Next]_vars

\* Local threads run and the clock advances; nothing is assumed of the service, of its
\* pods or of the poller.
FairSpec == Spec /\ WF_vars(Main) /\ WF_vars(Issue) /\ WF_vars(Tick)
-----------------------------------------------------------------------------
(***************************************************************************)
(* Properties.  The report is what cmd_verdict is later given.             *)
(***************************************************************************)
report == [samples |-> samples, t0 |-> t0, end |-> end, kill_rc |-> kill_rc,
           rejoin |-> IF rejoin = Unmeasured THEN Unmeasured ELSE rejoin - t0]

Passed == main = "done" /\ passes(report)

\* A run that passes had no span of more than max_blackout_seconds, from the kill to the
\* end of the run, in which a client saw no success.
PassMeansService ==
  Passed => \A a \in t0..(end - MaxBlackout) :
              \E s \in Succeeded(samples) : a <= s.t /\ s.t <= a + MaxBlackout

\* A run that passes, with a kill command that waits for the pod to be gone, did lose its
\* pod, and the pod's replacement was Ready within max_rejoin_seconds of the kill.  (With
\* --wait=false it need not: RejoinIsReturn.)
PassMeansReturned ==
  Passed /\ kill_waits => killed /\ back = "time"

\* A run in which every attempt succeeded within one tick, the kill took and the pod was
\* seen back in time passes, provided a request was still in flight when it ended.
CleanRunPasses ==
  /\ main = "done" /\ kill_rc = 0 /\ rejoin # Unmeasured /\ rejoin - t0 <= MaxRejoin
  /\ inflight = {} /\ \A s \in samples : s.ok /\ s.latency = 1
  /\ \E s \in samples : s.t >= end
  => Passed

\* An attempt that is missing from the report was a request that had outlived its own
\* timeout: the harness forgets none that it could have waited for.
NoAttemptForgotten ==
  main = "done" => \A id \in inflight : now - id > RequestTimeout

\* The measurement ends, whatever the service does, a response that never ends included.
MeasurementEnds == <>Over

\* The rejoin it reports is a pod that became Ready again after it was killed
\* (poll_rejoin: "Watch for the killed replica becoming Ready again").
RejoinIsReturn == rejoin # Unmeasured /\ kill_rc = 0 => back # "never"

\* When no request landed after the blackout, the blackout check has failed already
\* (cmd_verdict: "No requests landed after the blackout ended. Blackout already failed").
EmptyResidualMeansBlackout ==
  main = "done" /\ Residual(samples, t0, end) = {} => blackout(samples, t0, end) > MaxBlackout
=============================================================================
