------------------------------ MODULE SoakTest ------------------------------
(***************************************************************************)
(* The continuous soak test of benchmarks/soak_benchmark_kimi_k3.py.       *)
(*                                                                         *)
(* The main thread keeps a fixed number of streaming requests in flight    *)
(* until the duration has passed: it waits for some to complete, reads     *)
(* their results one by one and issues a replacement for each.  After a    *)
(* run of failures it lets go of what is in flight and stops.  Worker      *)
(* threads of the pool run the requests.                                   *)
(*                                                                         *)
(* A request is named by the slot it occupies, which its replacement takes *)
(* over: there are never more requests than workers.                       *)
(***************************************************************************)
EXTENDS Integers, FiniteSets

CONSTANTS
  Slots,         \* --concurrency: the workers of the pool
  FailureLimit,  \* 5 consecutive failures end the soak
  MaxRequests    \* bound on the requests issued before the duration has passed

ASSUME SoakAssumption ==
  /\ IsFiniteSet(Slots) /\ Slots # {}
  /\ FailureLimit \in Nat \ {0}
  /\ MaxRequests \in Nat /\ MaxRequests >= Cardinality(Slots)

\* A request that has no answer yet, one whose first token has arrived, and how one
\* ends: complete or cut off with tokens counted, or without any, because none came or
\* because the usage that was reported says so.
InFlight == {"waiting", "talking"}
Ended    == {"whole", "cut", "empty"}

VARIABLES
  pc,           \* the main thread: "fill", "wait", "read", "join", "done"
  stream,       \* the request of each slot, or "none"
  active,       \* active_futures
  batch,        \* what is left of done_set
  consecutive,  \* consecutive_errors
  issued,       \* req_counter
  completed,    \* completed_requests
  failed,       \* failed_requests; both together are len(results)
  collapsed,    \* the soak was stopped by FailureLimit failures in a row
  over,         \* --duration has passed
  dead,         \* the tunnel or the service is gone for good
  late          \* requests issued since (for the properties only)

streamVars == <<active, batch, consecutive, issued, completed, failed, collapsed>>
vars == <<pc, stream, streamVars, over, dead, late>>

Init ==
  /\ pc = "fill"
  /\ stream = [s \in Slots |-> "none"]
  /\ active = {} /\ batch = {}
  /\ consecutive = 0 /\ issued = 0 /\ completed = 0 /\ failed = 0
  /\ collapsed = FALSE /\ over = FALSE /\ dead = FALSE /\ late = 0

(***************************************************************************)
(* The worker threads: execute_stream_request.                             *)
(***************************************************************************)
FirstToken(s) ==
  /\ stream[s] = "waiting" /\ ~dead
  /\ stream' = [stream EXCEPT ![s] = "talking"]
  /\ UNCHANGED <<pc, streamVars, over, dead, late>>

\* The stream ends, is cut, or never gives a token: an HTTP error, a timeout, [DONE].  A
\* completion_tokens of the server replaces the tokens counted, with zero if it says so.
StreamEnds(s) ==
  /\ stream[s] \in InFlight
  /\ \E how \in IF stream[s] = "waiting" THEN {"empty"}
                ELSE {"cut", "empty"} \union (IF dead THEN {} ELSE {"whole"}) :
       stream' = [stream EXCEPT ![s] = how]
  /\ UNCHANGED <<pc, streamVars, over, dead, late>>

\* success: a first token was seen and tokens were counted, whether or not the
\* stream reached its end.
Success(s) == stream[s] \in {"whole", "cut"}

(***************************************************************************)
(* The main thread.                                                        *)
(***************************************************************************)

\* executor.submit of a new request in slot s.
Issue(s) ==
  /\ issued < MaxRequests
  /\ stream' = [stream EXCEPT ![s] = "waiting"]
  /\ issued' = issued + 1
  /\ late' = late + (IF dead THEN 1 ELSE 0)

Fill(s) ==
  /\ pc = "fill" /\ stream[s] = "none"
  /\ Issue(s)
  /\ active' = active \union {s}
  /\ pc' = IF active' = Slots THEN "wait" ELSE "fill"
  /\ UNCHANGED <<batch, consecutive, completed, failed, collapsed, over, dead>>

Finished == {s \in active : stream[s] \in Ended}

\* Mutant: the failures are counted afresh in every round.
WaitResets ==
  /\ pc = "wait" /\ Finished # {}
  /\ batch' = Finished
  /\ active' = active \ Finished
  /\ consecutive' = 0
  /\ pc' = "read"
  /\ UNCHANGED <<stream, issued, completed, failed, collapsed, over, dead, late>>

\* Mutant: a completed future stays in active_futures.
WaitKeeps ==
  /\ pc = "wait" /\ Finished # {}
  /\ batch' = Finished
  /\ pc' = "read"
  /\ UNCHANGED <<stream, active, consecutive, issued, completed, failed, collapsed, over, dead, late>>

\* concurrent.futures.wait, FIRST_COMPLETED: whatever has completed by then.
Wait ==
  /\ pc = "wait" /\ Finished # {}
  /\ batch' = Finished
  /\ active' = active \ Finished
  /\ pc' = "read"
  /\ UNCHANGED <<stream, consecutive, issued, completed, failed, collapsed, over, dead, late>>

\* After one result: the next of done_set, the next round, or the end of the pool.
Goes(rest, inFlight) ==
  pc' = IF rest # {} THEN "read" ELSE IF inFlight # {} THEN "wait" ELSE "join"

\* The clock is read after each result: a replacement is issued while time is left.
Replace(s) ==
  IF over
    THEN /\ stream' = [stream EXCEPT ![s] = "none"]
         /\ UNCHANGED <<active, issued, late>>
    ELSE Issue(s) /\ active' = active \union {s}

\* Mutant: the clock is only looked at when a request has failed.
SuccessIgnoresClock(s) ==
  /\ pc = "read" /\ s \in batch /\ Success(s)
  /\ completed' = completed + 1
  /\ consecutive' = 0
  /\ batch' = batch \ {s}
  /\ Issue(s) /\ active' = active \union {s}
  /\ Goes(batch', active')
  /\ UNCHANGED <<failed, collapsed, over, dead>>

\* Mutant: the loop is left at the first result read after the duration.
LeavesOnClock(s) ==
  /\ pc = "read" /\ s \in batch /\ Success(s)
  /\ completed' = completed + 1
  /\ consecutive' = 0
  /\ batch' = IF over THEN {} ELSE batch \ {s}
  /\ Replace(s)
  /\ Goes(batch', active')
  /\ UNCHANGED <<failed, collapsed, over, dead>>

ReadSuccess(s) ==
  /\ pc = "read" /\ s \in batch /\ Success(s)
  /\ completed' = completed + 1
  /\ consecutive' = 0
  /\ batch' = batch \ {s}
  /\ Replace(s)
  /\ Goes(batch', active')
  /\ UNCHANGED <<failed, collapsed, over, dead>>

\* Mutant: a failed request is not replaced.
FailureShrinksPool(s) ==
  /\ pc = "read" /\ s \in batch /\ ~Success(s)
  /\ consecutive + 1 < FailureLimit
  /\ failed' = failed + 1
  /\ consecutive' = consecutive + 1
  /\ batch' = batch \ {s}
  /\ stream' = [stream EXCEPT ![s] = "none"]
  /\ Goes(batch', active)
  /\ UNCHANGED <<active, issued, late, completed, collapsed, over, dead>>

ReadFailure(s) ==
  /\ pc = "read" /\ s \in batch /\ ~Success(s)
  /\ consecutive + 1 < FailureLimit
  /\ failed' = failed + 1
  /\ consecutive' = consecutive + 1
  /\ batch' = batch \ {s}
  /\ Replace(s)
  /\ Goes(batch', active')
  /\ UNCHANGED <<completed, collapsed, over, dead>>

\* active_futures.clear() and break: what else is in done_set is not read, and what is
\* in flight is not waited for here.
Collapse(s) ==
  /\ pc = "read" /\ s \in batch /\ ~Success(s)
  /\ consecutive + 1 >= FailureLimit
  /\ failed' = failed + 1
  /\ consecutive' = consecutive + 1
  /\ collapsed' = TRUE
  /\ batch' = {} /\ active' = {}
  /\ stream' = [stream EXCEPT ![s] = "none"]
  /\ pc' = "join"
  /\ UNCHANGED <<issued, completed, over, dead, late>>

\* Leaving the pool waits for every request it still runs; the report follows.
Join ==
  /\ pc = "join"
  /\ \A s \in Slots : stream[s] \notin InFlight
  /\ pc' = "done"
  /\ UNCHANGED <<stream, streamVars, over, dead, late>>

(***************************************************************************)
(* The clock and the service.                                              *)
(***************************************************************************)
DurationPasses ==
  /\ pc # "done" /\ ~over
  /\ over' = TRUE
  /\ UNCHANGED <<pc, stream, streamVars, dead, late>>

ServiceDies ==
  /\ pc # "done" /\ ~dead
  /\ dead' = TRUE
  /\ UNCHANGED <<pc, stream, streamVars, over, late>>

-----------------------------------------------------------------------------
Worker(s) == FirstToken(s) \/ StreamEnds(s)
Main ==
  \/ \E s \in Slots : Fill(s) \/ ReadSuccess(s) \/ ReadFailure(s) \/ Collapse(s)
  \/ Wait \/ Join

Next == (\E s \in Slots : Worker(s)) \/ Main \/ DurationPasses \/ ServiceDies

Spec == Init /\ [][Next]_vars

\* The main thread runs, time passes, and a stream ends: its tokens are bounded by
\* --max-tokens and each read by the socket timeout of 300 s.
FairSpec ==
  /\ Spec
  /\ WF_vars(Main) /\ WF_vars(DurationPasses)
  /\ \A s \in Slots : WF_vars(Worker(s))

-----------------------------------------------------------------------------
(***************************************************************************)
(* Properties.                                                             *)
(***************************************************************************)

TypeOK ==
  /\ pc \in {"fill", "wait", "read", "join", "done"}
  /\ stream \in [Slots -> {"none"} \union InFlight \union Ended]
  /\ active \subseteq Slots /\ batch \subseteq Slots /\ active \intersect batch = {}
  /\ consecutive \in 0 .. FailureLimit
  /\ issued \in 0 .. MaxRequests
  /\ completed \in Nat /\ failed \in Nat /\ late \in 0 .. issued
  /\ collapsed \in BOOLEAN /\ over \in BOOLEAN /\ dead \in BOOLEAN

\* Back-to-back load without pause: until the duration has passed or the soak has
\* collapsed, every slot has a request in flight or a result about to be read.
ConstantLoad == ~over /\ pc \in {"wait", "read"} => active \union batch = Slots

\* Unless the soak collapsed, the report counts every request that was issued, once.
EveryRequestCounted == pc = "done" /\ ~collapsed => completed + failed = issued

\* A soak of a dead service does not go on for the rest of its duration, although
\* results that were good when it died are read in any order between the failures, and
\* each starts the count of failures again: FailureLimit more requests for each slot.
DeadServiceStops == late <= FailureLimit * Cardinality(Slots)

\* A request whose stream was cut is not counted as completed.
CutIsFailure ==
  [][\A s \in batch \ batch' : stream[s] = "cut" => completed' = completed]_vars

\* The soak ends.
SoakEnds == <>(pc = "done")
=============================================================================
