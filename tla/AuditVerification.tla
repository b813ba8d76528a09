-------------------------- MODULE AuditVerification --------------------------
(***************************************************************************)
(* The 5-point suite of scripts/04_verify_cluster.sh, the gateway it       *)
(* probes, the gateway's audit logger and, as its fifth test, check_bq.py. *)
(*                                                                         *)
(* A chat request that the gateway serves is answered first and audited    *)
(* afterwards, in a task of its own that makes one attempt to stream the   *)
(* row and swallows every failure.  A request has a timeout, the liveness  *)
(* probes before it and the kubectl exec that may carry it have none; one  *)
(* that was given up may still be served and audited later.  Other clients *)
(* use the gateway too, and its pod may restart.                           *)
(***************************************************************************)
EXTENDS CheckBq

CONSTANTS
  Attempts,     \* tries of the cache test
  InitialRows,  \* numbers of rows that earlier traffic may have left in the table
  MaxOthers,    \* bound on the requests of other clients
  MaxRestarts   \* bound on the restarts of the gateway's pod

ASSUME BoundsAssumption ==
  /\ Attempts \in Nat \ {0}
  /\ InitialRows \subseteq Nat
  /\ MaxOthers \in Nat
  /\ MaxRestarts \in Nat

VARIABLES
  suite,      \* program point of 04_verify_cluster.sh
  call,       \* run_gateway_curl: what it is waiting for, or how it returned
  dev_key,    \* Test 2 got a virtual key
  attempt,    \* try of the cache test
  abandoned,  \* chat requests it has given up that the gateway still works on
  pending,    \* audit tasks of served requests
  others,     \* requests of other clients so far
  restarts,
  old,        \* history: rows in the table when the suite began
  served      \* history: the gateway has served a request since then

suiteVars == <<suite, call, dev_key, attempt>>
gatewayVars == <<abandoned, pending, others, restarts>>
vars == <<rows, project_set, checkVars, suiteVars, gatewayVars, old, served>>

\* The chat requests of Tests 1 to 4 whose status code is only noted, and what follows.
Following == [test1 |-> "test2_key", test2 |-> "test3_key",
              test3 |-> "test3_over", test3_over |-> "prime", prime |-> "try"]
Chat == DOMAIN Following \union {"try"}
Requesting == Chat \union {"test2_key", "test3_key"}
SuitePoints == Requesting \union {"gateway", "test5", "passed", "failed"}
Returned == {"served", "refused", "timeout"}
\* A request by kubectl exec is over before the exec returns: "ran" is between the two.
Calls == {"idle", "probe", "sent", "exec", "ran"} \union Returned

TypeOK ==
  /\ CheckTypeOK
  /\ suite \in SuitePoints
  /\ call \in Calls
  /\ dev_key \in BOOLEAN
  /\ attempt \in 1 .. Attempts
  /\ abandoned \in Nat /\ pending \in Nat
  /\ others \in 0 .. MaxOthers /\ restarts \in 0 .. MaxRestarts
  /\ old \in Nat
  /\ served \in BOOLEAN

Init ==
  /\ CheckInit
  /\ rows \in InitialRows
  /\ suite = "gateway"
  /\ call = "idle"
  /\ dev_key = FALSE
  /\ attempt = 1
  /\ abandoned = 0 /\ pending = 0 /\ others = 0 /\ restarts = 0
  /\ old = rows
  /\ served = FALSE

-----------------------------------------------------------------------------
(* 04_verify_cluster.sh *)

Enter(from, to) == suite = from /\ suite' = to

\* The sections before the suite only look; a kubectl without a fallback ends the script.
\* Without a running gateway pod there is nothing to test.  Neither kubectl nor the
\* liveness probe of the gateway has a timeout once it is connected.
Gateway ==
  /\ \E to \in {"test1", "passed", "failed"} : Enter("gateway", to)
  /\ UNCHANGED <<call, dev_key, attempt>>

\* run_gateway_curl begins with liveness probes, whose only timeout is for the connection.
Probe ==
  /\ suite \in Requesting
  /\ call = "idle"
  /\ call' = "probe"
  /\ UNCHANGED <<suite, dev_key, attempt>>

\* A probe that returns decides the way of the request: curl, or kubectl exec in the pod.
Send ==
  /\ call = "probe"
  /\ call' \in {"sent", "exec"}
  /\ UNCHANGED <<suite, dev_key, attempt>>

\* The kubectl execs (the request, then the copy of the headers) have returned.
ExecReturns ==
  /\ call = "ran"
  /\ call' \in {"served", "timeout"}
  /\ UNCHANGED <<suite, dev_key, attempt>>

Noted ==
  /\ suite \in DOMAIN Following
  /\ call \in Returned
  /\ suite' = Following[suite]
  /\ call' = "idle"
  /\ UNCHANGED <<dev_key, attempt>>

\* Test 2 prints [FAIL] when it gets no key, and the suite goes on with the master key.
GenerateKey ==
  /\ call \in Returned
  /\ dev_key' \in (IF call = "refused" THEN {FALSE} ELSE BOOLEAN)
  /\ Enter("test2_key", IF dev_key' THEN "test2" ELSE "test3_key")
  /\ call' = "idle"
  /\ UNCHANGED attempt

GenerateQuotaKey ==
  /\ call \in Returned
  /\ \E to \in IF call = "refused" THEN {"prime"} ELSE {"test3", "prime"} :
       Enter("test3_key", to)
  /\ call' = "idle"
  /\ UNCHANGED <<dev_key, attempt>>

\* The header says HIT or the server took less than 100 ms: any answer may carry that,
\* and one that was cut off by the timeout may have left its header in the file.
CacheHit ==
  /\ Enter("try", "test5")
  /\ call \in Returned
  /\ call' = "idle"
  /\ UNCHANGED <<dev_key, attempt>>

\* Mutants: the loop makes one try too many; it does not count its tries.
OneTryTooMany ==
  /\ suite = "try"
  /\ call \in Returned
  /\ IF attempt <= Attempts
     THEN attempt' = attempt + 1 /\ UNCHANGED suite
     ELSE suite' = "failed" /\ UNCHANGED attempt
  /\ call' = "idle"
  /\ UNCHANGED dev_key
TriesForEver ==
  /\ suite = "try"
  /\ call \in Returned
  /\ call' = "idle"
  /\ UNCHANGED <<suite, dev_key, attempt>>

CacheMiss ==
  /\ suite = "try"
  /\ call \in Returned
  /\ IF attempt < Attempts
     THEN attempt' = attempt + 1 /\ UNCHANGED suite
     ELSE suite' = "failed" /\ UNCHANGED attempt
  /\ call' = "idle"
  /\ UNCHANGED dev_key

StartCheck ==
  /\ suite = "test5"
  /\ Goto("idle", "start")
  /\ UNCHANGED <<success, total_rows, sampled, report, blank, suiteVars>>

\* set -e: the script ends with the exit code of check_bq.py.
CheckEnds ==
  /\ check = "exited"
  /\ Enter("test5", IF returncode = 0 THEN "passed" ELSE "failed")
  /\ UNCHANGED <<checkVars, call, dev_key, attempt>>

\* The suite stops waiting; the gateway may go on with the request.
GiveUp(way) ==
  /\ call = way
  /\ call' = "timeout"
  /\ abandoned' = IF suite \in Chat THEN abandoned + 1 ELSE abandoned
  /\ UNCHANGED <<suite, dev_key, attempt, pending>>

\* curl --max-time; the timeout of the request in the pod, or a kubectl exec that breaks.
CallTimesOut == GiveUp("sent")
ExecFails == GiveUp("exec")

Script ==
  \/ Probe \/ Noted \/ GenerateKey \/ GenerateQuotaKey \/ CacheHit \/ CacheMiss
Untimed == Gateway \/ Send \/ ExecReturns

-----------------------------------------------------------------------------
(* The gateway and its audit logger *)

\* async_log_success_event is raised for every chat request that is served, whoever sent
\* it; a request for a key raises none.
Log == pending' = pending + 1 /\ served' = TRUE

Serve ==
  /\ call \in {"sent", "exec"}
  /\ call' = IF call = "sent" THEN "served" ELSE "ran"
  /\ IF suite \in Chat THEN Log ELSE UNCHANGED <<pending, served>>
  /\ UNCHANGED <<suite, dev_key, attempt, abandoned, others>>

\* 401, 429, an upstream error, a connection refused: nothing is logged.
Refuse ==
  /\ call \in {"sent", "exec"}
  /\ call' = "refused"
  /\ UNCHANGED <<suite, dev_key, attempt, abandoned, pending, others, served>>

EndAbandoned ==
  /\ abandoned > 0
  /\ abandoned' = abandoned - 1
  /\ Log \/ UNCHANGED <<pending, served>>
  /\ UNCHANGED <<suiteVars, others>>

ServeOther ==
  /\ others < MaxOthers
  /\ others' = others + 1
  /\ Log
  /\ UNCHANGED <<suiteVars, abandoned>>

Gate == (Serve \/ Refuse \/ EndAbandoned \/ ServeOther) /\ UNCHANGED <<rows, restarts>>

\* _sync_stream_to_bigquery: one attempt.  Without a token, on an error or a timeout, or
\* with a rejected row in a response of status 200, the row is lost.
Stream ==
  /\ pending > 0
  /\ pending' = pending - 1
  /\ rows' \in {rows, rows + 1}
  /\ UNCHANGED <<suiteVars, abandoned, others, restarts, served>>

\* What the pod was working on is gone with it, but for rows already on their way.
Restart ==
  /\ restarts < MaxRestarts
  /\ restarts' = restarts + 1
  /\ abandoned' = 0 /\ pending' \in 0 .. pending
  /\ call' = IF call \in {"sent", "exec"} THEN "refused" ELSE call
  /\ UNCHANGED <<suite, dev_key, attempt, others, rows, served>>

-----------------------------------------------------------------------------
ScriptStep == Script /\ UNCHANGED <<rows, project_set, checkVars, gatewayVars, old, served>>
UntimedStep == Untimed /\ UNCHANGED <<rows, project_set, checkVars, gatewayVars, old, served>>
TimeoutStep ==
  CallTimesOut /\ UNCHANGED <<rows, project_set, checkVars, others, restarts, old, served>>
ExecStep ==
  ExecFails /\ UNCHANGED <<rows, project_set, checkVars, others, restarts, old, served>>
ProcessStep ==
  (StartCheck \/ CheckEnds) /\ UNCHANGED <<rows, project_set, gatewayVars, old, served>>
CheckStep == Main /\ UNCHANGED <<suiteVars, gatewayVars, old, served>>
GatewayStep == (Gate \/ Stream \/ Restart) /\ UNCHANGED <<project_set, checkVars, old>>

Next ==
  \/ ScriptStep \/ UntimedStep \/ TimeoutStep \/ ExecStep \/ ProcessStep
  \/ CheckStep \/ GatewayStep
Spec == Init /\ [][Next]_vars

\* Fairness: the script and check_bq.py keep running and the timeouts they set expire. The
\* gateway need not answer, no audit task need end, and a call without a timeout (kubectl,
\* a liveness probe, the client library) need not return.
FairSpec ==
  /\ Spec
  /\ WF_vars(ScriptStep) /\ WF_vars(TimeoutStep) /\ WF_vars(ProcessStep)
  /\ WF_vars(CheckStep /\ Bounded)

-----------------------------------------------------------------------------
(* Properties *)

\* check_bq.py reports what AuditVerdict allows, although its three attempts share their
\* variables and rows arrive between its queries: rows counted once are never uncounted
\* by a later attempt, and the report agrees with what was counted.
Verdict == INSTANCE AuditVerdict WITH counted <- total_rows > 0
ImplementsVerdict == Verdict!Spec

\* "The table exists but contains 0 trajectories" is never said of a table that had rows
\* when the suite began, whichever transports failed before the one that answered (a
\* count query that is answered without a row is the one exception: it is taken for 0).
EmptyMeansFresh == report = "empty" /\ ~blank => old = 0

\* A suite that passes on the audit of a table that was empty has seen the gateway serve
\* a request and the logger stream its row: no refused request, no row that was lost and
\* no transport that failed can make it pass.
CertifiedMeansServed ==
  suite = "passed" /\ report # "none" /\ old = 0 => served /\ rows > 0

\* The calls without a timeout: kubectl and the liveness probes of the suite, and the
\* client library of check_bq.py.
Hangs ==
  \/ suite = "gateway" \/ call \in {"probe", "exec", "ran"}
  \/ check \in {"client_count", "client_sample"}

\* If none of the calls without a timeout hangs for ever, the suite ends, whatever the
\* gateway does with the requests: its loops and those of check_bq.py are bounded, and
\* every other wait has a timeout.
SuiteEnds == []<>~Hangs => <>[](suite \in {"passed", "failed"})

\* "Verification failed across all client, CLI, and REST transports" is only said when
\* none of them has counted a row.
FailedMeansUncounted == report = "failed" => total_rows = 0

\* The suite certifies virtual key generation: it does not pass the gateway's audit after
\* Test 2 has failed to get a key.
PassMeansKey == suite = "passed" /\ report = "pass" => dev_key
=============================================================================
