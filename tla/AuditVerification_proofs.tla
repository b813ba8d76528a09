----------------------- MODULE AuditVerification_proofs -----------------------
(***************************************************************************)
(* What TLAPS proves of AuditVerification, for any number of tries, any    *)
(* history of the table, any traffic and any number of restarts: the type  *)
(* invariant, what the two verdicts mean, and that check_bq.py implements  *)
(* AuditVerdict.                                                           *)
(***************************************************************************)
EXTENDS AuditVerification, TLAPS

\* Where check_bq.py is, and what its variables can hold there.
CheckInv ==
  /\ report # "none" <=> check = "exited"
  /\ check \in {"cli_sample", "cli_fallback", "client_sample"} => total_rows > 0
  /\ success /\ total_rows = 0 /\ ~blank => old = 0
  /\ report = "pass" => total_rows > 0

\* The table against what was counted, served and streamed.
TableInv ==
  /\ old <= rows
  /\ total_rows <= rows
  /\ ~served => pending = 0 /\ rows = old

\* check_bq.py only runs in Test 5, and its exit code decides how that ends.
SuiteInv ==
  /\ check # "idle" => suite \in {"test5", "passed", "failed"}
  /\ suite = "passed" /\ report # "none" => report = "pass"
  /\ check \notin {"idle", "exited"} => suite = "test5"

Inv == TypeOK /\ CheckInv /\ TableInv /\ SuiteInv /\ EmptyMeansFresh

-----------------------------------------------------------------------------
\* The steps of check_bq.py keep the variables of the run in their types, and the rest
\* of the invariant.
LEMMA CheckStepKeepsInv == Inv /\ CheckStep => Inv'
<1> SUFFICES ASSUME Inv, CheckStep PROVE Inv'
  OBVIOUS
<1> USE DEF Inv, TypeOK, CheckTypeOK, CheckInv, TableInv, SuiteInv, EmptyMeansFresh, CheckStep,
            Main, suiteVars, gatewayVars, TransportPoints, Reports, Goto
<1>1. CASE NoProject
  BY <1>1 DEF NoProject
<1>2. CASE Begin
  BY <1>2 DEF Begin
<1>3. ASSUME NEW from \in {"cli_count", "cli_sample", "cli_fallback", "rest_token", "rest_count",
                           "client_count"},
             NEW to \in {"cli_fallback", "rest_token", "rest_count", "client_count", "evaluate"},
             to = "cli_fallback" => from = "cli_sample",
             FallThrough(from, to)
      PROVE  Inv'
  BY <1>3 DEF FallThrough
<1>4. ASSUME NEW from \in {"cli_sample", "cli_fallback", "client_sample"}, Sampled(from)
      PROVE  Inv'
  BY <1>4 DEF Sampled
<1>5. ASSUME Answered
      PROVE  /\ total_rows' \in Nat /\ total_rows' <= rows /\ blank' \in BOOLEAN
             /\ total_rows' = 0 /\ ~blank' => old = 0
             /\ total_rows > 0 => total_rows' > 0
  <2>1. PICK b \in BOOLEAN : /\ total_rows' = IF b THEN total_rows ELSE rows
                             /\ blank' = (blank \/ b)
    BY <1>5 DEF Answered
  <2> QED BY <2>1
<1>6. ASSUME NEW from \in {"cli_count", "client_count"},
             NEW sample \in {"cli_sample", "client_sample"},
             check = from, CountThenSample(sample)
      PROVE  Inv'
  BY <1>5, <1>6 DEF CountThenSample
<1>7. CASE RestCount
  BY <1>5, <1>7 DEF RestCount
<1>8. CASE Evaluate
  BY <1>8 DEF Evaluate, evaluate_bq_results
<1> QED
  BY <1>1, <1>2, <1>3, <1>4, <1>6, <1>7, <1>8
     DEF Bounded, Unbounded, CliCount, CliFails, CliSample, CliSampleRaises, CliFallback,
         CliFallbackRaises, RestToken, RestFails, ClientCount, ClientFails, ClientSample

\* The steps of the suite itself.
LEMMA SuiteKeepsInv ==
  Inv /\ (ScriptStep \/ UntimedStep \/ TimeoutStep \/ ExecStep \/ ProcessStep) => Inv'
<1> SUFFICES ASSUME Inv, ScriptStep \/ UntimedStep \/ TimeoutStep \/ ExecStep \/ ProcessStep
             PROVE  Inv'
  OBVIOUS
<1> USE BoundsAssumption
    DEF Inv, TypeOK, CheckTypeOK, CheckInv, TableInv, SuiteInv, EmptyMeansFresh, Calls, Returned,
        checkVars, gatewayVars, SuitePoints, Requesting, Chat, Following
<1>1. CASE ScriptStep
  <2> USE <1>1 DEF ScriptStep, Enter
  <2>1. CASE Probe
    BY <2>1 DEF Probe
  <2>3. CASE Noted
    BY <2>3 DEF Noted
  <2>4. CASE GenerateKey
    BY <2>4 DEF GenerateKey
  <2>5. CASE GenerateQuotaKey
    BY <2>5 DEF GenerateQuotaKey
  <2>6. CASE CacheHit
    BY <2>6 DEF CacheHit
  <2>7. CASE CacheMiss
    BY <2>7 DEF CacheMiss
  <2> QED BY <2>1, <2>3, <2>4, <2>5, <2>6, <2>7 DEF Script
<1>2. CASE TimeoutStep \/ ExecStep
  BY <1>2 DEF TimeoutStep, CallTimesOut, ExecStep, ExecFails, GiveUp
<1>4. CASE UntimedStep
  <2> USE <1>4 DEF UntimedStep, Enter
  <2>1. CASE Gateway
    BY <2>1 DEF Gateway
  <2>2. CASE Send
    BY <2>2 DEF Send
  <2>3. CASE ExecReturns
    BY <2>3 DEF ExecReturns
  <2> QED BY <2>1, <2>2, <2>3 DEF Untimed
<1>3. CASE ProcessStep
  <2>1. CASE StartCheck
    BY <1>3, <2>1 DEF ProcessStep, StartCheck, Goto, suiteVars
  <2>2. CASE CheckEnds
    BY <1>3, <2>2 DEF ProcessStep, CheckEnds, Enter, returncode
  <2> QED BY <1>3, <2>1, <2>2 DEF ProcessStep
<1> QED BY <1>1, <1>2, <1>3, <1>4

\* The steps of the gateway and of its audit logger.
LEMMA GatewayKeepsInv == Inv /\ GatewayStep => Inv'
<1> SUFFICES ASSUME Inv, GatewayStep PROVE Inv'
  OBVIOUS
<1> USE BoundsAssumption
    DEF Inv, TypeOK, CheckTypeOK, CheckInv, TableInv, SuiteInv, EmptyMeansFresh, Calls, Returned,
        checkVars, suiteVars, GatewayStep
<1>1. CASE Gate
  <2> USE <1>1 DEF Gate, Log
  <2>1. CASE Serve
    <3>0. (pending' = pending + 1 /\ served' = TRUE) \/ UNCHANGED <<pending, served>>
      BY <2>1 DEF Serve
    <3>1. /\ call' \in Calls
          /\ UNCHANGED <<suite, dev_key, attempt, abandoned, others, rows, restarts,
                         project_set, checkVars, old>>
      BY <2>1 DEF Serve
    <3>2. pending' \in Nat
      BY <3>0
    <3>3. served' \in BOOLEAN
      BY <3>0
    <3>4. ~served' => pending' = 0 /\ rows = old
      BY <3>0
    <3> QED BY <3>1, <3>2, <3>3, <3>4
  <2>2. CASE Refuse
    BY <2>2 DEF Refuse
  <2>3. CASE EndAbandoned
    <3>1. /\ abandoned' \in Nat /\ pending' \in Nat
          /\ \/ served' = TRUE
             \/ UNCHANGED <<pending, served>>
      BY <2>3 DEF EndAbandoned
    <3>2. UNCHANGED <<suiteVars, others, rows, restarts, project_set, checkVars, old>>
      BY <2>3 DEF EndAbandoned
    <3>3. served' \in BOOLEAN
      BY <3>1
    <3> QED BY <3>1, <3>2, <3>3
  <2>4. CASE ServeOther
    BY <2>4 DEF ServeOther
  <2> QED BY <2>1, <2>2, <2>3, <2>4
<1>2. CASE Stream
  BY <1>2 DEF Stream
<1>3. CASE Restart
  BY <1>3 DEF Restart
<1> QED BY <1>1, <1>2, <1>3

LEMMA Inductive == Spec => []Inv
<1>1. Init => Inv
  <2> SUFFICES ASSUME Init PROVE Inv
    OBVIOUS
  <2>1. rows \in Nat /\ attempt \in 1 .. Attempts
    BY BoundsAssumption DEF Init
  <2>2. CheckTypeOK
    BY <2>1 DEF Init, CheckInit, CheckTypeOK, Reports
  <2>3. /\ suite \in SuitePoints
        /\ call \in Calls
    BY DEF Init, SuitePoints, Calls
  <2>4. /\ abandoned \in Nat /\ pending \in Nat
        /\ others \in 0 .. MaxOthers /\ restarts \in 0 .. MaxRestarts
        /\ old \in Nat
    BY BoundsAssumption, <2>1 DEF Init
  <2>5. dev_key \in BOOLEAN /\ served \in BOOLEAN
    BY DEF Init
  <2>6. TypeOK
    BY <2>1, <2>2, <2>3, <2>4, <2>5 DEF TypeOK
  <2> QED
    BY <2>1, <2>6 DEF Init, CheckInit, Inv, CheckInv, TableInv, SuiteInv, EmptyMeansFresh
<1>2. Inv /\ UNCHANGED vars => Inv'
  BY DEF Inv, TypeOK, CheckTypeOK, CheckInv, TableInv, SuiteInv, EmptyMeansFresh,
         vars, checkVars, suiteVars, gatewayVars
<1>3. Inv /\ [Next]_vars => Inv'
  BY <1>2, CheckStepKeepsInv, SuiteKeepsInv, GatewayKeepsInv DEF Next
<1> QED BY <1>1, <1>3, PTL DEF Spec

-----------------------------------------------------------------------------
\* Type correctness of the suite, of check_bq.py and of the gateway.
THEOREM AuditTyped == Spec => []TypeOK
BY Inductive, PTL DEF Inv

\* check_bq.py does not say "0 trajectories" of a table that had rows when the suite began.
THEOREM EmptyIsFresh == Spec => []EmptyMeansFresh
BY Inductive, PTL DEF Inv

\* 04_verify_cluster.sh does not pass on an audit table that was empty unless a request was
\* served and its row streamed.
THEOREM CertifiedIsServed == Spec => []CertifiedMeansServed
<1>1. Inv => CertifiedMeansServed
  BY DEF Inv, TypeOK, CheckTypeOK, CheckInv, TableInv, SuiteInv, CertifiedMeansServed
<1> QED BY <1>1, Inductive, PTL

-----------------------------------------------------------------------------
\* check_bq.py and its environment implement AuditVerdict: every step is a step of the
\* abstract machine, or changes nothing it sees.
THEOREM VerdictImplemented == Spec => ImplementsVerdict
<1> USE DEF Verdict!vars
<1>1. Init => Verdict!Init
  BY BoundsAssumption DEF Init, CheckInit, Verdict!Init
<1>2. Inv /\ [Next]_vars => [Verdict!Next]_(Verdict!vars)
  <2> SUFFICES ASSUME Inv, [Next]_vars PROVE [Verdict!Next]_(Verdict!vars)
    OBVIOUS
  <2> USE DEF Inv, TypeOK, CheckTypeOK, CheckInv, TableInv
  <2>1. CASE CheckStep
    <3> USE <2>1 DEF CheckStep, Main, Goto
    <3>1. CASE NoProject \/ Evaluate
      <4>1. /\ report = "none" /\ UNCHANGED <<rows, total_rows>>
            /\ \/ report' \in {"failed", "unset"}
               \/ report' = "pass" /\ total_rows > 0
               \/ report' = "empty" /\ ~(total_rows > 0)
        BY <3>1 DEF NoProject, Evaluate, evaluate_bq_results
      <4> QED BY <4>1 DEF Verdict!Next, Verdict!Report
    <3>2. ASSUME Answered, report' = report, report = "none"
          PROVE  [Verdict!Next]_(Verdict!vars)
      <4>1. /\ rows' = rows /\ total_rows' \in {total_rows, rows}
        BY <3>2 DEF Answered
      <4>2. CASE (total_rows' > 0) = (total_rows > 0)
        BY <4>1, <4>2, <3>2
      <4>3. CASE total_rows' > 0 /\ total_rows = 0
        BY <4>1, <4>3, <3>2 DEF Verdict!Next, Verdict!Count
      <4> QED BY <4>1, <4>2, <4>3
    <3>3. CASE CliCount \/ RestCount \/ ClientCount
      BY <3>2, <3>3 DEF CliCount, RestCount, ClientCount, CountThenSample
    <3>4. ASSUME UNCHANGED <<total_rows, report>>
          PROVE  [Verdict!Next]_(Verdict!vars)
      BY <3>4
    <3> QED
      BY <3>1, <3>3, <3>4
         DEF Bounded, Unbounded, Begin, CliFails, CliSample, CliSampleRaises, CliFallback,
             CliFallbackRaises, RestToken, RestFails, ClientFails, ClientSample, Sampled,
             FallThrough
  <2>2. CASE GatewayStep
    <3>1. UNCHANGED <<total_rows, report>> /\ rows' \in {rows, rows + 1}
      BY <2>2 DEF GatewayStep, Gate, Stream, Restart, checkVars
    <3> QED BY <3>1 DEF Verdict!Next, Verdict!Stream
  <2>3. CASE \/ ScriptStep \/ UntimedStep \/ TimeoutStep \/ ExecStep \/ ProcessStep
            \/ UNCHANGED vars
    <3>1. UNCHANGED <<rows, total_rows, report>>
      BY <2>3 DEF ScriptStep, UntimedStep, TimeoutStep, ExecStep, ProcessStep, StartCheck,
             CheckEnds, vars, checkVars
    <3> QED BY <3>1
  <2> QED BY <2>1, <2>2, <2>3 DEF Next
<1> QED BY <1>1, <1>2, Inductive, PTL DEF Spec, Verdict!Spec, ImplementsVerdict
=============================================================================
