---------------------------- MODULE FailoverRule ----------------------------
(***************************************************************************)
(* What benchmarks/run_failover_bench.py computes from a run's samples and *)
(* the pre-registered rule it applies to it: summarise and cmd_verdict.    *)
(*                                                                         *)
(* A sample is a record of the attempt's number, the time t it was         *)
(* recorded at, whether it succeeded and its latency.  Times are integers, *)
(* and rates are compared in percent.                                      *)
(***************************************************************************)
EXTENDS Integers, FiniteSets, FiniteSetsExt

CONSTANTS
  MaxBlackout,   \* RULE: max_blackout_seconds
  MaxResidual,   \* RULE: max_residual_error_rate, in percent
  MaxBaseline,   \* RULE: max_baseline_error_rate, in percent
  MaxP99Ratio,   \* RULE: max_recovery_p99_ratio
  MaxRejoin      \* RULE: max_rejoin_seconds

Unmeasured == -1   \* None

Before(samples, t0) == {s \in samples : s.t < t0}
After(samples, t0)  == {s \in samples : s.t >= t0}
Succeeded(S)        == {s \in S : s.ok}

SuccessTimes(samples, t0) == {s.t : s \in Succeeded(After(samples, t0))}

\* Mutant: the earlier version that the comment in summarise describes, which
\* "only measured gaps between successes".
GapsBetweenSuccesses(samples, t0, end) ==
  LET T == SuccessTimes(samples, t0) IN
  {g \in T \X T : g[1] < g[2] /\ \A x \in T : x <= g[1] \/ x >= g[2]}

\* Mutant: the cursor stays at the kill.
GapsFromKill(samples, t0, end) ==
  {<<t0, ts>> : ts \in SuccessTimes(samples, t0) \union {Max({end, t0})}}

\* The spans without a success: up to each success from the one before it, or from the
\* kill, and from the last one to the end of the run.
Gaps(samples, t0, end) ==
  LET T == SuccessTimes(samples, t0)
      Cursor(ts) == Max({t0} \union {x \in T : x < ts})
  IN {<<Cursor(ts), ts>> : ts \in T} \union {<<Max({t0} \union T), Max({end, t0})>>}

blackout(samples, t0, end) == Max({0} \union {g[2] - g[1] : g \in Gaps(samples, t0, end)})

\* The end of the first of the longest gaps.
blackout_end(samples, t0, end) ==
  LET longest == blackout(samples, t0, end)
      starts  == {g[1] : g \in {h \in Gaps(samples, t0, end) : h[2] - h[1] = longest}}
  IN IF longest = 0 THEN t0 ELSE Min(starts) + longest

\* Everything from the end of the blackout on.
Residual(samples, t0, end) ==
  {s \in After(samples, t0) : s.t >= blackout_end(samples, t0, end)}

\* The error rate of S is known and at most pct percent.
RateWithin(S, pct) ==
  /\ S # {}
  /\ 100 * Cardinality(S \ Succeeded(S)) <= pct * Cardinality(S)

\* p(values, 0.99): the element at index min(int(0.99 n), n - 1) of the sorted latencies.
p99(S) ==
  LET n   == Cardinality(S)
      idx == Min({(99 * n) \div 100, n - 1})
  IN CHOOSE v \in {s.latency : s \in S} :
       /\ Cardinality({s \in S : s.latency < v}) <= idx
       /\ idx < Cardinality({s \in S : s.latency <= v})

P99RatioWithin(samples, t0) ==
  LET base == Succeeded(Before(samples, t0))
      rec  == Succeeded(After(samples, t0))
  IN /\ base # {} /\ rec # {}
     /\ p99(base) # 0 /\ p99(rec) # 0
     /\ p99(rec) <= MaxP99Ratio * p99(base)

\* cmd_verdict: the checks that doc passes.
checks(doc) ==
  {c \in {"blackout", "baseline_health", "residual_error_rate", "recovery_p99_ratio",
          "rejoin", "kill_effective"} :
    \/ c = "blackout" /\ blackout(doc.samples, doc.t0, doc.end) <= MaxBlackout
    \/ c = "baseline_health" /\ RateWithin(Before(doc.samples, doc.t0), MaxBaseline)
    \/ c = "residual_error_rate"
         /\ RateWithin(Residual(doc.samples, doc.t0, doc.end), MaxResidual)
    \/ c = "recovery_p99_ratio" /\ P99RatioWithin(doc.samples, doc.t0)
    \/ c = "rejoin" /\ doc.rejoin # Unmeasured /\ doc.rejoin <= MaxRejoin
    \/ c = "kill_effective" /\ doc.kill_rc = 0}

passes(doc) ==
  checks(doc) = {"blackout", "baseline_health", "residual_error_rate", "recovery_p99_ratio",
                 "rejoin", "kill_effective"}
=============================================================================
