---------------------------- MODULE TuningSweep ----------------------------
(***************************************************************************)
(* The resumable tuning sweep of scripts/07_run_tuning_sweep.sh.           *)
(*                                                                         *)
(* A session takes the variants of its plan that are not settled, one by   *)
(* one: it deploys the accepted stack with the variant's delta on top,     *)
(* runs the benchmark, judges the results against the last accepted ones   *)
(* and records the verdict in the checkpoint.  The checkpoint, the results *)
(* files and the StatefulSet outlive the session, which may be interrupted *)
(* or killed at any point and run again.                                   *)
(*                                                                         *)
(* An environment gives every tunable key a value.  A results file is      *)
(* named by the grid it contains and carries, for the properties only, the *)
(* variant and the deployed environment it was measured on.                *)
(***************************************************************************)
EXTENDS SweepDecision, Sequences

CONSTANTS
  Table,           \* VARIANT_TABLE: the variants in table order
  Delta,           \* the delta of each variant: a function from keys to values
  Objective,       \* "throughput" or "scheduling"
  Keys,            \* TUNABLE_KEYS
  Values,          \* their values
  Default,         \* the value of a key in config.env
  AutoValue,       \* what resolve_auto_value reads from the engine's log
  Grids,           \* results files the harness may produce, by name
  Committed,       \* results files the checkout may already contain
  Plans,           \* --variants
  ResumeOptions,   \* RESUME: a subset of BOOLEAN
  StopOptions,     \* STOP_ON_UNDECIDABLE: a subset of BOOLEAN
  SilentBench,     \* variants whose benchmark may fail and write nothing
  CtrlC,           \* TRUE: an interrupt also reaches the benchmark
  MaxDisruptions,  \* bound on interrupts, kills and runs with --no-resume
  NoVariant, NoFile

Variants == {Table[i] : i \in DOMAIN Table}
Environments == [Keys -> Values]
ConfigEnv == [k \in Keys |-> Default]
Statuses == {"pending", "running", "accepted", "backed_out", "failed", "undecided"}
Files == [grid : DOMAIN Grids, by : Variants \union {NoVariant}, env : Environments]
Points == {"off", "next", "apply", "rollout", "bench", "collect", "judge", "summary"}

ASSUME SweepAssumption ==
  /\ Table \in Seq(Variants) /\ \A i, j \in DOMAIN Table : Table[i] = Table[j] => i = j
  /\ Default \in Values /\ AutoValue \in Values /\ "AUTO" \in Values \ {Default, AutoValue}
  /\ \A v \in Variants : DOMAIN Delta[v] \subseteq Keys /\ \A k \in DOMAIN Delta[v] : Delta[v][k] \in Values
  /\ Objective \in [Variants -> {"throughput", "scheduling"}]
  /\ Plans \subseteq Seq(Variants)
  /\ ResumeOptions \subseteq BOOLEAN /\ StopOptions \subseteq BOOLEAN /\ CtrlC \in BOOLEAN
  /\ Committed \subseteq [grid : DOMAIN Grids, by : {NoVariant}, env : {ConfigEnv}] \union {NoFile}
  /\ SilentBench \subseteq Variants
  /\ MaxDisruptions \in Nat
  /\ NoVariant \notin Variants /\ NoFile \notin Files

\* What the harness writes into a cell.
ASSUME GridAssumption ==
  \A g \in DOMAIN Grids :
    /\ IsFiniteSet(DOMAIN Cells(Grids[g]))
    /\ \A p \in DOMAIN Cells(Grids[g]) :
         Cells(Grids[g])[p] \in [tokens : Nat, duration : Nat, p99 : Nat \union {Unreported}]

VARIABLES
  \* The session.
  pc,          \* program point
  plan,        \* PLANNED
  todo,        \* the rest of TO_RUN, as positions in the plan
  cur,         \* variant
  stop,        \* STOP_ON_UNDECIDABLE
  env,         \* the exported tunables
  baseline,    \* the variant whose results file BASELINE_RESULTS names
  interrupted, \* INTERRUPTED
  outcome,     \* how the last session ended
  \* What outlives it.
  status,      \* CP_STATUS and the checkpoint, which always agree
  files,       \* <state-dir>/<variant>_<mode>_results.json
  produced,    \* benchmarks/results/<engine>/<mode>_results.json
  spec,        \* the tunables of the StatefulSet, and of its pods once ready
  disruptions  \* interrupts, kills and runs with --no-resume so far (bounded)

sessionVars == <<pc, plan, todo, cur, stop, env, baseline, interrupted, outcome>>
lastingVars == <<status, files, produced, spec>>
vars == <<sessionVars, lastingVars, disruptions>>

Init ==
  /\ pc = "off" /\ plan = <<>> /\ todo = {} /\ cur = NoVariant /\ stop = FALSE
  /\ env = ConfigEnv /\ baseline = NoVariant /\ interrupted = FALSE /\ outcome = "none"
  /\ status = [v \in Variants |-> "pending"]
  /\ files = [v \in Variants |-> NoFile]
  /\ produced \in Committed
  /\ spec = ConfigEnv
  /\ disruptions = 0

\* Mutant: a failed variant is run again by every resume.
RetriesFailed(s) == s \in {"accepted", "backed_out"}

is_terminal(s) == s \in {"accepted", "backed_out", "failed"}

Measured(s) == s \in {"accepted", "backed_out", "undecided"}

\* Mutant: the delta replaces the environment.
ReplacesStack(base, delta) == delta

\* export "KEY=VALUE" for each entry of a delta.
Overlay(base, delta) == [k \in Keys |-> IF k \in DOMAIN delta THEN delta[k] ELSE base[k]]

\* What the accepted variants set, in table order: the last setter of a key wins.
\* A value is exported as the table writes it.
accepted_stack_env(st) ==
  [k \in Keys |->
     LET setters == {i \in DOMAIN Table : st[Table[i]] = "accepted"
                                          /\ k \in DOMAIN Delta[Table[i]]} IN
     IF setters = {} THEN Default ELSE Delta[Table[Max(setters)]][k]]

\* The variant's own delta, with AUTO resolved.
Resolved(v) ==
  [k \in DOMAIN Delta[v] |-> IF Delta[v][k] = "AUTO" THEN AutoValue ELSE Delta[v][k]]

\* The last variant of the plan, in plan order, that the checkpoint has as accepted.
LastAccepted(p) ==
  LET accepted == {i \in DOMAIN p : status[p[i]] = "accepted"} IN
  IF accepted = {} THEN NoVariant ELSE p[Max(accepted)]

(***************************************************************************)
(* The session.                                                            *)
(***************************************************************************)
ToRun(p, resume) == {i \in DOMAIN p : ~(resume /\ is_terminal(status[p[i]]))}

\* "Nothing to do": exit 0.
StartEmpty(p, resume) ==
  /\ pc = "off"
  /\ ToRun(p, resume) = {}
  /\ plan' = p
  /\ outcome' = "ok"
  /\ UNCHANGED <<pc, todo, cur, stop, env, baseline, interrupted, lastingVars, disruptions>>

\* kubectl or the StatefulSet is missing: exit 1 before the checkpoint is touched.
StartRefused(p, resume) ==
  /\ pc = "off"
  /\ ToRun(p, resume) # {}
  /\ plan' = p
  /\ outcome' = "error"
  /\ UNCHANGED <<pc, todo, cur, stop, env, baseline, interrupted, lastingVars, disruptions>>

Start(p, resume, s) ==
  /\ pc = "off"
  /\ ToRun(p, resume) # {}
  /\ resume \/ disruptions < MaxDisruptions
  /\ disruptions' = IF resume THEN disruptions ELSE disruptions + 1
  /\ pc' = "next"
  /\ plan' = p
  /\ todo' = ToRun(p, resume)
  /\ stop' = s
  /\ baseline' = LastAccepted(p)
  /\ outcome' = "none"
  /\ UNCHANGED <<cur, env, interrupted, lastingVars>>

\* The next of TO_RUN is the first in the plan.
IsNext(i) == i \in todo /\ \A j \in todo : i <= j

\* Mutant: the environment is mutated in place.
TakeNextInPlace ==
  /\ pc = "next" /\ ~interrupted
  /\ \E i \in todo : IsNext(i) /\ cur' = plan[i] /\ todo' = todo \ {i}
  /\ status' = [status EXCEPT ![cur'] = "running"]
  /\ env' = Overlay(env, Resolved(cur'))
  /\ pc' = "apply"
  /\ UNCHANGED <<plan, stop, baseline, interrupted, outcome, files, produced, spec, disruptions>>

\* set_status running, then rebuild the environment from the accepted stack.
TakeNext ==
  /\ pc = "next" /\ ~interrupted
  /\ \E i \in todo : IsNext(i) /\ cur' = plan[i] /\ todo' = todo \ {i}
  /\ status' = [status EXCEPT ![cur'] = "running"]
  /\ env' = Overlay(accepted_stack_env(status'), Resolved(cur'))
  /\ pc' = "apply"
  /\ UNCHANGED <<plan, stop, baseline, interrupted, outcome, files, produced, spec, disruptions>>

\* set_status <s>, then the next variant, or the summary under --stop-on-undecidable.
Abandon(s) ==
  /\ status' = [status EXCEPT ![cur] = s]
  /\ pc' = IF stop THEN "summary" ELSE "next"

\* AUTO cannot be resolved, the manifest does not render, or the apply is refused.
Refused ==
  /\ pc = "apply"
  /\ Abandon("failed")
  /\ UNCHANGED <<plan, todo, cur, stop, env, baseline, interrupted, outcome, files, produced,
                 spec, disruptions>>

\* kubectl apply; the StatefulSet rolls when the manifest changed.
Apply ==
  /\ pc = "apply"
  /\ spec' = env
  /\ pc' = "rollout"
  /\ UNCHANGED <<plan, todo, cur, stop, env, baseline, interrupted, outcome, status, files,
                 produced, disruptions>>

\* The engine parses --max-running-requests as a number: it never starts on AUTO.
RolloutReady ==
  /\ pc = "rollout"
  /\ \A k \in Keys : spec[k] # "AUTO"
  /\ pc' = "bench"
  /\ UNCHANGED <<plan, todo, cur, stop, env, baseline, interrupted, outcome, lastingVars,
                 disruptions>>

RolloutTimesOut ==
  /\ pc = "rollout"
  /\ Abandon("failed")
  /\ UNCHANGED <<plan, todo, cur, stop, env, baseline, interrupted, outcome, files, produced,
                 spec, disruptions>>

\* 05_run_benchmarks.sh writes the suite's file when the harness reaches its end,
\* over whatever was there.
Bench(g) ==
  /\ pc = "bench"
  /\ produced' = [grid |-> g, by |-> cur, env |-> spec]
  /\ pc' = "collect"
  /\ UNCHANGED <<plan, todo, cur, stop, env, baseline, interrupted, outcome, status, files,
                 spec, disruptions>>

\* Otherwise it leaves the file alone; its exit code is only a warning.
BenchSilent ==
  /\ pc = "bench"
  /\ cur \in SilentBench \/ (interrupted /\ CtrlC)
  /\ pc' = "collect"
  /\ UNCHANGED <<plan, todo, cur, stop, env, baseline, interrupted, outcome, lastingVars,
                 disruptions>>

NoResults ==
  /\ pc = "collect"
  /\ produced = NoFile
  /\ Abandon("failed")
  /\ UNCHANGED <<plan, todo, cur, stop, env, baseline, interrupted, outcome, files, produced,
                 spec, disruptions>>

\* cp, and the first completed variant becomes the baseline unjudged.
Adopt ==
  /\ pc = "collect"
  /\ produced # NoFile /\ baseline = NoVariant
  /\ files' = [files EXCEPT ![cur] = produced]
  /\ status' = [status EXCEPT ![cur] = "accepted"]
  /\ baseline' = cur
  /\ pc' = "next"
  /\ UNCHANGED <<plan, todo, cur, stop, env, interrupted, outcome, produced, spec, disruptions>>

Collect ==
  /\ pc = "collect"
  /\ produced # NoFile /\ baseline # NoVariant
  /\ files' = [files EXCEPT ![cur] = produced]
  /\ pc' = "judge"
  /\ UNCHANGED <<plan, todo, cur, stop, env, baseline, interrupted, outcome, status, produced,
                 spec, disruptions>>

\* sweep_decision.py on two results files.
Verdict(b, c, objective) == decide(Grids[files[b].grid], Grids[files[c].grid], objective)

\* Mutant: the last variant run becomes the baseline, accepted or not.
JudgeAndFollow ==
  /\ pc = "judge"
  /\ \/ /\ Verdict(baseline, cur, Objective[cur]) = "accept"
        /\ status' = [status EXCEPT ![cur] = "accepted"]
        /\ pc' = "next"
     \/ /\ Verdict(baseline, cur, Objective[cur]) = "back_out"
        /\ status' = [status EXCEPT ![cur] = "backed_out"]
        /\ pc' = "next"
     \/ /\ Verdict(baseline, cur, Objective[cur]) = "undecidable"
        /\ Abandon("undecided")
  /\ baseline' = cur
  /\ UNCHANGED <<plan, todo, cur, stop, env, interrupted, outcome, files, produced, spec, disruptions>>

Judge ==
  /\ pc = "judge"
  /\ \/ /\ Verdict(baseline, cur, Objective[cur]) = "accept"
        /\ status' = [status EXCEPT ![cur] = "accepted"]
        /\ baseline' = cur
        /\ pc' = "next"
     \/ /\ Verdict(baseline, cur, Objective[cur]) = "back_out"
        /\ status' = [status EXCEPT ![cur] = "backed_out"]
        /\ pc' = "next"
        /\ UNCHANGED baseline
     \/ /\ Verdict(baseline, cur, Objective[cur]) = "undecidable"
        /\ Abandon("undecided")
        /\ UNCHANGED baseline
  /\ UNCHANGED <<plan, todo, cur, stop, env, interrupted, outcome, files, produced, spec, disruptions>>

\* The loop is over, or is left because of an interrupt.
LeaveLoop ==
  /\ pc = "next"
  /\ todo = {} \/ interrupted
  /\ pc' = "summary"
  /\ UNCHANGED <<plan, todo, cur, stop, env, baseline, interrupted, outcome, lastingVars,
                 disruptions>>

\* The process is gone, and its shell variables with it.
SessionEnds(how) ==
  /\ pc' = "off" /\ todo' = {} /\ cur' = NoVariant /\ stop' = FALSE /\ env' = ConfigEnv
  /\ baseline' = NoVariant /\ interrupted' = FALSE
  /\ outcome' = how
  /\ UNCHANGED <<plan, lastingVars>>

\* exit 130 when interrupted, 1 when nothing of the plan was ever measured, else 0.
Finish ==
  /\ pc = "summary"
  /\ SessionEnds(IF interrupted THEN "interrupted"
                 ELSE IF \E i \in DOMAIN plan : Measured(status[plan[i]]) THEN "ok"
                 ELSE "empty")
  /\ UNCHANGED disruptions

\* on_interrupt: the flag is looked at between variants.
Interrupt ==
  /\ pc \notin {"off", "summary"} /\ ~interrupted
  /\ disruptions < MaxDisruptions
  /\ disruptions' = disruptions + 1
  /\ interrupted' = TRUE
  /\ UNCHANGED <<pc, plan, todo, cur, stop, env, baseline, outcome, lastingVars>>

\* kill -9, a preempted driver, or set -e.
Crash ==
  /\ pc # "off"
  /\ disruptions < MaxDisruptions
  /\ disruptions' = disruptions + 1
  /\ SessionEnds("killed")

-----------------------------------------------------------------------------
Starts ==
  \E p \in Plans, r \in ResumeOptions :
    StartEmpty(p, r) \/ StartRefused(p, r) \/ \E s \in StopOptions : Start(p, r, s)

Steps ==
  \/ TakeNext \/ Refused \/ Apply \/ RolloutReady \/ RolloutTimesOut
  \/ (\E g \in DOMAIN Grids : Bench(g)) \/ BenchSilent
  \/ NoResults \/ Adopt \/ Collect \/ Judge \/ LeaveLoop \/ Finish

Next == Starts \/ Steps \/ Interrupt \/ Crash

Spec == Init /\ [][Next]_vars

\* The runs that resume and reach the cluster.
Resumes == \E p \in Plans, s \in StopOptions : StartEmpty(p, TRUE) \/ Start(p, TRUE, s)

\* Every command of a session ends (rollouts and benchmarks have timeouts), and the
\* operator re-runs the command as the usage text says, with the cluster there.
FairSpec == Spec /\ WF_vars(Resumes) /\ WF_vars(Steps)

-----------------------------------------------------------------------------
(***************************************************************************)
(* Properties.                                                             *)
(***************************************************************************)

TypeOK ==
  /\ pc \in Points
  /\ plan \in Plans \union {<<>>}
  /\ todo \subseteq DOMAIN plan
  /\ cur \in Variants \union {NoVariant}
  /\ stop \in BOOLEAN
  /\ env \in Environments
  /\ baseline \in Variants \union {NoVariant}
  /\ interrupted \in BOOLEAN
  /\ outcome \in {"none", "ok", "empty", "error", "interrupted", "killed"}
  /\ status \in [Variants -> Statuses]
  /\ files \in [Variants -> Files \union {NoFile}]
  /\ produced \in Files \union {NoFile}
  /\ spec \in Environments
  /\ disruptions \in 0 .. MaxDisruptions

\* A backed-out variant does not leak into its successors: every tunable of what is
\* being measured was set by the variant itself or by an accepted one.
NoLeak ==
  pc \in {"bench", "collect", "judge"} =>
    \A k \in Keys :
      \/ spec[k] = Default
      \/ k \in DOMAIN Delta[cur] /\ spec[k] = Resolved(cur)[k]
      \/ \E v \in Variants :
           status[v] = "accepted" /\ k \in DOMAIN Delta[v] /\ spec[k] = Delta[v][k]

\* A variant is judged on what was measured on it and nothing else.
JudgesOwnMeasurement ==
  pc = "judge" => files[cur].by = cur

\* g is at least as good as h in every cell, and the same cells of both are pooled: a
\* cell that produced nothing is left out, and may lower the pooled rate once it counts.
AtLeastAsGood(g, h) ==
  /\ g.source = h.source
  /\ DOMAIN g.cells = DOMAIN h.cells
  /\ Counted(g, DOMAIN g.cells) = Counted(h, DOMAIN h.cells)
  /\ \A p \in DOMAIN h.cells :
       /\ g.cells[p].tokens >= h.cells[p].tokens
       /\ g.cells[p].duration <= h.cells[p].duration
       /\ g.cells[p].p99 <= h.cells[p].p99
       /\ g.cells[p].p99 = Unreported <=> h.cells[p].p99 = Unreported

\* The rule is monotone: a candidate that is accepted would be accepted as well had
\* some of its cells been faster.
BetterIsAccepted ==
  pc = "judge" /\ Verdict(baseline, cur, Objective[cur]) = "accept" =>
    \A g \in DOMAIN Grids :
      AtLeastAsGood(Grids[g], Grids[files[cur].grid]) =>
        decide(Grids[files[baseline].grid], Grids[g], Objective[cur]) = "accept"

\* A throughput verdict cannot be undone by the same rule: if one variant replaces
\* another, the other does not replace it.
AcceptanceIsProgress ==
  \A v, w \in Variants :
    files[v] # NoFile /\ files[w] # NoFile
    /\ Verdict(v, w, "throughput") = "accept" => Verdict(w, v, "throughput") # "accept"

\* The sweep exits 0 only when it has measured something: its caller records an exit
\* code of 0 as a completed stage.
ZeroMeansMeasured ==
  outcome = "ok" =>
    \E i \in DOMAIN plan : status[plan[i]] \in {"accepted", "backed_out", "undecided"}

\* Re-running the command settles every variant of the plan, unless some variant
\* stays undecided again and again.
SweepSettles ==
  \/ <>[](\A v \in Variants : is_terminal(status[v]))
  \/ []<>(\E v \in Variants : status[v] = "undecided")
=============================================================================
