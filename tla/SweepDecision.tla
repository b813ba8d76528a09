--------------------------- MODULE SweepDecision ---------------------------
(***************************************************************************)
(* The pre-registered keep/back-out rule, benchmarks/sweep_decision.py.    *)
(*                                                                         *)
(* A results file is a record of the harness shape it was read from and of *)
(* its ok cells: a function from grid positions <<shape, concurrency>>,    *)
(* where a shape stands for a pair (isl_target, osl), to cells.            *)
(* Percentages are integers in thousandths of a percent, the precision the *)
(* code rounds to; a tie in the fourth decimal rounds up.                  *)
(***************************************************************************)
EXTENDS Integers, FiniteSets, FiniteSetsExt

CONSTANTS
  Primary,  \* --primary-concurrency
  Guards    \* --guard-concurrencies

Concurrency(position) == position[2]

Cells(file) == file.cells
Matched(base, cand) == DOMAIN Cells(base) \intersect DOMAIN Cells(cand)

\* Mutant: the sign of the required gain is lost.
LossTolerated == -2000

\* Thresholds, in thousandths of a percent.
MinMatchedCells         == 2
ThroughputMinGain       == 2000
ThroughputMaxRegression == 2000
ThroughputMaxWorsening  == 10000
SchedulingMaxDrop       == 5000

\* round((after - before) / before * 100.0, 3), for before > 0.
pct_delta(before, after) == (200000 * (after - before) + before) \div (2 * before)

\* The cells of one band that pooled_throughput counts.
Counted(file, S) == {p \in S : Cells(file)[p].tokens > 0 /\ Cells(file)[p].duration > 0}

Tokens(file, S)   == FoldFunction(+, 0, [p \in Counted(file, S) |-> Cells(file)[p].tokens])
Duration(file, S) == FoldFunction(+, 0, [p \in Counted(file, S) |-> Cells(file)[p].duration])

Band(base, cand, c) == {p \in Matched(base, cand) : Concurrency(p) = c}

\* Both sides pooled something in the band, so delta_pct is not None.
Comparable(base, cand, c) ==
  /\ Counted(base, Band(base, cand, c)) # {}
  /\ Counted(cand, Band(base, cand, c)) # {}

\* pct_delta of the pooled rates tokens / duration, cross-multiplied.
band_delta(base, cand, c) ==
  LET S == Band(base, cand, c) IN
  pct_delta(Tokens(base, S) * Duration(cand, S), Tokens(cand, S) * Duration(base, S))

\* A cell without a TTFT P99: none of its requests reported one.
Unreported == -1

\* Every change of TTFT P99, the worst and the best of which the rule looks at.
ttft_changes(base, cand) ==
  {pct_delta(Cells(base)[p].p99, Cells(cand)[p].p99) :
     p \in {q \in Matched(base, cand) : Cells(base)[q].p99 > 0 /\ Cells(cand)[q].p99 # Unreported}}

Decidable(base, cand) ==
  /\ base.source = cand.source
  /\ Cardinality(Matched(base, cand)) >= MinMatchedCells
  /\ Comparable(base, cand, Primary)

\* Mutant: the P99 guard with its sign turned round.
KeepsFasterTail(base, cand) ==
  /\ band_delta(base, cand, Primary) >= ThroughputMinGain
  /\ \A c \in Guards \ {Primary} :
       Comparable(base, cand, c) => band_delta(base, cand, c) >= -ThroughputMaxRegression
  /\ \A change \in ttft_changes(base, cand) : change >= -ThroughputMaxWorsening

\* _decide_throughput.  A guard band that did not run is noted and not checked.
KeepsThroughput(base, cand) ==
  /\ band_delta(base, cand, Primary) >= ThroughputMinGain
  /\ \A c \in Guards \ {Primary} :
       Comparable(base, cand, c) => band_delta(base, cand, c) >= -ThroughputMaxRegression
  /\ \A change \in ttft_changes(base, cand) : change <= ThroughputMaxWorsening

\* _decide_scheduling: some P99 improves, and the aggregate drops within the limit.
KeepsScheduling(base, cand) ==
  /\ band_delta(base, cand, Primary) >= -SchedulingMaxDrop
  /\ \E change \in ttft_changes(base, cand) : change < 0

decide(base, cand, objective) ==
  IF ~Decidable(base, cand) THEN "undecidable"
  ELSE IF \/ objective = "throughput" /\ KeepsThroughput(base, cand)
          \/ objective = "scheduling" /\ KeepsScheduling(base, cand)
       THEN "accept"
       ELSE "back_out"
=============================================================================
