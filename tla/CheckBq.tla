------------------------------- MODULE CheckBq -------------------------------
(***************************************************************************)
(* One run of scripts/check_bq.py: count the rows of the audit table over  *)
(* the first of three transports that answers, read one row for the log,   *)
(* and turn what is left in success and total_rows into a report and an    *)
(* exit code.  The three attempts share those variables, and the gateway   *)
(* may add rows between any two queries.  What makes a transport fail (no  *)
(* bq on the PATH, a proxy, a timeout, JSON that does not parse) and what  *)
(* the row of the log says are left out.                                   *)
(***************************************************************************)
EXTENDS Naturals

VARIABLES
  rows,         \* number of rows a query of the audit table sees (BigQuery)
  project_set,  \* PROJECT_ID is in the environment
  check,        \* program point
  success,
  total_rows,
  sampled,      \* sample_row is not None
  report,       \* the line evaluate_bq_results printed, "none" before
  blank         \* history: a count query was answered without a row

checkVars == <<check, success, total_rows, sampled, report, blank>>

TransportPoints == {"cli_count", "cli_sample", "cli_fallback", "rest_token", "rest_count",
                    "client_count", "client_sample"}
Reports == {"none", "pass", "empty", "failed", "unset"}

CheckTypeOK ==
  /\ rows \in Nat
  /\ project_set \in BOOLEAN
  /\ check \in {"idle", "start", "evaluate", "exited"} \union TransportPoints
  /\ success \in BOOLEAN
  /\ total_rows \in Nat
  /\ sampled \in BOOLEAN
  /\ report \in Reports
  /\ blank \in BOOLEAN

\* Mutant: >= for >.
PassesOnZero(ok, n) == IF ok /\ n >= 0 THEN "pass" ELSE "failed"

evaluate_bq_results(ok, n) ==
  IF ok /\ n > 0 THEN "pass" ELSE IF ok /\ n = 0 THEN "empty" ELSE "failed"
returncode == IF report = "pass" THEN 0 ELSE 1

CheckInit ==
  /\ project_set \in BOOLEAN
  /\ check = "idle"
  /\ success = FALSE
  /\ total_rows = 0
  /\ sampled = FALSE
  /\ report = "none"
  /\ blank = FALSE

Goto(from, to) == check = from /\ check' = to

\* The placeholder project id ends the run before any query.
NoProject ==
  /\ ~project_set
  /\ Goto("start", "exited")
  /\ report' = "unset"
  /\ UNCHANGED <<success, total_rows, sampled, blank>>

Begin ==
  /\ project_set
  /\ Goto("start", "cli_count")
  /\ UNCHANGED <<success, total_rows, sampled, report, blank>>

\* A transport has answered the count query: with the number of rows at this moment,
\* or with no row, which leaves total_rows as an earlier attempt left it.
Answered ==
  \E b \in BOOLEAN :
    /\ total_rows' = IF b THEN total_rows ELSE rows
    /\ blank' = (blank \/ b)

\* An answered count goes on to the sample query only if there is a row to sample.
CountThenSample(sample) ==
  /\ Answered
  /\ success' = (total_rows' = 0)
  /\ check' = IF total_rows' > 0 THEN sample ELSE "evaluate"
  /\ UNCHANGED <<sampled, report>>

\* A sample query has returned, with a row or without: the attempt has succeeded.
Sampled(from) ==
  /\ Goto(from, "evaluate")
  /\ success' = TRUE
  /\ sampled' \in BOOLEAN
  /\ UNCHANGED <<total_rows, report, blank>>

\* An exception or an error status: the next attempt, with all that this one has set.
FallThrough(from, to) ==
  /\ Goto(from, to)
  /\ UNCHANGED <<success, total_rows, sampled, report, blank>>

\* Mutant: an error status of bq is taken for an empty answer.
ErrorIsEmpty ==
  /\ Goto("cli_count", "evaluate")
  /\ success' = TRUE
  /\ UNCHANGED <<total_rows, sampled, report, blank>>

CliCount   == check = "cli_count" /\ CountThenSample("cli_sample")
CliFails   == FallThrough("cli_count", "rest_token")
CliSample  == Sampled("cli_sample")
CliSampleRaises   == FallThrough("cli_sample", "cli_fallback")
CliFallback       == Sampled("cli_fallback")
\* Mutant: the failed attempt takes back what it has counted.
ForgetsCount ==
  /\ Goto("cli_fallback", "rest_token")
  /\ total_rows' = 0
  /\ UNCHANGED <<success, sampled, report, blank>>
CliFallbackRaises == FallThrough("cli_fallback", "rest_token")

RestToken == FallThrough("rest_token", "rest_count")
RestCount ==
  /\ Goto("rest_count", "evaluate")
  /\ Answered
  /\ success' = TRUE
  /\ UNCHANGED <<sampled, report>>
\* No metadata server, an HTTP error, or a job that was not complete in time.
RestFails == \E from \in {"rest_token", "rest_count"} : FallThrough(from, "client_count")

\* The client library is called without a timeout: its steps need not be taken.
ClientCount  == check = "client_count" /\ CountThenSample("client_sample")
ClientFails  == FallThrough("client_count", "evaluate")
\* Its sample query may also raise: that is only noted.
ClientSample == Sampled("client_sample")

Evaluate ==
  /\ Goto("evaluate", "exited")
  /\ report' = evaluate_bq_results(success, total_rows)
  /\ UNCHANGED <<success, total_rows, sampled, blank>>

\* The steps that end in bounded time, by a timeout of their own or of the program's.
Bounded ==
  \/ NoProject \/ Begin
  \/ CliCount \/ CliFails \/ CliSample \/ CliSampleRaises \/ CliFallback \/ CliFallbackRaises
  \/ RestToken \/ RestCount \/ RestFails
  \/ Evaluate
Unbounded == ClientCount \/ ClientFails \/ ClientSample

Main == (Bounded \/ Unbounded) /\ UNCHANGED <<rows, project_set>>
=============================================================================
