---------------------------- MODULE SweepHistory ----------------------------
(***************************************************************************)
(* TuningSweep with two history variables, for the one property that is    *)
(* about how the accepted stack came to be.  They record and never         *)
(* constrain: every step of the sweep is a step here.                      *)
(***************************************************************************)
EXTENDS TuningSweep

VARIABLES
  wrote,  \* the last benchmark wrote its results file
  latest  \* the variant whose acceptance, on a file of its own, was the last change
          \* of the set of accepted variants; NoVariant when there is none such

varsH == <<vars, wrote, latest>>

InitH == Init /\ wrote = FALSE /\ latest = NoVariant

NextH ==
  \/ /\ \E g \in DOMAIN Grids : Bench(g)
     /\ wrote' = TRUE /\ UNCHANGED latest
  \/ /\ BenchSilent
     /\ wrote' = FALSE /\ UNCHANGED latest
  \/ /\ Adopt \/ Judge
     /\ latest' = IF status'[cur] # "accepted" THEN latest
                  ELSE IF wrote THEN cur ELSE NoVariant
     /\ UNCHANGED wrote
  \/ /\ TakeNext
     /\ latest' = IF status[cur'] = "accepted" THEN NoVariant ELSE latest
     /\ UNCHANGED wrote
  \/ /\ \/ Starts \/ Refused \/ Apply \/ RolloutReady \/ RolloutTimesOut
        \/ NoResults \/ Collect
        \/ LeaveLoop \/ Finish \/ Interrupt \/ Crash
     /\ UNCHANGED <<wrote, latest>>

SpecH == InitH /\ [][NextH]_varsH

FairSpecH == SpecH /\ WF_vars(Resumes) /\ WF_vars(Steps)

-----------------------------------------------------------------------------
\* The accepted stack as it was deployed, with AUTO resolved.
DeployedStack ==
  [k \in Keys |-> IF accepted_stack_env(status)[k] = "AUTO" THEN AutoValue
                  ELSE accepted_stack_env(status)[k]]

\* The comparison baseline is a measurement of exactly the accepted stack, so that a
\* verdict is about the variant's marginal contribution, for as long as the variant
\* accepted last is the last accepted one of the table and of the plan.  A variant left
\* undecided and accepted on a later resume, behind one that was measured without it,
\* and one judged on another's file, are the two ways for a resumed sweep to lose that.
BaselineIsStack ==
  pc # "off" /\ latest # NoVariant
  /\ latest = LastAccepted(Table) /\ latest = LastAccepted(plan) =>
    baseline # NoVariant /\ files[baseline].env = DeployedStack
=============================================================================
