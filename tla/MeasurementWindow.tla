------------------------- MODULE MeasurementWindow -------------------------
(***************************************************************************)
(* The unattended measurement window of scripts/08_run_measurement_window. *)
(*                                                                         *)
(* A runner (one execution of the script) claims the one GPU cluster with  *)
(* marker files, arms a detached watchdog, runs its stages and tears the   *)
(* cluster down from an EXIT trap.  The watchdog destroys the cluster when *)
(* the runner is gone or the wall-clock deadline has passed.  Runners of   *)
(* different labels write different directories; runners of the same label *)
(* share one.  A runner stands for its own pid: pids are not reused.       *)
(*                                                                         *)
(* The runner, the watchdogs, the operator and 06_destroy_all.sh are       *)
(* separate processes, so every step below can interleave with the others. *)
(***************************************************************************)
EXTENDS Naturals, Sequences, FiniteSets

CONSTANTS
  Runners,        \* executions of the script, each standing for its own pid
  Labels,         \* --run-label directories under benchmarks/results/windows
  LabelOf,        \* the label of each runner
  Stages,         \* the requested stages, in order (--stages)
  Options,        \* option records a runner may be launched with
  Operator,       \* when a second runner may be launched, see Launchable
  KillPoints,     \* program points where kill -9 may strike a runner
  InterruptPoints,\* program points where SIGINT or SIGTERM takes effect
  KillDuringCreate,      \* TRUE: 02_deploy_infra.sh may outlive a killed runner
  MaxRetriedFailures,    \* bound on failed attempts of one runner's teardown
  MaxUnretriedFailures,  \* bound on failed destroys that nobody retries
  NoRunner        \* an absent marker file

OptionRecords == [hold : BOOLEAN, keep : BOOLEAN, resume : BOOLEAN]

\* The runner's program points: before its launch, in assert_sole_owner
\* ("check", "release", "takeover"), in arm_watchdog ("spawn", "record"), in the
\* stage loop, in on_exit ("exit", "teardown", the sleep before a "retry", "unmark"),
\* finished, and killed.
Starting == {"check", "release", "takeover", "spawn", "record"}
Exiting  == {"exit", "teardown", "retry", "unmark"}
ProgramPoints == {"idle", "stages", "done", "dead"} \union Starting \union Exiting

\* The watchdog's: not spawned, the 60 s poll, the 300 s grace period, the 120 s
\* between TERM and KILL, the cluster_up probe, force_destroy, exited, killed.
WatchdogPoints == {"off", "poll", "grace", "term", "confirm", "destroy", "exited", "killed"}

ASSUME ConstantsAssumption ==
  /\ LabelOf \in [Runners -> Labels]
  /\ Stages \in Seq(STRING) /\ Stages # <<>>
  /\ Options \subseteq OptionRecords
  /\ Operator \in {"patient", "impatient", "careless"}
  /\ KillPoints \subseteq ProgramPoints
  /\ InterruptPoints \subseteq Starting \union {"stages"}
  /\ KillDuringCreate \in BOOLEAN
  /\ MaxRetriedFailures \in Nat
  /\ MaxUnretriedFailures \in Nat
  /\ NoRunner \notin Runners

VARIABLES
  pc,        \* program point of each runner
  opt,       \* its --keep-cluster, --destroy-on-failure and RESUME_HELD_WINDOW
  failed,    \* its exit code is not zero
  todo,      \* labels whose ACTIVE file assert_sole_owner still has to look at
  cur,       \* the label whose stale window it is taking over
  at,        \* index of the stage it is in
  tries,     \* failed attempts of do_teardown
  orphan,    \* what a killed runner's child is still doing
  wd,        \* program point of the runner's watchdog
  expired,   \* its wall-clock deadline has passed
  active,    \* contents of <label>/ACTIVE
  hold,      \* <label>/HOLD exists
  wdfile,    \* contents of <label>/WATCHDOG (a watchdog is named by its runner)
  done,      \* <label>/stages/<stage>.done files
  up,        \* the cluster exists and is billing
  unretried  \* destroys that failed with nobody to retry them (bounded)

runnerVars == <<pc, opt, failed, todo, cur, at, tries, orphan>>
wdVars     == <<wd, expired>>
fileVars   == <<active, hold, wdfile, done>>
vars       == <<runnerVars, wdVars, fileVars, up, unretried>>

Init ==
  /\ pc = [w \in Runners |-> "idle"]
  /\ opt = [w \in Runners |-> [hold |-> TRUE, keep |-> FALSE, resume |-> FALSE]]
  /\ failed = [w \in Runners |-> FALSE]
  /\ todo = [w \in Runners |-> {}]
  /\ cur = [w \in Runners |-> LabelOf[w]]
  /\ at = [w \in Runners |-> 1]
  /\ tries = [w \in Runners |-> 0]
  /\ orphan = [w \in Runners |-> "none"]
  /\ wd = [w \in Runners |-> "off"]
  /\ expired = [w \in Runners |-> FALSE]
  /\ active = [l \in Labels |-> NoRunner]
  /\ hold = [l \in Labels |-> FALSE]
  /\ wdfile = [l \in Labels |-> NoRunner]
  /\ done = [l \in Labels |-> {}]
  /\ up = FALSE
  /\ unretried = 0

\* kill -0 of a runner's pid succeeds.
Alive(w) == pc[w] \notin {"idle", "done", "dead"}
WatchdogAlive(w) == wd[w] \notin {"off", "exited", "killed"}

(***************************************************************************)
(* Launch and assert_sole_owner.                                           *)
(***************************************************************************)

\* The operator's discipline, which the script cannot enforce.  "patient" never
\* starts a window while another runs; "impatient" may, but not two at the same
\* moment; "careless" may do anything.
Launchable(w) ==
  \/ Operator = "careless"
  \/ Operator = "impatient" /\ \A v \in Runners : pc[v] \notin Starting
  \/ Operator = "patient" /\ \A v \in Runners : ~Alive(v)

\* Everything up to assert_sole_owner: the options are read, this label's HOLD is
\* removed, the traps are installed and the glob over */ACTIVE is expanded.
Launch(w, o) ==
  /\ pc[w] = "idle"
  /\ Launchable(w)
  /\ pc' = [pc EXCEPT ![w] = "check"]
  /\ opt' = [opt EXCEPT ![w] = o]
  /\ hold' = [hold EXCEPT ![LabelOf[w]] = FALSE]
  /\ todo' = [todo EXCEPT ![w] = {l \in Labels : active[l] # NoRunner}]
  /\ UNCHANGED <<failed, cur, at, tries, orphan, wdVars, active, wdfile, done, up, unretried>>

\* [ -e "${other}" ] || continue
SkipVanished(w, l) ==
  /\ pc[w] = "check" /\ l \in todo[w]
  /\ active[l] = NoRunner
  /\ todo' = [todo EXCEPT ![w] = @ \ {l}]
  /\ UNCHANGED <<pc, opt, failed, cur, at, tries, orphan, wdVars, fileVars, up, unretried>>

\* Mutant: HOLD is not asked about.
RefusesLiveOnly(w, l) == active[l] # NoRunner /\ Alive(active[l])

\* Why assert_sole_owner exits 1 at l: a live runner, or a held cluster that the
\* operator has not agreed to take over.
Refuses(w, l) ==
  \/ active[l] # NoRunner /\ Alive(active[l])
  \/ hold[l] /\ ~opt[w].resume

RefuseToStart(w, l) ==
  /\ pc[w] = "check" /\ l \in todo[w]
  /\ active[l] # NoRunner
  /\ Refuses(w, l)
  /\ pc' = [pc EXCEPT ![w] = "exit"]
  /\ failed' = [failed EXCEPT ![w] = TRUE]
  /\ UNCHANGED <<opt, todo, cur, at, tries, orphan, wdVars, fileVars, up, unretried>>

\* Mutant: the record is removed and the watchdog left running.
PaperworkOnly(w, l) ==
  /\ pc[w] = "check" /\ l \in todo[w]
  /\ active[l] # NoRunner
  /\ ~Refuses(w, l)
  /\ pc' = [pc EXCEPT ![w] = IF hold[l] THEN "release" ELSE "takeover"]
  /\ cur' = [cur EXCEPT ![w] = l]
  /\ wdfile' = [wdfile EXCEPT ![l] = NoRunner]
  /\ UNCHANGED <<wd, orphan>>
  /\ UNCHANGED <<opt, failed, todo, at, tries, expired, active, hold, done, up, unretried>>

\* stop_stale_watchdog: TERM and KILL the recorded watchdog, remove the record.
\* Only the watchdog's shell is signalled; a 06_destroy_all.sh it has started keeps
\* running without it.  The paperwork goes after the process: HOLD, if this is a held
\* window, and then ACTIVE.
stop_stale_watchdog(w, l) ==
  /\ pc[w] = "check" /\ l \in todo[w]
  /\ active[l] # NoRunner
  /\ ~Refuses(w, l)
  /\ pc' = [pc EXCEPT ![w] = IF hold[l] THEN "release" ELSE "takeover"]
  /\ cur' = [cur EXCEPT ![w] = l]
  /\ wdfile' = [wdfile EXCEPT ![l] = NoRunner]
  /\ IF wdfile[l] # NoRunner /\ WatchdogAlive(wdfile[l])
       THEN /\ wd' = [wd EXCEPT ![wdfile[l]] = "killed"]
            /\ orphan' = IF wd[wdfile[l]] = "destroy"
                           THEN [orphan EXCEPT ![wdfile[l]] = "destroy"]
                           ELSE orphan
       ELSE UNCHANGED <<wd, orphan>>
  /\ UNCHANGED <<opt, failed, todo, at, tries, expired, active, hold, done, up, unretried>>

ReleaseHold(w) ==
  /\ pc[w] = "release"
  /\ pc' = [pc EXCEPT ![w] = "takeover"]
  /\ hold' = [hold EXCEPT ![cur[w]] = FALSE]
  /\ UNCHANGED <<opt, failed, todo, cur, at, tries, orphan, wdVars, active, wdfile, done, up,
                 unretried>>

\* Mutant: the marker of the window that was taken over stays.
KeepStaleMarker(w) ==
  /\ pc[w] = "takeover"
  /\ pc' = [pc EXCEPT ![w] = "check"]
  /\ todo' = [todo EXCEPT ![w] = @ \ {cur[w]}]
  /\ UNCHANGED <<opt, failed, cur, at, tries, orphan, wdVars, fileVars, up, unretried>>

ClearMarker(w) ==
  /\ pc[w] = "takeover"
  /\ pc' = [pc EXCEPT ![w] = "check"]
  /\ todo' = [todo EXCEPT ![w] = @ \ {cur[w]}]
  /\ active' = [active EXCEPT ![cur[w]] = NoRunner]
  /\ UNCHANGED <<opt, failed, cur, at, tries, orphan, wdVars, hold, wdfile, done, up, unretried>>

(***************************************************************************)
(* arm_watchdog: ACTIVE, then the process, then its recorded pid.          *)
(***************************************************************************)
WriteActive(w) ==
  /\ pc[w] = "check" /\ todo[w] = {}
  /\ pc' = [pc EXCEPT ![w] = "spawn"]
  /\ active' = [active EXCEPT ![LabelOf[w]] = w]
  /\ UNCHANGED <<opt, failed, todo, cur, at, tries, orphan, wdVars, hold, wdfile, done, up,
                 unretried>>

SpawnWatchdog(w) ==
  /\ pc[w] = "spawn"
  /\ pc' = [pc EXCEPT ![w] = "record"]
  /\ wd' = [wd EXCEPT ![w] = "poll"]
  /\ UNCHANGED <<opt, failed, todo, cur, at, tries, orphan, expired, fileVars, up, unretried>>

RecordWatchdog(w) ==
  /\ pc[w] = "record"
  /\ pc' = [pc EXCEPT ![w] = "stages"]
  /\ wdfile' = [wdfile EXCEPT ![LabelOf[w]] = w]
  /\ UNCHANGED <<opt, failed, todo, cur, at, tries, orphan, wdVars, active, hold, done, up,
                 unretried>>

(***************************************************************************)
(* The stage loop.                                                         *)
(***************************************************************************)
InStage(w) == pc[w] = "stages" /\ at[w] <= Len(Stages)
StageDone(w) == Stages[at[w]] \in done[LabelOf[w]]

SkipStage(w) ==
  /\ InStage(w) /\ StageDone(w)
  /\ at' = [at EXCEPT ![w] = @ + 1]
  /\ UNCHANGED <<pc, opt, failed, todo, cur, tries, orphan, wdVars, fileVars, up, unretried>>

\* 02_deploy_infra.sh, inside stage_deploy: terraform apply is idempotent.
CreateCluster(w) ==
  /\ InStage(w) /\ ~StageDone(w)
  /\ Stages[at[w]] = "deploy"
  /\ ~up /\ up' = TRUE
  /\ UNCHANGED <<runnerVars, wdVars, fileVars, unretried>>

\* stage_deploy returns only after the serving rollout; the other stages can end
\* well whatever the cluster does, since 05 and 07 tolerate failed measurements.
PassStage(w) ==
  /\ InStage(w) /\ ~StageDone(w)
  /\ Stages[at[w]] = "deploy" => up
  /\ done' = [done EXCEPT ![LabelOf[w]] = @ \union {Stages[at[w]]}]
  /\ at' = [at EXCEPT ![w] = @ + 1]
  /\ UNCHANGED <<pc, opt, failed, todo, cur, tries, orphan, wdVars, active, hold, wdfile, up,
                 unretried>>

\* set -e ends the script with the stage's exit code.
FailStage(w) ==
  /\ InStage(w) /\ ~StageDone(w)
  /\ pc' = [pc EXCEPT ![w] = "exit"]
  /\ failed' = [failed EXCEPT ![w] = TRUE]
  /\ UNCHANGED <<opt, todo, cur, at, tries, orphan, wdVars, fileVars, up, unretried>>

AllStagesDone(w) ==
  /\ pc[w] = "stages" /\ at[w] > Len(Stages)
  /\ pc' = [pc EXCEPT ![w] = "exit"]
  /\ UNCHANGED <<opt, failed, todo, cur, at, tries, orphan, wdVars, fileVars, up, unretried>>

\* The INT and TERM traps: exit 130 or 143.  A TERM from the runner's own watchdog
\* takes effect in the stage loop whatever the operator does.
Interrupt(w) ==
  /\ \/ pc[w] \in InterruptPoints
     \/ pc[w] = "stages" /\ wd[w] = "term"
  /\ pc' = [pc EXCEPT ![w] = "exit"]
  /\ failed' = [failed EXCEPT ![w] = TRUE]
  /\ UNCHANGED <<opt, todo, cur, at, tries, orphan, wdVars, fileVars, up, unretried>>

(***************************************************************************)
(* on_exit and do_teardown.                                                *)
(***************************************************************************)
KeepCluster(w) ==
  /\ pc[w] = "exit" /\ opt[w].keep
  /\ pc' = [pc EXCEPT ![w] = "unmark"]
  /\ UNCHANGED <<opt, failed, todo, cur, at, tries, orphan, wdVars, fileVars, up, unretried>>

HoldCluster(w) ==
  /\ pc[w] = "exit" /\ ~opt[w].keep
  /\ failed[w] /\ opt[w].hold
  /\ pc' = [pc EXCEPT ![w] = "unmark"]
  /\ hold' = [hold EXCEPT ![LabelOf[w]] = TRUE]
  /\ UNCHANGED <<opt, failed, todo, cur, at, tries, orphan, wdVars, active, wdfile, done, up,
                 unretried>>

BeginTeardown(w) ==
  /\ pc[w] = "exit" /\ ~opt[w].keep
  /\ ~(failed[w] /\ opt[w].hold)
  /\ pc' = [pc EXCEPT ![w] = "teardown"]
  /\ UNCHANGED <<opt, failed, todo, cur, at, tries, orphan, wdVars, fileVars, up, unretried>>

\* 06_destroy_all.sh fails at once when another terraform holds the state lock: one
\* of another runner, of another watchdog or of an orphaned child.
LockHeldByOther(w) ==
  \/ \E v \in Runners : orphan[v] # "none"
  \/ \E v \in Runners \ {w} : pc[v] = "teardown" \/ wd[v] = "destroy"

TeardownSucceeds(w) ==
  /\ pc[w] = "teardown"
  /\ pc' = [pc EXCEPT ![w] = "unmark"]
  /\ up' = FALSE
  /\ UNCHANGED <<opt, failed, todo, cur, at, tries, orphan, wdVars, fileVars, unretried>>

\* for attempt in 1 2 3: each failure is followed by a sleep.
TeardownFails(w) ==
  /\ pc[w] = "teardown"
  /\ tries[w] < MaxRetriedFailures \/ LockHeldByOther(w)
  /\ tries' = [tries EXCEPT ![w] = @ + 1]
  /\ pc' = [pc EXCEPT ![w] = "retry"]
  /\ UNCHANGED <<opt, failed, todo, cur, at, orphan, wdVars, fileVars, up, unretried>>

\* Mutant: one attempt too many.
FourAttempts(w) ==
  /\ pc[w] = "retry"
  /\ pc' = [pc EXCEPT ![w] = IF tries[w] > 3 THEN "unmark" ELSE "teardown"]
  /\ UNCHANGED <<opt, failed, todo, cur, at, tries, orphan, wdVars, fileVars, up, unretried>>

RetryTeardown(w) ==
  /\ pc[w] = "retry"
  /\ pc' = [pc EXCEPT ![w] = IF tries[w] = 3 THEN "unmark" ELSE "teardown"]
  /\ UNCHANGED <<opt, failed, todo, cur, at, tries, orphan, wdVars, fileVars, up, unretried>>

\* Mutant: ACTIVE is dropped in front of a held cluster too.
DropAlways(w) ==
  /\ pc[w] = "unmark"
  /\ pc' = [pc EXCEPT ![w] = "done"]
  /\ active' = [active EXCEPT ![LabelOf[w]] = NoRunner]
  /\ UNCHANGED <<opt, failed, todo, cur, at, tries, orphan, wdVars, hold, wdfile, done, up,
                 unretried>>

\* ACTIVE is dropped, whatever it contains, unless this label is held.
DropMarker(w) ==
  /\ pc[w] = "unmark"
  /\ pc' = [pc EXCEPT ![w] = "done"]
  /\ active' = IF hold[LabelOf[w]] THEN active ELSE [active EXCEPT ![LabelOf[w]] = NoRunner]
  /\ UNCHANGED <<opt, failed, todo, cur, at, tries, orphan, wdVars, hold, wdfile, done, up,
                 unretried>>

(***************************************************************************)
(* Death of a runner.  Its foreground child survives kill -9.              *)
(***************************************************************************)
Orphans(w) ==
  IF pc[w] = "teardown" THEN {"destroy"}
  ELSE IF /\ InStage(w) /\ ~StageDone(w) /\ Stages[at[w]] = "deploy"
          /\ KillDuringCreate
       THEN {"none", "create"}
       ELSE {"none"}

Die(w) ==
  /\ pc' = [pc EXCEPT ![w] = "dead"]
  /\ \E child \in Orphans(w) : orphan' = [orphan EXCEPT ![w] = child]

Kill(w) ==
  /\ Alive(w) /\ pc[w] \in KillPoints
  /\ Die(w)
  /\ UNCHANGED <<opt, failed, todo, cur, at, tries, wdVars, fileVars, up, unretried>>

OrphanSucceeds(w) ==
  /\ orphan[w] # "none"
  /\ up' = (orphan[w] = "create")
  /\ orphan' = [orphan EXCEPT ![w] = "none"]
  /\ UNCHANGED <<pc, opt, failed, todo, cur, at, tries, wdVars, fileVars, unretried>>

OrphanFails(w) ==
  /\ orphan[w] # "none"
  /\ unretried < MaxUnretriedFailures
  /\ unretried' = unretried + 1
  /\ orphan' = [orphan EXCEPT ![w] = "none"]
  /\ UNCHANGED <<pc, opt, failed, todo, cur, at, tries, wdVars, fileVars, up>>

(***************************************************************************)
(* The watchdog.                                                           *)
(***************************************************************************)
owns_cluster(w) ==
  LET current == active[LabelOf[w]] IN
  /\ current # NoRunner
  /\ current = w \/ ~Alive(current)
  /\ \A other \in Labels \ {LabelOf[w]} : active[other] = NoRunner

\* The watchdog sleeps 60 s before it first looks at the clock; the runner records
\* its pid in the instant after spawning it.
Deadline(w) ==
  /\ WatchdogAlive(w) /\ ~expired[w]
  /\ pc[w] # "record"
  /\ expired' = [expired EXCEPT ![w] = TRUE]
  /\ UNCHANGED <<runnerVars, wd, fileVars, up, unretried>>

\* exit 0 from any of the loop's branches when owns_cluster says no.
StandDown(w) ==
  /\ \/ wd[w] = "poll" /\ expired[w]
     \/ wd[w] = "poll" /\ ~Alive(w) /\ hold[LabelOf[w]]
     \/ wd[w] = "grace"
  /\ ~owns_cluster(w)
  /\ wd' = [wd EXCEPT ![w] = "exited"]
  /\ UNCHANGED <<runnerVars, expired, fileVars, up, unretried>>

\* Mutant: the deadline is enforced only once the runner is gone.
TermWhenGone(w) ==
  /\ wd[w] = "poll" /\ expired[w] /\ owns_cluster(w) /\ ~Alive(w)
  /\ wd' = [wd EXCEPT ![w] = "term"]
  /\ UNCHANGED <<runnerVars, expired, fileVars, up, unretried>>

\* Deadline branch: TERM the runner, wait 120 s ...
TermRunner(w) ==
  /\ wd[w] = "poll" /\ expired[w] /\ owns_cluster(w)
  /\ wd' = [wd EXCEPT ![w] = "term"]
  /\ UNCHANGED <<runnerVars, expired, fileVars, up, unretried>>

\* ... then KILL it.
KillRunner(w) ==
  /\ wd[w] = "term"
  /\ wd' = [wd EXCEPT ![w] = "confirm"]
  /\ IF Alive(w) THEN Die(w) ELSE UNCHANGED <<pc, orphan>>
  /\ UNCHANGED <<opt, failed, todo, cur, at, tries, expired, fileVars, up, unretried>>

\* Mutant: HOLD is not looked at.
IgnoreHold(w) ==
  /\ wd[w] = "poll" /\ ~expired[w]
  /\ ~Alive(w)
  /\ wd' = [wd EXCEPT ![w] = "grace"]
  /\ UNCHANGED <<runnerVars, expired, fileVars, up, unretried>>

\* The runner is gone without a HOLD: 300 s of grace.
RunnerGone(w) ==
  /\ wd[w] = "poll" /\ ~expired[w]
  /\ ~Alive(w) /\ ~hold[LabelOf[w]]
  /\ wd' = [wd EXCEPT ![w] = "grace"]
  /\ UNCHANGED <<runnerVars, expired, fileVars, up, unretried>>

GraceOver(w) ==
  /\ wd[w] = "grace" /\ owns_cluster(w)
  /\ wd' = [wd EXCEPT ![w] = "confirm"]
  /\ UNCHANGED <<runnerVars, expired, fileVars, up, unretried>>

\* The runner is gone and left HOLD, but the cluster was destroyed out of band.
HeldClusterGone(w) ==
  /\ wd[w] = "poll" /\ ~expired[w]
  /\ ~Alive(w) /\ hold[LabelOf[w]]
  /\ owns_cluster(w) /\ ~up
  /\ wd' = [wd EXCEPT ![w] = "exited"]
  /\ active' = [active EXCEPT ![LabelOf[w]] = NoRunner]
  /\ UNCHANGED <<runnerVars, expired, hold, wdfile, done, up, unretried>>

\* if cluster_up; then force_destroy; else log ...; fi
ClusterAlreadyGone(w) ==
  /\ wd[w] = "confirm" /\ ~up
  /\ wd' = [wd EXCEPT ![w] = "exited"]
  /\ active' = [active EXCEPT ![LabelOf[w]] = NoRunner]
  /\ UNCHANGED <<runnerVars, expired, hold, wdfile, done, up, unretried>>

BeginForceDestroy(w) ==
  /\ wd[w] = "confirm" /\ up
  /\ wd' = [wd EXCEPT ![w] = "destroy"]
  /\ UNCHANGED <<runnerVars, expired, fileVars, up, unretried>>

\* One attempt; its exit code is logged and ACTIVE is dropped either way.
ForceDestroySucceeds(w) ==
  /\ wd[w] = "destroy"
  /\ wd' = [wd EXCEPT ![w] = "exited"]
  /\ active' = [active EXCEPT ![LabelOf[w]] = NoRunner]
  /\ up' = FALSE
  /\ UNCHANGED <<runnerVars, expired, hold, wdfile, done, unretried>>

ForceDestroyFails(w) ==
  /\ wd[w] = "destroy"
  /\ \/ LockHeldByOther(w) /\ UNCHANGED unretried
     \/ unretried < MaxUnretriedFailures /\ unretried' = unretried + 1
  /\ wd' = [wd EXCEPT ![w] = "exited"]
  /\ active' = [active EXCEPT ![LabelOf[w]] = NoRunner]
  /\ UNCHANGED <<runnerVars, expired, hold, wdfile, done, up>>

(***************************************************************************)
(* FORCE_DESTROY=true ./scripts/06_destroy_all.sh by hand on a held window.*)
(***************************************************************************)
DestroyByHand(l) ==
  /\ hold[l] /\ up
  /\ \A v \in Runners : ~Alive(v)
  /\ up' = FALSE
  /\ UNCHANGED <<runnerVars, wdVars, fileVars, unretried>>

-----------------------------------------------------------------------------
Starts(w) ==
  \/ \E l \in Labels : SkipVanished(w, l) \/ RefuseToStart(w, l) \/ stop_stale_watchdog(w, l)
  \/ ReleaseHold(w) \/ ClearMarker(w) \/ WriteActive(w) \/ SpawnWatchdog(w) \/ RecordWatchdog(w)

RunsStages(w) ==
  SkipStage(w) \/ CreateCluster(w) \/ PassStage(w) \/ FailStage(w) \/ AllStagesDone(w)

Exits(w) ==
  \/ KeepCluster(w) \/ HoldCluster(w) \/ BeginTeardown(w)
  \/ TeardownSucceeds(w) \/ TeardownFails(w) \/ RetryTeardown(w) \/ DropMarker(w)

Watches(w) ==
  \/ StandDown(w) \/ TermRunner(w) \/ KillRunner(w) \/ RunnerGone(w) \/ GraceOver(w)
  \/ HeldClusterGone(w) \/ ClusterAlreadyGone(w) \/ BeginForceDestroy(w)
  \/ ForceDestroySucceeds(w) \/ ForceDestroyFails(w)

OrphanEnds(w) == OrphanSucceeds(w) \/ OrphanFails(w)

Next ==
  \/ \E w \in Runners :
       \/ \E o \in Options : Launch(w, o)
       \/ Starts(w) \/ RunsStages(w) \/ Interrupt(w) \/ Exits(w) \/ Kill(w)
       \/ OrphanEnds(w) \/ Deadline(w) \/ Watches(w)
  \/ \E l \in Labels : DestroyByHand(l)

Spec == Init /\ [][Next]_vars

\* What the scheduling justifies: local file operations and the exit trap run to
\* their end, an orphaned child ends, the clock advances and the watchdog polls.
\* Nothing is assumed of the stages: a stage may hang for ever.
Fairness ==
  \A w \in Runners :
    /\ WF_vars(Starts(w) \/ Exits(w))
    /\ WF_vars(OrphanEnds(w))
    /\ WF_vars(Deadline(w))
    /\ WF_vars(Watches(w))

FairSpec == Spec /\ Fairness

-----------------------------------------------------------------------------
(***************************************************************************)
(* Properties.                                                             *)
(***************************************************************************)

TypeOK ==
  /\ pc \in [Runners -> ProgramPoints]
  /\ opt \in [Runners -> OptionRecords]
  /\ failed \in [Runners -> BOOLEAN]
  /\ todo \in [Runners -> SUBSET Labels]
  /\ cur \in [Runners -> Labels]
  /\ at \in [Runners -> 1 .. Len(Stages) + 1]
  /\ tries \in [Runners -> 0 .. 3]
  /\ orphan \in [Runners -> {"none", "create", "destroy"}]
  /\ wd \in [Runners -> WatchdogPoints]
  /\ expired \in [Runners -> BOOLEAN]
  /\ active \in [Labels -> Runners \union {NoRunner}]
  /\ hold \in [Labels -> BOOLEAN]
  /\ wdfile \in [Labels -> Runners \union {NoRunner}]
  /\ done \in [Labels -> SUBSET {Stages[i] : i \in DOMAIN Stages}]
  /\ up \in BOOLEAN
  /\ unretried \in 0 .. MaxUnretriedFailures

\* Only one window may own the cluster: at most one label has an ACTIVE file.
SoleMarker ==
  \A k, l \in Labels : active[k] # NoRunner /\ active[l] # NoRunner => k = l

\* The watchdog of w is running and its marker is in place.
Armed(w) == WatchdogAlive(w) /\ active[LabelOf[w]] = w

\* w has passed assert_sole_owner, or is clearing the one stale window that was
\* left, and is on its way to arm its own watchdog.
TakingOver(w) ==
  \/ pc[w] \in {"release", "takeover"}
  \/ pc[w] \in Starting /\ todo[w] = {}

\* --keep-cluster: w ran its window and left the cluster up on request.
Kept(w) == opt[w].keep /\ pc[w] = "done" /\ wd[w] # "off"

\* A billing cluster that nobody asked to keep has somebody responsible for it.
Guarded ==
  up => \E w \in Runners :
          \/ Armed(w)
          \/ TakingOver(w)
          \/ pc[w] \in {"teardown", "retry"}
          \/ wd[w] \in {"term", "confirm", "destroy"}
          \/ orphan[w] = "destroy"
          \/ Kept(w)

\* The watchdog of w starts a destroy while another window owns the cluster.
StartsDestroy(w) == wd[w] # "destroy" /\ wd'[w] = "destroy"
Succeeded(w) == \E v \in Runners \ {w} : pc[v] \in {"spawn", "record", "stages"}

\* A watchdog whose runner died, and whose own deadline has not come, never starts
\* a destroy once another window has armed.
WatchdogSparesSuccessor ==
  [][\A w \in Runners : StartsDestroy(w) /\ ~expired[w] => ~Succeeded(w)]_vars

\* A held cluster is destroyed by the watchdog at the deadline and not before.
HoldHonoured ==
  [][\A w \in Runners : StartsDestroy(w) => expired[w] \/ ~hold[LabelOf[w]]]_vars

\* The window is resumable: a runner that goes on from the deploy, completed now or in
\* an earlier run of its label, to a measurement it still has to make has a cluster.
ResumesOnCluster ==
  [][\A w \in Runners :
       at[w] = 1 /\ at'[w] = 2 /\ Len(Stages) > 1 /\ Stages[2] \notin done[LabelOf[w]] => up]_vars

\* A HOLD left in front of a billing cluster goes away only with the consent of
\* the operator (RESUME_HELD_WINDOW=1), if no label is launched twice.
HoldNeedsConsent ==
  [][\A l \in Labels : hold[l] /\ ~hold'[l] /\ up
                        /\ active[l] # NoRunner /\ ~Alive(active[l]) =>
       \E w \in Runners : opt'[w].resume /\ pc[w] # pc'[w]]_vars

\* Nobody takes the cluster away from a window that is running its stages.
LiveWindowKeepsCluster ==
  [][up /\ ~up' => \A v \in Runners : pc[v] # "stages"]_vars

\* w left the cluster up on request, and nobody has anything to do with it any more.
LeftUp(w) == Kept(w) /\ \A v \in Runners : ~Alive(v) /\ ~WatchdogAlive(v)

\* The meter does not run for ever, unless the operator asked for it and the windows
\* started since are over as well: a kept cluster that a later window has taken over
\* is destroyed by that window or by its watchdog.
BoundedBilling == up ~> ~up \/ \E w \in Runners : LeftUp(w)
=============================================================================
