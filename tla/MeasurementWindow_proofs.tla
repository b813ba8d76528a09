---------------------- MODULE MeasurementWindow_proofs ----------------------
(***************************************************************************)
(* What TLAPS proves of MeasurementWindow, for any set of runners, labels, *)
(* stages and options.                                                     *)
(***************************************************************************)
EXTENDS MeasurementWindow, TLAPS

\* do_teardown gives up after its third attempt, so a runner that has failed three
\* times is past the loop: TypeOK needs it to keep tries within bounds.
TriesBounded ==
  \A w \in Runners : tries[w] = 3 => pc[w] \in {"retry", "unmark", "done", "dead"}

LEMMA LenStages == Len(Stages) \in Nat \ {0}
BY ConstantsAssumption

\* What becomes of a runner and of its child when the runner is killed.
LEMMA DieTyped ==
  ASSUME TypeOK, NEW w \in Runners, Die(w)
  PROVE  /\ pc' = [pc EXCEPT ![w] = "dead"]
         /\ orphan' \in [Runners -> {"none", "create", "destroy"}]
<1>1. PICK child \in Orphans(w) : orphan' = [orphan EXCEPT ![w] = child]
  BY DEF Die
<1>2. child \in {"none", "create", "destroy"}
  BY <1>1 DEF Orphans
<1> QED BY <1>1, <1>2 DEF Die, TypeOK

-----------------------------------------------------------------------------
\* Type correctness: every reachable state of the script's variables, marker files
\* and the cluster is one the module declares, for every value of the constants.
LEMMA TypeInvariant == Spec => [](TypeOK /\ TriesBounded)
<1> USE ConstantsAssumption DEF OptionRecords, ProgramPoints, Starting, Exiting, WatchdogPoints
<1>1. Init => TypeOK /\ TriesBounded
  <2> SUFFICES ASSUME Init PROVE TypeOK /\ TriesBounded
    OBVIOUS
  <2>1. at \in [Runners -> 1 .. Len(Stages) + 1]
    BY LenStages DEF Init
  <2>2. done \in [Labels -> SUBSET {Stages[i] : i \in DOMAIN Stages}]
    BY DEF Init
  <2>3. cur \in [Runners -> Labels]
    BY DEF Init
  <2>4. unretried \in 0 .. MaxUnretriedFailures
    BY DEF Init
  <2>5. opt \in [Runners -> OptionRecords]
    BY DEF Init
  <2>6. /\ pc \in [Runners -> ProgramPoints]
        /\ orphan \in [Runners -> {"none", "create", "destroy"}]
        /\ wd \in [Runners -> WatchdogPoints]
    BY DEF Init
  <2>7. failed \in [Runners -> BOOLEAN]
    BY DEF Init
  <2>8. expired \in [Runners -> BOOLEAN]
    BY DEF Init
  <2>9. hold \in [Labels -> BOOLEAN]
    BY DEF Init
  <2>10. up \in BOOLEAN
    BY DEF Init
  <2>11. /\ todo \in [Runners -> SUBSET Labels]
        /\ tries \in [Runners -> 0 .. 3]
        /\ active \in [Labels -> Runners \union {NoRunner}]
        /\ wdfile \in [Labels -> Runners \union {NoRunner}]
    BY DEF Init
  <2>12. TriesBounded
    BY DEF Init, TriesBounded
  <2> QED
    BY <2>1, <2>2, <2>3, <2>4, <2>5, <2>6, <2>7, <2>8, <2>9, <2>10, <2>11, <2>12 DEF TypeOK
<1>2. TypeOK /\ TriesBounded /\ [Next]_vars => TypeOK'
  <2> SUFFICES ASSUME TypeOK, TriesBounded, [Next]_vars PROVE TypeOK'
    OBVIOUS
  <2> USE DEF TypeOK
  <2>1. ASSUME NEW w \in Runners, NEW o \in Options, Launch(w, o) PROVE TypeOK'
    BY <2>1 DEF Launch, wdVars
  <2>2. ASSUME NEW w \in Runners, Starts(w) PROVE TypeOK'
    <3>1. ASSUME NEW l \in Labels, SkipVanished(w, l) PROVE TypeOK'
      BY <3>1 DEF SkipVanished, wdVars, fileVars
    <3>2. ASSUME NEW l \in Labels, RefuseToStart(w, l) PROVE TypeOK'
      BY <3>2 DEF RefuseToStart, wdVars, fileVars
    <3>3. ASSUME NEW l \in Labels, stop_stale_watchdog(w, l) PROVE TypeOK'
      <4>1. wd' \in [Runners -> WatchdogPoints] /\ orphan' \in [Runners -> {"none", "create", "destroy"}]
        BY <3>3 DEF stop_stale_watchdog
      <4> QED BY <3>3, <4>1 DEF stop_stale_watchdog
    <3>4. CASE ClearMarker(w)
      BY <3>4 DEF ClearMarker, wdVars
    <3>5. CASE WriteActive(w)
      BY <3>5 DEF WriteActive, wdVars
    <3>6. CASE SpawnWatchdog(w)
      BY <3>6 DEF SpawnWatchdog, fileVars
    <3>7. CASE RecordWatchdog(w)
      BY <3>7 DEF RecordWatchdog, wdVars
    <3>8. CASE ReleaseHold(w)
      BY <3>8 DEF ReleaseHold, wdVars
    <3> QED BY <2>2, <3>1, <3>2, <3>3, <3>4, <3>5, <3>6, <3>7, <3>8 DEF Starts
  <2>3. ASSUME NEW w \in Runners, RunsStages(w) PROVE TypeOK'
    <3>1. CASE SkipStage(w)
      BY <3>1 DEF SkipStage, InStage, wdVars, fileVars
    <3>2. CASE CreateCluster(w)
      BY <3>2 DEF CreateCluster, runnerVars, wdVars, fileVars
    <3>3. CASE PassStage(w)
      <4>1. at[w] \in DOMAIN Stages /\ at[w] + 1 \in 1 .. Len(Stages) + 1
        BY <3>3 DEF PassStage, InStage
      <4>2. done' \in [Labels -> SUBSET {Stages[i] : i \in DOMAIN Stages}]
        BY <3>3, <4>1 DEF PassStage
      <4> QED BY <3>3, <4>1, <4>2 DEF PassStage, wdVars
    <3>4. CASE FailStage(w)
      BY <3>4 DEF FailStage, wdVars, fileVars
    <3>5. CASE AllStagesDone(w)
      BY <3>5 DEF AllStagesDone, wdVars, fileVars
    <3> QED BY <2>3, <3>1, <3>2, <3>3, <3>4, <3>5 DEF RunsStages
  <2>4. ASSUME NEW w \in Runners, Interrupt(w) PROVE TypeOK'
    BY <2>4 DEF Interrupt, wdVars, fileVars
  <2>5. ASSUME NEW w \in Runners, Exits(w) PROVE TypeOK'
    <3>1. CASE KeepCluster(w)
      BY <3>1 DEF KeepCluster, wdVars, fileVars
    <3>2. CASE HoldCluster(w)
      BY <3>2 DEF HoldCluster, wdVars
    <3>3. CASE BeginTeardown(w)
      BY <3>3 DEF BeginTeardown, wdVars, fileVars
    <3>4. CASE TeardownSucceeds(w)
      BY <3>4 DEF TeardownSucceeds, wdVars, fileVars
    <3>5. CASE TeardownFails(w)
      <4>1. tries[w] \in 0 .. 3 /\ tries[w] # 3
        BY <3>5 DEF TriesBounded, TeardownFails
      <4>2. /\ tries' \in [Runners -> 0 .. 3]
            /\ pc' \in [Runners -> ProgramPoints]
        BY <3>5, <4>1 DEF TeardownFails
      <4> QED BY <3>5, <4>2 DEF TeardownFails, wdVars, fileVars
    <3>6. CASE DropMarker(w)
      BY <3>6 DEF DropMarker, wdVars
    <3>7. CASE RetryTeardown(w)
      BY <3>7 DEF RetryTeardown, wdVars, fileVars
    <3> QED BY <2>5, <3>1, <3>2, <3>3, <3>4, <3>5, <3>6, <3>7 DEF Exits
  <2>6. ASSUME NEW w \in Runners, Kill(w) PROVE TypeOK'
    <3>1. Die(w) /\ w \in Runners
      BY <2>6 DEF Kill
    <3>2. /\ pc' \in [Runners -> ProgramPoints]
          /\ orphan' \in [Runners -> {"none", "create", "destroy"}]
      BY <3>1, DieTyped
    <3>3. UNCHANGED <<opt, failed, todo, cur, at, tries, wd, expired, active, hold, wdfile, done,
                      up, unretried>>
      BY <2>6 DEF Kill, wdVars, fileVars
    <3> QED BY <3>2, <3>3
  <2>7. ASSUME NEW w \in Runners, OrphanEnds(w) PROVE TypeOK'
    <3>1. orphan' \in [Runners -> {"none", "create", "destroy"}]
      BY <2>7 DEF OrphanEnds, OrphanSucceeds, OrphanFails
    <3>2. CASE OrphanSucceeds(w)
      BY <3>1, <3>2 DEF OrphanSucceeds, wdVars, fileVars
    <3>3. CASE OrphanFails(w)
      <4>1. unretried' \in 0 .. MaxUnretriedFailures
        BY <3>3 DEF OrphanFails
      <4> QED BY <3>1, <3>3, <4>1 DEF OrphanFails, wdVars, fileVars
    <3> QED BY <2>7, <3>2, <3>3 DEF OrphanEnds
  <2>8. ASSUME NEW w \in Runners, Deadline(w) PROVE TypeOK'
    BY <2>8 DEF Deadline, runnerVars, fileVars
  <2>9. ASSUME NEW w \in Runners, Watches(w) PROVE TypeOK'
    <3>1. CASE StandDown(w) \/ TermRunner(w) \/ RunnerGone(w) \/ GraceOver(w)
               \/ BeginForceDestroy(w)
      BY <3>1 DEF StandDown, TermRunner, RunnerGone, GraceOver, BeginForceDestroy,
                  runnerVars, fileVars
    <3>2. CASE KillRunner(w)
      <4>1. Die(w) \/ UNCHANGED <<pc, orphan>>
        BY <3>2 DEF KillRunner
      <4>2. wd' \in [Runners -> WatchdogPoints]
        BY <3>2 DEF KillRunner
      <4>3. /\ pc' \in [Runners -> ProgramPoints]
            /\ orphan' \in [Runners -> {"none", "create", "destroy"}]
        BY <4>1, DieTyped
      <4>4. UNCHANGED <<opt, failed, todo, cur, at, tries, expired, active, hold, wdfile, done,
                        up, unretried>>
        BY <3>2 DEF KillRunner, fileVars
      <4> QED BY <4>2, <4>3, <4>4
    <3>3. CASE HeldClusterGone(w) \/ ClusterAlreadyGone(w) \/ ForceDestroySucceeds(w)
      BY <3>3 DEF HeldClusterGone, ClusterAlreadyGone, ForceDestroySucceeds, runnerVars
    <3>4. CASE ForceDestroyFails(w)
      BY <3>4 DEF ForceDestroyFails, runnerVars
    <3> QED BY <2>9, <3>1, <3>2, <3>3, <3>4 DEF Watches
  <2>10. ASSUME NEW l \in Labels, DestroyByHand(l) PROVE TypeOK'
    BY <2>10 DEF DestroyByHand, runnerVars, wdVars, fileVars
  <2>11. CASE UNCHANGED vars
    BY <2>11 DEF vars, runnerVars, wdVars, fileVars
  <2> QED
    BY <2>1, <2>2, <2>3, <2>4, <2>5, <2>6, <2>7, <2>8, <2>9, <2>10, <2>11 DEF Next
<1>3. TypeOK /\ TriesBounded /\ [Next]_vars => TriesBounded'
  <2> SUFFICES ASSUME TypeOK, TriesBounded, [Next]_vars,
                      NEW v \in Runners, tries'[v] = 3
               PROVE  pc'[v] \in {"retry", "unmark", "done", "dead"}
    BY DEF TriesBounded
  <2> USE DEF TypeOK, TriesBounded
  <2>1. ASSUME NEW w \in Runners, Starts(w) \/ RunsStages(w) \/ Interrupt(w)
        PROVE  pc'[v] \in {"retry", "unmark", "done", "dead"}
    <3>1. tries' = tries /\ pc[w] \in Starting \union {"stages"}
      BY <2>1 DEF Starts, SkipVanished, RefuseToStart, stop_stale_watchdog, ReleaseHold,
                  ClearMarker, WriteActive, SpawnWatchdog, RecordWatchdog, RunsStages, SkipStage,
                  CreateCluster, PassStage, FailStage, AllStagesDone, Interrupt, InStage,
                  runnerVars
    <3>2. \A u \in Runners \ {w} : pc'[u] = pc[u]
      BY <2>1 DEF Starts, SkipVanished, RefuseToStart, stop_stale_watchdog, ReleaseHold,
                  ClearMarker, WriteActive, SpawnWatchdog, RecordWatchdog, RunsStages, SkipStage,
                  CreateCluster, PassStage, FailStage, AllStagesDone, Interrupt, runnerVars
    <3> QED BY <3>1, <3>2
  <2>2. ASSUME NEW w \in Runners, NEW o \in Options, Launch(w, o)
        PROVE  pc'[v] \in {"retry", "unmark", "done", "dead"}
    BY <2>2 DEF Launch
  <2>3. ASSUME NEW w \in Runners, Exits(w) PROVE pc'[v] \in {"retry", "unmark", "done", "dead"}
    <3>1. CASE TeardownFails(w)
      BY <3>1 DEF TeardownFails
    <3>2. CASE Exits(w) /\ ~TeardownFails(w)
      <4>1. tries' = tries
        BY <3>2 DEF Exits, KeepCluster, HoldCluster, BeginTeardown, TeardownSucceeds,
                    RetryTeardown, DropMarker
      <4>2. \/ pc[w] = "unmark" /\ pc'[w] = "done"
            \/ pc[w] = "retry" /\ (tries[w] = 3 => pc'[w] = "unmark")
            \/ pc[w] \in {"exit", "teardown"}
        BY <3>2 DEF Exits, KeepCluster, HoldCluster, BeginTeardown, TeardownSucceeds,
                    RetryTeardown, DropMarker
      <4>3. \A u \in Runners \ {w} : pc'[u] = pc[u]
        BY <3>2 DEF Exits, KeepCluster, HoldCluster, BeginTeardown, TeardownSucceeds,
                    RetryTeardown, DropMarker
      <4> QED BY <4>1, <4>2, <4>3
    <3> QED BY <2>3, <3>1, <3>2
  <2>4. ASSUME NEW w \in Runners, Kill(w) PROVE pc'[v] \in {"retry", "unmark", "done", "dead"}
    BY <2>4 DEF Kill, Die
  <2>5. ASSUME NEW w \in Runners, OrphanEnds(w) \/ Deadline(w)
        PROVE  pc'[v] \in {"retry", "unmark", "done", "dead"}
    BY <2>5 DEF OrphanEnds, OrphanSucceeds, OrphanFails, Deadline, runnerVars
  <2>6. ASSUME NEW w \in Runners, Watches(w) PROVE pc'[v] \in {"retry", "unmark", "done", "dead"}
    <3>1. CASE KillRunner(w)
      <4>1. tries' = tries /\ (pc' = pc \/ pc' = [pc EXCEPT ![w] = "dead"])
        BY <3>1 DEF KillRunner, Die
      <4> QED BY <4>1
    <3> QED BY <2>6, <3>1
            DEF Watches, StandDown, TermRunner, RunnerGone, GraceOver, HeldClusterGone,
                ClusterAlreadyGone, BeginForceDestroy, ForceDestroySucceeds,
                ForceDestroyFails, runnerVars
  <2>7. CASE (\E l \in Labels : DestroyByHand(l)) \/ UNCHANGED vars
    BY <2>7 DEF DestroyByHand, vars, runnerVars
  <2> QED BY <2>1, <2>2, <2>3, <2>4, <2>5, <2>6, <2>7 DEF Next
<1> QED BY <1>1, <1>2, <1>3, PTL DEF Spec

THEOREM TypeCorrect == Spec => []TypeOK
BY TypeInvariant, PTL

-----------------------------------------------------------------------------
(***************************************************************************)
(* SoleMarker.  assert_sole_owner and arm_watchdog are a check followed by *)
(* a write, so the property rests on the operator not starting two windows *)
(* at the same moment, and then on what the check has seen.                *)
(***************************************************************************)

\* At most one runner is between its launch and its stage loop.
OneStarts == \A u, v \in Runners : pc[u] \in Starting /\ pc[v] \in Starting => u = v

\* A runner that is still checking has every ACTIVE file on its list.
AllListed ==
  \A w \in Runners : pc[w] \in {"check", "release", "takeover"} =>
    \A l \in Labels : active[l] # NoRunner => l \in todo[w]

MarkerInv == OneStarts /\ AllListed /\ SoleMarker

\* A step that starts no runner, moves none back into the check, writes no ACTIVE
\* file and takes nothing off a list.
Quiet ==
  /\ \A u \in Runners : pc'[u] \in Starting => pc[u] \in Starting
  /\ \A u \in Runners : pc'[u] \in {"check", "release", "takeover"} =>
                          pc[u] \in {"check", "release", "takeover"} /\ todo'[u] = todo[u]
  /\ \A l \in Labels : active'[l] # NoRunner => active[l] # NoRunner

LEMMA QuietPreserves == MarkerInv /\ Quiet => MarkerInv'
BY DEF MarkerInv, OneStarts, AllListed, SoleMarker, Quiet

LEMMA MarkerInit == Init => MarkerInv
BY DEF Init, MarkerInv, OneStarts, AllListed, SoleMarker, Starting

\* The four steps that are not quiet.  An operator who is not careless launches a
\* runner only when no other is starting, and the glob then lists every ACTIVE file;
\* a file leaves the list when it is seen to be gone or has been removed; and a
\* runner writes its own when nothing is left on the list.
LEMMA MarkerLoud ==
  ASSUME TypeOK, MarkerInv, Operator # "careless", NEW w \in Runners,
         \/ \E o \in Options : Launch(w, o)
         \/ \E l \in Labels : SkipVanished(w, l)
         \/ ClearMarker(w)
         \/ WriteActive(w)
  PROVE  MarkerInv'
<1> USE ConstantsAssumption
<1>1. CASE \E o \in Options : Launch(w, o)
  <2>1. \A v \in Runners : pc[v] \notin Starting
    BY <1>1 DEF Launch, Launchable, Alive, Starting
  <2>2. /\ active' = active /\ pc' = [pc EXCEPT ![w] = "check"]
        /\ todo' = [todo EXCEPT ![w] = {l \in Labels : active[l] # NoRunner}]
    BY <1>1 DEF Launch
  <2>3. \A v \in Runners : pc'[v] \in Starting => v = w
    BY <2>1, <2>2 DEF TypeOK
  <2>4. AllListed'
    BY <2>2, <2>3 DEF AllListed, TypeOK, Starting
  <2> QED BY <2>2, <2>3, <2>4 DEF MarkerInv, OneStarts, SoleMarker
<1>2. CASE \E l \in Labels : SkipVanished(w, l)
  <2>1. PICK l \in Labels : SkipVanished(w, l)
    BY <1>2
  <2>2. pc' = pc /\ active' = active /\ active[l] = NoRunner
        /\ todo' = [todo EXCEPT ![w] = @ \ {l}]
    BY <2>1 DEF SkipVanished, fileVars
  <2> QED BY <2>2 DEF MarkerInv, OneStarts, AllListed, SoleMarker, TypeOK
<1>3. CASE ClearMarker(w)
  <2>1. /\ pc[w] = "takeover" /\ pc' = [pc EXCEPT ![w] = "check"]
        /\ todo' = [todo EXCEPT ![w] = @ \ {cur[w]}]
        /\ active' = [active EXCEPT ![cur[w]] = NoRunner]
    BY <1>3 DEF ClearMarker
  <2>2. OneStarts'
    BY <2>1 DEF MarkerInv, OneStarts, TypeOK, Starting
  <2>3. AllListed'
    BY <2>1 DEF MarkerInv, AllListed, TypeOK
  <2> QED BY <2>1, <2>2, <2>3 DEF MarkerInv, SoleMarker, TypeOK
<1>4. CASE WriteActive(w)
  <2>1. /\ pc[w] = "check" /\ todo[w] = {} /\ pc' = [pc EXCEPT ![w] = "spawn"]
        /\ todo' = todo
        /\ active' = [active EXCEPT ![LabelOf[w]] = w]
    BY <1>4 DEF WriteActive
  <2>2. \A l \in Labels : active[l] = NoRunner
    BY <2>1 DEF MarkerInv, AllListed
  <2>3. \A u \in Runners : pc[u] \in {"check", "release", "takeover"} => u = w
    BY <2>1 DEF MarkerInv, OneStarts, Starting
  <2>4. OneStarts'
    BY <2>1 DEF MarkerInv, OneStarts, TypeOK, Starting
  <2>5. AllListed'
    BY <2>1, <2>3 DEF AllListed, TypeOK
  <2>6. SoleMarker'
    BY <2>1, <2>2 DEF SoleMarker, TypeOK
  <2> QED BY <2>4, <2>5, <2>6 DEF MarkerInv
<1> QED BY <1>1, <1>2, <1>3, <1>4

\* Every other step is quiet.
LEMMA StartsQuiet ==
  ASSUME TypeOK, NEW w \in Runners, NEW l \in Labels,
         \/ RefuseToStart(w, l) \/ stop_stale_watchdog(w, l)
         \/ ReleaseHold(w) \/ SpawnWatchdog(w) \/ RecordWatchdog(w)
  PROVE  Quiet
BY DEF RefuseToStart, stop_stale_watchdog, ReleaseHold, SpawnWatchdog, RecordWatchdog, fileVars,
       wdVars,
       Quiet, TypeOK, Starting

LEMMA StagesQuiet ==
  ASSUME TypeOK, NEW w \in Runners, RunsStages(w) \/ Interrupt(w)
  PROVE  Quiet
BY DEF RunsStages, SkipStage, CreateCluster, PassStage, FailStage, AllStagesDone, Interrupt,
       runnerVars, fileVars, Quiet, TypeOK, Starting

LEMMA ExitsQuiet ==
  ASSUME TypeOK, NEW w \in Runners, Exits(w)
  PROVE  Quiet
BY DEF Exits, KeepCluster, HoldCluster, BeginTeardown, TeardownSucceeds, TeardownFails,
       RetryTeardown, DropMarker, fileVars, Quiet, TypeOK, Starting

LEMMA DeathQuiet ==
  ASSUME TypeOK, NEW w \in Runners, Kill(w) \/ KillRunner(w) \/ OrphanEnds(w)
  PROVE  Quiet
<1>1. UNCHANGED <<active, todo>> /\ (pc' = pc \/ pc' = [pc EXCEPT ![w] = "dead"])
  BY DEF Kill, KillRunner, Die, OrphanEnds, OrphanSucceeds, OrphanFails, fileVars
<1> QED BY <1>1 DEF Quiet, TypeOK, Starting

LEMMA WatchesQuiet ==
  ASSUME TypeOK, NEW w \in Runners, (Watches(w) /\ ~KillRunner(w)) \/ Deadline(w)
  PROVE  Quiet
<1>1. UNCHANGED <<pc, todo>>
  BY DEF Watches, StandDown, TermRunner, RunnerGone, GraceOver, HeldClusterGone,
         ClusterAlreadyGone, BeginForceDestroy, ForceDestroySucceeds, ForceDestroyFails,
         Deadline, runnerVars
<1>2. active' = active \/ active' = [active EXCEPT ![LabelOf[w]] = NoRunner]
  BY DEF Watches, StandDown, TermRunner, RunnerGone, GraceOver, HeldClusterGone,
         ClusterAlreadyGone, BeginForceDestroy, ForceDestroySucceeds, ForceDestroyFails,
         Deadline, fileVars
<1> QED BY <1>1, <1>2 DEF Quiet, TypeOK

LEMMA MarkerInvariant == Operator # "careless" => (Spec => [](TypeOK /\ MarkerInv))
<1> SUFFICES ASSUME Operator # "careless" PROVE Spec => [](TypeOK /\ MarkerInv)
  OBVIOUS
<1>1. TypeOK /\ MarkerInv /\ [Next]_vars => MarkerInv'
  <2> SUFFICES ASSUME TypeOK, MarkerInv, [Next]_vars PROVE MarkerInv'
    OBVIOUS
  <2>1. ASSUME NEW w \in Runners, NEW o \in Options, Launch(w, o) PROVE MarkerInv'
    BY <2>1, MarkerLoud
  <2>2. ASSUME NEW w \in Runners, Starts(w) PROVE MarkerInv'
    <3>1. ASSUME NEW l \in Labels, RefuseToStart(w, l) \/ stop_stale_watchdog(w, l)
          PROVE  MarkerInv'
      BY <3>1, StartsQuiet, QuietPreserves
    <3>2. ASSUME ReleaseHold(w) \/ SpawnWatchdog(w) \/ RecordWatchdog(w) PROVE MarkerInv'
      BY <3>2, StartsQuiet, QuietPreserves, ConstantsAssumption
    <3>3. ASSUME (\E l \in Labels : SkipVanished(w, l)) \/ ClearMarker(w) \/ WriteActive(w)
          PROVE  MarkerInv'
      BY <3>3, MarkerLoud
    <3> QED BY <2>2, <3>1, <3>2, <3>3 DEF Starts
  <2>3. ASSUME NEW w \in Runners, RunsStages(w) \/ Interrupt(w) PROVE MarkerInv'
    BY <2>3, StagesQuiet, QuietPreserves
  <2>4. ASSUME NEW w \in Runners, Exits(w) PROVE MarkerInv'
    BY <2>4, ExitsQuiet, QuietPreserves
  <2>5. ASSUME NEW w \in Runners, Kill(w) \/ OrphanEnds(w) PROVE MarkerInv'
    BY <2>5, DeathQuiet, QuietPreserves
  <2>6. ASSUME NEW w \in Runners, Deadline(w) \/ Watches(w) PROVE MarkerInv'
    BY <2>6, DeathQuiet, WatchesQuiet, QuietPreserves
  <2>7. ASSUME (\E l \in Labels : DestroyByHand(l)) \/ UNCHANGED vars PROVE MarkerInv'
    <3>1. UNCHANGED <<pc, todo, active>>
      BY <2>7 DEF DestroyByHand, vars, runnerVars, fileVars
    <3> QED BY <3>1, QuietPreserves DEF Quiet
  <2> QED BY <2>1, <2>2, <2>3, <2>4, <2>5, <2>6, <2>7 DEF Next
<1> QED BY <1>1, MarkerInit, TypeCorrect, PTL DEF Spec

\* Only one window may own the cluster, whatever the number of runners and labels and
\* wherever a runner or a watchdog is killed, as long as the operator does not start
\* two windows at the same moment.
THEOREM SoleMarkerHolds == Operator # "careless" => (Spec => []SoleMarker)
<1>1. TypeOK /\ MarkerInv => SoleMarker
  BY DEF MarkerInv
<1> QED BY <1>1, MarkerInvariant, PTL
=============================================================================
