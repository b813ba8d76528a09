------------------- MODULE MeasurementWindowGuard_proofs -------------------
(***************************************************************************)
(* What TLAPS proves of the watchdog, its markers and the cluster, for any *)
(* number of runners, labels and stages.  Beside SoleMarker the argument   *)
(* needs to know how far each watchdog and each marker file is, wherever   *)
(* its runner is (WindowInv), and who is responsible for a billing cluster *)
(* (SomebodyResponsible).                                                  *)
(***************************************************************************)
EXTENDS MeasurementWindow_proofs

\* Every window has a label of its own: the default label is its start time.
DistinctLabels == \A u, v \in Runners : LabelOf[u] = LabelOf[v] => u = v

\* In addition nobody starts two windows at the same moment, and a runner is neither
\* killed nor interrupted in the instant between spawning its watchdog and recording it.
Disciplined ==
  /\ DistinctLabels
  /\ Operator # "careless"
  /\ "record" \notin KillPoints \union InterruptPoints

\* A label's files are only ever written by the runner the label belongs to.
OwnFiles ==
  \A l \in Labels : /\ active[l] # NoRunner => LabelOf[active[l]] = l
                    /\ wdfile[l] # NoRunner => LabelOf[wdfile[l]] = l

\* How far the watchdog and the marker of w are, wherever w is.
InStep(w) ==
  /\ pc[w] \in {"idle", "check", "release", "takeover", "spawn"} => wd[w] = "off" /\ ~expired[w]
  /\ pc[w] = "record" => wd[w] = "poll" /\ ~expired[w]
  /\ pc[w] = "stages" => wd[w] \in {"poll", "term"}
  /\ pc[w] \in {"spawn", "record", "stages"} => active[LabelOf[w]] = w
  /\ active[LabelOf[w]] = w => pc[w] \notin {"idle", "check", "release", "takeover"}
  /\ wd[w] = "term" => expired[w]
  /\ wd[w] \in {"grace", "confirm", "destroy"} => pc[w] \in {"done", "dead"}
  /\ WatchdogAlive(w) => pc[w] = "record" \/ wdfile[LabelOf[w]] = w

\* What assert_sole_owner has left to look at: one window at most, and the one that is
\* being taken over has neither a runner nor a watchdog any more.
Clearing(w) ==
  /\ pc[w] \in {"check", "release", "takeover"} => \A k, l \in todo[w] : k = l
  /\ pc[w] \in {"release", "takeover"} =>
       /\ cur[w] \in todo[w]
       /\ \A v \in Runners : LabelOf[v] = cur[w] =>
            pc[v] \in {"done", "dead"} /\ ~WatchdogAlive(v)

\* A watchdog that is about to destroy before its deadline has checked its marker and
\* the HOLD, and both are as they were.
Confirmed(w) ==
  /\ wd[w] = "grace" /\ ~expired[w] => ~hold[LabelOf[w]]
  /\ wd[w] = "confirm" /\ ~expired[w] => active[LabelOf[w]] = w /\ ~hold[LabelOf[w]]

WindowInv ==
  /\ OwnFiles
  /\ \A w \in Runners : InStep(w) /\ Clearing(w) /\ Confirmed(w)

-----------------------------------------------------------------------------
\* The part of the state WindowInv reads, at runner u and at label l.
SameRunner(u) ==
  /\ pc'[u] = pc[u] /\ wd'[u] = wd[u] /\ (expired'[u] <=> expired[u])
  /\ todo'[u] = todo[u] /\ cur'[u] = cur[u]

SameLabel(l) ==
  active'[l] = active[l] /\ wdfile'[l] = wdfile[l] /\ (hold'[l] <=> hold[l])

\* w is over and so is its watchdog.
Settled(w) == pc[w] \in {"done", "dead"} /\ ~WatchdogAlive(w)

\* A step of w, of its watchdog or of its child that writes no other label's files.
Local(w) ==
  /\ \A u \in Runners \ {w} : SameRunner(u)
  /\ \A l \in Labels \ {LabelOf[w]} : SameLabel(l)
  /\ active'[LabelOf[w]] \in {active[LabelOf[w]], w, NoRunner}
  /\ wdfile'[LabelOf[w]] \in {wdfile[LabelOf[w]], w, NoRunner}
  /\ Settled(w) => Settled(w)'

\* Such a step can only break what WindowInv says of w itself.
LEMMA LocalStep ==
  ASSUME TypeOK, WindowInv, Disciplined, NEW w \in Runners, Local(w),
         InStep(w)', Clearing(w)', Confirmed(w)'
  PROVE  WindowInv'
<1> USE ConstantsAssumption
<1>1. OwnFiles'
  <2> SUFFICES ASSUME NEW l \in Labels
               PROVE  /\ active'[l] # NoRunner => LabelOf[active'[l]] = l
                      /\ wdfile'[l] # NoRunner => LabelOf[wdfile'[l]] = l
    BY DEF OwnFiles
  <2>1. /\ active[l] # NoRunner => LabelOf[active[l]] = l
        /\ wdfile[l] # NoRunner => LabelOf[wdfile[l]] = l
    BY DEF WindowInv, OwnFiles
  <2>2. CASE l = LabelOf[w]
    BY <2>1, <2>2 DEF Local
  <2>3. CASE l # LabelOf[w]
    BY <2>1, <2>3 DEF Local, SameLabel
  <2> QED BY <2>2, <2>3
<1>2. ASSUME NEW u \in Runners, u # w
      PROVE  (InStep(u) /\ Clearing(u) /\ Confirmed(u))'
  <2>1. LabelOf[u] \in Labels \ {LabelOf[w]}
    BY <1>2 DEF Disciplined, DistinctLabels
  <2>2. SameRunner(u) /\ SameLabel(LabelOf[u])
    BY <1>2, <2>1 DEF Local
  <2>3. InStep(u) /\ Clearing(u) /\ Confirmed(u)
    BY DEF WindowInv
  <2>4. InStep(u)'
    BY <2>2, <2>3 DEF SameRunner, SameLabel, InStep, WatchdogAlive
  <2>5. Confirmed(u)'
    BY <2>2, <2>3 DEF SameRunner, SameLabel, Confirmed
  <2>6. \A v \in Runners : Settled(v) => Settled(v)'
    BY DEF Local, SameRunner, Settled, WatchdogAlive
  <2>7. Clearing(u)'
    BY <2>2, <2>3, <2>6 DEF SameRunner, Clearing, Settled
  <2> QED BY <2>4, <2>5, <2>7
<1>3. \A u \in Runners : (InStep(u) /\ Clearing(u) /\ Confirmed(u))'
  BY <1>2
<1> QED BY <1>1, <1>3 DEF WindowInv

LEMMA WindowInit == Init => WindowInv
BY ConstantsAssumption
   DEF Init, WindowInv, OwnFiles, InStep, Clearing, Confirmed, WatchdogAlive

\* The runner is the only one that belongs to its label.
LEMMA OwnMarker ==
  ASSUME TypeOK, WindowInv, Disciplined, NEW w \in Runners
  PROVE  /\ active[LabelOf[w]] \in {w, NoRunner}
         /\ wdfile[LabelOf[w]] \in {w, NoRunner}
BY ConstantsAssumption DEF TypeOK, WindowInv, OwnFiles, Disciplined, DistinctLabels

\* Launch.
LEMMA LaunchKeeps ==
  ASSUME TypeOK, MarkerInv, WindowInv, Disciplined,
         NEW w \in Runners, NEW o \in Options, Launch(w, o)
  PROVE  WindowInv'
<1> USE ConstantsAssumption
<1>1. /\ pc[w] = "idle" /\ pc' = [pc EXCEPT ![w] = "check"]
      /\ hold' = [hold EXCEPT ![LabelOf[w]] = FALSE]
      /\ todo' = [todo EXCEPT ![w] = {l \in Labels : active[l] # NoRunner}]
      /\ UNCHANGED <<cur, wd, expired, active, wdfile>>
  BY DEF Launch, wdVars
<1>2. InStep(w) /\ Confirmed(w)
  BY DEF WindowInv
<1>3. Local(w)
  BY <1>1 DEF Local, SameRunner, SameLabel, Settled, TypeOK
<1>4. InStep(w)'
  BY <1>1, <1>2 DEF InStep, WatchdogAlive, TypeOK
<1>5. Confirmed(w)'
  BY <1>1, <1>2 DEF InStep, Confirmed, TypeOK
<1>6. Clearing(w)'
  BY <1>1 DEF Clearing, MarkerInv, SoleMarker, TypeOK
<1> QED BY <1>3, <1>4, <1>5, <1>6, LocalStep

\* stop_stale_watchdog reads the watchdog's pid from the file its runner wrote: once it
\* has returned, no watchdog of that label is left.
LEMMA TakeoverKeeps ==
  ASSUME TypeOK, MarkerInv, WindowInv, Disciplined,
         NEW w \in Runners, NEW l \in Labels, stop_stale_watchdog(w, l)
  PROVE  WindowInv'
<1> USE ConstantsAssumption
<1>1. /\ pc[w] = "check" /\ pc'[w] \in {"release", "takeover"}
      /\ pc' = [pc EXCEPT ![w] = pc'[w]]
      /\ l \in todo[w] /\ cur' = [cur EXCEPT ![w] = l]
      /\ wdfile' = [wdfile EXCEPT ![l] = NoRunner]
      /\ UNCHANGED <<todo, expired, active, hold>>
      /\ active[l] # NoRunner /\ ~Alive(active[l])
  BY DEF stop_stale_watchdog, Refuses, TypeOK
<1>2. \A u \in Runners : InStep(u) /\ Clearing(u) /\ Confirmed(u)
  BY DEF WindowInv
<1>3. PICK x \in Runners : x = active[l] /\ LabelOf[x] = l /\ pc[x] \in {"done", "dead"}
  <2>1. active[l] \in Runners /\ LabelOf[active[l]] = l
    BY <1>1 DEF TypeOK, WindowInv, OwnFiles
  <2>2. pc[active[l]] \in {"done", "dead"}
    BY <1>1, <1>2, <2>1 DEF InStep, Alive
  <2> QED BY <2>1, <2>2
<1>4. \A u \in Runners : LabelOf[u] = l => u = x
  BY <1>3 DEF Disciplined, DistinctLabels
<1>5. wdfile[l] \in {x, NoRunner}
  BY <1>3, OwnMarker
<1>6. /\ wd' \in [Runners -> WatchdogPoints]
      /\ \A u \in Runners \ {x} : wd'[u] = wd[u]
      /\ ~WatchdogAlive(x)'
      /\ wd'[x] \in {wd[x], "killed"}
  <2>1. CASE wdfile[l] # NoRunner /\ WatchdogAlive(wdfile[l])
    <3>1. wd' = [wd EXCEPT ![x] = "killed"]
      BY <1>5, <2>1 DEF stop_stale_watchdog
    <3> QED BY <3>1 DEF TypeOK, WatchdogAlive, WatchdogPoints
  <2>2. CASE ~(wdfile[l] # NoRunner /\ WatchdogAlive(wdfile[l]))
    <3>1. wd' = wd
      BY <2>2 DEF stop_stale_watchdog
    <3>2. ~WatchdogAlive(x)
      BY <1>2, <1>3, <1>5, <2>2 DEF InStep
    <3> QED BY <3>1, <3>2 DEF TypeOK, WatchdogAlive
  <2> QED BY <2>1, <2>2
<1>7. OwnFiles'
  BY <1>1 DEF WindowInv, OwnFiles, TypeOK
<1>8. ASSUME NEW u \in Runners PROVE InStep(u)'
  <2>1. pc'[u] \in IF u = w THEN {"release", "takeover"} ELSE {pc[u]}
    BY <1>1 DEF TypeOK
  <2>2. w # x
    BY <1>1, <1>3
  <2>3. CASE u = x
    <3>1. pc'[x] = pc[x] /\ pc[x] \in {"done", "dead"}
      BY <1>3, <2>1, <2>2, <2>3
    <3> QED BY <1>6, <2>3, <3>1 DEF InStep, WatchdogAlive
  <2>4. CASE u # x
    <3>1. wdfile'[LabelOf[u]] = wdfile[LabelOf[u]] /\ wd'[u] = wd[u]
      BY <1>1, <1>4, <1>6, <2>4 DEF TypeOK
    <3> QED BY <1>1, <1>2, <2>1, <3>1 DEF InStep, WatchdogAlive
  <2> QED BY <2>3, <2>4
<1>9. ASSUME NEW u \in Runners PROVE Clearing(u)'
  <2>1. CASE u = w
    <3>1. \A v \in Runners : LabelOf[v] = l => pc'[v] \in {"done", "dead"} /\ ~WatchdogAlive(v)'
      BY <1>1, <1>3, <1>4, <1>6 DEF TypeOK
    <3>2. cur'[u] = l /\ todo'[u] = todo[u]
      BY <1>1, <2>1 DEF TypeOK
    <3>3. \A j, k \in todo[u] : j = k
      BY <1>1, <1>2, <2>1 DEF Clearing
    <3> QED BY <1>1, <2>1, <3>1, <3>2, <3>3 DEF Clearing
  <2>2. CASE u # w
    <3>1. pc'[u] = pc[u] /\ pc[u] \notin {"check", "release", "takeover"}
      BY <1>1, <2>2 DEF TypeOK, MarkerInv, OneStarts, Starting
    <3> QED BY <3>1 DEF Clearing
  <2> QED BY <2>1, <2>2
<1>10. ASSUME NEW u \in Runners PROVE Confirmed(u)'
  <2>1. wd'[u] \in {wd[u], "killed"}
    BY <1>6
  <2> QED BY <1>1, <1>2, <2>1 DEF Confirmed
<1> QED BY <1>7, <1>8, <1>9, <1>10 DEF WindowInv

\* ReleaseHold removes the HOLD of a window that is over, with its watchdog.
LEMMA ReleaseKeeps ==
  ASSUME TypeOK, MarkerInv, WindowInv, Disciplined, NEW w \in Runners, ReleaseHold(w)
  PROVE  WindowInv'
<1> USE ConstantsAssumption
<1>1. /\ pc[w] = "release" /\ pc' = [pc EXCEPT ![w] = "takeover"]
      /\ hold' = [hold EXCEPT ![cur[w]] = FALSE]
      /\ UNCHANGED <<todo, cur, wd, expired, active, wdfile>>
  BY DEF ReleaseHold, wdVars
<1>2. \A u \in Runners : InStep(u) /\ Clearing(u) /\ Confirmed(u)
  BY DEF WindowInv
<1>3. OwnFiles'
  BY <1>1 DEF WindowInv, OwnFiles
<1>4. ASSUME NEW u \in Runners PROVE InStep(u)' /\ Clearing(u)' /\ Confirmed(u)'
  <2>1. pc'[u] = IF u = w THEN "takeover" ELSE pc[u]
    BY <1>1 DEF TypeOK
  <2>2. InStep(u)'
    BY <1>1, <1>2, <2>1 DEF InStep, WatchdogAlive
  <2>3. \A v \in Runners : pc[v] \in {"done", "dead"} => pc'[v] = pc[v]
    BY <1>1 DEF TypeOK
  <2>4. Clearing(u)'
    BY <1>1, <1>2, <2>1, <2>3 DEF Clearing, WatchdogAlive
  <2>5. hold'[LabelOf[u]] => hold[LabelOf[u]]
    BY <1>1 DEF TypeOK
  <2>6. Confirmed(u)'
    BY <1>1, <1>2, <2>5 DEF Confirmed
  <2> QED BY <2>2, <2>4, <2>6
<1> QED BY <1>3, <1>4 DEF WindowInv

\* ClearMarker removes the marker of a window that is over, with its watchdog.
LEMMA ClearKeeps ==
  ASSUME TypeOK, MarkerInv, WindowInv, Disciplined, NEW w \in Runners, ClearMarker(w)
  PROVE  WindowInv'
<1> USE ConstantsAssumption
<1>1. /\ pc[w] = "takeover" /\ pc' = [pc EXCEPT ![w] = "check"]
      /\ todo' = [todo EXCEPT ![w] = @ \ {cur[w]}]
      /\ active' = [active EXCEPT ![cur[w]] = NoRunner]
      /\ UNCHANGED <<cur, wd, expired, hold, wdfile>>
  BY DEF ClearMarker, wdVars
<1>2. \A u \in Runners : InStep(u) /\ Clearing(u) /\ Confirmed(u)
  BY DEF WindowInv
<1>3. \A v \in Runners : LabelOf[v] = cur[w] => pc[v] \in {"done", "dead"} /\ ~WatchdogAlive(v)
  BY <1>1, <1>2 DEF Clearing
<1>4. OwnFiles'
  BY <1>1 DEF WindowInv, OwnFiles, TypeOK
<1>5. ASSUME NEW u \in Runners PROVE InStep(u)'
  <2>1. CASE LabelOf[u] = cur[w]
    <3>1. u # w /\ pc'[u] = pc[u] /\ pc[u] \in {"done", "dead"} /\ ~WatchdogAlive(u)
      BY <1>1, <1>3, <2>1 DEF TypeOK
    <3> QED BY <1>1, <3>1 DEF InStep, WatchdogAlive
  <2>2. CASE LabelOf[u] # cur[w]
    <3>1. active'[LabelOf[u]] = active[LabelOf[u]]
      BY <1>1, <2>2 DEF TypeOK
    <3>2. pc'[u] = IF u = w THEN "check" ELSE pc[u]
      BY <1>1 DEF TypeOK
    <3> QED BY <1>1, <1>2, <3>1, <3>2 DEF InStep, WatchdogAlive
  <2> QED BY <2>1, <2>2
<1>6. ASSUME NEW u \in Runners PROVE Clearing(u)'
  <2>1. CASE u = w
    BY <1>1, <1>2, <2>1 DEF Clearing, TypeOK
  <2>2. CASE u # w
    <3>1. pc'[u] = pc[u] /\ pc[u] \notin {"check", "release", "takeover"}
      BY <1>1, <2>2 DEF TypeOK, MarkerInv, OneStarts, Starting
    <3> QED BY <3>1 DEF Clearing
  <2> QED BY <2>1, <2>2
<1>7. ASSUME NEW u \in Runners PROVE Confirmed(u)'
  <2>1. CASE LabelOf[u] = cur[w]
    BY <1>1, <1>3, <2>1 DEF Confirmed, WatchdogAlive
  <2>2. CASE LabelOf[u] # cur[w]
    <3>1. /\ active'[LabelOf[u]] = active[LabelOf[u]]
          /\ hold'[LabelOf[u]] <=> hold[LabelOf[u]]
      BY <1>1, <2>2 DEF TypeOK
    <3> QED BY <1>1, <1>2, <3>1 DEF Confirmed
  <2> QED BY <2>1, <2>2
<1> QED BY <1>4, <1>5, <1>6, <1>7 DEF WindowInv

\* assert_sole_owner and arm_watchdog.
LEMMA StartsKeep ==
  ASSUME TypeOK, MarkerInv, WindowInv, Disciplined, NEW w \in Runners, Starts(w)
  PROVE  WindowInv'
<1> USE ConstantsAssumption
<1>1. InStep(w) /\ Clearing(w) /\ Confirmed(w)
  BY DEF WindowInv
<1>2. ASSUME NEW l \in Labels, SkipVanished(w, l) PROVE WindowInv'
  <2>1. /\ pc[w] = "check" /\ pc' = pc
        /\ todo' = [todo EXCEPT ![w] = @ \ {l}]
        /\ UNCHANGED <<cur, wd, expired, active, hold, wdfile>>
    BY <1>2 DEF SkipVanished, wdVars, fileVars
  <2>2. Local(w)
    BY <2>1 DEF Local, SameRunner, SameLabel, Settled, WatchdogAlive, TypeOK
  <2>3. InStep(w)' /\ Confirmed(w)'
    BY <1>1, <2>1 DEF InStep, Confirmed, WatchdogAlive
  <2>4. Clearing(w)'
    BY <1>1, <2>1 DEF Clearing, TypeOK
  <2> QED BY <2>2, <2>3, <2>4, LocalStep
<1>3. ASSUME NEW l \in Labels, RefuseToStart(w, l) PROVE WindowInv'
  <2>1. /\ pc[w] = "check" /\ pc' = [pc EXCEPT ![w] = "exit"]
        /\ UNCHANGED <<todo, cur, wd, expired, active, hold, wdfile>>
    BY <1>3 DEF RefuseToStart, wdVars, fileVars
  <2>2. Local(w)
    BY <2>1 DEF Local, SameRunner, SameLabel, Settled, WatchdogAlive, TypeOK
  <2>3. InStep(w)' /\ Confirmed(w)' /\ Clearing(w)'
    BY <1>1, <2>1 DEF InStep, Confirmed, WatchdogAlive, Clearing, TypeOK
  <2> QED BY <2>2, <2>3, LocalStep
<1>4. ASSUME NEW l \in Labels, stop_stale_watchdog(w, l) PROVE WindowInv'
  BY <1>4, TakeoverKeeps
<1>5. ASSUME ReleaseHold(w) \/ ClearMarker(w) PROVE WindowInv'
  BY <1>5, ReleaseKeeps, ClearKeeps
<1>6. ASSUME WriteActive(w) PROVE WindowInv'
  <2>1. /\ pc[w] = "check" /\ pc' = [pc EXCEPT ![w] = "spawn"]
        /\ active' = [active EXCEPT ![LabelOf[w]] = w]
        /\ UNCHANGED <<todo, cur, wd, expired, hold, wdfile>>
    BY <1>6 DEF WriteActive, wdVars
  <2>2. Local(w)
    BY <2>1 DEF Local, SameRunner, SameLabel, Settled, WatchdogAlive, TypeOK
  <2>3. InStep(w)' /\ Confirmed(w)' /\ Clearing(w)'
    BY <1>1, <2>1 DEF InStep, Confirmed, WatchdogAlive, Clearing, TypeOK
  <2> QED BY <2>2, <2>3, LocalStep
<1>7. ASSUME SpawnWatchdog(w) PROVE WindowInv'
  <2>1. /\ pc[w] = "spawn" /\ pc' = [pc EXCEPT ![w] = "record"]
        /\ wd' = [wd EXCEPT ![w] = "poll"]
        /\ UNCHANGED <<todo, cur, expired, active, hold, wdfile>>
    BY <1>7 DEF SpawnWatchdog, fileVars
  <2>2. Local(w)
    BY <2>1 DEF Local, SameRunner, SameLabel, Settled, WatchdogAlive, TypeOK
  <2>3. InStep(w)' /\ Confirmed(w)' /\ Clearing(w)'
    BY <1>1, <2>1 DEF InStep, Confirmed, WatchdogAlive, Clearing, TypeOK
  <2> QED BY <2>2, <2>3, LocalStep
<1>8. ASSUME RecordWatchdog(w) PROVE WindowInv'
  <2>1. /\ pc[w] = "record" /\ pc' = [pc EXCEPT ![w] = "stages"]
        /\ wdfile' = [wdfile EXCEPT ![LabelOf[w]] = w]
        /\ UNCHANGED <<todo, cur, wd, expired, active, hold>>
    BY <1>8 DEF RecordWatchdog, wdVars
  <2>2. Local(w)
    BY <2>1 DEF Local, SameRunner, SameLabel, Settled, WatchdogAlive, TypeOK
  <2>3. InStep(w)' /\ Confirmed(w)' /\ Clearing(w)'
    BY <1>1, <2>1 DEF InStep, Confirmed, WatchdogAlive, Clearing, TypeOK
  <2> QED BY <2>2, <2>3, LocalStep
<1> QED BY <1>2, <1>3, <1>4, <1>5, <1>6, <1>7, <1>8 DEF Starts

\* The stage loop and the traps.
LEMMA StagesKeep ==
  ASSUME TypeOK, WindowInv, Disciplined, NEW w \in Runners, RunsStages(w) \/ Interrupt(w)
  PROVE  WindowInv'
<1> USE ConstantsAssumption
<1>1. /\ \/ pc[w] = "stages" /\ pc' = pc
         \/ /\ pc[w] \in {"check", "release", "takeover", "spawn", "stages"}
            /\ pc' = [pc EXCEPT ![w] = "exit"]
      /\ UNCHANGED <<todo, cur, wd, expired, active, hold, wdfile>>
  BY DEF RunsStages, SkipStage, CreateCluster, PassStage, FailStage, AllStagesDone,
         InStage, Interrupt, Disciplined, Starting, runnerVars, wdVars, fileVars
<1>2. InStep(w) /\ Clearing(w) /\ Confirmed(w)
  BY DEF WindowInv
<1>3. Local(w)
  BY <1>1 DEF Local, SameRunner, SameLabel, Settled, WatchdogAlive, TypeOK
<1>4. InStep(w)' /\ Clearing(w)' /\ Confirmed(w)'
  BY <1>1, <1>2 DEF InStep, Clearing, Confirmed, WatchdogAlive, TypeOK
<1> QED BY <1>3, <1>4, LocalStep

\* on_exit and do_teardown.
LEMMA ExitsKeep ==
  ASSUME TypeOK, WindowInv, Disciplined, NEW w \in Runners, Exits(w)
  PROVE  WindowInv'
<1> USE ConstantsAssumption
<1>1. /\ \/ pc[w] = "exit" /\ pc'[w] \in {"unmark", "teardown"} /\ active' = active
         \/ /\ pc[w] \in {"teardown", "retry"} /\ pc'[w] \in {"unmark", "retry", "teardown"}
            /\ active' = active
         \/ pc[w] = "unmark" /\ pc'[w] = "done"
      /\ \A u \in Runners \ {w} : pc'[u] = pc[u]
      /\ active' = active \/ active' = [active EXCEPT ![LabelOf[w]] = NoRunner]
      /\ hold' = hold \/ hold' = [hold EXCEPT ![LabelOf[w]] = TRUE]
      /\ UNCHANGED <<todo, cur, wd, expired, wdfile>>
  BY DEF Exits, KeepCluster, HoldCluster, BeginTeardown, TeardownSucceeds, TeardownFails,
         RetryTeardown, DropMarker, wdVars, fileVars, TypeOK
<1>2. InStep(w) /\ Clearing(w) /\ Confirmed(w)
  BY DEF WindowInv
<1>3. Local(w)
  BY <1>1 DEF Local, SameRunner, SameLabel, Settled, WatchdogAlive, TypeOK
<1>4. InStep(w)' /\ Clearing(w)' /\ Confirmed(w)'
  BY <1>1, <1>2 DEF InStep, Clearing, Confirmed, WatchdogAlive, TypeOK
<1> QED BY <1>3, <1>4, LocalStep

\* kill -9, and the end of an orphaned child.
LEMMA DeathKeeps ==
  ASSUME TypeOK, WindowInv, Disciplined, NEW w \in Runners, Kill(w) \/ OrphanEnds(w)
  PROVE  WindowInv'
<1> USE ConstantsAssumption
<1>1. /\ \/ pc' = pc
         \/ /\ pc[w] \notin {"idle", "record", "done", "dead"}
            /\ pc' = [pc EXCEPT ![w] = "dead"]
      /\ UNCHANGED <<todo, cur, wd, expired, active, hold, wdfile>>
  BY DEF Kill, Die, Alive, OrphanEnds, OrphanSucceeds, OrphanFails, Disciplined,
         wdVars, fileVars
<1>2. InStep(w) /\ Clearing(w) /\ Confirmed(w)
  BY DEF WindowInv
<1>3. Local(w)
  BY <1>1 DEF Local, SameRunner, SameLabel, Settled, WatchdogAlive, TypeOK
<1>4. InStep(w)' /\ Clearing(w)' /\ Confirmed(w)'
  BY <1>1, <1>2 DEF InStep, Clearing, Confirmed, WatchdogAlive, TypeOK
<1> QED BY <1>3, <1>4, LocalStep

\* The watchdog: KILL takes its runner away, the other steps leave the runner alone.
LEMMA WatchesKeep ==
  ASSUME TypeOK, MarkerInv, WindowInv, Disciplined, NEW w \in Runners,
         Watches(w) \/ Deadline(w)
  PROVE  WindowInv'
<1> USE ConstantsAssumption
<1> DEFINE L == LabelOf[w]
<1>1. InStep(w) /\ Clearing(w) /\ Confirmed(w)
  BY DEF WindowInv
<1>2. ASSUME Deadline(w) PROVE WindowInv'
  <2>1. /\ WatchdogAlive(w) /\ pc[w] # "record"
        /\ expired' = [expired EXCEPT ![w] = TRUE]
        /\ UNCHANGED <<pc, todo, cur, wd, active, hold, wdfile>>
    BY <1>2 DEF Deadline, runnerVars, fileVars
  <2>2. Local(w)
    BY <2>1 DEF Local, SameRunner, SameLabel, Settled, WatchdogAlive, TypeOK
  <2>3. InStep(w)' /\ Clearing(w)' /\ Confirmed(w)'
    BY <1>1, <2>1 DEF InStep, Clearing, Confirmed, WatchdogAlive, TypeOK
  <2> QED BY <2>2, <2>3, LocalStep
<1>3. ASSUME KillRunner(w) PROVE WindowInv'
  <2>1. /\ wd[w] = "term" /\ wd' = [wd EXCEPT ![w] = "confirm"]
        /\ IF Alive(w) THEN pc' = [pc EXCEPT ![w] = "dead"] ELSE pc' = pc
        /\ UNCHANGED <<todo, cur, expired, active, hold, wdfile>>
    BY <1>3 DEF KillRunner, Die, fileVars
  <2>2. pc[w] \notin {"idle", "check", "release", "takeover", "spawn", "record"}
    BY <1>1, <2>1 DEF InStep
  <2>3. pc'[w] \in {"done", "dead"}
    BY <2>1, <2>2 DEF Alive, TypeOK
  <2>4. Local(w)
    BY <2>1 DEF Local, SameRunner, SameLabel, Settled, WatchdogAlive, TypeOK
  <2>5. InStep(w)' /\ Confirmed(w)'
    BY <1>1, <2>1, <2>3 DEF InStep, Confirmed, WatchdogAlive, TypeOK
  <2>6. Clearing(w)'
    BY <2>3 DEF Clearing
  <2> QED BY <2>4, <2>5, <2>6, LocalStep
<1>4. ASSUME StandDown(w) \/ TermRunner(w) \/ RunnerGone(w) \/ GraceOver(w) \/ BeginForceDestroy(w)
      PROVE  WindowInv'
  <2>1. UNCHANGED <<pc, todo, cur, expired, active, hold, wdfile>>
    BY <1>4 DEF StandDown, TermRunner, RunnerGone, GraceOver, BeginForceDestroy,
                runnerVars, fileVars
  <2>2. /\ WatchdogAlive(w)
        /\ \E p \in WatchdogPoints : wd' = [wd EXCEPT ![w] = p]
    BY <1>4 DEF StandDown, TermRunner, RunnerGone, GraceOver, BeginForceDestroy,
                WatchdogAlive, WatchdogPoints
  <2>3. Local(w)
    BY <2>1, <2>2 DEF Local, SameRunner, SameLabel, Settled, TypeOK
  <2>4. Clearing(w)'
    <3>1. pc[w] \notin {"release", "takeover"}
      BY <1>1, <2>2 DEF InStep, WatchdogAlive
    <3> QED BY <1>1, <2>1, <3>1 DEF Clearing
  <2>5. CASE StandDown(w)
    <3>1. wd' = [wd EXCEPT ![w] = "exited"] /\ wd[w] \in {"poll", "grace"} /\ ~owns_cluster(w)
          /\ (wd[w] = "poll" => expired[w] \/ ~Alive(w))
      BY <2>5 DEF StandDown
    <3>2. active[L] = w => owns_cluster(w)
      BY DEF owns_cluster, MarkerInv, SoleMarker, Disciplined, DistinctLabels
    <3>3. pc[w] \notin {"record", "stages"}
      BY <1>1, <3>1, <3>2 DEF InStep, Alive
    <3> QED BY <1>1, <2>1, <2>3, <2>4, <3>1, <3>3, LocalStep
            DEF InStep, Confirmed, WatchdogAlive, TypeOK
  <2>6. CASE TermRunner(w)
    <3>1. wd' = [wd EXCEPT ![w] = "term"] /\ wd[w] = "poll" /\ expired[w]
      BY <2>6 DEF TermRunner
    <3> QED BY <1>1, <2>1, <2>3, <2>4, <3>1, LocalStep
            DEF InStep, Confirmed, WatchdogAlive, TypeOK
  <2>7. CASE RunnerGone(w)
    <3>1. wd' = [wd EXCEPT ![w] = "grace"] /\ wd[w] = "poll" /\ ~Alive(w) /\ ~hold[L]
      BY <2>7 DEF RunnerGone
    <3> QED BY <1>1, <2>1, <2>3, <2>4, <3>1, LocalStep
            DEF InStep, Confirmed, WatchdogAlive, TypeOK, Alive
  <2>8. CASE GraceOver(w)
    <3>1. wd' = [wd EXCEPT ![w] = "confirm"] /\ wd[w] = "grace" /\ owns_cluster(w)
      BY <2>8 DEF GraceOver
    <3>2. active[L] = w
      BY <3>1, OwnMarker DEF owns_cluster
    <3> QED BY <1>1, <2>1, <2>3, <2>4, <3>1, <3>2, LocalStep
            DEF InStep, Confirmed, WatchdogAlive, TypeOK
  <2>9. CASE BeginForceDestroy(w)
    <3>1. wd' = [wd EXCEPT ![w] = "destroy"] /\ wd[w] = "confirm"
      BY <2>9 DEF BeginForceDestroy
    <3> QED BY <1>1, <2>1, <2>3, <2>4, <3>1, LocalStep
            DEF InStep, Confirmed, WatchdogAlive, TypeOK
  <2> QED BY <1>4, <2>5, <2>6, <2>7, <2>8, <2>9
<1>5. ASSUME \/ HeldClusterGone(w) \/ ClusterAlreadyGone(w)
             \/ ForceDestroySucceeds(w) \/ ForceDestroyFails(w)
      PROVE  WindowInv'
  <2>1. /\ \/ wd[w] = "poll" /\ ~Alive(w)
           \/ wd[w] \in {"confirm", "destroy"}
        /\ wd' = [wd EXCEPT ![w] = "exited"]
        /\ active' = [active EXCEPT ![L] = NoRunner]
        /\ UNCHANGED <<pc, todo, cur, expired, hold, wdfile>>
    BY <1>5 DEF HeldClusterGone, ClusterAlreadyGone, ForceDestroySucceeds, ForceDestroyFails,
                runnerVars
  <2>2. pc[w] \in {"done", "dead"}
    BY <1>1, <2>1 DEF InStep, Alive
  <2>3. Local(w)
    BY <2>1 DEF Local, SameRunner, SameLabel, Settled, WatchdogAlive, TypeOK
  <2>4. InStep(w)' /\ Clearing(w)' /\ Confirmed(w)'
    BY <1>1, <2>1, <2>2 DEF InStep, Clearing, Confirmed, WatchdogAlive, TypeOK
  <2> QED BY <2>3, <2>4, LocalStep
<1> QED BY <1>2, <1>3, <1>4, <1>5 DEF Watches

LEMMA WindowInvariant == Disciplined => (Spec => [](TypeOK /\ MarkerInv /\ WindowInv))
<1> SUFFICES ASSUME Disciplined PROVE Spec => [](TypeOK /\ MarkerInv /\ WindowInv)
  OBVIOUS
<1>1. TypeOK /\ MarkerInv /\ WindowInv /\ [Next]_vars => WindowInv'
  <2> SUFFICES ASSUME TypeOK, MarkerInv, WindowInv, [Next]_vars PROVE WindowInv'
    OBVIOUS
  <2>1. CASE \E w \in Runners, o \in Options : Launch(w, o)
    BY <2>1, LaunchKeeps
  <2>2. CASE \E w \in Runners : Starts(w)
    BY <2>2, StartsKeep
  <2>3. CASE \E w \in Runners : RunsStages(w) \/ Interrupt(w)
    BY <2>3, StagesKeep
  <2>4. CASE \E w \in Runners : Exits(w)
    BY <2>4, ExitsKeep
  <2>5. CASE \E w \in Runners : Kill(w) \/ OrphanEnds(w)
    BY <2>5, DeathKeeps
  <2>6. CASE \E w \in Runners : Watches(w) \/ Deadline(w)
    BY <2>6, WatchesKeep
  <2>7. CASE (\E l \in Labels : DestroyByHand(l)) \/ UNCHANGED vars
    <3>1. UNCHANGED <<pc, todo, cur, wd, expired, active, hold, wdfile>>
      BY <2>7 DEF DestroyByHand, vars, runnerVars, wdVars, fileVars
    <3> QED BY <3>1 DEF WindowInv, OwnFiles, InStep, Clearing, Confirmed, WatchdogAlive
  <2> QED BY <2>1, <2>2, <2>3, <2>4, <2>5, <2>6, <2>7 DEF Next
<1>2. Operator # "careless"
  BY DEF Disciplined
<1>3. Spec => [](TypeOK /\ MarkerInv)
  BY <1>2, MarkerInvariant
<1> QED BY <1>1, <1>3, WindowInit, PTL DEF Spec

-----------------------------------------------------------------------------
\* A watchdog starts a destroy in one step only.
LEMMA DestroyStarts ==
  ASSUME TypeOK, [Next]_vars, NEW w \in Runners, StartsDestroy(w)
  PROVE  BeginForceDestroy(w)
<1> USE ConstantsAssumption
<1>1. ASSUME NEW u \in Runners, ~BeginForceDestroy(u),
             \/ \E o \in Options : Launch(u, o)
             \/ Starts(u) \/ RunsStages(u) \/ Interrupt(u) \/ Exits(u) \/ Kill(u)
             \/ OrphanEnds(u) \/ Deadline(u)
      PROVE  wd'[w] \in {wd[w], "poll", "killed"}
  <2>1. \/ wd' = wd
        \/ wd' = [wd EXCEPT ![u] = "poll"]
        \/ \E x \in Runners : wd' = [wd EXCEPT ![x] = "killed"]
    <3>1. CASE \E l \in Labels : stop_stale_watchdog(u, l)
      BY <3>1 DEF stop_stale_watchdog, TypeOK
    <3> QED
      BY <1>1, <3>1
         DEF Launch, Starts, SkipVanished, RefuseToStart, ReleaseHold, ClearMarker, WriteActive,
             SpawnWatchdog, RecordWatchdog, RunsStages, SkipStage, CreateCluster, PassStage,
             FailStage, AllStagesDone, Interrupt, Exits, KeepCluster, HoldCluster,
             BeginTeardown, TeardownSucceeds, TeardownFails, RetryTeardown, DropMarker, Kill,
             OrphanEnds, OrphanSucceeds, OrphanFails, Deadline, wdVars
  <2> QED BY <2>1 DEF TypeOK
<1>2. ASSUME NEW u \in Runners, Watches(u), ~BeginForceDestroy(w)
      PROVE  wd'[w] \in {wd[w], "exited", "term", "confirm", "grace"}
  <2>1. CASE BeginForceDestroy(u)
    BY <1>2, <2>1 DEF BeginForceDestroy, TypeOK
  <2>2. CASE ~BeginForceDestroy(u)
    BY <1>2, <2>2 DEF Watches, StandDown, TermRunner, KillRunner, RunnerGone, GraceOver,
                      HeldClusterGone, ClusterAlreadyGone, ForceDestroySucceeds,
                      ForceDestroyFails, TypeOK
  <2> QED BY <2>1, <2>2
<1>3. ASSUME (\E l \in Labels : DestroyByHand(l)) \/ UNCHANGED vars
      PROVE  wd' = wd
  BY <1>3 DEF DestroyByHand, vars, wdVars
<1>4. ~(wd'[w] \in {wd[w], "poll", "killed", "exited", "term", "confirm", "grace"})
  BY DEF StartsDestroy
<1> QED BY <1>1, <1>2, <1>3, <1>4 DEF Next, Watches

\* A watchdog whose runner died, and whose deadline has not come, never starts a destroy
\* once another window has armed, for any number of windows with labels of their own.
THEOREM SuccessorIsSpared == Disciplined => (Spec => WatchdogSparesSuccessor)
<1> SUFFICES ASSUME Disciplined PROVE Spec => WatchdogSparesSuccessor
  OBVIOUS
<1> USE ConstantsAssumption
<1>1. TypeOK /\ MarkerInv /\ WindowInv /\ [Next]_vars =>
        \A w \in Runners : StartsDestroy(w) /\ ~expired[w] => ~Succeeded(w)
  <2> SUFFICES ASSUME TypeOK, MarkerInv, WindowInv, [Next]_vars,
                      NEW w \in Runners, StartsDestroy(w), ~expired[w],
                      NEW v \in Runners \ {w}, pc[v] \in {"spawn", "record", "stages"}
               PROVE  FALSE
    BY DEF Succeeded
  <2>1. wd[w] = "confirm"
    BY DestroyStarts DEF BeginForceDestroy
  <2>2. active[LabelOf[w]] = w
    BY <2>1 DEF WindowInv, Confirmed
  <2>3. active[LabelOf[v]] = v
    BY DEF WindowInv, InStep
  <2> QED BY <2>2, <2>3 DEF MarkerInv, SoleMarker, Disciplined, DistinctLabels
<1> QED BY <1>1, WindowInvariant, PTL DEF Spec, WatchdogSparesSuccessor

\* A held cluster is destroyed by the watchdog at the deadline and not before.
THEOREM HoldIsHonoured == Disciplined => (Spec => HoldHonoured)
<1> SUFFICES ASSUME Disciplined PROVE Spec => HoldHonoured
  OBVIOUS
<1>1. TypeOK /\ MarkerInv /\ WindowInv /\ [Next]_vars =>
        \A w \in Runners : StartsDestroy(w) => expired[w] \/ ~hold[LabelOf[w]]
  <2> SUFFICES ASSUME TypeOK, MarkerInv, WindowInv, [Next]_vars,
                      NEW w \in Runners, StartsDestroy(w), ~expired[w]
               PROVE  ~hold[LabelOf[w]]
    OBVIOUS
  <2>1. wd[w] = "confirm"
    BY DestroyStarts DEF BeginForceDestroy
  <2> QED BY <2>1 DEF WindowInv, Confirmed
<1> QED BY <1>1, WindowInvariant, PTL DEF Spec, HoldHonoured

-----------------------------------------------------------------------------
(***************************************************************************)
(* Guarded.  Three more hypotheses, each the negation of a case in which   *)
(* the script does leave a cluster to nobody: a runner killed or           *)
(* interrupted before its watchdog runs, a deploy that goes on after its   *)
(* runner was killed, and a last destroy attempt that fails for a reason   *)
(* other than the lock of another destroy.                                 *)
(***************************************************************************)
Tended ==
  /\ Disciplined
  /\ KillPoints \subseteq {"stages", "exit", "teardown", "unmark"}
  /\ InterruptPoints \subseteq {"stages"}
  /\ ~KillDuringCreate
  /\ MaxRetriedFailures < 3
  /\ MaxUnretriedFailures = 0

\* What a killed runner or watchdog leaves behind is a destroy.
Children(w) ==
  orphan[w] # "none" => orphan[w] = "destroy" /\ pc[w] \in {"done", "dead"}

\* The runner of w has attempted its last destroy.
LastFailed(w) == pc[w] = "retry" /\ tries[w] = 3

\* The runner of w is about to drop its ACTIVE file although it holds nothing and was
\* not asked to keep the cluster.
GivesUp(w) == (pc[w] = "unmark" \/ LastFailed(w)) /\ ~opt[w].keep /\ ~hold[LabelOf[w]]

\* Guarded, with a marker that is about to be dropped counting for nothing.
Responsible(w) ==
  \/ Armed(w) /\ ~GivesUp(w)
  \/ TakingOver(w)
  \/ pc[w] \in {"teardown", "retry"} /\ ~LastFailed(w)
  \/ wd[w] \in {"term", "confirm", "destroy"}
  \/ orphan[w] = "destroy"
  \/ Kept(w)

ChildrenInv == \A w \in Runners : Children(w)

SomebodyResponsible == up => \E w \in Runners : Responsible(w)

LEMMA ChildrenStep ==
  ASSUME TypeOK, WindowInv, Tended, ChildrenInv, [Next]_vars
  PROVE  ChildrenInv'
<1> USE ConstantsAssumption
<1>1. \A u \in Runners : InStep(u) /\ Children(u)
  BY DEF WindowInv, ChildrenInv
<1>2. ASSUME NEW w \in Runners, Die(w), Alive(w) PROVE ChildrenInv'
  <2>1. PICK child \in {"none", "destroy"} : orphan' = [orphan EXCEPT ![w] = child]
    BY <1>2 DEF Die, Orphans, Tended
  <2>2. pc' = [pc EXCEPT ![w] = "dead"]
    BY <1>2 DEF Die
  <2> QED BY <1>1, <2>1, <2>2 DEF ChildrenInv, Children, TypeOK
<1>3. ASSUME orphan' = orphan,
             NEW w \in Runners, pc[w] \notin {"done", "dead"},
             \A u \in Runners \ {w} : pc'[u] = pc[u]
      PROVE  ChildrenInv'
  BY <1>1, <1>3 DEF ChildrenInv, Children
<1>4. ASSUME orphan' = orphan, pc' = pc PROVE ChildrenInv'
  BY <1>4 DEF ChildrenInv, Children
<1>5. ASSUME NEW w \in Runners, NEW o \in Options, Launch(w, o) PROVE ChildrenInv'
  BY <1>3, <1>5 DEF Launch, TypeOK
<1>6. ASSUME NEW w \in Runners, NEW l \in Labels, stop_stale_watchdog(w, l) PROVE ChildrenInv'
  <2>1. /\ pc[w] = "check" /\ pc' = [pc EXCEPT ![w] = pc'[w]]
        /\ \/ orphan' = orphan
           \/ /\ wdfile[l] # NoRunner /\ wd[wdfile[l]] = "destroy"
              /\ orphan' = [orphan EXCEPT ![wdfile[l]] = "destroy"]
    BY <1>6 DEF stop_stale_watchdog, TypeOK
  <2>2. CASE orphan' = orphan
    BY <1>3, <2>1, <2>2 DEF TypeOK
  <2>3. CASE /\ wdfile[l] # NoRunner /\ wd[wdfile[l]] = "destroy"
             /\ orphan' = [orphan EXCEPT ![wdfile[l]] = "destroy"]
    <3>1. wdfile[l] \in Runners /\ pc[wdfile[l]] \in {"done", "dead"}
      BY <1>1, <2>3 DEF TypeOK, InStep
    <3> QED BY <1>1, <2>1, <2>3, <3>1 DEF ChildrenInv, Children, TypeOK
  <2> QED BY <2>1, <2>2, <2>3
<1>7. ASSUME NEW w \in Runners, Starts(w), ~(\E l \in Labels : stop_stale_watchdog(w, l))
      PROVE  ChildrenInv'
  BY <1>3, <1>4, <1>7
     DEF Starts, SkipVanished, RefuseToStart, ReleaseHold, ClearMarker, WriteActive,
         SpawnWatchdog,
         RecordWatchdog, TypeOK
<1>8. ASSUME NEW w \in Runners, RunsStages(w) \/ Interrupt(w) \/ Exits(w)
      PROVE  ChildrenInv'
  <2>1. CASE RunsStages(w) \/ Interrupt(w)
    BY <1>3, <2>1
       DEF RunsStages, SkipStage, CreateCluster, PassStage, FailStage, AllStagesDone, InStage,
           Interrupt, Tended, runnerVars, TypeOK
  <2>2. CASE Exits(w)
    BY <1>3, <2>2
       DEF Exits, KeepCluster, HoldCluster, BeginTeardown, TeardownSucceeds, TeardownFails,
           RetryTeardown, DropMarker, TypeOK
  <2> QED BY <1>8, <2>1, <2>2
<1>9. ASSUME NEW w \in Runners, OrphanEnds(w) PROVE ChildrenInv'
  <2>1. pc' = pc /\ orphan' = [orphan EXCEPT ![w] = "none"]
    BY <1>9 DEF OrphanEnds, OrphanSucceeds, OrphanFails
  <2> QED BY <1>1, <2>1 DEF ChildrenInv, Children, TypeOK
<1>10. ASSUME NEW w \in Runners, Deadline(w) \/ Watches(w) PROVE ChildrenInv'
  <2>1. CASE KillRunner(w)
    BY <1>2, <1>4, <2>1 DEF KillRunner
  <2>2. CASE ~KillRunner(w)
    BY <1>4, <1>10, <2>2
       DEF Deadline, Watches, StandDown, TermRunner, RunnerGone, GraceOver, HeldClusterGone,
           ClusterAlreadyGone, BeginForceDestroy, ForceDestroySucceeds, ForceDestroyFails,
           runnerVars
  <2> QED BY <2>1, <2>2
<1>11. ASSUME (\E l \in Labels : DestroyByHand(l)) \/ UNCHANGED vars PROVE ChildrenInv'
  BY <1>4, <1>11 DEF DestroyByHand, vars, runnerVars
<1>12. ASSUME NEW w \in Runners, Kill(w) PROVE ChildrenInv'
  BY <1>2, <1>12 DEF Kill
<1> QED BY <1>5, <1>6, <1>7, <1>8, <1>9, <1>10, <1>11, <1>12 DEF Next

\* The part of the state that makes u responsible.
SamePost(u) ==
  /\ pc'[u] = pc[u] /\ wd'[u] = wd[u] /\ opt'[u] = opt[u]
  /\ todo'[u] = todo[u] /\ tries'[u] = tries[u] /\ orphan'[u] = orphan[u]
  /\ active'[LabelOf[u]] = active[LabelOf[u]]
  /\ hold'[LabelOf[u]] <=> hold[LabelOf[u]]

LEMMA PostKept ==
  ASSUME NEW u \in Runners, SamePost(u), Responsible(u)
  PROVE  Responsible(u)'
BY DEF SamePost, Responsible, Armed, WatchdogAlive, GivesUp, LastFailed, TakingOver, Kept

\* A step of w, its watchdog or its child, other than a takeover, leaves the others at
\* their posts.
Apart(w) == \A u \in Runners \ {w} : SamePost(u)

LEMMA OthersStay ==
  ASSUME NEW w \in Runners, Apart(w), up, SomebodyResponsible,
         Responsible(w) => Responsible(w)' \/ \E u \in Runners \ {w} : Responsible(u)
  PROVE  \E u \in Runners : Responsible(u)'
<1>1. CASE \E u \in Runners \ {w} : Responsible(u)
  BY <1>1, PostKept DEF Apart
<1>2. CASE ~\E u \in Runners \ {w} : Responsible(u)
  <2>1. Responsible(w)
    BY <1>2 DEF SomebodyResponsible
  <2> QED BY <1>2, <2>1
<1> QED BY <1>1, <1>2

\* An attempt that fails because of the terraform lock leaves whoever holds the lock.
LEMMA LockHolder ==
  ASSUME NEW w \in Runners, ChildrenInv, LockHeldByOther(w), orphan[w] # "destroy"
  PROVE  \E u \in Runners \ {w} : Responsible(u)
BY DEF LockHeldByOther, ChildrenInv, Children, Responsible, LastFailed

LEMMA StartsResponsible ==
  ASSUME TypeOK, MarkerInv, WindowInv, Tended, ChildrenInv, SomebodyResponsible, up,
         NEW w \in Runners,
         \/ \E o \in Options : Launch(w, o)
         \/ Starts(w)
  PROVE  \E u \in Runners : Responsible(u)'
<1> USE ConstantsAssumption
<1>1. InStep(w) /\ Clearing(w) /\ Children(w)
  BY DEF WindowInv, ChildrenInv
<1>2. CASE \E o \in Options : Launch(w, o)
  <2>1. PICK o \in Options : Launch(w, o)
    BY <1>2
  <2>2. Apart(w)
    BY <2>1 DEF Apart, SamePost, Launch, wdVars, TypeOK, Tended, Disciplined, DistinctLabels
  <2>3. ~Responsible(w)
    BY <1>1, <2>1 DEF Launch, Responsible, Armed, WatchdogAlive, TakingOver, Kept, InStep,
                      Children, Starting
  <2> QED BY <2>2, <2>3, OthersStay
<1>3. ASSUME NEW l \in Labels, SkipVanished(w, l) PROVE \E u \in Runners : Responsible(u)'
  <2>1. /\ pc[w] = "check" /\ todo' = [todo EXCEPT ![w] = @ \ {l}]
        /\ UNCHANGED <<pc, opt, tries, orphan, wd, active, hold>>
    BY <1>3 DEF SkipVanished, wdVars, fileVars
  <2>2. Apart(w)
    BY <2>1 DEF Apart, SamePost, TypeOK
  <2>3. Responsible(w) => Responsible(w)'
    BY <2>1 DEF Responsible, Armed, WatchdogAlive, GivesUp, LastFailed, TakingOver, Kept, TypeOK
  <2> QED BY <2>2, <2>3, OthersStay
<1>4. ASSUME NEW l \in Labels, RefuseToStart(w, l) PROVE \E u \in Runners : Responsible(u)'
  <2>1. /\ pc[w] = "check" /\ l \in todo[w] /\ pc' = [pc EXCEPT ![w] = "exit"]
        /\ UNCHANGED <<todo, opt, tries, orphan, wd, active, hold>>
    BY <1>4 DEF RefuseToStart, wdVars, fileVars
  <2>2. Apart(w)
    BY <2>1 DEF Apart, SamePost, TypeOK
  <2>3. ~Responsible(w)
    BY <1>1, <2>1 DEF Responsible, Armed, WatchdogAlive, TakingOver, Kept, InStep, Children
  <2> QED BY <2>2, <2>3, OthersStay
<1>5. ASSUME NEW l \in Labels, stop_stale_watchdog(w, l) PROVE Responsible(w)'
  BY <1>5 DEF stop_stale_watchdog, Responsible, TakingOver, TypeOK
<1>10. ASSUME ReleaseHold(w) PROVE Responsible(w)'
  BY <1>10 DEF ReleaseHold, Responsible, TakingOver, TypeOK
<1>6. ASSUME ClearMarker(w) PROVE Responsible(w)'
  <2>1. /\ pc[w] = "takeover" /\ pc' = [pc EXCEPT ![w] = "check"]
        /\ todo' = [todo EXCEPT ![w] = @ \ {cur[w]}]
    BY <1>6 DEF ClearMarker
  <2>2. todo'[w] = {}
    BY <1>1, <2>1 DEF Clearing, TypeOK
  <2> QED BY <2>1, <2>2 DEF Responsible, TakingOver, Starting, TypeOK
<1>7. ASSUME WriteActive(w) PROVE Responsible(w)'
  BY <1>7 DEF WriteActive, Responsible, TakingOver, Starting, TypeOK
<1>8. ASSUME SpawnWatchdog(w) PROVE Responsible(w)'
  <2>1. /\ pc[w] = "spawn" /\ pc' = [pc EXCEPT ![w] = "record"]
        /\ wd' = [wd EXCEPT ![w] = "poll"] /\ active' = active
    BY <1>8 DEF SpawnWatchdog, fileVars
  <2> QED BY <1>1, <2>1 DEF InStep, Responsible, Armed, WatchdogAlive, GivesUp, LastFailed, TypeOK
<1>9. ASSUME RecordWatchdog(w) PROVE Responsible(w)'
  <2>1. /\ pc[w] = "record" /\ pc' = [pc EXCEPT ![w] = "stages"]
        /\ wd' = wd /\ active' = active
    BY <1>9 DEF RecordWatchdog, wdVars
  <2> QED BY <1>1, <2>1 DEF InStep, Responsible, Armed, WatchdogAlive, GivesUp, LastFailed, TypeOK
<1> QED BY <1>2, <1>3, <1>4, <1>5, <1>6, <1>7, <1>8, <1>9, <1>10 DEF Starts

\* In the stage loop the watchdog of w is running and its marker is in place.
LEMMA StagesResponsible ==
  ASSUME TypeOK, WindowInv, Tended, NEW w \in Runners, RunsStages(w) \/ Interrupt(w)
  PROVE  Responsible(w)'
<1> USE ConstantsAssumption
<1>1. /\ pc[w] = "stages" /\ (pc' = pc \/ pc' = [pc EXCEPT ![w] = "exit"])
      /\ UNCHANGED <<wd, active>>
  BY DEF RunsStages, SkipStage, CreateCluster, PassStage, FailStage, AllStagesDone,
         InStage, Interrupt, Tended, runnerVars, wdVars, fileVars
<1>2. InStep(w)
  BY DEF WindowInv
<1> QED BY <1>1, <1>2 DEF InStep, Responsible, Armed, WatchdogAlive, GivesUp, LastFailed, TypeOK

LEMMA ExitsResponsible ==
  ASSUME TypeOK, WindowInv, Tended, ChildrenInv, SomebodyResponsible, up, up',
         NEW w \in Runners, Exits(w)
  PROVE  \E u \in Runners : Responsible(u)'
<1> USE ConstantsAssumption
<1>1. InStep(w) /\ Children(w)
  BY DEF WindowInv, ChildrenInv
<1>2. CASE KeepCluster(w)
  <2>1. /\ pc[w] = "exit" /\ opt[w].keep /\ pc' = [pc EXCEPT ![w] = "unmark"]
        /\ UNCHANGED <<todo, opt, tries, orphan, wd, active, hold>>
    BY <1>2 DEF KeepCluster, wdVars, fileVars
  <2>2. Apart(w)
    BY <2>1 DEF Apart, SamePost, TypeOK
  <2>3. Responsible(w) => Responsible(w)'
    BY <2>1 DEF Responsible, Armed, WatchdogAlive, GivesUp, LastFailed, TakingOver, Kept,
                Starting, TypeOK
  <2> QED BY <2>2, <2>3, OthersStay
<1>3. CASE HoldCluster(w)
  <2>1. /\ pc[w] = "exit" /\ pc' = [pc EXCEPT ![w] = "unmark"]
        /\ hold' = [hold EXCEPT ![LabelOf[w]] = TRUE]
        /\ UNCHANGED <<todo, opt, tries, orphan, wd, active>>
    BY <1>3 DEF HoldCluster, wdVars
  <2>2. Apart(w)
    BY <2>1 DEF Apart, SamePost, TypeOK, Tended, Disciplined, DistinctLabels
  <2>3. Responsible(w) => Responsible(w)'
    BY <2>1 DEF Responsible, Armed, WatchdogAlive, GivesUp, LastFailed, TakingOver, Kept,
                Starting, TypeOK
  <2> QED BY <2>2, <2>3, OthersStay
<1>4. CASE BeginTeardown(w)
  BY <1>4 DEF BeginTeardown, Responsible, LastFailed, TypeOK
<1>5. CASE TeardownSucceeds(w)
  BY <1>5 DEF TeardownSucceeds
<1>6. CASE TeardownFails(w)
  <2>1. CASE tries[w] + 1 = 3
    <3>1. LockHeldByOther(w)
      <4>1. ~(tries[w] < MaxRetriedFailures)
        <5>1. tries[w] \in 0 .. 3
          BY DEF TypeOK
        <5> HIDE ConstantsAssumption
        <5>2. tries[w] = 2
          BY <2>1, <5>1
        <5>3. MaxRetriedFailures \in Nat /\ MaxRetriedFailures < 3
          BY ConstantsAssumption DEF Tended
        <5> QED BY <5>2, <5>3
      <4> QED BY <1>6, <4>1 DEF TeardownFails
    <3>2. /\ pc[w] = "teardown" /\ pc' = [pc EXCEPT ![w] = "retry"]
          /\ tries' = [tries EXCEPT ![w] = @ + 1]
          /\ UNCHANGED <<todo, opt, orphan, wd, active, hold>>
      BY <1>6, <2>1 DEF TeardownFails, wdVars, fileVars
    <3>3. orphan[w] # "destroy"
      BY <1>1, <3>2 DEF Children
    <3>4. \E u \in Runners \ {w} : Responsible(u)
      BY <3>1, <3>3, LockHolder
    <3>5. Apart(w)
      BY <3>2 DEF Apart, SamePost, TypeOK
    <3> QED BY <3>4, <3>5, OthersStay
  <2>2. CASE tries[w] + 1 # 3
    BY <1>6, <2>2 DEF TeardownFails, Responsible, LastFailed, TypeOK
  <2> QED BY <2>1, <2>2
<1>8. CASE RetryTeardown(w)
  <2>1. /\ pc[w] = "retry"
        /\ pc' = [pc EXCEPT ![w] = IF tries[w] = 3 THEN "unmark" ELSE "teardown"]
        /\ UNCHANGED <<todo, opt, tries, orphan, wd, active, hold>>
    BY <1>8 DEF RetryTeardown, wdVars, fileVars
  <2>2. Apart(w)
    BY <2>1 DEF Apart, SamePost, TypeOK
  <2>3. CASE tries[w] = 3
    <3>1. Responsible(w) => Responsible(w)'
      BY <2>1, <2>3 DEF Responsible, Armed, WatchdogAlive, GivesUp, LastFailed, TakingOver,
                        Kept, Starting, TypeOK
    <3> QED BY <2>2, <3>1, OthersStay
  <2>4. CASE tries[w] # 3
    BY <2>1, <2>4 DEF Responsible, LastFailed, TypeOK
  <2> QED BY <2>3, <2>4
<1>7. CASE DropMarker(w)
  <2>1. /\ pc[w] = "unmark" /\ pc' = [pc EXCEPT ![w] = "done"]
        /\ active' = IF hold[LabelOf[w]] THEN active ELSE [active EXCEPT ![LabelOf[w]] = NoRunner]
        /\ UNCHANGED <<todo, opt, tries, orphan, wd, hold>>
    BY <1>7 DEF DropMarker, wdVars
  <2>2. Apart(w)
    BY <2>1 DEF Apart, SamePost, TypeOK, Tended, Disciplined, DistinctLabels
  <2>3. ASSUME Responsible(w) PROVE Responsible(w)'
    <3>1. CASE Armed(w) /\ ~GivesUp(w)
      <4>1. WatchdogAlive(w) /\ active[LabelOf[w]] = w /\ (opt[w].keep \/ hold[LabelOf[w]])
        BY <2>1, <3>1 DEF Armed, GivesUp, LastFailed
      <4>2. CASE hold[LabelOf[w]]
        BY <2>1, <4>1, <4>2 DEF Responsible, Armed, WatchdogAlive, GivesUp, LastFailed, TypeOK
      <4>3. CASE opt[w].keep
        BY <2>1, <4>1, <4>3 DEF Responsible, Kept, WatchdogAlive, TypeOK
      <4> QED BY <4>1, <4>2, <4>3
    <3>2. CASE wd[w] \in {"term", "confirm", "destroy"} \/ orphan[w] = "destroy"
      BY <2>1, <3>2 DEF Responsible
    <3>3. ~TakingOver(w) /\ ~Kept(w) /\ pc[w] \notin {"teardown", "retry"}
      BY <2>1 DEF TakingOver, Kept, Starting
    <3> QED BY <2>3, <3>1, <3>2, <3>3 DEF Responsible
  <2> QED BY <2>2, <2>3, OthersStay
<1> QED BY <1>2, <1>3, <1>4, <1>5, <1>6, <1>7, <1>8 DEF Exits

\* kill -9: the watchdog is left, or the orphaned destroy.
LEMMA DeathResponsible ==
  ASSUME TypeOK, WindowInv, Tended, ChildrenInv, SomebodyResponsible, up,
         NEW w \in Runners, Kill(w)
  PROVE  \E u \in Runners : Responsible(u)'
<1> USE ConstantsAssumption
<1>1. InStep(w) /\ Children(w)
  BY DEF WindowInv, ChildrenInv
<1>2. /\ pc[w] \in {"stages", "exit", "teardown", "unmark"} /\ pc' = [pc EXCEPT ![w] = "dead"]
      /\ UNCHANGED <<todo, opt, tries, wd, active, hold>>
  BY DEF Kill, Die, Tended, Exiting, wdVars, fileVars
<1>3. PICK child \in Orphans(w) : orphan' = [orphan EXCEPT ![w] = child]
  BY DEF Kill, Die
<1>4. Apart(w)
  BY <1>2, <1>3 DEF Apart, SamePost, TypeOK
<1>5. Responsible(w) => Responsible(w)'
  <2>1. CASE pc[w] = "teardown"
    BY <1>3, <2>1 DEF Orphans, Responsible, TypeOK
  <2>2. CASE pc[w] # "teardown"
    BY <1>1, <1>2, <2>2 DEF Children, Responsible, Armed, WatchdogAlive, GivesUp, LastFailed,
                            TakingOver,
                            Kept, Starting, TypeOK
  <2> QED BY <2>1, <2>2
<1> QED BY <1>4, <1>5, OthersStay

\* A child ends: OrphanFails is excluded, since nobody retries it.
LEMMA OrphanResponsible ==
  ASSUME TypeOK, Tended, ChildrenInv, up', NEW w \in Runners, OrphanEnds(w)
  PROVE  FALSE
<1>1. unretried = 0 /\ ~(unretried < MaxUnretriedFailures)
  BY DEF TypeOK, Tended
<1>2. orphan[w] # "create"
  BY DEF ChildrenInv, Children
<1>3. OrphanSucceeds(w)
  BY <1>1 DEF OrphanEnds, OrphanFails
<1> QED BY <1>2, <1>3 DEF OrphanSucceeds

LEMMA WatchesResponsible ==
  ASSUME TypeOK, MarkerInv, WindowInv, Tended, ChildrenInv, SomebodyResponsible, up, up',
         NEW w \in Runners, Deadline(w) \/ Watches(w)
  PROVE  \E u \in Runners : Responsible(u)'
<1> USE ConstantsAssumption
<1>1. InStep(w) /\ Children(w)
  BY DEF WindowInv, ChildrenInv
<1>2. CASE Deadline(w)
  <2>1. UNCHANGED <<pc, todo, opt, tries, orphan, wd, active, hold>>
    BY <1>2 DEF Deadline, runnerVars, fileVars
  <2> QED BY <2>1, PostKept DEF SomebodyResponsible, SamePost
<1>3. CASE StandDown(w)
  <2>1. /\ wd[w] \in {"poll", "grace"} /\ ~owns_cluster(w)
        /\ wd' = [wd EXCEPT ![w] = "exited"]
        /\ UNCHANGED <<pc, todo, opt, tries, orphan, active, hold>>
    BY <1>3 DEF StandDown, runnerVars, fileVars
  <2>2. Apart(w)
    BY <2>1 DEF Apart, SamePost, TypeOK
  <2>3. ~Armed(w)
    BY <2>1 DEF Armed, owns_cluster, MarkerInv, SoleMarker
  <2>4. Responsible(w) => Responsible(w)'
    BY <2>1, <2>3 DEF Responsible, LastFailed, TakingOver, Kept, TypeOK
  <2> QED BY <2>2, <2>4, OthersStay
<1>4. CASE TermRunner(w)
  BY <1>4 DEF TermRunner, Responsible, TypeOK
<1>5. CASE KillRunner(w) \/ GraceOver(w) \/ BeginForceDestroy(w)
  BY <1>5 DEF KillRunner, GraceOver, BeginForceDestroy, Responsible, TypeOK
<1>6. CASE RunnerGone(w)
  <2>1. /\ wd[w] = "poll" /\ wd' = [wd EXCEPT ![w] = "grace"] /\ ~Alive(w)
        /\ UNCHANGED <<pc, todo, opt, tries, orphan, active, hold>>
    BY <1>6 DEF RunnerGone, runnerVars, fileVars
  <2>2. Apart(w)
    BY <2>1 DEF Apart, SamePost, TypeOK
  <2>3. Responsible(w) => Responsible(w)'
    BY <2>1 DEF Responsible, Armed, WatchdogAlive, GivesUp, LastFailed, TakingOver, Kept, TypeOK
  <2> QED BY <2>2, <2>3, OthersStay
<1>7. ~HeldClusterGone(w) /\ ~ClusterAlreadyGone(w)
  BY DEF HeldClusterGone, ClusterAlreadyGone
<1>8. ~ForceDestroySucceeds(w)
  BY DEF ForceDestroySucceeds
<1>9. CASE ForceDestroyFails(w)
  <2>1. /\ LockHeldByOther(w) /\ wd' = [wd EXCEPT ![w] = "exited"]
        /\ active' = [active EXCEPT ![LabelOf[w]] = NoRunner]
        /\ UNCHANGED <<pc, todo, opt, tries, orphan, hold>>
    BY <1>9 DEF ForceDestroyFails, Tended, TypeOK, runnerVars
  <2>2. Apart(w)
    BY <2>1 DEF Apart, SamePost, TypeOK, Tended, Disciplined, DistinctLabels
  <2>3. CASE orphan[w] = "destroy"
    BY <2>1, <2>3 DEF Responsible
  <2>4. CASE orphan[w] # "destroy"
    BY <2>1, <2>2, <2>4, LockHolder, OthersStay
  <2> QED BY <2>3, <2>4
<1> QED BY <1>2, <1>3, <1>4, <1>5, <1>6, <1>7, <1>8, <1>9 DEF Watches

\* A billing cluster that nobody asked to keep always has somebody responsible for it.
THEOREM GuardedHolds == Tended => (Spec => []Guarded)
<1> SUFFICES ASSUME Tended PROVE Spec => []Guarded
  OBVIOUS
<1>1. Init => ChildrenInv /\ SomebodyResponsible
  BY DEF Init, ChildrenInv, Children, SomebodyResponsible
<1>2. TypeOK /\ MarkerInv /\ WindowInv /\ ChildrenInv /\ SomebodyResponsible /\ [Next]_vars =>
        SomebodyResponsible'
  <2> SUFFICES ASSUME TypeOK, MarkerInv, WindowInv, ChildrenInv, SomebodyResponsible,
                      [Next]_vars, up'
               PROVE  \E w \in Runners : Responsible(w)'
    BY DEF SomebodyResponsible
  <2>1. ASSUME NEW w \in Runners, RunsStages(w) \/ Interrupt(w)
        PROVE  \E u \in Runners : Responsible(u)'
    BY <2>1, StagesResponsible
  <2>2. ASSUME NEW w \in Runners, OrphanEnds(w)
        PROVE  \E u \in Runners : Responsible(u)'
    BY <2>2, OrphanResponsible
  <2>3. ASSUME NEW w \in Runners, ~(RunsStages(w) \/ Interrupt(w) \/ OrphanEnds(w)),
               \/ \E o \in Options : Launch(w, o)
               \/ Starts(w) \/ Exits(w) \/ Kill(w) \/ Deadline(w) \/ Watches(w)
        PROVE  up
    BY <2>3 DEF Launch, Starts, SkipVanished, RefuseToStart, stop_stale_watchdog, ReleaseHold,
                ClearMarker,
                WriteActive, SpawnWatchdog, RecordWatchdog, Exits, KeepCluster, HoldCluster,
                BeginTeardown, TeardownSucceeds, TeardownFails, RetryTeardown, DropMarker, Kill, Deadline,
                Watches, StandDown, TermRunner, KillRunner, RunnerGone, GraceOver,
                HeldClusterGone, ClusterAlreadyGone, BeginForceDestroy, ForceDestroySucceeds,
                ForceDestroyFails
  <2>4. ASSUME NEW w \in Runners, ~(RunsStages(w) \/ Interrupt(w) \/ OrphanEnds(w)),
               \/ \E o \in Options : Launch(w, o)
               \/ Starts(w) \/ Exits(w) \/ Kill(w) \/ Deadline(w) \/ Watches(w)
        PROVE  \E u \in Runners : Responsible(u)'
    BY <2>3, <2>4, StartsResponsible, ExitsResponsible, DeathResponsible, WatchesResponsible
  <2>5. ASSUME (\E l \in Labels : DestroyByHand(l)) \/ UNCHANGED vars
        PROVE  \E u \in Runners : Responsible(u)'
    <3>1. up /\ UNCHANGED <<pc, todo, opt, tries, orphan, wd, active, hold>>
      BY <2>5 DEF DestroyByHand, vars, runnerVars, wdVars, fileVars
    <3> QED BY <3>1, PostKept DEF SomebodyResponsible, SamePost
  <2> QED BY <2>1, <2>2, <2>4, <2>5 DEF Next
<1>3. SomebodyResponsible => Guarded
  BY DEF SomebodyResponsible, Responsible, Guarded
<1>4. Disciplined
  BY DEF Tended
<1>5. TypeOK /\ WindowInv /\ ChildrenInv /\ [Next]_vars => ChildrenInv'
  BY ChildrenStep
<1>6. Spec => [](TypeOK /\ MarkerInv /\ WindowInv)
  BY <1>4, WindowInvariant
<1> QED BY <1>1, <1>2, <1>3, <1>5, <1>6, PTL DEF Spec
=============================================================================
