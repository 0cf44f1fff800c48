------------------------------ MODULE SessionProofs ------------------------------
(***************************************************************************)
(* Theorems about Session, for any services, any names of runs and any     *)
(* number of jobs.                                                         *)
(***************************************************************************)
EXTENDS Session, TLAPS

--------------------------------------------------------------------------------
(***************************************************************************)
(* Type correctness.                                                       *)
(***************************************************************************)

\* The main thread and the loops of services.
LEMMA ThreadType ==
  ASSUME TypeOK, NEW s \in Services, LoopStep(s) \/ MainStep(s)
  PROVE  TypeOK'
<1> USE SessionAssumption DEF TypeOK, Goto, Threads, Phases, Verdicts, nativeVars
<1>1. CASE Create(s)
  BY <1>1 DEF Create
<1>2. CASE CommandStop(s)
  BY <1>2 DEF CommandStop
<1>3. CASE Destroy(s)
  BY <1>3 DEF Destroy
<1>4. CASE Sample(s)
  BY <1>4 DEF Sample, Turn
<1>5. CASE Leaves(s)
  BY <1>5 DEF Leaves
<1>6. CASE SetBlocked(s)
  BY <1>6 DEF SetBlocked
<1>7. CASE MarkBlocked(s)
  BY <1>7 DEF MarkBlocked
<1>8. CASE Look(s)
  BY <1>8 DEF Look
<1>9. CASE StartFinds(s)
  BY <1>9 DEF StartFinds
<1>10. CASE StartBegins(s)
  BY <1>10 DEF StartBegins
<1>11. CASE Launch(s)
  BY <1>11 DEF Launch
<1>12. QED
  BY <1>1, <1>2, <1>3, <1>4, <1>5, <1>6, <1>7, <1>8, <1>9, <1>10, <1>11 DEF LoopStep, MainStep

\* stop of the controller, called from any thread.
LEMMA StopType ==
  ASSUME TypeOK, NEW t \in Threads, StopStep(t)
  PROVE  TypeOK'
<1> USE SessionAssumption DEF TypeOK, Goto, Threads, Phases, Verdicts, nativeVars
<1>1. CASE StopBegins(t)
  BY <1>1 DEF StopBegins
<1>2. CASE StopTakes(t)
  BY <1>2 DEF StopTakes
<1>3. CASE StopEnds(t)
  <2>1. svc' \in [Services -> {"none", "up", "stopping", "gone"}] /\ main' \in Services \cup {None}
    BY <1>3 DEF StopEnds
  <2>2. running' \in [Services -> BOOLEAN]
    BY <1>3 DEF StopEnds
  <2>3. at' \in [Threads -> {"off", "idle", "top", "start", "launch", "stop",
                            "take", "reset", "block", "mark", "look"}]
    BY <1>3 DEF StopEnds
  <2>4. QED
    BY <1>3, <2>1, <2>2, <2>3 DEF StopEnds
<1>4. QED
  BY <1>1, <1>2, <1>3 DEF StopStep

\* Runs and jobs.
LEMMA RunType ==
  ASSUME TypeOK, NEW g \in Runs, RunStep(g)
  PROVE  TypeOK'
<1> USE SessionAssumption DEF TypeOK, Phases, uiVars, nativeVars, Moves, Emit, Drained
<1>1. CASE Dial(g)
  BY <1>1 DEF Dial
<1>2. CASE SetupFails(g)
  BY <1>2 DEF SetupFails
<1>3. CASE DialFails(g)
  BY <1>3 DEF DialFails
<1>4. CASE Registers(g)
  BY <1>4 DEF Registers
<1>5. CASE JobStarts(g)
  BY <1>5 DEF JobStarts
<1>6. CASE SessionEnds(g)
  BY <1>6 DEF SessionEnds
<1>7. CASE BacksOff(g)
  BY <1>7 DEF BacksOff
<1>8. CASE Dies(g)
  BY <1>8 DEF Dies
<1>9. CASE JobEnds(g)
  BY <1>9 DEF JobEnds
<1>10. CASE RunWrites(g)
  BY <1>10 DEF RunWrites
<1>11. CASE JobWrites(g)
  BY <1>11 DEF JobWrites
<1>12. QED
  BY <1>1, <1>2, <1>3, <1>4, <1>5, <1>6, <1>7, <1>8, <1>9, <1>10, <1>11 DEF RunStep, TaskStep, SetupStep, DialStep

\* Nothing has been created or started at first.
LEMMA InitType == Init => TypeOK
<1> SUFFICES ASSUME Init PROVE TypeOK
  OBVIOUS
<1>1. at \in [Threads -> {"off", "idle", "top", "start", "launch", "stop",
                         "take", "reset", "block", "mark", "look"}]
  BY DEF Init
<1>2. /\ svc \in [Services -> {"none", "up", "stopping", "gone"}]
      /\ verdict \in [Services -> Verdicts \cup {None}]
      /\ running \in [Services -> BOOLEAN]
  BY DEF Init
<1>3. /\ run \in [Runs -> {"none", "idle", "dialing", "session", "failed", "ended"}]
      /\ cancelled \in [Runs -> BOOLEAN]
      /\ told \in [Runs -> Phases \cup {"none", "any"}]
      /\ job \in [Runs -> {"none", "serving", "ending", "reporting"}]
  BY DEF Init
<1>4. QED
  BY <1>1, <1>2, <1>3 DEF Init, TypeOK, Phases

\* Every variable keeps its type.
THEOREM TypeCorrect == Spec => []TypeOK
<1>1. Init => TypeOK
  BY InitType
<1>2. TypeOK /\ [Next]_vars => TypeOK'
  <2> SUFFICES ASSUME TypeOK, [Next]_vars PROVE TypeOK'
    OBVIOUS
  <2>1. ASSUME NEW s \in Services, LoopStep(s) \/ MainStep(s) PROVE TypeOK'
    BY <2>1, ThreadType
  <2>2. ASSUME NEW t \in Threads, StopStep(t) PROVE TypeOK'
    BY <2>2, StopType
  <2>3. ASSUME NEW g \in Runs, RunStep(g) PROVE TypeOK'
    BY <2>3, RunType
  <2>4. CASE UNCHANGED vars
    BY <2>4 DEF TypeOK, vars, uiVars, nativeVars
  <2>5. QED
    BY <2>1, <2>2, <2>3, <2>4 DEF Next
<1>3. QED
  BY <1>1, <1>2, PTL DEF Spec

--------------------------------------------------------------------------------
(***************************************************************************)
(* The steps of runs and jobs.                                             *)
(***************************************************************************)

\* A run and its job touch neither a thread nor what Provider holds.
LEMMA RunFrame ==
  ASSUME NEW g \in Runs, RunStep(g)
  PROVE  UNCHANGED <<uiVars, monitor, current, inner, blanked>>
BY DEF RunStep, TaskStep, SetupStep, DialStep, Moves, uiVars, nativeVars, Dial, SetupFails, DialFails, Registers,
       JobStarts, SessionEnds, BacksOff, Dies, JobEnds, RunWrites, JobWrites

\* A run that was not stopped goes on for ever; only a stopped run dies.
LEMMA RunGoesOn ==
  ASSUME TypeOK, NEW g \in Runs, RunStep(g), NEW h \in Runs
  PROVE  \/ cancelled'[h] = cancelled[h] /\ (run'[h] = "none" <=> run[h] = "none")
         \/ cancelled[h] /\ ~cancelled'[h] /\ run'[h] = "none"
<1> USE DEF TypeOK, Moves
<1>1. CASE Dial(g)
  BY <1>1 DEF Dial
<1>2. CASE SetupFails(g)
  BY <1>2 DEF SetupFails
<1>3. CASE DialFails(g)
  BY <1>3 DEF DialFails
<1>4. CASE Registers(g)
  BY <1>4 DEF Registers
<1>5. CASE JobStarts(g)
  BY <1>5 DEF JobStarts
<1>6. CASE SessionEnds(g)
  BY <1>6 DEF SessionEnds
<1>7. CASE BacksOff(g)
  BY <1>7 DEF BacksOff
<1>8. CASE JobEnds(g)
  BY <1>8 DEF JobEnds, uiVars, nativeVars
<1>9. CASE RunWrites(g)
  BY <1>9 DEF RunWrites, uiVars, nativeVars
<1>10. CASE JobWrites(g)
  BY <1>10 DEF JobWrites, uiVars, nativeVars
<1>11. CASE Dies(g)
  BY <1>11 DEF Dies
<1>12. QED
  BY <1>1, <1>2, <1>3, <1>4, <1>5, <1>6, <1>7, <1>8, <1>9, <1>10, <1>11 DEF RunStep, TaskStep, SetupStep, DialStep

\* The invariant says nothing of the progress of a run that was not stopped.
LEMMA RunKeeps ==
  ASSUME SessionInv, NEW g \in Runs, RunStep(g)
  PROVE  SessionInv'
<1>1. TypeOK'
  BY RunType DEF SessionInv
<1>2. UNCHANGED <<uiVars, monitor, current, inner, blanked>>
  BY RunFrame
<1>3. MonitorInv' /\ PlaceInv' /\ HeldIsHeard' /\ LoopKnows'
  BY <1>2 DEF SessionInv, MonitorInv, PlaceInv, HeldIsHeard, LoopKnows, uiVars
<1>4. ASSUME NEW h \in Runs
      PROVE  \/ cancelled'[h] = cancelled[h] /\ (run'[h] = "none" <=> run[h] = "none")
             \/ cancelled[h] /\ ~cancelled'[h] /\ run'[h] = "none"
  BY RunGoesOn DEF SessionInv
<1>5. HeldInv'
  BY <1>2, <1>4 DEF SessionInv, HeldInv, TypeOK
<1>6. OneLiveRun'
  BY <1>2, <1>4 DEF SessionInv, OneLiveRun
<1>7. QED
  BY <1>1, <1>3, <1>5, <1>6 DEF SessionInv

--------------------------------------------------------------------------------
(***************************************************************************)
(* The steps of the main thread and of the loops.                          *)
(***************************************************************************)

\* Only Launch and stop change what Provider holds.
LEMMA ThreadFrame ==
  ASSUME NEW s \in Services, LoopStep(s) \/ MainStep(s), ~Launch(s)
  PROVE  UNCHANGED nativeVars
BY DEF LoopStep, MainStep, Create, CommandStop, Destroy, Sample, Leaves, SetBlocked, MarkBlocked,
       Look, StartFinds, StartBegins

\* A thread enters and leaves the monitor with what it has done.
LEMMA ThreadMonitor ==
  ASSUME SessionInv, NEW s \in Services, LoopStep(s) \/ MainStep(s)
  PROVE  MonitorInv'
<1> USE SessionAssumption DEF SessionInv, TypeOK, Goto, Threads, nativeVars, MonitorInv, HeldInv, HeldIsHeard, PlaceInv
<1>1. CASE Create(s)
  BY <1>1 DEF Create
<1>2. CASE CommandStop(s)
  BY <1>2 DEF CommandStop
<1>3. CASE Destroy(s)
  BY <1>3 DEF Destroy
<1>4. CASE Sample(s)
  <2>1. PICK l \in {"stop", "block", "start", "look"} : at' = [at EXCEPT ![s] = l]
    BY <1>4 DEF Sample, Turn, Verdicts
  <2>2. at[s] = "top" /\ UNCHANGED <<monitor, current, inner>>
    BY <1>4 DEF Sample
  <2>3. QED
    BY <2>1, <2>2
<1>5. CASE Leaves(s)
  BY <1>5 DEF Leaves
<1>6. CASE SetBlocked(s)
  BY <1>6 DEF SetBlocked
<1>7. CASE MarkBlocked(s)
  BY <1>7 DEF MarkBlocked
<1>8. CASE Look(s)
  BY <1>8 DEF Look
<1>9. CASE StartFinds(s)
  BY <1>9 DEF StartFinds, IsRunning
<1>10. CASE StartBegins(s)
  BY <1>10 DEF StartBegins, IsRunning
<1>11. CASE Launch(s)
  BY <1>11 DEF Launch, Unused
<1>12. QED
  BY <1>1, <1>2, <1>3, <1>4, <1>5, <1>6, <1>7, <1>8, <1>9, <1>10, <1>11 DEF LoopStep, MainStep

\* Services, loops and the main thread stay where they belong.
LEMMA ThreadPlace ==
  ASSUME SessionInv, NEW s \in Services, LoopStep(s) \/ MainStep(s)
  PROVE  PlaceInv'
<1> USE SessionAssumption DEF SessionInv, TypeOK, Goto, Threads, nativeVars, PlaceInv
<1>1. CASE Create(s)
  BY <1>1 DEF Create
<1>2. CASE CommandStop(s)
  BY <1>2 DEF CommandStop
<1>3. CASE Destroy(s)
  BY <1>3 DEF Destroy
<1>4. CASE Sample(s)
  <2>1. PICK v \in Verdicts : /\ verdict' = [verdict EXCEPT ![s] = v]
                            /\ blanked' = (blanked \/ v = "unconfigured")
                            /\ Goto(s, Turn(s, v))
    BY <1>4 DEF Sample
  <2>2. s # Main /\ at[s] = "top" /\ Turn(s, v) # "idle"
    BY <1>4 DEF Sample, Turn, Verdicts
  <2>3. svc[s] # "none"
    BY <2>2
  <2>4. at' = [at EXCEPT ![s] = Turn(s, v)]
    BY <2>1
  <2> HIDE DEF Turn
  <2>5. UNCHANGED <<svc, main, running>>
    BY <1>4 DEF Sample
  <2>6. at'[Main] = at[Main]
    BY <2>2, <2>4
  <2>7. ASSUME NEW o \in Services
        PROVE  /\ at'[o] # "idle"
               /\ svc[o] = "none" => at'[o] = "off"
               /\ verdict'[o] = "unconfigured" => blanked'
    <3>1. CASE o = s
      BY <2>1, <2>2, <2>3, <2>4, <3>1
    <3>2. CASE o # s
      BY <2>1, <2>2, <2>4, <3>2
    <3>3. QED
      BY <3>1, <3>2
  <2>8. QED
    BY <2>5, <2>6, <2>7
<1>5. CASE Leaves(s)
  BY <1>5 DEF Leaves
<1>6. CASE SetBlocked(s)
  BY <1>6 DEF SetBlocked
<1>7. CASE MarkBlocked(s)
  BY <1>7 DEF MarkBlocked
<1>8. CASE Look(s)
  BY <1>8 DEF Look, Verdicts
<1>9. CASE StartFinds(s)
  BY <1>9 DEF StartFinds, IsRunning
<1>10. CASE StartBegins(s)
  BY <1>10 DEF StartBegins, IsRunning
<1>11. CASE Launch(s)
  BY <1>11 DEF Launch, Unused
<1>12. QED
  BY <1>1, <1>2, <1>3, <1>4, <1>5, <1>6, <1>7, <1>8, <1>9, <1>10, <1>11 DEF LoopStep, MainStep

\* A launched run is new, and so neither stopped nor over.
LEMMA ThreadHeld ==
  ASSUME SessionInv, NEW s \in Services, LoopStep(s) \/ MainStep(s)
  PROVE  (HeldInv /\ OneLiveRun /\ HeldIsHeard)'
<1> USE SessionAssumption DEF SessionInv, TypeOK, Goto, Threads, nativeVars, MonitorInv, HeldInv, OneLiveRun, HeldIsHeard
<1>1. CASE Create(s)
  BY <1>1 DEF Create
<1>2. CASE CommandStop(s)
  BY <1>2 DEF CommandStop
<1>3. CASE Destroy(s)
  BY <1>3 DEF Destroy
<1>4. CASE Sample(s)
  BY <1>4 DEF Sample, Turn
<1>5. CASE Leaves(s)
  BY <1>5 DEF Leaves
<1>6. CASE SetBlocked(s)
  BY <1>6 DEF SetBlocked
<1>7. CASE MarkBlocked(s)
  BY <1>7 DEF MarkBlocked
<1>8. CASE Look(s)
  BY <1>8 DEF Look
<1>9. CASE StartFinds(s)
  BY <1>9 DEF StartFinds, IsRunning
<1>10. CASE StartBegins(s)
  BY <1>10 DEF StartBegins, IsRunning
<1>11. CASE Launch(s)
  BY <1>11 DEF Launch, Unused
<1>12. QED
  BY <1>1, <1>2, <1>3, <1>4, <1>5, <1>6, <1>7, <1>8, <1>9, <1>10, <1>11 DEF LoopStep, MainStep

\* running is set when Provider holds a run.
LEMMA ThreadLoop ==
  ASSUME SessionInv, NEW s \in Services, LoopStep(s) \/ MainStep(s)
  PROVE  LoopKnows'
<1> USE SessionAssumption DEF SessionInv, TypeOK, Goto, Threads, nativeVars, MonitorInv, HeldInv, PlaceInv, LoopKnows
<1>1. CASE Create(s)
  BY <1>1 DEF Create
<1>2. CASE CommandStop(s)
  BY <1>2 DEF CommandStop
<1>3. CASE Destroy(s)
  BY <1>3 DEF Destroy
<1>4. CASE Sample(s)
  BY <1>4 DEF Sample, Turn
<1>5. CASE Leaves(s)
  BY <1>5 DEF Leaves
<1>6. CASE SetBlocked(s)
  BY <1>6 DEF SetBlocked
<1>7. CASE MarkBlocked(s)
  BY <1>7 DEF MarkBlocked
<1>8. CASE Look(s)
  BY <1>8 DEF Look
<1>9. CASE StartFinds(s)
  BY <1>9 DEF StartFinds, IsRunning
<1>10. CASE StartBegins(s)
  BY <1>10 DEF StartBegins, IsRunning
<1>11. CASE Launch(s)
  BY <1>11 DEF Launch, Unused
<1>12. QED
  BY <1>1, <1>2, <1>3, <1>4, <1>5, <1>6, <1>7, <1>8, <1>9, <1>10, <1>11 DEF LoopStep, MainStep

--------------------------------------------------------------------------------
(***************************************************************************)
(* stop of the controller.                                                 *)
(***************************************************************************)

\* stop leaves the monitor with nothing held and nothing heard.
LEMMA StopMonitor ==
  ASSUME SessionInv, NEW t \in Threads, StopStep(t)
  PROVE  MonitorInv'
<1> USE SessionAssumption DEF SessionInv, TypeOK, Goto, Threads, nativeVars, MonitorInv, HeldInv, HeldIsHeard, PlaceInv
<1>1. CASE StopBegins(t)
  BY <1>1 DEF StopBegins
<1>2. CASE StopTakes(t)
  BY <1>2 DEF StopTakes
<1>3. CASE StopEnds(t)
  BY <1>3 DEF StopEnds
<1>4. QED
  BY <1>1, <1>2, <1>3 DEF StopStep

\* The caller of stop goes on where it belongs.
LEMMA StopPlace ==
  ASSUME SessionInv, NEW t \in Threads, StopStep(t)
  PROVE  PlaceInv'
<1> USE SessionAssumption DEF SessionInv, TypeOK, Goto, Threads, nativeVars, PlaceInv
<1>1. CASE StopBegins(t)
  BY <1>1 DEF StopBegins
<1>2. CASE StopTakes(t)
  BY <1>2 DEF StopTakes
<1>3. CASE StopEnds(t)
  BY <1>3 DEF StopEnds
<1>4. QED
  BY <1>1, <1>2, <1>3 DEF StopStep

\* What stop takes out is cancelled.
LEMMA StopHeld ==
  ASSUME SessionInv, NEW t \in Threads, StopStep(t)
  PROVE  (HeldInv /\ OneLiveRun /\ HeldIsHeard)'
<1> USE SessionAssumption DEF SessionInv, TypeOK, Goto, Threads, nativeVars, MonitorInv, HeldInv, OneLiveRun, HeldIsHeard
<1>1. CASE StopBegins(t)
  BY <1>1 DEF StopBegins
<1>2. CASE StopTakes(t)
  BY <1>2 DEF StopTakes
<1>3. CASE StopEnds(t)
  BY <1>3 DEF StopEnds
<1>4. QED
  BY <1>1, <1>2, <1>3 DEF StopStep

\* When the provider is stopped, the loop forgets it or another thread is in stop.
LEMMA StopLoop ==
  ASSUME SessionInv, NEW t \in Threads, StopStep(t)
  PROVE  LoopKnows'
<1> USE SessionAssumption DEF SessionInv, TypeOK, Goto, Threads, nativeVars, MonitorInv, HeldInv, PlaceInv, LoopKnows, Verdicts
<1>1. CASE StopBegins(t)
  BY <1>1 DEF StopBegins
<1>2. CASE StopTakes(t)
  BY <1>2 DEF StopTakes
<1>3. CASE StopEnds(t)
  BY <1>3 DEF StopEnds
<1>4. QED
  BY <1>1, <1>2, <1>3 DEF StopStep

--------------------------------------------------------------------------------
(***************************************************************************)
(* The theorems.                                                           *)
(***************************************************************************)

\* The invariant holds before the first service is created.
LEMMA InitSession == Init => SessionInv
<1> SUFFICES ASSUME Init PROVE SessionInv
  OBVIOUS
<1> USE SessionAssumption DEF Init, Threads
<1>1. TypeOK
  BY InitType
<1>2. MonitorInv
  BY DEF MonitorInv
<1>3. HeldInv /\ OneLiveRun /\ HeldIsHeard
  BY DEF HeldInv, OneLiveRun, HeldIsHeard
<1>4. PlaceInv
  BY DEF PlaceInv, Verdicts
<1>5. LoopKnows
  BY DEF LoopKnows
<1>6. QED
  BY <1>1, <1>2, <1>3, <1>4, <1>5 DEF SessionInv

\* No step of a thread, a run or a job breaks the invariant.
LEMMA StepSession == SessionInv /\ [Next]_vars => SessionInv'
<1> SUFFICES ASSUME SessionInv, [Next]_vars PROVE SessionInv'
  OBVIOUS
<1>1. ASSUME NEW s \in Services, LoopStep(s) \/ MainStep(s) PROVE SessionInv'
  <2>1. TypeOK'
    BY <1>1, ThreadType DEF SessionInv
  <2>2. MonitorInv' /\ PlaceInv'
    BY <1>1, ThreadMonitor, ThreadPlace
  <2>3. (HeldInv /\ OneLiveRun /\ HeldIsHeard)' /\ LoopKnows'
    BY <1>1, ThreadHeld, ThreadLoop
  <2>4. QED
    BY <2>1, <2>2, <2>3 DEF SessionInv
<1>2. ASSUME NEW t \in Threads, StopStep(t) PROVE SessionInv'
  <2>1. TypeOK'
    BY <1>2, StopType DEF SessionInv
  <2>2. MonitorInv' /\ PlaceInv'
    BY <1>2, StopMonitor, StopPlace
  <2>3. (HeldInv /\ OneLiveRun /\ HeldIsHeard)' /\ LoopKnows'
    BY <1>2, StopHeld, StopLoop
  <2>4. QED
    BY <2>1, <2>2, <2>3 DEF SessionInv
<1>3. ASSUME NEW g \in Runs, RunStep(g) PROVE SessionInv'
  BY <1>3, RunKeeps
<1>4. CASE UNCHANGED vars
  BY <1>4 DEF vars, uiVars, nativeVars, SessionInv, TypeOK, MonitorInv, HeldInv, PlaceInv,
              OneLiveRun, HeldIsHeard, LoopKnows
<1>5. QED
  BY <1>1, <1>2, <1>3, <1>4 DEF Next

\* The inductive invariant of the phone: where start, stop, the loop and the main thread
\* are determines what Provider holds and whom Bridge hears.
THEOREM SessionCorrect == Spec => []SessionInv
BY InitSession, StepSession, PTL DEF Spec

\* However loops, services and stops overlap, no two runs are live.
THEOREM NeverTwoRuns == Spec => []OneLiveRun
<1>1. SessionInv => OneLiveRun
  BY DEF SessionInv
<1>2. QED
  BY <1>1, SessionCorrect, PTL

\* Between calls of start and stop, Bridge hears exactly the run that is held.
THEOREM HeardIsHeld == Spec => []HeldIsHeard
<1>1. SessionInv => HeldIsHeard
  BY DEF SessionInv
<1>2. QED
  BY <1>1, SessionCorrect, PTL

\* The loop of the first service, while it was always configured, does not wait for a
\* provider that is gone.
THEOREM LoopIsRight == Spec => []LoopKnows
<1>1. SessionInv => LoopKnows
  BY DEF SessionInv
<1>2. QED
  BY <1>1, SessionCorrect, PTL

================================================================================
