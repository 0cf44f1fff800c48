-------------------------------- MODULE Session --------------------------------
(***************************************************************************)
(* A phone that shares: the foreground service and its policy loop         *)
(* (ProviderService.kt), the controller that owns the native provider and  *)
(* the status the user sees (ProviderController.kt), and the provider with *)
(* its reconnect loop, its generation counter and its jobs (sc-mobile,     *)
(* provider-lib).                                                          *)
(*                                                                         *)
(* Three kinds of threads run at once.  The main thread creates, commands  *)
(* and destroys services.  The loop of each service is a coroutine: its    *)
(* cancellation is seen at isActive and delay only, so the loop of a       *)
(* destroyed service may be in the middle of a turn while the next service *)
(* runs.  start and stop of the controller hold its monitor.  The runs of  *)
(* the provider and their jobs report events on threads of the runtime,    *)
(* without the monitor; the status is read and written back, not updated   *)
(* atomically.                                                             *)
(*                                                                         *)
(* A generation number is compared for equality only, so a run stands for  *)
(* its number, and None for one that no run has.  Of the status only the   *)
(* phase is kept, as far as the loop tells phases apart: "down" is STOPPED *)
(* or ERROR, "up" is CONNECTING, REGISTERED or BLOCKED.  The two events of *)
(* a job write back the phase they read before: "any" stands for it.       *)
(* How long the back-off is, and the 15 s between turns of the loop, are   *)
(* time and left out.                                                      *)
(***************************************************************************)
EXTENDS Integers, FiniteSets

CONSTANTS
  Services,   \* instances of ProviderService, each created at most once
  Runs,       \* names for runs of Provider.start that are not over yet
  Main,       \* the main thread
  None,
  MaxJobs     \* bound: jobs at once, of all runs

Verdicts == {"ok", "blocked", "unconfigured"}

ASSUME SessionAssumption ==
  /\ Main \notin Services
  /\ None \notin Runs \cup Services \cup {Main}
  /\ None \notin Verdicts
  /\ IsFiniteSet(Runs) /\ MaxJobs \in Nat

Threads == Services \cup {Main}

VARIABLES
  svc,       \* the service: "none", "up", "stopping" (stopSelf called), "gone" (scope cancelled)
  at,        \* where each thread is
  verdict,   \* the loop: what it sampled in the turn it is in, None between turns
  running,   \* the loop: its local running
  main,      \* the service whose onStartCommand or onDestroy the main thread is in
  monitor,   \* the thread in a @Synchronized method of the controller
  phase,     \* ProviderController._status.value.phase
  current,   \* Provider.generation: the run whose number it is, or None
  inner,     \* Provider.inner: the run it holds, or None
  run,       \* where the task of a run is; "none" when it is finished
  cancelled, \* the CancellationToken of a run
  told,      \* the event of a run past Bridge's check: the phase to write, or "none"
  blanked,   \* history: some loop has sampled settings without a token
  job        \* one job of a run: "none", "serving", "ending" (its token cancelled), or
             \* "reporting" (its JobFinished is past Bridge's check)

uiVars     == <<svc, main, at, verdict, running>>
nativeVars == <<current, inner, run, cancelled>>
vars == <<uiVars, monitor, phase, nativeVars, told, job, blanked>>

Phases == {"down", "up"}

TypeOK ==
  /\ svc \in [Services -> {"none", "up", "stopping", "gone"}]
  /\ at \in [Threads -> {"off", "idle", "top", "start", "launch", "stop",
                         "take", "reset", "block", "mark", "look"}]
  /\ verdict \in [Services -> Verdicts \cup {None}]
  /\ running \in [Services -> BOOLEAN]
  /\ main \in Services \cup {None}
  /\ monitor \in Threads \cup {None}
  /\ phase \in Phases
  /\ current \in Runs \cup {None}
  /\ inner \in Runs \cup {None}
  /\ run \in [Runs -> {"none", "idle", "dialing", "session", "failed", "ended"}]
  /\ cancelled \in [Runs -> BOOLEAN]
  /\ told \in [Runs -> Phases \cup {"none", "any"}]
  /\ blanked \in BOOLEAN
  /\ job \in [Runs -> {"none", "serving", "ending", "reporting"}]

Init ==
  /\ svc = [s \in Services |-> "none"]
  /\ at = [t \in Threads |-> IF t = Main THEN "idle" ELSE "off"]
  /\ verdict = [s \in Services |-> None]
  /\ running = [s \in Services |-> FALSE]
  /\ main = None
  /\ monitor = None
  /\ phase = "down"
  /\ current = None
  /\ inner = None
  /\ run = [g \in Runs |-> "none"]
  /\ cancelled = [g \in Runs |-> FALSE]
  /\ told = [g \in Runs |-> "none"]
  /\ job = [g \in Runs |-> "none"]
  /\ blanked = FALSE

Goto(t, l) == at' = [at EXCEPT ![t] = l]

--------------------------------------------------------------------------------
(***************************************************************************)
(* The main thread.                                                        *)
(***************************************************************************)

\* onCreate: the loop is launched, unless the system refuses the foreground.
Create(s) ==
  /\ at[Main] = "idle"
  /\ svc[s] = "none"
  /\ \A o \in Services : svc[o] \in {"none", "gone"}
  /\ \/ svc' = [svc EXCEPT ![s] = "up"] /\ Goto(s, "top")
     \/ svc' = [svc EXCEPT ![s] = "stopping"] /\ UNCHANGED at
  /\ UNCHANGED <<verdict, running, main, monitor, phase, nativeVars, told, job, blanked>>

\* onStartCommand with ACTION_STOP.
CommandStop(s) ==
  /\ at[Main] = "idle"
  /\ svc[s] \in {"up", "stopping"}
  /\ main' = s
  /\ Goto(Main, "stop")
  /\ UNCHANGED <<svc, verdict, running, monitor, phase, nativeVars, told, job, blanked>>

\* onDestroy: the scope is cancelled before the controller is stopped.
Destroy(s) ==
  /\ at[Main] = "idle"
  /\ svc[s] = "stopping"
  /\ svc' = [svc EXCEPT ![s] = "gone"]
  /\ main' = s
  /\ Goto(Main, "stop")
  /\ UNCHANGED <<verdict, running, monitor, phase, nativeVars, told, job, blanked>>

--------------------------------------------------------------------------------
(***************************************************************************)
(* A turn of the service's loop.                                           *)
(***************************************************************************)

\* Where the loop goes by what it sampled: it stops, pauses, starts or leaves alone.
Turn(s, v) ==
  CASE v = "unconfigured"           -> "stop"
    [] v = "blocked" /\ running[s]  -> "stop"
    [] v = "blocked" /\ ~running[s] -> "block"
    [] v = "ok" /\ ~running[s]      -> "start"
    [] v = "ok" /\ running[s]       -> "look"

\* isActive, then one reading of the settings and of the device, which change by
\* themselves; running is the loop's own.
Sample(s) ==
  /\ at[s] = "top"
  /\ svc[s] # "gone"
  /\ \E v \in Verdicts :
       /\ verdict' = [verdict EXCEPT ![s] = v]
       /\ blanked' = (blanked \/ v = "unconfigured")
       /\ Goto(s, Turn(s, v))
  /\ UNCHANGED <<svc, main, running, monitor, phase, nativeVars, told, job>>

Leaves(s) ==
  /\ at[s] = "top"
  /\ svc[s] = "gone"
  /\ Goto(s, "off")
  /\ UNCHANGED <<svc, main, verdict, running, monitor, phase, nativeVars, told, job, blanked>>

\* setBlocked: the phase is read, and written when it was not REGISTERED, one of those
\* that are "up".
SetBlocked(s) ==
  /\ at[s] = "block"
  /\ \/ Goto(s, "mark")
     \/ phase = "up" /\ Goto(s, "look")
  /\ UNCHANGED <<svc, main, verdict, running, monitor, phase, nativeVars, told, job, blanked>>

MarkBlocked(s) ==
  /\ at[s] = "mark"
  /\ phase' = "up"
  /\ Goto(s, "look")
  /\ UNCHANGED <<svc, main, verdict, running, monitor, nativeVars, told, job, blanked>>

\* The end of a turn: the loop infers from the phase whether the provider is up.
Look(s) ==
  /\ at[s] = "look"
  /\ running' = [running EXCEPT ![s] = @ /\ phase # "down"]
  /\ verdict' = [verdict EXCEPT ![s] = None]
  /\ Goto(s, "top")
  /\ UNCHANGED <<svc, main, monitor, phase, nativeVars, told, job, blanked>>

--------------------------------------------------------------------------------
(***************************************************************************)
(* start and stop of the controller, under its monitor.                    *)
(***************************************************************************)

\* Provider.is_running: a finished task does not count.
IsRunning == inner # None /\ run[inner] # "none"

\* start returns at once when a run is up; the loop then sets running.
StartFinds(s) ==
  /\ at[s] = "start"
  /\ monitor = None
  /\ IsRunning
  /\ running' = [running EXCEPT ![s] = TRUE]
  /\ Goto(s, "look")
  /\ UNCHANGED <<svc, main, verdict, monitor, phase, nativeVars, told, job, blanked>>

StartBegins(s) ==
  /\ at[s] = "start"
  /\ monitor = None
  /\ ~IsRunning
  /\ monitor' = s
  /\ phase' = "up"
  /\ Goto(s, "launch")
  /\ UNCHANGED <<svc, main, verdict, running, nativeVars, told, job, blanked>>

\* A name nothing refers to any more.
Unused(g) ==
  /\ run[g] = "none" /\ told[g] = "none" /\ job[g] = "none"
  /\ g \notin {inner, current}

\* Provider.start: a new generation and its task.  AlreadyRunning cannot be: start
\* has looked under the monitor.
Launch(s) ==
  /\ at[s] = "launch"
  /\ \E g \in Runs :
       /\ Unused(g)
       /\ current' = g
       /\ inner' = g
       /\ run' = [run EXCEPT ![g] = "idle"]
  /\ running' = [running EXCEPT ![s] = TRUE]
  /\ monitor' = None
  /\ Goto(s, "look")
  /\ UNCHANGED <<svc, main, verdict, phase, cancelled, told, job, blanked>>

\* Provider.stop: the generation moves on first ...
StopBegins(t) ==
  /\ at[t] = "stop"
  /\ monitor = None
  /\ monitor' = t
  /\ current' = None
  /\ Goto(t, "take")
  /\ UNCHANGED <<svc, main, verdict, running, phase, inner, run, cancelled, told, job, blanked>>

\* Mutant: the run is taken out and forgotten, as when dropping its handle is believed
\* to end the task.
StopTakesUncancelled(t) ==
  /\ at[t] = "take"
  /\ inner' = None
  /\ Goto(t, "reset")
  /\ UNCHANGED <<svc, main, verdict, running, monitor, phase, current, run, cancelled, told, job, blanked>>

\* ... then the run is taken out, cancelled and its task aborted.
StopTakes(t) ==
  /\ at[t] = "take"
  /\ cancelled' = [g \in Runs |-> cancelled[g] \/ (g = inner /\ run[g] # "none")]
  /\ inner' = None
  /\ Goto(t, "reset")
  /\ UNCHANGED <<svc, main, verdict, running, monitor, phase, current, run, told, job, blanked>>

\* Mutant: the loop relies on the phase to learn that it has stopped the provider.
StopEndsStillRunning(t) ==
  /\ at[t] = "reset"
  /\ phase' = "down"
  /\ monitor' = None
  /\ IF t = Main
     THEN /\ svc' = [svc EXCEPT ![main] = IF @ = "gone" THEN @ ELSE "stopping"]
          /\ main' = None
          /\ Goto(t, "idle")
     ELSE /\ Goto(t, IF verdict[t] = "blocked" THEN "block" ELSE "look")
          /\ UNCHANGED <<svc, main>>
  /\ UNCHANGED <<verdict, running, nativeVars, told, job, blanked>>

\* The phase is reset, and the caller goes on: the main thread to stopSelf or to
\* the end of onDestroy, the loop to setBlocked or to the end of its turn.
StopEnds(t) ==
  /\ at[t] = "reset"
  /\ phase' = "down"
  /\ monitor' = None
  /\ \/ /\ t = Main
        /\ svc' = [svc EXCEPT ![main] = IF @ = "gone" THEN @ ELSE "stopping"]
        /\ main' = None
        /\ Goto(t, "idle")
        /\ UNCHANGED running
     \/ /\ t # Main
        /\ verdict[t] = "blocked"
        /\ running' = [running EXCEPT ![t] = FALSE]
        /\ Goto(t, "block")
        /\ UNCHANGED <<svc, main>>
     \/ /\ t # Main
        /\ verdict[t] = "unconfigured"
        /\ Goto(t, "look")
        /\ UNCHANGED <<svc, main, running>>
  /\ UNCHANGED <<verdict, nativeVars, told, job, blanked>>

--------------------------------------------------------------------------------
(***************************************************************************)
(* A run of the provider and its jobs.                                     *)
(***************************************************************************)

\* Bridge.on_event: an event of a generation that is not the current one is dropped.
Emit(g, e) == told' = [told EXCEPT ![g] = IF current = g THEN e ELSE "none"]

\* The task of run g is at l, was not aborted and reports nothing: it goes to m.
Moves(g, l, m) ==
  /\ run[g] = l
  /\ ~cancelled[g]
  /\ told[g] = "none"
  /\ run' = [run EXCEPT ![g] = m]
  /\ UNCHANGED <<uiVars, monitor, phase, current, inner, cancelled, blanked>>

\* run() begins, at once or after the back-off.
Dial(g) ==
  /\ Moves(g, "idle", "dialing")
  /\ Emit(g, "up")
  /\ UNCHANGED job

\* The identity or the backend fails it, without an event.
SetupFails(g) ==
  /\ Moves(g, "idle", "failed")
  /\ UNCHANGED <<told, job>>

\* No connection or a rejection, which are reported, or no acknowledgement.
DialFails(g) ==
  /\ Moves(g, "dialing", "failed")
  /\ Emit(g, "down") \/ UNCHANGED told
  /\ UNCHANGED job

Registers(g) ==
  /\ Moves(g, "dialing", "session")
  /\ Emit(g, "up")
  /\ UNCHANGED job

\* A job_request: JobStarted is reported, then the job is spawned, with no await
\* between the two at which the run could be aborted.
JobStarts(g) ==
  /\ job[g] = "none"
  /\ Cardinality({h \in Runs : job[h] # "none"}) < MaxJobs
  /\ Moves(g, "session", "session")
  /\ Emit(g, "any")
  /\ job' = [job EXCEPT ![g] = IF current = g THEN @ ELSE "serving"]

\* The jobs of a session that is over have their tokens cancelled.
Drained(j) == IF j = "serving" THEN "ending" ELSE j

\* The connection is lost or closed.
SessionEnds(g) ==
  /\ Moves(g, "session", "ended")
  /\ job' = [job EXCEPT ![g] = Drained(@)]
  /\ Emit(g, "down")

\* Mutant: a session that was closed ends the task, as before the reconnect loop, and
\* reports as if it went on.
BacksOffNever(g) ==
  \/ Moves(g, "failed", "idle") /\ Emit(g, "down") /\ UNCHANGED job
  \/ Moves(g, "ended", "none") /\ Emit(g, "up") /\ UNCHANGED job

\* The reconnect loop reports how run() returned and backs off.
BacksOff(g) ==
  \/ Moves(g, "failed", "idle") /\ Emit(g, "down") /\ UNCHANGED job
  \/ Moves(g, "ended", "idle") /\ Emit(g, "up") /\ UNCHANGED job

\* A stopped run ends at its next await.  Most often that is the abort, which leaves
\* its job as it is; it may see the cancelled token first and drain the jobs.
Dies(g) ==
  /\ cancelled[g]
  /\ run[g] # "none"
  /\ told[g] = "none"
  /\ run' = [run EXCEPT ![g] = "none"]
  /\ cancelled' = [cancelled EXCEPT ![g] = FALSE]
  /\ \/ UNCHANGED job
     \/ run[g] = "session" /\ job' = [job EXCEPT ![g] = Drained(@)]
  /\ UNCHANGED <<uiVars, monitor, phase, current, inner, told, blanked>>

\* A job is a task of its own, and no abort of the run reaches it.
JobEnds(g) ==
  /\ job[g] \in {"serving", "ending"}
  /\ job' = [job EXCEPT ![g] = IF current = g THEN "reporting" ELSE "none"]
  /\ UNCHANGED <<uiVars, monitor, phase, nativeVars, told, blanked>>

\* The listener writes the status, without the monitor and whoever has written it
\* since the check.
RunWrites(g) ==
  /\ told[g] # "none"
  /\ IF told[g] = "any"
     THEN phase' \in Phases /\ job' = [job EXCEPT ![g] = "serving"]
     ELSE phase' = told[g] /\ UNCHANGED job
  /\ told' = [told EXCEPT ![g] = "none"]
  /\ UNCHANGED <<uiVars, monitor, nativeVars, blanked>>

JobWrites(g) ==
  /\ job[g] = "reporting"
  /\ phase' \in Phases
  /\ job' = [job EXCEPT ![g] = "none"]
  /\ UNCHANGED <<uiVars, monitor, nativeVars, told, blanked>>

--------------------------------------------------------------------------------

LoopStep(s) ==
  \/ Sample(s) \/ Leaves(s) \/ SetBlocked(s) \/ MarkBlocked(s) \/ Look(s)
  \/ StartFinds(s) \/ StartBegins(s) \/ Launch(s)

StopStep(t) == StopBegins(t) \/ StopTakes(t) \/ StopEnds(t)

MainStep(s) == Create(s) \/ CommandStop(s) \/ Destroy(s)

\* How a setup ends, in which a model may be fetched, and how a dial ends: the
\* connection and the acknowledgement are awaited without a timeout.
SetupStep(g) == Dial(g) \/ SetupFails(g)
DialStep(g)  == Registers(g) \/ DialFails(g)

\* What the task of a run does by itself, whatever the network does.
TaskStep(g) == BacksOff(g) \/ Dies(g) \/ RunWrites(g)

RunStep(g) ==
  \/ SetupStep(g) \/ DialStep(g) \/ TaskStep(g)
  \/ JobStarts(g) \/ SessionEnds(g) \/ JobEnds(g) \/ JobWrites(g)

Next ==
  \/ \E s \in Services : LoopStep(s) \/ MainStep(s)
  \/ \E t \in Threads : StopStep(t)
  \/ \E g \in Runs : RunStep(g)

\* Threads are scheduled, and no more: a session may last, a job may go on while it is
\* wanted, the service may stay, and a setup or a dial may never end.
Fairness ==
  /\ \A s \in Services : WF_vars(LoopStep(s) \/ StopStep(s))
  /\ WF_vars(StopStep(Main) \/ \E s \in Services : Destroy(s))
  /\ \A g \in Runs : WF_vars(TaskStep(g)) /\ WF_vars(JobEnds(g) \/ JobWrites(g))

Spec == Init /\ [][Next]_vars /\ Fairness

--------------------------------------------------------------------------------
(***************************************************************************)
(* Properties.                                                             *)
(***************************************************************************)

\* The phone never has two runs that nobody stopped: two would register the device
\* twice and serve jobs for one status.  The run that was not stopped is the one
\* Provider holds, so that the next stop reaches it.
OneLiveRun ==
  \A g \in Runs : run[g] # "none" /\ ~cancelled[g] => inner = g

\* Outside start and stop, the run that Provider holds is the one Bridge listens to: it
\* is neither mute, nor is one heard that was stopped.
HeldIsHeard == monitor = None => current = inner

\* The service's loop is never wrong when it believes that the provider is up: while it
\* alone is about, and was always configured, running means that Provider holds a run,
\* which nobody but the loop will stop.  Were it wrong, it would wait for ever.
LoopKnows ==
  \A s \in Services :
    /\ running[s] /\ svc[s] = "up" /\ main = None /\ at[s] \notin {"take", "reset"}
    /\ ~blanked
    /\ \A o \in Services \ {s} : svc[o] = "none"
    => inner # None

\* What the code does not ensure, and the second half of ConnectsWhenAllowed needs: no
\* peer of a setup or of a dial is silent for ever, and each succeeds in the end when it
\* is tried again and again.
PeersAnswer ==
  /\ \A g \in Runs : WF_vars(SetupStep(g)) /\ WF_vars(DialStep(g))
  /\ SF_vars(\E g \in Runs : Dial(g))
  /\ SF_vars(\E g \in Runs : Registers(g))

\* The run that Provider holds is at one of the places ps.
HeldAt(ps) == inner # None /\ run[inner] \in ps

\* "Keeps the provider connected while the run-policy is satisfied": when the first
\* service stays up, is configured, and the policy is satisfied from some time on, the
\* phone tries again and again, whatever the loop read from a racing status and however
\* setups, dials and sessions end; and when the peers answer, it is registered again
\* and again.  A peer that goes silent leaves it in CONNECTING for ever.
ConnectsWhenAllowed ==
  \A s \in Services :
    /\ [](~blanked /\ \A o \in Services \ {s} : svc[o] = "none")
    /\ <>[](svc[s] = "up" /\ verdict[s] \in {"ok", None})
    => /\ []<>HeldAt({"idle", "dialing", "session"})
       /\ PeersAnswer => []<>HeldAt({"session"})

--------------------------------------------------------------------------------
(***************************************************************************)
(* The inductive invariant.                                                *)
(***************************************************************************)

\* One thread is inside start or stop, and what it has done so far to the provider.
MonitorInv ==
  /\ \A t \in Threads : at[t] \in {"launch", "take", "reset"} <=> monitor = t
  /\ \A t \in Threads : at[t] \in {"launch", "reset"} => inner = None /\ current = None
  /\ \A t \in Threads : at[t] = "take" => current = None

\* The run that Provider holds has not been stopped and has not ended.
HeldInv ==
  /\ inner # None => run[inner] # "none" /\ ~cancelled[inner]
  /\ \A g \in Runs : cancelled[g] => run[g] # "none"

\* Where services, their loops and the main thread are.
PlaceInv ==
  /\ at[Main] \in {"idle", "stop", "take", "reset"}
  /\ main = None <=> at[Main] = "idle"
  /\ main # None => svc[main] # "none"
  /\ \A s \in Services :
       /\ at[s] # "idle"
       /\ svc[s] = "none" => at[s] = "off" /\ ~running[s]
       /\ verdict[s] = "unconfigured" => blanked

\* SessionInv is inductive: it names, between the steps of start and stop, what the
\* provider holds, which the three safety properties leave open.
SessionInv ==
  TypeOK /\ MonitorInv /\ HeldInv /\ PlaceInv /\ OneLiveRun /\ HeldIsHeard /\ LoopKnows

--------------------------------------------------------------------------------
(***************************************************************************)
(* What a comment says, and the loop refutes.                              *)
(***************************************************************************)

\* "pausing it when the phone is off charger / off Wi-Fi / low battery": at the end of a
\* turn that sampled a reason to pause, and with no other loop about, the provider
\* holds no run.
PausedWhenBlocked ==
  \A s \in Services :
    at[s] = "look" /\ verdict[s] = "blocked" /\ (\A o \in Services \ {s} : at[o] = "off")
      => inner = None

================================================================================
