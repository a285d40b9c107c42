------------------------------- MODULE Worker -------------------------------
(***************************************************************************)
(* The attempts of managed tasks: the files of an attempt's directory, the *)
(* supervisors launched for it (mrac_orchestrator/supervisor.py), the      *)
(* runner one of them starts (mracbench/machine.py) and what the backend   *)
(* concludes from the files (backends/mrac.py).  The platform is Windows:  *)
(* elsewhere no runner is started.                                         *)
(*                                                                         *)
(* A task t has attempts <<t, 1>>, <<t, 2>>, ... and runs <<t, 0>>,        *)
(* <<t, 1>>, ..., a new one for each rerun.  Each attempt carries out one  *)
(* operation of its own, so that the attempt stands for the operation id.  *)
(***************************************************************************)
EXTENDS Naturals

CONSTANTS
    Tasks,
    MaxAttempts,  \* attempts of a task
    MaxReruns,    \* reruns of a task
    MaxPending,   \* bound: supervisors launched but not yet at the lock
    Results       \* the statuses with which a flow stops in this instance

Operations == {"start", "recover", "continue", "answer"}
Stopped == {"PAUSED", "NEEDS_INPUT", "CONVERGED", "NON_CONVERGED",
            "AGENT_ERROR"}
ASSUME ResultsAssumption == Results \subseteq Stopped
ASSUME WorkerAssumption == /\ MaxAttempts \in Nat \ {0}
                           /\ MaxReruns \in Nat
                           /\ MaxPending \in Nat \ {0}

VARIABLES
    worker,  \* what exists of each attempt
    run      \* the directory of each run

Attempts == Tasks \X (1..MaxAttempts)
Runs == Tasks \X (0..MaxReruns)

\* A runner holds .execution.lock in these places.
Locked == {"began", "working", "saved", "published"}
Alive == Locked \cup {"up"}

Lifecycles == {"RUNNING", "COMPLETED", "PAUSED", "WAITING_INPUT", "FAILED",
               "CANCELLED"}

\* "none" is a file that does not exist; "broken" a checkpoint that the
\* flow refuses to load.
Directory == [lifecycle: Lifecycles \cup {"none"}, by: 0..MaxAttempts,
              created: BOOLEAN,
              saved: Stopped \cup {"none", "RUNNING", "broken"},
              seal: {"none", "current", "stale"}]

\* The state of lifecycle.json that its revision identifies: who began
\* last, and what was published since.
Revision(d) == <<d.by, d.lifecycle>>

\* "doubled" is history: a supervisor of the attempt died while another one
\* was on its way, which will take up what was given up as lost.
Attempt == [run: 0..MaxReruns, operation: Operations \cup {"none"},
            revision: (0..MaxAttempts) \X (Lifecycles \cup {"none"}),
            started: BOOLEAN, cancel: BOOLEAN,
            finished: {"none", "stopped", "cancelled", "unproven"},
            pending: 0..MaxPending,
            supervisor: {"none", "begun", "watching", "cancelling"},
            runner: Alive \cup {"none", "exited"}, journal: Nat,
            doubled: BOOLEAN]

NewDirectory == [lifecycle |-> "none", by |-> 0, created |-> FALSE,
                 saved |-> "none", seal |-> "none"]
NewAttempt == [run |-> 0, operation |-> "none", revision |-> <<0, "none">>,
               started |-> FALSE, cancel |-> FALSE, finished |-> "none",
               pending |-> 0, supervisor |-> "none", runner |-> "none",
               journal |-> 0, doubled |-> FALSE]

WorkerTypeOK == /\ worker \in [Attempts -> Attempt]
                /\ run \in [Runs -> Directory]

WorkerInit == /\ worker = [a \in Attempts |-> NewAttempt]
              /\ run = [r \in Runs |-> NewDirectory]

RunOf(a) == <<a[1], worker[a].run>>

\* Some runner works in the run's directory.
Executing(r) == \E a \in Attempts : RunOf(a) = r /\ worker[a].runner \in Locked
-----------------------------------------------------------------------------
(***************************************************************************)
(* What the runner's inspect and the backend's observe make of the files   *)
(***************************************************************************)

\* outcome(): the lifecycle that a flow's status means.
Outcome(status) ==
    CASE status \in {"CONVERGED", "NON_CONVERGED"} -> "COMPLETED"
      [] status = "PAUSED" -> "PAUSED"
      [] status = "NEEDS_INPUT" -> "WAITING_INPUT"
      [] status = "RUNNING" -> "RUNNING"
      [] OTHER -> "FAILED"

\* The operations a flow allows on its checkpoint, as the repository flow
\* does.
Continuations(status) ==
    CASE status = "PAUSED" -> {"continue"}
      [] status = "NEEDS_INPUT" -> {"answer"}
      [] status \in {"RUNNING", "AGENT_ERROR"} -> {"recover"}
      [] OTHER -> {}

\* The evidence of a stopped run is as it was sealed; a completed one has a
\* seal.
Sealed(d) ==
    \/ d.lifecycle = "RUNNING"
    \/ d.seal = "current"
    \/ d.seal = "none" /\ d.lifecycle # "COMPLETED"

\* inspect() of a run that has a lifecycle.json.
Inspect(r) ==
    LET d == run[r] IN
    IF Executing(r) \/ d.lifecycle = "CANCELLED"
    THEN [lifecycle |-> d.lifecycle, valid |-> d.lifecycle # "RUNNING",
          actions |-> {}]
    ELSE IF Sealed(d) /\ d.saved \notin {"none", "broken"}
    THEN [lifecycle |-> IF d.lifecycle = "FAILED" THEN "FAILED"
                        ELSE Outcome(d.saved),
          valid |-> TRUE, actions |-> Continuations(d.saved)]
    ELSE [lifecycle |-> d.lifecycle, valid |-> FALSE, actions |-> {}]

\* Bug: an attempt counts as cancelled as soon as it is to be.
BugObserveUnfinished(w) ==
    IF w.cancel THEN "CANCELLED"
    ELSE IF ~w.started THEN "UNKNOWN"
    ELSE IF w.supervisor = "none" THEN "LOST"
    ELSE "RUNNING"

\* observe() without a finished.json: is the supervisor that left the last
\* receipt alive?
ObserveUnfinished(w) ==
    IF ~w.started THEN "UNKNOWN"
    ELSE IF w.supervisor = "none" THEN "LOST"
    ELSE "RUNNING"

\* Bug: the status may be that of an earlier attempt.
BugObserveStopped(a) ==
    LET public == Inspect(RunOf(a))
    IN IF \/ run[RunOf(a)].lifecycle = "none"
          \/ public.lifecycle = "RUNNING"
       THEN "LOST"
       ELSE IF public.valid THEN public.lifecycle ELSE "FAILED"

\* observe() once the process tree has stopped: what this attempt's runner
\* left in the run.
ObserveStopped(a) ==
    LET public == Inspect(RunOf(a))
    IN IF \/ run[RunOf(a)].lifecycle = "none"
          \/ run[RunOf(a)].by # a[2]
          \/ public.lifecycle = "RUNNING"
       THEN "LOST"
       ELSE IF public.valid THEN public.lifecycle ELSE "FAILED"

\* observe(), when the operating system answers.
Observe(a) ==
    CASE worker[a].finished = "none" -> ObserveUnfinished(worker[a])
      [] worker[a].finished = "unproven" -> "LOST"
      [] worker[a].finished = "cancelled" -> "CANCELLED"
      [] worker[a].finished = "stopped" -> ObserveStopped(a)
-----------------------------------------------------------------------------
(***************************************************************************)
(* supervisor.run                                                          *)
(***************************************************************************)

Launched(w) == [w EXCEPT !.pending =
                    IF @ < MaxPending THEN @ + 1 ELSE MaxPending]

\* The first supervisor at worker.lock leaves its receipt, and only then
\* looks for a cancellation.
SupervisorStarts(a) ==
    /\ worker[a].pending > 0
    /\ worker[a].supervisor = "none"
    /\ worker[a].finished = "none"
    /\ worker' = [worker EXCEPT
           ![a].pending = @ - 1,
           ![a].started = TRUE,
           ![a].finished = IF worker[a].cancel THEN "cancelled" ELSE @,
           ![a].supervisor = IF worker[a].cancel THEN @ ELSE "begun"]
    /\ UNCHANGED run

\* Another supervisor holds the lock, or has finished.
SupervisorLeaves(a) ==
    /\ worker[a].pending > 0
    /\ worker[a].supervisor # "none" \/ worker[a].finished # "none"
    /\ worker' = [worker EXCEPT ![a].pending = @ - 1]
    /\ UNCHANGED run

SupervisorLaunches(a) ==
    /\ worker[a].supervisor = "begun"
    /\ worker' = [worker EXCEPT ![a].supervisor = "watching",
                                ![a].runner = "up"]
    /\ UNCHANGED run

\* The process cannot be created: the receipt proves that nothing runs.
SupervisorCannotLaunch(a) ==
    /\ worker[a].supervisor = "begun"
    /\ worker' = [worker EXCEPT ![a].supervisor = "none",
                                ![a].finished = "stopped"]
    /\ UNCHANGED run

SupervisorNotices(a) ==
    /\ worker[a].supervisor = "watching"
    /\ worker[a].runner \in Alive
    /\ worker[a].cancel
    /\ worker' = [worker EXCEPT ![a].supervisor = "cancelling"]
    /\ UNCHANGED run

\* A runner that dies at work may leave evidence its checkpoint does not
\* know.
Interrupted(a) ==
    \/ UNCHANGED run
    \/ /\ worker[a].runner = "working"
       /\ run' = [run EXCEPT ![RunOf(a)].saved = "broken"]

\* The grace period is over.
SupervisorKills(a) ==
    /\ worker[a].supervisor = "cancelling"
    /\ worker[a].runner \in Alive
    /\ worker' = [worker EXCEPT ![a].runner = "exited"]
    /\ Interrupted(a)

\* The runner's process tree is gone: finished.json says so.
SupervisorFinishes(a) ==
    /\ worker[a].supervisor \in {"watching", "cancelling"}
    /\ worker[a].runner = "exited"
    /\ worker' = [worker EXCEPT ![a].supervisor = "none",
                                ![a].runner = "none",
                                ![a].finished = IF worker[a].supervisor = "cancelling"
                           THEN "cancelled" ELSE "stopped"]
    /\ UNCHANGED run

\* The tree cannot be proved empty in time; closing the job ends it.
SupervisorGivesUp(a) ==
    /\ worker[a].supervisor \in {"watching", "cancelling"}
    /\ worker[a].runner = "exited"
    /\ worker' = [worker EXCEPT ![a].supervisor = "none",
                                ![a].runner = "none",
                                ![a].finished = "unproven"]
    /\ UNCHANGED run

\* The kernel closes the job with its owner and kills the runner.
SupervisorDies(a) ==
    /\ worker[a].supervisor # "none"
    /\ worker' = [worker EXCEPT ![a].supervisor = "none",
                                ![a].runner = "none",
                                ![a].doubled = @ \/ worker[a].pending > 0]
    /\ Interrupted(a)

PendingDies(a) ==
    /\ worker[a].pending > 0
    /\ worker' = [worker EXCEPT ![a].pending = @ - 1]
    /\ UNCHANGED run
-----------------------------------------------------------------------------
(***************************************************************************)
(* machine.execute                                                         *)
(***************************************************************************)

\* Bug: the journal of operations is not consulted.
BugAccepts(a) ==
    LET w == worker[a]
        d == run[RunOf(a)]
    IN IF w.operation = "start" THEN ~d.created
       ELSE /\ d.lifecycle # "none"
            /\ w.operation \in Inspect(RunOf(a)).actions
            /\ w.revision = Revision(d)

\* The operation is new and fits the checkpoint its request saw.
Accepts(a) ==
    LET w == worker[a]
        d == run[RunOf(a)]
    IN /\ w.journal = 0
       /\ IF w.operation = "start" THEN ~d.created
          ELSE /\ d.lifecycle # "none"
               /\ w.operation \in Inspect(RunOf(a)).actions
               /\ w.revision = Revision(d)

RunnerBegins(a) ==
    /\ worker[a].runner = "up"
    /\ ~Executing(RunOf(a))
    /\ Accepts(a)
    /\ worker' = [worker EXCEPT ![a].journal = @ + 1, ![a].runner = "began"]
    /\ run' = [run EXCEPT ![RunOf(a)].lifecycle = "RUNNING",
                          ![RunOf(a)].by = a[2]]

\* The runner dies between the journal entry and lifecycle.json.
RunnerDiesJournaled(a) ==
    /\ worker[a].runner = "up"
    /\ ~Executing(RunOf(a))
    /\ Accepts(a)
    /\ worker' = [worker EXCEPT ![a].journal = @ + 1, ![a].runner = "exited"]
    /\ UNCHANGED run

\* Busy, changed inputs or environment, a repeated or outdated operation.
RunnerRefuses(a) ==
    /\ worker[a].runner = "up"
    /\ worker' = [worker EXCEPT ![a].runner = "exited"]
    /\ UNCHANGED run

\* run_case creates run.yaml; the flow's checkpoint comes later.
RunnerCreates(a) ==
    /\ worker[a].runner = "began"
    /\ worker[a].operation = "start"
    /\ worker' = [worker EXCEPT ![a].runner = "working"]
    /\ run' = [run EXCEPT ![RunOf(a)].created = TRUE]

RunnerResumes(a) ==
    /\ worker[a].runner = "began"
    /\ worker[a].operation # "start"
    /\ worker' = [worker EXCEPT ![a].runner = "working"]
    /\ UNCHANGED run

\* A checkpoint of the flow changes files the seal names.
Checkpointed(d, status) ==
    [d EXCEPT !.saved = status,
              !.seal = IF @ = "current" THEN "stale" ELSE @]

RunnerCheckpoints(a) ==
    /\ worker[a].runner = "working"
    /\ run[RunOf(a)].saved # "RUNNING"
    /\ run' = [run EXCEPT ![RunOf(a)] = Checkpointed(@, "RUNNING")]
    /\ UNCHANGED worker

RunnerStops(a) ==
    /\ worker[a].runner = "working"
    /\ run[RunOf(a)].saved = "RUNNING"
    /\ \E status \in Results :
           run' = [run EXCEPT ![RunOf(a)] = Checkpointed(@, status)]
    /\ worker' = [worker EXCEPT ![a].runner = "saved"]

\* An exception outside the flow's own handling: the checkpoint stays.
RunnerFails(a) ==
    /\ worker[a].runner \in {"began", "working"}
    /\ worker' = [worker EXCEPT ![a].runner = "published"]
    /\ run' = [run EXCEPT ![RunOf(a)].lifecycle = "FAILED"]

RunnerPublishes(a) ==
    /\ worker[a].runner = "saved"
    /\ worker' = [worker EXCEPT ![a].runner = "published"]
    /\ run' = [run EXCEPT ![RunOf(a)].lifecycle = Outcome(run[RunOf(a)].saved)]

RunnerSeals(a) ==
    /\ worker[a].runner = "published"
    /\ worker' = [worker EXCEPT ![a].runner = "exited"]
    /\ run' = [run EXCEPT ![RunOf(a)].seal = "current"]

RunnerDies(a) ==
    /\ worker[a].runner \in Locked
    /\ worker' = [worker EXCEPT ![a].runner = "exited"]
    /\ Interrupted(a)

\* machine abort: under the execution lock.
Aborted(d) == [d EXCEPT !.lifecycle = "CANCELLED", !.seal = "current"]
-----------------------------------------------------------------------------
SupervisorStep(a) ==
    \/ SupervisorStarts(a)
    \/ SupervisorLeaves(a)
    \/ SupervisorLaunches(a)
    \/ SupervisorNotices(a)
    \/ SupervisorKills(a)
    \/ SupervisorFinishes(a)

RunnerStep(a) ==
    \/ RunnerBegins(a)
    \/ RunnerRefuses(a)
    \/ RunnerCreates(a)
    \/ RunnerResumes(a)
    \/ RunnerCheckpoints(a)
    \/ RunnerStops(a)
    \/ RunnerFails(a)
    \/ RunnerPublishes(a)
    \/ RunnerSeals(a)

\* What goes wrong with processes.
WorkerFault(a) ==
    \/ SupervisorCannotLaunch(a)
    \/ SupervisorGivesUp(a)
    \/ SupervisorDies(a)
    \/ PendingDies(a)
    \/ RunnerDiesJournaled(a)
    \/ RunnerDies(a)
=============================================================================
