--------------------------- MODULE AttemptProofs ---------------------------
(***************************************************************************)
(* The attempts of Worker under the service of Scheduler, for every set of *)
(* tasks and any number of attempts, launches, reruns, users and faults:   *)
(* types, one execution per operation, outcomes that stay what was         *)
(* recorded, and, unless a supervisor died while another one was on its    *)
(* way, that whoever executes holds the slot of its task and that what     *)
(* waits can be carried out.                                               *)
(***************************************************************************)
EXTENDS AttemptInvariant, SchedulerProofs, WellFoundedInduction

(***************************************************************************)
(* What the processes of an attempt do                                     *)
(***************************************************************************)

\* They act while one lives or is on its way, and leave the request alone.
AttemptMoves(a) ==
    LET old == worker[a]
        new == worker'[a]
    IN  /\ worker' \in [Attempts -> Attempt]
        /\ \A b \in Attempts \ {a} : worker'[b] = worker[b]
        /\ old.pending > 0 \/ old.supervisor # "none"
        /\ new.run = old.run /\ new.operation = old.operation
        /\ new.revision = old.revision /\ new.cancel = old.cancel
        /\ AttemptSound(new)
        /\ old.started => new.started
        /\ new.journal >= old.journal
        /\ new.pending <= old.pending
        /\ new.started /\ ~old.started => new.pending = old.pending - 1

\* They do not make an attempt able to run that was not, and a supervisor
\* that dies while another one is on its way leaves its mark.
SlotMoves(a) ==
    LET old == worker[a]
        new == worker'[a]
    IN  /\ old.doubled => new.doubled
        /\ CanRun(new) => CanRun(old)
        /\ DiedAlone(old) => DiedAlone(new) \/ new.doubled

\* The run stays, and nobody more executes in it.
RunStays(a) ==
    /\ run'[RunOf(a)] = run[RunOf(a)]
    /\ worker'[a].runner \in Locked => worker[a].runner \in Locked
    /\ InRun(worker'[a]) => InRun(worker[a])

\* The runner takes up its operation.
RunBegins(a) ==
    /\ worker[a].runner = "up" /\ ~Executing(RunOf(a)) /\ Accepts(a)
    /\ worker'[a].runner = "began" /\ worker'[a].journal = 1
    /\ run'[RunOf(a)] = [run[RunOf(a)] EXCEPT !.lifecycle = "RUNNING",
                                              !.by = a[2]]

\* A runner that has begun works.
RunProceeds(a) ==
    LET old == run[RunOf(a)]
        new == run'[RunOf(a)]
    IN  /\ worker[a].runner \in Locked
        /\ new.by = old.by
        /\ new.lifecycle = "none" => old.lifecycle = "none"
        /\ old.created => new.created
        /\ new.saved # "none" => old.saved # "none" \/ InRun(worker[a])
        /\ InRun(worker'[a]) => InRun(worker[a]) \/ new.created

ProcessMoves(a) ==
    /\ AttemptMoves(a)
    /\ run' \in [Runs -> Directory]
    /\ \A r \in Runs \ {RunOf(a)} : run'[r] = run[r]
    /\ RunStays(a) \/ RunBegins(a) \/ RunProceeds(a)

\* An attempt's run is a run.
LEMMA RunOfAttempt ==
    ASSUME WorkerTypeOK, NEW a \in Attempts
    PROVE  /\ worker[a] \in Attempt /\ RunOf(a) \in Runs
           /\ run[RunOf(a)] \in Directory
           /\ a[1] \in Tasks /\ a[2] \in 1..MaxAttempts /\ a = <<a[1], a[2]>>
<1>1. worker[a] \in Attempt
  BY DEF WorkerTypeOK
<1>2. a[1] \in Tasks /\ a[2] \in 1..MaxAttempts /\ a = <<a[1], a[2]>>
  BY DEF Attempts
<1>3. RunOf(a) \in Runs
  BY <1>1, <1>2 DEF RunOf, Runs, Attempt
<1>. QED
  BY <1>1, <1>2, <1>3 DEF WorkerTypeOK

\* The steps of a supervisor.
LEMMA SupervisorMoves ==
    ASSUME WorkerTypeOK, AttemptsSound, NEW a \in Attempts,
           \/ SupervisorStarts(a) \/ SupervisorLeaves(a)
           \/ SupervisorLaunches(a) \/ SupervisorNotices(a)
           \/ SupervisorFinishes(a) \/ SupervisorCannotLaunch(a)
           \/ SupervisorGivesUp(a) \/ PendingDies(a)
    PROVE  ProcessMoves(a)
<1>1. /\ worker \in [Attempts -> Attempt] /\ run \in [Runs -> Directory]
      /\ worker[a] \in Attempt /\ AttemptSound(worker[a])
      /\ RunOf(a) \in Runs /\ run[RunOf(a)] \in Directory
  BY RunOfAttempt DEF WorkerTypeOK, AttemptsSound
<1>2. worker[a].pending \in 0..MaxPending /\ MaxPending \in Nat
  BY <1>1, WorkerAssumption DEF Attempt
<1>3. CASE SupervisorStarts(a)
  BY <1>1, <1>3 DEF SupervisorStarts, ProcessMoves, AttemptMoves,
     RunStays, InRun, AttemptSound, Attempt, Locked, Alive
<1>4. CASE SupervisorLeaves(a)
  <2>. DEFINE w == [worker[a] EXCEPT !.pending = @ - 1]
  <2>1. worker' = [worker EXCEPT ![a] = w] /\ run' = run
    BY <1>4 DEF SupervisorLeaves
  <2>2. w \in Attempt
    BY <1>1, <1>2, <1>4 DEF SupervisorLeaves, Attempt
  <2>3. worker'[a] = w /\ worker' \in [Attempts -> Attempt]
        /\ \A b \in Attempts \ {a} : worker'[b] = worker[b]
    <3>. HIDE DEF w
    <3>. QED
      BY <1>1, <2>1, <2>2
  <2>4. /\ w.pending <= worker[a].pending /\ w.runner = worker[a].runner
        /\ w.run = worker[a].run /\ w.operation = worker[a].operation
        /\ w.revision = worker[a].revision /\ w.cancel = worker[a].cancel
        /\ w.started = worker[a].started /\ w.journal = worker[a].journal
        /\ worker[a].journal \in Nat
    BY <1>1, <1>2 DEF Attempt
  <2>5. AttemptSound(w)
    BY <1>1, <1>2, <1>4 DEF SupervisorLeaves, AttemptSound, Attempt, Alive
  <2>6. AttemptMoves(a)
    BY <1>1, <1>2, <1>4, <2>2, <2>3, <2>4, <2>5
    DEF SupervisorLeaves, AttemptMoves, Attempt
  <2>7. RunStays(a)
    BY <1>1, <2>1, <2>3, <2>4 DEF RunStays, InRun, Attempt
  <2>. QED
    BY <1>1, <2>1, <2>6, <2>7 DEF ProcessMoves
<1>5. CASE SupervisorLaunches(a)
  BY <1>1, <1>5 DEF SupervisorLaunches, ProcessMoves, AttemptMoves,
     RunStays, InRun, AttemptSound, Attempt, Locked, Alive
<1>6. CASE SupervisorNotices(a)
  <2>. DEFINE w == [worker[a] EXCEPT !.supervisor = "cancelling"]
  <2>1. worker' = [worker EXCEPT ![a] = w] /\ run' = run
    BY <1>6 DEF SupervisorNotices
  <2>2. w \in Attempt
    BY <1>1, <1>2, <1>6 DEF SupervisorNotices, Attempt
  <2>3. worker'[a] = w /\ worker' \in [Attempts -> Attempt]
        /\ \A b \in Attempts \ {a} : worker'[b] = worker[b]
    <3>. HIDE DEF w
    <3>. QED
      BY <1>1, <2>1, <2>2
  <2>4. /\ w.pending <= worker[a].pending /\ w.runner = worker[a].runner
        /\ w.run = worker[a].run /\ w.operation = worker[a].operation
        /\ w.revision = worker[a].revision /\ w.cancel = worker[a].cancel
        /\ w.started = worker[a].started /\ w.journal = worker[a].journal
        /\ worker[a].journal \in Nat
    BY <1>1, <1>2 DEF Attempt
  <2>5. AttemptSound(w)
    BY <1>1, <1>2, <1>6 DEF SupervisorNotices, AttemptSound, Attempt, Alive
  <2>6. AttemptMoves(a)
    <3>1. worker[a].supervisor # "none"
      BY <1>6 DEF SupervisorNotices
    <3>. HIDE DEF w
    <3>2. /\ worker[a].started => w.started
          /\ ~(w.started /\ ~worker[a].started)
      BY <2>4
    <3>3. w.journal >= worker[a].journal
      BY <2>4
    <3>. QED
      BY <2>3, <2>4, <2>5, <3>1, <3>2, <3>3 DEF AttemptMoves
  <2>7. RunStays(a)
    BY <1>1, <2>1, <2>3, <2>4 DEF RunStays, InRun, Attempt
  <2>. QED
    BY <1>1, <2>1, <2>6, <2>7 DEF ProcessMoves
<1>7. CASE SupervisorFinishes(a)
  BY <1>1, <1>7 DEF SupervisorFinishes, ProcessMoves, AttemptMoves,
     RunStays, InRun, AttemptSound, Attempt, Locked, Alive
<1>8. CASE SupervisorCannotLaunch(a)
  BY <1>1, <1>8 DEF SupervisorCannotLaunch, ProcessMoves, AttemptMoves,
     RunStays, InRun, AttemptSound, Attempt, Locked, Alive
<1>9. CASE SupervisorGivesUp(a)
  BY <1>1, <1>9 DEF SupervisorGivesUp, ProcessMoves, AttemptMoves,
     RunStays, InRun, AttemptSound, Attempt, Locked, Alive
<1>10. CASE PendingDies(a)
  <2>. DEFINE w == [worker[a] EXCEPT !.pending = @ - 1]
  <2>1. worker' = [worker EXCEPT ![a] = w] /\ run' = run
    BY <1>10 DEF PendingDies
  <2>2. w \in Attempt
    BY <1>1, <1>2, <1>10 DEF PendingDies, Attempt
  <2>3. worker'[a] = w /\ worker' \in [Attempts -> Attempt]
        /\ \A b \in Attempts \ {a} : worker'[b] = worker[b]
    <3>. HIDE DEF w
    <3>. QED
      BY <1>1, <2>1, <2>2
  <2>4. /\ w.pending <= worker[a].pending /\ w.runner = worker[a].runner
        /\ w.run = worker[a].run /\ w.operation = worker[a].operation
        /\ w.revision = worker[a].revision /\ w.cancel = worker[a].cancel
        /\ w.started = worker[a].started /\ w.journal = worker[a].journal
        /\ worker[a].journal \in Nat
    BY <1>1, <1>2 DEF Attempt
  <2>5. AttemptSound(w)
    BY <1>1, <1>2, <1>10 DEF PendingDies, AttemptSound, Attempt, Alive
  <2>6. AttemptMoves(a)
    BY <1>1, <1>2, <1>10, <2>2, <2>3, <2>4, <2>5
    DEF PendingDies, AttemptMoves, Attempt
  <2>7. RunStays(a)
    BY <1>1, <2>1, <2>3, <2>4 DEF RunStays, InRun, Attempt
  <2>. QED
    BY <1>1, <2>1, <2>6, <2>7 DEF ProcessMoves
<1>. QED
  BY <1>3, <1>4, <1>5, <1>6, <1>7, <1>8, <1>9, <1>10

\* A living runner goes to another place, or has made its journal entry.
LEMMA RunnerGoes ==
    ASSUME WorkerTypeOK, AttemptsSound, NEW a \in Attempts,
           worker[a].runner # "none",
           NEW place \in Alive \cup {"exited"},
           NEW entries \in {worker[a].journal, 1},
           entries >= worker[a].journal,
           place \in Locked => entries = 1,
           worker' = [worker EXCEPT ![a].journal = entries,
                                    ![a].runner = place]
    PROVE  /\ AttemptMoves(a)
           /\ worker'[a].runner = place /\ worker'[a].journal = entries
<1>. DEFINE w == [worker[a] EXCEPT !.journal = entries, !.runner = place]
<1>1. /\ worker \in [Attempts -> Attempt] /\ worker[a] \in Attempt
      /\ AttemptSound(worker[a])
  BY RunOfAttempt DEF WorkerTypeOK, AttemptsSound
<1>2. worker' = [worker EXCEPT ![a] = w]
  BY <1>1
<1>3. worker[a].journal \in Nat /\ entries \in Nat /\ entries <= 1
  BY <1>1 DEF Attempt, AttemptSound
<1>4. w \in Attempt
  BY <1>1, <1>3 DEF Attempt
<1>5. /\ w.pending = worker[a].pending /\ w.runner = place
      /\ w.run = worker[a].run /\ w.operation = worker[a].operation
      /\ w.revision = worker[a].revision /\ w.cancel = worker[a].cancel
      /\ w.started = worker[a].started /\ w.journal = entries
      /\ w.finished = worker[a].finished
      /\ w.supervisor = worker[a].supervisor
      /\ worker[a].pending \in Nat
  BY <1>1, WorkerAssumption DEF Attempt
<1>6. worker[a].supervisor \in {"watching", "cancelling"}
  BY <1>1 DEF AttemptSound
<1>7. worker[a].started
  BY <1>1, <1>6 DEF AttemptSound
<1>. HIDE DEF w
<1>8. w.started
  BY <1>5, <1>7
<1>9. w.operation # "none"
  BY <1>1, <1>5, <1>7 DEF AttemptSound
<1>10. w.finished = "none"
  BY <1>1, <1>5, <1>6 DEF AttemptSound
<1>11. AttemptSound(w)
  BY <1>3, <1>5, <1>6, <1>8, <1>9, <1>10 DEF AttemptSound
<1>12. worker'[a] = w /\ worker' \in [Attempts -> Attempt]
       /\ \A b \in Attempts \ {a} : worker'[b] = worker[b]
  BY <1>1, <1>2, <1>4
<1>13. w.journal >= worker[a].journal /\ w.pending <= worker[a].pending
  BY <1>3, <1>5
<1>. QED
  BY <1>5, <1>6, <1>7, <1>8, <1>11, <1>12, <1>13 DEF AttemptMoves

\* A step in the run's directory leaves the other runs.
LEMMA RunUpdated ==
    ASSUME WorkerTypeOK, NEW a \in Attempts, NEW d \in Directory,
           run' = [run EXCEPT ![RunOf(a)] = d]
    PROVE  /\ run' \in [Runs -> Directory]
           /\ run'[RunOf(a)] = d
           /\ \A r \in Runs \ {RunOf(a)} : run'[r] = run[r]
  BY RunOfAttempt DEF WorkerTypeOK

\* A runner that is interrupted leaves its run to be recovered, or spoilt.
LEMMA InterruptedRun ==
    ASSUME WorkerTypeOK, NEW a \in Attempts, Interrupted(a),
           worker'[a].runner \notin Locked
    PROVE  /\ run' \in [Runs -> Directory]
           /\ \A r \in Runs \ {RunOf(a)} : run'[r] = run[r]
           /\ RunStays(a) \/ RunProceeds(a)
<1>. DEFINE d == [run[RunOf(a)] EXCEPT !.saved = "broken"]
<1>1. run[RunOf(a)] \in Directory /\ RunOf(a) \in Runs
  BY RunOfAttempt
<1>2. ~InRun(worker'[a])
  BY DEF InRun, Locked
<1>3. CASE UNCHANGED run
  BY <1>2, <1>3 DEF WorkerTypeOK, RunStays
<1>4. CASE worker[a].runner = "working"
             /\ run' = [run EXCEPT ![RunOf(a)].saved = "broken"]
  <2>1. run' = [run EXCEPT ![RunOf(a)] = d]
    BY <1>1, <1>4 DEF WorkerTypeOK
  <2>2. d \in Directory /\ d.by = run[RunOf(a)].by
        /\ d.lifecycle = run[RunOf(a)].lifecycle
        /\ d.created = run[RunOf(a)].created
    BY <1>1 DEF Directory
  <2>. HIDE DEF d
  <2>3. run'[RunOf(a)] = d
    BY <2>1, <2>2, RunUpdated
  <2>. QED
    BY <1>2, <1>4, <2>1, <2>2, <2>3, RunUpdated DEF RunProceeds, InRun, Locked
<1>. QED
  BY <1>3, <1>4 DEF Interrupted

\* The steps of a runner, and its end.
LEMMA RunnerMoves ==
    ASSUME WorkerTypeOK, AttemptsSound, NEW a \in Attempts,
           \/ RunnerStep(a) \/ RunnerDiesJournaled(a) \/ RunnerDies(a)
           \/ SupervisorKills(a)
    PROVE  ProcessMoves(a)
<1>. DEFINE w == worker[a]
            d == run[RunOf(a)]
<1>1. /\ worker \in [Attempts -> Attempt] /\ run \in [Runs -> Directory]
      /\ w \in Attempt /\ AttemptSound(w)
      /\ RunOf(a) \in Runs /\ d \in Directory
  BY RunOfAttempt DEF WorkerTypeOK, AttemptsSound
<1>2. w.journal \in Nat /\ w.journal >= w.journal /\ w.journal \in {w.journal, 1}
  BY <1>1 DEF Attempt
<1>3. w.runner \in Locked => w.journal = 1
  BY <1>1 DEF AttemptSound
<1>4. ASSUME NEW place \in Alive \cup {"exited"}, w.runner # "none",
             place \in Locked => w.runner \in Locked,
             worker' = [worker EXCEPT ![a].runner = place]
      PROVE  /\ AttemptMoves(a)
             /\ worker'[a].runner = place
             /\ worker'[a].operation = w.operation
  <2>1. worker' = [worker EXCEPT ![a].journal = w.journal,
                                 ![a].runner = place]
    <3>1. [w EXCEPT !.runner = place]
              = [w EXCEPT !.journal = w.journal, !.runner = place]
      BY <1>1 DEF Attempt
    <3>. QED
      BY <1>1, <1>4, <3>1
  <2>2. AttemptMoves(a) /\ worker'[a].runner = place
    BY <1>2, <1>3, <1>4, <2>1, RunnerGoes
  <2>. QED
    BY <2>2 DEF AttemptMoves
<1>5. CASE RunnerBegins(a)
  <2>. DEFINE e == [d EXCEPT !.lifecycle = "RUNNING", !.by = a[2]]
  <2>1. w.journal = 0 /\ w.runner = "up"
    BY <1>5 DEF RunnerBegins, Accepts
  <2>2. worker' = [worker EXCEPT ![a].journal = 1, ![a].runner = "began"]
    <3>1. worker' = [worker EXCEPT ![a].journal = w.journal + 1,
                                   ![a].runner = "began"]
      BY <1>5 DEF RunnerBegins
    <3>2. w.journal + 1 = 1
      BY <2>1
    <3>. HIDE DEF w
    <3>. QED
      BY <3>1, <3>2
  <2>8. "began" \in Alive \cup {"exited"} /\ 1 \in {w.journal, 1} /\ 1 >= w.journal
        /\ w.runner # "none"
    BY <2>1 DEF Alive, Locked
  <2>3. AttemptMoves(a) /\ worker'[a].runner = "began" /\ worker'[a].journal = 1
    BY <2>2, <2>8, RunnerGoes
  <2>4. e \in Directory
    <3>1. a[2] \in 0..MaxAttempts
      BY WorkerAssumption DEF Attempts
    <3>. QED
      BY <1>1, <3>1 DEF Directory, Lifecycles
  <2>5. run' = [run EXCEPT ![RunOf(a)] = e]
    BY <1>1, <1>5 DEF RunnerBegins
  <2>. HIDE DEF e
  <2>6. /\ run' \in [Runs -> Directory] /\ run'[RunOf(a)] = e
        /\ \A r \in Runs \ {RunOf(a)} : run'[r] = run[r]
    BY <2>4, <2>5, RunUpdated
  <2>7. RunBegins(a)
    BY <1>5, <2>3, <2>6 DEF RunnerBegins, RunBegins, e
  <2>. QED
    BY <2>3, <2>6, <2>7 DEF ProcessMoves
<1>6. CASE RunnerDiesJournaled(a)
  <2>1. w.journal = 0 /\ w.runner = "up" /\ run' = run
    BY <1>6 DEF RunnerDiesJournaled, Accepts
  <2>2. worker' = [worker EXCEPT ![a].journal = 1, ![a].runner = "exited"]
    <3>1. worker' = [worker EXCEPT ![a].journal = w.journal + 1,
                                   ![a].runner = "exited"]
      BY <1>6 DEF RunnerDiesJournaled
    <3>2. w.journal + 1 = 1
      BY <2>1
    <3>. HIDE DEF w
    <3>. QED
      BY <3>1, <3>2
  <2>8. "exited" \in Alive \cup {"exited"} /\ 1 \in {w.journal, 1} /\ 1 >= w.journal
        /\ w.runner # "none"
    BY <2>1 DEF Alive, Locked
  <2>3. AttemptMoves(a) /\ worker'[a].runner = "exited"
    BY <2>2, <2>8, RunnerGoes
  <2>. QED
    BY <1>1, <2>1, <2>3 DEF ProcessMoves, RunStays, InRun, Locked
<1>7. CASE RunnerRefuses(a)
  <2>1. AttemptMoves(a) /\ worker'[a].runner = "exited"
    BY <1>4, <1>7 DEF RunnerRefuses, Locked
  <2>. QED
    BY <1>1, <1>7, <2>1 DEF RunnerRefuses, ProcessMoves, RunStays, InRun, Locked
<1>8. CASE RunnerCreates(a)
  <2>. DEFINE e == [d EXCEPT !.created = TRUE]
  <2>1. /\ AttemptMoves(a) /\ worker'[a].runner = "working"
        /\ worker'[a].operation = w.operation
    BY <1>4, <1>8 DEF RunnerCreates, Locked, Alive
  <2>2. e \in Directory
    BY <1>1, <1>8 DEF RunnerCreates, Directory, Lifecycles, Stopped, Outcome
  <2>3. run' = [run EXCEPT ![RunOf(a)] = e]
    BY <1>1, <1>8 DEF RunnerCreates
  <2>4. /\ e.by = d.by
        /\ e.lifecycle = "none" => d.lifecycle = "none"
        /\ d.created => e.created
        /\ e.saved = d.saved
    BY <1>1, <1>8 DEF RunnerCreates, Directory, Outcome
  <2>6. e.created
    BY <1>1 DEF Directory
  <2>. HIDE DEF e
  <2>5. /\ run' \in [Runs -> Directory] /\ run'[RunOf(a)] = e
        /\ \A r \in Runs \ {RunOf(a)} : run'[r] = run[r]
    BY <2>2, <2>3, RunUpdated
  <2>. QED
    BY <1>8, <2>1, <2>4, <2>5, <2>6
    DEF RunnerCreates, ProcessMoves, RunProceeds, InRun, Locked
<1>9. CASE RunnerResumes(a)
  <2>1. /\ AttemptMoves(a) /\ worker'[a].runner = "working"
        /\ w.runner = "began" /\ w.operation # "start"
    BY <1>4, <1>9 DEF RunnerResumes, Locked, Alive
  <2>. QED
    BY <1>1, <1>9, <2>1 DEF RunnerResumes, ProcessMoves, RunStays, InRun, Locked
<1>10. CASE RunnerCheckpoints(a)
  <2>. DEFINE status == "RUNNING"
  <2>1. status \in Stopped \cup {"RUNNING"}
    OBVIOUS
  <2>2. AttemptMoves(a) /\ worker'[a].runner = "working"
    <3>1. worker' = [worker EXCEPT ![a].runner = "working"]
      BY <1>1, <1>10 DEF RunnerCheckpoints, Attempt
    <3>. QED
      BY <1>4, <1>10, <3>1 DEF RunnerCheckpoints, Locked, Alive
  <2>. DEFINE e == Checkpointed(d, status)
  <2>3. run' = [run EXCEPT ![RunOf(a)] = e]
    BY <1>1, <1>10, <2>1 DEF RunnerCheckpoints
  <2>4. e \in Directory /\ e.by = d.by /\ e.lifecycle = d.lifecycle
        /\ e.created = d.created
    BY <1>1, <2>1 DEF Checkpointed, Directory, Stopped
  <2>. HIDE DEF e
  <2>5. /\ run' \in [Runs -> Directory] /\ run'[RunOf(a)] = e
        /\ \A r \in Runs \ {RunOf(a)} : run'[r] = run[r]
    BY <2>3, <2>4, RunUpdated
  <2>. QED
    BY <1>10, <2>2, <2>4, <2>5
    DEF RunnerCheckpoints, ProcessMoves, RunProceeds, InRun, Locked
<1>11. CASE RunnerStops(a)
  <2>1. PICK status \in Results : run' = [run EXCEPT ![RunOf(a)] =
                                               Checkpointed(@, status)]
    BY <1>11 DEF RunnerStops
  <2>2. AttemptMoves(a) /\ worker'[a].runner = "saved"
    BY <1>4, <1>11 DEF RunnerStops, Locked, Alive
  <2>. DEFINE e == Checkpointed(d, status)
  <2>3. run' = [run EXCEPT ![RunOf(a)] = e]
    BY <1>1, <1>11, <2>1 DEF RunnerStops
  <2>4. e \in Directory /\ e.by = d.by /\ e.lifecycle = d.lifecycle
        /\ e.created = d.created
    BY <1>1, <2>1, ResultsAssumption DEF Checkpointed, Directory, Stopped
  <2>. HIDE DEF e
  <2>5. /\ run' \in [Runs -> Directory] /\ run'[RunOf(a)] = e
        /\ \A r \in Runs \ {RunOf(a)} : run'[r] = run[r]
    BY <2>3, <2>4, RunUpdated
  <2>. QED
    BY <1>11, <2>2, <2>4, <2>5
    DEF RunnerStops, ProcessMoves, RunProceeds, InRun, Locked
<1>12. CASE RunnerFails(a)
  <2>. DEFINE e == [d EXCEPT !.lifecycle = "FAILED"]
  <2>1. /\ AttemptMoves(a) /\ worker'[a].runner = "published"
        /\ worker'[a].operation = w.operation
    BY <1>4, <1>12 DEF RunnerFails, Locked, Alive
  <2>2. e \in Directory
    BY <1>1, <1>12 DEF RunnerFails, Directory, Lifecycles, Stopped, Outcome
  <2>3. run' = [run EXCEPT ![RunOf(a)] = e]
    BY <1>1, <1>12 DEF RunnerFails
  <2>4. /\ e.by = d.by
        /\ e.lifecycle = "none" => d.lifecycle = "none"
        /\ d.created => e.created
        /\ e.saved = d.saved
    BY <1>1, <1>12 DEF RunnerFails, Directory, Outcome
  <2>. HIDE DEF e
  <2>5. /\ run' \in [Runs -> Directory] /\ run'[RunOf(a)] = e
        /\ \A r \in Runs \ {RunOf(a)} : run'[r] = run[r]
    BY <2>2, <2>3, RunUpdated
  <2>. QED
    BY <1>12, <2>1, <2>4, <2>5
    DEF RunnerFails, ProcessMoves, RunProceeds, InRun, Locked
<1>13. CASE RunnerPublishes(a)
  <2>. DEFINE e == [d EXCEPT !.lifecycle = Outcome(d.saved)]
  <2>1. /\ AttemptMoves(a) /\ worker'[a].runner = "published"
        /\ worker'[a].operation = w.operation
    BY <1>4, <1>13 DEF RunnerPublishes, Locked, Alive
  <2>2. e \in Directory
    BY <1>1, <1>13 DEF RunnerPublishes, Directory, Lifecycles, Stopped, Outcome
  <2>3. run' = [run EXCEPT ![RunOf(a)] = e]
    BY <1>1, <1>13 DEF RunnerPublishes
  <2>4. /\ e.by = d.by
        /\ e.lifecycle = "none" => d.lifecycle = "none"
        /\ d.created => e.created
        /\ e.saved = d.saved
    BY <1>1, <1>13 DEF RunnerPublishes, Directory, Outcome
  <2>. HIDE DEF e
  <2>5. /\ run' \in [Runs -> Directory] /\ run'[RunOf(a)] = e
        /\ \A r \in Runs \ {RunOf(a)} : run'[r] = run[r]
    BY <2>2, <2>3, RunUpdated
  <2>6. w.runner = "saved"
    BY <1>13 DEF RunnerPublishes
  <2>7. RunProceeds(a)
    BY <2>1, <2>4, <2>5, <2>6 DEF RunProceeds, InRun, Locked
  <2>. QED
    BY <2>1, <2>5, <2>7 DEF ProcessMoves
<1>14. CASE RunnerSeals(a)
  <2>. DEFINE e == [d EXCEPT !.seal = "current"]
  <2>1. /\ AttemptMoves(a) /\ worker'[a].runner = "exited"
        /\ worker'[a].operation = w.operation
    BY <1>4, <1>14 DEF RunnerSeals, Locked, Alive
  <2>2. e \in Directory
    BY <1>1, <1>14 DEF RunnerSeals, Directory, Lifecycles, Stopped, Outcome
  <2>3. run' = [run EXCEPT ![RunOf(a)] = e]
    BY <1>1, <1>14 DEF RunnerSeals
  <2>4. /\ e.by = d.by
        /\ e.lifecycle = "none" => d.lifecycle = "none"
        /\ d.created => e.created
        /\ e.saved = d.saved
    BY <1>1, <1>14 DEF RunnerSeals, Directory, Outcome
  <2>. HIDE DEF e
  <2>5. /\ run' \in [Runs -> Directory] /\ run'[RunOf(a)] = e
        /\ \A r \in Runs \ {RunOf(a)} : run'[r] = run[r]
    BY <2>2, <2>3, RunUpdated
  <2>. QED
    BY <1>14, <2>1, <2>4, <2>5
    DEF RunnerSeals, ProcessMoves, RunProceeds, InRun, Locked
<1>15. CASE RunnerDies(a)
  <2>1. AttemptMoves(a) /\ worker'[a].runner = "exited"
    BY <1>4, <1>15 DEF RunnerDies, Locked, Alive
  <2>2. Interrupted(a) /\ worker'[a].runner \notin Locked
    BY <1>15, <2>1 DEF RunnerDies, Locked
  <2>. QED
    BY <2>1, <2>2, InterruptedRun DEF ProcessMoves
<1>16. CASE SupervisorKills(a)
  <2>1. AttemptMoves(a) /\ worker'[a].runner = "exited"
    BY <1>4, <1>16 DEF SupervisorKills, Locked, Alive
  <2>2. Interrupted(a) /\ worker'[a].runner \notin Locked
    BY <1>16, <2>1 DEF SupervisorKills, Locked
  <2>. QED
    BY <2>1, <2>2, InterruptedRun DEF ProcessMoves
<1>. QED
  BY <1>5, <1>6, <1>7, <1>8, <1>9, <1>10, <1>11, <1>12, <1>13, <1>14, <1>15, <1>16 DEF RunnerStep

\* A supervisor that dies takes its runner along.
LEMMA SupervisorEnds ==
    ASSUME WorkerTypeOK, AttemptsSound, NEW a \in Attempts, SupervisorDies(a)
    PROVE  ProcessMoves(a)
<1>. DEFINE w == [worker[a] EXCEPT !.supervisor = "none", !.runner = "none",
                                  !.doubled = @ \/ worker[a].pending > 0]
<1>1. /\ worker \in [Attempts -> Attempt]
      /\ worker[a] \in Attempt /\ AttemptSound(worker[a])
      /\ worker[a].supervisor # "none"
  BY RunOfAttempt DEF WorkerTypeOK, AttemptsSound, SupervisorDies
<1>2. worker' = [worker EXCEPT ![a] = w]
  BY <1>1 DEF SupervisorDies
<1>3. w \in Attempt
  BY <1>1 DEF Attempt
<1>4. /\ w.pending = worker[a].pending /\ w.runner = "none"
      /\ w.run = worker[a].run /\ w.operation = worker[a].operation
      /\ w.revision = worker[a].revision /\ w.cancel = worker[a].cancel
      /\ w.started = worker[a].started /\ w.journal = worker[a].journal
      /\ w.finished = worker[a].finished
      /\ w.supervisor = "none"
      /\ worker[a].journal \in Nat /\ worker[a].pending \in Nat
  BY <1>1, WorkerAssumption DEF Attempt
<1>5. worker[a].started
  BY <1>1 DEF AttemptSound
<1>. HIDE DEF w
<1>6. w.started
  BY <1>4, <1>5
<1>7. w.operation # "none"
  BY <1>1, <1>4, <1>5 DEF AttemptSound
<1>8. AttemptSound(w)
  BY <1>1, <1>4, <1>6, <1>7 DEF AttemptSound, Locked
<1>9. worker'[a] = w /\ worker' \in [Attempts -> Attempt]
      /\ \A b \in Attempts \ {a} : worker'[b] = worker[b]
  BY <1>1, <1>2, <1>3
<1>10. w.journal >= worker[a].journal /\ w.pending <= worker[a].pending
  BY <1>4
<1>11. AttemptMoves(a)
  BY <1>1, <1>4, <1>5, <1>6, <1>8, <1>9, <1>10 DEF AttemptMoves
<1>12. Interrupted(a) /\ worker'[a].runner \notin Locked
  BY <1>4, <1>9 DEF SupervisorDies, Locked
<1>. QED
  BY <1>11, <1>12, InterruptedRun DEF ProcessMoves

\* Whatever a process does, lives through or dies of.
LEMMA ProcessesMove ==
    ASSUME WorkerTypeOK, AttemptsSound, NEW a \in Attempts,
           SupervisorStep(a) \/ RunnerStep(a) \/ WorkerFault(a)
    PROVE  ProcessMoves(a)
  BY SupervisorMoves, RunnerMoves, SupervisorEnds
  DEF SupervisorStep, WorkerFault

\* What the steps of processes do to the ability to run.
LEMMA SlotsMove ==
    ASSUME WorkerTypeOK, NEW a \in Attempts,
           SupervisorStep(a) \/ RunnerStep(a) \/ WorkerFault(a)
    PROVE  SlotMoves(a)
<1>1. /\ worker \in [Attempts -> Attempt] /\ worker[a] \in Attempt
      /\ worker[a].pending \in 0..MaxPending /\ MaxPending \in Nat
  BY WorkerAssumption DEF WorkerTypeOK, Attempt
<1>2. CASE SupervisorStarts(a)
  BY <1>1, <1>2 DEF SupervisorStarts, SlotMoves, CanRun, DiedAlone, Attempt
<1>3. CASE SupervisorLeaves(a)
  BY <1>1, <1>3 DEF SupervisorLeaves, SlotMoves, CanRun, DiedAlone, Attempt
<1>4. CASE SupervisorLaunches(a)
  BY <1>1, <1>4 DEF SupervisorLaunches, SlotMoves, CanRun, DiedAlone, Attempt
<1>5. CASE SupervisorCannotLaunch(a)
  BY <1>1, <1>5
  DEF SupervisorCannotLaunch, SlotMoves, CanRun, DiedAlone, Attempt
<1>6. CASE SupervisorNotices(a)
  BY <1>1, <1>6 DEF SupervisorNotices, SlotMoves, CanRun, DiedAlone, Attempt
<1>7. CASE SupervisorFinishes(a)
  BY <1>1, <1>7 DEF SupervisorFinishes, SlotMoves, CanRun, DiedAlone, Attempt
<1>8. CASE SupervisorGivesUp(a)
  BY <1>1, <1>8 DEF SupervisorGivesUp, SlotMoves, CanRun, DiedAlone, Attempt
<1>9. CASE SupervisorDies(a)
  BY <1>1, <1>9 DEF SupervisorDies, SlotMoves, CanRun, DiedAlone, Attempt
<1>10. CASE PendingDies(a)
  BY <1>1, <1>10 DEF PendingDies, SlotMoves, CanRun, DiedAlone, Attempt
<1>11. ASSUME NEW place, NEW entries,
              worker' = [worker EXCEPT ![a].journal = entries,
                                       ![a].runner = place]
       PROVE  SlotMoves(a)
  BY <1>1, <1>11 DEF SlotMoves, CanRun, DiedAlone, Attempt
<1>12. ASSUME NEW place, worker' = [worker EXCEPT ![a].runner = place]
       PROVE  SlotMoves(a)
  BY <1>1, <1>12 DEF SlotMoves, CanRun, DiedAlone, Attempt
<1>13. ASSUME worker' = worker PROVE SlotMoves(a)
  BY <1>13 DEF SlotMoves
<1>14. CASE SupervisorKills(a)
  BY <1>12, <1>14 DEF SupervisorKills
<1>15. CASE RunnerBegins(a) \/ RunnerDiesJournaled(a)
  BY <1>11, <1>15 DEF RunnerBegins, RunnerDiesJournaled
<1>16. CASE RunnerStep(a) /\ ~RunnerBegins(a)
  BY <1>12, <1>13, <1>16
  DEF RunnerStep, RunnerRefuses, RunnerCreates, RunnerResumes,
      RunnerCheckpoints, RunnerStops, RunnerFails, RunnerPublishes,
      RunnerSeals
<1>17. CASE RunnerDies(a)
  BY <1>12, <1>17 DEF RunnerDies
<1>. QED
  BY <1>2, <1>3, <1>4, <1>5, <1>6, <1>7, <1>8, <1>9, <1>10, <1>14, <1>15,
     <1>16, <1>17 DEF SupervisorStep, WorkerFault

(***************************************************************************)
(* What the service does to attempts and runs                              *)
(***************************************************************************)

\* It makes the request of the attempt at which it is, and launches
\* supervisors for it while none has left a trace; what exists of the
\* processes stays.
ServedAttempt(a) ==
    LET old == worker[a]
        new == worker'[a]
    IN  /\ new.runner = old.runner /\ new.supervisor = old.supervisor
        /\ new.started = old.started /\ new.finished = old.finished
        /\ new.journal = old.journal /\ new.doubled = old.doubled
        /\ \/ new.run = old.run /\ new.operation = old.operation
              /\ new.revision = old.revision
           \/ /\ pc \in {"act", "launch"} /\ a = AttemptOf(at)
              /\ old.operation = "none"
              /\ new.run = at.run /\ new.operation = at.operation
              /\ at.operation # "start" =>
                     new.revision = Revision(run[RunDir(at)])
        /\ \/ new.pending = old.pending
           \/ /\ a = AttemptOf(at) /\ ~old.started /\ new.operation # "none"
              /\ \/ pc = "launch" /\ UNCHANGED task
                 \/ pc = "act" /\ observed = "UNKNOWN"
        /\ new = old \/ a[2] <= task[a[1]].attempts

\* It aborts runs in which nobody works.
ServedRun(r) ==
    \/ run'[r] = run[r]
    \/ /\ run[r].lifecycle # "none"
       /\ ~Executing(r)
       /\ run'[r] = Aborted(run[r])

Serves == /\ WorkerTypeOK'
          /\ \A a \in Attempts : ServedAttempt(a)
          /\ \A r \in Runs : ServedRun(r)

\* A row that was read and is occupied names an attempt and a run.
LEMMA CurrentRow ==
    ASSUME RowsInductive, NEW row \in Row, SameRow(row),
           row.state \in Occupied
    PROVE  /\ row \in Task /\ row.id \in Tasks
           /\ AttemptOf(row) \in Attempts /\ RunDir(row) \in Runs
           /\ AttemptOf(row)[1] = row.id /\ AttemptOf(row)[2] = row.attempts
           /\ task[row.id].run = row.run
           /\ task[row.id].attempts = row.attempts
           /\ task[row.id].state \in Occupied
<1>. DEFINE old == task[row.id]
<1>1. row.id \in Tasks
  BY DEF Row
<1>2. old \in Task
  BY <1>1, RowsBounded
<1>3. /\ old.run = row.run /\ old.attempts = row.attempts
      /\ old.state \in Occupied /\ old.auto = row.auto
  BY DEF SameRow, Row, Occupied
<1>4. old.attempts >= 1
  BY <1>1, <1>3 DEF RowsInductive, RowsCounted, Attempted
<1>5. old.attempts \in 1..MaxAttempts /\ old.run \in 0..MaxReruns
  BY <1>2, <1>4, WorkerAssumption DEF Task
<1>6. row \in Task
  BY <1>2, <1>3 DEF Row, Task
<1>7. AttemptOf(row) = <<row.id, row.attempts>> /\ RunDir(row) = <<row.id, row.run>>
  BY DEF AttemptOf, RunDir
<1>. QED
  BY <1>1, <1>3, <1>5, <1>6, <1>7 DEF Attempts, Runs

\* A request.
LEMMA RequestedAttempt ==
    ASSUME WorkerTypeOK, NEW w \in Attempt, NEW row \in Task
    PROVE  LET new == Requested(w, row) IN
           /\ new \in Attempt
           /\ new.run = row.run /\ new.operation = row.operation
           /\ new.operation # "none"
           /\ row.operation # "start" =>
                  new.revision = Revision(run[RunDir(row)])
           /\ new.runner = w.runner /\ new.supervisor = w.supervisor
           /\ new.started = w.started /\ new.finished = w.finished
           /\ new.journal = w.journal /\ new.pending = w.pending
           /\ new.doubled = w.doubled
<1>. DEFINE revision == IF row.operation = "start" THEN w.revision
                        ELSE Revision(run[RunDir(row)])
<1>1. RunDir(row) \in Runs
  BY DEF RunDir, Runs, Task
<1>2. run[RunDir(row)] \in Directory
  BY <1>1 DEF WorkerTypeOK
<1>3. revision \in (0..MaxAttempts) \X (Lifecycles \cup {"none"})
  BY <1>2 DEF Revision, Directory, Attempt
<1>4. row.run \in 0..MaxReruns /\ row.operation \in Operations
      /\ row.operation # "none"
  BY DEF Task, Operations
<1>5. Requested(w, row) = [w EXCEPT !.run = row.run,
                                    !.operation = row.operation,
                                    !.revision = revision]
  BY DEF Requested
<1>6. row.operation # "start" => revision = Revision(run[RunDir(row)])
  OBVIOUS
<1>. HIDE DEF revision
<1>. QED
  BY <1>3, <1>4, <1>5, <1>6 DEF Attempt

\* A supervisor more.
LEMMA LaunchedAttempt ==
    ASSUME NEW w \in Attempt
    PROVE  LET new == Launched(w) IN
           /\ new \in Attempt
           /\ new.run = w.run /\ new.operation = w.operation
           /\ new.revision = w.revision
           /\ new.runner = w.runner /\ new.supervisor = w.supervisor
           /\ new.started = w.started /\ new.finished = w.finished
           /\ new.journal = w.journal /\ new.doubled = w.doubled
<1>. DEFINE pending == IF w.pending < MaxPending THEN w.pending + 1
                       ELSE MaxPending
<1>1. pending \in 0..MaxPending
  BY WorkerAssumption DEF Attempt
<1>2. Launched(w) = [w EXCEPT !.pending = pending]
  BY DEF Launched
<1>. HIDE DEF pending
<1>. QED
  BY <1>1, <1>2 DEF Attempt

\* Attempts that are not touched are served.
LEMMA UntouchedAttempt ==
    ASSUME NEW a \in Attempts, worker'[a] = worker[a]
    PROVE  ServedAttempt(a)
  BY DEF ServedAttempt

\* One attempt changes.
LEMMA OneAttempt ==
    ASSUME WorkerTypeOK, NEW b \in Attempts, NEW w \in Attempt,
           worker' = [worker EXCEPT ![b] = w]
    PROVE  /\ worker' \in [Attempts -> Attempt] /\ worker'[b] = w
           /\ \A a \in Attempts \ {b} : ServedAttempt(a)
<1>1. \A a \in Attempts \ {b} : worker'[a] = worker[a]
  BY DEF WorkerTypeOK
<1>. QED
  BY <1>1, UntouchedAttempt DEF WorkerTypeOK

\* A step that leaves attempts and runs alone.
LEMMA IdleServes ==
    ASSUME WorkerTypeOK, UNCHANGED <<worker, run>>
    PROVE  Serves
  BY UntouchedAttempt DEF Serves, ServedRun, WorkerTypeOK

\* A step that changes one attempt only.
LEMMA AttemptServes ==
    ASSUME WorkerTypeOK, NEW b \in Attempts, NEW w \in Attempt,
           worker' = [worker EXCEPT ![b] = w], UNCHANGED run,
           worker'[b] = w => ServedAttempt(b)
    PROVE  Serves
<1>1. /\ worker' \in [Attempts -> Attempt] /\ worker'[b] = w
      /\ \A a \in Attempts \ {b} : ServedAttempt(a)
  BY OneAttempt
<1>2. \A a \in Attempts : ServedAttempt(a)
  BY <1>1
<1>. QED
  BY <1>1, <1>2 DEF Serves, ServedRun, WorkerTypeOK

\* An abort.
LEMMA AbortServes ==
    ASSUME WorkerTypeOK, NEW r, CanAbort(r), AbortRun(r), UNCHANGED worker
    PROVE  Serves
<1>. DEFINE d == IF run[r].lifecycle \in {"none", "CANCELLED"} THEN run[r]
                 ELSE Aborted(run[r])
<1>1. run' = [run EXCEPT ![r] = d]
  BY DEF AbortRun
<1>2. \A a \in Attempts : ServedAttempt(a)
  BY UntouchedAttempt
<1>3. ASSUME r \in Runs
      PROVE  /\ d \in Directory
             /\ \/ d = run[r]
                \/ /\ run[r].lifecycle # "none"
                   /\ ~Executing(r)
                   /\ d = Aborted(run[r])
  <2>1. run[r] \in Directory
    BY <1>3 DEF WorkerTypeOK
  <2>2. Aborted(run[r]) \in Directory
    BY <2>1 DEF Aborted, Directory, Lifecycles
  <2>3. CASE run[r].lifecycle \in {"none", "CANCELLED"}
    <3>1. d = run[r]
      BY <2>3
    <3>. HIDE DEF d
    <3>. QED
      BY <2>1, <3>1
  <2>4. CASE run[r].lifecycle \notin {"none", "CANCELLED"}
    <3>1. run[r].lifecycle # "none" /\ ~Executing(r) /\ d = Aborted(run[r])
      BY <2>4 DEF CanAbort
    <3>. QED
      BY <2>2, <3>1
  <2>. QED
    BY <2>3, <2>4
<1>. HIDE DEF d
<1>4. run' \in [Runs -> Directory]
  BY <1>1, <1>3 DEF WorkerTypeOK
<1>5. ASSUME NEW q \in Runs PROVE ServedRun(q)
  <2>1. CASE q = r
    <3>1. run'[q] = d
      BY <1>1, <2>1 DEF WorkerTypeOK
    <3>. QED
      BY <1>3, <2>1, <3>1 DEF ServedRun
  <2>2. CASE q # r
    <3>1. run'[q] = run[q]
      BY <1>1, <2>2 DEF WorkerTypeOK
    <3>. QED
      BY <3>1 DEF ServedRun
  <2>. QED
    BY <2>1, <2>2
<1>. QED
  BY <1>2, <1>4, <1>5 DEF Serves, WorkerTypeOK

\* The cancellation of a task reaches its attempt.
LEMMA ObserveServes ==
    ASSUME WorkerTypeOK, RowsInductive, ReconcileObserves
    PROVE  Serves
<1>. DEFINE row == Head(todo)
            b == AttemptOf(row)
            w == [worker[b] EXCEPT !.cancel =
                      @ \/ row.state = "CANCEL_REQUESTED"]
<1>1. row \in Row /\ row.state \in Occupied /\ SameRow(row)
  <2>1. todo \in Seq(Row) /\ todo # <<>> /\ pc = "reconcile"
    BY DEF ReconcileObserves, RowsInductive, ReadIsGood, ReadRows
  <2>2. 1 \in DOMAIN todo /\ row = todo[1] /\ row \in Row
    BY <2>1
  <2>3. row.state \in Occupied
    BY DEF ReconcileObserves
  <2>. QED
    BY <2>1, <2>2, <2>3 DEF RowsInductive, ReadsCurrent
<1>. HIDE DEF row
<1>2. b \in Attempts /\ b[2] = task[b[1]].attempts
  BY <1>1, CurrentRow
<1>3. UNCHANGED run /\ worker' = [worker EXCEPT ![b].cancel =
                                    @ \/ row.state = "CANCEL_REQUESTED"]
  BY DEF ReconcileObserves, row
<1>. HIDE DEF b
<1>4. worker[b] \in Attempt
  BY <1>2 DEF WorkerTypeOK
<1>5. w \in Attempt
  BY <1>4 DEF Attempt
<1>6. worker' = [worker EXCEPT ![b] = w]
  BY <1>3
<1>7. /\ w.run = worker[b].run /\ w.operation = worker[b].operation
      /\ w.revision = worker[b].revision
      /\ w.runner = worker[b].runner /\ w.supervisor = worker[b].supervisor
      /\ w.started = worker[b].started /\ w.finished = worker[b].finished
      /\ w.journal = worker[b].journal /\ w.pending = worker[b].pending
      /\ w.doubled = worker[b].doubled
  BY <1>4 DEF Attempt
<1>. HIDE DEF w
<1>8. worker'[b] = w => ServedAttempt(b)
  <2>1. b[2] <= task[b[1]].attempts
    <3>1. b[2] \in Nat
      BY <1>2 DEF Attempts
    <3>. QED
      BY <1>2, <3>1
  <2>. QED
    BY <1>7, <2>1 DEF ServedAttempt
<1>. QED
  BY <1>2, <1>3, <1>5, <1>6, <1>8, AttemptServes

\* The request and the first launch.
LEMMA DispatchServes ==
    ASSUME WorkerTypeOK, RowsInductive, AttemptsRequested,
           DispatchLaunches \/ DispatchFails
    PROVE  Serves
<1>. DEFINE b == AttemptOf(at)
            w == Requested(worker[b], at)
            x == Launched(w)
<1>1. pc = "launch" /\ at \in Row /\ at.state \in Occupied /\ SameRow(at)
      /\ UNCHANGED run
  BY DEF DispatchLaunches, DispatchFails, RowsInductive, ReadIsGood, ReadRows,
     ReadsCurrent
<1>2. b \in Attempts /\ b[2] = task[b[1]].attempts /\ at \in Task
  BY <1>1, CurrentRow
<1>3. worker[b] = NewAttempt /\ worker[b] \in Attempt
  BY <1>1, <1>2 DEF AttemptsRequested, WorkerTypeOK
<1>4. /\ w \in Attempt /\ w.run = at.run /\ w.operation = at.operation
      /\ w.operation # "none"
      /\ at.operation # "start" => w.revision = Revision(run[RunDir(at)])
      /\ w.runner = worker[b].runner /\ w.supervisor = worker[b].supervisor
      /\ w.started = worker[b].started /\ w.finished = worker[b].finished
      /\ w.journal = worker[b].journal /\ w.pending = worker[b].pending
      /\ w.doubled = worker[b].doubled
  BY <1>2, <1>3, RequestedAttempt
<1>. HIDE DEF w
<1>5. /\ x \in Attempt /\ x.run = w.run /\ x.operation = w.operation
      /\ x.revision = w.revision
      /\ x.runner = w.runner /\ x.supervisor = w.supervisor
      /\ x.started = w.started /\ x.finished = w.finished
      /\ x.journal = w.journal /\ x.doubled = w.doubled
  BY <1>4, LaunchedAttempt
<1>. HIDE DEF x
<1>6. b[2] <= task[b[1]].attempts
  <2>1. b[2] \in Nat
    BY <1>2 DEF Attempts
  <2>. QED
    BY <1>2, <2>1
<1>7. worker[b].operation = "none" /\ ~worker[b].started
  BY <1>3 DEF NewAttempt
<1>8. b = AttemptOf(at)
  OBVIOUS
<1>. HIDE DEF b
<1>9. CASE worker' = [worker EXCEPT ![b] = w]
  <2>1. worker'[b] = w => ServedAttempt(b)
    BY <1>1, <1>4, <1>6, <1>7, <1>8 DEF ServedAttempt
  <2>. QED
    BY <1>1, <1>2, <1>4, <1>9, <2>1, AttemptServes
<1>10. CASE DispatchLaunches
  <2>1. worker' = [worker EXCEPT ![b] = x] /\ UNCHANGED task
    BY <1>10 DEF DispatchLaunches, b, w, x
  <2>2. worker'[b] = x => ServedAttempt(b)
    BY <1>1, <1>4, <1>5, <1>6, <1>7, <1>8, <2>1 DEF ServedAttempt
  <2>. QED
    BY <1>1, <1>2, <1>5, <2>1, <2>2, AttemptServes
<1>11. CASE UNCHANGED worker
  BY <1>1, <1>11, IdleServes
<1>12. CASE DispatchFails
  <2>1. UNCHANGED worker \/ worker' = [worker EXCEPT ![b] = w]
    BY <1>12 DEF DispatchFails, b, w
  <2>. QED
    BY <1>9, <1>11, <2>1
<1>. QED
  BY <1>10, <1>12

\* An attempt that left no trace is launched again.
LEMMA UnknownServes ==
    ASSUME WorkerTypeOK, RowsInductive, ActUnknown
    PROVE  Serves
<1>. DEFINE b == AttemptOf(at)
            old == worker[b]
            q == IF old.operation = "none" THEN Requested(old, at) ELSE old
            x == Launched(q)
<1>1. pc = "act" /\ at \in Row /\ at.state \in Occupied /\ SameRow(at)
      /\ observed = "UNKNOWN" /\ UNCHANGED run
      /\ worker' = [worker EXCEPT ![b] = Relaunched(old)]
  BY DEF ActUnknown, RowsInductive, ReadIsGood, ReadRows, ReadsCurrent
<1>2. b \in Attempts /\ b[2] = task[b[1]].attempts /\ at \in Task
  BY <1>1, CurrentRow
<1>3. old \in Attempt
  BY <1>1, <1>2 DEF WorkerTypeOK
<1>4. /\ q \in Attempt
      /\ \/ /\ old.operation = "none"
            /\ q.run = at.run /\ q.operation = at.operation
            /\ at.operation # "start" => q.revision = Revision(run[RunDir(at)])
         \/ q.run = old.run /\ q.operation = old.operation
            /\ q.revision = old.revision
      /\ q.operation # "none"
      /\ q.runner = old.runner /\ q.supervisor = old.supervisor
      /\ q.started = old.started /\ q.finished = old.finished
      /\ q.journal = old.journal /\ q.pending = old.pending
      /\ q.doubled = old.doubled
  BY <1>2, <1>3, RequestedAttempt
<1>. HIDE DEF q
<1>5. /\ x \in Attempt /\ x.run = q.run /\ x.operation = q.operation
      /\ x.revision = q.revision
      /\ x.runner = q.runner /\ x.supervisor = q.supervisor
      /\ x.started = q.started /\ x.finished = q.finished
      /\ x.journal = q.journal /\ x.doubled = q.doubled
  BY <1>4, LaunchedAttempt
<1>. HIDE DEF x
<1>6. b[2] <= task[b[1]].attempts
  <2>1. b[2] \in Nat
    BY <1>2 DEF Attempts
  <2>. QED
    BY <1>2, <2>1
<1>7. b = AttemptOf(at)
  OBVIOUS
<1>8. CASE old.started \/ old.finished # "none"
  <2>1. worker' = [worker EXCEPT ![b] = old]
    BY <1>1, <1>8 DEF Relaunched
  <2>2. worker' = worker
    BY <1>2, <2>1 DEF WorkerTypeOK
  <2>. QED
    BY <1>1, <2>2, IdleServes
<1>9. CASE ~(old.started \/ old.finished # "none")
  <2>1. worker' = [worker EXCEPT ![b] = x]
    BY <1>1, <1>9 DEF Relaunched, x, q
  <2>. HIDE DEF b
  <2>2. worker'[b] = x => ServedAttempt(b)
    BY <1>1, <1>4, <1>5, <1>6, <1>7, <1>9 DEF ServedAttempt
  <2>. QED
    BY <1>1, <1>2, <1>5, <2>1, <2>2, AttemptServes
<1>. QED
  BY <1>8, <1>9

\* Every step that is not one of an attempt's processes.
LEMMA NextServes ==
    ASSUME WorkerTypeOK, RowsInductive, AttemptsRequested, [Next]_vars,
           ~ \E a \in Attempts : Supervises(a) \/ Executes(a) \/ Breaks(a)
    PROVE  Serves
<1>1. CASE ReconcileAborts
  <2>1. CASE CanAbort(RunDir(Head(todo)))
    BY <1>1, <2>1, AbortServes DEF ReconcileAborts
  <2>2. CASE ~CanAbort(RunDir(Head(todo)))
    BY <1>1, <2>2, IdleServes DEF ReconcileAborts
  <2>. QED
    BY <2>1, <2>2
<1>2. CASE FinishAborts
  <2>1. CASE CanAbort(RunDir(at))
    BY <1>2, <2>1, AbortServes DEF FinishAborts
  <2>2. CASE ~CanAbort(RunDir(at))
    BY <1>2, <2>2, IdleServes DEF FinishAborts
  <2>. QED
    BY <2>1, <2>2
<1>3. ASSUME NEW o \in Ops, OperateAborts(o) PROVE Serves
  <2>. DEFINE r == <<call[o].task, call[o].run>>
  <2>1. CASE CanAbort(r)
    BY <1>3, <2>1, AbortServes DEF OperateAborts
  <2>2. CASE ~CanAbort(r)
    BY <1>3, <2>2, IdleServes DEF OperateAborts
  <2>. QED
    BY <2>1, <2>2
<1>4. CASE ReconcileObserves \/ ActUnknown \/ DispatchLaunches \/ DispatchFails
  BY <1>4, ObserveServes, UnknownServes, DispatchServes
<1>5. CASE Service
  <2>1. CASE ActRunning \/ ActFinish \/ ReconcilePasses \/ Invalidate
             \/ InvalidateEnds \/ DispatchPasses \/ TickEnds
    BY <2>1, IdleServes DEF ActRunning, ActFinish, ReconcilePasses, Invalidate,
       InvalidateEnds, DispatchPasses, TickEnds
  <2>2. ASSUME NEW t \in Tasks,
               MarkInvalid(t) \/ DispatchSkips(t) \/ DispatchClaims(t)
        PROVE  Serves
    BY <2>2, IdleServes DEF MarkInvalid, DispatchSkips, DispatchClaims
  <2>. QED
    BY <1>1, <1>2, <1>4, <1>5, <2>1, <2>2 DEF Service
<1>6. ASSUME NEW o \in Ops, User(o) PROVE Serves
  <2>1. CASE OperateInspects(o) \/ OperateResumes(o)
    BY <2>1, IdleServes DEF OperateInspects, OperateResumes
  <2>2. ASSUME NEW t \in Tasks, OperateCancels(o, t) \/ OperateReruns(o, t)
        PROVE  Serves
    BY <2>2, IdleServes DEF OperateCancels, OperateReruns
  <2>. QED
    BY <1>3, <1>6, <2>1, <2>2 DEF User
<1>7. CASE ServiceStarts \/ ServiceCrashes
  BY <1>7, IdleServes DEF ServiceStarts, ServiceCrashes
<1>8. ASSUME NEW r \in Runs, Contaminates(r) PROVE Serves
  BY <1>8, IdleServes DEF Contaminates
<1>9. CASE UNCHANGED vars
  BY <1>9, IdleServes DEF vars
<1>. QED
  BY <1>4, <1>5, <1>6, <1>7, <1>8, <1>9 DEF Next

(***************************************************************************)
(* The attempts under a step of their processes                            *)
(***************************************************************************)

\* Whoever moves was requested, and its row names it or has gone further.
LEMMA MoverRequested ==
    ASSUME WorkerTypeOK, RowsInductive, AttemptInductive,
           NEW a \in Attempts, ProcessMoves(a)
    PROVE  /\ worker[a] # NewAttempt /\ worker[a].operation # "none"
           /\ a[2] <= task[a[1]].attempts
           /\ worker[a].run <= task[a[1]].run
           /\ \A b \in Attempts : RunOf(b)' = RunOf(b)
<1>1. /\ worker[a] \in Attempt /\ AttemptSound(worker[a])
      /\ a[1] \in Tasks /\ a[2] \in Nat
  BY RunOfAttempt DEF AttemptInductive, AttemptsSound
<1>2. worker[a].pending > 0 \/ worker[a].supervisor # "none"
  BY DEF ProcessMoves, AttemptMoves
<1>3. worker[a].operation # "none"
  BY <1>1, <1>2 DEF AttemptSound
<1>4. worker[a] # NewAttempt
  BY <1>3 DEF NewAttempt
<1>5. task[a[1]].attempts \in Nat
  BY <1>1 DEF RowsInductive, ReadIsGood, RowsTyped, Row
<1>6. a[2] <= task[a[1]].attempts
  BY <1>1, <1>4, <1>5 DEF AttemptInductive, AttemptsRequested
<1>7. worker[a].run <= task[a[1]].run
  BY <1>3 DEF AttemptInductive, AttemptsRequested
<1>8. \A b \in Attempts : worker'[b].run = worker[b].run
  BY DEF ProcessMoves, AttemptMoves
<1>. QED
  BY <1>3, <1>4, <1>6, <1>7, <1>8 DEF RunOf

\* The attempts stay sound and requested.
LEMMA ProcessRequested ==
    ASSUME WorkerTypeOK, RowsInductive, AttemptInductive,
           NEW a \in Attempts, ProcessMoves(a), UNCHANGED others
    PROVE  AttemptsSound' /\ AttemptsRequested' /\ RevisionsEarlier'
<1>1. \A b \in Attempts \ {a} : worker'[b] = worker[b]
  BY DEF ProcessMoves, AttemptMoves
<1>2. /\ worker'[a].run = worker[a].run
      /\ worker'[a].operation = worker[a].operation
      /\ worker'[a].revision = worker[a].revision
      /\ AttemptSound(worker'[a])
  BY DEF ProcessMoves, AttemptMoves
<1>3. worker[a] # NewAttempt /\ a[2] <= task[a[1]].attempts
  BY MoverRequested
<1>4. UNCHANGED <<task, pc, at>>
  BY DEF others, service
<1>5. AttemptsSound'
  BY <1>1, <1>2 DEF AttemptInductive, AttemptsSound
<1>6. RevisionsEarlier'
  BY <1>1, <1>2 DEF AttemptInductive, RevisionsEarlier
<1>7. a[2] \in Nat /\ task[a[1]].attempts \in Nat
  BY RunOfAttempt DEF RowsInductive, ReadIsGood, RowsTyped, Row
<1>8. \A b \in Attempts : b[2] > task[b[1]].attempts => worker'[b] = NewAttempt
  BY <1>1, <1>3, <1>7 DEF AttemptInductive, AttemptsRequested
<1>9. ASSUME NEW b \in Attempts, worker'[b].operation # "none"
      PROVE  /\ worker'[b].run <= task[b[1]].run
             /\ b[2] = task[b[1]].attempts /\ task[b[1]].state \in Attempted =>
                    worker'[b].run = task[b[1]].run
  <2>1. worker'[b].run = worker[b].run /\ worker[b].operation # "none"
    BY <1>1, <1>2, <1>9
  <2>. QED
    BY <2>1 DEF AttemptInductive, AttemptsRequested
<1>10. pc = "launch" => worker'[AttemptOf(at)] = NewAttempt
  <2>. SUFFICES ASSUME pc = "launch" PROVE worker'[AttemptOf(at)] = NewAttempt
    OBVIOUS
  <2>1. AttemptOf(at) \in Attempts
    BY CurrentRow DEF RowsInductive, ReadIsGood, ReadRows, ReadsCurrent
  <2>2. worker[AttemptOf(at)] = NewAttempt
    BY DEF AttemptInductive, AttemptsRequested
  <2>. QED
    BY <1>1, <1>3, <2>1, <2>2
<1>11. AttemptOf(at)' = AttemptOf(at)
  BY <1>4 DEF AttemptOf
<1>12. AttemptsRequested'
  BY <1>4, <1>8, <1>9, <1>10, <1>11 DEF AttemptsRequested
<1>. QED
  BY <1>5, <1>6, <1>12

\* The runs stay what the attempts made of them.
LEMMA ProcessRuns ==
    ASSUME WorkerTypeOK, RowsInductive, AttemptInductive,
           NEW a \in Attempts, ProcessMoves(a), UNCHANGED others
    PROVE  RunsBegun'
<1>. DEFINE q == RunOf(a)
<1>1. /\ a[1] \in Tasks /\ a[2] \in 1..MaxAttempts /\ a = <<a[1], a[2]>>
      /\ q \in Runs /\ q[1] = a[1] /\ q[2] = worker[a].run
      /\ run[q] \in Directory
  BY RunOfAttempt DEF RunOf
<1>2. UNCHANGED task
  BY DEF others
<1>3. /\ a[2] <= task[a[1]].attempts /\ worker[a].run <= task[a[1]].run
      /\ worker[a].run \in Nat /\ task[a[1]].run \in Nat
  BY MoverRequested, RunOfAttempt
  DEF Attempt, RowsInductive, ReadIsGood, RowsTyped, Row
<1>4. ASSUME NEW b \in Attempts, worker[b].journal = 1
      PROVE  worker'[b].journal = 1 /\ worker'[b].run = worker[b].run
  <2>1. CASE b # a
    BY <1>4, <2>1 DEF ProcessMoves, AttemptMoves
  <2>2. CASE b = a
    <3>1. /\ worker'[a].journal >= 1 /\ worker'[a].journal <= 1
          /\ worker'[a] \in Attempt /\ worker'[a].run = worker[a].run
      BY <1>4, <2>2 DEF ProcessMoves, AttemptMoves, AttemptSound
    <3>2. worker'[a].journal \in Nat
      BY <3>1 DEF Attempt
    <3>. QED
      BY <2>2, <3>1, <3>2
  <2>. QED
    BY <2>1, <2>2
<1>5. ASSUME NEW r \in Runs, run'[r] = run[r]
      PROVE  /\ r[2] > task[r[1]].run => run'[r] = NewDirectory
             /\ run'[r].lifecycle = "none" => run'[r] = NewDirectory
             /\ run'[r].lifecycle # "none" => run'[r].by >= 1
             /\ run'[r].saved # "none" => run'[r].created
             /\ run'[r].by <= task[r[1]].attempts
             /\ run'[r].by # 0 => /\ worker'[<<r[1], run'[r].by>>].journal = 1
                                 /\ worker'[<<r[1], run'[r].by>>].run = r[2]
  <2>1. run[r] \in Directory /\ r[1] \in Tasks
    BY DEF WorkerTypeOK, Runs
  <2>2. run[r].by # 0 => <<r[1], run[r].by>> \in Attempts
    <3>1. run[r].by # 0 => run[r].by \in 1..MaxAttempts
      BY <2>1, WorkerAssumption DEF Directory
    <3>. QED
      BY <2>1, <3>1 DEF Attempts
  <2>. QED
    BY <1>4, <1>5, <2>2 DEF AttemptInductive, RunsBegun
<1>6. CASE RunStays(a)
  <2>1. \A r \in Runs : run'[r] = run[r]
    BY <1>6 DEF ProcessMoves, RunStays
  <2>. QED
    BY <1>2, <1>5, <2>1 DEF RunsBegun
<1>7. CASE ~RunStays(a)
  <2>. DEFINE d == run[q]
              e == run'[q]
  <2>1. /\ d.lifecycle = "none" => d = NewDirectory
        /\ d.saved # "none" => d.created
        /\ d.by <= task[a[1]].attempts
        /\ d.by # 0 => /\ worker[<<a[1], d.by>>].journal = 1
                      /\ worker[<<a[1], d.by>>].run = q[2]
    BY <1>1 DEF AttemptInductive, RunsBegun
  <2>2. /\ e.lifecycle # "none"
        /\ e.by = a[2]
        /\ worker'[a].journal = 1
        /\ e.saved # "none" => e.created
    <3>1. CASE RunBegins(a)
      <4>1. e = [d EXCEPT !.lifecycle = "RUNNING", !.by = a[2]]
            /\ worker'[a].journal = 1
        BY <3>1 DEF RunBegins
      <4>2. e.lifecycle = "RUNNING" /\ e.by = a[2] /\ e.saved = d.saved
            /\ e.created = d.created
        BY <1>1, <4>1 DEF Directory
      <4>. HIDE DEF d, e
      <4>. QED
        BY <2>1, <4>1, <4>2
    <3>2. CASE RunProceeds(a)
      <4>1. /\ worker[a].runner \in Locked
            /\ e.by = d.by
            /\ e.lifecycle = "none" => d.lifecycle = "none"
            /\ d.created => e.created
            /\ e.saved # "none" => d.saved # "none" \/ InRun(worker[a])
        BY <3>2 DEF RunProceeds
      <4>2. /\ d.by = a[2]
            /\ InRun(worker[a]) => d.created
        BY <4>1 DEF AttemptInductive, ExecutorsBegan
      <4>3. worker[a].journal = 1
        BY <4>1 DEF AttemptInductive, AttemptsSound, AttemptSound
      <4>4. worker'[a].journal = 1
        BY <1>4, <4>3
      <4>5. e.lifecycle # "none"
        <5>1. NewDirectory.by = 0
          BY DEF NewDirectory
        <5>2. a[2] # 0
          BY <1>1
        <5>. QED
          BY <2>1, <4>1, <4>2, <5>1, <5>2
      <4>6. e.saved # "none" => e.created
        BY <2>1, <4>1, <4>2
      <4>. QED
        BY <4>1, <4>2, <4>4, <4>5, <4>6
    <3>. QED
      BY <1>7, <3>1, <3>2 DEF ProcessMoves
  <2>3. e.by >= 1 /\ ~(q[2] > task[q[1]].run)
    BY <1>1, <1>3, <2>2
  <2>4. worker'[a].run = q[2]
    BY <1>1 DEF ProcessMoves, AttemptMoves
  <2>5. <<q[1], e.by>> = a
    BY <1>1, <2>2
  <2>. HIDE DEF q, d
  <2>6. ASSUME NEW r \in Runs
        PROVE  /\ r[2] > task[r[1]].run => run'[r] = NewDirectory
               /\ run'[r].lifecycle = "none" => run'[r] = NewDirectory
               /\ run'[r].lifecycle # "none" => run'[r].by >= 1
               /\ run'[r].saved # "none" => run'[r].created
               /\ run'[r].by <= task[r[1]].attempts
               /\ run'[r].by # 0 =>
                      /\ worker'[<<r[1], run'[r].by>>].journal = 1
                      /\ worker'[<<r[1], run'[r].by>>].run = r[2]
    <3>1. CASE r # q
      <4>1. run'[r] = run[r]
        BY <3>1 DEF ProcessMoves, q
      <4>. QED
        BY <1>5, <4>1
    <3>2. CASE r = q
      BY <1>1, <1>3, <2>2, <2>3, <2>4, <2>5, <3>2
    <3>. QED
      BY <3>1, <3>2
  <2>. QED
    BY <1>2, <2>6 DEF RunsBegun
<1>. QED
  BY <1>6, <1>7

\* What an operation other than a start may go on with was created.
LEMMA AllowedCreated ==
    ASSUME RunsBegun, NEW r \in Runs, Inspect(r).actions # {}
    PROVE  /\ run[r].created /\ ~Executing(r)
           /\ run[r].lifecycle # "CANCELLED" /\ Sealed(run[r])
           /\ run[r].saved \notin {"none", "broken"}
           /\ Inspect(r).actions = Continuations(run[r].saved)
<1>1. ~Executing(r) /\ run[r].lifecycle # "CANCELLED"
  BY DEF Inspect
<1>2. Sealed(run[r]) /\ run[r].saved \notin {"none", "broken"}
  BY DEF Inspect
<1>3. run[r].created
  BY <1>2 DEF RunsBegun
<1>4. Inspect(r).actions = Continuations(run[r].saved)
  BY <1>1, <1>2 DEF Inspect
<1>. QED
  BY <1>1, <1>2, <1>3, <1>4

\* Whoever executes began last, and works in a run that exists.
LEMMA ProcessExecutors ==
    ASSUME WorkerTypeOK, RowsInductive, AttemptInductive,
           NEW a \in Attempts, ProcessMoves(a), UNCHANGED others
    PROVE  ExecutorsBegan'
<1>. DEFINE q == RunOf(a)
<1>1. /\ a[1] \in Tasks /\ a[2] \in 1..MaxAttempts /\ a = <<a[1], a[2]>>
      /\ q \in Runs /\ q[1] = a[1] /\ run[q] \in Directory
  BY RunOfAttempt DEF RunOf
<1>2. \A b \in Attempts : RunOf(b)' = RunOf(b)
  BY MoverRequested
<1>3. \A b \in Attempts \ {a} : worker'[b] = worker[b]
  BY DEF ProcessMoves, AttemptMoves
<1>4. \A r \in Runs \ {q} : run'[r] = run[r]
  BY DEF ProcessMoves
<1>5. \A b \in Attempts : RunOf(b) \in Runs /\ RunOf(b)[1] = b[1]
                          /\ b = <<b[1], b[2]>>
  BY RunOfAttempt DEF RunOf
<1>6. \A b \in Attempts :
          /\ worker[b].runner \in Locked => run[RunOf(b)].by = b[2]
          /\ InRun(worker[b]) => run[RunOf(b)].created /\ worker[b].runner \in Locked
  BY DEF AttemptInductive, ExecutorsBegan, InRun, Locked
<1>. HIDE DEF q
<1>7. ASSUME NEW b \in Attempts \ {a}
      PROVE  /\ worker'[b].runner \in Locked => run'[RunOf(b)].by = b[2]
             /\ InRun(worker'[b]) => run'[RunOf(b)].created
  <2>1. CASE RunOf(b) # q
    BY <1>3, <1>4, <1>5, <1>6, <2>1
  <2>2. CASE RunOf(b) = q
    <3>1. CASE RunStays(a)
      BY <1>3, <1>6, <2>2, <3>1 DEF RunStays, q
    <3>2. CASE RunBegins(a)
      <4>1. worker[b].runner \notin Locked
        BY <2>2, <3>2 DEF RunBegins, Executing, q
      <4>2. worker'[b].runner \notin Locked /\ ~InRun(worker'[b])
        BY <1>3, <1>6, <4>1
      <4>. QED
        BY <4>2
    <3>3. CASE RunProceeds(a)
      <4>1. run[q].by = a[2]
        BY <1>6, <3>3 DEF RunProceeds, q
      <4>2. worker[b].runner \notin Locked
        BY <1>1, <1>5, <1>6, <2>2, <4>1
      <4>3. worker'[b].runner \notin Locked /\ ~InRun(worker'[b])
        BY <1>3, <1>6, <4>2
      <4>. QED
        BY <4>3
    <3>. QED
      BY <3>1, <3>2, <3>3 DEF ProcessMoves
  <2>. QED
    BY <2>1, <2>2
<1>8. /\ worker'[a].runner \in Locked => run'[q].by = a[2]
      /\ InRun(worker'[a]) => run'[q].created
  <2>1. CASE RunStays(a)
    BY <1>6, <2>1 DEF RunStays, q
  <2>2. CASE RunBegins(a)
    <3>1. run'[q] = [run[q] EXCEPT !.lifecycle = "RUNNING", !.by = a[2]]
          /\ worker'[a].runner = "began" /\ Accepts(a)
      BY <2>2 DEF RunBegins, q
    <3>2. run'[q].by = a[2] /\ run'[q].created = run[q].created
      BY <1>1, <3>1 DEF Directory
    <3>3. InRun(worker'[a]) => run[q].created
      <4>1. SUFFICES ASSUME InRun(worker'[a]) PROVE run[q].created
        OBVIOUS
      <4>2. worker[a].operation # "start"
        BY <3>1, <4>1 DEF InRun, ProcessMoves, AttemptMoves
      <4>3. worker[a].operation \in Inspect(q).actions
        BY <3>1, <4>2 DEF Accepts, q
      <4>. QED
        BY <1>1, <4>3, AllowedCreated DEF AttemptInductive
    <3>. QED
      BY <3>2, <3>3
  <2>3. CASE RunProceeds(a)
    BY <1>6, <2>3 DEF RunProceeds, q
  <2>. QED
    BY <2>1, <2>2, <2>3 DEF ProcessMoves
<1>9. \A b \in Attempts :
          /\ worker'[b].runner \in Locked => run'[RunOf(b)].by = b[2]
          /\ InRun(worker'[b]) => run'[RunOf(b)].created
  BY <1>7, <1>8 DEF q
<1>. QED
  BY <1>2, <1>9 DEF ExecutorsBegan, InRun

\* An outcome that is settled stays so: the run is at rest, no start finds
\* it empty and no other request has seen this attempt in it.
LEMMA ProcessSettled ==
    ASSUME WorkerTypeOK, RowsInductive, AttemptInductive,
           NEW a \in Attempts, ProcessMoves(a), UNCHANGED others,
           NEW row, row.id \in Tasks, RunDir(row) \in Runs,
           row.attempts = task[row.id].attempts,
           NEW state, Settled(row, state)
    PROVE  Settled(row, state)'
<1>. DEFINE r == RunDir(row)
            q == RunOf(a)
<1>1. \A b \in Attempts : RunOf(b)' = RunOf(b)
  BY MoverRequested
<1>2. \A b \in Attempts \ {a} : worker'[b] = worker[b]
  BY DEF ProcessMoves, AttemptMoves
<1>3. ~Executing(r) /\ run[r].created /\ run[r].by = row.attempts
      /\ Outcome(run[r].saved) = state
  BY DEF Settled
<1>4. RunDir(row)' = r
  BY DEF RunDir
<1>5. q = r => RunStays(a)
  <2>1. SUFFICES ASSUME q = r PROVE ~RunBegins(a) /\ ~RunProceeds(a)
    BY DEF ProcessMoves
  <2>2. ~RunProceeds(a)
    BY <1>3, <2>1 DEF RunProceeds, Executing
  <2>3. ASSUME RunBegins(a) PROVE FALSE
    <3>1. Accepts(a)
      BY <2>3 DEF RunBegins
    <3>2. worker[a].operation # "start"
      BY <1>3, <2>1, <3>1 DEF Accepts
    <3>3. worker[a].revision = Revision(run[r])
      BY <2>1, <3>1, <3>2 DEF Accepts
    <3>4. worker[a].revision[1] = row.attempts
      BY <1>3, <3>3 DEF Revision
    <3>5. worker[a].revision[1] < a[2]
      BY <3>2, MoverRequested DEF AttemptInductive, RevisionsEarlier
    <3>6. a[1] = row.id
      BY <2>1 DEF RunOf, RunDir
    <3>7. a[2] <= row.attempts
      BY <3>6, MoverRequested
    <3>8. a[2] \in Nat /\ row.attempts \in Nat
      BY RunOfAttempt DEF RowsInductive, ReadIsGood, RowsTyped, Row
    <3>. QED
      BY <3>4, <3>5, <3>7, <3>8
  <2>. QED
    BY <2>2, <2>3
<1>6. run'[r] = run[r]
  BY <1>5 DEF ProcessMoves, RunStays
<1>7. ASSUME NEW b \in Attempts, RunOf(b) = r PROVE worker'[b].runner \notin Locked
  <2>1. worker[b].runner \notin Locked
    BY <1>3, <1>7 DEF Executing
  <2>2. CASE b # a
    BY <1>2, <2>1, <2>2
  <2>3. CASE b = a
    BY <1>5, <1>7, <2>1, <2>3 DEF RunStays
  <2>. QED
    BY <2>2, <2>3
<1>8. ~Executing(r)'
  BY <1>1, <1>7 DEF Executing
<1>. HIDE DEF r
<1>. QED
  BY <1>3, <1>4, <1>6, <1>8 DEF Settled, others

\* The whole strengthening under a step of a process.
LEMMA ProcessInductive ==
    ASSUME WorkerTypeOK, RowsInductive, AttemptInductive,
           NEW a \in Attempts, ProcessMoves(a), UNCHANGED others
    PROVE  AttemptInductive'
<1>1. \A t \in Tasks : task[t].id = t /\ RunDir(task[t]) \in Runs
  <2>1. ASSUME NEW t \in Tasks PROVE task[t].id = t /\ RunDir(task[t]) \in Runs
    <3>1. task[t] \in Task /\ task[t].id = t
      BY RowsBounded DEF RowsInductive, ReadIsGood, RowsTyped
    <3>. QED
      BY <3>1 DEF RunDir, Runs, Task
  <2>. QED
    BY <2>1
<1>2. UNCHANGED <<task, pc, at, observed>>
  BY DEF others, service
<1>3. ASSUME NEW t \in Tasks, task[t].state \in Outcomes
      PROVE  Settled(task[t], task[t].state)'
  <2>1. Settled(task[t], task[t].state)
    BY <1>3 DEF AttemptInductive, OutcomesStay
  <2>2. PICK row : row = task[t]
    OBVIOUS
  <2>3. row.id \in Tasks /\ RunDir(row) \in Runs
        /\ row.attempts = task[row.id].attempts
    BY <1>1, <2>2
  <2>4. Settled(row, row.state)'
    BY <2>1, <2>2, <2>3, ProcessSettled
  <2>. QED
    BY <1>2, <2>2, <2>4
<1>4. ASSUME pc = "act", observed \in Outcomes
      PROVE  Settled(at, observed)'
  <2>1. Settled(at, observed)
    BY <1>4 DEF AttemptInductive, OutcomesStay
  <2>2. PICK row : row = at
    OBVIOUS
  <2>3. PICK state : state = observed
    OBVIOUS
  <2>4. /\ row.id \in Tasks /\ RunDir(row) \in Runs
        /\ row.attempts = task[row.id].attempts
    BY <1>4, <2>2, CurrentRow DEF RowsInductive, ReadIsGood, ReadRows, ReadsCurrent
  <2>5. Settled(row, state)'
    BY <2>1, <2>2, <2>3, <2>4, ProcessSettled
  <2>. QED
    BY <1>2, <2>2, <2>3, <2>5
<1>5. OutcomesStay'
  BY <1>2, <1>3, <1>4 DEF OutcomesStay
<1>. QED
  BY <1>5, ProcessRequested, ProcessRuns, ProcessExecutors DEF AttemptInductive

(***************************************************************************)
(* The attempts under a step of the service or of a user                   *)
(***************************************************************************)

\* The row keeps its attempt, and at most takes the outcome observed of it;
\* or it asks for another attempt, and the attempts stay as they are.
RowGoes(t) ==
    LET old == task[t]
        new == task'[t]
    IN  \/ /\ new.run = old.run /\ new.attempts = old.attempts
           /\ \/ new.state = old.state
              \/ old.state \in Occupied /\ new.state \in Occupied
              \/ new.state \in {"FAILED", "CANCELLED", "SKIPPED", "RETRY_WAIT"}
              \/ /\ pc = "act" /\ at.id = t /\ new.state = observed
                 /\ old.state \in Occupied /\ observed # "UNKNOWN"
        \/ /\ UNCHANGED <<worker, run>>
           /\ new.run = old.run /\ new.attempts = old.attempts + 1
           /\ new.state = "STARTING"
        \/ /\ UNCHANGED <<worker, run>>
           /\ new.run \in {old.run, old.run + 1} /\ new.attempts = old.attempts
           /\ new.state = "QUEUED"

\* Every step moves a row like this.
LEMMA NextRowGoes ==
    ASSUME RowsInductive, [Next]_vars, NEW t \in Tasks
    PROVE  RowGoes(t)
<1>. DEFINE old == task[t]
            new == task'[t]
<1>1. old \in Row /\ old.id = t
  BY DEF RowsInductive, ReadIsGood, RowsTyped
<1>2. CASE task'[t] = task[t] \/ RowStays(t)
  <2>1. CASE task'[t] = task[t]
    BY <2>1 DEF RowGoes
  <2>2. CASE RowStays(t)
    <3>1. new = [old EXCEPT !.state = new.state, !.valid = new.valid]
          /\ \/ new.state = old.state
             \/ old.state \in Occupied /\ new.state \in Occupied
             \/ new.state \in {"FAILED", "CANCELLED", "SKIPPED"}
      BY <2>2 DEF RowStays
    <3>2. new.run = old.run /\ new.attempts = old.attempts
      BY <1>1, <3>1 DEF Row
    <3>. QED
      BY <3>1, <3>2 DEF RowGoes
  <2>. QED
    BY <1>2, <2>1, <2>2
<1>3. CASE RowClaimed(t)
  <2>1. new = [old EXCEPT !.state = "STARTING", !.attempts = @ + 1]
        /\ UNCHANGED <<worker, run>>
    BY <1>3 DEF RowClaimed, Claimed
  <2>2. new.run = old.run /\ new.attempts = old.attempts + 1
        /\ new.state = "STARTING"
    BY <1>1, <2>1 DEF Row
  <2>. QED
    BY <2>1, <2>2 DEF RowGoes
<1>4. CASE RowResumed(t)
  <2>1. PICK o \in Ops : /\ new = [old EXCEPT !.state = "QUEUED",
                                             !.operation = call[o].action]
                        /\ UNCHANGED <<worker, run>>
    BY <1>4 DEF RowResumed
  <2>2. new.run = old.run /\ new.attempts = old.attempts /\ new.state = "QUEUED"
    BY <1>1, <2>1 DEF Row
  <2>. QED
    BY <2>1, <2>2 DEF RowGoes
<1>5. CASE RowRerun(t)
  <2>1. /\ new = [old EXCEPT !.state = "QUEUED", !.run = @ + 1,
                             !.operation = "start", !.valid = TRUE,
                             !.converged = FALSE]
        /\ UNCHANGED <<worker, run>>
    BY <1>5 DEF RowRerun
  <2>2. new.run = old.run + 1 /\ new.attempts = old.attempts
        /\ new.state = "QUEUED"
    BY <1>1, <2>1 DEF Row
  <2>. QED
    BY <2>1, <2>2 DEF RowGoes
<1>6. CASE RowEnded(t)
  <2>1. PICK state \in Observations \ {"UNKNOWN", "RUNNING"} :
            /\ at.id = t
            /\ \/ pc = "act" /\ state = observed
               \/ pc = "launch" /\ state \in {"LOST", "FAILED"}
            /\ task'[t] = Finished(at, state)
    BY <1>6 DEF RowEnded
  <2>2. at \in Row /\ SameRow(at) /\ at.state \in Occupied
    BY <2>1 DEF RowsInductive, ReadIsGood, ReadRows, ReadsCurrent
  <2>3. old.state \in Occupied
    BY <2>1, <2>2, CurrentRow
  <2>4. /\ new.run = old.run /\ new.attempts = old.attempts
        /\ new.state \in {"RETRY_WAIT", "CANCELLED", "FAILED", state}
        /\ new.state # "LOST"
    BY <2>1, <2>2, FinishedKeeps DEF RowsInductive, ReadIsGood
  <2>. QED
    BY <2>1, <2>3, <2>4 DEF RowGoes
<1>. QED
  BY <1>2, <1>3, <1>4, <1>5, <1>6, NextRows DEF RowMoves, RowsInductive

\* Runs and attempts are only added.
LEMMA RowGrows ==
    ASSUME RowsInductive, [Next]_vars, NEW t \in Tasks
    PROVE  /\ task[t].run \in Nat /\ task[t].attempts \in Nat
           /\ task'[t].run \in Nat /\ task'[t].attempts \in Nat
           /\ task'[t].run >= task[t].run
           /\ task'[t].attempts >= task[t].attempts
<1>1. task[t].run \in Nat /\ task[t].attempts \in Nat
  BY DEF RowsInductive, ReadIsGood, RowsTyped, Row
<1>. QED
  BY <1>1, NextRowGoes DEF RowGoes

\* The attempts stay sound.
LEMMA ServeSound ==
    ASSUME WorkerTypeOK, RowsInductive, AttemptInductive, Serves
    PROVE  AttemptsSound' /\ RevisionsEarlier'
<1>. SUFFICES ASSUME NEW a \in Attempts
              PROVE  /\ AttemptSound(worker'[a])
                     /\ worker'[a].operation \notin {"none", "start"} =>
                            worker'[a].revision[1] < a[2]
  BY DEF AttemptsSound, RevisionsEarlier
<1>1. ServedAttempt(a) /\ AttemptSound(worker[a])
  BY DEF Serves, AttemptInductive, AttemptsSound
<1>2. worker[a] \in Attempt /\ worker'[a] \in Attempt /\ a[2] \in 1..MaxAttempts
      /\ a = <<a[1], a[2]>>
  BY RunOfAttempt DEF Serves, WorkerTypeOK
<1>3. worker[a].revision[1] < a[2] \/ worker[a].operation \in {"none", "start"}
  BY DEF AttemptInductive, RevisionsEarlier
<1>4. CASE /\ worker'[a].run = worker[a].run
           /\ worker'[a].operation = worker[a].operation
           /\ worker'[a].revision = worker[a].revision
  <2>1. worker'[a].pending > 0 => worker[a].pending > 0 \/ worker'[a].operation # "none"
    BY <1>1 DEF ServedAttempt
  <2>. DEFINE w == worker[a]
              x == worker'[a]
  <2>2. /\ x.runner = w.runner /\ x.supervisor = w.supervisor
        /\ x.started = w.started /\ x.finished = w.finished
        /\ x.journal = w.journal
    BY <1>1 DEF ServedAttempt
  <2>. HIDE DEF w, x
  <2>3. AttemptSound(x)
    BY <1>1, <1>4, <2>1, <2>2 DEF AttemptSound, w, x
  <2>. QED
    BY <1>3, <1>4, <2>3 DEF x
<1>5. CASE /\ pc \in {"act", "launch"} /\ a = AttemptOf(at)
           /\ worker[a].operation = "none"
           /\ worker'[a].operation = at.operation
           /\ at.operation # "start" =>
                  worker'[a].revision = Revision(run[RunDir(at)])
  <2>1. at \in Row /\ at.state \in Occupied /\ SameRow(at)
    BY <1>5 DEF RowsInductive, ReadIsGood, ReadRows, ReadsCurrent
  <2>2. /\ at \in Task /\ RunDir(at) \in Runs /\ at.id \in Tasks
        /\ task[at.id].attempts = at.attempts
        /\ a[1] = at.id /\ a[2] = at.attempts
    BY <1>5, <2>1, CurrentRow
  <2>3. at.operation # "none"
    BY <2>2 DEF Task, Operations
  <2>4. worker[a].journal # 1 /\ worker[a].runner \notin Locked
    BY <1>1, <1>2, <1>5 DEF AttemptSound, Attempt
  <2>. DEFINE d == run[RunDir(at)]
  <2>5. d \in Directory /\ d.by <= a[2]
        /\ (d.by # 0 => worker[<<at.id, d.by>>].journal = 1)
    <3>1. RunDir(at)[1] = at.id
      BY DEF RunDir
    <3>. QED
      BY <2>2, <3>1 DEF WorkerTypeOK, AttemptInductive, RunsBegun
  <2>6. d.by < a[2]
    <3>1. d.by \in Nat /\ a[2] \in Nat /\ a[2] # 0
      BY <1>2, <2>5 DEF Directory
    <3>2. d.by # a[2]
      BY <1>2, <2>2, <2>4, <2>5, <3>1
    <3>. QED
      BY <2>5, <3>1, <3>2
  <2>7. at.operation # "start" => worker'[a].revision[1] = d.by
    BY <1>5 DEF Revision
  <2>8. AttemptSound(worker'[a])
    <3>. DEFINE w == worker[a]
                x == worker'[a]
    <3>1. /\ x.runner = w.runner /\ x.supervisor = w.supervisor
          /\ x.started = w.started /\ x.finished = w.finished
          /\ x.journal = w.journal
      BY <1>1 DEF ServedAttempt
    <3>2. x.operation # "none"
      BY <1>5, <2>3
    <3>. HIDE DEF w, x
    <3>. QED
      BY <1>1, <3>1, <3>2 DEF AttemptSound, w, x
  <2>. QED
    BY <1>5, <2>6, <2>7, <2>8
<1>. QED
  BY <1>1, <1>4, <1>5 DEF ServedAttempt

\* A step of the service or of a user, or none.
Outside == /\ [Next]_vars
           /\ ~ \E a \in Attempts : Supervises(a) \/ Executes(a) \/ Breaks(a)

\* Before the launch of an attempt, its task has been claimed.
LEMMA LaunchStep ==
    ASSUME RowsInductive, Outside, pc' = "launch"
    PROVE  /\ UNCHANGED worker
           /\ \/ pc = "launch" /\ UNCHANGED at
              \/ \E t \in Tasks : /\ task[t].state \in Waiting
                                 /\ at' = Claimed(task[t])
<1>1. CASE Service
  <2>1. ASSUME NEW t \in Tasks, DispatchClaims(t)
        PROVE  UNCHANGED worker /\ task[t].state \in Waiting
               /\ at' = Claimed(task[t])
    BY <2>1 DEF DispatchClaims, Ready
  <2>2. CASE ReconcilePasses \/ ReconcileAborts \/ ReconcileObserves
    BY <2>2 DEF ReconcilePasses, ReconcileAborts, ReconcileObserves,
       ServiceEnds
  <2>3. CASE ActUnknown \/ ActRunning
    BY <2>3 DEF ActUnknown, ActRunning, UpdateOrEnd, Continue, ServiceEnds
  <2>4. CASE ActFinish \/ FinishAborts
    BY <2>4 DEF ActFinish, Finish, FinishAborts, Continue, ServiceEnds
  <2>5. CASE Invalidate \/ InvalidateEnds \/ DispatchPasses
    BY <2>5 DEF Invalidate, InvalidateEnds, DispatchPasses
  <2>6. CASE DispatchLaunches \/ TickEnds
    BY <2>6 DEF DispatchLaunches, TickEnds, Continue, StartTick, ServiceEnds
  <2>7. ASSUME NEW t \in Tasks, MarkInvalid(t) \/ DispatchSkips(t) PROVE FALSE
    BY <2>7 DEF MarkInvalid, DispatchSkips, ServiceEnds
  <2>. QED
    BY <1>1, <2>1, <2>2, <2>3, <2>4, <2>5, <2>6, <2>7 DEF Service
<1>2. ASSUME NEW o \in Ops, User(o) PROVE UNCHANGED <<worker, pc, at>>
  BY <1>2 DEF User, OperateInspects, OperateResumes, OperateAborts,
     OperateCancels, OperateReruns, service
<1>3. CASE ServiceStarts \/ DispatchFails \/ ServiceCrashes
  BY <1>3 DEF ServiceStarts, DispatchFails, ServiceCrashes, StartTick,
     ServiceEnds, Finish, Continue
<1>4. ASSUME NEW r \in Runs, Contaminates(r) PROVE UNCHANGED <<worker, pc, at>>
  BY <1>4 DEF Contaminates, service
<1>5. CASE UNCHANGED vars
  BY <1>5 DEF vars, service
<1>. QED
  BY <1>1, <1>2, <1>3, <1>4, <1>5 DEF Outside, Next

\* The attempts stay requested.
LEMMA ServeRequested ==
    ASSUME WorkerTypeOK, RowsInductive, RowsInductive', AttemptInductive,
           Outside, Serves
    PROVE  AttemptsRequested'
<1>1. ASSUME NEW a \in Attempts, a[2] > task'[a[1]].attempts
      PROVE  worker'[a] = NewAttempt
  <2>1. a[1] \in Tasks /\ a[2] \in Nat
    BY RunOfAttempt
  <2>2. /\ task[a[1]].attempts \in Nat /\ task'[a[1]].attempts \in Nat
        /\ task'[a[1]].attempts >= task[a[1]].attempts
    BY <2>1, RowGrows DEF Outside
  <2>3. a[2] > task[a[1]].attempts
    BY <1>1, <2>1, <2>2
  <2>4. worker[a] = NewAttempt
    BY <2>3 DEF AttemptInductive, AttemptsRequested
  <2>5. ~(a[2] <= task[a[1]].attempts)
    BY <2>1, <2>2, <2>3
  <2>. QED
    BY <2>4, <2>5 DEF Serves, ServedAttempt
<1>2. ASSUME NEW a \in Attempts, worker'[a].operation # "none"
      PROVE  /\ worker'[a].run <= task'[a[1]].run
             /\ a[2] = task'[a[1]].attempts /\ task'[a[1]].state \in Attempted =>
                    worker'[a].run = task'[a[1]].run
  <2>. DEFINE old == task[a[1]]
              new == task'[a[1]]
  <2>1. a[1] \in Tasks /\ a[2] \in Nat /\ worker'[a] \in Attempt
        /\ worker[a] \in Attempt
    BY RunOfAttempt DEF Serves, WorkerTypeOK
  <2>2. /\ old.attempts \in Nat /\ new.attempts \in Nat
        /\ new.attempts >= old.attempts
        /\ old.run \in Nat /\ new.run \in Nat
        /\ new.run >= old.run /\ RowGoes(a[1])
    BY <2>1, RowGrows, NextRowGoes DEF Outside
  <2>3. worker'[a].run \in Nat /\ worker[a].run \in Nat
    BY <2>1 DEF Attempt
  <2>4. ServedAttempt(a)
    BY DEF Serves
  <2>5. CASE /\ worker'[a].run = worker[a].run
             /\ worker'[a].operation = worker[a].operation
    <3>1. /\ worker[a].run <= old.run
          /\ a[2] = old.attempts /\ old.state \in Attempted =>
                 worker[a].run = old.run
          /\ ~(a[2] > old.attempts)
      BY <1>2, <2>5 DEF AttemptInductive, AttemptsRequested, NewAttempt
    <3>2. worker'[a].run <= new.run
      BY <2>2, <2>3, <2>5, <3>1
    <3>3. ASSUME a[2] = new.attempts, new.state \in Attempted
          PROVE  worker'[a].run = new.run
      <4>1. new.attempts = old.attempts
        BY <2>1, <2>2, <3>1, <3>3
      <4>2. new.run = old.run /\ old.state \in Attempted
        <5>1. new.state \notin {"FAILED", "CANCELLED", "SKIPPED",
                               "RETRY_WAIT", "QUEUED"}
          BY <3>3 DEF Attempted, Occupied
        <5>2. ~(new.attempts = old.attempts + 1)
          BY <2>2, <4>1
        <5>. QED
          BY <2>2, <3>3, <5>1, <5>2 DEF RowGoes, Attempted
      <4>. QED
        BY <2>5, <3>1, <3>3, <4>1, <4>2
    <3>. QED
      BY <3>2, <3>3
  <2>6. CASE /\ pc \in {"act", "launch"} /\ a = AttemptOf(at)
             /\ worker[a].operation = "none"
             /\ worker'[a].run = at.run
    <3>1. at \in Row /\ at.state \in Occupied /\ SameRow(at)
      BY <2>6 DEF RowsInductive, ReadIsGood, ReadRows, ReadsCurrent
    <3>2. /\ task[at.id].run = at.run /\ a[1] = at.id
      BY <2>6, <3>1, CurrentRow
    <3>3. worker'[a] # worker[a]
      BY <1>2, <2>6
    <3>4. new.run = old.run
      BY <2>2, <3>3 DEF RowGoes
    <3>. QED
      BY <2>2, <2>6, <3>2, <3>4
  <2>. QED
    BY <2>4, <2>5, <2>6 DEF ServedAttempt
<1>3. ASSUME pc' = "launch" PROVE worker'[AttemptOf(at)'] = NewAttempt
  <2>1. UNCHANGED worker
    BY <1>3, LaunchStep
  <2>2. CASE pc = "launch" /\ UNCHANGED at
    <3>1. AttemptOf(at)' = AttemptOf(at)
      BY <2>2 DEF AttemptOf
    <3>. QED
      BY <2>1, <2>2, <3>1 DEF AttemptInductive, AttemptsRequested
  <2>3. ASSUME NEW t \in Tasks, task[t].state \in Waiting,
               at' = Claimed(task[t])
        PROVE  worker'[AttemptOf(at)'] = NewAttempt
    <3>. DEFINE row == task[t]
    <3>1. row \in Row /\ row.id = t /\ row.attempts + 1 <= MaxAttempts
      BY <2>3, RowsBounded DEF RowsInductive, ReadIsGood, RowsTyped
    <3>2. at'.id = t /\ at'.attempts = row.attempts + 1
      BY <2>3, <3>1 DEF Claimed, Row
    <3>. DEFINE n == row.attempts + 1
    <3>3. AttemptOf(at)' = <<t, n>>
      BY <3>2 DEF AttemptOf
    <3>4. n \in 1..MaxAttempts /\ n > row.attempts
      BY <3>1, WorkerAssumption DEF Row
    <3>5. <<t, n>> \in Attempts
      BY <3>4 DEF Attempts
    <3>. HIDE DEF n
    <3>6. worker[<<t, n>>] = NewAttempt
      BY <3>4, <3>5 DEF AttemptInductive, AttemptsRequested
    <3>. QED
      BY <2>1, <3>3, <3>6
  <2>. QED
    BY <1>3, <2>2, <2>3, LaunchStep
<1>. QED
  BY <1>1, <1>2, <1>3 DEF AttemptsRequested

\* The runs stay what the attempts made of them.
LEMMA ServeRuns ==
    ASSUME WorkerTypeOK, RowsInductive, AttemptInductive, Outside, Serves
    PROVE  RunsBegun'
<1>. SUFFICES ASSUME NEW r \in Runs
     PROVE  /\ r[2] > task'[r[1]].run => run'[r] = NewDirectory
            /\ run'[r].lifecycle = "none" => run'[r] = NewDirectory
            /\ run'[r].lifecycle # "none" => run'[r].by >= 1
            /\ run'[r].saved # "none" => run'[r].created
            /\ run'[r].by <= task'[r[1]].attempts
            /\ run'[r].by # 0 => /\ worker'[<<r[1], run'[r].by>>].journal = 1
                                /\ worker'[<<r[1], run'[r].by>>].run = r[2]
  BY DEF RunsBegun
<1>. DEFINE d == run[r]
            e == run'[r]
            old == task[r[1]]
            new == task'[r[1]]
<1>1. d \in Directory /\ r[1] \in Tasks /\ r[2] \in Nat
  BY DEF WorkerTypeOK, Runs
<1>2. /\ old.attempts \in Nat /\ new.attempts \in Nat
      /\ new.attempts >= old.attempts
      /\ old.run \in Nat /\ new.run \in Nat /\ new.run >= old.run
  BY <1>1, RowGrows DEF Outside
<1>3. /\ r[2] > old.run => d = NewDirectory
      /\ d.lifecycle = "none" => d = NewDirectory
      /\ d.lifecycle # "none" => d.by >= 1
      /\ d.saved # "none" => d.created
      /\ d.by <= old.attempts
      /\ d.by # 0 => /\ worker[<<r[1], d.by>>].journal = 1
                    /\ worker[<<r[1], d.by>>].run = r[2]
  BY DEF AttemptInductive, RunsBegun
<1>4. ASSUME d.by # 0
      PROVE  /\ worker'[<<r[1], d.by>>].journal = 1
             /\ worker'[<<r[1], d.by>>].run = r[2]
  <2>. DEFINE b == <<r[1], d.by>>
  <2>1. d.by \in 1..MaxAttempts
    BY <1>1, <1>4, WorkerAssumption DEF Directory
  <2>2. b \in Attempts
    BY <1>1, <2>1 DEF Attempts
  <2>3. worker[b].journal = 1 /\ worker[b].run = r[2]
    BY <1>3, <1>4
  <2>. HIDE DEF b
  <2>4. worker[b].operation # "none"
    <3>1. worker[b].journal > 0
      BY <2>3
    <3>. QED
      BY <2>2, <3>1 DEF AttemptInductive, AttemptsSound, AttemptSound
  <2>5. ServedAttempt(b)
    BY <2>2 DEF Serves
  <2>6. worker'[b].journal = 1 /\ worker'[b].run = r[2]
    BY <2>3, <2>4, <2>5 DEF ServedAttempt
  <2>. QED
    BY <2>6 DEF b
<1>5. /\ e.by = d.by /\ e.saved = d.saved /\ e.created = d.created
      /\ \/ e = d
         \/ d.lifecycle # "none" /\ e.lifecycle = "CANCELLED"
  <2>1. CASE e = d
    BY <2>1
  <2>2. CASE d.lifecycle # "none" /\ e = Aborted(d)
    BY <1>1, <2>2 DEF Aborted, Directory
  <2>. QED
    BY <2>1, <2>2 DEF Serves, ServedRun
<1>6. d.by \in Nat
  BY <1>1 DEF Directory
<1>7. NewDirectory.lifecycle = "none"
  BY DEF NewDirectory
<1>. HIDE DEF d, e, old, new
<1>8. r[2] > new.run => e = NewDirectory
  BY <1>1, <1>2, <1>3, <1>5, <1>7
<1>9. /\ e.lifecycle = "none" => e = NewDirectory
      /\ e.lifecycle # "none" => e.by >= 1
      /\ e.saved # "none" => e.created
  BY <1>3, <1>5
<1>10. e.by <= new.attempts
  BY <1>2, <1>3, <1>5, <1>6
<1>11. e.by # 0 => /\ worker'[<<r[1], e.by>>].journal = 1
                  /\ worker'[<<r[1], e.by>>].run = r[2]
  BY <1>4, <1>5
<1>. QED
  BY <1>8, <1>9, <1>10, <1>11 DEF e, new

\* Executors and outcomes are not disturbed.
LEMMA ServeKeeps ==
    ASSUME WorkerTypeOK, AttemptInductive, Serves
    PROVE  /\ ExecutorsBegan'
           /\ \A r \in Runs : /\ run'[r].by = run[r].by
                              /\ run'[r].created = run[r].created
                              /\ run'[r].saved = run[r].saved
                              /\ Executing(r)' <=> Executing(r)
<1>1. ASSUME NEW r \in Runs
      PROVE  /\ run'[r].by = run[r].by
             /\ run'[r].created = run[r].created
             /\ run'[r].saved = run[r].saved
  <2>1. run[r] \in Directory
    BY DEF WorkerTypeOK
  <2>2. CASE run'[r] = Aborted(run[r])
    BY <2>1, <2>2 DEF Aborted, Directory
  <2>. QED
    BY <2>2 DEF Serves, ServedRun
<1>2. ASSUME NEW a \in Attempts,
             worker'[a].runner \in Locked \/ worker[a].runner \in Locked
      PROVE  /\ worker'[a].runner = worker[a].runner
             /\ worker'[a].operation = worker[a].operation
             /\ RunOf(a)' = RunOf(a)
  <2>1. ServedAttempt(a) /\ AttemptSound(worker[a])
    BY DEF Serves, AttemptInductive, AttemptsSound
  <2>2. worker[a].operation # "none"
    <3>1. worker[a].journal > 0
      BY <1>2, <2>1 DEF ServedAttempt, AttemptSound
    <3>. QED
      BY <2>1, <3>1 DEF AttemptSound
  <2>3. worker'[a].run = worker[a].run
    BY <2>1, <2>2 DEF ServedAttempt
  <2>. QED
    BY <2>1, <2>2, <2>3 DEF ServedAttempt, RunOf
<1>3. \A r \in Runs : Executing(r)' <=> Executing(r)
  BY <1>2 DEF Executing
<1>4. ASSUME NEW a \in Attempts
      PROVE  /\ worker'[a].runner \in Locked => run'[RunOf(a)'].by = a[2]
             /\ InRun(worker'[a]) => run'[RunOf(a)'].created
  <2>1. InRun(worker'[a]) => worker'[a].runner \in Locked
    BY DEF InRun, Locked
  <2>2. CASE worker'[a].runner \in Locked
    <3>1. RunOf(a)' = RunOf(a) /\ worker[a].runner \in Locked
          /\ (InRun(worker'[a]) => InRun(worker[a]))
      BY <1>2, <2>2 DEF InRun
    <3>2. RunOf(a) \in Runs
      BY RunOfAttempt
    <3>. QED
      BY <1>1, <3>1, <3>2 DEF AttemptInductive, ExecutorsBegan
  <2>. QED
    BY <2>1, <2>2
<1>5. ExecutorsBegan'
  BY <1>4 DEF ExecutorsBegan
<1>. QED
  BY <1>1, <1>3, <1>5

\* A settled outcome is not disturbed either.
LEMMA ServeSettled ==
    ASSUME WorkerTypeOK, AttemptInductive, Serves,
           NEW row, RunDir(row) \in Runs, NEW state, Settled(row, state)
    PROVE  Settled(row, state)'
<1>. DEFINE r == RunDir(row)
<1>1. RunDir(row)' = r
  BY DEF RunDir
<1>2. /\ run'[r].by = run[r].by /\ run'[r].created = run[r].created
      /\ run'[r].saved = run[r].saved /\ (Executing(r)' <=> Executing(r))
  BY ServeKeeps
<1>3. run[r].by = row.attempts /\ run[r].created
      /\ Outcome(run[r].saved) = state /\ ~Executing(r)
  BY DEF Settled
<1>4. ~Executing(r)'
  BY <1>2, <1>3
<1>. HIDE DEF r
<1>. QED
  BY <1>1, <1>2, <1>3, <1>4 DEF Settled

\* What is observed of an attempt as an outcome is what it left in its run.
LEMMA ObserveOutcome ==
    ASSUME WorkerTypeOK, RowsInductive, AttemptInductive,
           NEW row \in Row, SameRow(row), row.state \in Occupied,
           Observe(AttemptOf(row)) \in Outcomes
    PROVE  Settled(row, Observe(AttemptOf(row)))
<1>. DEFINE a == AttemptOf(row)
            q == RunOf(a)
            d == run[q]
            state == Observe(a)
<1>1. /\ a \in Attempts /\ a[1] = row.id /\ a[2] = row.attempts
      /\ row.id \in Tasks
      /\ task[row.id].run = row.run /\ task[row.id].attempts = row.attempts
      /\ task[row.id].state \in Occupied
  BY CurrentRow
<1>2. /\ worker[a] \in Attempt /\ q \in Runs /\ d \in Directory
      /\ AttemptSound(worker[a]) /\ a = <<a[1], a[2]>>
  BY <1>1, RunOfAttempt DEF AttemptInductive, AttemptsSound
<1>3. a = AttemptOf(row)
  OBVIOUS
<1>. HIDE DEF a
<1>4. worker[a].finished = "stopped" /\ state = ObserveStopped(a)
  <2>1. worker[a].finished \in {"none", "stopped", "cancelled", "unproven"}
    BY <1>2 DEF Attempt
  <2>2. state \in Outcomes
    BY <1>3
  <2>3. CASE worker[a].finished = "none"
    <3>1. state \in {"UNKNOWN", "LOST", "RUNNING"}
      BY <2>3 DEF Observe, ObserveUnfinished
    <3>. QED
      BY <2>2, <3>1 DEF Outcomes
  <2>4. CASE worker[a].finished \in {"cancelled", "unproven"}
    <3>1. state \in {"LOST", "CANCELLED"}
      BY <2>4 DEF Observe
    <3>. QED
      BY <2>2, <3>1 DEF Outcomes
  <2>5. CASE worker[a].finished = "stopped"
    <3>1. state = ObserveStopped(a)
      BY <2>5 DEF Observe
    <3>. QED
      BY <2>5, <3>1
  <2>. QED
    BY <2>1, <2>3, <2>4, <2>5
<1>5. worker[a].runner = "none" /\ worker[a].operation # "none"
  BY <1>2, <1>4 DEF AttemptSound
<1>6. q = RunDir(row)
  <2>1. worker[a].run = row.run
    BY <1>1, <1>5 DEF AttemptInductive, AttemptsRequested, Attempted
  <2>. QED
    BY <1>1, <2>1 DEF RunOf, RunDir
<1>7. d.by = a[2] /\ Inspect(q).valid /\ state = Inspect(q).lifecycle
  BY <1>3, <1>4 DEF ObserveStopped, Outcomes
<1>8. ~Executing(q)
  <2>1. SUFFICES ASSUME NEW b \in Attempts, RunOf(b) = q,
                        worker[b].runner \in Locked
                 PROVE  FALSE
    BY DEF Executing
  <2>2. d.by = b[2]
    BY <2>1 DEF AttemptInductive, ExecutorsBegan
  <2>3. b[1] = a[1] /\ b = <<b[1], b[2]>>
    BY <2>1, RunOfAttempt DEF RunOf
  <2>4. b = a
    BY <1>2, <1>7, <2>2, <2>3
  <2>. QED
    BY <1>5, <2>1, <2>4 DEF Locked
<1>9. d.lifecycle # "CANCELLED"
  <2>1. SUFFICES ASSUME d.lifecycle = "CANCELLED" PROVE FALSE
    OBVIOUS
  <2>2. Inspect(q).lifecycle = "CANCELLED"
    BY <2>1 DEF Inspect
  <2>. QED
    BY <1>3, <1>7, <2>2 DEF Outcomes
<1>10. /\ d.saved \notin {"none", "broken"}
       /\ Inspect(q).lifecycle = IF d.lifecycle = "FAILED" THEN "FAILED"
                                 ELSE Outcome(d.saved)
  BY <1>7, <1>8, <1>9 DEF Inspect
<1>11. state = Outcome(d.saved)
  BY <1>3, <1>7, <1>10 DEF Outcomes
<1>12. d.created
  BY <1>2, <1>10 DEF AttemptInductive, RunsBegun
<1>. QED
  BY <1>1, <1>3, <1>6, <1>7, <1>8, <1>11, <1>12 DEF Settled

\* The row at which the service acts was observed, and not since changed.
LEMMA ActStep ==
    ASSUME Outside, pc' = "act"
    PROVE  \/ pc = "act" /\ UNCHANGED <<at, observed>>
           \/ ReconcileObserves
<1>1. CASE Service
  <2>1. CASE ReconcilePasses \/ ReconcileAborts
    BY <2>1 DEF ReconcilePasses, ReconcileAborts, ServiceEnds
  <2>2. CASE ActUnknown \/ ActRunning
    BY <2>2 DEF ActUnknown, ActRunning, UpdateOrEnd, Continue, ServiceEnds
  <2>3. CASE ActFinish \/ FinishAborts
    BY <2>3 DEF ActFinish, Finish, FinishAborts, Continue, ServiceEnds
  <2>4. CASE Invalidate \/ InvalidateEnds \/ DispatchPasses
    BY <2>4 DEF Invalidate, InvalidateEnds, DispatchPasses
  <2>5. CASE DispatchLaunches \/ TickEnds
    BY <2>5 DEF DispatchLaunches, TickEnds, Continue, StartTick, ServiceEnds
  <2>6. ASSUME NEW t \in Tasks,
               MarkInvalid(t) \/ DispatchSkips(t) \/ DispatchClaims(t)
        PROVE  FALSE
    BY <2>6 DEF MarkInvalid, DispatchSkips, DispatchClaims, ServiceEnds
  <2>. QED
    BY <1>1, <2>1, <2>2, <2>3, <2>4, <2>5, <2>6 DEF Service
<1>2. ASSUME NEW o \in Ops, User(o) PROVE UNCHANGED <<pc, at, observed>>
  BY <1>2 DEF User, OperateInspects, OperateResumes, OperateAborts,
     OperateCancels, OperateReruns, service
<1>3. CASE ServiceStarts \/ DispatchFails \/ ServiceCrashes
  BY <1>3 DEF ServiceStarts, DispatchFails, ServiceCrashes, StartTick,
     ServiceEnds, Finish, Continue
<1>4. ASSUME NEW r \in Runs, Contaminates(r) PROVE UNCHANGED <<pc, at, observed>>
  BY <1>4 DEF Contaminates, service
<1>5. CASE UNCHANGED vars
  BY <1>5 DEF vars, service
<1>. QED
  BY <1>1, <1>2, <1>3, <1>4, <1>5 DEF Outside, Next

\* Outcomes stay what was recorded.
LEMMA ServeOutcomes ==
    ASSUME WorkerTypeOK, RowsInductive, RowsInductive', AttemptInductive,
           Outside, Serves
    PROVE  OutcomesStay'
<1>1. ASSUME pc = "act"
      PROVE  at.id \in Tasks /\ RunDir(at) \in Runs
             /\ task[at.id].run = at.run /\ task[at.id].attempts = at.attempts
  BY <1>1, CurrentRow DEF RowsInductive, ReadIsGood, ReadRows, ReadsCurrent
<1>2. ASSUME NEW t \in Tasks, task'[t].state \in Outcomes
      PROVE  Settled(task[t], task[t].state)'
  <2>. DEFINE old == task[t]
              new == task'[t]
  <2>1. /\ old \in Task /\ old.id = t /\ new.id = t /\ RowGoes(t)
        /\ old.attempts \in Nat
    BY RowsBounded, NextRowGoes, RowGrows
    DEF RowsInductive, ReadIsGood, RowsTyped, Outside
  <2>2. new.run = old.run /\ new.attempts = old.attempts
    BY <1>2, <2>1 DEF RowGoes, Outcomes
  <2>3. RunDir(old) \in Runs /\ RunDir(new) = RunDir(old)
    BY <2>1, <2>2 DEF RunDir, Runs, Task
  <2>4. PICK row : row = new
    OBVIOUS
  <2>5. PICK state : state = new.state
    OBVIOUS
  <2>6. Settled(row, state)
    <3>1. \/ new.state = old.state
          \/ pc = "act" /\ at.id = t /\ new.state = observed
      BY <1>2, <2>1 DEF RowGoes, Outcomes, Occupied
    <3>2. CASE new.state = old.state
      <4>1. Settled(old, old.state)
        BY <1>2, <3>2 DEF AttemptInductive, OutcomesStay
      <4>. HIDE DEF old, new
      <4>2. RunDir(row) = RunDir(old) /\ row.attempts = old.attempts
            /\ state = old.state
        BY <2>2, <2>3, <2>4, <2>5, <3>2
      <4>. QED
        BY <4>1, <4>2 DEF Settled
    <3>3. CASE pc = "act" /\ at.id = t /\ new.state = observed
      <4>1. Settled(at, observed)
        BY <1>2, <3>3 DEF AttemptInductive, OutcomesStay
      <4>2. RunDir(at) = RunDir(old) /\ at.attempts = old.attempts
        BY <1>1, <2>1, <3>3 DEF RunDir
      <4>. HIDE DEF old, new
      <4>3. RunDir(row) = RunDir(at) /\ row.attempts = at.attempts
            /\ state = observed
        BY <2>2, <2>3, <2>4, <2>5, <3>3, <4>2
      <4>. QED
        BY <4>1, <4>3 DEF Settled
    <3>. QED
      BY <3>1, <3>2, <3>3
  <2>7. RunDir(row) \in Runs
    BY <2>3, <2>4
  <2>8. Settled(row, state)'
    BY <2>6, <2>7, ServeSettled
  <2>. QED
    BY <2>4, <2>5, <2>8
<1>3. ASSUME pc' = "act", observed' \in Outcomes
      PROVE  Settled(at, observed)'
  <2>1. CASE pc = "act" /\ UNCHANGED <<at, observed>>
    <3>1. PICK row : row = at
      OBVIOUS
    <3>2. PICK state : state = observed
      OBVIOUS
    <3>3. Settled(row, state) /\ RunDir(row) \in Runs
      BY <1>1, <1>3, <2>1, <3>1, <3>2 DEF AttemptInductive, OutcomesStay
    <3>4. Settled(row, state)'
      BY <3>3, ServeSettled
    <3>. QED
      BY <2>1, <3>1, <3>2, <3>4
  <2>2. CASE ReconcileObserves
    <3>1. PICK row : row = Head(todo)
      OBVIOUS
    <3>2. PICK state : state = observed'
      OBVIOUS
    <3>3. row \in Row /\ row.state \in Occupied /\ SameRow(row)
      <4>1. todo \in Seq(Row) /\ todo # <<>> /\ pc = "reconcile"
        BY <2>2 DEF ReconcileObserves, RowsInductive, ReadIsGood, ReadRows
      <4>2. 1 \in DOMAIN todo /\ row = todo[1] /\ row \in Row
        BY <3>1, <4>1
      <4>3. row.state \in Occupied
        BY <2>2, <3>1 DEF ReconcileObserves
      <4>. QED
        BY <4>1, <4>2, <4>3 DEF RowsInductive, ReadsCurrent
    <3>4. state = Observe(AttemptOf(row)) /\ at' = row
      BY <1>3, <2>2, <3>1, <3>2 DEF ReconcileObserves, Observes, Outcomes
    <3>5. Settled(row, state)
      BY <1>3, <3>2, <3>3, <3>4, ObserveOutcome
    <3>6. RunDir(row) \in Runs
      BY <3>3, CurrentRow
    <3>7. Settled(row, state)'
      BY <3>5, <3>6, ServeSettled
    <3>. QED
      BY <3>2, <3>4, <3>7
  <2>. QED
    BY <1>3, <2>1, <2>2, ActStep
<1>. QED
  BY <1>2, <1>3 DEF OutcomesStay

\* The whole strengthening under a step of the service or of a user.
LEMMA ServeInductive ==
    ASSUME WorkerTypeOK, RowsInductive, RowsInductive', AttemptInductive,
           Outside
    PROVE  WorkerTypeOK' /\ AttemptInductive'
<1>1. Serves
  BY NextServes DEF Outside, AttemptInductive
<1>2. WorkerTypeOK'
  BY <1>1 DEF Serves
<1>. QED
  BY <1>1, <1>2, ServeSound, ServeRequested, ServeRuns, ServeKeeps,
     ServeOutcomes
  DEF AttemptInductive

(***************************************************************************)
(* What is so in every state                                               *)
(***************************************************************************)

\* At the beginning nothing was requested and no run has begun.
LEMMA InitInductive ==
    ASSUME Init
    PROVE  WorkerTypeOK /\ AttemptInductive
<1>1. \A a \in Attempts : worker[a] = NewAttempt
  BY DEF Init, WorkerInit
<1>2. \A r \in Runs : run[r] = NewDirectory
  BY DEF Init, WorkerInit
<1>3. NewAttempt \in Attempt
  BY WorkerAssumption DEF NewAttempt, Attempt
<1>4. NewDirectory \in Directory
  BY WorkerAssumption DEF NewDirectory, Directory
<1>5. WorkerTypeOK
  BY <1>1, <1>2, <1>3, <1>4 DEF Init, WorkerInit, WorkerTypeOK
<1>6. /\ NewAttempt.operation = "none" /\ NewAttempt.runner = "none"
      /\ AttemptSound(NewAttempt)
  BY DEF NewAttempt, AttemptSound, Locked
<1>7. \A t \in Tasks : task[t].state = "QUEUED" /\ task[t].attempts = 0
  BY DEF Init, NewTask
<1>8. pc = "down"
  BY DEF Init
<1>9. AttemptsSound
  BY <1>1, <1>6 DEF AttemptsSound
<1>10. AttemptsRequested
  BY <1>1, <1>6, <1>8 DEF AttemptsRequested
<1>11. RunsBegun
  <2>1. /\ NewDirectory.lifecycle = "none" /\ NewDirectory.by = 0
        /\ NewDirectory.saved = "none"
    BY DEF NewDirectory
  <2>2. \A r \in Runs : r[1] \in Tasks
    BY DEF Runs
  <2>. QED
    BY <1>2, <1>7, <2>1, <2>2 DEF RunsBegun
<1>12. ExecutorsBegan
  BY <1>1, <1>6 DEF ExecutorsBegan, InRun, Locked
<1>13. RevisionsEarlier
  BY <1>1, <1>6 DEF RevisionsEarlier
<1>14. OutcomesStay
  BY <1>7, <1>8 DEF OutcomesStay, Outcomes
<1>. QED
  BY <1>5, <1>9, <1>10, <1>11, <1>12, <1>13, <1>14 DEF AttemptInductive

\* Every step preserves the types and the strengthening.
LEMMA StepInductive ==
    ASSUME WorkerTypeOK, RowsInductive, RowsInductive', AttemptInductive,
           [Next]_vars
    PROVE  WorkerTypeOK' /\ AttemptInductive'
<1>1. ASSUME NEW a \in Attempts, Supervises(a) \/ Executes(a) \/ Breaks(a)
      PROVE  WorkerTypeOK' /\ AttemptInductive'
  <2>1. UNCHANGED others /\ (SupervisorStep(a) \/ RunnerStep(a) \/ WorkerFault(a))
    BY <1>1 DEF Supervises, Executes, Breaks
  <2>2. ProcessMoves(a)
    BY <2>1, ProcessesMove DEF AttemptInductive
  <2>3. WorkerTypeOK'
    BY <2>2 DEF ProcessMoves, AttemptMoves, WorkerTypeOK
  <2>. QED
    BY <2>1, <2>2, <2>3, ProcessInductive
<1>2. CASE Outside
  BY <1>2, ServeInductive
<1>. QED
  BY <1>1, <1>2 DEF Outside

\* The strengthening is so in every state (the supervisor, the runner's
\* journal and lifecycle.json, machine.py:174-209, against the service).
THEOREM AttemptsHold == Spec => [](WorkerTypeOK /\ AttemptInductive)
<1>1. Init => WorkerTypeOK /\ AttemptInductive
  BY InitInductive
<1>2. /\ WorkerTypeOK /\ AttemptInductive /\ RowsInductive /\ RowsInductive'
      /\ [Next]_vars
      => (WorkerTypeOK /\ AttemptInductive)'
  BY StepInductive
<1>. QED
  BY <1>1, <1>2, RowsInvariant, PTL DEF Spec

\* No operation is executed twice, whoever launches supervisors for it, and
\* whatever dies (the worker lock and the runner's journal,
\* machine.py:174-209).
THEOREM OperationsOnce == Spec => []OperationOnce
<1>1. AttemptInductive => OperationOnce
  BY DEF AttemptInductive, AttemptsSound, AttemptSound, OperationOnce
<1>. QED
  BY <1>1, AttemptsHold, PTL

\* What a task is said to have come to is what its last attempt left in the
\* run, in every later state (observe, backends/mrac.py:155-175).
THEOREM SettledStays == Spec => []SettledAgrees
<1>1. AttemptInductive => SettledAgrees
  BY DEF AttemptInductive, OutcomesStay, Outcomes, Settled, SettledAgrees
<1>. QED
  BY <1>1, AttemptsHold, PTL

(***************************************************************************)
(* What the service and the users have read are rows                       *)
(***************************************************************************)

\* A set of numbers has a least one.
LEMMA Smallest ==
    ASSUME NEW S \in SUBSET Nat, S # {}
    PROVE  \E x \in S : \A y \in S : x <= y
<1>. DEFINE R == OpToRel(<, Nat)
<1>1. PICK x \in S : \A y \in S : ~(<<y, x>> \in R)
  BY NatLessThanWellFounded, WFMin, Zenon
<1>2. \A y \in S : ~(y < x)
  BY <1>1 DEF OpToRel
<1>3. \A y \in S : x \in Nat /\ y \in Nat
  OBVIOUS
<1>. HIDE DEF R
<1>. QED
  BY <1>2, <1>3

\* Elements taken out of a sequence are a sequence of such elements.
LEMMA ThoseAreSeq ==
    ASSUME NEW S, NEW seq \in Seq(S), NEW positions
    PROVE  Those(seq, positions) \in Seq(S)
<1>. DEFINE Takes(f, m) ==
                f = [n \in 0..m |->
                        IF n = 0 THEN <<>>
                        ELSE IF n \in positions THEN Append(f[n - 1], seq[n])
                        ELSE f[n - 1]]
            last == Len(seq)
<1>1. last \in Nat /\ \A n \in 1..last : seq[n] \in S
  OBVIOUS
<1>. HIDE DEF last
<1>2. \A m \in 0..last : \E f : Takes(f, m)
  <2>. DEFINE Bad == {m \in 0..last : ~\E f : Takes(f, m)}
  <2>1. SUFFICES ASSUME Bad # {} PROVE FALSE
    OBVIOUS
  <2>2. PICK m \in Bad : \A k \in Bad : m <= k
    <3>1. Bad \in SUBSET Nat
      BY <1>1
    <3>. HIDE DEF Bad
    <3>. QED
      BY <2>1, <3>1, Smallest
  <2>3. CASE m = 0
    <3>1. Takes([n \in 0..0 |-> <<>>], 0)
      OBVIOUS
    <3>. HIDE DEF Takes
    <3>. QED
      BY <2>2, <2>3, <3>1
  <2>4. CASE m # 0
    <3>1. m \in Nat /\ m - 1 \in 0..last /\ m - 1 \notin Bad
      <4>1. m \in 0..last
        BY <2>2
      <4>2. m \in Nat /\ m - 1 \in 0..last
        BY <1>1, <2>4, <4>1
      <4>. HIDE DEF Bad
      <4>3. m - 1 \in Bad => m <= m - 1
        BY <2>2
      <4>. QED
        BY <4>2, <4>3
    <3>2. PICK g : Takes(g, m - 1)
      BY <3>1
    <3>. DEFINE next == IF m \in positions THEN Append(g[m - 1], seq[m])
                        ELSE g[m - 1]
                f == [n \in 0..m |-> IF n = m THEN next ELSE g[n]]
    <3>3. f[m] = next /\ \A n \in 0..(m - 1) : f[n] = g[n]
      BY <3>1
    <3>4. \A n \in 0..(m - 1) :
              g[n] = IF n = 0 THEN <<>>
                     ELSE IF n \in positions THEN Append(g[n - 1], seq[n])
                     ELSE g[n - 1]
      BY <3>2
    <3>5. \A n \in 0..m :
              f[n] = IF n = 0 THEN <<>>
                     ELSE IF n \in positions THEN Append(f[n - 1], seq[n])
                     ELSE f[n - 1]
      <4>. TAKE n \in 0..m
      <4>. HIDE DEF f
      <4>1. CASE n = m
        <5>1. f[n - 1] = g[n - 1]
          BY <2>4, <3>1, <3>3, <4>1
        <5>. QED
          BY <2>4, <3>3, <4>1, <5>1
      <4>2. CASE n # m /\ n # 0
        <5>1. n \in 0..(m - 1) /\ n - 1 \in 0..(m - 1)
          BY <3>1, <4>2
        <5>2. f[n] = g[n] /\ f[n - 1] = g[n - 1]
          BY <3>3, <5>1
        <5>. QED
          BY <3>4, <5>1, <5>2
      <4>3. CASE n # m /\ n = 0
        <5>1. n \in 0..(m - 1)
          BY <3>1, <4>3
        <5>. QED
          BY <3>3, <3>4, <4>3, <5>1
      <4>. QED
        BY <4>1, <4>2, <4>3
    <3>6. Takes(f, m)
      <4>1. f = [n \in 0..m |-> f[n]]
        OBVIOUS
      <4>. HIDE DEF f
      <4>. QED
        BY <3>5, <4>1
    <3>. HIDE DEF Takes, f
    <3>. QED
      BY <2>2, <3>6
  <2>. QED
    BY <2>3, <2>4
<1>3. ASSUME NEW f, Takes(f, last) PROVE f[last] \in Seq(S)
  <2>. DEFINE Bad == {n \in 0..last : f[n] \notin Seq(S)}
  <2>1. SUFFICES ASSUME Bad # {} PROVE FALSE
    BY <1>1
  <2>2. PICK n \in Bad : \A k \in Bad : n <= k
    <3>1. Bad \in SUBSET Nat
      BY <1>1
    <3>. HIDE DEF Bad
    <3>. QED
      BY <2>1, <3>1, Smallest
  <2>3. n \in 0..last /\ f[n] \notin Seq(S)
    BY <2>2
  <2>4. f[n] = IF n = 0 THEN <<>>
               ELSE IF n \in positions THEN Append(f[n - 1], seq[n])
               ELSE f[n - 1]
    BY <1>3, <2>3
  <2>5. CASE n = 0
    <3>1. f[n] = <<>>
      BY <2>4, <2>5
    <3>. HIDE DEF Takes
    <3>. QED
      BY <2>3, <3>1
  <2>6. CASE n # 0
    <3>1. n - 1 \in 0..last /\ n - 1 \notin Bad /\ n \in 1..last
      BY <1>1, <2>2, <2>3, <2>6
    <3>2. f[n - 1] \in Seq(S) /\ seq[n] \in S
      BY <1>1, <3>1
    <3>. HIDE DEF Takes
    <3>3. Append(f[n - 1], seq[n]) \in Seq(S)
      BY <3>2
    <3>. QED
      BY <2>3, <2>4, <2>6, <3>2, <3>3
  <2>. QED
    BY <2>5, <2>6
<1>4. Those(seq, positions) = (CHOOSE f : Takes(f, last))[last]
  BY DEF Those, last
<1>. HIDE DEF Takes
<1>5. Takes(CHOOSE f : Takes(f, last), last)
  BY <1>1, <1>2
<1>. QED
  BY <1>3, <1>4, <1>5

\* What the service has read.
ServiceTyped == /\ pc \in Places
                /\ todo \in Seq(Task)
                /\ queue \in Seq(Tasks)
                /\ at \in Task \cup {NoTask}
                /\ observed \in Observations
                /\ rotation \in Nat

\* What the users have read.
UsersTyped == call \in [Ops -> Call \cup {NoCall}]

\* What went wrong.
FaultsTyped == polluted \subseteq Runs /\ faults \in 0..MaxFaults

\* The rows are sequences of rows, and so are the tasks in any order.
LEMMA RowsAreTasks ==
    ASSUME task \in [Tasks -> Task]
    PROVE  /\ Rows \in Seq(Task)
           /\ Order \in Seq(Tasks)
<1>1. Order \in Seq(Tasks) /\ DOMAIN Order = 1..Len(Order) /\ Len(Order) \in Nat
  BY SchedulerAssumption
<1>2. \A i \in 1..Len(Order) : task[Order[i]] \in Task
  BY <1>1
<1>3. Rows \in [1..Len(Order) -> Task]
  BY <1>1, <1>2 DEF Rows
<1>. QED
  BY <1>1, <1>3

\* The pieces of the service's steps.
LEMMA PiecesTyped ==
    ASSUME ServiceTyped, task \in [Tasks -> Task]
    PROVE  /\ ServiceEnds => ServiceTyped'
           /\ \A place \in Places : Continue(place) => ServiceTyped'
           /\ StartTick /\ UNCHANGED rotation => ServiceTyped'
<1>1. ServiceEnds => ServiceTyped'
  BY DEF ServiceEnds, ServiceTyped, Places, Observations
<1>2. ASSUME NEW place \in Places, Continue(place) PROVE ServiceTyped'
  BY <1>2 DEF Continue, ServiceTyped, Observations
<1>3. StartTick /\ UNCHANGED rotation => ServiceTyped'
  BY RowsAreTasks DEF StartTick, ServiceTyped, Places, Observations
<1>. QED
  BY <1>1, <1>2, <1>3

\* After an update, the row is among the rows.
LEMMA UpdatedRow ==
    ASSUME task \in [Tasks -> Task], task' \in [Tasks -> Task],
           NEW row, row.id \in Tasks, task' = [task EXCEPT ![row.id] = row]
    PROVE  row \in Task
<1>1. task'[row.id] = row
  OBVIOUS
<1>. QED
  BY <1>1

\* The end of an attempt.
LEMMA FinishTyped ==
    ASSUME ServiceTyped, RowsInductive, task' \in [Tasks -> Task],
           at \in Row,
           NEW state \in Observations \ {"UNKNOWN", "RUNNING"},
           NEW loop \in Places, NEW abort \in Places,
           Finish(state, loop, abort)
    PROVE  ServiceTyped'
<1>. DEFINE row == Finished(at, state)
<1>1. task \in [Tasks -> Task] /\ task' \in [Tasks -> Task]
  BY RowsBounded
<1>2. row.id \in Tasks
  BY FinishedRow DEF RowsInductive, ReadIsGood, Row
<1>. HIDE DEF row
<1>3. /\ task' = [task EXCEPT ![row.id] = row]
      /\ IF row.state = "CANCELLED"
         THEN /\ pc' = abort /\ at' = row /\ observed' = "UNKNOWN"
              /\ UNCHANGED <<todo, queue, rotation>>
         ELSE Continue(loop)
  BY DEF Finish, Update, row
<1>4. row \in Task
  BY <1>1, <1>2, <1>3, UpdatedRow
<1>5. CASE row.state = "CANCELLED"
  BY <1>3, <1>4, <1>5 DEF ServiceTyped, Observations
<1>6. CASE row.state # "CANCELLED"
  BY <1>1, <1>3, <1>6, PiecesTyped
<1>. QED
  BY <1>5, <1>6

\* Every step of the service leaves it with rows.
LEMMA ServiceStaysTyped ==
    ASSUME ServiceTyped, RowsInductive, task' \in [Tasks -> Task], [Next]_vars
    PROVE  ServiceTyped'
<1>1. task \in [Tasks -> Task] /\ task' \in [Tasks -> Task]
  BY RowsBounded
<1>2. /\ {"reconcile", "abort", "undo", "dispatch", "launch", "act", "mark"}
             \subseteq Places
      /\ "UNKNOWN" \in Observations
      /\ {"LOST", "FAILED"} \subseteq Observations \ {"UNKNOWN", "RUNNING"}
  BY DEF Places, Observations
<1>3. CASE UNCHANGED service
  BY <1>3 DEF service, ServiceTyped
<1>4. todo # <<>> => Head(todo) \in Task /\ Tail(todo) \in Seq(Task)
  BY DEF ServiceTyped
<1>5. queue # <<>> => Head(queue) \in Tasks /\ Tail(queue) \in Seq(Tasks)
  BY DEF ServiceTyped
<1>6. CASE ReconcilePasses
  BY <1>4, <1>6 DEF ReconcilePasses, ServiceTyped
<1>7. CASE ReconcileAborts
  <2>1. CASE ServiceEnds
    BY <1>1, <2>1, PiecesTyped
  <2>2. CASE todo' = Tail(todo) /\ UNCHANGED <<pc, queue, at, observed, rotation>>
    BY <1>4, <1>7, <2>2 DEF ReconcileAborts, ServiceTyped
  <2>. QED
    BY <1>7, <2>1, <2>2 DEF ReconcileAborts
<1>8. CASE ReconcileObserves
  BY <1>2, <1>4, <1>8 DEF ReconcileObserves, ServiceTyped
<1>9. CASE ActUnknown \/ ActRunning
  <2>1. Continue("reconcile") \/ ServiceEnds
    BY <1>9 DEF ActUnknown, ActRunning, UpdateOrEnd
  <2>. QED
    BY <1>1, <1>2, <2>1, PiecesTyped
<1>10. CASE ActFinish
  <2>1. at \in Row /\ observed \in Observations \ {"UNKNOWN", "RUNNING"}
    BY <1>10 DEF ActFinish, RowsInductive, ReadIsGood, ReadRows
  <2>2. PICK state : state = observed
    OBVIOUS
  <2>. QED
    BY <1>2, <1>10, <2>1, <2>2, FinishTyped DEF ActFinish
<1>11. CASE FinishAborts
  <2>1. ServiceEnds \/ Continue("reconcile") \/ Continue("dispatch")
    BY <1>11 DEF FinishAborts
  <2>. QED
    BY <1>1, <1>2, <2>1, PiecesTyped
<1>12. CASE Invalidate
  <2>. DEFINE K == {i \in DOMAIN Order : /\ Order[i] \in Affected
                                         /\ Rows[i].valid}
  <2>1. todo' = Those(Rows, K)
    BY <1>12 DEF Invalidate
  <2>. HIDE DEF K
  <2>2. todo' \in Seq(Task)
    BY <1>1, <2>1, RowsAreTasks, ThoseAreSeq
  <2>. QED
    BY <1>2, <1>12, <2>2 DEF Invalidate, ServiceTyped
<1>13. ASSUME NEW t \in Tasks, MarkInvalid(t) PROVE ServiceTyped'
  <2>1. CASE ServiceEnds
    BY <1>1, <2>1, PiecesTyped
  <2>2. CASE todo' = Tail(todo) /\ UNCHANGED <<pc, queue, at, observed, rotation>>
    BY <1>4, <1>13, <2>2 DEF MarkInvalid, ServiceTyped
  <2>. QED
    BY <1>13, <2>1, <2>2 DEF MarkInvalid
<1>14. CASE InvalidateEnds
  <2>. DEFINE K == {i \in DOMAIN Order : BatchOf[Order[i]] > rotation}
              L == {i \in DOMAIN Order : BatchOf[Order[i]] <= rotation}
  <2>1. Rotated = Those(Order, K) \o Those(Order, L)
    BY DEF Rotated
  <2>. HIDE DEF K, L
  <2>2. Those(Order, K) \in Seq(Tasks) /\ Those(Order, L) \in Seq(Tasks)
    BY <1>1, RowsAreTasks, ThoseAreSeq
  <2>3. Rotated \in Seq(Tasks)
    BY <2>1, <2>2, ConcatProperties
  <2>4. Cardinality(Batches) \in Nat /\ Cardinality(Batches) > 0
    <3>. DEFINE f == [t \in Tasks |-> BatchOf[t]]
    <3>1. f \in Surjection(Tasks, Batches)
      BY DEF Surjection, Batches
    <3>2. IsFiniteSet(Batches)
      BY <3>1, FS_Surjection, SchedulerAssumption
    <3>3. Batches # {}
      <4>1. PICK t : t \in Tasks
        BY SchedulerAssumption
      <4>2. BatchOf[t] \in Batches
        BY <4>1 DEF Batches
      <4>. QED
        BY <4>2
    <3>4. Cardinality(Batches) \in Nat /\ Cardinality(Batches) # 0
      BY <3>2, <3>3, FS_CardinalityType, FS_EmptySet
    <3>. QED
      BY <3>4
  <2>5. (rotation + 1) % Cardinality(Batches) \in Nat
    <3>. DEFINE n == rotation + 1
                m == Cardinality(Batches)
    <3>1. n \in Nat /\ m \in Nat /\ m > 0
      BY <2>4 DEF ServiceTyped
    <3>. HIDE DEF n, m
    <3>2. n % m \in Nat
      BY <3>1
    <3>. QED
      BY <3>2 DEF n, m
  <2>. QED
    BY <1>2, <1>14, <2>3, <2>5 DEF InvalidateEnds, ServiceTyped
<1>15. ASSUME NEW t \in Tasks, DispatchSkips(t) PROVE ServiceTyped'
  BY <1>5, <1>15 DEF DispatchSkips, ServiceTyped
<1>16. CASE DispatchPasses
  BY <1>5, <1>16 DEF DispatchPasses, ServiceTyped
<1>17. ASSUME NEW t \in Tasks, DispatchClaims(t) PROVE ServiceTyped'
  <2>. DEFINE row == Claimed(task[t])
              K == {i \in DOMAIN queue : BatchOf[queue[i]] # BatchOf[t]}
  <2>1. row.id = t
    <3>1. task[t] \in Row /\ task[t].id = t
      BY DEF RowsInductive, ReadIsGood, RowsTyped
    <3>. QED
      BY <3>1 DEF Claimed, Row
  <2>2. /\ Update(row) /\ at' = row /\ queue' = Those(queue, K)
        /\ pc' = "launch" /\ UNCHANGED <<todo, observed, rotation>>
    BY <1>17 DEF DispatchClaims
  <2>. HIDE DEF row, K
  <2>3. row \in Task
    BY <1>1, <2>1, <2>2, UpdatedRow DEF Update
  <2>4. queue' \in Seq(Tasks)
    BY <2>2, ThoseAreSeq DEF ServiceTyped
  <2>. QED
    BY <1>2, <2>2, <2>3, <2>4 DEF ServiceTyped
<1>18. CASE DispatchLaunches
  BY <1>1, <1>2, <1>18, PiecesTyped DEF DispatchLaunches
<1>19. CASE TickEnds
  BY <1>1, <1>19, PiecesTyped DEF TickEnds
<1>20. CASE DispatchFails
  <2>1. at \in Row
    BY <1>20 DEF DispatchFails, RowsInductive, ReadIsGood, ReadRows
  <2>2. PICK state \in {"LOST", "FAILED"} : Finish(state, "dispatch", "undo")
    BY <1>20 DEF DispatchFails
  <2>. QED
    BY <1>2, <2>1, <2>2, FinishTyped
<1>21. CASE ServiceStarts
  BY <1>1, <1>21, PiecesTyped DEF ServiceStarts
<1>22. CASE ServiceCrashes
  BY <1>1, <1>22, PiecesTyped DEF ServiceCrashes
<1>23. CASE Service
  BY <1>6, <1>7, <1>8, <1>9, <1>10, <1>11, <1>12, <1>13, <1>14, <1>15, <1>16,
     <1>17, <1>18, <1>19, <1>23
  DEF Service
<1>24. ASSUME NEW o \in Ops, User(o) PROVE ServiceTyped'
  BY <1>3, <1>24 DEF User, OperateInspects, OperateResumes, OperateAborts,
     OperateCancels, OperateReruns
<1>25. ASSUME NEW a \in Attempts, Supervises(a) \/ Executes(a) \/ Breaks(a)
       PROVE  ServiceTyped'
  BY <1>3, <1>25 DEF Supervises, Executes, Breaks, others
<1>26. ASSUME NEW r \in Runs, Contaminates(r) PROVE ServiceTyped'
  BY <1>3, <1>26 DEF Contaminates
<1>27. CASE UNCHANGED vars
  BY <1>3, <1>27 DEF vars
<1>. QED
  BY <1>20, <1>21, <1>22, <1>23, <1>24, <1>25, <1>26, <1>27 DEF Next

\* Every step leaves the users with what they have read.
LEMMA UsersStayTyped ==
    ASSUME UsersTyped, task \in [Tasks -> Task],
           \A t \in Tasks : task[t].id = t, [Next]_vars
    PROVE  UsersTyped'
<1>1. \A t : Unaffected(t) \in [Ops -> Call \cup {NoCall}]
  BY DEF Unaffected, UsersTyped
<1>2. CASE call' = call
  BY <1>2 DEF UsersTyped
<1>3. ASSUME NEW t, call' = Unaffected(t) PROVE UsersTyped'
  BY <1>1, <1>3 DEF UsersTyped
<1>4. CASE Service
  <2>1. CASE ActUnknown \/ ActRunning \/ ActFinish
    BY <1>2, <1>3, <2>1
    DEF ActUnknown, ActRunning, ActFinish, UpdateOrEnd, Finish, Update, NoUpdate
  <2>2. ASSUME NEW t \in Tasks, MarkInvalid(t) \/ DispatchSkips(t) \/ DispatchClaims(t)
        PROVE  UsersTyped'
    BY <1>2, <1>3, <2>2
    DEF MarkInvalid, DispatchSkips, DispatchClaims, Update, NoUpdate
  <2>3. CASE ReconcilePasses \/ ReconcileAborts \/ ReconcileObserves
             \/ FinishAborts \/ Invalidate \/ InvalidateEnds \/ DispatchPasses
             \/ DispatchLaunches \/ TickEnds
    BY <1>2, <2>3
    DEF ReconcilePasses, ReconcileAborts, ReconcileObserves, FinishAborts,
        Invalidate, InvalidateEnds, DispatchPasses, DispatchLaunches, TickEnds,
        users
  <2>. QED
    BY <1>4, <2>1, <2>2, <2>3 DEF Service
<1>5. ASSUME NEW o \in Ops, User(o) PROVE UsersTyped'
  <2>1. CASE OperateInspects(o)
    <3>1. PICK t \in Tasks, action \in Resumes :
              call' = [call EXCEPT ![o] = [task |-> t, action |-> action,
                                           run |-> task[t].run]]
      BY <2>1 DEF OperateInspects
    <3>2. task[t].run \in 0..MaxReruns
      BY DEF Task
    <3>3. [task |-> t, action |-> action, run |-> task[t].run] \in Call
      BY <3>2 DEF Call
    <3>. QED
      BY <3>1, <3>3 DEF UsersTyped
  <2>2. CASE OperateResumes(o)
    BY <1>3, <2>2 DEF OperateResumes, Update
  <2>3. CASE OperateAborts(o)
    BY <2>3 DEF OperateAborts, UsersTyped
  <2>4. ASSUME NEW t \in Tasks, OperateCancels(o, t) PROVE UsersTyped'
    <3>. DEFINE mine == [task |-> t, action |-> "cancel", run |-> task[t].run]
    <3>1. task[t].run \in 0..MaxReruns
      BY DEF Task
    <3>2. mine \in Call
      BY <3>1 DEF Call
    <3>3. \E kept \in {call, Unaffected(t)} :
              call' = kept \/ call' = [kept EXCEPT ![o] = mine]
      BY <2>4 DEF OperateCancels
    <3>. HIDE DEF mine
    <3>. QED
      BY <1>1, <3>2, <3>3 DEF UsersTyped
  <2>5. ASSUME NEW t \in Tasks, OperateReruns(o, t) PROVE UsersTyped'
    BY <1>3, <2>5 DEF OperateReruns, Update
  <2>. QED
    BY <1>5, <2>1, <2>2, <2>3, <2>4, <2>5 DEF User
<1>6. CASE DispatchFails
  BY <1>3, <1>6 DEF DispatchFails, Finish, Update
<1>7. CASE ServiceStarts \/ ServiceCrashes
  BY <1>2, <1>7 DEF ServiceStarts, ServiceCrashes, users
<1>8. ASSUME NEW a \in Attempts, Supervises(a) \/ Executes(a) \/ Breaks(a)
      PROVE  UsersTyped'
  BY <1>2, <1>8 DEF Supervises, Executes, Breaks, others, users
<1>9. ASSUME NEW r \in Runs, Contaminates(r) PROVE UsersTyped'
  BY <1>2, <1>9 DEF Contaminates, users
<1>10. CASE UNCHANGED vars
  BY <1>2, <1>10 DEF vars, users
<1>. QED
  BY <1>4, <1>5, <1>6, <1>7, <1>8, <1>9, <1>10 DEF Next

\* No more goes wrong than the bound allows.
LEMMA FaultsStayTyped ==
    ASSUME FaultsTyped, [Next]_vars
    PROVE  FaultsTyped'
<1>. DEFINE Fine == /\ polluted' = polluted
                    /\ UNCHANGED faults \/ Fault
<1>1. UNCHANGED faults \/ Fault => faults' \in 0..MaxFaults
  BY SchedulerAssumption DEF Fault, FaultsTyped
<1>2. Fine => FaultsTyped'
  BY <1>1 DEF FaultsTyped
<1>3. ASSUME NEW r \in Runs, Contaminates(r) PROVE FaultsTyped'
  BY <1>1, <1>3 DEF Contaminates, FaultsTyped
<1>4. CASE Service
  <2>1. CASE ReconcileObserves
    BY <1>2, <2>1 DEF ReconcileObserves, Observes
  <2>2. ASSUME NEW t \in Tasks, MarkInvalid(t) \/ DispatchSkips(t) \/ DispatchClaims(t)
        PROVE  Fine
    BY <2>2 DEF MarkInvalid, DispatchSkips, DispatchClaims
  <2>3. CASE ReconcilePasses \/ ReconcileAborts \/ ActUnknown \/ ActRunning
             \/ ActFinish \/ FinishAborts \/ Invalidate \/ InvalidateEnds
             \/ DispatchPasses \/ DispatchLaunches \/ TickEnds
    BY <1>2, <2>3
    DEF ReconcilePasses, ReconcileAborts, ActUnknown, ActRunning, ActFinish,
        FinishAborts, Invalidate, InvalidateEnds, DispatchPasses,
        DispatchLaunches, TickEnds
  <2>. QED
    BY <1>2, <1>4, <2>1, <2>2, <2>3 DEF Service
<1>5. ASSUME NEW o \in Ops, User(o) PROVE Fine
  BY <1>5 DEF User, OperateInspects, OperateResumes, OperateAborts,
     OperateCancels, OperateReruns
<1>6. CASE ServiceStarts \/ DispatchFails \/ ServiceCrashes
  BY <1>2, <1>6 DEF ServiceStarts, DispatchFails, ServiceCrashes
<1>7. ASSUME NEW a \in Attempts, Supervises(a) \/ Executes(a) \/ Breaks(a)
      PROVE  Fine
  BY <1>7 DEF Supervises, Executes, Breaks, others
<1>8. CASE UNCHANGED vars
  BY <1>2, <1>8 DEF vars
<1>. QED
  BY <1>2, <1>3, <1>4, <1>5, <1>6, <1>7, <1>8 DEF Next

\* Rows, calls, files and processes have their types in every state: in
\* particular there is no attempt or run beyond those that recoveries and
\* operations pay for (AttemptsAssumption; operate, operations.py:38-107).
THEOREM SchedulerTypesHold == Spec => []TypeOK
<1>. DEFINE RowsTask == task \in [Tasks -> Task] /\ \A t \in Tasks : task[t].id = t
<1>1. RowsInductive => RowsTask
  BY RowsBounded DEF RowsInductive, ReadIsGood, RowsTyped
<1>2. Init => ServiceTyped /\ UsersTyped /\ FaultsTyped
  BY SchedulerAssumption
  DEF Init, ServiceTyped, UsersTyped, FaultsTyped, Places, Observations
<1>3. RowsInductive /\ RowsTask /\ RowsTask' /\ [Next]_vars
      /\ ServiceTyped /\ UsersTyped /\ FaultsTyped
      => (ServiceTyped /\ UsersTyped /\ FaultsTyped)'
  BY ServiceStaysTyped, UsersStayTyped, FaultsStayTyped
<1>4. RowsInductive => done \subseteq Ops
  BY DEF RowsInductive, RowsCounted
<1>5. WorkerTypeOK /\ RowsTask /\ done \subseteq Ops
      /\ ServiceTyped /\ UsersTyped /\ FaultsTyped => TypeOK
  BY DEF TypeOK, ServiceTyped, UsersTyped, FaultsTyped
<1>. HIDE DEF RowsTask
<1>. QED
  BY <1>1, <1>2, <1>3, <1>4, <1>5, RowsInvariant, AttemptsHold, PTL DEF Spec

(***************************************************************************)
(* Attempts that are not doubled: the processes                            *)
(***************************************************************************)

\* What inspect() says of a run that stays.
LEMMA InspectStays ==
    ASSUME NEW r, run'[r] = run[r], Executing(r)' <=> Executing(r)
    PROVE  Inspect(r)' = Inspect(r)
  BY DEF Inspect

\* A process of an attempt that cannot run changes nothing outside.
LEMMA IdleMover ==
    ASSUME AttemptsSound, NEW a \in Attempts, ProcessMoves(a),
           ~CanRun(worker[a])
    PROVE  /\ run'[RunOf(a)] = run[RunOf(a)]
           /\ worker[a].runner \notin Locked /\ worker'[a].runner \notin Locked
<1>1. worker[a].finished # "none"
  BY DEF ProcessMoves, AttemptMoves, CanRun
<1>2. worker[a].runner = "none"
  BY <1>1 DEF AttemptsSound, AttemptSound
<1>. QED
  BY <1>2 DEF ProcessMoves, RunStays, RunBegins, RunProceeds, Locked

\* A task that nobody holds is not disturbed by processes.
LEMMA ProcessElsewhere ==
    ASSUME WorkerTypeOK, RowsInductive, AttemptInductive, SlotInductive,
           NEW a \in Attempts, ProcessMoves(a),
           NEW r \in Runs, task[r[1]].state \notin Occupied, ~Doubled(r[1])
    PROVE  run'[r] = run[r] /\ Inspect(r)' = Inspect(r)
<1>1. RunOf(a)[1] = a[1] /\ a[1] \in Tasks /\ a[2] \in 1..MaxAttempts
      /\ a = <<a[1], a[2]>>
  BY RunOfAttempt DEF RunOf
<1>3. RunOf(a) = r => /\ worker[a].runner \notin Locked
                      /\ worker'[a].runner \notin Locked
                      /\ run'[r] = run[r]
  <2>1. SUFFICES ASSUME RunOf(a) = r
                 PROVE  /\ worker[a].runner \notin Locked
                        /\ worker'[a].runner \notin Locked
                        /\ run'[r] = run[r]
    OBVIOUS
  <2>2. a[1] = r[1]
    BY <1>1, <2>1
  <2>3. ~worker[a].doubled
    BY <1>1, <2>2 DEF Doubled
  <2>4. ~CanRun(worker[a])
    BY <2>2, <2>3 DEF SlotInductive, SlotsHeld, HoldsSlot
  <2>. QED
    BY <2>1, <2>4, IdleMover DEF AttemptInductive
<1>4. run'[r] = run[r]
  BY <1>3 DEF ProcessMoves
<1>5. ASSUME NEW b \in Attempts
      PROVE  RunOf(b)' = r /\ worker'[b].runner \in Locked
             <=> RunOf(b) = r /\ worker[b].runner \in Locked
  <2>1. RunOf(b)' = RunOf(b)
    BY MoverRequested
  <2>2. CASE b = a
    BY <1>3, <2>1, <2>2
  <2>3. CASE b # a
    BY <2>1, <2>3 DEF ProcessMoves, AttemptMoves
  <2>. QED
    BY <2>2, <2>3
<1>6. Executing(r)' <=> Executing(r)
  BY <1>5 DEF Executing
<1>. QED
  BY <1>4, <1>6, InspectStays

\* Slots and permissions outlast every step of a process.
LEMMA ProcessSlots ==
    ASSUME WorkerTypeOK, RowsInductive, AttemptInductive, SlotInductive,
           NEW a \in Attempts, ProcessMoves(a), SlotMoves(a),
           UNCHANGED others
    PROVE  SlotInductive'
<1>1. UNCHANGED <<task, pc, todo, at, observed, call>>
  BY DEF others, service, users
<1>2. \A b \in Attempts \ {a} : worker'[b] = worker[b]
  BY DEF ProcessMoves, AttemptMoves
<1>3. ASSUME NEW b \in Attempts, ~worker'[b].doubled
      PROVE  /\ ~worker[b].doubled
             /\ CanRun(worker'[b]) => CanRun(worker[b])
             /\ DiedAlone(worker[b]) => DiedAlone(worker'[b])
  <2>1. CASE b = a
    BY <1>3, <2>1 DEF SlotMoves
  <2>2. CASE b # a
    BY <1>2, <1>3, <2>2
  <2>. QED
    BY <2>1, <2>2
<1>4. ASSUME NEW t \in Tasks, ~Doubled(t)'
      PROVE  ~Doubled(t)
  <2>1. \A n \in 1..MaxAttempts : <<t, n>> \in Attempts
    BY DEF Attempts
  <2>. QED
    BY <1>3, <1>4, <2>1 DEF Doubled
<1>5. SlotsHeld'
  <2>1. \A b \in Attempts : HoldsSlot(b)' <=> HoldsSlot(b)
    BY <1>1 DEF HoldsSlot, AttemptOf
  <2>2. \A b \in Attempts : ~worker'[b].doubled =>
            /\ DiedAlone(worker'[b])
            /\ CanRun(worker'[b]) => HoldsSlot(b)'
    BY <1>3, <2>1 DEF SlotInductive, SlotsHeld
  <2>3. ASSUME pc = "act", observed \notin {"UNKNOWN", "RUNNING"},
               ~worker'[AttemptOf(at)].doubled
        PROVE  ~CanRun(worker'[AttemptOf(at)])
    <3>1. AttemptOf(at) \in Attempts
      BY <2>3, CurrentRow DEF RowsInductive, ReadIsGood, ReadRows, ReadsCurrent
    <3>. QED
      BY <1>3, <2>3, <3>1 DEF SlotInductive, SlotsHeld
  <2>4. AttemptOf(at)' = AttemptOf(at)
    BY <1>1 DEF AttemptOf
  <2>. QED
    BY <1>1, <2>2, <2>3, <2>4 DEF SlotsHeld
<1>6. AbortsGivenUp'
  BY <1>1 DEF SlotInductive, AbortsGivenUp, GivenUp
<1>7. ASSUME NEW t \in Tasks, task[t].state \notin Occupied, ~Doubled(t)
      PROVE  /\ RunDir(task[t]) \in Runs /\ RunDir(task[t])' = RunDir(task[t])
             /\ run'[RunDir(task[t])] = run[RunDir(task[t])]
             /\ Inspect(RunDir(task[t]))' = Inspect(RunDir(task[t]))
  <2>1. task[t] \in Task /\ task[t].id = t
    BY RowsBounded DEF RowsInductive, ReadIsGood, RowsTyped
  <2>2. PICK r : r = RunDir(task[t])
    OBVIOUS
  <2>3. r \in Runs /\ r[1] = t
    BY <2>1, <2>2 DEF RunDir, Runs, Task
  <2>4. run'[r] = run[r] /\ Inspect(r)' = Inspect(r)
    BY <1>7, <2>3, ProcessElsewhere
  <2>5. RunDir(task[t])' = RunDir(task[t])
    BY <1>1 DEF RunDir
  <2>6. Inspect(RunDir(task[t]))' = Inspect(r)'
    BY <2>2, <2>5
  <2>. QED
    BY <2>2, <2>3, <2>4, <2>5, <2>6
<1>8. CallsAllowed'
  <2>1. SUFFICES ASSUME NEW o \in Ops, call[o] # NoCall,
                        call[o].action \in Resumes, ~Doubled(call[o].task)'
                 PROVE  call[o].action \in Inspect(RunDir(task[call[o].task]))'.actions
    BY <1>1 DEF CallsAllowed
  <2>2. call[o].task \in Tasks /\ task[call[o].task].state \notin Occupied
    BY <2>1
    DEF RowsInductive, ReadIsGood, CallsEligible, CallRow, Eligible, Occupied
  <2>3. PICK t : t = call[o].task
    OBVIOUS
  <2>4. ~Doubled(t)
    <3>1. ~Doubled(t)'
      BY <1>1, <2>1, <2>3
    <3>. QED
      BY <1>4, <2>2, <2>3, <3>1
  <2>5. Inspect(RunDir(task[t]))' = Inspect(RunDir(task[t]))
    BY <1>7, <2>2, <2>3, <2>4
  <2>6. Inspect(RunDir(task[call[o].task]))' = Inspect(RunDir(task[t]))'
    BY <1>1, <2>3
  <2>7. call[o].action \in Inspect(RunDir(task[call[o].task])).actions
    BY <2>1, <2>3, <2>4 DEF SlotInductive, CallsAllowed
  <2>. QED
    BY <2>3, <2>5, <2>6, <2>7
<1>9. WaitingCanRun'
  <2>1. SUFFICES ASSUME NEW t \in Tasks, task[t].state \in Waiting, ~Doubled(t)'
        PROVE  IF task[t].operation = "start"
               THEN ~run'[RunDir(task[t])'].created
               ELSE task[t].operation \in Inspect(RunDir(task[t]))'.actions
    BY <1>1 DEF WaitingCanRun
  <2>2. task[t].state \notin Occupied /\ ~Doubled(t)
    BY <1>4, <2>1 DEF Waiting, Occupied
  <2>3. IF task[t].operation = "start"
        THEN ~run[RunDir(task[t])].created
        ELSE task[t].operation \in Inspect(RunDir(task[t])).actions
    BY <2>1, <2>2 DEF SlotInductive, WaitingCanRun
  <2>. QED
    BY <1>7, <2>2, <2>3
<1>. QED
  BY <1>5, <1>6, <1>8, <1>9 DEF SlotInductive

(***************************************************************************)
(* Attempts that are not doubled: the service and the users                *)
(***************************************************************************)

\* An occupied task leaves its slot only when the service, which is at its
\* attempt, has seen that end or cannot launch it.
LEMMA OccupiedStays ==
    ASSUME RowsInductive, [Next]_vars, NEW t \in Tasks,
           task[t].state \in Occupied
    PROVE  \/ task'[t].state \in Occupied
              /\ task'[t].attempts = task[t].attempts
           \/ /\ at.id = t /\ task'[t].state \notin Occupied
              /\ \/ pc = "act" /\ observed \notin {"UNKNOWN", "RUNNING"}
                 \/ pc = "launch"
<1>1. task[t] \in Row /\ task[t].id = t
  BY DEF RowsInductive, ReadIsGood, RowsTyped
<1>2. task[t].state \notin Waiting
  BY DEF Occupied, Waiting
<1>3. CASE task'[t] = task[t]
  BY <1>3
<1>4. CASE RowStays(t)
  <2>1. task'[t].state \in Occupied
    BY <1>4 DEF RowStays
  <2>2. task'[t].attempts = task[t].attempts
    BY <1>1, <1>4 DEF RowStays, Row
  <2>. QED
    BY <2>1, <2>2
<1>5. ~RowClaimed(t) /\ ~RowRerun(t)
  BY <1>2 DEF RowClaimed, RowRerun
<1>6. ~RowResumed(t)
  BY DEF RowResumed, RowsInductive, ReadIsGood, CallsEligible, Eligible, Occupied
<1>7. CASE RowEnded(t)
  <2>1. PICK state \in Observations \ {"UNKNOWN", "RUNNING"} :
            /\ at.id = t
            /\ \/ pc = "act" /\ state = observed
               \/ pc = "launch"
            /\ task'[t] = Finished(at, state)
    BY <1>7 DEF RowEnded
  <2>2. at \in Row
    BY <2>1 DEF RowsInductive, ReadIsGood, ReadRows
  <2>3. task'[t].state \notin Occupied
    BY <2>1, <2>2, FinishedRow DEF RowsInductive, ReadIsGood
  <2>. QED
    BY <2>1, <2>3
<1>. QED
  BY <1>3, <1>4, <1>5, <1>6, <1>7, NextRows DEF RowMoves, RowsInductive

\* The service does not make a task doubled or undo it.
LEMMA ServeDoubled ==
    ASSUME Serves, NEW t \in Tasks, ~Doubled(t)'
    PROVE  ~Doubled(t)
<1>1. \A n \in 1..MaxAttempts : <<t, n>> \in Attempts
  BY DEF Attempts
<1>2. \A n \in 1..MaxAttempts :
          worker'[<<t, n>>].doubled = worker[<<t, n>>].doubled
  BY <1>1 DEF Serves, ServedAttempt
<1>. QED
  BY <1>2 DEF Doubled

\* Slots are held while a supervisor lives or is on its way.
LEMMA ServeSlots ==
    ASSUME WorkerTypeOK, RowsInductive, RowsInductive', AttemptInductive,
           SlotInductive, Outside, Serves
    PROVE  SlotsHeld'
<1>1. ASSUME NEW b \in Attempts
      PROVE  /\ worker'[b].started = worker[b].started
             /\ worker'[b].supervisor = worker[b].supervisor
             /\ worker'[b].finished = worker[b].finished
             /\ worker'[b].doubled = worker[b].doubled
             /\ \/ worker'[b].pending = worker[b].pending
                \/ /\ b = AttemptOf(at) /\ ~worker[b].started
                   /\ \/ pc = "launch" /\ UNCHANGED task
                      \/ pc = "act" /\ observed = "UNKNOWN"
    BY DEF Serves, ServedAttempt
<1>2. ASSUME NEW b \in Attempts, ~worker'[b].doubled
      PROVE  DiedAlone(worker'[b])
  <2>1. DiedAlone(worker[b])
    BY <1>1, <1>2 DEF SlotInductive, SlotsHeld
  <2>. QED
    BY <1>1, <2>1 DEF DiedAlone
<1>3. ASSUME pc \in {"act", "launch"}
      PROVE  /\ AttemptOf(at) \in Attempts /\ at.id \in Tasks
             /\ AttemptOf(at) = AttemptOf(task[at.id])
             /\ task[at.id].state \in Occupied
             /\ AttemptOf(at)[1] = at.id
  <2>1. at \in Row /\ at.state \in Occupied /\ SameRow(at)
    BY <1>3 DEF RowsInductive, ReadIsGood, ReadRows, ReadsCurrent
  <2>2. /\ AttemptOf(at) \in Attempts /\ at.id \in Tasks
        /\ task[at.id].attempts = at.attempts /\ task[at.id].state \in Occupied
        /\ AttemptOf(at)[1] = at.id
    BY <2>1, CurrentRow
  <2>3. task[at.id].id = at.id
    BY <2>2 DEF RowsInductive, ReadIsGood, RowsTyped
  <2>. QED
    BY <2>2, <2>3 DEF AttemptOf
<1>4. ASSUME NEW b \in Attempts, ~worker'[b].doubled, CanRun(worker'[b])
      PROVE  HoldsSlot(b)'
  <2>. DEFINE t == b[1]
  <2>1. t \in Tasks
    BY DEF Attempts
  <2>2. task[t].state \in Occupied /\ b = AttemptOf(task[t])
    <3>1. CASE worker'[b].pending = worker[b].pending
      <4>1. CanRun(worker[b]) /\ ~worker[b].doubled
        BY <1>1, <1>4, <3>1 DEF CanRun
      <4>. QED
        BY <4>1 DEF SlotInductive, SlotsHeld, HoldsSlot
    <3>2. CASE b = AttemptOf(at) /\ pc \in {"act", "launch"}
      BY <1>3, <3>2
    <3>. QED
      BY <1>1, <3>1, <3>2
  <2>3. task[t].id = t /\ task'[t].id = t
    BY <2>1 DEF RowsInductive, ReadIsGood, RowsTyped
  <2>4. CASE task'[t].state \in Occupied /\ task'[t].attempts = task[t].attempts
    <3>1. AttemptOf(task[t])' = AttemptOf(task[t])
      BY <2>3, <2>4 DEF AttemptOf
    <3>. QED
      BY <2>2, <2>4, <3>1 DEF HoldsSlot
  <2>5. CASE /\ at.id = t /\ task'[t].state \notin Occupied
             /\ pc = "act" /\ observed \notin {"UNKNOWN", "RUNNING"}
    <3>1. b = AttemptOf(at)
      BY <1>3, <2>2, <2>5
    <3>2. ~CanRun(worker[b])
      BY <1>1, <1>4, <2>5, <3>1 DEF SlotInductive, SlotsHeld
    <3>3. worker'[b].pending = worker[b].pending
      BY <1>1, <2>5
    <3>. QED
      BY <1>1, <1>4, <3>2, <3>3 DEF CanRun
  <2>6. CASE at.id = t /\ task'[t].state \notin Occupied /\ pc = "launch"
    <3>1. b = AttemptOf(at)
      BY <1>3, <2>2, <2>6
    <3>2. ~CanRun(worker[b])
      BY <2>6, <3>1 DEF AttemptInductive, AttemptsRequested, NewAttempt, CanRun
    <3>3. task' # task
      BY <2>2, <2>6
    <3>4. worker'[b].pending = worker[b].pending
      BY <1>1, <2>6, <3>3
    <3>. QED
      BY <1>1, <1>4, <3>2, <3>4 DEF CanRun
  <2>. QED
    BY <2>1, <2>2, <2>4, <2>5, <2>6, OccupiedStays DEF Outside
<1>5. ASSUME pc' = "act", observed' \notin {"UNKNOWN", "RUNNING"},
             ~worker'[AttemptOf(at)'].doubled
      PROVE  ~CanRun(worker'[AttemptOf(at)'])
  <2>1. CASE pc = "act" /\ UNCHANGED <<at, observed>>
    <3>1. AttemptOf(at)' = AttemptOf(at) /\ AttemptOf(at) \in Attempts
      BY <1>3, <2>1 DEF AttemptOf
    <3>2. ~CanRun(worker[AttemptOf(at)])
      BY <1>1, <1>5, <2>1, <3>1 DEF SlotInductive, SlotsHeld
    <3>. QED
      BY <1>1, <1>5, <2>1, <3>1, <3>2 DEF CanRun
  <2>2. CASE ReconcileObserves
    <3>1. PICK row : row = Head(todo)
      OBVIOUS
    <3>. DEFINE b == AttemptOf(row)
    <3>2. row \in Row /\ row.state \in Occupied /\ SameRow(row)
      <4>1. todo \in Seq(Row) /\ todo # <<>> /\ pc = "reconcile"
        BY <2>2 DEF ReconcileObserves, RowsInductive, ReadIsGood, ReadRows
      <4>2. 1 \in DOMAIN todo /\ row = todo[1] /\ row \in Row
        BY <3>1, <4>1
      <4>3. row.state \in Occupied
        BY <2>2, <3>1 DEF ReconcileObserves
      <4>. QED
        BY <4>1, <4>2, <4>3 DEF RowsInductive, ReadsCurrent
    <3>3. observed' = Observe(b) /\ at' = row /\ pc = "reconcile"
      BY <1>5, <2>2, <3>1 DEF ReconcileObserves, Observes
    <3>4. b \in Attempts /\ AttemptOf(at)' = b
      BY <3>2, <3>3, CurrentRow DEF AttemptOf
    <3>. HIDE DEF b
    <3>5. worker'[b].pending = worker[b].pending /\ ~worker[b].doubled
      BY <1>1, <1>5, <3>3, <3>4
    <3>6. ~CanRun(worker[b])
      <4>1. CASE worker[b].finished = "none"
        <5>1. worker[b].started /\ worker[b].supervisor = "none"
          BY <1>5, <3>3, <4>1 DEF Observe, ObserveUnfinished
        <5>2. worker[b].pending = 0
          BY <3>4, <3>5, <4>1, <5>1 DEF SlotInductive, SlotsHeld, DiedAlone
        <5>. QED
          BY <5>1, <5>2 DEF CanRun
      <4>2. CASE worker[b].finished # "none"
        BY <4>2 DEF CanRun
      <4>. QED
        BY <4>1, <4>2
    <3>. QED
      BY <1>1, <3>4, <3>5, <3>6 DEF CanRun
  <2>. QED
    BY <1>5, <2>1, <2>2, ActStep
<1>6. ASSUME NEW b \in Attempts, ~worker'[b].doubled
      PROVE  DiedAlone(worker'[b]) /\ (CanRun(worker'[b]) => HoldsSlot(b)')
  BY <1>2, <1>4, <1>6
<1>. QED
  BY <1>5, <1>6 DEF SlotsHeld


\* A run that was given up stays so.
LEMMA GivenUpStays ==
    ASSUME RowsInductive, [Next]_vars, NEW t \in Tasks, NEW k \in Nat,
           GivenUp(t, k)
    PROVE  GivenUp(t, k)'
<1>. DEFINE old == task[t]
            new == task'[t]
<1>1. /\ old.run \in Nat /\ new.run \in Nat /\ new.run >= old.run
      /\ old \in Row /\ old.id = t
  BY RowGrows DEF RowsInductive, ReadIsGood, RowsTyped
<1>2. CASE k < old.run
  BY <1>1, <1>2 DEF GivenUp
<1>3. CASE k = old.run /\ old.state = "CANCELLED"
  <2>1. old.state \notin Occupied \cup Waiting
    BY <1>3 DEF Occupied, Waiting
  <2>2. CASE new = old
    BY <1>3, <2>2 DEF GivenUp
  <2>3. CASE RowStays(t)
    <3>1. new.state = old.state
      BY <1>3, <2>1, <2>3 DEF RowStays
    <3>2. new.run = old.run
      BY <1>1, <2>3 DEF RowStays, Row
    <3>. QED
      BY <1>3, <3>1, <3>2 DEF GivenUp
  <2>4. ~RowClaimed(t)
    BY <2>1 DEF RowClaimed
  <2>5. ~RowResumed(t)
    BY <1>3 DEF RowResumed, RowsInductive, ReadIsGood, CallsEligible, Eligible
  <2>6. CASE RowRerun(t)
    <3>1. new.run = old.run + 1
      BY <1>1, <2>6 DEF RowRerun, Row
    <3>. QED
      BY <1>1, <1>3, <3>1 DEF GivenUp
  <2>7. ~RowEnded(t)
    <3>1. SUFFICES ASSUME pc \in {"act", "launch"}, at.id = t PROVE FALSE
      BY DEF RowEnded
    <3>2. at \in Row /\ at.state \in Occupied /\ SameRow(at)
      BY <3>1 DEF RowsInductive, ReadIsGood, ReadRows, ReadsCurrent
    <3>. QED
      BY <2>1, <3>1, <3>2, CurrentRow
  <2>. QED
    BY <2>2, <2>3, <2>4, <2>5, <2>6, <2>7, NextRows DEF RowMoves, RowsInductive
<1>. QED
  BY <1>2, <1>3 DEF GivenUp

\* While it reconciles, the service has rows read at the beginning.
LEMMA TodoStep ==
    ASSUME Outside, pc' \in {"reconcile", "act", "abort"}
    PROVE  \/ /\ pc \in {"reconcile", "act", "abort"}
              /\ todo' = todo \/ (todo # <<>> /\ todo' = Tail(todo))
           \/ todo' = Rows /\ UNCHANGED task
<1>1. CASE Service
  <2>1. CASE ReconcilePasses \/ ReconcileAborts \/ ReconcileObserves
    BY <2>1 DEF ReconcilePasses, ReconcileAborts, ReconcileObserves, ServiceEnds
  <2>2. CASE ActUnknown \/ ActRunning
    BY <2>2 DEF ActUnknown, ActRunning, UpdateOrEnd, Continue, ServiceEnds
  <2>3. CASE ActFinish \/ FinishAborts
    BY <2>3 DEF ActFinish, Finish, FinishAborts, Continue, ServiceEnds
  <2>4. CASE Invalidate \/ InvalidateEnds \/ DispatchPasses
    BY <2>4 DEF Invalidate, InvalidateEnds, DispatchPasses
  <2>5. CASE DispatchLaunches \/ TickEnds
    BY <2>5 DEF DispatchLaunches, TickEnds, Continue, StartTick, ServiceEnds
  <2>6. ASSUME NEW t \in Tasks,
               MarkInvalid(t) \/ DispatchSkips(t) \/ DispatchClaims(t)
        PROVE  FALSE
    BY <2>6 DEF MarkInvalid, DispatchSkips, DispatchClaims, ServiceEnds
  <2>. QED
    BY <1>1, <2>1, <2>2, <2>3, <2>4, <2>5, <2>6 DEF Service
<1>2. ASSUME NEW o \in Ops, User(o) PROVE UNCHANGED <<pc, todo>>
  BY <1>2 DEF User, OperateInspects, OperateResumes, OperateAborts,
     OperateCancels, OperateReruns, service
<1>3. CASE ServiceStarts \/ DispatchFails \/ ServiceCrashes
  BY <1>3 DEF ServiceStarts, DispatchFails, ServiceCrashes, StartTick,
     ServiceEnds, Finish, Continue
<1>4. ASSUME NEW r \in Runs, Contaminates(r) PROVE UNCHANGED <<pc, todo>>
  BY <1>4 DEF Contaminates, service
<1>5. CASE UNCHANGED vars
  BY <1>5 DEF vars, service
<1>. QED
  BY <1>1, <1>2, <1>3, <1>4, <1>5 DEF Outside, Next

\* It aborts a run after it has recorded the cancellation.
LEMMA AbortStep ==
    ASSUME Outside, RowsInductive, pc' \in {"abort", "undo"}
    PROVE  \/ pc \in {"abort", "undo"} /\ UNCHANGED at
           \/ /\ at'.state = "CANCELLED" /\ at'.id \in Tasks /\ at' \in Row
              /\ task'[at'.id] = at'
<1>1. ASSUME at \in Row, NEW state \in Observations \ {"UNKNOWN", "RUNNING"},
             NEW loop \in {"reconcile", "dispatch"}, NEW abort,
             Finish(state, loop, abort)
      PROVE  /\ at'.state = "CANCELLED" /\ at'.id \in Tasks /\ at' \in Row
             /\ task'[at'.id] = at'
  <2>. DEFINE row == Finished(at, state)
  <2>1. row \in Row /\ row.id \in Tasks
    BY <1>1, FinishedRow DEF RowsInductive, ReadIsGood, Row
  <2>. HIDE DEF row
  <2>2. Update(row)
    BY <1>1 DEF Finish, row
  <2>3. IF row.state = "CANCELLED" THEN at' = row ELSE pc' = loop
    BY <1>1 DEF Finish, Continue, row
  <2>4. at' = row /\ row.state = "CANCELLED"
    BY <1>1, <2>3
  <2>5. task'[row.id] = row
    BY <2>1, <2>2 DEF Update, RowsInductive, ReadIsGood, RowsTyped
  <2>. QED
    BY <2>1, <2>4, <2>5
<1>2. CASE Service
  <2>1. CASE ReconcilePasses \/ ReconcileAborts \/ ReconcileObserves
    BY <2>1 DEF ReconcilePasses, ReconcileAborts, ReconcileObserves, ServiceEnds
  <2>2. CASE ActUnknown \/ ActRunning
    BY <2>2 DEF ActUnknown, ActRunning, UpdateOrEnd, Continue, ServiceEnds
  <2>3. CASE ActFinish
    <3>1. at \in Row /\ observed \in Observations \ {"UNKNOWN", "RUNNING"}
      BY <2>3 DEF ActFinish, RowsInductive, ReadIsGood, ReadRows
    <3>2. PICK state : state = observed
      OBVIOUS
    <3>3. Finish(state, "reconcile", "abort")
      BY <2>3, <3>2 DEF ActFinish
    <3>. QED
      BY <1>1, <3>1, <3>2, <3>3
  <2>4. CASE FinishAborts
    BY <2>4 DEF FinishAborts, Continue, ServiceEnds
  <2>5. CASE Invalidate \/ InvalidateEnds \/ DispatchPasses
    BY <2>5 DEF Invalidate, InvalidateEnds, DispatchPasses
  <2>6. CASE DispatchLaunches \/ TickEnds
    BY <2>6 DEF DispatchLaunches, TickEnds, Continue, StartTick, ServiceEnds
  <2>7. ASSUME NEW t \in Tasks,
               MarkInvalid(t) \/ DispatchSkips(t) \/ DispatchClaims(t)
        PROVE  FALSE
    BY <2>7 DEF MarkInvalid, DispatchSkips, DispatchClaims, ServiceEnds
  <2>. QED
    BY <1>2, <2>1, <2>2, <2>3, <2>4, <2>5, <2>6, <2>7 DEF Service
<1>3. ASSUME NEW o \in Ops, User(o) PROVE UNCHANGED <<pc, at>>
  BY <1>3 DEF User, OperateInspects, OperateResumes, OperateAborts,
     OperateCancels, OperateReruns, service
<1>4. CASE ServiceStarts \/ ServiceCrashes
  BY <1>4 DEF ServiceStarts, ServiceCrashes, StartTick, ServiceEnds
<1>5. CASE DispatchFails
  <2>1. at \in Row
    BY <1>5 DEF DispatchFails, RowsInductive, ReadIsGood, ReadRows
  <2>2. PICK state \in {"LOST", "FAILED"} : Finish(state, "dispatch", "undo")
    BY <1>5 DEF DispatchFails
  <2>3. state \in Observations \ {"UNKNOWN", "RUNNING"}
    BY DEF Observations
  <2>. QED
    BY <1>1, <2>1, <2>2, <2>3
<1>6. ASSUME NEW r \in Runs, Contaminates(r) PROVE UNCHANGED <<pc, at>>
  BY <1>6 DEF Contaminates, service
<1>7. CASE UNCHANGED vars
  BY <1>7 DEF vars, service
<1>. QED
  BY <1>2, <1>3, <1>4, <1>5, <1>6, <1>7 DEF Outside, Next

\* What a step leaves of a user's operation.
LEMMA CallKept ==
    ASSUME RowsInductive, Outside, NEW o \in Ops, call'[o] # NoCall
    PROVE  \/ /\ call'[o] = call[o]
              /\ call[o].action \in Resumes =>
                     task'[call[o].task] = task[call[o].task]
           \/ /\ UNCHANGED <<worker, run, task>>
              /\ call'[o].action \in
                     Inspect(RunDir(task[call'[o].task])).actions
              /\ call'[o].action \in Resumes
           \/ /\ call'[o].action = "cancel" /\ call'[o].task \in Tasks
              /\ call'[o].run = task'[call'[o].task].run
              /\ task'[call'[o].task].state = "CANCELLED"
<1>. DEFINE Same == /\ call'[o] = call[o]
                    /\ call[o].action \in Resumes =>
                           task'[call[o].task] = task[call[o].task]
<1>1. \A t : Unaffected(t)[o] # NoCall =>
          /\ Unaffected(t)[o] = call[o]
          /\ call[o].action \in Resumes => call[o].task # t
  BY DEF Unaffected
<1>2. call[o] # NoCall => call[o].task \in Tasks
  BY DEF RowsInductive, ReadIsGood, CallsEligible, CallRow
<1>3. task \in [Tasks -> Row] /\ call \in [Ops -> CallRow \cup {NoCall}]
      /\ \A t \in Tasks : task[t].id = t
  BY DEF RowsInductive, ReadIsGood, RowsTyped, CallsEligible
<1>4. ASSUME NEW row, Update(row) PROVE Same
  <2>1. call'[o] = call[o] /\ (call[o].action \in Resumes => call[o].task # row.id)
    BY <1>1, <1>4 DEF Update
  <2>. QED
    BY <1>2, <1>3, <1>4, <2>1 DEF Update
<1>5. CASE UNCHANGED <<task, call>>
  BY <1>5
<1>6. CASE Service
  <2>1. CASE ActUnknown \/ ActRunning
    BY <2>1, <1>4, <1>5 DEF ActUnknown, ActRunning, UpdateOrEnd, NoUpdate
  <2>2. CASE ActFinish
    BY <2>2, <1>4 DEF ActFinish, Finish
  <2>3. ASSUME NEW t \in Tasks,
               MarkInvalid(t) \/ DispatchSkips(t) \/ DispatchClaims(t)
        PROVE  Same
    BY <2>3, <1>4, <1>5 DEF MarkInvalid, DispatchSkips, DispatchClaims, NoUpdate
  <2>4. CASE ReconcilePasses \/ ReconcileAborts \/ ReconcileObserves
             \/ FinishAborts \/ Invalidate \/ InvalidateEnds \/ DispatchPasses
             \/ DispatchLaunches \/ TickEnds
    BY <2>4, <1>5 DEF ReconcilePasses, ReconcileAborts,
        ReconcileObserves, FinishAborts, Invalidate,
        InvalidateEnds, DispatchPasses, DispatchLaunches, TickEnds, users
  <2>. QED
    BY <1>6, <2>1, <2>2, <2>3, <2>4 DEF Service
<1>7. CASE DispatchFails
  BY <1>4, <1>7 DEF DispatchFails, Finish
<1>8. CASE ServiceStarts \/ ServiceCrashes
  BY <1>5, <1>8 DEF ServiceStarts, ServiceCrashes, users
<1>9. ASSUME NEW r \in Runs, Contaminates(r) PROVE Same
  BY <1>5, <1>9 DEF Contaminates, users
<1>10. CASE UNCHANGED vars
  BY <1>5, <1>10 DEF vars, users
<1>11. ASSUME NEW p \in Ops, OperateInspects(p)
       PROVE  \/ Same
              \/ /\ UNCHANGED <<worker, run, task>>
                 /\ call'[o].action \in
                        Inspect(RunDir(task[call'[o].task])).actions
                 /\ call'[o].action \in Resumes
  <2>1. PICK t \in Tasks, action \in Resumes :
            /\ action \in Inspect(RunDir(task[t])).actions
            /\ call' = [call EXCEPT ![p] = [task |-> t, action |-> action,
                                            run |-> task[t].run]]
            /\ UNCHANGED <<worker, run, task>>
    BY <1>11 DEF OperateInspects
  <2>2. CASE o = p
    BY <1>3, <2>1, <2>2
  <2>3. CASE o # p
    BY <1>3, <2>1, <2>3
  <2>. QED
    BY <2>2, <2>3
<1>12. ASSUME NEW p \in Ops, OperateAborts(p) PROVE Same
  <2>1. call' = [call EXCEPT ![p] = NoCall] /\ task' = task
    BY <1>12 DEF OperateAborts
  <2>2. o # p
    BY <1>3, <2>1
  <2>. QED
    BY <1>3, <2>1, <2>2
<1>13. ASSUME NEW p \in Ops, OperateResumes(p) \/ \E t \in Tasks : OperateReruns(p, t)
       PROVE  Same
  BY <1>4, <1>13 DEF OperateResumes, OperateReruns
<1>14. ASSUME NEW p \in Ops, NEW t \in Tasks, OperateCancels(p, t)
       PROVE  \/ Same
              \/ /\ call'[o].action = "cancel" /\ call'[o].task \in Tasks
                 /\ call'[o].run = task'[call'[o].task].run
                 /\ task'[call'[o].task].state = "CANCELLED"
  <2>. DEFINE row == task[t]
              state == IF row.state \in Occupied THEN "CANCEL_REQUESTED"
                       ELSE IF row.state \in Terminal THEN row.state
                       ELSE "CANCELLED"
              kept == IF row.state = state THEN call ELSE Unaffected(t)
              mine == [task |-> t, action |-> "cancel", run |-> row.run]
              new == [row EXCEPT !.state = state]
  <2>1. /\ task' = [task EXCEPT ![t].state = state]
        /\ call' = IF state # "CANCELLED" THEN kept ELSE [kept EXCEPT ![p] = mine]
    BY <1>14 DEF OperateCancels
  <2>2. row \in Row /\ kept \in [Ops -> CallRow \cup {NoCall}]
    BY <1>3 DEF Unaffected
  <2>3. new.state = state /\ new.run = row.run /\ (row.state = state => new = row)
    BY <2>2 DEF Row
  <2>4. task' = [task EXCEPT ![t] = new]
    BY <2>1
  <2>5. mine.action = "cancel" /\ mine.task = t /\ mine.run = row.run
    OBVIOUS
  <2>6. kept[o] # NoCall =>
            /\ kept[o] = call[o]
            /\ row.state = state \/ (call[o].action \in Resumes => call[o].task # t)
    BY <1>1
  <2>. HIDE DEF row, state, kept, mine, new
  <2>7. CASE call'[o] = kept[o]
    <3>1. CASE row.state = state
      <4>1. task' = task
        BY <1>3, <2>3, <2>4, <3>1 DEF row
      <4>. QED
        BY <2>6, <2>7, <4>1
    <3>2. CASE row.state # state
      BY <1>2, <1>3, <2>4, <2>6, <2>7, <3>2
    <3>. QED
      BY <3>1, <3>2
  <2>8. CASE call'[o] # kept[o]
    <3>1. o = p /\ state = "CANCELLED" /\ call'[o] = mine
      BY <2>1, <2>2, <2>8
    <3>2. task'[t].run = row.run /\ task'[t].state = "CANCELLED"
      BY <1>3, <2>3, <2>4, <3>1
    <3>. QED
      BY <2>5, <3>1, <3>2
  <2>. QED
    BY <2>7, <2>8
<1>15. ASSUME NEW p \in Ops, User(p)
       PROVE  \/ OperateInspects(p) \/ OperateAborts(p) \/ OperateResumes(p)
              \/ \E t \in Tasks : OperateReruns(p, t)
              \/ \E t \in Tasks : OperateCancels(p, t)
  BY <1>15 DEF User
<1>. QED
  BY <1>6, <1>7, <1>8, <1>9, <1>10, <1>11, <1>12, <1>13, <1>14, <1>15
  DEF Outside, Next

\* Only runs that were given up wait to be aborted.
LEMMA ServeGivenUp ==
    ASSUME RowsInductive, RowsInductive', SlotInductive, Outside
    PROVE  AbortsGivenUp'
<1>1. \A t \in Tasks, k \in Nat : GivenUp(t, k) => GivenUp(t, k)'
  BY GivenUpStays DEF Outside
<1>2. ASSUME pc' \in {"reconcile", "act", "abort"}, NEW i \in DOMAIN todo',
             todo'[i].state = "CANCELLED"
      PROVE  GivenUp(todo[i].id, todo[i].run)'
  <2>1. todo' \in Seq(Row)
    BY <1>2 DEF RowsInductive, ReadIsGood, ReadRows
  <2>2. todo'[i].id \in Tasks /\ todo'[i].run \in Nat
    <3>1. PICK rows : rows = todo'
      OBVIOUS
    <3>2. rows \in Seq(Row) /\ i \in DOMAIN rows
      BY <1>2, <2>1, <3>1
    <3>3. rows[i] \in Row
      BY <3>2
    <3>. QED
      BY <3>1, <3>3 DEF Row
  <2>3. PICK t, k : t = todo'[i].id /\ k = todo'[i].run
    OBVIOUS
  <2>4. CASE pc \in {"reconcile", "act", "abort"}
             /\ (todo' = todo \/ (todo # <<>> /\ todo' = Tail(todo)))
    <3>1. \E j \in DOMAIN todo : todo[j] = todo'[i]
      <4>1. todo \in Seq(Row)
        BY <2>4 DEF RowsInductive, ReadIsGood, ReadRows
      <4>2. CASE todo' = todo
        BY <1>2, <4>2
      <4>3. CASE todo # <<>> /\ todo' = Tail(todo)
        <5>1. /\ Len(todo) \in Nat /\ DOMAIN todo = 1..Len(todo)
              /\ DOMAIN Tail(todo) = 1..(Len(todo) - 1)
              /\ \A j \in 1..(Len(todo) - 1) : Tail(todo)[j] = todo[j + 1]
          BY <4>1, <4>3, HeadTailProperties
        <5>2. i \in 1..(Len(todo) - 1)
          BY <1>2, <4>3, <5>1
        <5>3. i + 1 \in DOMAIN todo /\ todo'[i] = todo[i + 1]
          BY <4>3, <5>1, <5>2
        <5>. QED
          BY <5>3
      <4>. QED
        BY <2>4, <4>2, <4>3
    <3>2. GivenUp(t, k)
      BY <1>2, <2>3, <2>4, <3>1 DEF SlotInductive, AbortsGivenUp
    <3>. QED
      BY <1>1, <2>2, <2>3, <3>2
  <2>5. CASE todo' = Rows /\ UNCHANGED task
    <3>1. DOMAIN Rows = DOMAIN Order /\ \A j \in DOMAIN Order : Order[j] \in Tasks
      BY SchedulerAssumption DEF Rows
    <3>2. todo'[i] = task[Order[i]] /\ Order[i] \in Tasks
      BY <1>2, <2>5, <3>1 DEF Rows
    <3>3. t = Order[i] /\ k = task[t].run /\ task[t].state = "CANCELLED"
      BY <1>2, <2>3, <3>2 DEF RowsInductive, ReadIsGood, RowsTyped
    <3>. QED
      BY <2>3, <2>5, <3>3 DEF GivenUp
  <2>. QED
    BY <1>2, <2>4, <2>5, TodoStep
<1>3. ASSUME pc' \in {"abort", "undo"}
      PROVE  at' \in Row /\ GivenUp(at.id, at.run)'
  <2>1. CASE pc \in {"abort", "undo"} /\ UNCHANGED at
    <3>1. at \in Row /\ GivenUp(at.id, at.run)
      BY <2>1 DEF SlotInductive, AbortsGivenUp
    <3>2. PICK t, k : t = at.id /\ k = at.run
      OBVIOUS
    <3>3. t \in Tasks /\ k \in Nat
      BY <3>1, <3>2 DEF Row
    <3>4. GivenUp(t, k)'
      BY <1>1, <3>1, <3>2, <3>3
    <3>. QED
      BY <2>1, <3>1, <3>2, <3>4
  <2>2. CASE /\ at'.state = "CANCELLED" /\ at'.id \in Tasks /\ at' \in Row
             /\ task'[at'.id] = at'
    BY <2>2 DEF GivenUp
  <2>. QED
    BY <1>3, <2>1, <2>2, AbortStep
<1>4. ASSUME NEW o \in Ops, call'[o] # NoCall, call'[o].action = "cancel"
      PROVE  GivenUp(call[o].task, call[o].run)'
  <2>1. CASE call'[o] = call[o]
    <3>1. GivenUp(call[o].task, call[o].run)
      BY <1>4, <2>1 DEF SlotInductive, AbortsGivenUp
    <3>2. call[o].task \in Tasks /\ call[o].run \in Nat
      BY <1>4, <2>1 DEF RowsInductive, ReadIsGood, CallsEligible, CallRow
    <3>3. PICK t, k : t = call[o].task /\ k = call[o].run
      OBVIOUS
    <3>4. GivenUp(t, k)'
      BY <1>1, <3>1, <3>2, <3>3
    <3>. QED
      BY <2>1, <3>3, <3>4
  <2>2. CASE /\ call'[o].run = task'[call'[o].task].run
             /\ task'[call'[o].task].state = "CANCELLED"
    BY <2>2 DEF GivenUp
  <2>3. call'[o].action \notin Resumes
    BY <1>4 DEF Resumes
  <2>. QED
    BY <1>4, <2>1, <2>2, <2>3, CallKept
<1>. QED
  BY <1>2, <1>3, <1>4 DEF AbortsGivenUp

\* Only such runs are aborted.
LEMMA AbortedGivenUp ==
    ASSUME RowsInductive, SlotInductive, Outside, NEW r \in Runs, run'[r] # run[r]
    PROVE  GivenUp(r[1], r[2])
<1>1. \A q : AbortRun(q) => q = r
  BY DEF AbortRun
<1>2. CASE ReconcileAborts
  <2>1. RunDir(Head(todo)) = r
    BY <1>1, <1>2 DEF ReconcileAborts
  <2>2. todo \in Seq(Row) /\ todo # <<>> /\ pc = "reconcile"
        /\ Head(todo).state = "CANCELLED"
    BY <1>2 DEF ReconcileAborts, Unaborted, RowsInductive, ReadIsGood, ReadRows
  <2>3. 1 \in DOMAIN todo /\ Head(todo) = todo[1]
    BY <2>2
  <2>4. GivenUp(todo[1].id, todo[1].run)
    BY <2>2, <2>3 DEF SlotInductive, AbortsGivenUp
  <2>. QED
    BY <2>1, <2>3, <2>4 DEF RunDir
<1>3. CASE FinishAborts
  <2>1. RunDir(at) = r
    BY <1>1, <1>3 DEF FinishAborts
  <2>2. GivenUp(at.id, at.run)
    BY <1>3 DEF FinishAborts, SlotInductive, AbortsGivenUp
  <2>. QED
    BY <2>1, <2>2 DEF RunDir
<1>4. ASSUME NEW o \in Ops, OperateAborts(o) PROVE GivenUp(r[1], r[2])
  <2>1. <<call[o].task, call[o].run>> = r
    BY <1>1, <1>4 DEF OperateAborts
  <2>2. GivenUp(call[o].task, call[o].run)
    BY <1>4 DEF OperateAborts, SlotInductive, AbortsGivenUp
  <2>. QED
    BY <2>1, <2>2
<1>5. CASE Service
  <2>1. ASSUME NEW t \in Tasks,
               MarkInvalid(t) \/ DispatchSkips(t) \/ DispatchClaims(t)
        PROVE  FALSE
    BY <2>1 DEF MarkInvalid, DispatchSkips, DispatchClaims
  <2>. QED
    BY <1>2, <1>3, <1>5, <2>1
    DEF Service, ReconcilePasses, ReconcileObserves, ActUnknown, ActRunning,
        ActFinish, Invalidate, InvalidateEnds, DispatchPasses,
        DispatchLaunches, TickEnds
<1>6. ASSUME NEW o \in Ops, User(o) PROVE GivenUp(r[1], r[2])
  BY <1>4, <1>6 DEF User, OperateInspects, OperateResumes, OperateCancels,
     OperateReruns
<1>. QED
  BY <1>5, <1>6 DEF Outside, Next, vars, ServiceStarts, DispatchFails,
     ServiceCrashes, Contaminates

\* The run of a task that was not cancelled is as inspect() saw it.
LEMMA ServeInspect ==
    ASSUME WorkerTypeOK, RowsInductive, AttemptInductive, SlotInductive,
           Outside, Serves, NEW t \in Tasks, task[t].state # "CANCELLED"
    PROVE  LET r == RunDir(task[t]) IN
           /\ r \in Runs
           /\ \A q : q = r => Inspect(q)' = Inspect(r)
           /\ run'[r] = run[r]
<1>1. task[t] \in Task /\ task[t].id = t
  BY RowsBounded DEF RowsInductive, ReadIsGood, RowsTyped
<1>2. PICK r : r = RunDir(task[t])
  OBVIOUS
<1>3. r \in Runs /\ r[1] = t /\ r[2] = task[t].run
  BY <1>1, <1>2 DEF RunDir, Runs, Task
<1>4. ~GivenUp(t, r[2])
  <2>1. task[t].run \in Nat
    BY RowsBounded, WorkerAssumption DEF Task
  <2>. QED
    BY <1>3, <2>1 DEF GivenUp
<1>5. run'[r] = run[r]
  BY <1>3, <1>4, AbortedGivenUp
<1>6. Executing(r)' <=> Executing(r)
  BY <1>3, ServeKeeps
<1>7. Inspect(r)' = Inspect(r)
  BY <1>5, <1>6, InspectStays
<1>. QED
  BY <1>2, <1>3, <1>5, <1>7

\* An operation without conflict is still allowed.
LEMMA ServeAllowed ==
    ASSUME WorkerTypeOK, RowsInductive, AttemptInductive, SlotInductive,
           Outside, Serves
    PROVE  CallsAllowed'
<1>. SUFFICES ASSUME NEW o \in Ops, call'[o] # NoCall, call'[o].action \in Resumes,
                     ~Doubled(call[o].task)'
              PROVE  call'[o].action \in Inspect(RunDir(task[call[o].task]))'.actions
  BY DEF CallsAllowed
<1>1. PICK t : t = call'[o].task
  OBVIOUS
<1>2. CASE /\ call'[o] = call[o]
           /\ task'[call[o].task] = task[call[o].task]
  <2>1. t \in Tasks /\ task[t].state # "CANCELLED"
    BY <1>1, <1>2
    DEF RowsInductive, ReadIsGood, CallsEligible, CallRow, Eligible
  <2>2. PICK q : q = RunDir(task[t])
    OBVIOUS
  <2>3. Inspect(q)' = Inspect(RunDir(task[t]))
    BY <2>1, <2>2, ServeInspect
  <2>4. RunDir(task[call[o].task])' = q
    BY <1>1, <1>2, <2>2 DEF RunDir
  <2>5. Inspect(RunDir(task[call[o].task]))' = Inspect(q)'
    BY <2>4
  <2>6. ~Doubled(t)
    BY <1>1, <1>2, <2>1, ServeDoubled
  <2>7. call[o].action \in Inspect(RunDir(task[t])).actions
    BY <1>1, <1>2, <2>6 DEF SlotInductive, CallsAllowed
  <2>. QED
    BY <1>2, <2>3, <2>5, <2>7
<1>3. CASE /\ UNCHANGED <<worker, run, task>>
           /\ call'[o].action \in Inspect(RunDir(task[call'[o].task])).actions
  <2>1. PICK q : q = RunDir(task[t])
    OBVIOUS
  <2>2. RunDir(task[call[o].task])' = q
    BY <1>1, <1>3, <2>1 DEF RunDir
  <2>3. Inspect(q)' = Inspect(q)
    <3>1. Executing(q)' <=> Executing(q)
      BY <1>3 DEF Executing, RunOf
    <3>. QED
      BY <1>3, <3>1, InspectStays
  <2>4. Inspect(RunDir(task[call[o].task]))' = Inspect(q)'
    BY <2>2
  <2>. QED
    BY <1>1, <1>3, <2>1, <2>3, <2>4
<1>. QED
  BY <1>2, <1>3, CallKept DEF Resumes

\* What begins to wait, or goes on to wait, can be carried out.
LEMMA ServeWaiting ==
    ASSUME WorkerTypeOK, RowsInductive, AttemptInductive, SlotInductive,
           Outside, Serves, task' \in [Tasks -> Task]
    PROVE  WaitingCanRun'
<1>. SUFFICES ASSUME NEW t \in Tasks, task'[t].state \in Waiting, ~Doubled(t)'
     PROVE  IF task'[t].operation = "start"
            THEN ~run'[RunDir(task[t])'].created
            ELSE task'[t].operation \in Inspect(RunDir(task[t]))'.actions
  BY DEF WaitingCanRun
<1>. DEFINE old == task[t]
            new == task'[t]
<1>0. ~Doubled(t)
  BY ServeDoubled
<1>1. old \in Row /\ old.id = t
  BY DEF RowsInductive, ReadIsGood, RowsTyped
<1>2. PICK q : q = RunDir(old)
  OBVIOUS
<1>3. ASSUME old.state # "CANCELLED"
      PROVE  q \in Runs /\ Inspect(q)' = Inspect(q) /\ run'[q] = run[q]
  BY <1>2, <1>3, ServeInspect
<1>4. ASSUME new.run = old.run, new.id = old.id PROVE RunDir(task[t])' = q
  BY <1>2, <1>4 DEF RunDir
<1>5. ASSUME new.run = old.run, new.id = old.id, old.state # "CANCELLED",
             IF new.operation = "start" THEN ~run[q].created
             ELSE new.operation \in Inspect(q).actions
      PROVE  IF new.operation = "start" THEN ~run'[RunDir(task[t])'].created
             ELSE new.operation \in Inspect(RunDir(task[t]))'.actions
  <2>1. Inspect(RunDir(task[t]))' = Inspect(q)'
    BY <1>4, <1>5
  <2>. QED
    BY <1>3, <1>4, <1>5, <2>1
<1>6. CASE task'[t] = task[t] \/ RowStays(t)
  <2>1. new.state = old.state
    BY <1>6 DEF RowStays, Waiting, Occupied
  <2>2. /\ new.run = old.run /\ new.id = old.id
        /\ new.operation = old.operation
    BY <1>1, <1>6 DEF RowStays, Row
  <2>3. IF old.operation = "start" THEN ~run[q].created
        ELSE old.operation \in Inspect(q).actions
    BY <1>0, <1>2, <2>1 DEF SlotInductive, WaitingCanRun
  <2>4. old.state # "CANCELLED"
    BY <2>1 DEF Waiting
  <2>. QED
    BY <1>5, <2>2, <2>3, <2>4
<1>7. ~RowClaimed(t)
  <2>1. Claimed(old).state = "STARTING"
    BY <1>1 DEF Claimed, Row
  <2>. QED
    BY <2>1 DEF RowClaimed, Waiting
<1>8. CASE RowResumed(t)
  <2>1. PICK o \in Ops :
            /\ call[o] # NoCall /\ call[o].action \in Resumes
            /\ call[o].task = t
            /\ new = [old EXCEPT !.state = "QUEUED",
                                 !.operation = call[o].action]
    BY <1>8 DEF RowResumed
  <2>2. /\ new.run = old.run /\ new.id = old.id
        /\ new.operation = call[o].action
    BY <1>1, <2>1 DEF Row
  <2>3. call[o].action \in Inspect(q).actions
    BY <1>0, <1>2, <2>1 DEF SlotInductive, CallsAllowed
  <2>4. old.state # "CANCELLED"
    BY <2>1 DEF RowsInductive, ReadIsGood, CallsEligible, Eligible
  <2>5. call[o].action # "start"
    BY <2>1 DEF Resumes
  <2>. QED
    BY <1>5, <2>2, <2>3, <2>4, <2>5
<1>9. CASE RowRerun(t)
  <2>1. /\ new = [old EXCEPT !.state = "QUEUED", !.run = @ + 1,
                             !.operation = "start", !.valid = TRUE,
                             !.converged = FALSE]
        /\ UNCHANGED <<worker, run>>
    BY <1>9 DEF RowRerun
  <2>2. /\ new.run = old.run + 1 /\ new.id = t
        /\ new.operation = "start"
    BY <1>1, <2>1 DEF Row
  <2>3. PICK r : r = <<t, old.run + 1>>
    OBVIOUS
  <2>4. r \in Runs /\ r[1] = t /\ r[2] > task[t].run
    <3>1. new \in Task /\ old.run \in Nat
      BY <1>1 DEF Row
    <3>2. old.run + 1 \in 0..MaxReruns
      BY <2>2, <3>1 DEF Task
    <3>. QED
      BY <2>3, <3>1, <3>2 DEF Runs
  <2>5. run[r] = NewDirectory
    BY <2>4 DEF AttemptInductive, RunsBegun
  <2>6. RunDir(task[t])' = r
    BY <2>2, <2>3 DEF RunDir
  <2>. QED
    BY <2>1, <2>2, <2>5, <2>6 DEF NewDirectory
<1>10. CASE RowEnded(t)
  <2>1. PICK state \in Observations \ {"UNKNOWN", "RUNNING"} :
            /\ at.id = t
            /\ \/ pc = "act" /\ state = observed
               \/ pc = "launch" /\ state \in {"LOST", "FAILED"}
            /\ task'[t] = Finished(at, state)
    BY <1>10 DEF RowEnded
  <2>2. at \in Row /\ SameRow(at) /\ at.state \in Occupied
    BY <2>1 DEF RowsInductive, ReadIsGood, ReadRows, ReadsCurrent
  <2>3. old.state \in Occupied /\ old.run = at.run
    BY <2>1, <2>2, CurrentRow
  <2>4. state \notin Waiting
    BY DEF Observations, Waiting
  <2>5. new.state = "RETRY_WAIT"
    BY <2>1, <2>2, <2>4, FinishedKeeps
    DEF RowsInductive, ReadIsGood, Waiting
  <2>6. new.run = old.run /\ new.operation \in Recovery(at)
    BY <2>1, <2>2, <2>5, FinishedKeeps DEF RowsInductive, ReadIsGood
  <2>7. RunDir(at) = q
    BY <1>1, <1>2, <2>1, <2>3 DEF RunDir
  <2>8. old.state # "CANCELLED"
    BY <2>3 DEF Occupied
  <2>9. new.id = old.id
    BY <1>1, RowsBounded, <2>1 DEF Finished, Task
  <2>10. IF new.operation = "start" THEN ~run[q].created
         ELSE new.operation \in Inspect(q).actions
    <3>1. CASE run[q].lifecycle = "none"
      <4>1. new.operation = "start"
        BY <2>6, <2>7, <3>1 DEF Recovery
      <4>2. run[q] = NewDirectory
        BY <1>3, <2>8, <3>1 DEF AttemptInductive, RunsBegun
      <4>. QED
        BY <4>1, <4>2 DEF NewDirectory
    <3>2. CASE run[q].lifecycle # "none"
      <4>1. new.operation = "recover" /\ "recover" \in Inspect(q).actions
        BY <2>6, <2>7, <3>2 DEF Recovery
      <4>. QED
        BY <4>1
    <3>. QED
      BY <3>1, <3>2
  <2>. QED
    BY <1>5, <2>6, <2>8, <2>9, <2>10
<1>. QED
  BY <1>6, <1>7, <1>8, <1>9, <1>10, NextRows
  DEF RowMoves, RowsInductive, Outside

\* At first nobody is on the way, and every run is yet to begin.
LEMMA InitSlots ==
    ASSUME Init
    PROVE  SlotInductive
<1>1. \A a \in Attempts : worker[a] = NewAttempt
  BY DEF Init, WorkerInit
<1>2. /\ NewAttempt.pending = 0 /\ NewAttempt.supervisor = "none"
      /\ ~NewAttempt.started
  BY DEF NewAttempt
<1>3. pc = "down" /\ \A o \in Ops : call[o] = NoCall
  BY DEF Init
<1>4. SlotsHeld
  BY <1>1, <1>2, <1>3 DEF SlotsHeld, CanRun, DiedAlone
<1>5. AbortsGivenUp /\ CallsAllowed
  BY <1>3 DEF AbortsGivenUp, CallsAllowed
<1>6. ASSUME NEW t \in Tasks
      PROVE  task[t].operation = "start" /\ ~run[RunDir(task[t])].created
  <2>1. task[t] = NewTask(t)
    BY DEF Init
  <2>2. task[t].operation = "start" /\ RunDir(task[t]) = <<t, 0>>
    BY <2>1 DEF NewTask, RunDir
  <2>3. <<t, 0>> \in Runs
    BY WorkerAssumption DEF Runs
  <2>4. run[<<t, 0>>] = NewDirectory
    BY <2>3 DEF Init, WorkerInit
  <2>. QED
    BY <2>2, <2>4 DEF NewDirectory
<1>. QED
  BY <1>4, <1>5, <1>6 DEF SlotInductive, WaitingCanRun

\* Every step preserves the slots.
LEMMA StepSlots ==
    ASSUME WorkerTypeOK, RowsInductive, RowsInductive',
           AttemptInductive, task' \in [Tasks -> Task], SlotInductive,
           [Next]_vars
    PROVE  SlotInductive'
<1>1. ASSUME NEW a \in Attempts, Supervises(a) \/ Executes(a) \/ Breaks(a)
      PROVE  SlotInductive'
  <2>1. UNCHANGED others /\ (SupervisorStep(a) \/ RunnerStep(a) \/ WorkerFault(a))
    BY <1>1 DEF Supervises, Executes, Breaks
  <2>2. ProcessMoves(a)
    BY <2>1, ProcessesMove DEF AttemptInductive
  <2>3. SlotMoves(a)
    BY <2>1, SlotsMove
  <2>. QED
    BY <2>1, <2>2, <2>3, ProcessSlots
<1>2. CASE Outside
  <2>1. Serves
    BY <1>2, NextServes DEF Outside, AttemptInductive
  <2>. QED
    BY <1>2, <2>1, ServeSlots, ServeGivenUp, ServeAllowed, ServeWaiting
    DEF SlotInductive
<1>. QED
  BY <1>1, <1>2 DEF Outside

\* Slots are held by what can still execute, and permissions last, however
\* often the service launches a supervisor (serve and operate against
\* supervisors and runners, supervisor.py:26-112).
THEOREM SlotsInvariant == Spec => []SlotInductive
<1>. DEFINE RowsTask == task \in [Tasks -> Task]
<1>1. RowsInductive => RowsTask
  BY RowsBounded
<1>2. Init => SlotInductive
  BY InitSlots
<1>3. /\ WorkerTypeOK /\ AttemptInductive /\ RowsInductive /\ RowsInductive'
      /\ RowsTask' /\ SlotInductive /\ [Next]_vars
      => SlotInductive'
  BY StepSlots
<1>. HIDE DEF RowsTask
<1>. QED
  BY <1>1, <1>2, <1>3, RowsInvariant, AttemptsHold, PTL DEF Spec

\* Whoever executes for a task holds its slot, for any number of supervisors
\* on their way (scheduler.py:93-101), unless one of them died and left the
\* attempt to another (the locks and the journal against the limits,
\* scheduler.py:163-219 and machine.py:174-209).
THEOREM ExecutorsHoldSlots == Spec => []SlotUnlessDoubled
<1>1. AttemptInductive /\ SlotInductive => SlotUnlessDoubled
  <2>. SUFFICES ASSUME AttemptInductive, SlotInductive, NEW a \in Attempts,
                       worker[a].runner \in Locked, ~worker[a].doubled
                PROVE  HoldsSlot(a)
    BY DEF SlotUnlessDoubled
  <2>1. worker[a].supervisor # "none" /\ worker[a].finished = "none"
    BY DEF AttemptInductive, AttemptsSound, AttemptSound, Locked
  <2>. QED
    BY <2>1 DEF SlotInductive, SlotsHeld, CanRun
<1>. QED
  BY <1>1, AttemptsHold, SlotsInvariant, PTL

\* What waits to be dispatched can be carried out, for any number of
\* supervisors on their way, unless an attempt of the task was doubled
\* (_finish and operate, scheduler.py:29-54 and operations.py:77-107).
THEOREM WaitersCanRun == Spec => []WaitingCanRun
<1>1. SlotInductive => WaitingCanRun
  BY DEF SlotInductive
<1>. QED
  BY <1>1, SlotsInvariant, PTL
=============================================================================
