----------------------------- MODULE Scheduler ------------------------------
(***************************************************************************)
(* The orchestration service (mrac_orchestrator/scheduler.py), its store   *)
(* and the operations users apply to tasks (operations.py), composed with  *)
(* the supervisors and runners of Worker.                                  *)
(*                                                                         *)
(* The service works in ticks.  Its loops go through rows read at their    *)
(* start, which others may change meanwhile; an update fails if the row in *)
(* the store has another revision.  Only users change a row while the      *)
(* service loops, and none of their steps leads back to an earlier row, so *)
(* that the service's comparison of revisions is one of rows.  A user's    *)
(* operation that finds a conflict has no effect; the model drops it when  *)
(* the row changes.                                                        *)
(***************************************************************************)
EXTENDS Worker, Sequences, FiniteSets

CONSTANTS
    Order,      \* the tasks in the order of their rows, batch by batch
    BatchOf,    \* the number of each task's batch, 1, 2, ... in Order
    Depends,    \* what each task waits for: records [on, when]
    Limits,     \* the total, batch and group limits: records [of, limit]
    MaxAuto,    \* max_auto_recoveries of the batches
    Ops,        \* the operation ids of users; bounds their number
    MaxFaults,  \* bound: how often something goes wrong
    NoTask,     \* no row
    NoCall      \* no operation in progress

Conditions == {"completed", "converged"}

\* There is a batch, and each task has one row.
ASSUME SchedulerAssumption ==
    /\ Tasks # {}
    /\ Order \in Seq(Tasks)
    /\ \A i, j \in DOMAIN Order : Order[i] = Order[j] => i = j
    /\ BatchOf \in [Tasks -> Nat \ {0}]
    /\ Depends \in [Tasks -> SUBSET [on: Tasks, when: Conditions]]
    /\ \A l \in Limits : l.of \subseteq Tasks /\ l.limit \in Nat
    /\ MaxAuto \in Nat
    /\ MaxFaults \in Nat
    /\ IsFiniteSet(Tasks)
    /\ IsFiniteSet(Ops)

\* Each attempt after the first has its automatic recovery or operation.
ASSUME AttemptsAssumption ==
    /\ MaxAttempts >= 1 + MaxAuto + Cardinality(Ops)
    /\ MaxReruns >= Cardinality(Ops)

VARIABLES
    task,      \* the rows of the tasks
    pc,        \* where the service stands
    todo,      \* the rows its present loop has not reached
    queue,     \* the tasks its dispatch has not visited
    at,        \* the row it is at
    observed,  \* what the backend said of its attempt
    rotation,  \* how many batches come last this tick
    call,      \* operations of users in progress, without conflict so far
    done,      \* the operations recorded
    polluted,  \* the runs that used a contaminated shared repository
    faults     \* how often something went wrong

service == <<pc, todo, queue, at, observed, rotation>>
users == <<call, done>>
vars == <<worker, run, task, service, users, polluted, faults>>

Occupied == {"STARTING", "RUNNING", "RECOVERING", "CANCEL_REQUESTED"}
Terminal == {"COMPLETED", "FAILED", "CANCELLED", "SKIPPED"}
Waiting == {"QUEUED", "RETRY_WAIT"}
States == Occupied \cup Terminal \cup Waiting \cup {"PAUSED", "WAITING_INPUT"}
Observations == {"UNKNOWN", "RUNNING", "LOST", "COMPLETED", "PAUSED",
                 "WAITING_INPUT", "FAILED", "CANCELLED"}

Task == [id: Tasks, state: States, run: 0..MaxReruns,
         attempts: 0..MaxAttempts, operation: Operations, auto: 0..MaxAuto,
         valid: BOOLEAN, converged: BOOLEAN]
Resumes == {"recover", "continue", "answer"}
Call == [task: Tasks, action: Resumes \cup {"cancel"}, run: 0..MaxReruns]

Places == {"down", "reconcile", "act", "abort", "mark",
           "dispatch", "launch", "undo"}

TypeOK ==
    /\ WorkerTypeOK
    /\ task \in [Tasks -> Task]
    /\ \A t \in Tasks : task[t].id = t
    /\ pc \in Places
    /\ todo \in Seq(Task)
    /\ queue \in Seq(Tasks)
    /\ at \in Task \cup {NoTask}
    /\ observed \in Observations
    /\ rotation \in Nat
    /\ call \in [Ops -> Call \cup {NoCall}]
    /\ done \subseteq Ops
    /\ polluted \subseteq Runs
    /\ faults \in 0..MaxFaults

NewTask(t) == [id |-> t, state |-> "QUEUED", run |-> 0, attempts |-> 0,
               operation |-> "start", auto |-> 0, valid |-> TRUE,
               converged |-> FALSE]

\* The batches are published, and the service has not started.
Init ==
    /\ WorkerInit
    /\ task = [t \in Tasks |-> NewTask(t)]
    /\ pc = "down"
    /\ todo = <<>>
    /\ queue = <<>>
    /\ at = NoTask
    /\ observed = "UNKNOWN"
    /\ rotation = 0
    /\ call = [o \in Ops |-> NoCall]
    /\ done = {}
    /\ polluted = {}
    /\ faults = 0

\* The attempt and the run a row names.
AttemptOf(row) == <<row.id, row.attempts>>
RunDir(row) == <<row.id, row.run>>

Fault == faults < MaxFaults /\ faults' = faults + 1
-----------------------------------------------------------------------------
(***************************************************************************)
(* The store                                                               *)
(***************************************************************************)

\* The operations that will still find the revision they have read.
Unaffected(t) ==
    [o \in Ops |-> IF /\ call[o] # NoCall
                      /\ call[o].task = t
                      /\ call[o].action \in Resumes
                   THEN NoCall ELSE call[o]]

\* Store.update: whoever has read the task before holds an old revision.
Update(row) ==
    /\ task' = [task EXCEPT ![row.id] = row]
    /\ call' = Unaffected(row.id)

NoUpdate == UNCHANGED <<task, call>>

\* The process of the service is gone, and with it what it had read.
ServiceEnds == /\ pc' = "down"
               /\ todo' = <<>>
               /\ queue' = <<>>
               /\ at' = NoTask
               /\ observed' = "UNKNOWN"
               /\ rotation' = 0

\* The service goes on with the next row.
Continue(place) == /\ pc' = place
                   /\ at' = NoTask
                   /\ observed' = "UNKNOWN"
                   /\ UNCHANGED <<todo, queue, rotation>>

\* Store.update with a row read before: nothing in serve() catches a
\* revision conflict.
UpdateOrEnd(old, new) ==
    IF task[old.id] = old
    THEN Update(new) /\ Continue("reconcile")
    ELSE ServiceEnds /\ NoUpdate

\* backend.cancelled: a run that has begun gets the lifecycle CANCELLED; it
\* fails while a runner holds the run's lock.
CanAbort(r) == run[r].lifecycle = "none" \/ ~Executing(r)
AbortRun(r) ==
    run' = [run EXCEPT ![r] = IF @.lifecycle \in {"none", "CANCELLED"} THEN @
                              ELSE Aborted(@)]
-----------------------------------------------------------------------------
(***************************************************************************)
(* reconcile                                                               *)
(***************************************************************************)

Rows == [i \in DOMAIN Order |-> task[Order[i]]]

StartTick == /\ pc' = "reconcile"
             /\ todo' = Rows
             /\ at' = NoTask
             /\ observed' = "UNKNOWN"
             /\ UNCHANGED queue

\* The elements of a sequence that stand at the given positions.
Those(seq, positions) ==
    LET Taken[n \in 0..Len(seq)] ==
            IF n = 0 THEN <<>>
            ELSE IF n \in positions THEN Append(Taken[n - 1], seq[n])
            ELSE Taken[n - 1]
    IN Taken[Len(seq)]

ServiceStarts ==
    /\ pc = "down"
    /\ StartTick
    /\ UNCHANGED <<worker, run, task, rotation, users, polluted, faults>>

\* A cancelled task whose run does not say so.
Unaborted(row) ==
    /\ row.state = "CANCELLED"
    /\ run[RunDir(row)].lifecycle \notin {"none", "CANCELLED"}

ReconcilePasses ==
    /\ pc = "reconcile"
    /\ todo # <<>>
    /\ Head(todo).state \notin Occupied
    /\ ~Unaborted(Head(todo))
    /\ todo' = Tail(todo)
    /\ UNCHANGED <<worker, run, task, pc, queue, at, observed, rotation,
                   users, polluted, faults>>

ReconcileAborts ==
    /\ pc = "reconcile"
    /\ todo # <<>>
    /\ Unaborted(Head(todo))
    /\ IF CanAbort(RunDir(Head(todo)))
       THEN /\ AbortRun(RunDir(Head(todo)))
            /\ todo' = Tail(todo)
            /\ UNCHANGED <<pc, queue, at, observed, rotation>>
       ELSE ServiceEnds /\ UNCHANGED run
    /\ UNCHANGED <<worker, task, users, polluted, faults>>

\* The backend observes the attempt of a row.  When the process table does
\* not answer, it does not know.
Observes(row, state) ==
    \/ /\ state = Observe(AttemptOf(row))
       /\ UNCHANGED faults
    \/ /\ worker[AttemptOf(row)].started
       /\ worker[AttemptOf(row)].finished \in {"none", "unproven"}
       /\ state = "UNKNOWN"
       /\ Fault

\* The cancellation of an occupied task becomes a file before its attempt
\* is observed.
ReconcileObserves ==
    /\ pc = "reconcile"
    /\ todo # <<>>
    /\ Head(todo).state \in Occupied
    /\ \E state \in Observations : /\ Observes(Head(todo), state)
                                   /\ observed' = state
    /\ worker' = [worker EXCEPT ![AttemptOf(Head(todo))].cancel =
                      @ \/ Head(todo).state = "CANCEL_REQUESTED"]
    /\ pc' = "act"
    /\ at' = Head(todo)
    /\ todo' = Tail(todo)
    /\ UNCHANGED <<run, task, queue, rotation, users, polluted>>

\* backend.request: the operation and, to go on with a run, the revision
\* of its public state.
Requested(w, row) ==
    [w EXCEPT !.run = row.run, !.operation = row.operation,
              !.revision = IF row.operation = "start" THEN @
                           ELSE Revision(run[RunDir(row)])]

\* Bug: an attempt that nobody took up is left alone.
BugRelaunched(w) == w

\* The attempt is launched again while no supervisor has left a trace.
Relaunched(w) ==
    IF w.started \/ w.finished # "none" THEN w
    ELSE Launched(IF w.operation = "none" THEN Requested(w, at) ELSE w)

ActUnknown ==
    /\ pc = "act"
    /\ observed = "UNKNOWN"
    /\ worker' = [worker EXCEPT ![AttemptOf(at)] = Relaunched(@)]
    /\ IF at.state \in {"RECOVERING", "CANCEL_REQUESTED"}
       THEN Continue("reconcile") /\ NoUpdate
       ELSE UpdateOrEnd(at, [at EXCEPT !.state = "RECOVERING"])
    /\ UNCHANGED <<run, done, polluted, faults>>

ActRunning ==
    /\ pc = "act"
    /\ observed = "RUNNING"
    /\ IF at.state \in {"RUNNING", "CANCEL_REQUESTED"}
       THEN Continue("reconcile") /\ NoUpdate
       ELSE UpdateOrEnd(at, [at EXCEPT !.state = "RUNNING"])
    /\ UNCHANGED <<worker, run, done, polluted, faults>>

\* Bug: recoveries are not counted against their limit.
BugUnlimited(row) ==
    IF run[RunDir(row)].lifecycle = "none" THEN {"start"}
    ELSE Inspect(RunDir(row)).actions \cap {"recover"}

\* Bug: a run that began is recovered without asking its checkpoint.
BugRecovery(row) ==
    IF row.auto >= MaxAuto THEN {}
    ELSE IF run[RunDir(row)].lifecycle = "none" THEN {"start"}
    ELSE {"recover"}

\* What a lost attempt is recovered with, if anything.
Recovery(row) ==
    LET r == RunDir(row) IN
    IF row.auto >= MaxAuto THEN {}
    ELSE IF run[r].lifecycle = "none" THEN {"start"}
    ELSE Inspect(r).actions \cap {"recover"}

\* Bug: _finish looks for a cancellation only in the row it was given.
BugCancelled(row) == row.state = "CANCEL_REQUESTED"

\* A cancellation wins over every outcome, whether it came before the
\* attempt was observed or after.
Cancelled(row) == "CANCEL_REQUESTED" \in {row.state, task[row.id].state}

\* _finish: what becomes of a row whose attempt ended.
Finished(row, state) ==
    LET recovery == IF state = "LOST" /\ row.state # "CANCEL_REQUESTED"
                    THEN Recovery(row) ELSE {}
        final == IF Cancelled(row) THEN "CANCELLED"
                 ELSE IF recovery # {} THEN "RETRY_WAIT"
                 ELSE IF state = "LOST" THEN "FAILED" ELSE state
        ended == [task[row.id] EXCEPT
                      !.state = final,
                      !.converged = /\ state = "COMPLETED"
                                    /\ run[RunDir(row)].saved = "CONVERGED"]
    IN IF recovery = {} THEN ended
       ELSE [ended EXCEPT !.auto = @ + 1,
                          !.operation = CHOOSE op \in recovery : TRUE]

\* The transaction of _finish; a cancelled run is aborted after it.  The row
\* still names the attempt: nobody else ends an attempt, and no operation is
\* allowed on an occupied task but to cancel it.
Finish(state, loop, abort) ==
    LET row == Finished(at, state) IN
    /\ Update(row)
    /\ IF row.state = "CANCELLED"
       THEN /\ pc' = abort
            /\ at' = row
            /\ observed' = "UNKNOWN"
            /\ UNCHANGED <<todo, queue, rotation>>
       ELSE Continue(loop)

ActFinish ==
    /\ pc = "act"
    /\ observed \notin {"UNKNOWN", "RUNNING"}
    /\ Finish(observed, "reconcile", "abort")
    /\ UNCHANGED <<worker, run, done, polluted, faults>>

FinishAborts ==
    /\ pc \in {"abort", "undo"}
    /\ IF CanAbort(RunDir(at))
       THEN /\ AbortRun(RunDir(at))
            /\ Continue(IF pc = "abort" THEN "reconcile" ELSE "dispatch")
       ELSE ServiceEnds /\ UNCHANGED run
    /\ UNCHANGED <<worker, task, users, polluted, faults>>
-----------------------------------------------------------------------------
(***************************************************************************)
(* invalidate                                                              *)
(***************************************************************************)

Parents(t) == {d.on : d \in Depends[t]}

\* Bug: dependants are not affected.
BugAffected == {t \in Tasks : RunDir(task[t]) \in polluted}

\* The tasks whose present run used a contaminated repository, or depends
\* on one that did: the closure the loop computes.
Affected ==
    LET Tainted[n \in 0..Len(Order)] ==
            IF n = 0 THEN {t \in Tasks : RunDir(task[t]) \in polluted}
            ELSE {t \in Tasks : \/ t \in Tainted[n - 1]
                                \/ Parents(t) \cap Tainted[n - 1] # {}}
    IN Tainted[Len(Order)]

\* The loop of reconcile is over: nobody sees the service between the two.
Invalidate ==
    /\ pc = "reconcile"
    /\ todo = <<>>
    /\ todo' = Those(Rows, {i \in DOMAIN Order : /\ Order[i] \in Affected
                                                /\ Rows[i].valid})
    /\ pc' = "mark"
    /\ UNCHANGED <<worker, run, task, queue, at, observed, rotation, users,
                   polluted, faults>>

\* What an affected task becomes.
Invalidated(row) ==
    [row EXCEPT !.valid = FALSE,
                !.state = CASE @ \in Occupied -> "CANCEL_REQUESTED"
                            [] @ \in Waiting \cup {"PAUSED", "WAITING_INPUT"}
                                 -> "FAILED"
                            [] OTHER -> @]

MarkInvalid(t) ==
    /\ pc = "mark"
    /\ todo # <<>>
    /\ Head(todo).id = t
    /\ IF task[t] = Head(todo)
       THEN /\ Update(Invalidated(task[t]))
            /\ todo' = Tail(todo)
            /\ UNCHANGED <<pc, queue, at, observed, rotation>>
       ELSE ServiceEnds /\ NoUpdate
    /\ UNCHANGED <<worker, run, done, polluted, faults>>

\* The batches take turns at being the first.
Batches == {BatchOf[t] : t \in Tasks}
Rotated ==
    Those(Order, {i \in DOMAIN Order : BatchOf[Order[i]] > rotation})
    \o Those(Order, {i \in DOMAIN Order : BatchOf[Order[i]] <= rotation})

InvalidateEnds ==
    /\ pc = "mark"
    /\ todo = <<>>
    /\ pc' = "dispatch"
    /\ queue' = Rotated
    /\ rotation' = (rotation + 1) % Cardinality(Batches)
    /\ UNCHANGED <<worker, run, task, todo, at, observed, users, polluted,
                   faults>>
-----------------------------------------------------------------------------
(***************************************************************************)
(* dispatch: the rest of tick                                              *)
(***************************************************************************)

\* Bug: a parent that failed may still complete.
BugImpossible(t) ==
    \E d \in Depends[t] :
        LET parent == task[d.on] IN
        /\ parent.state = "COMPLETED"
        /\ ~parent.valid \/ (d.when = "converged" /\ ~parent.converged)

\* A parent ended in another way than the task waits for.
Impossible(t) ==
    \E d \in Depends[t] :
        LET parent == task[d.on] IN
        /\ parent.state \in Terminal
        /\ \/ parent.state # "COMPLETED"
           \/ ~parent.valid
           \/ d.when = "converged" /\ ~parent.converged

OccupiedTasks == {t \in Tasks : task[t].state \in Occupied}

\* Bug: the limit itself may be exceeded by one.
BugFits(t) ==
    \A l \in Limits : t \in l.of => Cardinality(OccupiedTasks \cap l.of) <= l.limit

\* Every limit that concerns the task leaves room for one more.
Fits(t) ==
    \A l \in Limits : t \in l.of => Cardinality(OccupiedTasks \cap l.of) < l.limit

Ready(t) == /\ task[t].state \in Waiting
            /\ ~Impossible(t)
            /\ \A u \in Parents(t) : task[u].state = "COMPLETED"
            /\ Fits(t)

\* Not waiting, not yet due, or not ready.
DispatchPasses ==
    /\ pc = "dispatch"
    /\ queue # <<>>
    /\ LET t == Head(queue) IN
           \/ task[t].state = "RETRY_WAIT"
           \/ task[t].state \notin Waiting
           \/ ~Impossible(t) /\ ~Ready(t)
    /\ queue' = Tail(queue)
    /\ UNCHANGED <<worker, run, task, pc, todo, at, observed, rotation,
                   users, polluted, faults>>

DispatchSkips(t) ==
    /\ pc = "dispatch"
    /\ queue # <<>>
    /\ Head(queue) = t
    /\ task[t].state \in Waiting
    /\ Impossible(t)
    /\ Update([task[t] EXCEPT !.state = "SKIPPED"])
    /\ queue' = Tail(queue)
    /\ UNCHANGED <<worker, run, pc, todo, at, observed, rotation, done,
                   polluted, faults>>

Claimed(row) == [row EXCEPT !.state = "STARTING", !.attempts = @ + 1]

\* The transaction that claims a task.  One dispatch per batch and tick.
DispatchClaims(t) ==
    /\ pc = "dispatch"
    /\ queue # <<>>
    /\ Head(queue) = t
    /\ Ready(t)
    /\ Update(Claimed(task[t]))
    /\ at' = Claimed(task[t])
    /\ queue' = Those(queue, {i \in DOMAIN queue :
                                 BatchOf[queue[i]] # BatchOf[t]})
    /\ pc' = "launch"
    /\ UNCHANGED <<worker, run, todo, observed, rotation, done,
                   polluted, faults>>

DispatchLaunches ==
    /\ pc = "launch"
    /\ worker' = [worker EXCEPT ![AttemptOf(at)] =
                      Launched(Requested(@, at))]
    /\ Continue("dispatch")
    /\ UNCHANGED <<run, task, users, polluted, faults>>

\* The request cannot be made, or the supervisor not be started.
DispatchFails ==
    /\ pc = "launch"
    /\ Fault
    /\ \/ UNCHANGED worker
       \/ worker' = [worker EXCEPT ![AttemptOf(at)] = Requested(@, at)]
    /\ \E state \in {"LOST", "FAILED"} : Finish(state, "dispatch", "undo")
    /\ UNCHANGED <<run, done, polluted>>

\* The next tick follows, or the service has been told to stop.
TickEnds ==
    /\ pc = "dispatch"
    /\ queue = <<>>
    /\ \/ StartTick /\ UNCHANGED rotation
       \/ ServiceEnds
    /\ UNCHANGED <<worker, run, task, users, polluted, faults>>
-----------------------------------------------------------------------------
(***************************************************************************)
(* operate                                                                 *)
(***************************************************************************)

Eligible(t) == task[t].state \in {"FAILED", "PAUSED", "WAITING_INPUT"}

\* Whoever wants to go on with a run inspects it before the transaction.
\* What is not eligible or allowed now can only end in an error.
OperateInspects(o) ==
    /\ o \notin done
    /\ call[o] = NoCall
    /\ \E t \in Tasks :
           /\ Eligible(t)
           /\ run[RunDir(task[t])].lifecycle # "none"
           /\ \E action \in Resumes \cap Inspect(RunDir(task[t])).actions :
                  call' = [call EXCEPT ![o] = [task |-> t, action |-> action,
                                               run |-> task[t].run]]
    /\ UNCHANGED <<worker, run, task, service, done, polluted, faults>>

\* The transaction of an operation on the task as it was inspected.
OperateResumes(o) ==
    /\ call[o] # NoCall
    /\ call[o].action \in Resumes
    /\ Update([task[call[o].task] EXCEPT !.state = "QUEUED",
                                         !.operation = call[o].action])
    /\ done' = done \cup {o}
    /\ UNCHANGED <<worker, run, service, polluted, faults>>

\* A task that does not run is cancelled at once, and its run aborted after
\* the transaction; one that is terminal stays what it is.
OperateCancels(o, t) ==
    LET row == task[t]
        state == IF row.state \in Occupied THEN "CANCEL_REQUESTED"
                 ELSE IF row.state \in Terminal THEN row.state
                 ELSE "CANCELLED"
    IN
    /\ o \notin done
    /\ call[o] = NoCall
    /\ task' = [task EXCEPT ![t].state = state]
    /\ call' = LET kept == IF row.state = state THEN call ELSE Unaffected(t)
               IN IF state # "CANCELLED" THEN kept
                  ELSE [kept EXCEPT ![o] = [task |-> t, action |-> "cancel",
                                            run |-> row.run]]
    /\ done' = done \cup {o}
    /\ UNCHANGED <<worker, run, service, polluted, faults>>

\* The caller aborts the run of the task it cancelled, unless it cannot.
OperateAborts(o) ==
    LET r == <<call[o].task, call[o].run>> IN
    /\ call[o] # NoCall
    /\ call[o].action = "cancel"
    /\ IF CanAbort(r) THEN AbortRun(r) ELSE UNCHANGED run
    /\ call' = [call EXCEPT ![o] = NoCall]
    /\ UNCHANGED <<worker, task, service, done, polluted, faults>>

OperateReruns(o, t) ==
    /\ o \notin done
    /\ call[o] = NoCall
    /\ task[t].state \notin Occupied \cup Waiting
    /\ Update([task[t] EXCEPT !.state = "QUEUED", !.run = @ + 1,
                              !.operation = "start", !.valid = TRUE,
                              !.converged = FALSE])
    /\ done' = done \cup {o}
    /\ UNCHANGED <<worker, run, service, polluted, faults>>
-----------------------------------------------------------------------------
(***************************************************************************)
(* What goes wrong around the service, and the whole                       *)
(***************************************************************************)

ServiceCrashes ==
    /\ pc # "down"
    /\ Fault
    /\ ServiceEnds
    /\ UNCHANGED <<worker, run, task, users, polluted>>

\* A shared repository is found contaminated: the runs that used it count.
Contaminates(r) ==
    /\ run[r].lifecycle # "none"
    /\ r \notin polluted
    /\ Fault
    /\ polluted' = polluted \cup {r}
    /\ UNCHANGED <<worker, run, task, service, users>>

Service ==
    \/ ReconcilePasses
    \/ ReconcileAborts
    \/ ReconcileObserves
    \/ ActUnknown
    \/ ActRunning
    \/ ActFinish
    \/ FinishAborts
    \/ Invalidate
    \/ InvalidateEnds
    \/ DispatchPasses
    \/ \E t \in Tasks : MarkInvalid(t) \/ DispatchSkips(t) \/ DispatchClaims(t)
    \/ DispatchLaunches
    \/ TickEnds

User(o) ==
    \/ OperateInspects(o)
    \/ OperateResumes(o)
    \/ OperateAborts(o)
    \/ \E t \in Tasks : OperateCancels(o, t) \/ OperateReruns(o, t)

others == <<task, service, users, polluted>>

Supervises(a) == SupervisorStep(a) /\ UNCHANGED <<others, faults>>
Executes(a) == RunnerStep(a) /\ UNCHANGED <<others, faults>>
Breaks(a) == WorkerFault(a) /\ Fault /\ UNCHANGED others

Next ==
    \/ ServiceStarts
    \/ Service
    \/ DispatchFails
    \/ ServiceCrashes
    \/ \E o \in Ops : User(o)
    \/ \E a \in Attempts : Supervises(a) \/ Executes(a) \/ Breaks(a)
    \/ \E r \in Runs : Contaminates(r)

\* Processes that live go on; whoever runs the service starts it again; the
\* time of a retry comes.  Nothing is assumed of users.
Fairness ==
    /\ WF_vars(ServiceStarts)
    /\ WF_vars(Service)
    /\ \A a \in Attempts : WF_vars(Supervises(a)) /\ WF_vars(Executes(a))
    /\ \A t \in Tasks : SF_vars(DispatchClaims(t))

Spec == Init /\ [][Next]_vars
FairSpec == Spec /\ Fairness
-----------------------------------------------------------------------------
(***************************************************************************)
(* What holds                                                              *)
(***************************************************************************)

\* No limit on tasks in flight is ever exceeded: not by claims between two
\* snapshots, by recoveries, cancellations or a service that was restarted
\* (the transaction of tick, scheduler.py:163-219).
WithinLimits ==
    \A l \in Limits : Cardinality(OccupiedTasks \cap l.of) <= l.limit

\* No operation is executed twice, however often its attempt is launched
\* (the worker lock and the runner's journal, machine.py:174-209).
OperationOnce == \A a \in Attempts : worker[a].journal <= 1

\* What a task is said to have come to is what its last attempt left in the
\* run, and stays there: no late process of an earlier attempt changes it
\* (observe, backends/mrac.py:155-175).
SettledAgrees ==
    \A t \in Tasks :
        LET d == run[RunDir(task[t])] IN
        task[t].state \in {"COMPLETED", "PAUSED", "WAITING_INPUT"} =>
            /\ d.by = task[t].attempts
            /\ Outcome(d.saved) = task[t].state
            /\ ~Executing(RunDir(task[t]))

\* Some attempt of the task lost a supervisor while another was on its way.
Doubled(t) == \E n \in 1..MaxAttempts : worker[<<t, n>>].doubled

\* What waits to be dispatched can be carried out: a start finds no run, and
\* an operation that goes on with a run finds a checkpoint that allows it
\* (_finish, scheduler.py:29-54, and operate, operations.py:77-107), however
\* often its attempts were launched, unless one of them was doubled.
WaitingCanRun ==
    \A t \in Tasks :
        LET r == RunDir(task[t]) IN
        task[t].state \in Waiting /\ ~Doubled(t) =>
            IF task[t].operation = "start" THEN ~run[r].created
            ELSE task[t].operation \in Inspect(r).actions

\* A requested cancellation is final: whatever the service saw before, the
\* task becomes CANCELLED and nothing else (_finish, scheduler.py:24-69).
CancelWins ==
    [][\A t \in Tasks : task[t].state = "CANCEL_REQUESTED" =>
           task'[t].state \in {"CANCEL_REQUESTED", "CANCELLED"}]_vars

HoldsSlot(a) == task[a[1]].state \in Occupied /\ a = AttemptOf(task[a[1]])

\* Whoever executes for a task holds its slot.
ExecutorHoldsSlot ==
    \A a \in Attempts : worker[a].runner \in Locked => HoldsSlot(a)

\* Whoever executes for a task holds its slot, however often its attempt was
\* launched (scheduler.py:93-101), unless a supervisor of it died while
\* another was on its way: the one way to a runner without a slot.
SlotUnlessDoubled ==
    \A a \in Attempts :
        worker[a].runner \in Locked /\ ~worker[a].doubled => HoldsSlot(a)

\* The service ends only when it is told to or when it is killed.
ServiceSurvives ==
    [][pc # "down" /\ pc' = "down" =>
           faults' # faults \/ (pc = "dispatch" /\ queue = <<>>)]_vars

\* Each task in flight is settled: whatever dies, the service finds out and
\* frees the slot (reconcile, scheduler.py:71-112).
Settles ==
    \A t \in Tasks : task[t].state \in Occupied ~> task[t].state \notin Occupied

\* A waiting task is started or skipped, unless a parent waits for a person
\* (tick, scheduler.py:157-233).
NoStarvation ==
    \A t \in Tasks : task[t].state \in Waiting ~>
        \/ task[t].state \notin Waiting
        \/ \E u \in Parents(t) : task[u].state \in {"PAUSED", "WAITING_INPUT"}

\* Contamination reaches every task whose run used the repository or waits
\* for one that did (invalidate, scheduler.py:114-144).
InvalidSpreads ==
    \A t \in Tasks, u \in Tasks :
        (u = t \/ u \in Parents(t)) /\ RunDir(task[u]) \in polluted
            ~> ~task[t].valid \/ RunDir(task[u]) \notin polluted
=============================================================================
