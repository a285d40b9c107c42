-------------------------- MODULE AttemptInvariant --------------------------
(***************************************************************************)
(* How the attempts of Worker and the rows of Scheduler hang together: the *)
(* strengthening with which OperationOnce and SettledAgrees can be proved, *)
(* and, for attempts that are not doubled, SlotUnlessDoubled and           *)
(* WaitingCanRun.                                                          *)
(***************************************************************************)
EXTENDS SchedulerInvariant

(***************************************************************************)
(* Attempts and runs                                                       *)
(***************************************************************************)

\* A supervisor ends with finished.json or dies, a runner lives no longer
\* than its supervisor, nothing happens without a request, and only an
\* operation that is new to the journal is taken up.
AttemptSound(w) ==
    /\ w.finished # "none" => w.supervisor = "none" /\ w.started
    /\ w.runner # "none" => w.supervisor \in {"watching", "cancelling"}
    /\ w.supervisor # "none" => w.started
    /\ w.pending > 0 \/ w.started \/ w.journal > 0 => w.operation # "none"
    /\ w.journal <= 1
    /\ w.runner \in Locked => w.journal = 1

AttemptsSound == \A a \in Attempts : AttemptSound(worker[a])

\* An attempt is requested once the row names it, for the run of the row.
AttemptsRequested ==
    /\ \A a \in Attempts :
          LET row == task[a[1]] IN
          /\ a[2] > row.attempts => worker[a] = NewAttempt
          /\ worker[a].operation # "none" =>
                /\ worker[a].run <= row.run
                /\ a[2] = row.attempts /\ row.state \in Attempted =>
                      worker[a].run = row.run
    /\ pc = "launch" => worker[AttemptOf(at)] = NewAttempt

\* A run is what the attempts that began in it made of it.
RunsBegun ==
    \A r \in Runs :
        LET d == run[r] IN
        /\ r[2] > task[r[1]].run => d = NewDirectory
        /\ d.lifecycle = "none" => d = NewDirectory
        /\ d.lifecycle # "none" => d.by >= 1
        /\ d.saved # "none" => d.created
        /\ d.by <= task[r[1]].attempts
        /\ d.by # 0 => /\ worker[<<r[1], d.by>>].journal = 1
                       /\ worker[<<r[1], d.by>>].run = r[2]

\* The runner works in a run that has been created.
InRun(w) == \/ w.runner \in {"working", "saved"}
            \/ w.runner = "began" /\ w.operation # "start"

\* Whoever executes in a run began last in it; so there is one at most.
ExecutorsBegan ==
    \A a \in Attempts :
        /\ worker[a].runner \in Locked => run[RunOf(a)].by = a[2]
        /\ InRun(worker[a]) => run[RunOf(a)].created

\* A request to go on with a run has seen an earlier attempt in it.
RevisionsEarlier ==
    \A a \in Attempts :
        worker[a].operation \notin {"none", "start"} =>
            worker[a].revision[1] < a[2]

\* The run holds the outcome of the row's attempt, and nobody works in it.
Settled(row, state) ==
    LET d == run[RunDir(row)] IN
    /\ d.by = row.attempts
    /\ d.created
    /\ Outcome(d.saved) = state
    /\ ~Executing(RunDir(row))

Outcomes == {"COMPLETED", "PAUSED", "WAITING_INPUT"}

\* What was observed of a settled task is still so when it is recorded, and
\* afterwards.
OutcomesStay ==
    /\ \A t \in Tasks :
          task[t].state \in Outcomes => Settled(task[t], task[t].state)
    /\ pc = "act" /\ observed \in Outcomes => Settled(at, observed)

AttemptInductive ==
    /\ AttemptsSound
    /\ AttemptsRequested
    /\ RunsBegun
    /\ ExecutorsBegan
    /\ RevisionsEarlier
    /\ OutcomesStay
-----------------------------------------------------------------------------
(***************************************************************************)
(* Attempts that are not doubled                                           *)
(***************************************************************************)

\* A supervisor lives, or is on its way to an attempt that has not finished.
CanRun(w) == w.finished = "none" /\ (w.pending > 0 \/ w.supervisor # "none")

\* When the only supervisor has died, none is on its way.
DiedAlone(w) ==
    w.started /\ w.supervisor = "none" /\ w.finished = "none" => w.pending = 0

\* Only the present attempt of an occupied task can run, and not once it was
\* seen to end.
SlotsHeld ==
    /\ \A a \in Attempts : ~worker[a].doubled =>
          /\ DiedAlone(worker[a])
          /\ CanRun(worker[a]) => HoldsSlot(a)
    /\ pc = "act" /\ observed \notin {"UNKNOWN", "RUNNING"} =>
          LET w == worker[AttemptOf(at)] IN ~w.doubled => ~CanRun(w)

\* The run belongs to a cancelled task, or to one that has been rerun.
GivenUp(t, k) ==
    \/ k < task[t].run
    \/ k = task[t].run /\ task[t].state = "CANCELLED"

\* Only runs that were given up are aborted, however late.
AbortsGivenUp ==
    /\ pc \in {"reconcile", "act", "abort"} =>
          \A i \in DOMAIN todo : todo[i].state = "CANCELLED" =>
              GivenUp(todo[i].id, todo[i].run)
    /\ pc \in {"abort", "undo"} => at \in Row /\ GivenUp(at.id, at.run)
    /\ \A o \in Ops : call[o] # NoCall /\ call[o].action = "cancel" =>
          GivenUp(call[o].task, call[o].run)

\* An operation without conflict is still allowed when it is committed.
CallsAllowed ==
    \A o \in Ops :
        /\ call[o] # NoCall
        /\ call[o].action \in Resumes
        /\ ~Doubled(call[o].task)
        => call[o].action \in Inspect(RunDir(task[call[o].task])).actions

SlotInductive ==
    /\ SlotsHeld
    /\ AbortsGivenUp
    /\ CallsAllowed
    /\ WaitingCanRun
=============================================================================
