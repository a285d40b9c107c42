# MRAC-Bench in TLA+

MRAC-Bench runs experiments in which language-model agents audit and repair a
specification (or code) until independent auditors find nothing left. This
directory models the parts of it that are hard to test: long runs that survive
crashes, failed calls, edits by other programs and resumes, and the rules that
decide when a result counts as converged.

Every definition is translated from the code under `src/`; `PROJECT.json`
(`map`) names the lines of each.

## 1. The system

| component | code | state | operations | hard because |
|---|---|---|---|---|
| Repository Spec flow | `mracbench/repository_flow.py` | `result` and `result["flow"]`, saved in `repository-state.json`; `working/spec.md` | run, drive, audit, repair, resume, abort | crash between any two writes, edits by a person, errors of every call |
| State decisions | `mracbench/transitions.py` | none (update dictionaries) | `repository_audited`, `spec_repaired`, `repository_after_repair`, `simple_*`, `exec_*` | boundaries: two clean audits, streaks, budgets |
| Resumable session | `mracbench/session.py` | checkpoint file, run lock | checkpoint, finish, `unfinished_invocation`, `reconcile_invocation` | a call counted once whatever dies |
| Invocation | `mracbench/execution.py`, `codex_exec.py` | `raw/<stage>/invocation.json`, counters, the agent process | `Invoker.__call__`, `CodexExecAdapter.run` | two processes, timeouts, orphans |
| Evidence, run store | `mracbench/evidence.py`, `runs.py` | digests of immutable files; `run.yaml`, `state.json`, `result.json` | record, check, capture; checkpoint, finish | two files are never written at once |
| Exec flow | `mracbench/exec_flow.py`, `exec_repository.py` | candidate commits, batch limit, clean audits | implement, audit, fix, resume, recover, abort | clean audits across pauses, partial candidates |
| Simple flow | `mracbench/simple_flow.py` | review, pending repair, closure | review, repair with retries, resume of a pause | stop order; a marker lock that survives a crash |
| Machine interface | `mracbench/machine.py` | `lifecycle.json`, operation journal, execution lock | inspect, start, abort | idempotent operations of several callers |
| Scheduler | `mrac_orchestrator/scheduler.py`, `store.py`, `operations.py` | tasks with revisions, attempts, operations, events (SQLite) | tick (reconcile, invalidate, claim, launch), operate | service, users and workers interleave; restarts |
| Supervisor, backend | `mrac_orchestrator/supervisor.py`, `backends/mrac.py` | worker lock, receipts, cancel file | run, observe, launch, cancelled | delayed supervisors, lost processes |
| Repository pool, locks | `mrac_resources/repositories.py`, `locks.py` | leases, checkouts, quarantine marks | readonly, writable, rebuild, release, clean | shared and exclusive use by processes that die |
| Case registry | `mrac_resources/cases.py` | cases, names, versions, operations | register, update, resolve | two transactions with files in between |
| Batch submission | `mrac_orchestrator/plan.py`, `store.py`, `backends/mrac.py` (freeze) | input directories, `resolved-plan.json`, published batches | submit: resolve, freeze, plan, publish | copies and retries while new versions appear |
| The rest | CLIs, monitor, export, statistics, pricing, MCP servers, providers, parsers | none that outlives a call | | data and formatting rather than control |

How they interact: a person, or the runner that a supervisor starts, calls a
flow. The flow drives agents through the Invoker, one call at a time, and
checkpoints around each call. The scheduler starts a supervisor per attempt and
learns the outcome only from files: receipts, the lifecycle file and what
`inspect` derives from the flow's checkpoint. The repository pool gives each
flow its checkout. `PROJECT.json` lists every component with its status and
every hazard with its line and the properties that watch it.

What makes each part correct:

* **Flows**: each started call is counted once; no budget is exceeded; clean
  audits are of the present bytes, adjacent, by different auditors; converged
  means what the protocol says; findings are not lost; each execution ends.
* **Session**: one process and one agent per run; a resume continues from a
  state the checkpoint vouches for.
* **Scheduler, workers**: the limits hold at all times; one executor per run; an
  operation is applied once and to the state its user saw; cancelled and
  completed tasks stay so; dependencies are respected; every task whose worker
  ended is settled.
* **Repository pool**: no writer beside a reader; a contaminated checkout is
  never handed out, and kept for investigation; whatever was shared with it is
  known as invalid.
* **Registry, submission**: what can be selected has the files it was registered
  with; numbers and names stay with their owner; a planned batch holds exactly
  one registered version.

## 2. Modules

| module | what it is |
|---|---|
| `Transitions` | the pure decisions of `transitions.py` as operators on a run |
| `Session` | settling an interrupted call (`unfinished_invocation`, `reconcile_invocation`) |
| `Convergence` | abstract: a Spec is frozen only on the approvals of two auditors of its present content |
| `RepositoryFlow` | one run of `spec-mrac-v2@6`: process, checkpoint, files, agent, person; EXTENDS `Transitions`, `Session`; implements `Convergence` |
| `ExecFlow` | one run of `exec-mrac-v1`: process, checkpoint, git checkout with its candidates, agents, person; EXTENDS `Transitions`, `Session`; implements `Convergence` |
| `SimpleFlow` | one run of `spec-flow-simple-v1`: process, sealed result, marker lock, agents, person; EXTENDS `Transitions`; implements `Convergence` |
| `Worker` | attempts of managed tasks: receipts, supervisors, the runner (`machine.execute`), what the backend observes |
| `Scheduler` | the service, its store and the users' operations; EXTENDS `Worker` |
| `RepoPool` | one shared repository: its record, generations, leases and locks, cleanup, rebuild, pollution |
| `CaseRegistry` | registration in two transactions with a copy between them, aliases, archiving |
| `Submission` | resolving, freezing, planning and publishing batches; EXTENDS `CaseRegistry` |
| `RepositoryInvariant`, `ExecInvariant`, `SchedulerInvariant`, `AttemptInvariant` | the inductive strengthenings of four of the proofs |
| `RepositoryFlowProofs`, `RepositoryRefinementProofs`, `ExecProofs`, `SimpleFlowProofs`, `SchedulerProofs`, `AttemptProofs`, `RepoPoolProofs`, `SubmissionProofs` | the theorems; those without an invariant module state theirs at the top |
| `MC*` | instances for TLC; their symmetry sets are for runs without a liveness property |

Definitions named `Bug...` are no part of the models: each is a definition of the
code as a plausible mistake would have it, and `PROJECT.json` (`mutants`) says
which property it breaks.

### How RepositoryFlow corresponds to the code

A run is one record: the fields of `result["flow"]` and those of `result` that
decide anything. It exists twice. `mem` is what the process holds, `saved` is
`repository-state.json`. `Checkpoint(run)` is `CheckpointStore.checkpoint`;
`Crash` replaces `mem` by `saved`. Everything else on disk has a variable of its
own: `working` (`working/spec.md`), `invocation` (`invocation.json` of the last
call), `published` (the status in `result.json`), and `unsaved`: evidence files
exist that the checkpoint does not name, so that `Evidence.check` will refuse
the run. `agents` counts the agent processes that live and have their prompt;
one may outlive its runner.

`pc` is where the process stands. Each action is the code between two durable
writes, or between a durable write and the next point where the file system is
read, so that a crash or an edit can fall everywhere it matters:

    prepare - drive - read - prepared - started - agent - ended - completed -
    returned - record            (audit)
             - save - after      (repair)
    finish - close - idle        resuming - prepare

`Fail` is the `except BenchError` of `execute`; `Interrupt` is its catch-all,
`KeyboardInterrupt` included. `Resume` is `resume_repository_run` with every
choice of its arguments (`--input-file`, `--spec-file`), `Resumed` its last half
after the repository is prepared; `Abort` is `inspect_repository_run` with a
reason. `Edit` is a person's, at any time.

Abstractions: the bytes of a Spec are elements of `Specs`, equal exactly if
their digests are; findings are "none", "p3" or "blocking"; the kinds of errors
an adapter reports are one (`AGENT_ERROR`), because the code treats them alike;
the repository baseline never changes except for `PROTOCOL_VIOLATION`, which may
happen wherever it is checked; the protocol policy is that of @6. Counters have
no width in Python. `begun` is a history variable (calls whose agent received
its prompt), used by properties only.

### How Scheduler and Worker correspond to the code

`task[t]` is the row of a task in the store, without what nothing decides on.
The revision of a row is not stored: the service compares rows instead. Only
users change rows while the service goes through its loops, and none of their
operations can lead back to an earlier row within a loop, so equal rows are
equal revisions. A user's operation holds a revision only between its
inspection and its transaction (`call`); `Update` drops the ones that would
find a conflict, since a conflict has no effect.

The service is sequential, and `pc` names where it stands:

    down - reconcile - act - (abort) - reconcile ... - mark ... -
    dispatch - launch - (undo) - dispatch ... - reconcile (next tick) or down

`todo` is the rest of the rows read at the start of `reconcile` or `invalidate`:
what is in them may be outdated when its turn comes. `at` and `observed` are the
row being settled and what the backend said of its attempt; the receipts, the
run and the row may all change before the service acts on it. `queue` holds the
tasks that dispatch has not visited. Each transaction of the store is one action
(`ActFinish`, `DispatchClaims`, `MarkInvalid`, the operations), what happens
before or after it (inspection, launch, abort of a cancelled run) is another.
`UpdateOrEnd` is `Store.update` outside any handler: a conflict ends `serve()`.

`worker[a]` is the directory of an attempt (`request.json`, `started.json`,
`cancel.json`, `finished.json`) with its processes: `pending` supervisors have
been launched and are not yet at `worker.lock`, one `supervisor` holds it, its
`runner` is in one of these places:

    up - began - working - saved - published - exited

with one durable write between two of them: the operation journal and
`lifecycle.json`; `run.yaml`; the flow's last checkpoint; the lifecycle of its
outcome; the seal. `run[r]` is the directory of a run: its lifecycle and who
began last (together its revision), whether it was created, the status in the
flow's checkpoint, and whether the seal fits the evidence. The flow itself is
abstracted to the statuses it stops with; which operations its checkpoint allows
is `Continuations`, those of the repository flow (`workflows.py`).

An attempt carries out one operation, so the attempt stands for the operation
id, and `journal` counts the runners that took it up. The platform is Windows,
the one the code certifies: a job object kills the runner with its supervisor,
and elsewhere no runner is started at all. `retry_at` is abstracted to a choice:
`DispatchPasses` may pass a task in `RETRY_WAIT`.

Left out: the submission of batches after the start, exports and statistics of
`serve`, `reserve` and the repository leases,
`managed-resume` of runs outside the service. The total limit cannot change at
a restart.

### How ExecFlow corresponds to the code

The run is a record again, in `mem` and `saved` (`exec-state.json`), with the
candidate (the git tree of the last snapshot) in the place of the artifact.
`checkout` is the product content of the working tree, which an agent, an agent
that outlived its runner (`AgentWrites`) and a person (`Edit`) change at any
time; `snapshot` is what the inspection after a writer's call saw, `before` the
candidate at its start. `patches` counts the files in `candidates/`, which are
created exclusively: a process that died before its checkpoint leaves one that
stops the next (`PatchFree`). `tainted` is a history variable: an auditor has
changed the checkout, and nobody has put a known content back.

    prepare - drive - prepared - started - agent - ended - completed -
    stored - returned - record  (audit)
                      - save    (implement, repair)
    failed - finish - close - idle        resuming - prepare

`Fail` leads to `failed`, where `SettleError` drops the clean audits and may keep
the partial work of a writer as a candidate. A batch of audits that is used up
pauses the run (`BatchExhausted`); `Resume` by a person grants another one,
`recover` does not. Abstractions are those of `RepositoryFlow`; in addition
findings are there or not, as any finding sends the run to FIX.

### How SimpleFlow corresponds to the code

This flow reads nothing back but a sealed `result.json`: its checkpoints are
never loaded, so `mem` is simply the run as the last process knew it, `result`
the one on disk, and `sealed` says whether `run.yaml` has its digest. `marker` is
`.run.lock`, created exclusively and left behind by a crash until a person
removes it (`RemoveMarker`); `archives` counts `resumptions/resume-NN.json`,
created exclusively too. `attempt` holds the local variables of
`run_file_repair`: one retry of the repair, one of the closure, the seed of the
retry and the candidate.

    locked - resuming - prepare - call(probe) - drive
    call - agent - ended - returned       (probe, audit, review, repair, closure)
    reviewed - drive or check - finish - publish - seal - close - idle

Only the repair in a writable checkout is modelled (the current policy); the
JSON and diff repairs of older policies are left out.

### How RepoPool corresponds to the code

One key of the pool: `record` is `shared/<key>.json`, `trees` the directory of
each generation, as its content compares with what was cloned. The locks are not
variables: who holds the key's lock, shared or exclusively, and who holds
`prepare` follows from `pc` (runs in `readonly`) and `cleaner`, since the kernel
drops the locks of a process that dies. A step under the metadata lock is one
action. `Lease.end` is the check that ended a lease, `Open` while its run reads
and for ever if it dies. `Pollute` and `Restore` change a checkout from outside;
`exposed` remembers who may have been reading.

`clean` has two halves. `PlanClean` is what it reads without a lock: a record
that is not deleted, its path, and that the directory exists; the paths read go
to `plans` and stay there, as any number of processes may clean and each may get
its locks late. From `StartClean` on it holds the locks: it reads the record
again, but keeps the path. So `cleaner` names two generations, the `path` that
`RemoveTree` removes and the one `of` the record that `MarkDeleted` marks; its
event names the latter. The record of a retired generation never changes its
path, the shared one does. `events` are the STARTED events of cleanups that
died; `SettleEvent` is `resource_events` finding one, at any later time.

Left out: writable workspaces (`record_run`, `reserve`, `release`, supervision
and their cleanup), more than one key (keys share nothing).

### How CaseRegistry and Submission correspond to the code

A package is its id, its version and whether it has a second file; two packages
share no file content, so that a mixture can be told from either. The caller's
source directory may change at any time: every time it is read (validation, the
listing, each file) it may hold another package. `register` is the process under
`registry.lock`: reserved (first transaction), copying, placed, published
(second transaction); `LeaveRegister` is its crash or any error. A repeated
request goes on with its number (`Continue`). `submit` is the process under
`submit.lock`: freezing (the files are copied one by one into the batch's
directory), planned, published. What registry and submission share is the
registry's rows and stored packages, which submission reads without
`registry.lock`.

Left out: validation of packages and settings, normalization of names, the
protocol and the execution Spec of a batch (frozen by the same code), and the
expansion of a batch into tasks, a pure function of the request.

## 3. Runs

A starred run expects a violation: it shows that the code does not keep what a
document or a comment says.

| run | instance | distinct states | shows |
|---|---|---|---|
| `repo` | 2 Specs, 3 auditors, 3 audits, pause after 2 rounds, 1 resume | 772,964 | the safety properties of the repository flow, its refinement of `Convergence`, and that every execution ends |
| `sixth_round_pauses`* | the same flow | | a pause is lost in a crash |
| `exec_flow` | 2 trees, 3 auditors, batches of 2 audits, 1 resume | 758,850 | the same for the exec flow |
| `simple_flow` | 3 Specs, 6 audits, pause after 2 rounds | 92,805 | the same for the simple flow |
| `worker` | 1 task, 1 fault, 1 user operation, 2 pending supervisors, both outcomes | 2,489,119 | an operation runs once; results are those of the last attempt; cancellation is final; executors hold their slots and what waits can be carried out, unless an attempt was doubled |
| `scheduler_limits` | 3 tasks in 2 batches, a total and a group limit, a dependency, 1 fault | | the limits |
| `scheduler_liveness` | 2 tasks, one depends on the other, 1 recovery, 1 fault | | slots are freed, nobody starves, contamination spreads; types and the bound on attempts |
| `executor_holds_slot`*, `service_survives`* | as `worker` (without faults for the latter) | | a late duplicate executes without a slot; a user's operation ends the service |
| `repo_pool` | 2 runs, one of them supervised, 2 generations, 3 checks each | 3,720,675 | readers keep their checkout; whoever was exposed is invalid, for good |
| `evidence_kept`* | the same pool | | a cleanup with an old plan removes preserved files |
| `catalog` | 2 requests, 2 names, 4 packages, 2 cases, 1 batch | 507,135 | visible versions, numbers and planned batches are what they say |

### The flows

**Bounds.** `MaxResumes` is the only bound of the models of the repository and
the exec flow; it makes the state space finite, since a person may resume for
ever. The simple flow needs none: only a result that its last execution sealed
as PAUSED can be resumed, once, and executions that pause spend audits. Everything else is a parameter of the
program. Three audits are the fewest with which a finding can fall before,
between and after clean ones and the run can still converge; a streak of 2 lets a
run be one round away from a pause, and pause with budget left; one resume is
enough to settle what the first execution left and to leave something else
behind. Two contents suffice for what is not the artifact, its repair and an edit
that is undone; the simple flow takes three, because a retried repair compares
with two of them. In the exec flow a batch of 2 instead of 6 audits is used up
before, between and after the clean ones, and the resume grants the second batch.
The proofs cover every other value. No symmetry is used in runs with a liveness
property.

**Properties of `repo`.**

* `CountedOnce`: each call whose agent got its prompt is counted once, in the
  checkpoint or by the next resume.
* `BudgetKept`: no more audits begin than `max_audit_rounds`.
* `CleanIsRecent`: clean observations are the latest audits without a gap, of
  the artifact's bytes, by different auditors, with nothing pending.
* `ConvergedSound`: CONVERGED, saved or published, means frozen bytes and two
  clean audits, even when a crash falls between the two files.
* `OneAgent`: no second agent for a run while one is alive.
* `PendingKept`: findings leave the checkpoint only with a saved repair of
  other bytes; no resume, import, error or abort drops them.
* `ImplementsConvergence`: the checkpoints, read as a judgement (artifact,
  auditors of the clean observations, CONVERGED), behave as `Convergence`.
* `ExecutionEnds`: every execution comes to an end.

**Properties of `exec_flow`.**

* `BatchesKept`: audits stay within the batches granted, and a batch is granted
  only when the audits of all earlier ones were really started: neither a
  recovery nor a resume after a crash grants one too early.
* `CleanIsRecent`: clean observations are the latest audits, of the tree that
  is the candidate now. A pause keeps them; writers, findings, errors and
  abandoned audits do not.
* `AuditorNeverPromoted`: what an auditor changed in the checkout never becomes
  the candidate, be it left behind by a crash, a timeout or an orphan. This is
  not obvious, since the partial work of a failed writer does become one.
* `PendingKept`: findings leave the checkpoint only with the repair of the same
  execution.
* `ImplementsConvergence`, `ExecutionEnds` as above.

**Properties of `simple_flow`.**

* `BudgetKept`: over all executions no more audits start than the budget allows,
  and a run that goes on, or that may be resumed, has one left. The test at the
  head of `drive_simple` therefore never stops anything: the stop decision and
  `resume_run` have tested the budget before.
* `ResumesWhatPaused`: a resume takes up exactly the run its last process left
  PAUSED, with pending findings and no agent alive. A crash after a resume leaves
  the old PAUSED result on disk, still sealed; what stops a second resume from it
  is only that the archive `resume-NN.json` is created exclusively.
* `CleanIsRecent`, `ImplementsConvergence` (with audits for auditors: this flow
  does not compare sessions), `ExecutionEnds`.

**Fairness.** `WF_vars(Step)` in all three: a process that lives goes on, and an
agent ends since the adapter kills it at its timeout. Nothing is assumed of
people, of crashes, of interrupts or of orphans. `ExecutionEnds` needs no more:
each turn of a loop starts a call, fails or stops, retries are bounded, and
audits are counted even when they fail.

### Scheduler and workers

**Bounds.** `MaxFaults` bounds how often something goes
wrong (a process dies, a launch fails, the process table does not answer, a
repository is found contaminated, the service crashes), `Ops` the operations of
users. `MaxPending` saturates: launching more supervisors than it holds is
remembered as that many; with 2 one may be late and find another at work or
gone. The proofs hold for any number. Attempts and
reruns need no bound of their own: recoveries and operations bound them
(`AttemptsAssumption`). One task is enough for everything that concerns an
attempt and its successors, because tasks share nothing but the limits and the
service (flows stop PAUSED, the outcome that goes on, or CONVERGED, the one that
does not); three tasks with two
overlapping limits let a limit be reached by tasks that another limit does not
concern.

**Properties.**

* `WithinLimits`: no limit on tasks in flight is exceeded.
* `SlotUnlessDoubled`: whoever executes is the last attempt of an occupied task,
  however often the service launched it, unless a supervisor of the attempt died
  while another one was on its way. That history is the field `doubled`, set by
  `SupervisorDies` alone; a supervisor that comes too late for a finished attempt,
  or finds the first one at work, does no harm. `ExecutorHoldsSlot`, without the
  exception, is what the documents promise; `executor_holds_slot` refutes it.
* `WaitingCanRun`: a queued start finds no run, a queued continuation a
  checkpoint that allows it, with the same exception.
* `OperationOnce`: no operation is taken up twice, even by duplicates.
* `SettledAgrees`: COMPLETED, PAUSED and WAITING_INPUT are what the last attempt
  left in the run, and nobody works there.
* `CancelWins`: CANCEL_REQUESTED is followed by CANCELLED and nothing else.
* `Settles`, `NoStarvation`, `InvalidSpreads`: slots are freed; what waits is
  started or skipped unless its parent waits for a person; contamination reaches
  the runs that used a repository and those that depend on them.
* `TypeOK` includes the bounds on recoveries and attempts.

**Fairness.** The service goes on while it lives
(`WF_vars(Service)`: a sequential loop), supervisors and runners too (they poll
with deadlines; a flow's agents are killed at their timeouts). `ServiceStarts` is
weakly fair: whoever operates the service starts it again after it ended; the
code leaves that to the operator. `DispatchClaims` of a task is strongly fair:
`retry_at` lies at most a minute ahead, so that a task that is ready again and
again is not passed for ever. Nothing is assumed of users.

### Pool, registry and submission

**Bounds.** `MaxGenerations` bounds the checkouts of a key, `MaxSequence` the
checks counted within one generation (so the leases), `MaxCases` the numbers. Two
generations are needed for a cleanup that is settled when the record names
another generation than the one removed; three checks for a lease that ends
before the last clean check, one that ends after it, and one that is open; a
supervised and an unsupervised run because `stopped` treats them differently. Two
requests race for one number, name or version; the packages differ in id, in
version, and in whether a file of one is missing in the other, so that leftovers
of an earlier copy can be seen. No fairness is assumed and no liveness is
claimed: cleanups, retries and rebuilds are commands of a person. `catalog`
checks deadlock, as some operation is always possible; a pool at its bounds may
stop.

**Properties.**

* `ReadersKeepTree`: while a run reads, nobody clones, removes or retires its
  generation: neither a cleanup that follows an old plan and removes another
  generation than the one it marks, nor one that died and is settled late.
* `EvidenceKept`: the polluted files of a rebuilt generation stay on disk, as the
  comment in `rebuild` says. `evidence_kept` refutes it.
* `ExposedInvalid`: once a pollution is detected, every run that may have read it
  is invalid, whichever run detected it and whichever died before (the interval
  rule of `quarantine`). A change undone before any check is out of the pool's
  sight, as in the code.
* `InvalidKept`: no verdict is taken back by a rebuild, a crash in it or a new
  generation.
* `VersionsSound`: what can be selected has the files it was registered with, the
  default is the highest version, and a registration reported as done is visible.
* `NumbersPermanent`: a number and a name belong for good to the registration
  that took them, also while it is interrupted.
* `BatchesFrozen`: from the moment a plan is written its directory holds exactly
  the registered version the plan names; a published batch is its plan.

### What the code does not keep

Details in `PROJECT.json`, `findings`:

1. The pause after the sixth round is decided in memory after the checkpoint of
   the repair; a crash in between loses it (`sixth_round_pauses`).
2. A supervisor launched a second time starts the runner of an attempt that was
   given up as lost, when its slot is free or its successor at work
   (`executor_holds_slot`).
3. A user's operation between the service's read of a row and its update ends the
   service (`service_survives`).
4. A cleanup that read its path before the generation was quarantined and rebuilt
   removes the files that `rebuild` preserves, and marks the new generation
   deleted, whose checkout stays on disk (`evidence_kept`). No reader and no
   verdict is harmed: `ReadersKeepTree`, `ExposedInvalid` and `InvalidKept` hold.

The models also reach these states, about which no run claims anything, because
no document does or it does so with a qualification: a frozen run whose
execution failed afterwards can be resumed; a repair overwrites an edit made
after its call's last guard; `finish` publishes `result.json` before the
canonical checkpoint; a crash between writing an evidence file and the next
checkpoint leaves a run that can neither be resumed nor aborted (in the simple
flow: never resumed); a repair of the exec flow is compared with the candidate
at the start of its call, so that after a failed repair kept as partial work
going back to the judged code counts as one; a registration that is continued
after a higher version was published adds a lower one, which does not become the
default.

## 4. Proofs

All theorems hold for every value of the constants under the named ASSUMEs of
the modules (placeholders are not values, budgets and streaks are positive, and
the like). TLC evaluates every ASSUME in some run.

| module | theorem | property |
|---|---|---|
| `RepositoryFlowProofs` | `InductiveInvariant` | `Inductive` |
| | `TypeCorrect` | `TypeOK` |
| | `CallsCountedOnce` | `CountedOnce` |
| | `BudgetIsKept` | `BudgetKept` |
| | `SingleAgent` | `OneAgent` |
| | `CleanIsAlwaysRecent` | `CleanIsRecent` |
| | `ConvergedIsSound` | `ConvergedSound` |
| `RepositoryRefinementProofs` | `FindingsStayPending` | `PendingKept` |
| | `RepositoryFlowImplementsConvergence` | `ImplementsConvergence` |
| `ExecProofs` | `ExecutionInvariant` | `ExecInductive` |
| | `ExecTypesHold` | `TypeOK` |
| | `BatchesAreKept` | `BatchesKept` |
| | `CleanStaysRecent` | `CleanIsRecent` |
| | `NoAuditorIsPromoted` | `AuditorNeverPromoted` |
| | `FindingsStayPending` | `PendingKept` |
| | `ExecFlowImplementsConvergence` | `ImplementsConvergence` |
| `SimpleFlowProofs` | `SimpleInvariant` | `SimpleInductive` |
| | `SimpleTypesHold` | `TypeOK` |
| | `SimpleBudgetIsKept` | `BudgetKept` |
| | `SimpleResumesWhatPaused` | `ResumesWhatPaused` |
| | `SimpleCleanHolds` | `SimpleClean` |
| | `SimpleCleanStaysRecent` | `CleanIsRecent` |
| | `SimpleFlowImplementsConvergence` | `ImplementsConvergence` |
| `SchedulerProofs` | `LimitsHold` | `WithinLimits` |
| | `CancellationIsFinal` | `CancelWins` |
| | `ReadsStayGood` | `ReadIsGood` |
| | `RowsInvariant` | `RowsInductive` |
| `AttemptProofs` | `AttemptsHold` | `AttemptInductive` |
| | `SchedulerTypesHold` | `TypeOK` |
| | `OperationsOnce` | `OperationOnce` |
| | `SettledStays` | `SettledAgrees` |
| | `ExecutorsHoldSlots` | `SlotUnlessDoubled` |
| | `WaitersCanRun` | `WaitingCanRun` |
| `RepoPoolProofs` | `PoolInvariant` | `PoolInductive` |
| | `PoolTypesHold` | `TypeOK` |
| | `ReadersAreSafe` | `ReadersKeepTree` |
| | `QuarantineIsSpared` | `VerdictKept` |
| | `VerdictsAreKept` | `InvalidKept` |
| | `ExposedAreInvalid` | `ExposedInvalid` |
| `SubmissionProofs` | `CatalogInvariant` | `CatalogInductive` |
| | `CatalogTypesHold` | `TypeOK` |
| | `VersionsAreSound` | `VersionsSound` |
| | `NumbersArePermanent` | `NumbersPermanent` |
| | `BatchesAreFrozen` | `BatchesFrozen` |

None of the properties is inductive; what each proof needs beside it:

**Repository flow.** That a call is counted once depends on what the
checkpoint, the memory and `invocation.json` say at each place of the process
(`CallRecorded`, `NoCallRecorded`, `Tally` of both runs); that no second agent
starts depends on an orphan always being the one the checkpoint names
(`AgentKnown`); the budget on a stage being entered only with budget left
(`WithinBudget`); clean observations on the active audit being the latest and on
pending findings belonging to phase FIX (`AuditPlaces`, `PendingPhase`,
`RunningPlaces`); soundness of a published CONVERGED on the order of checkpoint
and publication (`ConvergedSaved`). `Inductive` is their conjunction. `TypeStep`,
`CallStep`, `TallyStep`, `AgentStep`, `PlaceStep`, `CleanStep` and
`ConvergedStep` show, group by group and action by action, that a step preserves
it; the theorems follow.

The refinement needs one thing more: several decisions may be taken in memory
between two checkpoints, but only one of them changes the judgement.
`OneDecisionAhead` says so, and `StepImplements` that each save is then one step
of `Convergence` or a stutter.

**Exec flow.** `ExecInductive` has the same groups (`Tally`, `CallRecorded`,
`AgentKnown`, `AuditPlaces`, `PendingPhase`, `Clean`) and three of its own:
`Granted` relates the batches to the audits really started; `Tainted` says that
what an auditor changed is nowhere the candidate and can be in the checkout only
where no writer's snapshot is taken; `PendingSaved` says how the pending findings
in memory may differ from those saved. `ExecAhead` is the counterpart of
`OneDecisionAhead`: the memory differs from the checkpoint by nothing (`Stays`),
by a judgement withdrawn (`Withdraws`) or by one approval (`Approves`); every
save is one of the three, and each maps to `Convergence`.

**Simple flow.** `SimpleInductive` says that audits begun are those counted, with
the one at work; that whoever drives has an audit left; that archives number the
resumes; and that a result which could be resumed and was not archived is the run
in memory. The exclusive archive is what makes the last part inductive.

`SimpleClean` adds what the clean observations need: they are of the present
Spec and adjacent; the last one is the latest audit that was judged (`Judged`:
an audit whose review is still to come does not count); a run with two of them
stands before the decision that ends it; audits and reviews are made when
nothing is pending, and what goes to a closure is not the present Spec
(`StageKnown`). It is no part of `SimpleInductive` but rests on it.

The refinement: `Approvals` and `Decided` read the run as a judgement. A clean
review adds one approval (`ApprovesImplements`), a finding, a repair or a change
of the Spec withdraws all (`WithdrawsImplements`), anything else is a stutter
(`StaysImplements`); `StepImplements` goes through the actions.

**Scheduler.** Both properties depend on rows that were read earlier than they
are written back. `ReadIsGood` says what is known of them: a row that is being
settled was occupied when it was read (`ReadRows`); an operation of a user that
met no conflict finds its task as eligible as before (`CallsEligible`); the rows
in the store are rows (`RowsTyped`). With it, `NextOrderly` shows that each step
of the service, of users and of processes does one of three things to a row
(`Moves`): it leaves the occupied states, and does so to CANCELLED if it was to
be cancelled; it stays in them, and stays to be cancelled; or it is claimed
while the limits leave room. `LimitsHold` and
`CancellationIsFinal` follow from that alone. Processes enter these two only
through the observations, so that nothing about `Worker` is needed.

`RowsInductive` adds `ReadsCurrent` (an occupied row that was read is the row in
the store but for a request to cancel, and no task is read twice in a tick) and
`RowsCounted`: every attempt after the first is paid for by an automatic
recovery or a recorded operation, every rerun by an operation. With
`AttemptsAssumption` this is why `MaxAttempts` and `MaxReruns` bound nothing.

**Attempts.** `AttemptInductive` ties `Scheduler` to `Worker`. Its parts: an
attempt's files and processes go together (`AttemptsSound`); an attempt is
requested once its row names it, and for the run of the row
(`AttemptsRequested`); a run is what the attempts that began in it made of it
(`RunsBegun`); whoever executes in a run began last in it, so there is one at
most (`ExecutorsBegan`); a request to continue carries a revision that an
earlier attempt left (`RevisionsEarlier`), so that a late duplicate finds another
revision and begins nothing; and an outcome, observed or recorded, is what the
row's attempt left in the run (`OutcomesStay`). `OperationOnce` is one line of
it, `SettledAgrees` the last part. Both hold for any number of supervisors of one
attempt.

`SlotUnlessDoubled` and `WaitingCanRun` rest on `SlotInductive`, also for any
number of supervisors: what can still execute (`CanRun`: a supervisor lives or is
on its way, and no `finished.json` stops it) is the present attempt of an
occupied task, and no longer once the attempt was seen to end; where the only
supervisor died, none is on its way (`DiedAlone`). Both are said of attempts that
are not doubled (`SlotsHeld`): in a doubled one the late supervisor can run, and
the service has given the attempt up (finding 2). The service
and the users abort only runs that were given up, however late the abort comes
(`AbortsGivenUp`); and an operation that met no conflict is still allowed when it
is committed (`CallsAllowed`), which `WaitingCanRun` needs at that commit. The
proofs assume that there are tasks and that no task is listed twice
(`SchedulerAssumption`).

**Pool.** `PoolInductive`: the locks exclude each other (`LocksStep`); what a
preparer found under the prepare lock is still so when it has the exclusive one
(`ClonesStep`); generations grow, so that a late settlement of an old one cannot
meet the present (`GenerationsStep`); a cleanup under way marks no quarantined
record, and if it removes the present generation it is that one's record it has
read (`CleanerStep`); that is why readers are safe although the path of a cleanup
may be of any age. A quarantined checkout stays until it is rebuilt, and then has
its verdict in the archive (`VerdictStep`). `ExposedFound` is for `ExposedInvalid`: until a quarantine
whoever was exposed holds an open lease, and a generation whose content is as it
was cloned exposes nobody; from the quarantine on the exposed and all who still
hold a lease are invalid, since the interval rule of `quarantine` takes every
open lease, and nobody is let in any more.

**Registry and submission.** `CatalogInductive`: a copy goes only to a slot no
row knows; the tree of a package tells it from every other (`TreeTells`); the
default is the highest version; a number given out stays with its row; a batch
that is being frozen has no plan, and what it copies from is a registered version
that stays.

**Only model-checked**: liveness under fairness (`ExecutionEnds` of the three
flows, `Settles`, `NoStarvation`, `InvalidSpreads`), which is beyond the proof
system. Every invariant and action property that a passing run checks is a
theorem, so is each refinement. The closure in `Affected` is a recursive function;
no proof needs what it computes, because `Moves` holds for every set of affected
tasks.

## 5. Plan

Done, with their proofs: the three flows, the scheduler with its workers, the
read-only pool, the registry and submission.

1. The writable workspaces of the pool (`record_run`, supervision, `reserve`,
   `release` and their cleanup), with the scheduler's reservations.
2. `EvidenceExport` (deduplication of resource events) and `InvocationMonitor`
   (completion, pending tools, timeouts, forced cleanup).
3. An abstract specification of an attempt (submitted, executing, settled once)
   and `Scheduler` with `Worker` as its implementation.
4. Proofs of what 1 to 3 add: the locks of writable workspaces, and the
   refinement of the attempt from `AttemptInductive` and `SlotInductive`.

**Not modelled.** Statistics and pricing (read-only aggregation of finished
runs), command lines (parsing and dispatch), the MCP servers (file access without
protocol state), case snapshots, protocols and parsers (the flows use their
outcomes: valid, invalid, findings), providers, accounting and redaction
(transport and formatting around one agent process), and the legacy flow
`spec-mrac-v1` (one sequential pass without resume). `PROJECT.json` lists them
with their reasons.
