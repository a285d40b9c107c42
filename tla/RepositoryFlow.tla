--------------------------- MODULE RepositoryFlow ---------------------------
(***************************************************************************)
(* One run of the workflow repository-spec-freeze (spec-mrac-v2@6): the    *)
(* runner of mracbench/repository_flow.py with the Invoker, the checkpoint *)
(* store and the evidence check it drives, the agent process it starts,    *)
(* the person who edits working/spec.md, and crashes at any point.         *)
(*                                                                         *)
(* The process keeps the run in memory ("mem") and writes it to            *)
(* repository-state.json at its checkpoints ("saved"); a crash loses the   *)
(* difference, and leaves behind the evidence files the checkpoint does    *)
(* not know.                                                               *)
(***************************************************************************)
EXTENDS Transitions, Session, FiniteSets

CONSTANTS
    Specs,        \* the contents a Spec file can have (bytes, up to digest)
    NoSpec,       \* frozen_spec_sha256 before a run froze
    Auditors,     \* the session ids an audit agent can report
    Maximum,      \* max_audit_rounds of the run (8 unless given)
    PauseStreak,  \* rounds with P0-P2 findings that pause a run (6)
    MaxResumes    \* bound of the model: how often a person resumes

ASSUME SpecsAssumption == NoSpec \notin Specs
ASSUME BudgetAssumption == Maximum \in Nat \ {0} /\ PauseStreak \in Nat \ {0}
ASSUME ResumesAssumption == MaxResumes \in Nat

VARIABLES
    mem,         \* the run in the memory of the process
    saved,       \* the run in repository-state.json
    pc,          \* where the process stands, "idle" without a process
    working,     \* the content of working/spec.md
    prompted,    \* the content the request of the present call shows
    invocation,  \* invocation.json of the last call
    agents,      \* agent processes alive that have received a prompt
    unsaved,     \* evidence files exist that repository-state.json omits
    published,   \* the status in result.json, "none" before there is one
    begun        \* history: calls whose agent received its prompt, by role

vars == <<mem, saved, pc, working, prompted, invocation, agents, unsaved,
          published, begun>>

Roles == {"audit", "repair"}
Phases == {"AUDIT", "FIX", "FROZEN", "PAUSED", "ABORTED"}

\* AGENT_ERROR stands for every failure the adapter reports (TIMEOUT,
\* PROVIDER_ERROR, EXECUTION_ENVIRONMENT_ERROR, ...).
Resumable == {"RUNNING", "PAUSED", "NEEDS_INPUT", "AGENT_ERROR",
              "AUDIT_INVALID", "FIX_INVALID", "AUDIT_STALE",
              "INTERNAL_ERROR", "REPOSITORY_ERROR",
              "REPOSITORY_ACCESS_ERROR"}
Statuses == Resumable \cup {"CONVERGED", "NON_CONVERGED", "ABORTED",
                            "PROTOCOL_VIOLATION"}

\* Inside execute(): the points where an exception is still caught.
Executing == {"prepare", "drive", "read", "prepared", "started", "agent",
              "ended", "completed", "returned", "record", "save", "after"}
Places == Executing \cup {"idle", "resuming", "finish", "close"}

Observation == [audit: Nat, auditor: Auditors, sha: Specs]
Run == [phase: Phases, status: Statuses, clean: Seq(Observation),
        streak: Nat, pending: Nat, active: Nat, sequence: Nat,
        auditors: SUBSET Auditors, resumes: Nat,
        lastCall: [role: Roles \cup {"none"}, before: Nat],
        artifact: Specs, rounds: [Roles -> Nat],
        frozen: Specs \cup {NoSpec}, manifest: BOOLEAN]

TypeOK ==
    /\ mem \in Run
    /\ saved \in Run
    /\ pc \in Places
    /\ working \in Specs
    /\ prompted \in Specs
    /\ invocation \in Invocations
    /\ agents \in Nat
    /\ unsaved \in BOOLEAN
    /\ published \in Statuses \cup {"none"}
    /\ begun \in [Roles -> Nat]
-----------------------------------------------------------------------------
\* run_repository_flow, up to and including the checkpoint "copied".
NewRun(spec) ==
    [phase |-> "AUDIT", status |-> "RUNNING", clean |-> <<>>, streak |-> 0,
     pending |-> NoAudit, active |-> NoAudit, sequence |-> 0,
     auditors |-> {}, resumes |-> 0, lastCall |-> NoCall, artifact |-> spec,
     rounds |-> [role \in Roles |-> 0], frozen |-> NoSpec,
     manifest |-> FALSE]

Init ==
    /\ \E spec \in Specs : /\ mem = NewRun(spec)
                           /\ working = spec
                           /\ prompted = spec
    /\ saved = mem
    /\ pc = "prepare"
    /\ invocation = "absent"
    /\ agents = 0
    /\ unsaved = FALSE
    /\ published = "none"
    /\ begun = [role \in Roles |-> 0]

\* What a process touches besides the run it holds.
disk == <<working, invocation, unsaved, published>>
callVars == <<prompted, agents, begun>>

\* CheckpointStore.checkpoint: repository-state.json takes the run and the
\* digests of every evidence file written so far.
Checkpoint(run) ==
    /\ mem' = run
    /\ saved' = run
    /\ unsaved' = FALSE
    /\ UNCHANGED <<working, published>>

\* Bug: an error sends the run back to its first phase.
BugFail(run, kind) ==
    /\ mem' = [run EXCEPT !.status = kind, !.phase = "AUDIT",
                          !.pending = NoAudit]
    /\ pc' = "finish"

\* A BenchError reaches execute(), which keeps its kind as the status.
Fail(run, kind) ==
    /\ mem' = [run EXCEPT !.status = kind]
    /\ pc' = "finish"

\* Engine.guard: the working Spec still is the artifact under audit.
Guard == working = mem.artifact

\* Bug: one audit too many.
BugBudgetLeft == mem.rounds["audit"] <= Maximum

\* Another audit, or the repair before it, is within the budget.
BudgetLeft == mem.rounds["audit"] < Maximum

\* The stage in flight is an audit if one is active, else a repair.
Role == IF mem.active # NoAudit THEN "audit" ELSE "repair"
-----------------------------------------------------------------------------
(***************************************************************************)
(* execute() and Engine.drive                                              *)
(***************************************************************************)

\* The repository is checked out; the first time its manifest and the list
\* of its instruction files become evidence that no checkpoint knows yet.
PrepareRepository ==
    /\ pc = "prepare"
    /\ \/ /\ pc' = "drive"
          /\ mem' = [mem EXCEPT !.manifest = TRUE]
          /\ unsaved' = (unsaved \/ ~mem.manifest)
       \/ /\ mem.resumes = 0  \* a resume has prepared the repository before
          /\ Fail(mem, "REPOSITORY_ERROR")
          /\ UNCHANGED unsaved
    /\ UNCHANGED <<saved, working, invocation, published, callVars>>

\* Another round of the loop finds the working Spec edited.
DriveStale ==
    /\ pc = "drive"
    /\ mem.status = "RUNNING"
    /\ ~Guard
    /\ Fail(mem, "AUDIT_STALE")
    /\ UNCHANGED <<saved, disk, callVars>>

\* The audit budget is spent: the findings of the last audit stay unrepaired.
BudgetExhausted ==
    /\ pc = "drive"
    /\ mem.status = "RUNNING"
    /\ Guard
    /\ ~BudgetLeft
    /\ mem' = [mem EXCEPT !.status = "NON_CONVERGED"]
    /\ UNCHANGED <<saved, pc, disk, callVars>>

\* The loop goes on with the repair of pending findings or a new audit.
NextStage ==
    /\ pc = "drive"
    /\ mem.status = "RUNNING"
    /\ Guard
    /\ BudgetLeft
    /\ mem' = IF mem.phase = "FIX" THEN mem
              ELSE [mem EXCEPT !.sequence = @ + 1,
                               !.active = mem.sequence + 1]
    /\ pc' = "read"
    /\ UNCHANGED <<saved, disk, callVars>>

\* The loop has ended; execute() checks the working Spec a last time.
LeaveLoop ==
    /\ pc = "drive"
    /\ mem.status # "RUNNING"
    /\ pc' = "finish"
    /\ mem' = IF Guard THEN mem ELSE [mem EXCEPT !.status = "AUDIT_STALE"]
    /\ UNCHANGED <<saved, disk, callVars>>
-----------------------------------------------------------------------------
(***************************************************************************)
(* Engine.call and Invoker: one call of an agent                           *)
(***************************************************************************)

\* The inputs of the call are read from the working Spec as it is now, and
\* the call is recorded before anything of it happens.
PrepareCall ==
    /\ pc = "read"
    /\ prompted' = working
    /\ Checkpoint([mem EXCEPT !.lastCall =
                       [role |-> Role, before |-> mem.rounds[Role]]])
    /\ invocation' = "absent"
    /\ pc' = "prepared"
    /\ UNCHANGED <<agents, begun>>

\* The repository and the working Spec are checked before the agent starts.
BeginCall ==
    /\ pc = "prepared"
    /\ \/ Guard /\ pc' = "started" /\ Checkpoint(mem)
       \/ /\ ~Guard
          /\ Fail(mem, "AUDIT_STALE")
          /\ UNCHANGED <<saved, working, unsaved, published>>
       \/ /\ Fail(mem, "PROTOCOL_VIOLATION")
          /\ UNCHANGED <<saved, working, unsaved, published>>
    /\ UNCHANGED <<invocation, callVars>>

\* The adapter writes "started" and the pid, then sends the prompt.
StartAgent ==
    /\ pc = "started"
    /\ pc' = "agent"
    /\ invocation' = "started"
    /\ agents' = agents + 1
    /\ begun' = [begun EXCEPT ![Role] = @ + 1]
    /\ UNCHANGED <<mem, saved, working, prompted, unsaved, published>>

\* Bug: a call that cannot start is tried again.
BugCannotStart ==
    /\ pc = "started"
    /\ pc' = "prepared"
    /\ UNCHANGED <<mem, saved, disk, callVars>>

\* The adapter could not start an agent: the call fails without counting.
CannotStart ==
    /\ pc = "started"
    /\ saved' = mem
    /\ unsaved' = FALSE
    /\ Fail(mem, IF Guard THEN "AGENT_ERROR" ELSE "AUDIT_STALE")
    /\ UNCHANGED <<working, invocation, published, callVars>>

\* The agent exits, or is killed at its timeout, and ended_at is written.
AgentEnds ==
    /\ pc = "agent"
    /\ pc' = "ended"
    /\ invocation' = "ended"
    /\ agents' = agents - 1
    /\ UNCHANGED <<mem, saved, working, prompted, unsaved, published, begun>>

\* The started call is counted in memory.
Counted == [mem EXCEPT !.rounds[Role] = @ + 1]

\* The call succeeded, with the working Spec and the repository unchanged.
CompleteCall ==
    /\ pc = "ended"
    /\ Guard
    /\ Checkpoint(Counted)
    /\ pc' = "completed"
    /\ UNCHANGED <<invocation, callVars>>

\* It failed: checkpoint ":failed", then the error goes up.
FailCall ==
    /\ pc = "ended"
    /\ \E kind \in {"AGENT_ERROR", "AUDIT_STALE", "PROTOCOL_VIOLATION"} :
          /\ kind = "AUDIT_STALE" => ~Guard
          /\ kind = "AGENT_ERROR" => Guard
          /\ Fail(Counted, kind)
    /\ saved' = Counted
    /\ unsaved' = FALSE
    /\ UNCHANGED <<working, invocation, published, callVars>>

\* Engine.call clears last_call and saves again.
ReturnCall ==
    /\ pc = "completed"
    /\ Checkpoint([mem EXCEPT !.lastCall = NoCall])
    /\ pc' = "returned"
    /\ UNCHANGED <<invocation, callVars>>
-----------------------------------------------------------------------------
(***************************************************************************)
(* Engine.audit after its call                                             *)
(***************************************************************************)

\* The tool events show no read of the fixed repository.
AuditUnread ==
    /\ pc = "returned"
    /\ Role = "audit"
    /\ Fail(mem, "REPOSITORY_ACCESS_ERROR")
    /\ UNCHANGED <<saved, disk, callVars>>

\* The session id was used before, or the reply is not a valid audit; an id
\* is kept once it is known to be new.
AuditInvalid ==
    /\ pc = "returned"
    /\ Role = "audit"
    /\ \E known \in {{}} \cup {{auditor} : auditor \in Auditors} :
          Fail([mem EXCEPT !.auditors = @ \cup known], "AUDIT_INVALID")
    /\ UNCHANGED <<saved, disk, callVars>>

\* The audit record is written, then the findings decide in memory.  The
\* reuse check inside clean_observations never fires after this one.
JudgeAudit ==
    /\ pc = "returned"
    /\ Role = "audit"
    /\ \E auditor \in Auditors \ mem.auditors, findings \in Findings :
          mem' = RepositoryAudited(
                     [mem EXCEPT !.auditors = @ \cup {auditor}],
                     mem.active, auditor, findings)
    /\ unsaved' = TRUE
    /\ pc' = "record"
    /\ UNCHANGED <<saved, working, invocation, published, callVars>>

RecordAudit ==
    /\ pc = "record"
    /\ Checkpoint(mem)
    /\ pc' = "drive"
    /\ UNCHANGED <<invocation, callVars>>
-----------------------------------------------------------------------------
(***************************************************************************)
(* Engine.repair after its call                                            *)
(***************************************************************************)

\* The reply is no valid repair, or the checkout changed elsewhere.
RepairInvalid ==
    /\ pc = "returned"
    /\ Role = "repair"
    /\ \E kind \in {"FIX_INVALID", "PROTOCOL_VIOLATION"} : Fail(mem, kind)
    /\ UNCHANGED <<saved, disk, callVars>>

\* The agent asks for input: the findings stay pending, phase stays FIX.
RepairNeedsInput ==
    /\ pc = "returned"
    /\ Role = "repair"
    /\ mem' = [mem EXCEPT !.status = "NEEDS_INPUT"]
    /\ unsaved' = TRUE
    /\ pc' = "drive"
    /\ UNCHANGED <<saved, working, invocation, published, callVars>>

\* New bytes: the repair record and the artifact are written, then the
\* working Spec is overwritten, whatever it holds by now.
WriteRepair ==
    /\ pc = "returned"
    /\ Role = "repair"
    /\ \E spec \in Specs \ {prompted, mem.artifact} :
          /\ working' = spec
          /\ mem' = SpecRepaired(mem, spec)
    /\ unsaved' = TRUE
    /\ pc' = "save"
    /\ UNCHANGED <<saved, invocation, published, callVars>>

SaveRepair ==
    /\ pc = "save"
    /\ Checkpoint(mem)
    /\ pc' = "after"
    /\ UNCHANGED <<invocation, callVars>>

\* The stop decision, in memory; a pause writes its record.
AfterRepair ==
    /\ pc = "after"
    /\ mem' = RepositoryAfterRepair(mem, Maximum, PauseStreak)
    /\ unsaved' = (mem'.status = "PAUSED")
    /\ pc' = "drive"
    /\ UNCHANGED <<saved, working, invocation, published, callVars>>
-----------------------------------------------------------------------------
(***************************************************************************)
(* The end of an execution                                                 *)
(***************************************************************************)

\* Anything else that is raised, a KeyboardInterrupt included: the adapter
\* turns it into a failed call while an agent runs.
Interrupt ==
    /\ pc \in Executing \ {"agent"}
    /\ Fail(mem, "INTERNAL_ERROR")
    /\ UNCHANGED <<saved, disk, callVars>>

\* CheckpointStore.finish first writes run.yaml, state.json and result.json.
PublishResult ==
    /\ pc = "finish"
    /\ published' = mem.status
    /\ pc' = "close"
    /\ UNCHANGED <<mem, saved, working, invocation, unsaved, callVars>>

\* Then repository-state.json, stage "finished"; the lock is released.
CloseRun ==
    /\ pc = "close"
    /\ Checkpoint(mem)
    /\ pc' = "idle"
    /\ UNCHANGED <<invocation, callVars>>

\* The process dies.  Its agent may survive it.
Crash ==
    /\ pc # "idle"
    /\ pc' = "idle"
    /\ mem' = saved
    /\ UNCHANGED <<saved, disk, callVars>>

\* An agent that lost its runner ends without writing ended_at.
OrphanDies ==
    /\ pc # "agent"
    /\ agents > 0
    /\ agents' = agents - 1
    /\ UNCHANGED <<mem, saved, pc, disk, prompted, begun>>
-----------------------------------------------------------------------------
(***************************************************************************)
(* What a person does                                                      *)
(***************************************************************************)

\* working/spec.md may be revised at any time, by any program.
Edit ==
    /\ working' \in Specs \ {working}
    /\ UNCHANGED <<mem, saved, pc, prompted, invocation, unsaved, published,
                   agents, begun>>

\* load_session: every evidence file is registered, and a frozen Spec is the
\* frozen one.
Loads ==
    /\ ~unsaved
    /\ saved.phase = "FROZEN" => working = saved.frozen

\* resume_repository_run.  "current" is the working Spec, or the imported
\* --spec-file.  A waiting run needs an answer or a new Spec.
Resume ==
    /\ pc = "idle"
    /\ Loads
    /\ saved.status \in Resumable
    /\ ~AgentStillAlive(saved, invocation, agents)
    /\ saved.resumes < MaxResumes
    /\ \E answered, imported \in BOOLEAN, current \in Specs :
          /\ answered => saved.phase = "FIX"
          /\ ~imported => current = working
          /\ saved.status = "NEEDS_INPUT" =>
                 answered \/ imported \/ current # saved.artifact
          /\ LET run == ReconcileInvocation(saved, invocation, TRUE)
                 paused == run.phase = "PAUSED"
             IN  mem' = [run EXCEPT
                            !.artifact = current,
                            !.phase = IF paused THEN "AUDIT" ELSE @,
                            !.streak = IF paused THEN 0 ELSE @,
                            !.resumes = @ + 1,
                            !.status = "RUNNING"]
    /\ unsaved' = TRUE
    /\ pc' = "resuming"
    /\ UNCHANGED <<saved, working, invocation, published, callVars>>

\* The repository is prepared and the resumption recorded; a new artifact
\* is written over the working Spec, then the checkpoint "resumed".
Resumed ==
    /\ pc = "resuming"
    /\ saved' = mem
    /\ unsaved' = FALSE
    /\ working' = IF mem.artifact # saved.artifact THEN mem.artifact ELSE working
    /\ pc' = "prepare"
    /\ UNCHANGED <<mem, invocation, published, callVars>>

\* inspect_repository_run with a reason: the abort is recorded and final.
Abort ==
    /\ pc = "idle"
    /\ Loads
    /\ saved.phase \notin {"FROZEN", "ABORTED"}
    /\ ~AgentStillAlive(saved, invocation, agents)
    /\ mem' = [ReconcileInvocation(saved, invocation, TRUE) EXCEPT
                  !.phase = "ABORTED", !.status = "ABORTED"]
    /\ unsaved' = TRUE
    /\ pc' = "finish"
    /\ UNCHANGED <<saved, working, invocation, published, callVars>>
-----------------------------------------------------------------------------
\* The steps of a process that runs; all of them are eventually taken.
Step ==
    \/ PrepareRepository
    \/ DriveStale \/ BudgetExhausted \/ NextStage \/ LeaveLoop
    \/ PrepareCall \/ BeginCall \/ StartAgent \/ CannotStart \/ AgentEnds
    \/ CompleteCall \/ FailCall \/ ReturnCall
    \/ AuditUnread \/ AuditInvalid \/ JudgeAudit \/ RecordAudit
    \/ RepairInvalid \/ RepairNeedsInput \/ WriteRepair \/ SaveRepair
    \/ AfterRepair
    \/ PublishResult \/ CloseRun
    \/ Resumed

Environment == Interrupt \/ Crash \/ OrphanDies \/ Edit \/ Resume \/ Abort

Next == Step \/ Environment

Spec == Init /\ [][Next]_vars

\* A live process keeps going (agents are killed at their timeout); nobody
\* has to resume, edit, interrupt or abort.
FairSpec == Spec /\ WF_vars(Step)
-----------------------------------------------------------------------------
(***************************************************************************)
(* Safety                                                                  *)
(***************************************************************************)

\* Every call whose agent got its prompt is counted exactly once, however
\* the process ended: the saved counter, plus the one call that a resume
\* will still count (Invoker's counters, reconcile_invocation).
CountedOnce ==
    \A role \in Roles :
        begun[role] = saved.rounds[role]
                        + IF Uncounted(saved, invocation, role) THEN 1 ELSE 0

\* No crash, error or resume lets a run start more audits than its budget
\* (the checks of Engine.drive, "resume does not extend the budget").
BudgetKept == begun["audit"] <= Maximum

\* The clean observations are the latest audits without a gap, of the bytes
\* that are the artifact now, by different auditors whose ids are recorded:
\* a repair, a finding, an abandoned audit or an imported Spec clears them.
CleanIsCurrent(run) ==
    LET last == IF run.active # NoAudit THEN run.active - 1 ELSE run.sequence
        length == Len(run.clean)
    IN  /\ length <= 2
        /\ \A i \in 1..length :
              /\ run.clean[i].sha = run.artifact
              /\ run.clean[i].auditor \in run.auditors
              /\ run.clean[i].audit = last - (length - i)
        /\ length = 2 => run.clean[1].auditor # run.clean[2].auditor
        /\ run.pending # NoAudit => length = 0

CleanIsRecent == CleanIsCurrent(saved) /\ CleanIsCurrent(mem)

\* A run that is CONVERGED, in its checkpoint or in the published result,
\* froze the bytes that two auditors in a row found clean.
ConvergedSound ==
    "CONVERGED" \in {saved.status, published} =>
        /\ saved.status = "CONVERGED"
        /\ saved.phase = "FROZEN"
        /\ saved.frozen = saved.artifact
        /\ Len(saved.clean) = 2
        /\ saved.pending = NoAudit

\* Two agents never work for the same run at the same time
\* (unfinished_invocation refuses to resume beside a live one).
OneAgent == agents <= 1

\* Pending findings leave the checkpoint only when a repair that changed the
\* bytes is saved: no resume, import, error or abort drops or replaces them.
PendingKept ==
    [][saved.pending # NoAudit /\ saved'.pending # saved.pending =>
           /\ saved'.pending = NoAudit
           /\ saved'.artifact # saved.artifact
           /\ saved'.resumes = saved.resumes
           /\ saved'.phase = "AUDIT"]_saved

\* The checkpoint, read as a judgement of a Spec.
Judgement == INSTANCE Convergence WITH
    spec <- saved.artifact,
    approvals <- {saved.clean[i].auditor : i \in DOMAIN saved.clean},
    frozen <- saved.status = "CONVERGED"

\* Across crashes, resumes and edits the sequence of checkpoints is a run of
\* the abstract Convergence: no Spec is frozen on approvals of other bytes,
\* on one auditor's two approvals, or over an objection.
ImplementsConvergence == Judgement!Spec

\* Every execution comes to an end: no error, edit or repair keeps the loop
\* of Engine.drive going past the budget.
ExecutionEnds == (pc # "idle") ~> (pc = "idle")
-----------------------------------------------------------------------------
(***************************************************************************)
(* What the documentation or a comment promises and the code does not keep *)
(***************************************************************************)

\* The sixth round with P0-P2 findings pauses the run after its repair: no
\* audit starts on a full streak ("Pause AFTER the sixth repair").
SixthRoundPauses ==
    pc = "agent" /\ Role = "audit" => mem.streak < PauseStreak
=============================================================================
