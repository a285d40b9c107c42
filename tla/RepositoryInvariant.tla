------------------------- MODULE RepositoryInvariant -------------------------
(***************************************************************************)
(* The inductive invariant behind the safety properties of RepositoryFlow: *)
(* what holds of the memory, the checkpoint and the call record at each    *)
(* place of the runner.                                                    *)
(***************************************************************************)
EXTENDS RepositoryFlow

\* From the checkpoint that records a call to the one that closes it.
Calling == {"prepared", "started", "agent", "ended", "completed"}

\* The calls begun are those a run has counted, and the one it will count.
Tally(run) ==
    \A role \in Roles :
        begun[role] = run.rounds[role]
                        + IF Uncounted(run, invocation, role) THEN 1 ELSE 0

\* The call record between its writing and its clearing: it names the stage
\* in flight and the counter before it, and invocation.json is its own.
CallRecorded ==
    /\ pc \in Calling =>
          /\ saved = mem
          /\ mem.lastCall.role = Role
    /\ pc \in Calling \ {"completed"} => mem.lastCall.before = mem.rounds[Role]
    /\ pc = "completed" => mem.rounds[Role] = mem.lastCall.before + 1
    /\ pc \in {"prepared", "started"} => invocation = "absent"
    /\ pc = "agent" => invocation = "started"
    /\ pc \in {"ended", "completed"} => invocation = "ended"

\* Outside of a call none is recorded in memory.
NoCallRecorded ==
    pc \in (Executing \ Calling) \cup {"resuming"} => mem.lastCall = NoCall

\* Whoever runs without having ended has a process at "agent", or is an
\* orphan that the checkpoint and invocation.json still name.
AgentKnown ==
    /\ pc = "agent" => agents = 1
    /\ pc \notin {"agent", "idle"} => agents = 0
    /\ pc = "idle" /\ agents # 0 =>
          agents = 1 /\ saved.lastCall # NoCall /\ invocation = "started"

\* A stage is entered only within the audit budget.
WithinBudget ==
    pc \in {"read", "prepared", "started", "agent", "ended"} => BudgetLeft

\* Between stages no audit is active; one that is, is the latest.
LatestAudit(run) == run.active # NoAudit => run.active = run.sequence

AuditPlaces ==
    /\ pc \in {"prepare", "drive", "resuming", "record", "save", "after"} =>
          mem.active = NoAudit
    /\ LatestAudit(mem)
    /\ LatestAudit(saved)

\* Findings are pending in FIX, and in an aborted run.
PendingPhase(run) ==
    run.phase \in {"AUDIT", "FROZEN", "PAUSED"} => run.pending = NoAudit

\* A process that goes on works for a run that is RUNNING and not aborted.
RunningPlaces ==
    /\ pc \in (Executing \ {"drive", "record"}) \cup {"resuming"} =>
          mem.status = "RUNNING"
    /\ pc \in Executing \cup {"resuming"} => mem.phase # "ABORTED"
    /\ pc \in Calling \cup {"read", "returned"} =>
          (mem.phase = "FIX" <=> Role = "repair")
    /\ pc \in {"save", "after"} => mem.pending = NoAudit
    /\ mem.phase = "ABORTED" => mem.status = "ABORTED"
    /\ saved.phase = "ABORTED" => saved.status = "ABORTED"

\* What a run that is CONVERGED has found.
Sound(run) ==
    run.status = "CONVERGED" =>
        /\ run.phase = "FROZEN"
        /\ run.frozen = run.artifact
        /\ Len(run.clean) = 2

\* Only a checkpoint that is CONVERGED lets the process publish it.
ConvergedSaved ==
    /\ mem.status = "CONVERGED" /\ pc # "record" => saved.status = "CONVERGED"
    /\ published = "CONVERGED" =>
          /\ pc \in {"idle", "close"}
          /\ mem.status = "CONVERGED"

\* Without a process there is only the checkpoint.
IdleIsSaved == pc = "idle" => mem = saved

\* Together, an invariant that every step preserves by itself.
Inductive ==
    /\ TypeOK
    /\ Tally(mem) /\ Tally(saved)
    /\ CallRecorded /\ NoCallRecorded
    /\ AgentKnown
    /\ WithinBudget /\ BudgetKept
    /\ AuditPlaces
    /\ PendingPhase(mem) /\ PendingPhase(saved)
    /\ CleanIsCurrent(mem) /\ CleanIsCurrent(saved)
    /\ RunningPlaces
    /\ Sound(mem) /\ Sound(saved)
    /\ ConvergedSaved
    /\ IdleIsSaved
-----------------------------------------------------------------------------
(***************************************************************************)
(* How far the memory of the process can be from its checkpoint: by one    *)
(* decision at most, which the next checkpoint saves or a crash undoes.    *)
(***************************************************************************)

\* Nothing of the judgement was decided since the checkpoint.
NothingDecided ==
    /\ mem.artifact = saved.artifact
    /\ mem.clean = saved.clean
    /\ mem.pending = saved.pending
    /\ mem.resumes = saved.resumes

\* A resume, with or without another Spec, or an abort.
ApprovalsWithdrawn ==
    /\ mem.clean = <<>>
    /\ mem.pending = saved.pending

\* An audit was judged: findings, or one more clean observation.
AuditJudged ==
    /\ mem.artifact = saved.artifact
    /\ saved.pending = NoAudit
    /\ \/ mem.clean = <<>>
       \/ /\ mem.clean # <<>>
          /\ mem.clean = Append(saved.clean, mem.clean[Len(mem.clean)])

\* A repair replaced the artifact.
ArtifactReplaced ==
    /\ mem.artifact # saved.artifact
    /\ mem.clean = <<>>
    /\ mem.pending = NoAudit
    /\ mem.resumes = saved.resumes
    /\ mem.phase = "AUDIT"

\* A run that goes on is open to one more approval.
Open(run) == run.status = "RUNNING" => Len(run.clean) < 2

\* Preserved by every step that starts where Inductive holds.
OneDecisionAhead ==
    /\ pc \in (Executing \ {"record", "save"}) \cup {"idle"} => NothingDecided
    /\ pc = "resuming" => ApprovalsWithdrawn
    /\ pc = "record" => AuditJudged
    /\ pc = "save" => ArtifactReplaced
    /\ pc \in {"finish", "close"} =>
          \/ NothingDecided \/ ApprovalsWithdrawn
          \/ AuditJudged \/ ArtifactReplaced
    /\ Open(mem) /\ Open(saved)
    /\ saved.status = "CONVERGED" =>
          /\ NothingDecided
          /\ pc \in {"drive", "finish", "close", "idle"}
          /\ pc = "drive" => mem.status = "CONVERGED"
=============================================================================
