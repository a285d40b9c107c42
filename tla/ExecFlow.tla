------------------------------ MODULE ExecFlow ------------------------------
(***************************************************************************)
(* One run of the workflow exec-mrac (exec-mrac-v1): mracbench/exec_flow.py *)
(* with the Invoker, the checkpoint store and the evidence check it drives, *)
(* the agents that write or judge the code, the person at the checkout, and *)
(* crashes at any point.                                                    *)
(*                                                                          *)
(* The code under work is a git checkout; what the flow knows of it is the  *)
(* candidate, the last snapshot it saved.  "mem" is the run in the memory   *)
(* of the process, "saved" the one in exec-state.json.                      *)
(***************************************************************************)
EXTENDS Transitions, Session, FiniteSets

CONSTANTS
    Trees,      \* the product contents a checkout can have (git trees)
    NoTree,     \* the candidate before the first snapshot
    Auditors,   \* the session ids an auditor can report
    BatchSize,  \* audits of one batch (6 in the code)
    MaxResumes  \* bound of the model: how often a person resumes

ASSUME TreesAssumption == NoTree \notin Trees
ASSUME BatchAssumption == BatchSize \in Nat \ {0}
ASSUME ResumesAssumption == MaxResumes \in Nat

VARIABLES
    mem,         \* the run in the memory of the process
    saved,       \* the run in exec-state.json
    pc,          \* where the process stands, "idle" without a process
    checkout,    \* the product content of the checkout
    snapshot,    \* what the inspection at the end of a writer's call saw
    before,      \* the candidate at the start of that call
    patches,     \* the patches 1..patches exist in candidates/
    invocation,  \* invocation.json of the last call
    agents,      \* agent processes alive that have received a prompt
    unsaved,     \* evidence files exist that exec-state.json omits
    published,   \* the status in result.json, "none" before there is one
    begun,       \* history: calls whose agent received its prompt, by role
    tainted      \* history: an auditor changed the checkout

vars == <<mem, saved, pc, checkout, snapshot, before, patches, invocation,
          agents, unsaved, published, begun, tainted>>

Roles == {"implement", "audit", "repair"}
Phases == {"IMPLEMENT", "AUDIT", "FIX", "CONVERGED", "ABORTED"}
Writing == {"IMPLEMENT", "FIX"}

\* AGENT_ERROR stands for every failure the adapter reports.
Resumable == {"PAUSED", "NEEDS_INPUT", "AGENT_ERROR", "AUDIT_INVALID",
              "FIX_INVALID", "INTERNAL_ERROR"}
Statuses == Resumable \cup {"RUNNING", "CONVERGED", "ABORTED",
                            "PROTOCOL_VIOLATION", "REPOSITORY_ERROR"}

\* Inside execute_exec: the points where an exception is still caught.
Executing == {"prepare", "drive", "prepared", "started", "agent", "ended",
              "completed", "stored", "returned", "record", "save"}
Places == Executing \cup {"failed", "finish", "close", "resuming", "idle"}

\* Findings to repair: their audit, and the candidate it judged.
Pending == [audit: Nat, candidate: Trees \cup {NoTree}]
NoPending == [audit |-> NoAudit, candidate |-> NoTree]

Observation == [audit: Nat, auditor: Auditors, sha: Trees]
Run == [phase: Phases, status: Statuses, clean: Seq(Observation),
        pending: Pending, active: Nat, sequence: Nat,
        auditors: SUBSET Auditors, resumes: Nat,
        lastCall: [role: Roles \cup {"none"}, before: Nat],
        candidate: Trees \cup {NoTree}, number: Nat,
        rounds: [Roles -> Nat], limit: Nat]

TypeOK ==
    /\ mem \in Run
    /\ saved \in Run
    /\ pc \in Places
    /\ checkout \in Trees
    /\ snapshot \in Trees
    /\ before \in Trees \cup {NoTree}
    /\ patches \in Nat
    /\ invocation \in Invocations
    /\ agents \in Nat
    /\ unsaved \in BOOLEAN
    /\ published \in Statuses \cup {"none"}
    /\ begun \in [Roles -> Nat]
    /\ tainted \in BOOLEAN
-----------------------------------------------------------------------------
\* run_exec, up to and including the checkpoint "initialized".
NewRun ==
    [phase |-> "IMPLEMENT", status |-> "RUNNING", clean |-> <<>>,
     pending |-> NoPending, active |-> NoAudit, sequence |-> 0,
     auditors |-> {}, resumes |-> 0, lastCall |-> NoCall,
     candidate |-> NoTree, number |-> 0,
     rounds |-> [role \in Roles |-> 0], limit |-> BatchSize]

Init ==
    /\ mem = NewRun
    /\ saved = NewRun
    /\ pc = "prepare"
    /\ checkout \in Trees
    /\ snapshot = checkout
    /\ before = NoTree
    /\ patches = 0
    /\ invocation = "absent"
    /\ agents = 0
    /\ unsaved = FALSE
    /\ published = "none"
    /\ begun = [role \in Roles |-> 0]
    /\ tainted = FALSE

code == <<checkout, snapshot, before, tainted>>
calls == <<invocation, agents, begun>>

\* CheckpointStore.checkpoint: exec-state.json takes the run and the digests
\* of every evidence file written so far.
Checkpoint(run) ==
    /\ mem' = run
    /\ saved' = run
    /\ unsaved' = FALSE

\* An exception reaches execute_exec, which keeps its kind as the status.
Fail(run, kind) ==
    /\ mem' = [run EXCEPT !.status = kind]
    /\ pc' = "failed"

\* The stage in flight; drive takes every other phase for an audit.
Role == IF mem.phase = "IMPLEMENT" THEN "implement"
        ELSE IF mem.phase = "FIX" THEN "repair" ELSE "audit"

\* The stage in flight may write the checkout.
Writer == Role # "audit"

\* save_candidate: another snapshot becomes the next candidate.
WithCandidate(run, tree) ==
    IF tree = run.candidate THEN run
    ELSE [run EXCEPT !.candidate = tree, !.number = @ + 1]

\* Its patch is created exclusively: an existing file of a process that died
\* before its checkpoint stops it.
PatchFree(run, tree) == tree = run.candidate \/ run.number + 1 > patches

Patches(run, tree) ==
    patches' = IF tree = run.candidate THEN patches ELSE run.number + 1

\* ExecRepository.inspect after a call: only a writer may have changed it.
Unchanged == Writer \/ checkout = mem.candidate

\* Bug: one audit too many in a batch.
BugExhausted(run) == run.rounds["audit"] > run.limit

\* The audits of all batches so far are used up (exec_stop).
Exhausted(run) == run.rounds["audit"] >= run.limit
-----------------------------------------------------------------------------
(***************************************************************************)
(* execute_exec and ExecEngine.drive                                       *)
(***************************************************************************)

\* The checkout is created or found as the candidate.  git-control.json and
\* the first candidate become evidence that no checkpoint knows yet.
PrepareRepository ==
    /\ pc = "prepare"
    /\ mem.candidate # NoTree => checkout = mem.candidate
    /\ pc' = "drive"
    /\ mem' = WithCandidate(mem, checkout)
    /\ Patches(mem, checkout)
    /\ unsaved' = (unsaved \/ mem.candidate = NoTree)
    /\ UNCHANGED <<saved, published, code, calls>>

\* Without an engine nothing of the checkout is kept.
CannotPrepare ==
    /\ pc = "prepare"
    /\ pc' = "finish"
    /\ \E kind \in {"REPOSITORY_ERROR", "PROTOCOL_VIOLATION",
                    "INTERNAL_ERROR"} :
          mem' = [mem EXCEPT !.status = kind, !.clean = <<>>]
    /\ unsaved' \in {unsaved, mem.candidate = NoTree}
    /\ UNCHANGED <<saved, patches, published, code, calls>>

\* A batch is used up: the run pauses before a repair or another audit, and
\* keeps pending findings and a first clean audit.
BatchExhausted ==
    /\ pc = "drive"
    /\ mem.status = "RUNNING"
    /\ Exhausted(mem)
    /\ \/ /\ checkout = mem.candidate
          /\ mem' = [mem EXCEPT !.status = "PAUSED"]
          /\ unsaved' = TRUE
          /\ UNCHANGED pc
       \/ Fail(mem, "PROTOCOL_VIOLATION") /\ UNCHANGED unsaved
    /\ UNCHANGED <<saved, patches, published, code, calls>>

\* code() or audit() up to the checkpoint ":prepared".  A writing stage
\* drops the clean audits before it begins.
PrepareCall ==
    /\ pc = "drive"
    /\ mem.status = "RUNNING"
    /\ ~Exhausted(mem)
    /\ LET run == [mem EXCEPT !.lastCall =
                       [role |-> Role, before |-> mem.rounds[Role]]]
       IN  Checkpoint(IF Writer THEN [run EXCEPT !.clean = <<>>]
                      ELSE [run EXCEPT !.sequence = @ + 1,
                                       !.active = run.sequence + 1])
    /\ invocation' = "absent"
    /\ pc' = "prepared"
    /\ UNCHANGED <<patches, published, agents, begun, code>>

LeaveLoop ==
    /\ pc = "drive"
    /\ mem.status # "RUNNING"
    /\ pc' = "finish"
    /\ UNCHANGED <<mem, saved, unsaved, patches, published, code, calls>>
-----------------------------------------------------------------------------
(***************************************************************************)
(* ExecEngine.call and Invoker: one call of an agent                       *)
(***************************************************************************)

\* The checkout must be the candidate before any agent starts.
BeginCall ==
    /\ pc = "prepared"
    /\ \/ checkout = mem.candidate /\ pc' = "started" /\ Checkpoint(mem)
       \/ Fail(mem, "PROTOCOL_VIOLATION") /\ UNCHANGED <<saved, unsaved>>
    /\ UNCHANGED <<patches, published, code, calls>>

StartAgent ==
    /\ pc = "started"
    /\ pc' = "agent"
    /\ invocation' = "started"
    /\ agents' = agents + 1
    /\ begun' = [begun EXCEPT ![Role] = @ + 1]
    /\ UNCHANGED <<mem, saved, unsaved, patches, published, code>>

\* A call that failed: checkpoint ":failed", then the error goes up.
CallFails(run) ==
    /\ \E kind \in {"AGENT_ERROR", "PROTOCOL_VIOLATION"} :
          /\ kind = "AGENT_ERROR" => Unchanged
          /\ Fail(run, kind)
    /\ saved' = run
    /\ unsaved' = FALSE
    /\ UNCHANGED <<patches, published, code, calls>>

\* Bug: a call that cannot start is tried again.
BugCannotStart ==
    /\ pc = "started"
    /\ pc' = "prepared"
    /\ UNCHANGED <<mem, saved, unsaved, patches, published, code, calls>>

\* The adapter could not start an agent: the call does not count.
CannotStart == pc = "started" /\ CallFails(mem)

\* The agent exits, or is killed at its timeout, and ended_at is written.
AgentEnds ==
    /\ pc = "agent"
    /\ pc' = "ended"
    /\ invocation' = "ended"
    /\ agents' = agents - 1
    /\ UNCHANGED <<mem, saved, unsaved, patches, published, begun, code>>

Counted == [mem EXCEPT !.rounds[Role] = @ + 1]

FailCall == pc = "ended" /\ CallFails(Counted)

\* The call succeeded and the checkout passed its inspection.
CompleteCall ==
    /\ pc = "ended"
    /\ Unchanged
    /\ Checkpoint(Counted)
    /\ snapshot' = IF Writer THEN checkout ELSE snapshot
    /\ pc' = "completed"
    /\ UNCHANGED <<checkout, before, tainted, patches, published, calls>>

\* ExecEngine.call clears last_call; the snapshot of a writer's work becomes
\* the candidate, its files first.
StoreCandidate ==
    /\ pc = "completed"
    /\ before' = IF Writer THEN mem.candidate ELSE before
    /\ LET run == [mem EXCEPT !.lastCall = NoCall]
       IN  IF ~Writer
             THEN mem' = run /\ pc' = "stored" /\ UNCHANGED patches
           ELSE IF PatchFree(run, snapshot)
             THEN /\ mem' = WithCandidate(run, snapshot)
                  /\ Patches(run, snapshot)
                  /\ pc' = "stored"
           ELSE /\ Fail([run EXCEPT !.number = @ + 1], "INTERNAL_ERROR")
                /\ UNCHANGED patches
    /\ UNCHANGED <<saved, unsaved, checkout, snapshot, tainted, published,
                   calls>>

ReturnCall ==
    /\ pc = "stored"
    /\ Checkpoint(mem)
    /\ pc' = "returned"
    /\ UNCHANGED <<patches, published, code, calls>>
-----------------------------------------------------------------------------
(***************************************************************************)
(* ExecEngine.audit and ExecEngine.code after their call                   *)
(***************************************************************************)

\* A reused session id or an invalid reply; a new id is kept all the same.
AuditInvalid ==
    /\ pc = "returned"
    /\ ~Writer
    /\ \E known \in {{}} \cup {{auditor} : auditor \in Auditors} :
          Fail([mem EXCEPT !.auditors = @ \cup known], "AUDIT_INVALID")
    /\ UNCHANGED <<saved, unsaved, patches, published, code, calls>>

\* exec_audited: any finding sends the run to FIX, a second clean audit of
\* the same candidate converges.
ExecAudited(run, auditor, findings) ==
    LET clean == CleanObservations(
                    run.clean, [audit |-> run.active, auditor |-> auditor,
                                sha |-> run.candidate])
        over == Freezes(clean)
    IN  IF findings
          THEN [run EXCEPT !.active = NoAudit, !.phase = "FIX",
                           !.clean = <<>>,
                           !.pending = [audit |-> run.active,
                                        candidate |-> run.candidate]]
          ELSE [run EXCEPT !.active = NoAudit,
                           !.clean = clean,
                           !.phase = IF over THEN "CONVERGED" ELSE @,
                           !.status = IF over THEN "CONVERGED" ELSE @]

\* The audit record is written, then the findings decide in memory.
JudgeAudit ==
    /\ pc = "returned"
    /\ ~Writer
    /\ \E auditor \in Auditors \ mem.auditors, findings \in BOOLEAN :
          mem' = ExecAudited([mem EXCEPT !.auditors = @ \cup {auditor}],
                             auditor, findings)
    /\ unsaved' = TRUE
    /\ pc' = "record"
    /\ UNCHANGED <<saved, patches, published, code, calls>>

\* The reply is no valid result, or a repair left the tree as it was; the
\* reply of a repair that could be read is evidence by then.
CodeInvalid ==
    /\ pc = "returned"
    /\ Writer
    /\ unsaved' \in {FALSE, Role = "repair"}
    /\ Fail(mem, "FIX_INVALID")
    /\ UNCHANGED <<saved, patches, published, code, calls>>

\* Bug: the status is written where the phase belongs.
BugCodeNeedsInput ==
    /\ pc = "returned"
    /\ Writer
    /\ mem' = [mem EXCEPT !.phase = "NEEDS_INPUT"]
    /\ unsaved' = (Role = "repair")
    /\ pc' = "drive"
    /\ UNCHANGED <<saved, patches, published, code, calls>>

CodeNeedsInput ==
    /\ pc = "returned"
    /\ Writer
    /\ mem' = [mem EXCEPT !.status = "NEEDS_INPUT"]
    /\ unsaved' = (Role = "repair")
    /\ pc' = "drive"
    /\ UNCHANGED <<saved, patches, published, code, calls>>

\* A repair has to change the tree it started from.
Repaired(run) == run.phase = "FIX" => run.candidate # before

\* The work is complete: pending findings are closed.
CodeComplete ==
    /\ pc = "returned"
    /\ Writer
    /\ Repaired(mem)
    /\ mem' = [mem EXCEPT !.phase = "AUDIT", !.pending = NoPending]
    /\ unsaved' = (Role = "repair")
    /\ pc' = "save"
    /\ UNCHANGED <<saved, patches, published, code, calls>>

\* The checkpoints ":parsed" of an audit and ":saved" of written code.
Record ==
    /\ pc \in {"record", "save"}
    /\ Checkpoint(mem)
    /\ pc' = "drive"
    /\ UNCHANGED <<patches, published, code, calls>>
-----------------------------------------------------------------------------
(***************************************************************************)
(* The end of an execution                                                 *)
(***************************************************************************)

\* Anything else that is raised, a KeyboardInterrupt included; without an
\* engine CannotPrepare stands for it, and the adapter turns it into a
\* failed call while an agent runs.
Interrupt ==
    /\ pc \in Executing \ {"prepare", "agent"}
    /\ Fail(mem, "INTERNAL_ERROR")
    /\ UNCHANGED <<saved, unsaved, patches, published, code, calls>>

\* Bug: an error forgets the findings along with the clean audits.
BugCleared(run) == [run EXCEPT !.clean = <<>>, !.pending = NoPending]

Cleared(run) == [run EXCEPT !.clean = <<>>]

\* Bug: the work in the checkout is kept whatever the stage was.
BugPartial(run) == run.status # "PROTOCOL_VIOLATION"

\* A failed writer may leave useful partial code.
Partial(run) == run.phase \in Writing /\ run.status # "PROTOCOL_VIOLATION"

\* No error keeps the clean audits; partial work becomes the candidate, as
\* far as it can be inspected.
SettleError ==
    /\ pc = "failed"
    /\ pc' = "finish"
    /\ \/ mem' = Cleared(mem) /\ UNCHANGED patches
       \/ /\ Partial(mem)
          /\ PatchFree(mem, checkout)
          /\ mem' = WithCandidate(Cleared(mem), checkout)
          /\ Patches(mem, checkout)
    /\ UNCHANGED <<saved, unsaved, published, code, calls>>

\* The patch of the partial work exists already: nobody catches that.
SettleRaises ==
    /\ pc = "failed"
    /\ Partial(mem)
    /\ ~PatchFree(mem, checkout)
    /\ pc' = "idle"
    /\ mem' = saved
    /\ UNCHANGED <<saved, unsaved, patches, published, code, calls>>

\* CheckpointStore.finish publishes result.json, then the checkpoint.
PublishResult ==
    /\ pc = "finish"
    /\ published' = mem.status
    /\ pc' = "close"
    /\ UNCHANGED <<mem, saved, unsaved, patches, code, calls>>

CloseRun ==
    /\ pc = "close"
    /\ Checkpoint(mem)
    /\ pc' = "idle"
    /\ UNCHANGED <<patches, published, code, calls>>

\* The process dies.  Its agent may survive it.
Crash ==
    /\ pc # "idle"
    /\ pc' = "idle"
    /\ mem' = saved
    /\ UNCHANGED <<saved, unsaved, patches, published, code, calls>>

OrphanDies ==
    /\ pc # "agent"
    /\ agents > 0
    /\ agents' = agents - 1
    /\ UNCHANGED <<mem, saved, pc, unsaved, patches, published, invocation,
                   begun, code>>
-----------------------------------------------------------------------------
(***************************************************************************)
(* The checkout, and what a person does                                    *)
(***************************************************************************)

\* Whoever changes the checkout may restore what the run knows.
Foreign == checkout' \notin {mem.candidate, saved.candidate}

\* An agent at work, or one that outlived its runner, changes the checkout.
AgentWrites ==
    /\ agents > 0
    /\ checkout' \in Trees \ {checkout}
    /\ tainted' = ((tainted \/ mem.lastCall.role = "audit") /\ Foreign)
    /\ UNCHANGED <<mem, saved, pc, snapshot, before, patches, invocation,
                   agents, unsaved, published, begun>>

\* So does a person.
Edit ==
    /\ checkout' \in Trees \ {checkout}
    /\ tainted' = (tainted /\ Foreign)
    /\ UNCHANGED <<mem, saved, pc, snapshot, before, patches, invocation,
                   agents, unsaved, published, begun>>

\* load_exec and verify_checkout, with the process of the last call gone.
Usable ==
    /\ pc = "idle"
    /\ ~unsaved
    /\ ~AgentStillAlive(saved, invocation, agents)

\* resume_exec: "recover" of the machine interface, or a person's resume,
\* which grants another batch when all audits are used up.
Resume ==
    /\ Usable
    /\ checkout = saved.candidate
    /\ saved.resumes < MaxResumes
    /\ \E recover, answered \in BOOLEAN :
          LET settled == ReconcileInvocation(saved, invocation, FALSE)
              run == [settled EXCEPT !.resumes = @ + 1]
          IN  /\ saved.status \in Resumable \/ (recover /\ saved.status = "RUNNING")
              /\ answered => saved.phase \in Writing
              /\ saved.status = "NEEDS_INPUT" => answered
              /\ IF ~Exhausted(run)
                   THEN /\ mem' = [run EXCEPT !.status = "RUNNING"]
                        /\ pc' = "resuming"
                 ELSE IF recover
                   THEN /\ mem' = [run EXCEPT !.status = "PAUSED"]
                        /\ pc' = "finish"
                 ELSE /\ mem' = [run EXCEPT !.status = "RUNNING",
                                            !.limit = @ + BatchSize]
                      /\ pc' = "resuming"
    /\ unsaved' = TRUE
    /\ UNCHANGED <<saved, patches, published, code, calls>>

\* The checkpoint "resumed".
Resumed ==
    /\ pc = "resuming"
    /\ Checkpoint(mem)
    /\ pc' = "prepare"
    /\ UNCHANGED <<patches, published, code, calls>>

\* inspect_exec with a reason: the abort is recorded and final.
Abort ==
    /\ Usable
    /\ saved.status \notin {"CONVERGED", "ABORTED"}
    /\ saved.status # "RUNNING" /\ saved.candidate # NoTree =>
           checkout = saved.candidate
    /\ mem' = [ReconcileInvocation(saved, invocation, FALSE) EXCEPT
                  !.phase = "ABORTED", !.status = "ABORTED"]
    /\ unsaved' = TRUE
    /\ pc' = "finish"
    /\ UNCHANGED <<saved, patches, published, code, calls>>
-----------------------------------------------------------------------------
\* The steps of a process that runs; all of them are eventually taken.
Step ==
    \/ PrepareRepository \/ CannotPrepare
    \/ BatchExhausted \/ PrepareCall \/ LeaveLoop
    \/ BeginCall \/ StartAgent \/ CannotStart \/ AgentEnds
    \/ CompleteCall \/ FailCall \/ StoreCandidate \/ ReturnCall
    \/ AuditInvalid \/ JudgeAudit
    \/ CodeInvalid \/ CodeNeedsInput \/ CodeComplete \/ Record
    \/ SettleError \/ SettleRaises \/ PublishResult \/ CloseRun
    \/ Resumed

Environment ==
    Interrupt \/ Crash \/ OrphanDies \/ AgentWrites \/ Edit \/ Resume \/ Abort

Next == Step \/ Environment

Spec == Init /\ [][Next]_vars

\* A live process keeps going (agents are killed at their timeout); nobody
\* has to write, resume, interrupt or abort.
FairSpec == Spec /\ WF_vars(Step)
-----------------------------------------------------------------------------
(***************************************************************************)
(* Properties                                                              *)
(***************************************************************************)

\* Audits stay within the batches granted, and no batch is granted before
\* the audits of all earlier ones were really started: not by a recovery,
\* and not by a resume that follows a crash or an error.
BatchesKept ==
    /\ begun["audit"] <= saved.limit
    /\ saved.limit <= begun["audit"] + BatchSize

\* The clean observations are the latest audits without a gap, of the bytes
\* that are the candidate now, by different auditors: writers, findings,
\* errors and abandoned audits clear them; a pause alone does not.
CleanIsCurrent(run) ==
    LET last == IF run.active # NoAudit THEN run.active - 1 ELSE run.sequence
        length == Len(run.clean)
    IN  /\ length <= 2
        /\ \A i \in 1..length :
              /\ run.clean[i].sha = run.candidate
              /\ run.clean[i].auditor \in run.auditors
              /\ run.clean[i].audit = last - (length - i)
        /\ length = 2 => run.clean[1].auditor # run.clean[2].auditor
        /\ run.pending # NoPending => length = 0

\* In the checkpoint always, and in memory once an error is settled.
CleanIsRecent ==
    /\ CleanIsCurrent(saved)
    /\ pc # "failed" => CleanIsCurrent(mem)

\* An auditor's change of the checkout never becomes the candidate, be it
\* left behind by a crash, a timeout or an orphan ("an auditor mutation is
\* never promoted").
AuditorNeverPromoted ==
    [][mem'.candidate \notin {mem.candidate, saved.candidate} => ~tainted]_mem

\* Pending findings leave the checkpoint only when a repair of the same
\* execution is saved: no pause, resume, error, partial work or abort drops
\* or replaces them.
PendingKept ==
    [][saved.pending # NoPending /\ saved'.pending # saved.pending =>
           /\ saved'.pending = NoPending
           /\ saved'.phase = "AUDIT"
           /\ saved'.resumes = saved.resumes
           /\ saved'.rounds = saved.rounds
           /\ saved.candidate # before]_saved

\* The checkpoint, read as a judgement of the candidate.
Judgement == INSTANCE Convergence WITH
    Specs <- Trees \cup {NoTree},
    spec <- saved.candidate,
    approvals <- {saved.clean[i].auditor : i \in DOMAIN saved.clean},
    frozen <- saved.status = "CONVERGED"

\* Across crashes, pauses and resumes the checkpoints are a run of the
\* abstract Convergence.
ImplementsConvergence == Judgement!Spec

\* Every execution comes to an end within the batches granted.
ExecutionEnds == (pc # "idle") ~> (pc = "idle")
=============================================================================
