----------------------------- MODULE SimpleFlow -----------------------------
(***************************************************************************)
(* One run of the workflow spec-init-freeze (spec-flow-simple-v1):          *)
(* mracbench/simple_flow.py with the Invoker, the evidence check and the    *)
(* marker lock it uses, the agents it calls, the person who resumes a       *)
(* paused run or removes a marker a crash left behind, and crashes.         *)
(*                                                                          *)
(* The flow keeps no canonical checkpoint: only a sealed result.json is     *)
(* ever read again.  "mem" is the run as its last process knew it,          *)
(* "result" the one in result.json.  The repair is that of the protocols    *)
(* with a writable checkout.                                                *)
(***************************************************************************)
EXTENDS Transitions, FiniteSets

CONSTANTS
    Specs,       \* the contents a Spec can have
    Maximum,     \* max_audit_rounds, all audits of the run
    PauseStreak  \* failed freeze rounds before a pause (6 in the code)

ASSUME MaximumAssumption == Maximum \in Nat \ {0}
ASSUME PauseStreakAssumption == PauseStreak \in Nat \ {0}

VARIABLES
    mem,           \* the run in the memory of the last process
    result,        \* the run in result.json, RUNNING before there is one
    sealed,        \* run.yaml holds the digest of this result.json
    unregistered,  \* evidence files exist that run.yaml does not list
    archives,      \* resumptions/resume-1..archives exist
    marker,        \* the marker .run.lock exists
    pc,            \* where the process stands, "idle" without a process
    stage,         \* the stage of the call in flight
    attempt,       \* the local variables of run_file_repair
    agents,        \* agent processes alive that have received a prompt
    begun          \* history: audits whose agent received its prompt

vars == <<mem, result, sealed, unregistered, archives, marker, pc, stage,
          attempt, agents, begun>>

disk == <<result, sealed, unregistered, archives, marker>>

Stages == {"probe", "audit", "review", "repair", "closure"}
Calling == {"call", "agent", "ended", "returned"}
Executing == Calling \cup {"prepare", "drive", "reviewed", "check"}
Ending == {"finish", "publish", "seal", "close"}
Places == Executing \cup Ending \cup {"idle", "locked", "resuming"}

\* REPOSITORY_ERROR also stands for a failed probe (REPOSITORY_ACCESS_ERROR),
\* AGENT_ERROR for every failure the adapter reports.
Failures == {"PROTOCOL_VIOLATION", "REPOSITORY_ERROR", "AGENT_ERROR",
             "PARSE_ERROR", "REPAIR_INVALID", "CLOSURE_INVALID",
             "INTERNAL_ERROR"}
Statuses == Failures \cup {"RUNNING", "PAUSED", "CONVERGED", "NON_CONVERGED"}

Run == [phase: {"INIT", "AUDIT", "FROZEN"}, status: Statuses,
        clean: Seq([audit: 1..Maximum, sha: Specs]), pending: 0..Maximum,
        streak: Nat, artifact: Specs, audits: 0..Maximum, resumes: Nat]

Attempt == [retry: 0..1, closures: 0..1, seed: Specs, candidate: Specs]

TypeOK ==
    /\ mem \in Run
    /\ result \in Run
    /\ sealed \in BOOLEAN
    /\ unregistered \in BOOLEAN
    /\ archives \in Nat
    /\ marker \in BOOLEAN
    /\ pc \in Places
    /\ stage \in Stages
    /\ attempt \in Attempt
    /\ agents \in Nat
    /\ begun \in Nat
-----------------------------------------------------------------------------
NewRun(spec) ==
    [phase |-> "INIT", status |-> "RUNNING", clean |-> <<>>,
     pending |-> NoAudit, streak |-> 0, artifact |-> spec, audits |-> 0,
     resumes |-> 0]

\* An attempt to repair from the current Spec.
FirstAttempt(spec) ==
    [retry |-> 0, closures |-> 0, seed |-> spec, candidate |-> spec]

\* run_simple, up to the checkpoint "copied".
Init ==
    /\ \E spec \in Specs :
          mem = NewRun(spec) /\ attempt = FirstAttempt(spec)
    /\ result = mem
    /\ sealed = FALSE
    /\ unregistered = TRUE
    /\ archives = 0
    /\ marker = TRUE
    /\ pc = "prepare"
    /\ stage = "probe"
    /\ agents = 0
    /\ begun = 0

\* An exception reaches execute_simple, which keeps its kind as the status.
Fail(kind) ==
    /\ mem' = [mem EXCEPT !.status = kind]
    /\ pc' = "finish"
    /\ attempt' = FirstAttempt(mem.artifact)
    /\ UNCHANGED <<disk, stage, agents, begun>>

\* The next call; Invoker prepares it.
Call(role) ==
    /\ stage' = role
    /\ pc' = "call"
    /\ UNCHANGED <<disk, agents, begun>>

\* The local steps of the process that leave the call alone.
Go(place) ==
    /\ pc' = place
    /\ UNCHANGED <<disk, stage, attempt, agents, begun>>
-----------------------------------------------------------------------------
(***************************************************************************)
(* Invoker: one call of an agent                                           *)
(***************************************************************************)

\* The repository is there and unchanged: the first call of every execution
\* probes that it can be read.
PrepareRepository ==
    /\ pc = "prepare"
    /\ Call("probe")
    /\ UNCHANGED <<mem, attempt>>

CannotPrepare ==
    /\ pc = "prepare"
    /\ \E kind \in {"REPOSITORY_ERROR", "PROTOCOL_VIOLATION"} : Fail(kind)

StartAgent ==
    /\ pc = "call"
    /\ pc' = "agent"
    /\ agents' = agents + 1
    /\ begun' = IF stage = "audit" THEN begun + 1 ELSE begun
    /\ UNCHANGED <<mem, disk, stage, attempt>>

\* The adapter could not start an agent, or the repository or the evidence
\* changed before the call: nothing is counted.
CannotStart ==
    /\ pc = "call"
    /\ \E kind \in {"AGENT_ERROR", "PROTOCOL_VIOLATION"} : Fail(kind)

\* The agent exits or is killed at its timeout; a started audit is counted
\* whatever became of it.
AgentEnds ==
    /\ pc = "agent"
    /\ pc' = "ended"
    /\ agents' = agents - 1
    /\ mem' = IF stage = "audit" THEN [mem EXCEPT !.audits = @ + 1] ELSE mem
    /\ UNCHANGED <<disk, stage, attempt, begun>>

FailCall ==
    /\ pc = "ended"
    /\ \E kind \in {"AGENT_ERROR", "PROTOCOL_VIOLATION"} : Fail(kind)

ReturnCall == pc = "ended" /\ Go("returned") /\ UNCHANGED mem
-----------------------------------------------------------------------------
(***************************************************************************)
(* drive_simple                                                            *)
(***************************************************************************)

Probed ==
    /\ pc = "returned"
    /\ stage = "probe"
    /\ \/ Go("drive") /\ UNCHANGED mem
       \/ Fail("REPOSITORY_ERROR")

\* The head of the loop.  Its test of the budget stops nothing here, as the
\* stop decision and resume_run have tested it before (BudgetKept).
PrepareAudit ==
    /\ pc = "drive"
    /\ mem.pending = NoAudit
    /\ mem.audits < Maximum
    /\ Call("audit")
    /\ UNCHANGED <<mem, attempt>>

\* The findings of an audit are parsed and go to a review.
Audited ==
    /\ pc = "returned"
    /\ stage = "audit"
    /\ \/ Call("review") /\ UNCHANGED <<mem, attempt>>
       \/ Fail("PARSE_ERROR")

\* The review accepts, defers or rejects each finding.
Reviewed ==
    /\ pc = "returned"
    /\ stage = "review"
    /\ \/ /\ \E accepted \in Findings :
                mem' = SimpleReviewed(mem, mem.audits, accepted)
          /\ Go("reviewed")
       \/ Fail("PARSE_ERROR")

\* After the checkpoint ":reviewed": go on, or leave the loop.
Stop ==
    /\ pc = "reviewed"
    /\ mem' = SimpleStop(mem, Maximum, PauseStreak)
    /\ Go(IF mem'.status = "RUNNING" THEN "drive" ELSE "check")
-----------------------------------------------------------------------------
(***************************************************************************)
(* run_file_repair                                                         *)
(***************************************************************************)

PrepareRepair ==
    /\ pc = "drive"
    /\ mem.pending # NoAudit
    /\ mem.audits < Maximum
    /\ attempt' = FirstAttempt(mem.artifact)
    /\ Call("repair")
    /\ UNCHANGED mem

\* Files outside the Spec were changed, or the Spec is gone.
RepairStrays ==
    /\ pc = "returned"
    /\ stage \in {"repair", "closure"}
    /\ Fail("PROTOCOL_VIOLATION")

\* Bug: a repair is retried until its closure resolves everything.
BugRetryRepair(seed) ==
    /\ attempt' = [FirstAttempt(seed) EXCEPT !.retry = 1]
    /\ Call("repair")
    /\ UNCHANGED mem

\* One retry of the repair, from the given Spec; then the run fails.
RetryRepair(seed) ==
    IF attempt.retry = 0
      THEN /\ attempt' = [FirstAttempt(seed) EXCEPT !.retry = 1]
           /\ Call("repair")
           /\ UNCHANGED mem
      ELSE Fail("REPAIR_INVALID")

RepairInvalid ==
    /\ pc = "returned"
    /\ stage = "repair"
    /\ RetryRepair(mem.artifact)

\* validate_candidate: neither the current Spec nor the seed of the retry.
Changed(candidate) == candidate \notin {mem.artifact, attempt.seed}

\* A valid candidate goes to an independent closure.
RepairValid ==
    /\ pc = "returned"
    /\ stage = "repair"
    /\ \E candidate \in Specs :
          /\ Changed(candidate)
          /\ attempt' = [attempt EXCEPT !.candidate = candidate]
    /\ Call("closure")
    /\ UNCHANGED mem

\* Bug: nothing ends the retries of a closure.
BugClosureInvalid ==
    /\ pc = "returned"
    /\ stage = "closure"
    /\ attempt' = [attempt EXCEPT !.closures = @ + 1]
    /\ Call("closure")
    /\ UNCHANGED mem

\* One retry of a closure whose reply is invalid.
ClosureInvalid ==
    /\ pc = "returned"
    /\ stage = "closure"
    /\ IF attempt.closures = 0
         THEN /\ attempt' = [attempt EXCEPT !.closures = 1]
              /\ Call("closure")
              /\ UNCHANGED mem
         ELSE Fail("CLOSURE_INVALID")

\* Some finding is not resolved: the retry starts from the candidate.
Unresolved ==
    /\ pc = "returned"
    /\ stage = "closure"
    /\ RetryRepair(attempt.candidate)

\* All findings are resolved: the candidate becomes the Spec.
Closed ==
    /\ pc = "returned"
    /\ stage = "closure"
    /\ mem' = SpecRepaired(mem, attempt.candidate)
    /\ attempt' = FirstAttempt(attempt.candidate)
    /\ pc' = "drive"
    /\ UNCHANGED <<disk, stage, agents, begun>>
-----------------------------------------------------------------------------
(***************************************************************************)
(* The end of an execution                                                 *)
(***************************************************************************)

\* The evidence is checked once more after the loop.
Check ==
    /\ pc = "check"
    /\ \/ Go("finish") /\ UNCHANGED mem
       \/ Fail("PROTOCOL_VIOLATION")

\* An exception or a KeyboardInterrupt where it is still caught.  The adapter
\* turns it into a failed call while an agent runs.
Interrupt == pc \in Executing \ {"agent"} /\ Fail("INTERNAL_ERROR")

\* RunStore.finish saves run.yaml, with the list of evidence but still the
\* digest of an earlier result.
Register ==
    /\ pc = "finish"
    /\ pc' = "publish"
    /\ unregistered' = FALSE
    /\ UNCHANGED <<mem, result, sealed, archives, marker, stage, attempt,
                   agents, begun>>

Publish ==
    /\ pc = "publish"
    /\ pc' = "seal"
    /\ result' = mem
    /\ sealed' = FALSE
    /\ UNCHANGED <<mem, unregistered, archives, marker, stage, attempt,
                   agents, begun>>

\* The digest of result.json goes to run.yaml.
Seal ==
    /\ pc = "seal"
    /\ pc' = "close"
    /\ sealed' = TRUE
    /\ UNCHANGED <<mem, result, unregistered, archives, marker, stage,
                   attempt, agents, begun>>

\* The context of run_lock removes the marker.
Close ==
    /\ pc = "close"
    /\ pc' = "idle"
    /\ marker' = FALSE
    /\ UNCHANGED <<mem, result, sealed, unregistered, archives, stage,
                   attempt, agents, begun>>

\* An interrupt that nobody catches still removes the marker.
Unwind ==
    /\ pc \in {"finish", "publish", "seal", "locked", "resuming"}
    /\ Go("close")
    /\ UNCHANGED mem

\* The process dies and leaves its marker.  Its agent may survive it.
Crash ==
    /\ pc # "idle"
    /\ Go("idle")
    /\ UNCHANGED mem

OrphanDies ==
    /\ pc # "agent"
    /\ agents > 0
    /\ agents' = agents - 1
    /\ UNCHANGED <<mem, disk, pc, stage, attempt, begun>>
-----------------------------------------------------------------------------
(***************************************************************************)
(* resume_run                                                              *)
(***************************************************************************)

\* A person finds the process gone and removes the marker it left.
RemoveMarker ==
    /\ pc = "idle"
    /\ marker
    /\ marker' = FALSE
    /\ UNCHANGED <<mem, result, sealed, unregistered, archives, pc, stage,
                   attempt, agents, begun>>

\* run_lock: the marker is created exclusively.
Lock ==
    /\ pc = "idle"
    /\ ~marker
    /\ pc' = "locked"
    /\ marker' = TRUE
    /\ UNCHANGED <<mem, result, sealed, unregistered, archives, stage,
                   attempt, agents, begun>>

\* A sealed PAUSED result with all its evidence, and audits left.
Intact ==
    /\ sealed
    /\ result.status = "PAUSED"
    /\ ~unregistered
    /\ result.audits < Maximum

\* Bug: an archive of the same number is replaced.
BugUnarchived == TRUE

\* The previous result is archived exclusively: a result that was resumed
\* before, and sealed no successor, cannot be resumed again.
Unarchived == archives < result.resumes + 1

Continued(run) ==
    [run EXCEPT !.resumes = @ + 1, !.streak = 0, !.clean = <<>>,
                !.status = "RUNNING"]

\* Archive the paused result, then go on from its pending findings.
Resume ==
    /\ pc = "locked"
    /\ Intact
    /\ Unarchived
    /\ pc' = "resuming"
    /\ mem' = Continued(result)
    /\ archives' = result.resumes + 1
    /\ unregistered' = TRUE
    /\ UNCHANGED <<result, sealed, marker, stage, attempt, agents, begun>>

\* Nothing can be resumed, or the repository is busy or has drifted: the
\* paused run stays as it is.
Refuse == pc = "locked" /\ Go("close") /\ UNCHANGED mem

\* run.yaml and the checkpoint "resumed" are written.
Resumed == pc = "resuming" /\ Go("prepare") /\ UNCHANGED mem
-----------------------------------------------------------------------------
\* The steps of a process that runs; all of them are eventually taken.
Step ==
    \/ PrepareRepository \/ CannotPrepare \/ StartAgent \/ CannotStart
    \/ AgentEnds \/ FailCall \/ ReturnCall
    \/ Probed \/ PrepareAudit \/ Audited \/ Reviewed \/ Stop
    \/ PrepareRepair \/ RepairStrays \/ RepairInvalid \/ RepairValid
    \/ ClosureInvalid \/ Unresolved \/ Closed
    \/ Check \/ Register \/ Publish \/ Seal \/ Close
    \/ Resume \/ Refuse \/ Resumed

Environment ==
    Interrupt \/ Unwind \/ Crash \/ OrphanDies \/ RemoveMarker \/ Lock

Next == Step \/ Environment

Spec == Init /\ [][Next]_vars

\* A live process keeps going (agents are killed at their timeout); nobody
\* has to interrupt, unlock or resume.
FairSpec == Spec /\ WF_vars(Step)
-----------------------------------------------------------------------------
(***************************************************************************)
(* Properties                                                              *)
(***************************************************************************)

\* Over all executions of a run, crashed and removed markers included, no
\* more audits start than the budget allows, and every run that would go on
\* or may be resumed has an audit left (the hard budget wins over the pause).
BudgetKept ==
    /\ begun <= Maximum
    /\ pc = "drive" => mem.audits < Maximum
    /\ result.status = "PAUSED" => result.audits < Maximum

\* While a run goes on, its clean observations are the latest freeze audits
\* without a gap, of the Spec as it is now; nothing is pending beside them.
CleanIsRecent ==
    LET length == Len(mem.clean)
        last == IF stage \in {"audit", "review"} /\ pc \in Calling
                  THEN {mem.audits, mem.audits - 1} ELSE {mem.audits}
    IN  pc \in Executing =>
        /\ length > 0 => mem.pending = NoAudit /\ mem.clean[length].audit \in last
        /\ \A i \in 1..length : mem.clean[i].sha = mem.artifact
        /\ length = 2 => mem.clean[2].audit = mem.clean[1].audit + 1

\* A resume takes up exactly the run its last process left, with no agent of
\* that process alive: a removed marker alone never revives a crashed run,
\* nor a paused result that was resumed before.
ResumesWhatPaused ==
    [][pc' = "resuming" /\ pc # "resuming" =>
           /\ agents = 0
           /\ mem = result
           /\ mem.pending # NoAudit
           /\ mem.streak >= PauseStreak]_vars

\* The run, read as a judgement of its Spec by numbered audits; the second
\* clean audit decides, the stop decision only says so.
Judgement == INSTANCE Convergence WITH
    Auditors <- 1..Maximum,
    spec <- mem.artifact,
    approvals <- {mem.clean[i].audit : i \in DOMAIN mem.clean},
    frozen <- \/ mem.status = "CONVERGED"
              \/ mem.status = "RUNNING" /\ Len(mem.clean) = 2

\* The audits, repairs, pauses and resumes of a run are a run of the
\* abstract Convergence.
ImplementsConvergence == Judgement!Spec

\* Every execution comes to an end, whatever the agents answer.
ExecutionEnds == (pc # "idle") ~> (pc = "idle")
=============================================================================
