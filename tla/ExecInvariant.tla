--------------------------- MODULE ExecInvariant ---------------------------
(***************************************************************************)
(* The inductive invariant behind the safety properties of ExecFlow: what  *)
(* holds of the memory, the checkpoint, the call record and the checkout   *)
(* at each place of the runner.                                            *)
(***************************************************************************)
EXTENDS ExecFlow

\* From the checkpoint that records a call to the one that closes it.
Calling == {"prepared", "started", "agent", "ended", "completed"}

\* The calls begun are those a run has counted, and the one it will count.
Tally(run) ==
    \A role \in Roles :
        begun[role] = run.rounds[role]
                        + IF Uncounted(run, invocation, role) THEN 1 ELSE 0

\* The call record between its writing and its clearing: it names the stage
\* in flight and the counter before it, and invocation.json is its own.
CallRecorded ==
    /\ pc \in Calling =>
          /\ saved = mem
          /\ mem.lastCall.role = Role
    /\ pc \in Calling \ {"completed"} => mem.lastCall.before = mem.rounds[Role]
    /\ pc = "completed" => mem.rounds[Role] = mem.lastCall.before + 1
    /\ pc \in {"prepared", "started"} => invocation = "absent"
    /\ pc = "agent" => invocation = "started"
    /\ pc \in {"ended", "completed"} => invocation = "ended"

\* Outside of a call none is recorded in memory.
NoCallRecorded ==
    pc \in (Executing \ Calling) \cup {"resuming"} => mem.lastCall = NoCall

\* Whoever runs without having ended has a process at "agent", or is an
\* orphan that the checkpoint and invocation.json still name.
AgentKnown ==
    /\ pc = "agent" => agents = 1
    /\ pc \notin {"agent", "idle"} => agents = 0
    /\ pc = "idle" /\ agents # 0 =>
          agents = 1 /\ saved.lastCall # NoCall /\ invocation = "started"

\* Without a process there is only the checkpoint.
IdleIsSaved == pc = "idle" => mem = saved

\* Batches are granted one at a time, when the audits of the last are used
\* up; a call begins only with an audit left.
Granted(run) ==
    /\ begun["audit"] <= run.limit
    /\ run.limit <= begun["audit"] + BatchSize
WithinBatch == pc \in {"prepared", "started"} => ~Exhausted(mem)

\* Between stages no audit is active; one that is, is the latest.
LatestAudit(run) == run.active # NoAudit => run.active = run.sequence

AuditPlaces ==
    /\ pc \in {"prepare", "drive", "resuming", "record", "save"} =>
          mem.active = NoAudit
    /\ pc \in Calling \cup {"stored", "returned"} =>
          (mem.active = NoAudit <=> Writer)
    /\ LatestAudit(mem)
    /\ LatestAudit(saved)

\* Findings are pending in FIX, and in an aborted run.
PendingPhase(run) ==
    run.phase \notin {"FIX", "ABORTED"} => run.pending = NoPending

\* A process that goes on works for a run that is RUNNING and not aborted.
RunningPlaces ==
    /\ pc \in (Executing \ {"drive", "record"}) \cup {"resuming"} =>
          mem.status = "RUNNING"
    /\ pc \in Executing \cup {"resuming", "failed"} => mem.phase # "ABORTED"
    /\ mem.phase = "ABORTED" => mem.status = "ABORTED"
    /\ saved.phase = "ABORTED" => saved.status = "ABORTED"
    /\ pc = "save" => mem.phase = "AUDIT"
    /\ pc \in Executing \ {"prepare"} => mem.candidate # NoTree

\* Only a run that is CONVERGED has two clean observations.
Open(run) == run.status # "CONVERGED" => Len(run.clean) < 2

\* The clean observations are recent, in memory once an error is settled.
Clean ==
    /\ CleanIsCurrent(saved) /\ Open(saved)
    /\ CleanIsCurrent(mem)
    /\ pc # "failed" => Open(mem)
    /\ pc \in Calling \cup {"stored", "returned"} =>
          (Writer => mem.clean = <<>>)
    /\ mem.candidate = NoTree => mem.clean = <<>>
    /\ saved.candidate = NoTree => saved.clean = <<>>

\* What an auditor changed is nowhere the candidate, and is in the checkout
\* only while the auditor works or after it failed.
Tainted ==
    tainted =>
        /\ checkout \notin {mem.candidate, saved.candidate}
        /\ \/ pc \in {"agent", "ended"} /\ ~Writer
           \/ pc = "failed" /\ ~Partial(mem)
           \/ pc \in {"finish", "close", "idle"}

\* The memory differs from the checkpoint by new findings that were not
\* saved, or by a repair that was not saved.
PendingSaved ==
    \/ mem.pending = saved.pending
    \/ /\ saved.pending = NoPending
       /\ pc \in {"record", "failed", "finish", "close"}
    \/ /\ mem.pending = NoPending
       /\ mem.phase = "AUDIT"
       /\ mem.resumes = saved.resumes
       /\ mem.rounds = saved.rounds
       /\ saved.candidate # before
       /\ pc \in {"save", "failed", "finish", "close"}

\* After a call the checkpoint has its outcome.
ReturnedSaved == pc = "returned" => saved = mem

\* Together, an invariant that every step preserves by itself.
ExecInductive ==
    /\ TypeOK
    /\ Tally(mem) /\ Tally(saved)
    /\ CallRecorded /\ NoCallRecorded
    /\ AgentKnown
    /\ IdleIsSaved /\ ReturnedSaved
    /\ Granted(mem) /\ Granted(saved) /\ WithinBatch
    /\ AuditPlaces
    /\ PendingPhase(mem) /\ PendingPhase(saved)
    /\ RunningPlaces
    /\ Clean
    /\ Tainted
    /\ PendingSaved
-----------------------------------------------------------------------------
\* How the judgement of a run may differ from that of its last checkpoint:
\* not at all, though an error may have withdrawn it,
Stays(old, new) ==
    /\ new.candidate = old.candidate
    /\ new.clean = old.clean
    /\ new.status = "CONVERGED" => old.status = "CONVERGED"

\* without approvals, and then maybe of another candidate,
Withdraws(old, new) ==
    /\ new.clean = <<>>
    /\ new.status # "CONVERGED"
    /\ old.status = "CONVERGED" => new.candidate = old.candidate

\* or by one more approval, the second of which may converge.
Approves(old, new) ==
    /\ old.status # "CONVERGED"
    /\ new.candidate = old.candidate
    /\ new.clean # <<>>
    /\ new.clean = Append(old.clean, new.clean[Len(new.clean)])
    /\ new.status = "CONVERGED" => Len(new.clean) = 2

Moves(old, new) ==
    Stays(old, new) \/ Withdraws(old, new) \/ Approves(old, new)

\* The memory is one decision ahead of the checkpoint at most, and a run
\* saved as CONVERGED only comes to its end.
ExecAhead ==
    /\ \/ Stays(saved, mem) \/ Withdraws(saved, mem)
       \/ Approves(saved, mem) /\ pc \in {"record", "failed"}
    /\ pc = "prepare" => saved = mem
    /\ pc = "failed" => mem.status # "CONVERGED"
    /\ mem.status = "CONVERGED" => mem.phase = "CONVERGED"
    /\ saved.status = "CONVERGED" =>
          /\ mem.phase = "CONVERGED"
          /\ saved.phase = "CONVERGED"
          /\ pc \in {"drive", "failed", "finish", "close", "idle"}
          /\ pc = "drive" => mem.status = "CONVERGED"
=============================================================================
