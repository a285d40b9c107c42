------------------------------ MODULE Session ------------------------------
(***************************************************************************)
(* What mracbench/session.py does for every resumable workflow: the record *)
(* of the one call in flight, and how an interrupted call is settled when  *)
(* a run is resumed or aborted.                                            *)
(***************************************************************************)
EXTENDS Naturals, Sequences

\* invocation.json in the directory of the last call: not written yet,
\* written with "started", or closed with "ended_at".
Invocations == {"absent", "started", "ended"}

\* flow.last_call when no call is in flight.
NoCall == [role |-> "none", before |-> 0]

\* The adapter wrote "started" for the call that the checkpoint names.
CallStarted(run, invocation) ==
    run.lastCall # NoCall /\ invocation # "absent"

\* Bug: the process of the last call is never looked up.
BugNobodyAlive(run, invocation, agents) == FALSE

\* unfinished_invocation refuses a run whose recorded agent process lives.
AgentStillAlive(run, invocation, agents) ==
    run.lastCall # NoCall /\ invocation = "started" /\ agents > 0

\* Bug: a started call counts although its counter has moved already.
BugUncounted(run, invocation, role) ==
    CallStarted(run, invocation) /\ run.lastCall.role = role

\* A started call that the checkpoint has not counted yet.
Uncounted(run, invocation, role) ==
    /\ CallStarted(run, invocation)
    /\ run.lastCall.role = role
    /\ run.rounds[role] = run.lastCall.before

\* Bug: only the workflow's wish drops the clean observations.
BugKeptClean(run, discardClean) == run.clean

\* The clean observations go with an abandoned audit, and whenever the
\* workflow asks for it.
KeptClean(run, discardClean) ==
    IF discardClean \/ run.active # 0 THEN <<>> ELSE run.clean

\* Count a started call once and abandon the active audit.
ReconcileInvocation(run, invocation, discardClean) ==
    [run EXCEPT !.rounds = [role \in DOMAIN @ |->
                               @[role] + IF Uncounted(run, invocation, role)
                                           THEN 1 ELSE 0],
                !.lastCall = NoCall,
                !.active = 0,
                !.clean = KeptClean(run, discardClean)]
=============================================================================
