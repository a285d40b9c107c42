-------------------- MODULE RepositoryRefinementProofs --------------------
(***************************************************************************)
(* The checkpoints of RepositoryFlow are a run of Convergence, for every   *)
(* value of the constants: a step from one checkpoint to the next saves at *)
(* most one decision, and each decision is a step of Convergence.          *)
(***************************************************************************)
EXTENDS RepositoryFlowProofs, FiniteSetTheorems

(***************************************************************************)
(* The memory is one decision ahead of the checkpoint at most              *)
(***************************************************************************)

\* An error changes nothing but the status, and never claims CONVERGED.
LEMMA FailKeeps ==
    ASSUME NEW run \in Run, NEW kind, Fail(run, kind)
    PROVE  /\ pc' = "finish"
           /\ mem'.status = kind
           /\ mem'.artifact = run.artifact
           /\ mem'.clean = run.clean
           /\ mem'.pending = run.pending
           /\ mem'.resumes = run.resumes
           /\ mem'.phase = run.phase
  BY DEF Fail, Run

\* A counted call is as much of a judgement as before.
LEMMA CountedKeeps ==
    ASSUME mem \in Run
    PROVE  /\ Counted \in Run
           /\ Counted.status = mem.status
           /\ Counted.artifact = mem.artifact
           /\ Counted.clean = mem.clean
           /\ Counted.pending = mem.pending
           /\ Counted.resumes = mem.resumes
           /\ Counted.phase = mem.phase
  BY CountedType DEF Counted, Run


\* Between two checkpoints most steps leave the judgement alone.
LEMMA NoDecision ==
    ASSUME OneDecisionAhead,
           saved' = saved,
           mem'.artifact = mem.artifact,
           mem'.clean = mem.clean,
           mem'.pending = mem.pending,
           mem'.resumes = mem.resumes,
           mem'.status = mem.status \/ mem'.status # "RUNNING",
           \/ /\ pc \in Executing \ {"record", "save"}
              /\ pc' \in Executing \ {"record", "save"}
              /\ pc = "drive" => mem.status # "CONVERGED"
           \/ /\ pc \in Executing \cup {"finish"}
              /\ pc' \in {"finish", "close"}
              /\ mem'.phase = mem.phase
    PROVE  OneDecisionAhead'
<1>1. Open(mem') /\ Open(saved')
  BY DEF OneDecisionAhead, Open
<1>2. NothingDecided => NothingDecided'
  BY DEF NothingDecided
<1>3. ApprovalsWithdrawn => ApprovalsWithdrawn'
  BY DEF ApprovalsWithdrawn
<1>4. AuditJudged => AuditJudged'
  BY DEF AuditJudged
<1>5. CASE /\ pc \in Executing \ {"record", "save"}
           /\ pc' \in Executing \ {"record", "save"}
           /\ pc = "drive" => mem.status # "CONVERGED"
  BY <1>1, <1>2, <1>5 DEF OneDecisionAhead, Open, Executing
<1>6. CASE /\ pc \in Executing \cup {"finish"}
           /\ pc' \in {"finish", "close"}
           /\ mem'.phase = mem.phase
  <2>1. ArtifactReplaced => ArtifactReplaced'
    BY <1>6 DEF ArtifactReplaced
  <2>2. \/ NothingDecided \/ ApprovalsWithdrawn
        \/ AuditJudged \/ ArtifactReplaced
    BY <1>6 DEF OneDecisionAhead, Executing
  <2>. QED
    BY <1>1, <1>2, <1>3, <1>4, <1>6, <2>1, <2>2
       DEF OneDecisionAhead, Open, Executing
<1>. QED
  BY <1>5, <1>6

\* A checkpoint leaves nothing decided that is not saved.
LEMMA AllSaved ==
    ASSUME saved'.artifact = mem'.artifact,
           saved'.clean = mem'.clean,
           saved'.pending = mem'.pending,
           saved'.resumes = mem'.resumes,
           Open(mem'), Open(saved'),
           pc' \in (Executing \ {"record", "save"}) \cup {"idle", "finish"},
           saved'.status = "CONVERGED" =>
               pc' \in {"drive", "idle"} /\ mem'.status = "CONVERGED"
    PROVE  OneDecisionAhead'
<1>1. NothingDecided'
  BY DEF NothingDecided
<1>. QED
  BY <1>1 DEF OneDecisionAhead, Open, Executing

\* A judged audit: findings withdraw the approvals, none is one more.
LEMMA JudgeAhead ==
    ASSUME Inductive, TypeOK', OneDecisionAhead, JudgeAudit
    PROVE  AuditJudged' /\ Open(mem') /\ mem'.resumes = mem.resumes
<1>1. /\ pc = "returned" /\ Role = "audit" /\ saved' = saved
      /\ mem'.artifact = mem.artifact
      /\ mem \in Run /\ mem' \in Run
  BY JudgeFields DEF Inductive, TypeOK
<1>2. NothingDecided /\ mem.status = "RUNNING" /\ Len(mem.clean) < 2
  BY <1>1 DEF OneDecisionAhead, Executing, Inductive, RunningPlaces, Open
<1>3. mem.phase # "FIX" /\ mem.phase # "ABORTED" /\ mem.phase \in Phases
  BY <1>1 DEF Inductive, RunningPlaces, Executing, Role, Run
<1>4. mem.pending = NoAudit
  BY <1>3 DEF Phases, Inductive, PendingPhase
<1>5. mem'.resumes = mem.resumes
  <2>1. PICK auditor \in Auditors \ mem.auditors, findings \in Findings :
           mem' = RepositoryAudited([mem EXCEPT !.auditors = @ \cup {auditor}],
                                    mem.active, auditor, findings)
    BY DEF JudgeAudit
  <2> DEFINE judged == [mem EXCEPT !.auditors = @ \cup {auditor}]
  <2>2. judged \in Run /\ judged.resumes = mem.resumes
    BY <1>1 DEF Run
  <2>3. mem' = RepositoryAudited(judged, mem.active, auditor, findings)
    BY <2>1
  <2>. HIDE DEF judged
  <2>. QED
    BY <2>2, <2>3 DEF RepositoryAudited, FindingsReported, NothingReported, Run
<1>6. CASE mem'.phase = "FIX" /\ mem'.status = mem.status /\ mem'.clean = <<>>
  BY <1>1, <1>2, <1>4, <1>5, <1>6 DEF AuditJudged, NothingDecided, Open
<1>7. ASSUME NEW auditor \in Auditors \ mem.auditors,
             NEW current,
             current = [audit |-> mem.active, auditor |-> auditor,
                        sha |-> mem.artifact],
             mem'.clean = CleanObservations(mem.clean, current),
             \/ Freezes(mem'.clean) /\ mem'.status = "CONVERGED"
             \/ mem'.status = mem.status /\ ~Freezes(mem'.clean)
      PROVE  AuditJudged' /\ Open(mem')
  <2>1. current \in Observation /\ current.sha = mem.artifact
    BY <1>1, <1>7 DEF Observation, Run
  <2>2. mem.clean \in Seq(Observation) /\ Len(mem.clean) \in Nat
    BY <1>1 DEF Run
  <2>3. mem.clean # <<>> => mem.clean[Len(mem.clean)].sha = mem.artifact
    BY <1>1, <2>2 DEF Inductive, CleanIsCurrent
  <2>4. mem'.clean = Append(mem.clean, current)
    BY <1>2, <1>7, <2>1, <2>3 DEF CleanObservations
  <2>5. /\ Len(mem'.clean) = Len(mem.clean) + 1
        /\ mem'.clean[Len(mem.clean) + 1] = current
        /\ mem'.clean # <<>>
    BY <2>1, <2>2, <2>4
  <2>6. AuditJudged'
    BY <1>1, <1>2, <1>4, <2>4, <2>5 DEF AuditJudged, NothingDecided
  <2>7. Len(mem'.clean) < 2 \/ Len(mem'.clean) = 2
    BY <1>2, <2>2, <2>5
  <2>8. Open(mem')
    <3>1. CASE Len(mem'.clean) < 2
      BY <3>1 DEF Open
    <3>2. CASE Len(mem'.clean) = 2
      <4>1. mem'.status = "CONVERGED"
        BY <1>7, <3>2 DEF Freezes
      <4>. QED
        BY <4>1 DEF Open
    <3>. QED
      BY <2>7, <3>1, <3>2
  <2>. QED
    BY <2>6, <2>8
<1>. QED
  BY <1>5, <1>6, <1>7, JudgeCases DEF Inductive

\* An abort keeps the pending findings.
LEMMA AbortPending ==
    ASSUME TypeOK, Abort
    PROVE  mem'.pending = saved.pending /\ mem'.artifact = saved.artifact
<1> DEFINE run == ReconcileInvocation(saved, invocation, TRUE)
<1>1. mem' = [run EXCEPT !.phase = "ABORTED", !.status = "ABORTED"]
  BY DEF Abort
<1>2. run \in Run
  BY ReconcileType DEF TypeOK
<1>3. run.pending = saved.pending /\ run.artifact = saved.artifact
  BY ReconcileFields DEF TypeOK
<1>. HIDE DEF run
<1>. QED
  BY <1>1, <1>2, <1>3 DEF Run

\* Every step keeps the memory at most one decision ahead.
LEMMA AheadStep ==
    Inductive /\ TypeOK' /\ OneDecisionAhead /\ [Next]_vars => OneDecisionAhead'
<1> SUFFICES ASSUME Inductive, TypeOK', OneDecisionAhead, [Next]_vars
             PROVE  OneDecisionAhead'
  OBVIOUS
<1>a. mem \in Run /\ saved \in Run /\ mem' \in Run /\ TypeOK /\ RunningPlaces
      /\ ConvergedSaved
  BY DEF Inductive, TypeOK
<1>0. CASE UNCHANGED vars
  BY <1>0 DEF vars, OneDecisionAhead, NothingDecided,
     ApprovalsWithdrawn, AuditJudged, ArtifactReplaced, Open
<1>1. ASSUME PrepareRepository PROVE OneDecisionAhead'
  BY <1>1, <1>a, NoDecision DEF PrepareRepository, Fail, callVars, Run,
     Executing
<1>2. ASSUME DriveStale PROVE OneDecisionAhead'
  BY <1>2, <1>a, NoDecision DEF DriveStale, Fail, disk, callVars, Run, Executing
<1>3. ASSUME BudgetExhausted PROVE OneDecisionAhead'
  BY <1>3, <1>a, NoDecision DEF BudgetExhausted, disk, callVars, Run, Executing
<1>4. ASSUME NextStage PROVE OneDecisionAhead'
  BY <1>4, <1>a, NoDecision DEF NextStage, disk, callVars, Run, Executing
<1>5. ASSUME LeaveLoop PROVE OneDecisionAhead'
  BY <1>5, <1>a, NoDecision DEF LeaveLoop, disk, callVars, Run, Executing
<1>6. ASSUME StartAgent PROVE OneDecisionAhead'
  BY <1>6, <1>a, NoDecision DEF StartAgent, Run, Executing
<1>7. ASSUME AgentEnds PROVE OneDecisionAhead'
  BY <1>7, <1>a, NoDecision DEF AgentEnds, Run, Executing
<1>8. ASSUME AuditUnread PROVE OneDecisionAhead'
  BY <1>8, <1>a, NoDecision DEF AuditUnread, Fail, disk, callVars, Run,
     Executing
<1>9. ASSUME AuditInvalid PROVE OneDecisionAhead'
  BY <1>9, <1>a, NoDecision DEF AuditInvalid, Fail, disk, callVars, Run,
     Executing
<1>10. ASSUME RepairInvalid PROVE OneDecisionAhead'
  BY <1>10, <1>a, NoDecision DEF RepairInvalid, Fail, disk, callVars, Run,
     Executing
<1>11. ASSUME RepairNeedsInput PROVE OneDecisionAhead'
  BY <1>11, <1>a, NoDecision DEF RepairNeedsInput, callVars, Run, Executing
<1>12. ASSUME PublishResult PROVE OneDecisionAhead'
  BY <1>12, <1>a, NoDecision DEF PublishResult, callVars, Run, Executing
<1>13. ASSUME Interrupt PROVE OneDecisionAhead'
  BY <1>13, <1>a, NoDecision DEF Interrupt, Fail, disk, callVars, Run, Executing
<1>14. ASSUME PrepareCall PROVE OneDecisionAhead'
  BY <1>14, <1>a, AllSaved
     DEF PrepareCall, Checkpoint, Run, RunningPlaces, OneDecisionAhead, Open,
        Executing
<1>15. ASSUME CannotStart PROVE OneDecisionAhead'
  BY <1>15, <1>a, AllSaved
     DEF CannotStart, Fail, callVars, Run, RunningPlaces, OneDecisionAhead,
        Open, Executing
<1>16. ASSUME CompleteCall PROVE OneDecisionAhead'
  BY <1>16, <1>a, CountedKeeps, AllSaved
     DEF CompleteCall, Checkpoint, RunningPlaces, OneDecisionAhead, Open,
        Executing
<1>17. ASSUME FailCall PROVE OneDecisionAhead'
  <2>1. PICK kind \in {"AGENT_ERROR", "AUDIT_STALE", "PROTOCOL_VIOLATION"} :
           Fail(Counted, kind)
    BY <1>17 DEF FailCall
  <2>2. saved' = Counted /\ pc = "ended"
    BY <1>17 DEF FailCall
  <2>. QED
    BY <1>a, <2>1, <2>2, FailKeeps, CountedKeeps, AllSaved
       DEF RunningPlaces, OneDecisionAhead, Open, Executing
<1>18. ASSUME ReturnCall PROVE OneDecisionAhead'
  BY <1>18, <1>a, AllSaved
     DEF ReturnCall, Checkpoint, callVars, Run, RunningPlaces, OneDecisionAhead,
        Open, Executing
<1>19. ASSUME RecordAudit PROVE OneDecisionAhead'
  BY <1>19, <1>a, AllSaved
     DEF RecordAudit, Checkpoint, callVars, Run, RunningPlaces,
        OneDecisionAhead, Open, Executing
<1>20. ASSUME SaveRepair PROVE OneDecisionAhead'
  BY <1>20, <1>a, AllSaved
     DEF SaveRepair, Checkpoint, callVars, Run, RunningPlaces, OneDecisionAhead,
        Open, Executing
<1>21. ASSUME CloseRun PROVE OneDecisionAhead'
  BY <1>21, <1>a, AllSaved
     DEF CloseRun, Checkpoint, OneDecisionAhead, Open, Executing
<1>22. ASSUME Resumed PROVE OneDecisionAhead'
  BY <1>22, <1>a, AllSaved
     DEF Resumed, callVars, Run, RunningPlaces, OneDecisionAhead, Open,
        Executing
<1>23. ASSUME Crash PROVE OneDecisionAhead'
  <2>1. saved' = saved /\ mem' = saved /\ pc' = "idle"
    BY <1>23 DEF Crash
  <2>. QED
    BY <2>1 DEF OneDecisionAhead, NothingDecided, Open, Executing
<1>24. ASSUME BeginCall PROVE OneDecisionAhead'
  <2>1. CASE mem' = mem /\ saved' = mem /\ pc' = "started"
    BY <1>24, <1>a, <2>1, AllSaved
       DEF BeginCall, RunningPlaces, OneDecisionAhead, Open, Executing
  <2>2. CASE saved' = saved /\ \E kind \in {"AUDIT_STALE", "PROTOCOL_VIOLATION"} :
                Fail(mem, kind)
    BY <1>24, <1>a, <2>2, NoDecision DEF BeginCall, Fail, Run, Executing
  <2>. QED
    BY <1>24, <2>1, <2>2 DEF BeginCall, Checkpoint
<1>25. ASSUME JudgeAudit PROVE OneDecisionAhead'
  <2>1. saved' = saved /\ pc = "returned" /\ pc' = "record"
    BY <1>25, <1>a, JudgeFields
  <2>2. saved.status # "CONVERGED" /\ Open(saved')
    BY <2>1 DEF OneDecisionAhead, Open
  <2>. QED
    BY <1>25, <2>1, <2>2, JudgeAhead DEF OneDecisionAhead, Executing
<1>26. ASSUME WriteRepair PROVE OneDecisionAhead'
  <2>1. PICK spec \in Specs \ {prompted, mem.artifact} : mem' = SpecRepaired(mem, spec)
    BY <1>26 DEF WriteRepair
  <2>2. saved' = saved /\ pc = "returned" /\ pc' = "save"
    BY <1>26 DEF WriteRepair
  <2>3. /\ mem'.artifact = spec /\ mem'.clean = <<>> /\ mem'.pending = NoAudit
        /\ mem'.phase = "AUDIT" /\ mem'.resumes = mem.resumes
    BY <1>a, <2>1 DEF SpecRepaired, Run
  <2>4. NothingDecided
    BY <2>2 DEF OneDecisionAhead, Executing
  <2>5. ArtifactReplaced'
    BY <2>1, <2>2, <2>3, <2>4 DEF ArtifactReplaced, NothingDecided
  <2>. QED
    BY <2>2, <2>3, <2>5 DEF OneDecisionAhead, Open, Executing
<1>27. ASSUME AfterRepair PROVE OneDecisionAhead'
  <2> DEFINE done == RepositoryAfterRepair(mem, Maximum, PauseStreak)
  <2>1. mem' = done /\ saved' = saved /\ pc = "after" /\ pc' = "drive"
    BY <1>27 DEF AfterRepair
  <2>2. /\ done.artifact = mem.artifact /\ done.clean = mem.clean
        /\ done.pending = mem.pending /\ done.resumes = mem.resumes
        /\ done.status \in {mem.status, "NON_CONVERGED", "PAUSED"}
    BY <1>a DEF RepositoryAfterRepair, Run
  <2>. HIDE DEF done
  <2>. QED
    BY <2>1, <2>2, NoDecision DEF Executing
<1>28. ASSUME OrphanDies \/ Edit PROVE OneDecisionAhead'
  BY <1>28 DEF OrphanDies, Edit, disk, OneDecisionAhead, NothingDecided,
     ApprovalsWithdrawn, AuditJudged, ArtifactReplaced, Open
<1>29. ASSUME Resume PROVE OneDecisionAhead'
  <2>1. /\ saved' = saved /\ pc' = "resuming" /\ saved.status # "CONVERGED"
        /\ mem'.clean = <<>> /\ mem'.pending = saved.pending
    BY <1>29, <1>a, ResumeFields DEF Resumable
  <2>. QED
    BY <2>1 DEF OneDecisionAhead, ApprovalsWithdrawn, Open, Executing
<1>30. ASSUME Abort PROVE OneDecisionAhead'
  <2>1. /\ saved' = saved /\ pc' = "finish" /\ saved.phase # "FROZEN"
        /\ mem'.clean = <<>>
    BY <1>30, <1>a, AbortFields
  <2>2. mem'.pending = saved.pending
    BY <1>30, <1>a, AbortPending
  <2>3. saved.status # "CONVERGED"
    BY <2>1 DEF Inductive, Sound
  <2>. QED
    BY <2>1, <2>2, <2>3 DEF OneDecisionAhead, ApprovalsWithdrawn, Open,
       Executing
<1>. QED
  BY <1>0, <1>1, <1>2, <1>3, <1>4, <1>5, <1>6, <1>7, <1>8, <1>9, <1>10, <1>11,
     <1>12, <1>13, <1>14, <1>15, <1>16, <1>17, <1>18, <1>19, <1>20, <1>21,
     <1>22, <1>23, <1>24, <1>25, <1>26, <1>27, <1>28, <1>29, <1>30
     DEF Next, Step, Environment


\* The memory of a run that goes on, or that is about to be closed, is ahead
\* of its checkpoint by the whole of one decision or by none.
LEMMA OneDecision ==
    ASSUME TypeOK, OneDecisionAhead
    PROVE  \/ NothingDecided /\ pc # "record"
           \/ ApprovalsWithdrawn /\ pc # "record"
           \/ AuditJudged
           \/ ArtifactReplaced /\ pc # "record"
  BY DEF TypeOK, Places, Executing, OneDecisionAhead

\* The first checkpoint is the run that the process starts with.
LEMMA InitAhead == Init => OneDecisionAhead
<1> SUFFICES ASSUME Init PROVE OneDecisionAhead
  OBVIOUS
<1>1. PICK spec \in Specs : mem = NewRun(spec)
  BY DEF Init
<1>2. mem.status = "RUNNING" /\ mem.clean = <<>> /\ saved = mem /\ pc = "prepare"
  BY <1>1 DEF NewRun, Init
<1>. QED
  BY <1>2 DEF OneDecisionAhead, NothingDecided, Open, Executing

\* In every state the memory is at most one decision ahead.
LEMMA AheadInvariant == Spec => [](Inductive /\ OneDecisionAhead)
<1>1. Init => Inductive /\ OneDecisionAhead
  BY InitInductive, InitAhead
<1>2. Inductive /\ OneDecisionAhead /\ [Next]_vars
        => (Inductive /\ OneDecisionAhead)'
  <2>1. Inductive /\ [Next]_vars => Inductive' /\ TypeOK'
    BY InductiveStep DEF Inductive
  <2>. QED
    BY <2>1, AheadStep
<1>. QED
  BY <1>1, <1>2, PTL DEF Spec

(***************************************************************************)
(* A step to another checkpoint saves what the memory has decided          *)
(***************************************************************************)

\* The checkpoint takes over the judgement of the memory.
Saves ==
    /\ saved'.artifact = mem.artifact
    /\ saved'.clean = mem.clean
    /\ saved'.pending = mem.pending
    /\ saved'.resumes = mem.resumes
    /\ saved'.phase = mem.phase
    /\ saved'.status = mem.status

\* A step leaves the checkpoint as it is or saves the judgement of the
\* memory before it.
LEMMA SavesOrNot == TypeOK /\ [Next]_vars => saved' = saved \/ Saves
<1> SUFFICES ASSUME TypeOK, [Next]_vars PROVE saved' = saved \/ Saves
  OBVIOUS
<1>a. mem \in Run
  BY DEF TypeOK
<1>0. CASE UNCHANGED vars
  BY <1>0 DEF vars
<1>1. ASSUME PrepareRepository PROVE saved' = saved
  BY <1>1 DEF PrepareRepository, callVars, disk
<1>2. ASSUME DriveStale PROVE saved' = saved
  BY <1>2 DEF DriveStale, callVars, disk
<1>3. ASSUME BudgetExhausted PROVE saved' = saved
  BY <1>3 DEF BudgetExhausted, callVars, disk
<1>4. ASSUME NextStage PROVE saved' = saved
  BY <1>4 DEF NextStage, callVars, disk
<1>5. ASSUME LeaveLoop PROVE saved' = saved
  BY <1>5 DEF LeaveLoop, callVars, disk
<1>6. ASSUME StartAgent PROVE saved' = saved
  BY <1>6 DEF StartAgent, callVars, disk
<1>7. ASSUME AgentEnds PROVE saved' = saved
  BY <1>7 DEF AgentEnds, callVars, disk
<1>8. ASSUME AuditUnread PROVE saved' = saved
  BY <1>8 DEF AuditUnread, callVars, disk
<1>9. ASSUME AuditInvalid PROVE saved' = saved
  BY <1>9 DEF AuditInvalid, callVars, disk
<1>10. ASSUME JudgeAudit PROVE saved' = saved
  BY <1>10, JudgeFields
<1>11. ASSUME RepairInvalid PROVE saved' = saved
  BY <1>11 DEF RepairInvalid, callVars, disk
<1>12. ASSUME RepairNeedsInput PROVE saved' = saved
  BY <1>12 DEF RepairNeedsInput, callVars, disk
<1>13. ASSUME WriteRepair PROVE saved' = saved
  BY <1>13 DEF WriteRepair, callVars, disk
<1>14. ASSUME AfterRepair PROVE saved' = saved
  BY <1>14 DEF AfterRepair, callVars, disk
<1>15. ASSUME PublishResult PROVE saved' = saved
  BY <1>15 DEF PublishResult, callVars, disk
<1>16. ASSUME Interrupt PROVE saved' = saved
  BY <1>16 DEF Interrupt, callVars, disk
<1>17. ASSUME Crash PROVE saved' = saved
  BY <1>17 DEF Crash, callVars, disk
<1>18. ASSUME OrphanDies PROVE saved' = saved
  BY <1>18 DEF OrphanDies, callVars, disk
<1>19. ASSUME Edit PROVE saved' = saved
  BY <1>19 DEF Edit, callVars, disk
<1>20. ASSUME Resume PROVE saved' = saved
  BY <1>20, ResumeFields
<1>21. ASSUME Abort PROVE saved' = saved
  BY <1>21, AbortFields
<1>22. ASSUME PrepareCall PROVE saved' = saved \/ Saves
  BY <1>22, <1>a DEF PrepareCall, Checkpoint, Run, Saves
<1>23. ASSUME BeginCall PROVE saved' = saved \/ Saves
  BY <1>23, <1>a DEF BeginCall, Checkpoint, Saves
<1>24. ASSUME CannotStart PROVE saved' = saved \/ Saves
  BY <1>24, <1>a DEF CannotStart, Saves
<1>25. ASSUME ReturnCall PROVE saved' = saved \/ Saves
  BY <1>25, <1>a DEF ReturnCall, Checkpoint, Run, Saves
<1>26. ASSUME RecordAudit PROVE saved' = saved \/ Saves
  BY <1>26, <1>a DEF RecordAudit, Checkpoint, Saves
<1>27. ASSUME SaveRepair PROVE saved' = saved \/ Saves
  BY <1>27, <1>a DEF SaveRepair, Checkpoint, Saves
<1>28. ASSUME CloseRun PROVE saved' = saved \/ Saves
  BY <1>28, <1>a DEF CloseRun, Checkpoint, Saves
<1>29. ASSUME Resumed PROVE saved' = saved \/ Saves
  BY <1>29, <1>a DEF Resumed, Saves
<1>30. ASSUME CompleteCall \/ FailCall PROVE Saves
  <2>1. saved' = Counted
    BY <1>30 DEF CompleteCall, FailCall, Checkpoint
  <2>. QED
    BY <1>a, <2>1, CountedKeeps DEF Saves
<1>. QED
  BY <1>0, <1>1, <1>2, <1>3, <1>4, <1>5, <1>6, <1>7, <1>8, <1>9, <1>10, <1>11,
     <1>12, <1>13, <1>14, <1>15, <1>16, <1>17, <1>18, <1>19, <1>20, <1>21,
     <1>22, <1>23, <1>24, <1>25, <1>26, <1>27, <1>28, <1>29, <1>30
     DEF Next, Step, Environment

\* Findings leave the checkpoint with the repair that is saved, whatever
\* crashes, errors, imports, resumes and aborts come in between.
THEOREM FindingsStayPending == Spec => PendingKept
<1>1. TypeOK /\ OneDecisionAhead /\ [Next]_vars =>
        [saved.pending # NoAudit /\ saved'.pending # saved.pending =>
           /\ saved'.pending = NoAudit
           /\ saved'.artifact # saved.artifact
           /\ saved'.resumes = saved.resumes
           /\ saved'.phase = "AUDIT"]_saved
  <2> SUFFICES ASSUME TypeOK, OneDecisionAhead, [Next]_vars, saved' # saved,
                      saved.pending # NoAudit, saved'.pending # saved.pending
               PROVE  /\ saved'.pending = NoAudit
                      /\ saved'.artifact # saved.artifact
                      /\ saved'.resumes = saved.resumes
                      /\ saved'.phase = "AUDIT"
    OBVIOUS
  <2>1. Saves
    BY SavesOrNot
  <2>2. ArtifactReplaced
    BY <2>1, OneDecision DEF Saves, NothingDecided, ApprovalsWithdrawn,
       AuditJudged
  <2>. QED
    BY <2>1, <2>2 DEF Saves, ArtifactReplaced
<1>2. Inductive => TypeOK
  BY DEF Inductive
<1>. QED
  BY <1>1, <1>2, AheadInvariant, PTL DEF Spec, PendingKept

(***************************************************************************)
(* The checkpoints implement Convergence                                   *)
(***************************************************************************)

\* Those who approved the artifact of a run.
Approvals(run) == {run.clean[i].auditor : i \in DOMAIN run.clean}

\* Without observations there is no approval.
LEMMA NoApproval ==
    ASSUME NEW run, run.clean = <<>>
    PROVE  Approvals(run) = {}
  BY DEF Approvals

\* One more observation is one more approval.
LEMMA OneMoreApproval ==
    ASSUME NEW run \in Run, NEW next \in Run, NEW current \in Observation,
           next.clean = Append(run.clean, current)
    PROVE  Approvals(next) = Approvals(run) \cup {current.auditor}
<1>1. run.clean \in Seq(Observation)
  BY DEF Run
<1>2. /\ DOMAIN next.clean = 1..(Len(run.clean) + 1)
      /\ DOMAIN run.clean = 1..Len(run.clean)
      /\ Len(run.clean) \in Nat
      /\ next.clean[Len(run.clean) + 1] = current
      /\ \A i \in 1..Len(run.clean) : next.clean[i] = run.clean[i]
  BY <1>1
<1>3. \A i : i \in 1..(Len(run.clean) + 1)
               <=> i \in 1..Len(run.clean) \/ i = Len(run.clean) + 1
  BY <1>2
<1>4. ASSUME NEW a PROVE a \in Approvals(next)
                           <=> a \in Approvals(run) \cup {current.auditor}
  BY <1>2, <1>3 DEF Approvals
<1>. QED
  BY <1>4

\* As many approve as observations are kept: their auditors differ.
LEMMA ApprovalsCounted ==
    ASSUME NEW run \in Run, CleanIsCurrent(run)
    PROVE  Cardinality(Approvals(run)) = Len(run.clean)
<1>1. /\ run.clean \in Seq(Observation)
      /\ Len(run.clean) \in Nat /\ Len(run.clean) <= 2
      /\ DOMAIN run.clean = 1..Len(run.clean)
  BY DEF Run, CleanIsCurrent
<1>2. CASE Len(run.clean) = 0
  <2>1. Approvals(run) = {}
    BY <1>1, <1>2 DEF Approvals
  <2>. QED
    BY <1>2, <2>1, FS_EmptySet
<1>3. CASE Len(run.clean) = 1
  <2>1. Approvals(run) = {run.clean[1].auditor}
    BY <1>1, <1>3 DEF Approvals
  <2>. QED
    BY <1>3, <2>1, FS_Singleton
<1>4. CASE Len(run.clean) = 2
  <2> DEFINE first == run.clean[1].auditor
             second == run.clean[2].auditor
  <2>1. Approvals(run) = {first} \cup {second}
    BY <1>1, <1>4 DEF Approvals
  <2>2. first # second
    BY <1>4 DEF CleanIsCurrent
  <2>3. IsFiniteSet({first}) /\ Cardinality({first}) = 1
    BY FS_Singleton
  <2>. HIDE DEF first, second
  <2>4. Cardinality({first} \cup {second}) = 2
    BY <2>2, <2>3, FS_AddElement
  <2>. QED
    BY <1>4, <2>1, <2>4
<1>5. \A n \in Nat : n <= 2 => n \in {0, 1, 2}
  OBVIOUS
<1>. QED
  BY <1>1, <1>2, <1>3, <1>4, <1>5

\* Convergence counts as FiniteSets does.
LEMMA SameCardinality == \A S : Judgement!Cardinality(S) = Cardinality(S)
  BY DEF Judgement!Cardinality, Cardinality

\* The first checkpoint is an initial state of Convergence.
LEMMA InitImplements == Init => Judgement!Init
<1> SUFFICES ASSUME Init PROVE Judgement!Init
  OBVIOUS
<1>1. PICK spec \in Specs : mem = NewRun(spec)
  BY DEF Init
<1>2. saved.artifact \in Specs /\ saved.clean = <<>> /\ saved.status = "RUNNING"
  BY <1>1 DEF NewRun, Init
<1>3. Approvals(saved) = {}
  BY <1>2, NoApproval
<1>. QED
  BY <1>2, <1>3 DEF Judgement!Init, Approvals

\* A clean audit that reaches the checkpoint is an approval.
LEMMA JudgedImplements ==
    ASSUME Inductive, Inductive', AuditJudged, Saves,
           saved.status # "CONVERGED", mem.clean # <<>>
    PROVE  Judgement!Approve
<1>1. /\ mem \in Run /\ saved \in Run /\ saved' \in Run
      /\ CleanIsCurrent(mem) /\ CleanIsCurrent(saved) /\ CleanIsCurrent(saved')
  BY DEF Inductive, TypeOK, CleanIsCurrent
<1>2. mem.clean \in Seq(Observation) /\ saved.clean \in Seq(Observation)
  BY <1>1 DEF Run
<1>3. PICK current \in Observation : mem.clean = Append(saved.clean, current)
  <2>1. mem.clean[Len(mem.clean)] \in Observation
    BY <1>2
  <2>. QED
    BY <2>1 DEF AuditJudged
<1>4. current.auditor \in Auditors
  BY <1>3 DEF Observation
<1>5. saved'.clean = Append(saved.clean, current)
  BY <1>3 DEF Saves
<1>6. Approvals(saved') = Approvals(saved) \cup {current.auditor}
  BY <1>1, <1>5, OneMoreApproval, Zenon
<1>7. /\ Len(saved'.clean) = Len(saved.clean) + 1
      /\ Len(saved.clean) \in Nat
  BY <1>2, <1>3, <1>5
<1>8. /\ Cardinality(Approvals(saved)) = Len(saved.clean)
      /\ Cardinality(Approvals(saved')) = Len(saved'.clean)
  BY <1>1, ApprovalsCounted
<1>9. current.auditor \notin Approvals(saved)
  <2>1. SUFFICES ASSUME current.auditor \in Approvals(saved) PROVE FALSE
    OBVIOUS
  <2>2. Approvals(saved') = Approvals(saved)
    BY <1>6, <2>1
  <2>. QED
    BY <1>7, <1>8, <2>2
<1>10. Len(saved'.clean) <= 2
  BY <1>1 DEF CleanIsCurrent
<1>11. Cardinality(Approvals(saved)) < 2
  BY <1>7, <1>8, <1>10
<1>12. saved'.status = "CONVERGED" => Cardinality(Approvals(saved')) = 2
  BY <1>8 DEF Saves, Inductive, Sound
<1>13. saved'.artifact = saved.artifact
  BY DEF Saves, AuditJudged
<1>. QED
  BY <1>4, <1>6, <1>9, <1>11, <1>12, <1>13, SameCardinality
     DEF Judgement!Approve, Approvals

\* Every step of the program is a step of Convergence or none.
LEMMA StepImplements ==
    Inductive /\ Inductive' /\ OneDecisionAhead /\ [Next]_vars
        => [Judgement!Next]_(Judgement!vars)
<1> SUFFICES ASSUME Inductive, Inductive', OneDecisionAhead, [Next]_vars
             PROVE  [Judgement!Next]_(Judgement!vars)
  OBVIOUS
<1>a. TypeOK /\ mem \in Run /\ saved \in Run /\ saved' \in Run
  BY DEF Inductive, TypeOK
<1>1. CASE saved' = saved
  BY <1>1 DEF Judgement!vars
<1>2. ASSUME Saves PROVE [Judgement!Next]_(Judgement!vars)
  <2>1. ASSUME saved'.artifact = saved.artifact, saved'.clean = saved.clean,
               saved'.status = "CONVERGED" <=> saved.status = "CONVERGED"
        PROVE  UNCHANGED Judgement!vars
    BY <2>1 DEF Judgement!vars
  <2>2. CASE saved.status = "CONVERGED"
    <3>1. NothingDecided
      BY <2>2 DEF OneDecisionAhead
    <3>2. saved'.artifact = saved.artifact /\ saved'.clean = saved.clean
      BY <1>2, <3>1 DEF Saves, NothingDecided
    <3>3. CASE saved'.status # "CONVERGED"
      BY <2>2, <3>2, <3>3 DEF Judgement!Next, Judgement!Retract
    <3>. QED
      BY <2>1, <2>2, <3>2, <3>3
  <2>3. CASE saved.status # "CONVERGED"
    <3>1. ASSUME saved'.clean = <<>>, saved'.status # "CONVERGED"
          PROVE  Judgement!Next
      <4>1. Approvals(saved') = {}
        BY <3>1, NoApproval
      <4>2. CASE saved'.artifact = saved.artifact
        BY <2>3, <3>1, <4>1, <4>2 DEF Judgement!Next, Judgement!Object,
           Approvals
      <4>3. CASE saved'.artifact # saved.artifact
        <5>1. saved'.artifact \in Specs \ {saved.artifact}
          BY <1>a, <4>3 DEF Run
        <5>. QED
          BY <2>3, <3>1, <4>1, <5>1
             DEF Judgement!Next, Judgement!Revise, Approvals
      <4>. QED
        BY <4>2, <4>3
    <3>2. pc # "record" => saved'.status # "CONVERGED"
      BY <1>2, <2>3 DEF Saves, Inductive, ConvergedSaved
    <3>3. CASE NothingDecided /\ pc # "record"
      BY <1>2, <2>1, <2>3, <3>2, <3>3 DEF Saves, NothingDecided
    <3>4. CASE (ApprovalsWithdrawn \/ ArtifactReplaced) /\ pc # "record"
      BY <1>2, <3>1, <3>2, <3>4 DEF Saves, ApprovalsWithdrawn, ArtifactReplaced
    <3>5. CASE AuditJudged
      <4>1. CASE mem.clean = <<>>
        <5>1. mem.status # "CONVERGED"
          BY <4>1 DEF Inductive, Sound
        <5>. QED
          BY <1>2, <3>1, <4>1, <5>1 DEF Saves
      <4>2. CASE mem.clean # <<>>
        BY <1>2, <2>3, <3>5, <4>2, JudgedImplements DEF Judgement!Next
      <4>. QED
        BY <4>1, <4>2
    <3>. QED
      BY <1>a, <3>3, <3>4, <3>5, OneDecision
  <2>. QED
    BY <2>2, <2>3
<1>. QED
  BY <1>a, <1>1, <1>2, SavesOrNot

\* The checkpoints of a run, across crashes, resumes and edits, are a run of
\* the abstract Convergence, for any number of Specs, auditors and resumes.
THEOREM RepositoryFlowImplementsConvergence == Spec => ImplementsConvergence
<1>1. Init => Judgement!Init
  BY InitImplements
<1>2. (Inductive /\ OneDecisionAhead) /\ (Inductive /\ OneDecisionAhead)'
        /\ [Next]_vars => [Judgement!Next]_(Judgement!vars)
  BY StepImplements
<1>. QED
  BY <1>1, <1>2, AheadInvariant, PTL
     DEF Spec, ImplementsConvergence, Judgement!Spec
=============================================================================
