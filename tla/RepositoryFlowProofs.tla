------------------------ MODULE RepositoryFlowProofs ------------------------
(***************************************************************************)
(* The safety of RepositoryFlow for every set of Specs and auditors, every *)
(* budget and every number of resumes: proofs that Inductive is an         *)
(* invariant, and what follows from it.                                    *)
(***************************************************************************)
EXTENDS RepositoryInvariant, TLAPS

(***************************************************************************)
(* The helpers return runs                                                 *)
(***************************************************************************)

\* The words and the empty sequence that the updates write.
LEMMA Words ==
    /\ "AUDIT" \in Phases /\ "FIX" \in Phases /\ "FROZEN" \in Phases
    /\ "PAUSED" \in Phases /\ "ABORTED" \in Phases
    /\ "CONVERGED" \in Statuses /\ "NON_CONVERGED" \in Statuses
    /\ "PAUSED" \in Statuses /\ "RUNNING" \in Statuses
    /\ "NEEDS_INPUT" \in Statuses /\ "ABORTED" \in Statuses
    /\ "AUDIT_STALE" \in Statuses
    /\ <<>> \in Seq(Observation)
    /\ NoAudit \in Nat
    /\ NoCall \in [role: Roles \cup {"none"}, before: Nat]
<1>1. <<>> \in Seq(Observation)
  OBVIOUS
<1>. QED
  BY <1>1 DEF Phases, Statuses, Resumable, NoAudit, NoCall

\* A saved repair leaves a run.
LEMMA RepairedType ==
    ASSUME NEW run \in Run, NEW spec \in Specs
    PROVE  SpecRepaired(run, spec) \in Run
  BY Words DEF SpecRepaired, Run

\* The stop decision after a repair leaves a run.
LEMMA AfterRepairType ==
    ASSUME NEW run \in Run
    PROVE  RepositoryAfterRepair(run, Maximum, PauseStreak) \in Run
  BY Words DEF RepositoryAfterRepair, Run

\* The list of clean observations stays one.
LEMMA CleanType ==
    ASSUME NEW previous \in Seq(Observation), NEW current \in Observation
    PROVE  CleanObservations(previous, current) \in Seq(Observation)
<1>. DEFINE same == previous # <<>> => previous[Len(previous)].sha = current.sha
            kept == IF same THEN previous ELSE <<>>
<1>1. kept \in Seq(Observation)
  OBVIOUS
<1>2. CASE Len(kept) < 2
  BY <1>1, <1>2 DEF CleanObservations
<1>3. CASE ~(Len(kept) < 2)
  <2>1. kept[Len(kept)] \in Observation
    BY <1>1, <1>3
  <2>. QED
    BY <1>3, <2>1 DEF CleanObservations
<1>. QED
  BY <1>2, <1>3

\* A judged audit leaves a run.
LEMMA AuditedType ==
    ASSUME NEW run \in Run, NEW audit \in Nat, NEW auditor \in Auditors,
           NEW findings \in Findings
    PROVE  RepositoryAudited(run, audit, auditor, findings) \in Run
<1>1. FindingsReported(run, audit, findings) \in Run
  <2> DEFINE streak == IF findings = "blocking" THEN run.streak + 1 ELSE 0
  <2>1. streak \in Nat
    BY DEF Run
  <2>2. FindingsReported(run, audit, findings) =
           [run EXCEPT !.active = NoAudit, !.phase = "FIX", !.clean = <<>>,
                       !.pending = audit, !.streak = streak]
    BY DEF FindingsReported
  <2>. HIDE DEF streak
  <2>. QED
    BY <2>1, <2>2, Words DEF Run
<1>2. NothingReported(run, audit, auditor) \in Run
  <2> DEFINE clean == CleanObservations(run.clean,
                         [audit |-> audit, auditor |-> auditor,
                          sha |-> run.artifact])
  <2>1. clean \in Seq(Observation)
    BY CleanType DEF Run, Observation
  <2> DEFINE phase == IF Freezes(clean) THEN "FROZEN" ELSE run.phase
             status == IF Freezes(clean) THEN "CONVERGED" ELSE run.status
             frozen == IF Freezes(clean) THEN run.artifact ELSE run.frozen
  <2>2. phase \in Phases /\ status \in Statuses /\ frozen \in Specs \cup {NoSpec}
    BY Words DEF Run
  <2>3. NothingReported(run, audit, auditor) =
           [run EXCEPT !.active = NoAudit, !.streak = 0, !.clean = clean,
                       !.phase = phase, !.status = status, !.frozen = frozen]
    BY DEF NothingReported, Run
  <2>. HIDE DEF clean, phase, status, frozen
  <2>4. ASSUME NEW c \in Seq(Observation), NEW p \in Phases,
               NEW s \in Statuses, NEW f \in Specs \cup {NoSpec}
        PROVE  [run EXCEPT !.active = NoAudit, !.streak = 0, !.clean = c,
                           !.phase = p, !.status = s, !.frozen = f] \in Run
    BY DEF Run, NoAudit
  <2>5. [run EXCEPT !.active = NoAudit, !.streak = 0, !.clean = clean,
                    !.phase = phase, !.status = status, !.frozen = frozen] \in Run
    BY <2>1, <2>2, <2>4
  <2>. QED
    BY <2>3, <2>5
<1>. QED
  BY <1>1, <1>2 DEF RepositoryAudited

\* reconcile_invocation returns a run without a call or an active audit.
LEMMA ReconcileType ==
    ASSUME NEW run \in Run, NEW call \in Invocations
    PROVE  ReconcileInvocation(run, call, TRUE) \in Run
<1> DEFINE rounds == [role \in DOMAIN run.rounds |->
                        run.rounds[role] + IF Uncounted(run, call, role)
                                             THEN 1 ELSE 0]
<1>1. rounds \in [Roles -> Nat]
  BY DEF Run
<1>2. ReconcileInvocation(run, call, TRUE) =
        [run EXCEPT !.rounds = rounds, !.lastCall = NoCall, !.active = 0,
                    !.clean = <<>>]
  BY DEF ReconcileInvocation, KeptClean
<1>. HIDE DEF rounds
<1>. QED
  BY <1>1, <1>2, Words DEF Run, NoAudit

\* What the settlement of an interrupted call does to each field of a run.
LEMMA ReconcileFields ==
    ASSUME NEW run \in Run, NEW call \in Invocations
    PROVE  LET done == ReconcileInvocation(run, call, TRUE)
           IN  /\ done.lastCall = NoCall
               /\ done.active = NoAudit
               /\ done.clean = <<>>
               /\ \A role \in Roles :
                     done.rounds[role] = run.rounds[role]
                        + IF Uncounted(run, call, role) THEN 1 ELSE 0
               /\ done.phase = run.phase
               /\ done.status = run.status
               /\ done.pending = run.pending
               /\ done.sequence = run.sequence
               /\ done.auditors = run.auditors
               /\ done.artifact = run.artifact
               /\ done.frozen = run.frozen
               /\ done.resumes = run.resumes
  BY DEF ReconcileInvocation, Run, NoAudit, KeptClean

(***************************************************************************)
(* Types                                                                   *)
(***************************************************************************)

\* A new run has its type.
LEMMA InitType == Init => TypeOK
<1> SUFFICES ASSUME Init PROVE TypeOK
  OBVIOUS
<1>1. PICK spec \in Specs : mem = NewRun(spec) /\ working = spec /\ prompted = spec
  BY DEF Init
<1>2. NewRun(spec) \in Run
  BY Words DEF NewRun, Run
<1>. QED
  BY <1>1, <1>2 DEF Init, TypeOK, Places, Executing, Invocations, Roles

\* Every error, whatever its kind, leaves a run and the place "finish".
LEMMA FailType ==
    ASSUME NEW run \in Run, NEW kind \in Statuses, Fail(run, kind)
    PROVE  mem' \in Run /\ pc' \in Places
  BY DEF Fail, Run, Places

\* The stage in flight is an audit or a repair.
LEMMA RoleType == Role \in Roles
  BY DEF Role, Roles

\* A counted call leaves a run.
LEMMA CountedType == mem \in Run => Counted \in Run
<1> SUFFICES ASSUME mem \in Run PROVE Counted \in Run
  OBVIOUS
<1> DEFINE rounds == [mem.rounds EXCEPT ![Role] = @ + 1]
<1>1. rounds \in [Roles -> Nat]
  BY RoleType DEF Run
<1>2. Counted = [mem EXCEPT !.rounds = rounds]
  BY DEF Counted, Run
<1>. HIDE DEF rounds
<1>. QED
  BY <1>1, <1>2 DEF Run

\* Every step keeps the types; that the number of agents stays a number
\* when one ends needs AgentKnown.
LEMMA TypeStep == TypeOK /\ AgentKnown /\ [Next]_vars => TypeOK'
<1> SUFFICES ASSUME TypeOK, AgentKnown, [Next]_vars PROVE TypeOK'
  OBVIOUS
<1> USE DEF TypeOK
<1>0. CASE UNCHANGED vars
  BY <1>0 DEF vars
<1>1. ASSUME mem' \in Run, saved' \in Run, pc' \in Places, working' \in Specs,
             prompted' \in Specs, invocation' \in Invocations,
             agents' \in Nat, unsaved' \in BOOLEAN,
             published' \in Statuses \cup {"none"}, begun' \in [Roles -> Nat]
      PROVE  TypeOK'
  BY <1>1
<1>2. ASSUME PrepareRepository PROVE TypeOK'
  <2>1. mem' \in Run /\ pc' \in Places
    <3>1. CASE mem' = [mem EXCEPT !.manifest = TRUE] /\ pc' = "drive"
      BY <3>1 DEF Run, Places, Executing
    <3>2. CASE Fail(mem, "REPOSITORY_ERROR")
      BY <3>2, FailType DEF Statuses, Resumable
    <3>. QED
      BY <1>2, <3>1, <3>2 DEF PrepareRepository
  <2>2. unsaved' \in BOOLEAN
    BY <1>2 DEF PrepareRepository, Run
  <2>. QED
    BY <1>2, <2>1, <2>2 DEF PrepareRepository, callVars
<1>3. ASSUME DriveStale PROVE TypeOK'
  BY <1>3, FailType, Words DEF DriveStale, disk, callVars
<1>4. ASSUME BudgetExhausted PROVE TypeOK'
  BY <1>4, Words DEF BudgetExhausted, disk, callVars, Run
<1>5. ASSUME NextStage PROVE TypeOK'
  <2>1. mem.sequence + 1 \in Nat
    <3>1. mem.sequence \in Nat
      BY DEF Run
    <3>. QED
      BY <3>1
  <2>2. ASSUME NEW n \in Nat
        PROVE  [mem EXCEPT !.sequence = n, !.active = n] \in Run
    BY DEF Run
  <2>3. [mem EXCEPT !.sequence = @ + 1, !.active = mem.sequence + 1] =
        [mem EXCEPT !.sequence = mem.sequence + 1, !.active = mem.sequence + 1]
    BY DEF Run
  <2>4. mem' \in Run
    BY <1>5, <2>1, <2>2, <2>3 DEF NextStage
  <2>. QED
    BY <1>5, <2>4 DEF NextStage, disk, callVars, Places, Executing
<1>6. ASSUME LeaveLoop PROVE TypeOK'
  <2>1. mem' \in Run
    BY <1>6, Words DEF LeaveLoop, Run
  <2>. QED
    BY <1>6, <2>1 DEF LeaveLoop, disk, callVars, Places
<1>7. ASSUME PrepareCall PROVE TypeOK'
  <2> DEFINE call == [role |-> Role, before |-> mem.rounds[Role]]
  <2>1. call \in [role: Roles \cup {"none"}, before: Nat]
    BY DEF Role, Roles, Run
  <2>. HIDE DEF call
  <2>2. [mem EXCEPT !.lastCall = call] \in Run
    BY <2>1 DEF Run
  <2>3. mem' \in Run /\ saved' \in Run
    BY <1>7, <2>2 DEF PrepareCall, Checkpoint, call
  <2>. QED
    BY <1>7, <2>3 DEF PrepareCall, Checkpoint, Places, Executing, Invocations
<1>8. ASSUME BeginCall PROVE TypeOK'
  <2>1. CASE Checkpoint(mem) /\ pc' = "started"
    BY <1>8, <2>1 DEF BeginCall, Checkpoint, Places, Executing, callVars
  <2>2. ASSUME NEW kind \in {"AUDIT_STALE", "PROTOCOL_VIOLATION"},
               Fail(mem, kind),
               UNCHANGED <<saved, working, unsaved, published>>
        PROVE  TypeOK'
    <3>1. kind \in Statuses
      BY DEF Statuses, Resumable
    <3>. QED
      BY <1>8, <2>2, <3>1, FailType DEF BeginCall, callVars
  <2>. QED
    BY <1>8, <2>1, <2>2 DEF BeginCall
<1>9. ASSUME StartAgent PROVE TypeOK'
  <2>1. begun' \in [Roles -> Nat]
    BY <1>9, RoleType DEF StartAgent
  <2>. QED
    BY <1>9, <2>1 DEF StartAgent, Places, Executing, Invocations
<1>10. ASSUME CannotStart PROVE TypeOK'
  <2>1. (IF Guard THEN "AGENT_ERROR" ELSE "AUDIT_STALE") \in Statuses
    BY DEF Statuses, Resumable
  <2>. QED
    BY <1>10, <2>1, FailType DEF CannotStart, callVars
<1>11. ASSUME AgentEnds PROVE TypeOK'
  BY <1>11 DEF AgentEnds, AgentKnown, Places, Executing, Invocations
<1>12. Counted \in Run
  BY CountedType
<1>13. ASSUME CompleteCall PROVE TypeOK'
  BY <1>12, <1>13 DEF CompleteCall, Checkpoint, callVars, Places, Executing
<1>14. ASSUME FailCall PROVE TypeOK'
  <2>1. PICK kind \in {"AGENT_ERROR", "AUDIT_STALE", "PROTOCOL_VIOLATION"} :
           Fail(Counted, kind)
    BY <1>14 DEF FailCall
  <2>2. kind \in Statuses
    BY DEF Statuses, Resumable
  <2>. QED
    BY <1>12, <1>14, <2>1, <2>2, FailType DEF FailCall, callVars
<1>15. ASSUME ReturnCall PROVE TypeOK'
  <2>1. [mem EXCEPT !.lastCall = NoCall] \in Run
    BY Words DEF Run
  <2>. QED
    BY <1>15, <2>1 DEF ReturnCall, Checkpoint, callVars, Places, Executing
<1>16. ASSUME AuditUnread PROVE TypeOK'
  <2>1. "REPOSITORY_ACCESS_ERROR" \in Statuses
    BY DEF Statuses, Resumable
  <2>. QED
    BY <1>16, <2>1, FailType DEF AuditUnread, disk, callVars
<1>17. ASSUME AuditInvalid PROVE TypeOK'
  <2>1. PICK known \in {{}} \cup {{auditor} : auditor \in Auditors} :
           Fail([mem EXCEPT !.auditors = @ \cup known], "AUDIT_INVALID")
    BY <1>17 DEF AuditInvalid
  <2>2. [mem EXCEPT !.auditors = @ \cup known] \in Run
    <3>1. mem.auditors \cup known \in SUBSET Auditors
      BY DEF Run
    <3>. QED
      BY <3>1 DEF Run
  <2>3. "AUDIT_INVALID" \in Statuses
    BY DEF Statuses, Resumable
  <2>. QED
    BY <1>17, <2>1, <2>2, <2>3, FailType DEF AuditInvalid, disk, callVars
<1>18. ASSUME JudgeAudit PROVE TypeOK'
  <2>1. PICK auditor \in Auditors \ mem.auditors, findings \in Findings :
           mem' = RepositoryAudited([mem EXCEPT !.auditors = @ \cup {auditor}],
                                    mem.active, auditor, findings)
    BY <1>18 DEF JudgeAudit
  <2>2. [mem EXCEPT !.auditors = @ \cup {auditor}] \in Run /\ mem.active \in Nat
    BY DEF Run
  <2>3. mem' \in Run
    BY <2>1, <2>2, AuditedType
  <2>. QED
    BY <1>18, <2>3 DEF JudgeAudit, callVars, Places, Executing
<1>19. ASSUME RecordAudit PROVE TypeOK'
  BY <1>19 DEF RecordAudit, Checkpoint, callVars, Places, Executing
<1>20. ASSUME RepairInvalid PROVE TypeOK'
  <2>1. PICK kind \in {"FIX_INVALID", "PROTOCOL_VIOLATION"} : Fail(mem, kind)
    BY <1>20 DEF RepairInvalid
  <2>2. kind \in Statuses
    BY DEF Statuses, Resumable
  <2>. QED
    BY <1>20, <2>1, <2>2, FailType DEF RepairInvalid, disk, callVars
<1>21. ASSUME RepairNeedsInput PROVE TypeOK'
  <2>1. [mem EXCEPT !.status = "NEEDS_INPUT"] \in Run
    BY Words DEF Run
  <2>. QED
    BY <1>21, <2>1 DEF RepairNeedsInput, callVars, Places, Executing
<1>22. ASSUME WriteRepair PROVE TypeOK'
  BY <1>22, RepairedType DEF WriteRepair, callVars, Places, Executing
<1>23. ASSUME SaveRepair PROVE TypeOK'
  BY <1>23 DEF SaveRepair, Checkpoint, callVars, Places, Executing
<1>24. ASSUME AfterRepair PROVE TypeOK'
  BY <1>24, AfterRepairType DEF AfterRepair, callVars, Places, Executing
<1>25. ASSUME PublishResult PROVE TypeOK'
  BY <1>25 DEF PublishResult, callVars, Places, Run
<1>26. ASSUME CloseRun PROVE TypeOK'
  BY <1>26 DEF CloseRun, Checkpoint, callVars, Places
<1>27. ASSUME Resumed PROVE TypeOK'
  BY <1>27 DEF Resumed, callVars, Places, Executing, Run
<1>28. ASSUME Interrupt PROVE TypeOK'
  <2>1. "INTERNAL_ERROR" \in Statuses
    BY DEF Statuses, Resumable
  <2>. QED
    BY <1>28, <2>1, FailType DEF Interrupt, disk, callVars
<1>29. ASSUME Crash PROVE TypeOK'
  BY <1>29 DEF Crash, disk, callVars, Places
<1>30. ASSUME OrphanDies PROVE TypeOK'
  BY <1>30 DEF OrphanDies, disk
<1>31. ASSUME Edit PROVE TypeOK'
  BY <1>31 DEF Edit
<1>32. ASSUME Resume PROVE TypeOK'
  <2> DEFINE run == ReconcileInvocation(saved, invocation, TRUE)
             paused == run.phase = "PAUSED"
             phase == IF paused THEN "AUDIT" ELSE run.phase
             streak == IF paused THEN 0 ELSE run.streak
             resumes == run.resumes + 1
  <2>1. PICK current \in Specs :
           mem' = [run EXCEPT
                     !.artifact = current, !.phase = phase, !.streak = streak,
                     !.resumes = resumes, !.status = "RUNNING"]
    BY <1>32 DEF Resume
  <2>2. run \in Run
    BY ReconcileType
  <2>. HIDE DEF run
  <2>3. run.phase \in Phases /\ run.streak \in Nat /\ run.resumes \in Nat
    BY <2>2 DEF Run
  <2>4. phase \in Phases /\ streak \in Nat /\ resumes \in Nat
    BY <2>3, Words
  <2>. HIDE DEF phase, streak, resumes
  <2>5. mem' \in Run
    BY <2>1, <2>2, <2>4, Words DEF Run
  <2>. QED
    BY <1>32, <2>5 DEF Resume, callVars, Places
<1>33. ASSUME Abort PROVE TypeOK'
  <2> DEFINE run == ReconcileInvocation(saved, invocation, TRUE)
  <2>1. run \in Run
    BY ReconcileType
  <2>2. mem' = [run EXCEPT !.phase = "ABORTED", !.status = "ABORTED"]
    BY <1>33 DEF Abort
  <2>. HIDE DEF run
  <2>3. mem' \in Run
    BY <2>1, <2>2, Words DEF Run
  <2>. QED
    BY <1>33, <2>3 DEF Abort, callVars, Places
<1>. QED
  BY <1>0, <1>2, <1>3, <1>4, <1>5, <1>6, <1>7, <1>8, <1>9, <1>10, <1>11, <1>13,
     <1>14, <1>15, <1>16, <1>17, <1>18, <1>19, <1>20, <1>21, <1>22, <1>23,
     <1>24, <1>25, <1>26, <1>27, <1>28, <1>29, <1>30, <1>31, <1>32, <1>33
     DEF Next, Step, Environment

\* What an audit, a repair and the stop decision leave alone.
LEMMA AuditedFields ==
    ASSUME NEW run \in Run, NEW audit, NEW auditor, NEW findings
    PROVE  LET done == RepositoryAudited(run, audit, auditor, findings)
           IN  /\ done.lastCall = run.lastCall
               /\ done.rounds = run.rounds
               /\ done.sequence = run.sequence
               /\ done.auditors = run.auditors
               /\ done.artifact = run.artifact
               /\ done.active = NoAudit
  BY DEF RepositoryAudited, FindingsReported, NothingReported, Run

\* What a saved repair does to the fields of a run.
LEMMA RepairedFields ==
    ASSUME NEW run \in Run, NEW spec
    PROVE  LET done == SpecRepaired(run, spec)
           IN  /\ done.lastCall = run.lastCall
               /\ done.rounds = run.rounds
               /\ done.sequence = run.sequence
               /\ done.auditors = run.auditors
               /\ done.active = run.active
               /\ done.status = run.status
               /\ done.frozen = run.frozen
               /\ done.artifact = spec
               /\ done.clean = <<>>
               /\ done.pending = NoAudit
               /\ done.phase = "AUDIT"
  BY DEF SpecRepaired, Run

\* What the stop decision leaves alone, and what it may set.
LEMMA AfterRepairFields ==
    ASSUME NEW run \in Run
    PROVE  LET done == RepositoryAfterRepair(run, Maximum, PauseStreak)
           IN  /\ done.lastCall = run.lastCall
               /\ done.rounds = run.rounds
               /\ done.sequence = run.sequence
               /\ done.auditors = run.auditors
               /\ done.active = run.active
               /\ done.frozen = run.frozen
               /\ done.artifact = run.artifact
               /\ done.clean = run.clean
               /\ done.pending = run.pending
               /\ done.phase \in {run.phase, "PAUSED"}
               /\ done.status \in {run.status, "NON_CONVERGED", "PAUSED"}
  BY DEF RepositoryAfterRepair, Run

\* What judging an audit leaves alone.
LEMMA JudgeFields ==
    ASSUME TypeOK, JudgeAudit
    PROVE  /\ pc = "returned" /\ pc' = "record" /\ Role = "audit"
           /\ UNCHANGED <<saved, working, invocation, published, callVars>>
           /\ mem'.lastCall = mem.lastCall
           /\ mem'.rounds = mem.rounds
           /\ mem'.sequence = mem.sequence
           /\ mem'.artifact = mem.artifact
           /\ mem'.active = NoAudit
           /\ \E auditor \in Auditors \ mem.auditors, findings \in Findings :
                 /\ mem'.auditors = mem.auditors \cup {auditor}
                 /\ mem' = RepositoryAudited(
                               [mem EXCEPT !.auditors = @ \cup {auditor}],
                               mem.active, auditor, findings)
<1>1. PICK auditor \in Auditors \ mem.auditors, findings \in Findings :
         mem' = RepositoryAudited([mem EXCEPT !.auditors = @ \cup {auditor}],
                                  mem.active, auditor, findings)
  BY DEF JudgeAudit
<1> DEFINE judged == [mem EXCEPT !.auditors = @ \cup {auditor}]
<1>2. /\ judged \in Run
      /\ judged.lastCall = mem.lastCall
      /\ judged.rounds = mem.rounds
      /\ judged.sequence = mem.sequence
      /\ judged.artifact = mem.artifact
      /\ judged.auditors = mem.auditors \cup {auditor}
  BY DEF TypeOK, Run
<1>3. mem' = RepositoryAudited(judged, mem.active, auditor, findings)
  BY <1>1
<1>. HIDE DEF judged
<1>4. /\ mem'.lastCall = mem.lastCall
      /\ mem'.rounds = mem.rounds
      /\ mem'.sequence = mem.sequence
      /\ mem'.artifact = mem.artifact
      /\ mem'.auditors = mem.auditors \cup {auditor}
      /\ mem'.active = NoAudit
  BY <1>2, <1>3, AuditedFields
<1>. QED
  BY <1>1, <1>4 DEF JudgeAudit

\* The run that a resume starts from.
LEMMA ResumeFields ==
    ASSUME TypeOK, Resume
    PROVE  /\ pc = "idle" /\ pc' = "resuming"
           /\ saved.status \in Resumable
           /\ ~AgentStillAlive(saved, invocation, agents)
           /\ UNCHANGED <<saved, working, invocation, published, callVars>>
           /\ mem'.lastCall = NoCall
           /\ mem'.active = NoAudit
           /\ mem'.clean = <<>>
           /\ \A role \in Roles :
                 mem'.rounds[role] = saved.rounds[role]
                    + IF Uncounted(saved, invocation, role) THEN 1 ELSE 0
           /\ mem'.phase = IF saved.phase = "PAUSED" THEN "AUDIT" ELSE saved.phase
           /\ mem'.status = "RUNNING"
           /\ mem'.pending = saved.pending
           /\ mem'.sequence = saved.sequence
           /\ mem'.resumes = saved.resumes + 1
           /\ mem'.artifact \in Specs
<1> DEFINE run == ReconcileInvocation(saved, invocation, TRUE)
           paused == run.phase = "PAUSED"
<1>1. PICK current \in Specs :
         mem' = [run EXCEPT !.artifact = current,
                            !.phase = IF paused THEN "AUDIT" ELSE @,
                            !.streak = IF paused THEN 0 ELSE @,
                            !.resumes = @ + 1,
                            !.status = "RUNNING"]
  BY DEF Resume
<1>2. run \in Run
  BY ReconcileType DEF TypeOK
<1>3. saved \in Run /\ invocation \in Invocations
  BY DEF TypeOK
<1>4. /\ run.lastCall = NoCall /\ run.active = NoAudit /\ run.clean = <<>>
      /\ \A role \in Roles :
            run.rounds[role] = saved.rounds[role]
               + IF Uncounted(saved, invocation, role) THEN 1 ELSE 0
      /\ run.phase = saved.phase /\ run.pending = saved.pending
      /\ run.sequence = saved.sequence /\ run.resumes = saved.resumes
  BY <1>3, ReconcileFields
<1>. HIDE DEF run
<1>5. mem' = [run EXCEPT !.artifact = current,
                         !.phase = IF saved.phase = "PAUSED" THEN "AUDIT" ELSE run.phase,
                         !.streak = IF saved.phase = "PAUSED" THEN 0 ELSE run.streak,
                         !.resumes = run.resumes + 1,
                         !.status = "RUNNING"]
  BY <1>1, <1>2, <1>4 DEF Run
<1>6. /\ pc = "idle" /\ pc' = "resuming"
      /\ saved.status \in Resumable
      /\ ~AgentStillAlive(saved, invocation, agents)
      /\ UNCHANGED <<saved, working, invocation, published, callVars>>
  BY DEF Resume
<1>. QED
  BY <1>2, <1>4, <1>5, <1>6 DEF Run

\* What an abort does to the fields of a run.
LEMMA AbortFields ==
    ASSUME TypeOK, Abort
    PROVE  /\ pc = "idle" /\ pc' = "finish"
           /\ saved.phase \notin {"FROZEN", "ABORTED"}
           /\ ~AgentStillAlive(saved, invocation, agents)
           /\ UNCHANGED <<saved, working, invocation, published, callVars>>
           /\ mem'.lastCall = NoCall
           /\ mem'.active = NoAudit
           /\ mem'.clean = <<>>
           /\ \A role \in Roles :
                 mem'.rounds[role] = saved.rounds[role]
                    + IF Uncounted(saved, invocation, role) THEN 1 ELSE 0
           /\ mem'.phase = "ABORTED"
           /\ mem'.status = "ABORTED"
<1> DEFINE run == ReconcileInvocation(saved, invocation, TRUE)
<1>1. mem' = [run EXCEPT !.phase = "ABORTED", !.status = "ABORTED"]
  BY DEF Abort
<1>2. run \in Run
  BY ReconcileType DEF TypeOK
<1>3. saved \in Run /\ invocation \in Invocations
  BY DEF TypeOK
<1>4. /\ run.lastCall = NoCall /\ run.active = NoAudit /\ run.clean = <<>>
      /\ \A role \in Roles :
            run.rounds[role] = saved.rounds[role]
               + IF Uncounted(saved, invocation, role) THEN 1 ELSE 0
  BY <1>3, ReconcileFields
<1>5. /\ pc = "idle" /\ pc' = "finish"
      /\ saved.phase \notin {"FROZEN", "ABORTED"}
      /\ ~AgentStillAlive(saved, invocation, agents)
      /\ UNCHANGED <<saved, working, invocation, published, callVars>>
  BY DEF Abort
<1>. HIDE DEF run
<1>. QED
  BY <1>1, <1>2, <1>4, <1>5 DEF Run

\* The two outcomes of an audit.
LEMMA JudgeCases ==
    ASSUME TypeOK, JudgeAudit
    PROVE  \/ /\ mem'.phase = "FIX"
              /\ mem'.status = mem.status
              /\ mem'.clean = <<>>
           \/ \E auditor \in Auditors \ mem.auditors :
                 LET clean == CleanObservations(
                                 mem.clean,
                                 [audit |-> mem.active, auditor |-> auditor,
                                  sha |-> mem.artifact])
                 IN  /\ mem'.auditors = mem.auditors \cup {auditor}
                     /\ mem'.clean = clean
                     /\ mem'.pending = mem.pending
                     /\ \/ /\ Freezes(clean)
                           /\ mem'.phase = "FROZEN"
                           /\ mem'.status = "CONVERGED"
                           /\ mem'.frozen = mem.artifact
                        \/ /\ ~Freezes(clean)
                           /\ mem'.phase = mem.phase
                           /\ mem'.status = mem.status
<1>1. PICK auditor \in Auditors \ mem.auditors, findings \in Findings :
         /\ mem'.auditors = mem.auditors \cup {auditor}
         /\ mem' = RepositoryAudited([mem EXCEPT !.auditors = @ \cup {auditor}],
                                     mem.active, auditor, findings)
  BY JudgeFields
<1> DEFINE judged == [mem EXCEPT !.auditors = @ \cup {auditor}]
<1>2. /\ judged \in Run
      /\ judged.clean = mem.clean
      /\ judged.status = mem.status
      /\ judged.phase = mem.phase
      /\ judged.pending = mem.pending
      /\ judged.artifact = mem.artifact
  BY DEF TypeOK, Run
<1>3. mem' = RepositoryAudited(judged, mem.active, auditor, findings)
  BY <1>1
<1>. HIDE DEF judged
<1>4. CASE findings # "none"
  BY <1>2, <1>3, <1>4 DEF RepositoryAudited, FindingsReported, Run
<1>5. CASE findings = "none"
  <2> DEFINE clean == CleanObservations(
                         mem.clean,
                         [audit |-> mem.active, auditor |-> auditor,
                          sha |-> mem.artifact])
  <2>1. mem' = [judged EXCEPT
                  !.active = NoAudit,
                  !.streak = 0,
                  !.clean = clean,
                  !.phase = IF Freezes(clean) THEN "FROZEN" ELSE @,
                  !.status = IF Freezes(clean) THEN "CONVERGED" ELSE @,
                  !.frozen = IF Freezes(clean) THEN mem.artifact ELSE @]
    BY <1>2, <1>3, <1>5 DEF RepositoryAudited, NothingReported
  <2>. HIDE DEF clean
  <2>2. /\ mem'.clean = clean
        /\ mem'.pending = mem.pending
        /\ \/ /\ Freezes(clean)
              /\ mem'.phase = "FROZEN"
              /\ mem'.status = "CONVERGED"
              /\ mem'.frozen = mem.artifact
           \/ /\ ~Freezes(clean)
              /\ mem'.phase = mem.phase
              /\ mem'.status = mem.status
    BY <1>2, <2>1 DEF Run
  <2>. QED
    BY <1>1, <2>2 DEF clean
<1>. QED
  BY <1>4, <1>5

(***************************************************************************)
(* Clean observations                                                      *)
(***************************************************************************)

\* Without clean observations there is nothing to be out of date.
LEMMA NoClean ==
    ASSUME NEW run \in Run, run.clean = <<>>
    PROVE  CleanIsCurrent(run)
  BY DEF CleanIsCurrent

\* Nothing but these fields decides what the observations are worth.
LEMMA SameClean ==
    ASSUME NEW run \in Run, NEW next \in Run, CleanIsCurrent(run),
           next.clean = run.clean,
           next.artifact = run.artifact,
           next.active = run.active,
           next.sequence = run.sequence,
           next.pending = run.pending,
           run.auditors \subseteq next.auditors
    PROVE  CleanIsCurrent(next)
  BY DEF CleanIsCurrent

\* One or two observations that meet the conditions, when no audit is active.
LEMMA CleanShown ==
    ASSUME NEW run,
           run.active = NoAudit, run.pending = NoAudit,
           Len(run.clean) \in {1, 2},
           \A i \in 1..Len(run.clean) :
              /\ run.clean[i].sha = run.artifact
              /\ run.clean[i].auditor \in run.auditors
              /\ run.clean[i].audit = run.sequence - (Len(run.clean) - i),
           Len(run.clean) = 2 => run.clean[1].auditor # run.clean[2].auditor
    PROVE  CleanIsCurrent(run)
  BY DEF CleanIsCurrent

\* One more clean observation of the current bytes extends a recent list.
LEMMA Appended ==
    ASSUME NEW S, NEW s \in Seq(S), NEW e \in S
    PROVE  /\ Len(Append(s, e)) = Len(s) + 1
           /\ Append(s, e)[Len(s) + 1] = e
           /\ \A i \in 1..Len(s) : Append(s, e)[i] = s[i]
  OBVIOUS

\* One more audit without findings, by an auditor of its own.
LEMMA OneMoreClean ==
    ASSUME NEW run \in Run, NEW next \in Run, CleanIsCurrent(run),
           NEW auditor \in Auditors \ run.auditors,
           run.active # NoAudit, run.active = run.sequence,
           run.pending = NoAudit,
           next.clean = CleanObservations(
                           run.clean,
                           [audit |-> run.active, auditor |-> auditor,
                            sha |-> run.artifact]),
           next.auditors = run.auditors \cup {auditor},
           next.artifact = run.artifact,
           next.active = NoAudit,
           next.sequence = run.sequence,
           next.pending = run.pending
    PROVE  CleanIsCurrent(next)
<1> DEFINE current == [audit |-> run.active, auditor |-> auditor,
                       sha |-> run.artifact]
<1>1. /\ run.clean \in Seq(Observation)
      /\ run.active \in Nat /\ current \in Observation
      /\ next.clean \in Seq(Observation)
  BY DEF Run, Observation
<1>2. /\ Len(run.clean) \in Nat
      /\ Len(run.clean) <= 2
      /\ \A i \in 1..Len(run.clean) :
            /\ run.clean[i].sha = run.artifact
            /\ run.clean[i].auditor \in run.auditors
            /\ run.clean[i].audit = (run.active - 1) - (Len(run.clean) - i)
  BY <1>1 DEF CleanIsCurrent
<1>3. next.clean = CleanObservations(run.clean, current)
  OBVIOUS
<1>. HIDE DEF current
<1>4. current.audit = run.active /\ current.auditor = auditor
      /\ current.sha = run.artifact
  BY DEF current
<1>5. ASSUME NEW old \in Observation, Len(next.clean) = 2,
             next.clean[1] = old, next.clean[2] = current,
             old.sha = run.artifact, old.auditor \in run.auditors,
             old.audit = run.active - 1
      PROVE  CleanIsCurrent(next)
  <2>1. old.auditor # current.auditor
    BY <1>4, <1>5
  <2>2. \A i \in 1..2 : i = 1 \/ i = 2
    OBVIOUS
  <2>3. next.active = NoAudit /\ next.sequence = run.active
        /\ run.active \in Nat /\ next.pending = NoAudit
    BY <1>1
  <2>4. \A i \in 1..2 :
           /\ next.clean[i].sha = next.artifact
           /\ next.clean[i].auditor \in next.auditors
           /\ next.clean[i].audit = next.sequence - (2 - i)
    BY <1>4, <1>5, <2>2, <2>3
  <2>. QED
    BY <1>5, <2>1, <2>3, <2>4, CleanShown
<1>6. CASE Len(run.clean) = 0
  <2>1. next.clean = <<current>>
    <3>1. run.clean = <<>>
      BY <1>1, <1>6
    <3>. QED
      BY <1>3, <3>1 DEF CleanObservations
  <2>2. Len(next.clean) = 1 /\ next.clean[1] = current
    BY <2>1
  <2>3. \A i \in 1..Len(next.clean) : i = 1
    <3>1. \A i \in 1..1 : i = 1
      OBVIOUS
    <3>2. 1..Len(next.clean) = 1..1
      BY <2>2
    <3>. QED
      BY <3>1, <3>2
  <2>4. next.active = NoAudit /\ next.sequence = run.active
        /\ run.active \in Nat /\ next.pending = NoAudit
    BY <1>1
  <2>5. \A i \in 1..Len(next.clean) :
           /\ next.clean[i].sha = next.artifact
           /\ next.clean[i].auditor \in next.auditors
           /\ next.clean[i].audit = next.sequence - (Len(next.clean) - i)
    BY <1>4, <2>2, <2>3, <2>4
  <2>. QED
    <3>1. Len(next.clean) \in {1, 2} /\ Len(next.clean) # 2
      BY <2>2
    <3>. QED
      BY <3>1, <2>4, <2>5, CleanShown
<1>7. CASE Len(run.clean) = 1
  <2>1. /\ run.clean[1] \in Observation
        /\ run.clean[1].sha = run.artifact
        /\ run.clean[1].auditor \in run.auditors
        /\ run.clean[1].audit = run.active - 1
    BY <1>1, <1>2, <1>7
  <2>2. CleanObservations(run.clean, current) = Append(run.clean, current)
    BY <1>1, <1>4, <1>7, <2>1 DEF CleanObservations
  <2>3. /\ Len(next.clean) = 2
        /\ next.clean[1] = run.clean[1] /\ next.clean[2] = current
    <3>1. next.clean = Append(run.clean, current)
      BY <1>3, <2>2
    <3>2. /\ Len(next.clean) = Len(run.clean) + 1
          /\ next.clean[Len(run.clean) + 1] = current
          /\ \A i \in 1..Len(run.clean) : next.clean[i] = run.clean[i]
      BY <1>1, <3>1, Appended
    <3>. QED
      BY <1>7, <3>2
  <2>. QED
    BY <1>5, <2>1, <2>3
<1>8. CASE Len(run.clean) = 2
  <2>1. /\ run.clean[2] \in Observation
        /\ run.clean[2].sha = run.artifact
        /\ run.clean[2].auditor \in run.auditors
        /\ run.clean[2].audit = run.active - 1
    BY <1>1, <1>2, <1>8
  <2>2. CleanObservations(run.clean, current) = <<run.clean[2], current>>
    BY <1>1, <1>4, <1>8, <2>1 DEF CleanObservations
  <2>3. /\ Len(next.clean) = 2
        /\ next.clean[1] = run.clean[2] /\ next.clean[2] = current
    BY <1>3, <2>2
  <2>. QED
    BY <1>5, <2>1, <2>3
<1>9. \A n \in Nat : n <= 2 => n \in {0, 1, 2}
  OBVIOUS
<1>. QED
  BY <1>2, <1>6, <1>7, <1>8, <1>9

(***************************************************************************)
(* Every step preserves the invariant, one group of its parts at a time    *)
(***************************************************************************)

\* The call record follows the steps of Engine.call and Invoker.
LEMMA CallStep == Inductive /\ TypeOK' /\ [Next]_vars => (CallRecorded /\ NoCallRecorded /\ IdleIsSaved)'
<1> SUFFICES ASSUME Inductive, TypeOK', [Next]_vars
             PROVE  (CallRecorded /\ NoCallRecorded /\ IdleIsSaved)'
  OBVIOUS
<1>a. mem \in Run /\ saved \in Run /\ CallRecorded /\ NoCallRecorded /\ IdleIsSaved
      /\ TypeOK
  BY DEF Inductive, TypeOK
<1> USE DEF CallRecorded, NoCallRecorded, IdleIsSaved, Calling, Executing, Role
<1>0. CASE UNCHANGED vars
  BY <1>0, <1>a DEF vars
<1>1. ASSUME PrepareRepository PROVE (CallRecorded /\ NoCallRecorded /\ IdleIsSaved)'
  BY <1>1, <1>a DEF PrepareRepository, Role, Fail, Checkpoint, Counted, disk,
     callVars, Run
<1>2. ASSUME DriveStale PROVE (CallRecorded /\ NoCallRecorded /\ IdleIsSaved)'
  BY <1>2, <1>a DEF DriveStale, Role, Fail, Checkpoint, Counted, disk, callVars,
     Run
<1>3. ASSUME BudgetExhausted PROVE (CallRecorded /\ NoCallRecorded /\ IdleIsSaved)'
  BY <1>3, <1>a DEF BudgetExhausted, Role, Fail, Checkpoint, Counted, disk,
     callVars, Run
<1>4. ASSUME NextStage PROVE (CallRecorded /\ NoCallRecorded /\ IdleIsSaved)'
  BY <1>4, <1>a DEF NextStage, Role, Fail, Checkpoint, Counted, disk, callVars,
     Run
<1>5. ASSUME LeaveLoop PROVE (CallRecorded /\ NoCallRecorded /\ IdleIsSaved)'
  BY <1>5, <1>a DEF LeaveLoop, Role, Fail, Checkpoint, Counted, disk, callVars,
     Run
<1>6. ASSUME PrepareCall PROVE (CallRecorded /\ NoCallRecorded /\ IdleIsSaved)'
  BY <1>6, <1>a DEF PrepareCall, Role, Fail, Checkpoint, Counted, disk,
     callVars, Run
<1>7. ASSUME BeginCall PROVE (CallRecorded /\ NoCallRecorded /\ IdleIsSaved)'
  BY <1>7, <1>a DEF BeginCall, Role, Fail, Checkpoint, Counted, disk, callVars,
     Run
<1>8. ASSUME StartAgent PROVE (CallRecorded /\ NoCallRecorded /\ IdleIsSaved)'
  BY <1>8, <1>a DEF StartAgent, Role, Fail, Checkpoint, Counted, disk, callVars,
     Run
<1>9. ASSUME CannotStart PROVE (CallRecorded /\ NoCallRecorded /\ IdleIsSaved)'
  BY <1>9, <1>a DEF CannotStart, Role, Fail, Checkpoint, Counted, disk,
     callVars, Run
<1>10. ASSUME AgentEnds PROVE (CallRecorded /\ NoCallRecorded /\ IdleIsSaved)'
  BY <1>10, <1>a DEF AgentEnds, Role, Fail, Checkpoint, Counted, disk, callVars,
     Run
<1>11. ASSUME CompleteCall PROVE (CallRecorded /\ NoCallRecorded /\ IdleIsSaved)'
  BY <1>11, <1>a DEF CompleteCall, Role, Fail, Checkpoint, Counted, disk,
     callVars, Run
<1>12. ASSUME FailCall PROVE (CallRecorded /\ NoCallRecorded /\ IdleIsSaved)'
  BY <1>12, <1>a DEF FailCall, Role, Fail, Checkpoint, Counted, disk, callVars,
     Run
<1>13. ASSUME ReturnCall PROVE (CallRecorded /\ NoCallRecorded /\ IdleIsSaved)'
  BY <1>13, <1>a DEF ReturnCall, Role, Fail, Checkpoint, Counted, disk,
     callVars, Run
<1>14. ASSUME AuditUnread PROVE (CallRecorded /\ NoCallRecorded /\ IdleIsSaved)'
  BY <1>14, <1>a DEF AuditUnread, Role, Fail, Checkpoint, Counted, disk,
     callVars, Run
<1>15. ASSUME AuditInvalid PROVE (CallRecorded /\ NoCallRecorded /\ IdleIsSaved)'
  BY <1>15, <1>a DEF AuditInvalid, Role, Fail, Checkpoint, Counted, disk,
     callVars, Run
<1>16. ASSUME JudgeAudit PROVE (CallRecorded /\ NoCallRecorded /\ IdleIsSaved)'
  BY <1>16, <1>a, JudgeFields DEF callVars
<1>17. ASSUME RecordAudit PROVE (CallRecorded /\ NoCallRecorded /\ IdleIsSaved)'
  BY <1>17, <1>a DEF RecordAudit, Role, Fail, Checkpoint, Counted, disk,
     callVars, Run
<1>18. ASSUME RepairInvalid PROVE (CallRecorded /\ NoCallRecorded /\ IdleIsSaved)'
  BY <1>18, <1>a DEF RepairInvalid, Role, Fail, Checkpoint, Counted, disk,
     callVars, Run
<1>19. ASSUME RepairNeedsInput PROVE (CallRecorded /\ NoCallRecorded /\ IdleIsSaved)'
  BY <1>19, <1>a DEF RepairNeedsInput, Role, Fail, Checkpoint, Counted, disk,
     callVars, Run
<1>20. ASSUME WriteRepair PROVE (CallRecorded /\ NoCallRecorded /\ IdleIsSaved)'
  <2>1. PICK spec \in Specs : mem' = SpecRepaired(mem, spec)
    BY <1>20 DEF WriteRepair
  <2>. QED
    BY <1>20, <1>a, <2>1, RepairedFields DEF WriteRepair, callVars
<1>21. ASSUME SaveRepair PROVE (CallRecorded /\ NoCallRecorded /\ IdleIsSaved)'
  BY <1>21, <1>a DEF SaveRepair, Role, Fail, Checkpoint, Counted, disk,
     callVars, Run
<1>22. ASSUME AfterRepair PROVE (CallRecorded /\ NoCallRecorded /\ IdleIsSaved)'
  BY <1>22, <1>a, AfterRepairFields DEF AfterRepair, callVars
<1>23. ASSUME PublishResult PROVE (CallRecorded /\ NoCallRecorded /\ IdleIsSaved)'
  BY <1>23, <1>a DEF PublishResult, Role, Fail, Checkpoint, Counted, disk,
     callVars, Run
<1>24. ASSUME CloseRun PROVE (CallRecorded /\ NoCallRecorded /\ IdleIsSaved)'
  BY <1>24, <1>a DEF CloseRun, Role, Fail, Checkpoint, Counted, disk, callVars,
     Run
<1>25. ASSUME Resumed PROVE (CallRecorded /\ NoCallRecorded /\ IdleIsSaved)'
  BY <1>25, <1>a DEF Resumed, Role, Fail, Checkpoint, Counted, disk, callVars,
     Run
<1>26. ASSUME Interrupt PROVE (CallRecorded /\ NoCallRecorded /\ IdleIsSaved)'
  BY <1>26, <1>a DEF Interrupt, Role, Fail, Checkpoint, Counted, disk, callVars,
     Run
<1>27. ASSUME Crash PROVE (CallRecorded /\ NoCallRecorded /\ IdleIsSaved)'
  BY <1>27, <1>a DEF Crash, Role, Fail, Checkpoint, Counted, disk, callVars, Run
<1>28. ASSUME OrphanDies PROVE (CallRecorded /\ NoCallRecorded /\ IdleIsSaved)'
  BY <1>28, <1>a DEF OrphanDies, Role, Fail, Checkpoint, Counted, disk,
     callVars, Run
<1>29. ASSUME Edit PROVE (CallRecorded /\ NoCallRecorded /\ IdleIsSaved)'
  BY <1>29, <1>a DEF Edit, Role, Fail, Checkpoint, Counted, disk, callVars, Run
<1>30. ASSUME Resume PROVE (CallRecorded /\ NoCallRecorded /\ IdleIsSaved)'
  BY <1>30, <1>a, ResumeFields DEF callVars
<1>31. ASSUME Abort PROVE (CallRecorded /\ NoCallRecorded /\ IdleIsSaved)'
  BY <1>31, <1>a, AbortFields DEF callVars
<1>. QED
  BY <1>0, <1>1, <1>2, <1>3, <1>4, <1>5, <1>6, <1>7, <1>8, <1>9, <1>10, <1>11,
     <1>12, <1>13, <1>14, <1>15, <1>16, <1>17, <1>18, <1>19, <1>20, <1>21,
     <1>22, <1>23, <1>24, <1>25, <1>26, <1>27, <1>28, <1>29, <1>30, <1>31
     DEF Next, Step, Environment

\* Each call that begins is counted once, in memory and in the checkpoint.
LEMMA TallyStep == Inductive /\ TypeOK' /\ [Next]_vars => (Tally(mem) /\ Tally(saved))'
<1> SUFFICES ASSUME Inductive, TypeOK', [Next]_vars
             PROVE  (Tally(mem) /\ Tally(saved))'
  OBVIOUS
<1>a. mem \in Run /\ saved \in Run /\ begun \in [Roles -> Nat] /\ TypeOK
      /\ Tally(mem) /\ Tally(saved) /\ CallRecorded /\ NoCallRecorded
  BY DEF Inductive, TypeOK
<1> USE DEF Tally, Uncounted, CallStarted, Calling, Executing
<1>0. CASE UNCHANGED vars
  BY <1>0, <1>a DEF vars
<1>1. ASSUME PrepareRepository PROVE (Tally(mem) /\ Tally(saved))'
  BY <1>1, <1>a DEF PrepareRepository, Role, Fail, Checkpoint, Counted, disk,
     callVars, Run, CallRecorded, NoCallRecorded, NoCall, Roles
<1>2. ASSUME DriveStale PROVE (Tally(mem) /\ Tally(saved))'
  BY <1>2, <1>a DEF DriveStale, Role, Fail, Checkpoint, Counted, disk, callVars,
     Run, CallRecorded, NoCallRecorded, NoCall, Roles
<1>3. ASSUME BudgetExhausted PROVE (Tally(mem) /\ Tally(saved))'
  BY <1>3, <1>a DEF BudgetExhausted, Role, Fail, Checkpoint, Counted, disk,
     callVars, Run, CallRecorded, NoCallRecorded, NoCall, Roles
<1>4. ASSUME NextStage PROVE (Tally(mem) /\ Tally(saved))'
  BY <1>4, <1>a DEF NextStage, Role, Fail, Checkpoint, Counted, disk, callVars,
     Run, CallRecorded, NoCallRecorded, NoCall, Roles
<1>5. ASSUME LeaveLoop PROVE (Tally(mem) /\ Tally(saved))'
  BY <1>5, <1>a DEF LeaveLoop, Role, Fail, Checkpoint, Counted, disk, callVars,
     Run, CallRecorded, NoCallRecorded, NoCall, Roles
<1>6. ASSUME PrepareCall PROVE (Tally(mem) /\ Tally(saved))'
  BY <1>6, <1>a DEF PrepareCall, Role, Fail, Checkpoint, Counted, disk,
     callVars, Run, CallRecorded, NoCallRecorded, NoCall, Roles
<1>7. ASSUME BeginCall PROVE (Tally(mem) /\ Tally(saved))'
  BY <1>7, <1>a DEF BeginCall, Role, Fail, Checkpoint, Counted, disk, callVars,
     Run, CallRecorded, NoCallRecorded, NoCall, Roles
<1>8. ASSUME StartAgent PROVE (Tally(mem) /\ Tally(saved))'
  BY <1>8, <1>a DEF StartAgent, Role, Fail, Checkpoint, Counted, disk, callVars,
     Run, CallRecorded, NoCallRecorded, NoCall, Roles
<1>9. ASSUME CannotStart PROVE (Tally(mem) /\ Tally(saved))'
  BY <1>9, <1>a DEF CannotStart, Role, Fail, Checkpoint, Counted, disk,
     callVars, Run, CallRecorded, NoCallRecorded, NoCall, Roles
<1>10. ASSUME AgentEnds PROVE (Tally(mem) /\ Tally(saved))'
  BY <1>10, <1>a DEF AgentEnds, Role, Fail, Checkpoint, Counted, disk, callVars,
     Run, CallRecorded, NoCallRecorded, NoCall, Roles
<1>11. ASSUME CompleteCall PROVE (Tally(mem) /\ Tally(saved))'
  BY <1>11, <1>a DEF CompleteCall, Role, Fail, Checkpoint, Counted, disk,
     callVars, Run, CallRecorded, NoCallRecorded, NoCall, Roles
<1>12. ASSUME FailCall PROVE (Tally(mem) /\ Tally(saved))'
  BY <1>12, <1>a DEF FailCall, Role, Fail, Checkpoint, Counted, disk, callVars,
     Run, CallRecorded, NoCallRecorded, NoCall, Roles
<1>13. ASSUME ReturnCall PROVE (Tally(mem) /\ Tally(saved))'
  BY <1>13, <1>a DEF ReturnCall, Role, Fail, Checkpoint, Counted, disk,
     callVars, Run, CallRecorded, NoCallRecorded, NoCall, Roles
<1>14. ASSUME AuditUnread PROVE (Tally(mem) /\ Tally(saved))'
  BY <1>14, <1>a DEF AuditUnread, Role, Fail, Checkpoint, Counted, disk,
     callVars, Run, CallRecorded, NoCallRecorded, NoCall, Roles
<1>15. ASSUME AuditInvalid PROVE (Tally(mem) /\ Tally(saved))'
  BY <1>15, <1>a DEF AuditInvalid, Role, Fail, Checkpoint, Counted, disk,
     callVars, Run, CallRecorded, NoCallRecorded, NoCall, Roles
<1>16. ASSUME JudgeAudit PROVE (Tally(mem) /\ Tally(saved))'
  BY <1>16, <1>a, JudgeFields DEF callVars
<1>17. ASSUME RecordAudit PROVE (Tally(mem) /\ Tally(saved))'
  BY <1>17, <1>a DEF RecordAudit, Role, Fail, Checkpoint, Counted, disk,
     callVars, Run, CallRecorded, NoCallRecorded, NoCall, Roles
<1>18. ASSUME RepairInvalid PROVE (Tally(mem) /\ Tally(saved))'
  BY <1>18, <1>a DEF RepairInvalid, Role, Fail, Checkpoint, Counted, disk,
     callVars, Run, CallRecorded, NoCallRecorded, NoCall, Roles
<1>19. ASSUME RepairNeedsInput PROVE (Tally(mem) /\ Tally(saved))'
  BY <1>19, <1>a DEF RepairNeedsInput, Role, Fail, Checkpoint, Counted, disk,
     callVars, Run, CallRecorded, NoCallRecorded, NoCall, Roles
<1>20. ASSUME WriteRepair PROVE (Tally(mem) /\ Tally(saved))'
  <2>1. PICK spec \in Specs : mem' = SpecRepaired(mem, spec)
    BY <1>20 DEF WriteRepair
  <2>. QED
    BY <1>20, <1>a, <2>1, RepairedFields DEF WriteRepair, callVars
<1>21. ASSUME SaveRepair PROVE (Tally(mem) /\ Tally(saved))'
  BY <1>21, <1>a DEF SaveRepair, Role, Fail, Checkpoint, Counted, disk,
     callVars, Run, CallRecorded, NoCallRecorded, NoCall, Roles
<1>22. ASSUME AfterRepair PROVE (Tally(mem) /\ Tally(saved))'
  BY <1>22, <1>a, AfterRepairFields DEF AfterRepair, callVars
<1>23. ASSUME PublishResult PROVE (Tally(mem) /\ Tally(saved))'
  BY <1>23, <1>a DEF PublishResult, Role, Fail, Checkpoint, Counted, disk,
     callVars, Run, CallRecorded, NoCallRecorded, NoCall, Roles
<1>24. ASSUME CloseRun PROVE (Tally(mem) /\ Tally(saved))'
  BY <1>24, <1>a DEF CloseRun, Role, Fail, Checkpoint, Counted, disk, callVars,
     Run, CallRecorded, NoCallRecorded, NoCall, Roles
<1>25. ASSUME Resumed PROVE (Tally(mem) /\ Tally(saved))'
  BY <1>25, <1>a DEF Resumed, Role, Fail, Checkpoint, Counted, disk, callVars,
     Run, CallRecorded, NoCallRecorded, NoCall, Roles
<1>26. ASSUME Interrupt PROVE (Tally(mem) /\ Tally(saved))'
  BY <1>26, <1>a DEF Interrupt, Role, Fail, Checkpoint, Counted, disk, callVars,
     Run, CallRecorded, NoCallRecorded, NoCall, Roles
<1>27. ASSUME Crash PROVE (Tally(mem) /\ Tally(saved))'
  BY <1>27, <1>a DEF Crash, Role, Fail, Checkpoint, Counted, disk, callVars,
     Run, CallRecorded, NoCallRecorded, NoCall, Roles
<1>28. ASSUME OrphanDies PROVE (Tally(mem) /\ Tally(saved))'
  BY <1>28, <1>a DEF OrphanDies, Role, Fail, Checkpoint, Counted, disk,
     callVars, Run, CallRecorded, NoCallRecorded, NoCall, Roles
<1>29. ASSUME Edit PROVE (Tally(mem) /\ Tally(saved))'
  BY <1>29, <1>a DEF Edit, Role, Fail, Checkpoint, Counted, disk, callVars, Run,
     CallRecorded, NoCallRecorded, NoCall, Roles
<1>30. ASSUME Resume PROVE (Tally(mem) /\ Tally(saved))'
  BY <1>30, <1>a, ResumeFields DEF callVars
<1>31. ASSUME Abort PROVE (Tally(mem) /\ Tally(saved))'
  BY <1>31, <1>a, AbortFields DEF callVars
<1>. QED
  BY <1>0, <1>1, <1>2, <1>3, <1>4, <1>5, <1>6, <1>7, <1>8, <1>9, <1>10, <1>11,
     <1>12, <1>13, <1>14, <1>15, <1>16, <1>17, <1>18, <1>19, <1>20, <1>21,
     <1>22, <1>23, <1>24, <1>25, <1>26, <1>27, <1>28, <1>29, <1>30, <1>31
     DEF Next, Step, Environment

\* A live agent is always the one of the recorded call, and none starts
\* beyond the budget.
LEMMA AgentStep == Inductive /\ TypeOK' /\ [Next]_vars => (AgentKnown /\ WithinBudget /\ BudgetKept)'
<1> SUFFICES ASSUME Inductive, TypeOK', [Next]_vars
             PROVE  (AgentKnown /\ WithinBudget /\ BudgetKept)'
  OBVIOUS
<1>a. mem \in Run /\ saved \in Run /\ begun \in [Roles -> Nat] /\ agents \in Nat /\ TypeOK
      /\ AgentKnown /\ WithinBudget /\ BudgetKept /\ CallRecorded
      /\ Tally(mem)
  BY DEF Inductive, TypeOK
<1> USE DEF AgentKnown, WithinBudget, BudgetKept, BudgetLeft, Executing,
   AgentStillAlive
<1>0. CASE UNCHANGED vars
  BY <1>0, <1>a DEF vars
<1>1. ASSUME PrepareRepository PROVE (AgentKnown /\ WithinBudget /\ BudgetKept)'
  BY <1>1, <1>a DEF PrepareRepository, Role, Fail, Checkpoint, Counted, disk,
     callVars, Run, CallRecorded, Calling, NoCall, Roles, Tally, Uncounted,
     CallStarted
<1>2. ASSUME DriveStale PROVE (AgentKnown /\ WithinBudget /\ BudgetKept)'
  BY <1>2, <1>a DEF DriveStale, Role, Fail, Checkpoint, Counted, disk, callVars,
     Run, CallRecorded, Calling, NoCall, Roles, Tally, Uncounted, CallStarted
<1>3. ASSUME BudgetExhausted PROVE (AgentKnown /\ WithinBudget /\ BudgetKept)'
  BY <1>3, <1>a DEF BudgetExhausted, Role, Fail, Checkpoint, Counted, disk,
     callVars, Run, CallRecorded, Calling, NoCall, Roles, Tally, Uncounted,
     CallStarted
<1>4. ASSUME NextStage PROVE (AgentKnown /\ WithinBudget /\ BudgetKept)'
  BY <1>4, <1>a DEF NextStage, Role, Fail, Checkpoint, Counted, disk, callVars,
     Run, CallRecorded, Calling, NoCall, Roles, Tally, Uncounted, CallStarted
<1>5. ASSUME LeaveLoop PROVE (AgentKnown /\ WithinBudget /\ BudgetKept)'
  BY <1>5, <1>a DEF LeaveLoop, Role, Fail, Checkpoint, Counted, disk, callVars,
     Run, CallRecorded, Calling, NoCall, Roles, Tally, Uncounted, CallStarted
<1>6. ASSUME PrepareCall PROVE (AgentKnown /\ WithinBudget /\ BudgetKept)'
  BY <1>6, <1>a DEF PrepareCall, Role, Fail, Checkpoint, Counted, disk,
     callVars, Run, CallRecorded, Calling, NoCall, Roles, Tally, Uncounted,
     CallStarted
<1>7. ASSUME BeginCall PROVE (AgentKnown /\ WithinBudget /\ BudgetKept)'
  BY <1>7, <1>a DEF BeginCall, Role, Fail, Checkpoint, Counted, disk, callVars,
     Run, CallRecorded, Calling, NoCall, Roles, Tally, Uncounted, CallStarted
<1>8. ASSUME StartAgent PROVE (AgentKnown /\ WithinBudget /\ BudgetKept)'
  <2>1. ~Uncounted(mem, invocation, "audit")
    BY <1>8, <1>a DEF StartAgent, Uncounted, CallStarted, CallRecorded
  <2>2. mem.rounds["audit"] \in Nat /\ Maximum \in Nat
    BY <1>a, BudgetAssumption DEF Run, Roles
  <2>3. begun["audit"] = mem.rounds["audit"]
    <3>1. begun["audit"] = mem.rounds["audit"] + 0
      BY <1>a, <2>1 DEF Tally, Roles
    <3>. QED
      BY <2>2, <3>1
  <2>4. mem.rounds["audit"] < Maximum
    BY <1>8, <1>a DEF StartAgent
  <2>5. begun'["audit"] \in {begun["audit"], begun["audit"] + 1}
    BY <1>8, <1>a DEF StartAgent, Roles
  <2>6. begun'["audit"] <= Maximum
    BY <2>2, <2>3, <2>4, <2>5
  <2>. QED
    BY <1>8, <1>a, <2>6 DEF StartAgent
<1>9. ASSUME CannotStart PROVE (AgentKnown /\ WithinBudget /\ BudgetKept)'
  BY <1>9, <1>a DEF CannotStart, Role, Fail, Checkpoint, Counted, disk,
     callVars, Run, CallRecorded, Calling, NoCall, Roles, Tally, Uncounted,
     CallStarted
<1>10. ASSUME AgentEnds PROVE (AgentKnown /\ WithinBudget /\ BudgetKept)'
  BY <1>10, <1>a DEF AgentEnds, Role, Fail, Checkpoint, Counted, disk, callVars,
     Run, CallRecorded, Calling, NoCall, Roles, Tally, Uncounted, CallStarted
<1>11. ASSUME CompleteCall PROVE (AgentKnown /\ WithinBudget /\ BudgetKept)'
  BY <1>11, <1>a DEF CompleteCall, Role, Fail, Checkpoint, Counted, disk,
     callVars, Run, CallRecorded, Calling, NoCall, Roles, Tally, Uncounted,
     CallStarted
<1>12. ASSUME FailCall PROVE (AgentKnown /\ WithinBudget /\ BudgetKept)'
  BY <1>12, <1>a DEF FailCall, Role, Fail, Checkpoint, Counted, disk, callVars,
     Run, CallRecorded, Calling, NoCall, Roles, Tally, Uncounted, CallStarted
<1>13. ASSUME ReturnCall PROVE (AgentKnown /\ WithinBudget /\ BudgetKept)'
  BY <1>13, <1>a DEF ReturnCall, Role, Fail, Checkpoint, Counted, disk,
     callVars, Run, CallRecorded, Calling, NoCall, Roles, Tally, Uncounted,
     CallStarted
<1>14. ASSUME AuditUnread PROVE (AgentKnown /\ WithinBudget /\ BudgetKept)'
  BY <1>14, <1>a DEF AuditUnread, Role, Fail, Checkpoint, Counted, disk,
     callVars, Run, CallRecorded, Calling, NoCall, Roles, Tally, Uncounted,
     CallStarted
<1>15. ASSUME AuditInvalid PROVE (AgentKnown /\ WithinBudget /\ BudgetKept)'
  BY <1>15, <1>a DEF AuditInvalid, Role, Fail, Checkpoint, Counted, disk,
     callVars, Run, CallRecorded, Calling, NoCall, Roles, Tally, Uncounted,
     CallStarted
<1>16. ASSUME JudgeAudit PROVE (AgentKnown /\ WithinBudget /\ BudgetKept)'
  BY <1>16, <1>a, JudgeFields DEF callVars
<1>17. ASSUME RecordAudit PROVE (AgentKnown /\ WithinBudget /\ BudgetKept)'
  BY <1>17, <1>a DEF RecordAudit, Role, Fail, Checkpoint, Counted, disk,
     callVars, Run, CallRecorded, Calling, NoCall, Roles, Tally, Uncounted,
     CallStarted
<1>18. ASSUME RepairInvalid PROVE (AgentKnown /\ WithinBudget /\ BudgetKept)'
  BY <1>18, <1>a DEF RepairInvalid, Role, Fail, Checkpoint, Counted, disk,
     callVars, Run, CallRecorded, Calling, NoCall, Roles, Tally, Uncounted,
     CallStarted
<1>19. ASSUME RepairNeedsInput PROVE (AgentKnown /\ WithinBudget /\ BudgetKept)'
  BY <1>19, <1>a DEF RepairNeedsInput, Role, Fail, Checkpoint, Counted, disk,
     callVars, Run, CallRecorded, Calling, NoCall, Roles, Tally, Uncounted,
     CallStarted
<1>20. ASSUME WriteRepair PROVE (AgentKnown /\ WithinBudget /\ BudgetKept)'
  <2>1. PICK spec \in Specs : mem' = SpecRepaired(mem, spec)
    BY <1>20 DEF WriteRepair
  <2>. QED
    BY <1>20, <1>a, <2>1, RepairedFields DEF WriteRepair, callVars
<1>21. ASSUME SaveRepair PROVE (AgentKnown /\ WithinBudget /\ BudgetKept)'
  BY <1>21, <1>a DEF SaveRepair, Role, Fail, Checkpoint, Counted, disk,
     callVars, Run, CallRecorded, Calling, NoCall, Roles, Tally, Uncounted,
     CallStarted
<1>22. ASSUME AfterRepair PROVE (AgentKnown /\ WithinBudget /\ BudgetKept)'
  BY <1>22, <1>a, AfterRepairFields DEF AfterRepair, callVars
<1>23. ASSUME PublishResult PROVE (AgentKnown /\ WithinBudget /\ BudgetKept)'
  BY <1>23, <1>a DEF PublishResult, Role, Fail, Checkpoint, Counted, disk,
     callVars, Run, CallRecorded, Calling, NoCall, Roles, Tally, Uncounted,
     CallStarted
<1>24. ASSUME CloseRun PROVE (AgentKnown /\ WithinBudget /\ BudgetKept)'
  BY <1>24, <1>a DEF CloseRun, Role, Fail, Checkpoint, Counted, disk, callVars,
     Run, CallRecorded, Calling, NoCall, Roles, Tally, Uncounted, CallStarted
<1>25. ASSUME Resumed PROVE (AgentKnown /\ WithinBudget /\ BudgetKept)'
  BY <1>25, <1>a DEF Resumed, Role, Fail, Checkpoint, Counted, disk, callVars,
     Run, CallRecorded, Calling, NoCall, Roles, Tally, Uncounted, CallStarted
<1>26. ASSUME Interrupt PROVE (AgentKnown /\ WithinBudget /\ BudgetKept)'
  BY <1>26, <1>a DEF Interrupt, Role, Fail, Checkpoint, Counted, disk, callVars,
     Run, CallRecorded, Calling, NoCall, Roles, Tally, Uncounted, CallStarted
<1>27. ASSUME Crash PROVE (AgentKnown /\ WithinBudget /\ BudgetKept)'
  BY <1>27, <1>a DEF Crash, Role, Fail, Checkpoint, Counted, disk, callVars,
     Run, CallRecorded, Calling, NoCall, Roles, Tally, Uncounted, CallStarted
<1>28. ASSUME OrphanDies PROVE (AgentKnown /\ WithinBudget /\ BudgetKept)'
  BY <1>28, <1>a DEF OrphanDies, Role, Fail, Checkpoint, Counted, disk,
     callVars, Run, CallRecorded, Calling, NoCall, Roles, Tally, Uncounted,
     CallStarted
<1>29. ASSUME Edit PROVE (AgentKnown /\ WithinBudget /\ BudgetKept)'
  BY <1>29, <1>a DEF Edit, Role, Fail, Checkpoint, Counted, disk, callVars, Run,
     CallRecorded, Calling, NoCall, Roles, Tally, Uncounted, CallStarted
<1>30. ASSUME Resume PROVE (AgentKnown /\ WithinBudget /\ BudgetKept)'
  BY <1>30, <1>a, ResumeFields DEF callVars
<1>31. ASSUME Abort PROVE (AgentKnown /\ WithinBudget /\ BudgetKept)'
  BY <1>31, <1>a, AbortFields DEF callVars
<1>. QED
  BY <1>0, <1>1, <1>2, <1>3, <1>4, <1>5, <1>6, <1>7, <1>8, <1>9, <1>10, <1>11,
     <1>12, <1>13, <1>14, <1>15, <1>16, <1>17, <1>18, <1>19, <1>20, <1>21,
     <1>22, <1>23, <1>24, <1>25, <1>26, <1>27, <1>28, <1>29, <1>30, <1>31
     DEF Next, Step, Environment

\* Active audit, pending findings and status fit the place of the process.
LEMMA PlaceStep == Inductive /\ TypeOK' /\ [Next]_vars => (AuditPlaces /\ PendingPhase(mem) /\ PendingPhase(saved) /\ RunningPlaces)'
<1> SUFFICES ASSUME Inductive, TypeOK', [Next]_vars
             PROVE  (AuditPlaces /\ PendingPhase(mem) /\ PendingPhase(saved) /\ RunningPlaces)'
  OBVIOUS
<1>a. mem \in Run /\ saved \in Run /\ TypeOK /\ CallRecorded /\ IdleIsSaved
      /\ AuditPlaces /\ PendingPhase(mem) /\ PendingPhase(saved) /\ RunningPlaces
      /\ Sound(mem) /\ Sound(saved)
  BY DEF Inductive, TypeOK
<1> USE DEF AuditPlaces, LatestAudit, PendingPhase, RunningPlaces, Calling,
   Executing, Role
<1>0. CASE UNCHANGED vars
  BY <1>0, <1>a DEF vars
<1>1. ASSUME PrepareRepository PROVE (AuditPlaces /\ PendingPhase(mem) /\ PendingPhase(saved) /\ RunningPlaces)'
  <2>1. AuditPlaces'
    BY <1>1, <1>a DEF PrepareRepository, Fail, callVars, Run
  <2>2. PendingPhase(mem)'
    BY <1>1, <1>a DEF PrepareRepository, Fail, callVars, Run
  <2>3. PendingPhase(saved)'
    BY <1>1, <1>a DEF PrepareRepository, Fail, callVars, Run
  <2>4. RunningPlaces'
    BY <1>1, <1>a DEF PrepareRepository, Fail, callVars, Run
  <2>. QED
    BY <2>1, <2>2, <2>3, <2>4
<1>2. ASSUME DriveStale PROVE (AuditPlaces /\ PendingPhase(mem) /\ PendingPhase(saved) /\ RunningPlaces)'
  BY <1>2, <1>a DEF DriveStale, Role, Fail, Checkpoint, Counted, disk, callVars,
     Run, CallRecorded, IdleIsSaved, Sound, Resumable, NoAudit
<1>3. ASSUME BudgetExhausted PROVE (AuditPlaces /\ PendingPhase(mem) /\ PendingPhase(saved) /\ RunningPlaces)'
  BY <1>3, <1>a DEF BudgetExhausted, Role, Fail, Checkpoint, Counted, disk,
     callVars, Run, CallRecorded, IdleIsSaved, Sound, Resumable, NoAudit
<1>4. ASSUME NextStage PROVE (AuditPlaces /\ PendingPhase(mem) /\ PendingPhase(saved) /\ RunningPlaces)'
  BY <1>4, <1>a DEF NextStage, Role, Fail, Checkpoint, Counted, disk, callVars,
     Run, CallRecorded, IdleIsSaved, Sound, Resumable, NoAudit
<1>5. ASSUME LeaveLoop PROVE (AuditPlaces /\ PendingPhase(mem) /\ PendingPhase(saved) /\ RunningPlaces)'
  BY <1>5, <1>a DEF LeaveLoop, Role, Fail, Checkpoint, Counted, disk, callVars,
     Run, CallRecorded, IdleIsSaved, Sound, Resumable, NoAudit
<1>6. ASSUME PrepareCall PROVE (AuditPlaces /\ PendingPhase(mem) /\ PendingPhase(saved) /\ RunningPlaces)'
  BY <1>6, <1>a DEF PrepareCall, Role, Fail, Checkpoint, Counted, disk,
     callVars, Run, CallRecorded, IdleIsSaved, Sound, Resumable, NoAudit
<1>7. ASSUME BeginCall PROVE (AuditPlaces /\ PendingPhase(mem) /\ PendingPhase(saved) /\ RunningPlaces)'
  BY <1>7, <1>a DEF BeginCall, Role, Fail, Checkpoint, Counted, disk, callVars,
     Run, CallRecorded, IdleIsSaved, Sound, Resumable, NoAudit
<1>8. ASSUME StartAgent PROVE (AuditPlaces /\ PendingPhase(mem) /\ PendingPhase(saved) /\ RunningPlaces)'
  BY <1>8, <1>a DEF StartAgent, Role, Fail, Checkpoint, Counted, disk, callVars,
     Run, CallRecorded, IdleIsSaved, Sound, Resumable, NoAudit
<1>9. ASSUME CannotStart PROVE (AuditPlaces /\ PendingPhase(mem) /\ PendingPhase(saved) /\ RunningPlaces)'
  BY <1>9, <1>a DEF CannotStart, Role, Fail, Checkpoint, Counted, disk,
     callVars, Run, CallRecorded, IdleIsSaved, Sound, Resumable, NoAudit
<1>10. ASSUME AgentEnds PROVE (AuditPlaces /\ PendingPhase(mem) /\ PendingPhase(saved) /\ RunningPlaces)'
  BY <1>10, <1>a DEF AgentEnds, Role, Fail, Checkpoint, Counted, disk, callVars,
     Run, CallRecorded, IdleIsSaved, Sound, Resumable, NoAudit
<1>11. ASSUME CompleteCall PROVE (AuditPlaces /\ PendingPhase(mem) /\ PendingPhase(saved) /\ RunningPlaces)'
  BY <1>11, <1>a DEF CompleteCall, Role, Fail, Checkpoint, Counted, disk,
     callVars, Run, CallRecorded, IdleIsSaved, Sound, Resumable, NoAudit
<1>12. ASSUME FailCall PROVE (AuditPlaces /\ PendingPhase(mem) /\ PendingPhase(saved) /\ RunningPlaces)'
  BY <1>12, <1>a DEF FailCall, Role, Fail, Checkpoint, Counted, disk, callVars,
     Run, CallRecorded, IdleIsSaved, Sound, Resumable, NoAudit
<1>13. ASSUME ReturnCall PROVE (AuditPlaces /\ PendingPhase(mem) /\ PendingPhase(saved) /\ RunningPlaces)'
  BY <1>13, <1>a DEF ReturnCall, Role, Fail, Checkpoint, Counted, disk,
     callVars, Run, CallRecorded, IdleIsSaved, Sound, Resumable, NoAudit
<1>14. ASSUME AuditUnread PROVE (AuditPlaces /\ PendingPhase(mem) /\ PendingPhase(saved) /\ RunningPlaces)'
  BY <1>14, <1>a DEF AuditUnread, Role, Fail, Checkpoint, Counted, disk,
     callVars, Run, CallRecorded, IdleIsSaved, Sound, Resumable, NoAudit
<1>15. ASSUME AuditInvalid PROVE (AuditPlaces /\ PendingPhase(mem) /\ PendingPhase(saved) /\ RunningPlaces)'
  BY <1>15, <1>a DEF AuditInvalid, Role, Fail, Checkpoint, Counted, disk,
     callVars, Run, CallRecorded, IdleIsSaved, Sound, Resumable, NoAudit
<1>16. ASSUME JudgeAudit PROVE (AuditPlaces /\ PendingPhase(mem) /\ PendingPhase(saved) /\ RunningPlaces)'
  <2>1. mem.pending = NoAudit
    <3>1. mem.phase \in Phases /\ mem.phase # "ABORTED"
      BY <1>16, <1>a, JudgeFields DEF Run
    <3>2. mem.phase # "FIX"
      BY <1>16, <1>a, JudgeFields DEF Run
    <3>. QED
      BY <1>a, <3>1, <3>2 DEF Phases
  <2>2. AuditPlaces'
    BY <1>16, <1>a, JudgeFields DEF callVars
  <2>3. PendingPhase(mem)'
    BY <1>16, <2>1, JudgeCases, <1>a
  <2>4. PendingPhase(saved)'
    BY <1>16, <1>a, JudgeFields
  <2>5. RunningPlaces'
    BY <1>16, <1>a, JudgeFields, JudgeCases DEF callVars, Resumable
  <2>. QED
    BY <2>2, <2>3, <2>4, <2>5
<1>17. ASSUME RecordAudit PROVE (AuditPlaces /\ PendingPhase(mem) /\ PendingPhase(saved) /\ RunningPlaces)'
  BY <1>17, <1>a DEF RecordAudit, Role, Fail, Checkpoint, Counted, disk,
     callVars, Run, CallRecorded, IdleIsSaved, Sound, Resumable, NoAudit
<1>18. ASSUME RepairInvalid PROVE (AuditPlaces /\ PendingPhase(mem) /\ PendingPhase(saved) /\ RunningPlaces)'
  BY <1>18, <1>a DEF RepairInvalid, Role, Fail, Checkpoint, Counted, disk,
     callVars, Run, CallRecorded, IdleIsSaved, Sound, Resumable, NoAudit
<1>19. ASSUME RepairNeedsInput PROVE (AuditPlaces /\ PendingPhase(mem) /\ PendingPhase(saved) /\ RunningPlaces)'
  BY <1>19, <1>a DEF RepairNeedsInput, Role, Fail, Checkpoint, Counted, disk,
     callVars, Run, CallRecorded, IdleIsSaved, Sound, Resumable, NoAudit
<1>20. ASSUME WriteRepair PROVE (AuditPlaces /\ PendingPhase(mem) /\ PendingPhase(saved) /\ RunningPlaces)'
  <2>1. PICK spec \in Specs : mem' = SpecRepaired(mem, spec)
    BY <1>20 DEF WriteRepair
  <2>. QED
    BY <1>20, <1>a, <2>1, RepairedFields DEF WriteRepair, callVars
<1>21. ASSUME SaveRepair PROVE (AuditPlaces /\ PendingPhase(mem) /\ PendingPhase(saved) /\ RunningPlaces)'
  BY <1>21, <1>a DEF SaveRepair, Role, Fail, Checkpoint, Counted, disk,
     callVars, Run, CallRecorded, IdleIsSaved, Sound, Resumable, NoAudit
<1>22. ASSUME AfterRepair PROVE (AuditPlaces /\ PendingPhase(mem) /\ PendingPhase(saved) /\ RunningPlaces)'
  <2>1. AuditPlaces'
    BY <1>22, <1>a, AfterRepairFields DEF AfterRepair, callVars
  <2>2. PendingPhase(mem)'
    BY <1>22, <1>a, AfterRepairFields DEF AfterRepair, callVars
  <2>3. PendingPhase(saved)'
    BY <1>22, <1>a, AfterRepairFields DEF AfterRepair, callVars
  <2>4. RunningPlaces'
    BY <1>22, <1>a, AfterRepairFields DEF AfterRepair, callVars
  <2>. QED
    BY <2>1, <2>2, <2>3, <2>4
<1>23. ASSUME PublishResult PROVE (AuditPlaces /\ PendingPhase(mem) /\ PendingPhase(saved) /\ RunningPlaces)'
  BY <1>23, <1>a DEF PublishResult, Role, Fail, Checkpoint, Counted, disk,
     callVars, Run, CallRecorded, IdleIsSaved, Sound, Resumable, NoAudit
<1>24. ASSUME CloseRun PROVE (AuditPlaces /\ PendingPhase(mem) /\ PendingPhase(saved) /\ RunningPlaces)'
  BY <1>24, <1>a DEF CloseRun, Role, Fail, Checkpoint, Counted, disk, callVars,
     Run, CallRecorded, IdleIsSaved, Sound, Resumable, NoAudit
<1>25. ASSUME Resumed PROVE (AuditPlaces /\ PendingPhase(mem) /\ PendingPhase(saved) /\ RunningPlaces)'
  BY <1>25, <1>a DEF Resumed, Role, Fail, Checkpoint, Counted, disk, callVars,
     Run, CallRecorded, IdleIsSaved, Sound, Resumable, NoAudit
<1>26. ASSUME Interrupt PROVE (AuditPlaces /\ PendingPhase(mem) /\ PendingPhase(saved) /\ RunningPlaces)'
  BY <1>26, <1>a DEF Interrupt, Role, Fail, Checkpoint, Counted, disk, callVars,
     Run, CallRecorded, IdleIsSaved, Sound, Resumable, NoAudit
<1>27. ASSUME Crash PROVE (AuditPlaces /\ PendingPhase(mem) /\ PendingPhase(saved) /\ RunningPlaces)'
  BY <1>27, <1>a DEF Crash, Role, Fail, Checkpoint, Counted, disk, callVars,
     Run, CallRecorded, IdleIsSaved, Sound, Resumable, NoAudit
<1>28. ASSUME OrphanDies PROVE (AuditPlaces /\ PendingPhase(mem) /\ PendingPhase(saved) /\ RunningPlaces)'
  BY <1>28, <1>a DEF OrphanDies, Role, Fail, Checkpoint, Counted, disk,
     callVars, Run, CallRecorded, IdleIsSaved, Sound, Resumable, NoAudit
<1>29. ASSUME Edit PROVE (AuditPlaces /\ PendingPhase(mem) /\ PendingPhase(saved) /\ RunningPlaces)'
  BY <1>29, <1>a DEF Edit, Role, Fail, Checkpoint, Counted, disk, callVars, Run,
     CallRecorded, IdleIsSaved, Sound, Resumable, NoAudit
<1>30. ASSUME Resume PROVE (AuditPlaces /\ PendingPhase(mem) /\ PendingPhase(saved) /\ RunningPlaces)'
  <2>1. AuditPlaces'
    BY <1>30, <1>a, ResumeFields DEF callVars, Resumable
  <2>2. PendingPhase(mem)'
    BY <1>30, <1>a, ResumeFields DEF callVars, Resumable
  <2>3. PendingPhase(saved)'
    BY <1>30, <1>a, ResumeFields DEF callVars, Resumable
  <2>4. RunningPlaces'
    BY <1>30, <1>a, ResumeFields DEF callVars, Resumable
  <2>. QED
    BY <2>1, <2>2, <2>3, <2>4
<1>31. ASSUME Abort PROVE (AuditPlaces /\ PendingPhase(mem) /\ PendingPhase(saved) /\ RunningPlaces)'
  BY <1>31, <1>a, AbortFields DEF callVars
<1>. QED
  BY <1>0, <1>1, <1>2, <1>3, <1>4, <1>5, <1>6, <1>7, <1>8, <1>9, <1>10, <1>11,
     <1>12, <1>13, <1>14, <1>15, <1>16, <1>17, <1>18, <1>19, <1>20, <1>21,
     <1>22, <1>23, <1>24, <1>25, <1>26, <1>27, <1>28, <1>29, <1>30, <1>31
     DEF Next, Step, Environment

\* The clean observations in memory and in the checkpoint stay recent.
LEMMA CleanStep == Inductive /\ TypeOK' /\ [Next]_vars => CleanIsCurrent(mem') /\ CleanIsCurrent(saved')
<1> SUFFICES ASSUME Inductive, TypeOK', [Next]_vars
             PROVE  CleanIsCurrent(mem') /\ CleanIsCurrent(saved')
  OBVIOUS
<1>a. mem \in Run /\ saved \in Run /\ mem' \in Run /\ saved' \in Run
      /\ TypeOK /\ IdleIsSaved /\ CallRecorded /\ AuditPlaces /\ RunningPlaces
      /\ PendingPhase(mem) /\ CleanIsCurrent(mem) /\ CleanIsCurrent(saved)
  BY DEF Inductive, TypeOK
<1>0. CASE UNCHANGED vars
  BY <1>0, <1>a DEF vars
<1>1. ASSUME PrepareRepository PROVE CleanIsCurrent(mem') /\ CleanIsCurrent(saved')
  <2>1. /\ mem'.clean = mem.clean /\ mem'.artifact = mem.artifact
        /\ mem'.active = mem.active /\ mem'.sequence = mem.sequence
        /\ mem'.pending = mem.pending /\ mem.auditors \subseteq mem'.auditors
    BY <1>1, <1>a DEF PrepareRepository, Role, Fail, Checkpoint, Counted, disk,
       callVars, Run
  <2>2. CleanIsCurrent(mem')
    BY <1>a, <2>1, SameClean
  <2>3. saved' \in {saved, mem, mem'}
    BY <1>1, <1>a DEF PrepareRepository, Role, Fail, Checkpoint, Counted, disk,
       callVars, Run
  <2>. QED
    BY <1>a, <2>2, <2>3
<1>2. ASSUME DriveStale PROVE CleanIsCurrent(mem') /\ CleanIsCurrent(saved')
  <2>1. /\ mem'.clean = mem.clean /\ mem'.artifact = mem.artifact
        /\ mem'.active = mem.active /\ mem'.sequence = mem.sequence
        /\ mem'.pending = mem.pending /\ mem.auditors \subseteq mem'.auditors
    BY <1>2, <1>a DEF DriveStale, Role, Fail, Checkpoint, Counted, disk,
       callVars, Run
  <2>2. CleanIsCurrent(mem')
    BY <1>a, <2>1, SameClean
  <2>3. saved' \in {saved, mem, mem'}
    BY <1>2, <1>a DEF DriveStale, Role, Fail, Checkpoint, Counted, disk,
       callVars, Run
  <2>. QED
    BY <1>a, <2>2, <2>3
<1>3. ASSUME BudgetExhausted PROVE CleanIsCurrent(mem') /\ CleanIsCurrent(saved')
  <2>1. /\ mem'.clean = mem.clean /\ mem'.artifact = mem.artifact
        /\ mem'.active = mem.active /\ mem'.sequence = mem.sequence
        /\ mem'.pending = mem.pending /\ mem.auditors \subseteq mem'.auditors
    BY <1>3, <1>a DEF BudgetExhausted, Role, Fail, Checkpoint, Counted, disk,
       callVars, Run
  <2>2. CleanIsCurrent(mem')
    BY <1>a, <2>1, SameClean
  <2>3. saved' \in {saved, mem, mem'}
    BY <1>3, <1>a DEF BudgetExhausted, Role, Fail, Checkpoint, Counted, disk,
       callVars, Run
  <2>. QED
    BY <1>a, <2>2, <2>3
<1>4. ASSUME NextStage PROVE CleanIsCurrent(mem') /\ CleanIsCurrent(saved')
  <2>1. saved' = saved /\ mem.active = NoAudit
    BY <1>4, <1>a DEF NextStage, AuditPlaces
  <2>2. CASE mem.phase = "FIX"
    BY <1>4, <1>a, <2>1, <2>2 DEF NextStage
  <2>3. CASE mem.phase # "FIX"
    <3>1. /\ mem'.clean = mem.clean /\ mem'.artifact = mem.artifact
          /\ mem'.active = mem.sequence + 1
          /\ mem'.pending = mem.pending /\ mem'.auditors = mem.auditors
          /\ mem.sequence \in Nat
      BY <1>4, <1>a, <2>3 DEF NextStage, Run
    <3>2. mem'.active # NoAudit /\ mem'.active - 1 = mem.sequence
      BY <3>1 DEF NoAudit
    <3>. QED
      BY <1>a, <2>1, <3>1, <3>2 DEF CleanIsCurrent
  <2>. QED
    BY <2>2, <2>3
<1>5. ASSUME LeaveLoop PROVE CleanIsCurrent(mem') /\ CleanIsCurrent(saved')
  <2>1. /\ mem'.clean = mem.clean /\ mem'.artifact = mem.artifact
        /\ mem'.active = mem.active /\ mem'.sequence = mem.sequence
        /\ mem'.pending = mem.pending /\ mem.auditors \subseteq mem'.auditors
    BY <1>5, <1>a DEF LeaveLoop, Role, Fail, Checkpoint, Counted, disk,
       callVars, Run
  <2>2. CleanIsCurrent(mem')
    BY <1>a, <2>1, SameClean
  <2>3. saved' \in {saved, mem, mem'}
    BY <1>5, <1>a DEF LeaveLoop, Role, Fail, Checkpoint, Counted, disk,
       callVars, Run
  <2>. QED
    BY <1>a, <2>2, <2>3
<1>6. ASSUME PrepareCall PROVE CleanIsCurrent(mem') /\ CleanIsCurrent(saved')
  <2>1. /\ mem'.clean = mem.clean /\ mem'.artifact = mem.artifact
        /\ mem'.active = mem.active /\ mem'.sequence = mem.sequence
        /\ mem'.pending = mem.pending /\ mem.auditors \subseteq mem'.auditors
    BY <1>6, <1>a DEF PrepareCall, Role, Fail, Checkpoint, Counted, disk,
       callVars, Run
  <2>2. CleanIsCurrent(mem')
    BY <1>a, <2>1, SameClean
  <2>3. saved' \in {saved, mem, mem'}
    BY <1>6, <1>a DEF PrepareCall, Role, Fail, Checkpoint, Counted, disk,
       callVars, Run
  <2>. QED
    BY <1>a, <2>2, <2>3
<1>7. ASSUME BeginCall PROVE CleanIsCurrent(mem') /\ CleanIsCurrent(saved')
  <2>1. /\ mem'.clean = mem.clean /\ mem'.artifact = mem.artifact
        /\ mem'.active = mem.active /\ mem'.sequence = mem.sequence
        /\ mem'.pending = mem.pending /\ mem.auditors \subseteq mem'.auditors
    BY <1>7, <1>a DEF BeginCall, Role, Fail, Checkpoint, Counted, disk,
       callVars, Run
  <2>2. CleanIsCurrent(mem')
    BY <1>a, <2>1, SameClean
  <2>3. saved' \in {saved, mem, mem'}
    BY <1>7, <1>a DEF BeginCall, Role, Fail, Checkpoint, Counted, disk,
       callVars, Run
  <2>. QED
    BY <1>a, <2>2, <2>3
<1>8. ASSUME StartAgent PROVE CleanIsCurrent(mem') /\ CleanIsCurrent(saved')
  BY <1>8, <1>a DEF StartAgent, disk, callVars
<1>9. ASSUME CannotStart PROVE CleanIsCurrent(mem') /\ CleanIsCurrent(saved')
  <2>1. /\ mem'.clean = mem.clean /\ mem'.artifact = mem.artifact
        /\ mem'.active = mem.active /\ mem'.sequence = mem.sequence
        /\ mem'.pending = mem.pending /\ mem.auditors \subseteq mem'.auditors
    BY <1>9, <1>a DEF CannotStart, Role, Fail, Checkpoint, Counted, disk,
       callVars, Run
  <2>2. CleanIsCurrent(mem')
    BY <1>a, <2>1, SameClean
  <2>3. saved' \in {saved, mem, mem'}
    BY <1>9, <1>a DEF CannotStart, Role, Fail, Checkpoint, Counted, disk,
       callVars, Run
  <2>. QED
    BY <1>a, <2>2, <2>3
<1>10. ASSUME AgentEnds PROVE CleanIsCurrent(mem') /\ CleanIsCurrent(saved')
  BY <1>10, <1>a DEF AgentEnds, disk, callVars
<1>11. ASSUME CompleteCall PROVE CleanIsCurrent(mem') /\ CleanIsCurrent(saved')
  <2>1. /\ mem'.clean = mem.clean /\ mem'.artifact = mem.artifact
        /\ mem'.active = mem.active /\ mem'.sequence = mem.sequence
        /\ mem'.pending = mem.pending /\ mem.auditors \subseteq mem'.auditors
    BY <1>11, <1>a DEF CompleteCall, Role, Fail, Checkpoint, Counted, disk,
       callVars, Run
  <2>2. CleanIsCurrent(mem')
    BY <1>a, <2>1, SameClean
  <2>3. saved' \in {saved, mem, mem'}
    BY <1>11, <1>a DEF CompleteCall, Role, Fail, Checkpoint, Counted, disk,
       callVars, Run
  <2>. QED
    BY <1>a, <2>2, <2>3
<1>12. ASSUME FailCall PROVE CleanIsCurrent(mem') /\ CleanIsCurrent(saved')
  <2>1. PICK kind : Fail(Counted, kind)
    BY <1>12 DEF FailCall
  <2>2. /\ mem'.clean = mem.clean /\ mem'.artifact = mem.artifact
        /\ mem'.active = mem.active /\ mem'.sequence = mem.sequence
        /\ mem'.pending = mem.pending /\ mem'.auditors = mem.auditors
    BY <1>12, <1>a, <2>1 DEF Fail, Counted, Run
  <2>3. /\ saved'.clean = mem.clean /\ saved'.artifact = mem.artifact
        /\ saved'.active = mem.active /\ saved'.sequence = mem.sequence
        /\ saved'.pending = mem.pending /\ saved'.auditors = mem.auditors
    BY <1>12, <1>a DEF FailCall, Counted, Run
  <2>. QED
    BY <1>a, <2>2, <2>3, SameClean
<1>13. ASSUME ReturnCall PROVE CleanIsCurrent(mem') /\ CleanIsCurrent(saved')
  <2>1. /\ mem'.clean = mem.clean /\ mem'.artifact = mem.artifact
        /\ mem'.active = mem.active /\ mem'.sequence = mem.sequence
        /\ mem'.pending = mem.pending /\ mem.auditors \subseteq mem'.auditors
    BY <1>13, <1>a DEF ReturnCall, Role, Fail, Checkpoint, Counted, disk,
       callVars, Run
  <2>2. CleanIsCurrent(mem')
    BY <1>a, <2>1, SameClean
  <2>3. saved' \in {saved, mem, mem'}
    BY <1>13, <1>a DEF ReturnCall, Role, Fail, Checkpoint, Counted, disk,
       callVars, Run
  <2>. QED
    BY <1>a, <2>2, <2>3
<1>14. ASSUME AuditUnread PROVE CleanIsCurrent(mem') /\ CleanIsCurrent(saved')
  <2>1. /\ mem'.clean = mem.clean /\ mem'.artifact = mem.artifact
        /\ mem'.active = mem.active /\ mem'.sequence = mem.sequence
        /\ mem'.pending = mem.pending /\ mem.auditors \subseteq mem'.auditors
    BY <1>14, <1>a DEF AuditUnread, Role, Fail, Checkpoint, Counted, disk,
       callVars, Run
  <2>2. CleanIsCurrent(mem')
    BY <1>a, <2>1, SameClean
  <2>3. saved' \in {saved, mem, mem'}
    BY <1>14, <1>a DEF AuditUnread, Role, Fail, Checkpoint, Counted, disk,
       callVars, Run
  <2>. QED
    BY <1>a, <2>2, <2>3
<1>15. ASSUME AuditInvalid PROVE CleanIsCurrent(mem') /\ CleanIsCurrent(saved')
  <2>1. /\ mem'.clean = mem.clean /\ mem'.artifact = mem.artifact
        /\ mem'.active = mem.active /\ mem'.sequence = mem.sequence
        /\ mem'.pending = mem.pending /\ mem.auditors \subseteq mem'.auditors
    BY <1>15, <1>a DEF AuditInvalid, Role, Fail, Checkpoint, Counted, disk,
       callVars, Run
  <2>2. CleanIsCurrent(mem')
    BY <1>a, <2>1, SameClean
  <2>3. saved' \in {saved, mem, mem'}
    BY <1>15, <1>a DEF AuditInvalid, Role, Fail, Checkpoint, Counted, disk,
       callVars, Run
  <2>. QED
    BY <1>a, <2>2, <2>3
<1>16. ASSUME JudgeAudit PROVE CleanIsCurrent(mem') /\ CleanIsCurrent(saved')
  <2>1. saved' = saved /\ pc = "returned" /\ Role = "audit"
    BY <1>16, JudgeFields, <1>a
  <2>2. mem.active # NoAudit /\ mem.active = mem.sequence /\ mem.phase # "FIX"
    BY <1>a, <2>1 DEF Role, AuditPlaces, LatestAudit, RunningPlaces
  <2>3. mem.pending = NoAudit
    <3>1. mem.phase \in Phases /\ mem.phase # "ABORTED"
      BY <1>a, <2>1 DEF Run, RunningPlaces, Executing
    <3>. QED
      BY <1>a, <2>2, <3>1 DEF Phases, PendingPhase
  <2>4. CASE mem'.clean = <<>>
    BY <1>a, <2>1, <2>4, NoClean
  <2>5. ASSUME NEW auditor \in Auditors \ mem.auditors,
               mem'.auditors = mem.auditors \cup {auditor},
               mem'.clean = CleanObservations(
                               mem.clean,
                               [audit |-> mem.active, auditor |-> auditor,
                                sha |-> mem.artifact]),
               mem'.pending = mem.pending
        PROVE  CleanIsCurrent(mem')
    <3>1. /\ mem'.artifact = mem.artifact /\ mem'.sequence = mem.sequence
          /\ mem'.active = NoAudit
      BY <1>16, <1>a, JudgeFields
    <3>. QED
      BY <1>a, <2>2, <2>3, <2>5, <3>1, OneMoreClean
  <2>6. CleanIsCurrent(mem')
    BY <1>16, <1>a, <2>4, <2>5, JudgeCases
  <2>. QED
    BY <1>a, <2>1, <2>6
<1>17. ASSUME RecordAudit PROVE CleanIsCurrent(mem') /\ CleanIsCurrent(saved')
  BY <1>17, <1>a DEF RecordAudit, Checkpoint
<1>18. ASSUME RepairInvalid PROVE CleanIsCurrent(mem') /\ CleanIsCurrent(saved')
  <2>1. /\ mem'.clean = mem.clean /\ mem'.artifact = mem.artifact
        /\ mem'.active = mem.active /\ mem'.sequence = mem.sequence
        /\ mem'.pending = mem.pending /\ mem.auditors \subseteq mem'.auditors
    BY <1>18, <1>a DEF RepairInvalid, Role, Fail, Checkpoint, Counted, disk,
       callVars, Run
  <2>2. CleanIsCurrent(mem')
    BY <1>a, <2>1, SameClean
  <2>3. saved' \in {saved, mem, mem'}
    BY <1>18, <1>a DEF RepairInvalid, Role, Fail, Checkpoint, Counted, disk,
       callVars, Run
  <2>. QED
    BY <1>a, <2>2, <2>3
<1>19. ASSUME RepairNeedsInput PROVE CleanIsCurrent(mem') /\ CleanIsCurrent(saved')
  <2>1. /\ mem'.clean = mem.clean /\ mem'.artifact = mem.artifact
        /\ mem'.active = mem.active /\ mem'.sequence = mem.sequence
        /\ mem'.pending = mem.pending /\ mem.auditors \subseteq mem'.auditors
    BY <1>19, <1>a DEF RepairNeedsInput, Role, Fail, Checkpoint, Counted, disk,
       callVars, Run
  <2>2. CleanIsCurrent(mem')
    BY <1>a, <2>1, SameClean
  <2>3. saved' \in {saved, mem, mem'}
    BY <1>19, <1>a DEF RepairNeedsInput, Role, Fail, Checkpoint, Counted, disk,
       callVars, Run
  <2>. QED
    BY <1>a, <2>2, <2>3
<1>20. ASSUME WriteRepair PROVE CleanIsCurrent(mem') /\ CleanIsCurrent(saved')
  <2>1. mem'.clean = <<>> /\ saved' = saved
    BY <1>20, <1>a, RepairedFields DEF WriteRepair
  <2>. QED
    BY <1>a, <2>1, NoClean
<1>21. ASSUME SaveRepair PROVE CleanIsCurrent(mem') /\ CleanIsCurrent(saved')
  BY <1>21, <1>a DEF SaveRepair, Checkpoint
<1>22. ASSUME AfterRepair PROVE CleanIsCurrent(mem') /\ CleanIsCurrent(saved')
  <2>1. /\ mem'.clean = mem.clean /\ mem'.artifact = mem.artifact
        /\ mem'.active = mem.active /\ mem'.sequence = mem.sequence
        /\ mem'.pending = mem.pending /\ mem'.auditors = mem.auditors
        /\ saved' = saved
    BY <1>22, <1>a, AfterRepairFields DEF AfterRepair
  <2>. QED
    BY <1>a, <2>1, SameClean
<1>23. ASSUME PublishResult PROVE CleanIsCurrent(mem') /\ CleanIsCurrent(saved')
  BY <1>23, <1>a DEF PublishResult, disk, callVars
<1>24. ASSUME CloseRun PROVE CleanIsCurrent(mem') /\ CleanIsCurrent(saved')
  BY <1>24, <1>a DEF CloseRun, Checkpoint
<1>25. ASSUME Resumed PROVE CleanIsCurrent(mem') /\ CleanIsCurrent(saved')
  BY <1>25, <1>a DEF Resumed, Checkpoint
<1>26. ASSUME Interrupt PROVE CleanIsCurrent(mem') /\ CleanIsCurrent(saved')
  <2>1. /\ mem'.clean = mem.clean /\ mem'.artifact = mem.artifact
        /\ mem'.active = mem.active /\ mem'.sequence = mem.sequence
        /\ mem'.pending = mem.pending /\ mem.auditors \subseteq mem'.auditors
    BY <1>26, <1>a DEF Interrupt, Role, Fail, Checkpoint, Counted, disk,
       callVars, Run
  <2>2. CleanIsCurrent(mem')
    BY <1>a, <2>1, SameClean
  <2>3. saved' \in {saved, mem, mem'}
    BY <1>26, <1>a DEF Interrupt, Role, Fail, Checkpoint, Counted, disk,
       callVars, Run
  <2>. QED
    BY <1>a, <2>2, <2>3
<1>27. ASSUME Crash PROVE CleanIsCurrent(mem') /\ CleanIsCurrent(saved')
  BY <1>27, <1>a DEF Crash, disk, callVars
<1>28. ASSUME OrphanDies PROVE CleanIsCurrent(mem') /\ CleanIsCurrent(saved')
  BY <1>28, <1>a DEF OrphanDies, disk, callVars
<1>29. ASSUME Edit PROVE CleanIsCurrent(mem') /\ CleanIsCurrent(saved')
  BY <1>29, <1>a DEF Edit, disk, callVars
<1>30. ASSUME Resume PROVE CleanIsCurrent(mem') /\ CleanIsCurrent(saved')
  <2>1. mem'.clean = <<>> /\ saved' = saved
    BY <1>30, <1>a, ResumeFields
  <2>. QED
    BY <1>a, <2>1, NoClean
<1>31. ASSUME Abort PROVE CleanIsCurrent(mem') /\ CleanIsCurrent(saved')
  <2>1. mem'.clean = <<>> /\ saved' = saved
    BY <1>31, <1>a, AbortFields
  <2>. QED
    BY <1>a, <2>1, NoClean
<1>. QED
  BY <1>0, <1>1, <1>2, <1>3, <1>4, <1>5, <1>6, <1>7, <1>8, <1>9, <1>10, <1>11,
     <1>12, <1>13, <1>14, <1>15, <1>16, <1>17, <1>18, <1>19, <1>20, <1>21,
     <1>22, <1>23, <1>24, <1>25, <1>26, <1>27, <1>28, <1>29, <1>30, <1>31
     DEF Next, Step, Environment

\* A run that is CONVERGED stays sound, and is saved before published.
LEMMA ConvergedStep == Inductive /\ TypeOK' /\ [Next]_vars => (Sound(mem) /\ Sound(saved) /\ ConvergedSaved)'
<1> SUFFICES ASSUME Inductive, TypeOK', [Next]_vars
             PROVE  (Sound(mem) /\ Sound(saved) /\ ConvergedSaved)'
  OBVIOUS
<1>a. mem \in Run /\ saved \in Run /\ TypeOK /\ IdleIsSaved /\ CallRecorded
      /\ RunningPlaces /\ Sound(mem) /\ Sound(saved) /\ ConvergedSaved
  BY DEF Inductive, TypeOK
<1> USE DEF Sound, ConvergedSaved
<1>0. CASE UNCHANGED vars
  BY <1>0, <1>a DEF vars
<1>1. ASSUME PrepareRepository PROVE (Sound(mem) /\ Sound(saved) /\ ConvergedSaved)'
  BY <1>1, <1>a DEF PrepareRepository, Role, Fail, Checkpoint, Counted, disk,
     callVars, Run, IdleIsSaved, RunningPlaces, Executing, CallRecorded, Calling
<1>2. ASSUME DriveStale PROVE (Sound(mem) /\ Sound(saved) /\ ConvergedSaved)'
  BY <1>2, <1>a DEF DriveStale, Role, Fail, Checkpoint, Counted, disk, callVars,
     Run, IdleIsSaved, RunningPlaces, Executing, CallRecorded, Calling
<1>3. ASSUME BudgetExhausted PROVE (Sound(mem) /\ Sound(saved) /\ ConvergedSaved)'
  BY <1>3, <1>a DEF BudgetExhausted, Role, Fail, Checkpoint, Counted, disk,
     callVars, Run, IdleIsSaved, RunningPlaces, Executing, CallRecorded, Calling
<1>4. ASSUME NextStage PROVE (Sound(mem) /\ Sound(saved) /\ ConvergedSaved)'
  BY <1>4, <1>a DEF NextStage, Role, Fail, Checkpoint, Counted, disk, callVars,
     Run, IdleIsSaved, RunningPlaces, Executing, CallRecorded, Calling
<1>5. ASSUME LeaveLoop PROVE (Sound(mem) /\ Sound(saved) /\ ConvergedSaved)'
  BY <1>5, <1>a DEF LeaveLoop, Role, Fail, Checkpoint, Counted, disk, callVars,
     Run, IdleIsSaved, RunningPlaces, Executing, CallRecorded, Calling
<1>6. ASSUME PrepareCall PROVE (Sound(mem) /\ Sound(saved) /\ ConvergedSaved)'
  BY <1>6, <1>a DEF PrepareCall, Role, Fail, Checkpoint, Counted, disk,
     callVars, Run, IdleIsSaved, RunningPlaces, Executing, CallRecorded, Calling
<1>7. ASSUME BeginCall PROVE (Sound(mem) /\ Sound(saved) /\ ConvergedSaved)'
  BY <1>7, <1>a DEF BeginCall, Role, Fail, Checkpoint, Counted, disk, callVars,
     Run, IdleIsSaved, RunningPlaces, Executing, CallRecorded, Calling
<1>8. ASSUME StartAgent PROVE (Sound(mem) /\ Sound(saved) /\ ConvergedSaved)'
  BY <1>8, <1>a DEF StartAgent, Role, Fail, Checkpoint, Counted, disk, callVars,
     Run, IdleIsSaved, RunningPlaces, Executing, CallRecorded, Calling
<1>9. ASSUME CannotStart PROVE (Sound(mem) /\ Sound(saved) /\ ConvergedSaved)'
  BY <1>9, <1>a DEF CannotStart, Role, Fail, Checkpoint, Counted, disk,
     callVars, Run, IdleIsSaved, RunningPlaces, Executing, CallRecorded, Calling
<1>10. ASSUME AgentEnds PROVE (Sound(mem) /\ Sound(saved) /\ ConvergedSaved)'
  BY <1>10, <1>a DEF AgentEnds, Role, Fail, Checkpoint, Counted, disk, callVars,
     Run, IdleIsSaved, RunningPlaces, Executing, CallRecorded, Calling
<1>11. ASSUME CompleteCall PROVE (Sound(mem) /\ Sound(saved) /\ ConvergedSaved)'
  BY <1>11, <1>a DEF CompleteCall, Role, Fail, Checkpoint, Counted, disk,
     callVars, Run, IdleIsSaved, RunningPlaces, Executing, CallRecorded, Calling
<1>12. ASSUME FailCall PROVE (Sound(mem) /\ Sound(saved) /\ ConvergedSaved)'
  BY <1>12, <1>a DEF FailCall, Role, Fail, Checkpoint, Counted, disk, callVars,
     Run, IdleIsSaved, RunningPlaces, Executing, CallRecorded, Calling
<1>13. ASSUME ReturnCall PROVE (Sound(mem) /\ Sound(saved) /\ ConvergedSaved)'
  BY <1>13, <1>a DEF ReturnCall, Role, Fail, Checkpoint, Counted, disk,
     callVars, Run, IdleIsSaved, RunningPlaces, Executing, CallRecorded, Calling
<1>14. ASSUME AuditUnread PROVE (Sound(mem) /\ Sound(saved) /\ ConvergedSaved)'
  BY <1>14, <1>a DEF AuditUnread, Role, Fail, Checkpoint, Counted, disk,
     callVars, Run, IdleIsSaved, RunningPlaces, Executing, CallRecorded, Calling
<1>15. ASSUME AuditInvalid PROVE (Sound(mem) /\ Sound(saved) /\ ConvergedSaved)'
  BY <1>15, <1>a DEF AuditInvalid, Role, Fail, Checkpoint, Counted, disk,
     callVars, Run, IdleIsSaved, RunningPlaces, Executing, CallRecorded, Calling
<1>16. ASSUME JudgeAudit PROVE (Sound(mem) /\ Sound(saved) /\ ConvergedSaved)'
  <2>1. Sound(mem)'
    BY <1>16, <1>a, JudgeFields, JudgeCases DEF callVars, Freezes,
       RunningPlaces, Executing
  <2>2. Sound(saved)'
    BY <1>16, <1>a, JudgeFields, JudgeCases DEF callVars, Freezes,
       RunningPlaces, Executing
  <2>3. ConvergedSaved'
    BY <1>16, <1>a, JudgeFields, JudgeCases DEF callVars, Freezes,
       RunningPlaces, Executing
  <2>. QED
    BY <2>1, <2>2, <2>3
<1>17. ASSUME RecordAudit PROVE (Sound(mem) /\ Sound(saved) /\ ConvergedSaved)'
  BY <1>17, <1>a DEF RecordAudit, Role, Fail, Checkpoint, Counted, disk,
     callVars, Run, IdleIsSaved, RunningPlaces, Executing, CallRecorded, Calling
<1>18. ASSUME RepairInvalid PROVE (Sound(mem) /\ Sound(saved) /\ ConvergedSaved)'
  BY <1>18, <1>a DEF RepairInvalid, Role, Fail, Checkpoint, Counted, disk,
     callVars, Run, IdleIsSaved, RunningPlaces, Executing, CallRecorded, Calling
<1>19. ASSUME RepairNeedsInput PROVE (Sound(mem) /\ Sound(saved) /\ ConvergedSaved)'
  BY <1>19, <1>a DEF RepairNeedsInput, Role, Fail, Checkpoint, Counted, disk,
     callVars, Run, IdleIsSaved, RunningPlaces, Executing, CallRecorded, Calling
<1>20. ASSUME WriteRepair PROVE (Sound(mem) /\ Sound(saved) /\ ConvergedSaved)'
  <2>1. PICK spec \in Specs : mem' = SpecRepaired(mem, spec)
    BY <1>20 DEF WriteRepair
  <2>. QED
    BY <1>20, <1>a, <2>1, RepairedFields DEF WriteRepair, callVars,
       RunningPlaces, Executing
<1>21. ASSUME SaveRepair PROVE (Sound(mem) /\ Sound(saved) /\ ConvergedSaved)'
  BY <1>21, <1>a DEF SaveRepair, Role, Fail, Checkpoint, Counted, disk,
     callVars, Run, IdleIsSaved, RunningPlaces, Executing, CallRecorded, Calling
<1>22. ASSUME AfterRepair PROVE (Sound(mem) /\ Sound(saved) /\ ConvergedSaved)'
  BY <1>22, <1>a, AfterRepairFields DEF AfterRepair, callVars, RunningPlaces,
     Executing
<1>23. ASSUME PublishResult PROVE (Sound(mem) /\ Sound(saved) /\ ConvergedSaved)'
  BY <1>23, <1>a DEF PublishResult, Role, Fail, Checkpoint, Counted, disk,
     callVars, Run, IdleIsSaved, RunningPlaces, Executing, CallRecorded, Calling
<1>24. ASSUME CloseRun PROVE (Sound(mem) /\ Sound(saved) /\ ConvergedSaved)'
  BY <1>24, <1>a DEF CloseRun, Role, Fail, Checkpoint, Counted, disk, callVars,
     Run, IdleIsSaved, RunningPlaces, Executing, CallRecorded, Calling
<1>25. ASSUME Resumed PROVE (Sound(mem) /\ Sound(saved) /\ ConvergedSaved)'
  BY <1>25, <1>a DEF Resumed, Role, Fail, Checkpoint, Counted, disk, callVars,
     Run, IdleIsSaved, RunningPlaces, Executing, CallRecorded, Calling
<1>26. ASSUME Interrupt PROVE (Sound(mem) /\ Sound(saved) /\ ConvergedSaved)'
  BY <1>26, <1>a DEF Interrupt, Role, Fail, Checkpoint, Counted, disk, callVars,
     Run, IdleIsSaved, RunningPlaces, Executing, CallRecorded, Calling
<1>27. ASSUME Crash PROVE (Sound(mem) /\ Sound(saved) /\ ConvergedSaved)'
  BY <1>27, <1>a DEF Crash, Role, Fail, Checkpoint, Counted, disk, callVars,
     Run, IdleIsSaved, RunningPlaces, Executing, CallRecorded, Calling
<1>28. ASSUME OrphanDies PROVE (Sound(mem) /\ Sound(saved) /\ ConvergedSaved)'
  BY <1>28, <1>a DEF OrphanDies, Role, Fail, Checkpoint, Counted, disk,
     callVars, Run, IdleIsSaved, RunningPlaces, Executing, CallRecorded, Calling
<1>29. ASSUME Edit PROVE (Sound(mem) /\ Sound(saved) /\ ConvergedSaved)'
  BY <1>29, <1>a DEF Edit, Role, Fail, Checkpoint, Counted, disk, callVars, Run,
     IdleIsSaved, RunningPlaces, Executing, CallRecorded, Calling
<1>30. ASSUME Resume PROVE (Sound(mem) /\ Sound(saved) /\ ConvergedSaved)'
  BY <1>30, <1>a, ResumeFields DEF callVars, Resumable
<1>31. ASSUME Abort PROVE (Sound(mem) /\ Sound(saved) /\ ConvergedSaved)'
  BY <1>31, <1>a, AbortFields DEF callVars
<1>. QED
  BY <1>0, <1>1, <1>2, <1>3, <1>4, <1>5, <1>6, <1>7, <1>8, <1>9, <1>10, <1>11,
     <1>12, <1>13, <1>14, <1>15, <1>16, <1>17, <1>18, <1>19, <1>20, <1>21,
     <1>22, <1>23, <1>24, <1>25, <1>26, <1>27, <1>28, <1>29, <1>30, <1>31
     DEF Next, Step, Environment

(***************************************************************************)
(* The invariant and what follows from it                                  *)
(***************************************************************************)

\* A new run satisfies the invariant.
LEMMA InitInductive == Init => Inductive
<1> SUFFICES ASSUME Init PROVE Inductive
  OBVIOUS
<1>1. TypeOK
  BY InitType
<1>2. PICK spec \in Specs : mem = NewRun(spec)
  BY DEF Init
<1>3. /\ mem.lastCall = NoCall /\ mem.active = NoAudit /\ mem.clean = <<>>
      /\ mem.pending = NoAudit /\ mem.status = "RUNNING"
      /\ mem.phase = "AUDIT"
      /\ mem.rounds = [role \in Roles |-> 0]
  BY <1>2 DEF NewRun
<1>4. saved = mem /\ pc = "prepare" /\ agents = 0 /\ published = "none"
      /\ begun = [role \in Roles |-> 0]
  BY DEF Init
<1>5. Tally(mem) /\ Tally(saved)
  BY <1>3, <1>4 DEF Tally, Uncounted, CallStarted
<1>6. CallRecorded /\ NoCallRecorded /\ AgentKnown /\ WithinBudget /\ IdleIsSaved
  BY <1>3, <1>4 DEF CallRecorded, NoCallRecorded, AgentKnown, WithinBudget,
                    IdleIsSaved, Calling, Executing
<1>7. BudgetKept
  BY <1>4, BudgetAssumption DEF BudgetKept, Roles
<1>8. AuditPlaces /\ PendingPhase(mem) /\ PendingPhase(saved) /\ RunningPlaces
  BY <1>3, <1>4 DEF AuditPlaces, LatestAudit, PendingPhase, RunningPlaces,
     Calling
<1>9. CleanIsCurrent(mem) /\ CleanIsCurrent(saved)
  BY <1>1, <1>3, <1>4, NoClean DEF TypeOK
<1>10. Sound(mem) /\ Sound(saved) /\ ConvergedSaved
  BY <1>3, <1>4 DEF Sound, ConvergedSaved
<1>. QED
  BY <1>1, <1>5, <1>6, <1>7, <1>8, <1>9, <1>10 DEF Inductive

\* The groups together.
LEMMA InductiveStep == Inductive /\ [Next]_vars => Inductive'
<1> SUFFICES ASSUME Inductive, [Next]_vars PROVE Inductive'
  OBVIOUS
<1>1. TypeOK'
  BY TypeStep DEF Inductive
<1>2. CleanIsCurrent(mem)' /\ CleanIsCurrent(saved)'
  <2>1. CleanIsCurrent(mem') /\ CleanIsCurrent(saved')
    BY <1>1, CleanStep
  <2>. QED
    BY <2>1 DEF CleanIsCurrent
<1>. QED
  BY <1>1, <1>2, CallStep, TallyStep, AgentStep, PlaceStep, ConvergedStep
     DEF Inductive

\* Inductive holds in every state a run can reach.
THEOREM InductiveInvariant == Spec => []Inductive
<1>1. Init => Inductive
  BY InitInductive
<1>2. Inductive /\ [Next]_vars => Inductive'
  BY InductiveStep
<1>. QED
  BY <1>1, <1>2, PTL DEF Spec

\* The variables keep their types: counters never go below zero, and no
\* error, resume or abort leaves a status or a phase the code does not know.
THEOREM TypeCorrect == Spec => []TypeOK
<1>1. Inductive => TypeOK
  BY DEF Inductive
<1>. QED
  BY <1>1, InductiveInvariant, PTL

\* However a process ends, each call that began is counted exactly once.
THEOREM CallsCountedOnce == Spec => []CountedOnce
<1>1. Inductive => CountedOnce
  BY DEF Inductive, Tally, CountedOnce
<1>. QED
  BY <1>1, InductiveInvariant, PTL

\* No interleaving of crashes, errors and resumes exceeds the audit budget.
THEOREM BudgetIsKept == Spec => []BudgetKept
<1>1. Inductive => BudgetKept
  BY DEF Inductive
<1>. QED
  BY <1>1, InductiveInvariant, PTL

\* A run never has two agents at work.
THEOREM SingleAgent == Spec => []OneAgent
<1>1. Inductive => OneAgent
  BY DEF Inductive, TypeOK, AgentKnown, OneAgent
<1>. QED
  BY <1>1, InductiveInvariant, PTL

\* Clean observations always are of the present artifact, in a row, and by
\* different auditors.
THEOREM CleanIsAlwaysRecent == Spec => []CleanIsRecent
<1>1. Inductive => CleanIsRecent
  BY DEF Inductive, CleanIsRecent
<1>. QED
  BY <1>1, InductiveInvariant, PTL

\* What is published or saved as CONVERGED was frozen on two clean audits.
THEOREM ConvergedIsSound == Spec => []ConvergedSound
<1>1. Inductive => ConvergedSound
  <2> SUFFICES ASSUME Inductive, "CONVERGED" \in {saved.status, published}
               PROVE  /\ saved.status = "CONVERGED"
                      /\ saved.phase = "FROZEN"
                      /\ saved.frozen = saved.artifact
                      /\ Len(saved.clean) = 2
                      /\ saved.pending = NoAudit
    BY DEF ConvergedSound
  <2>1. saved.status = "CONVERGED"
    BY DEF Inductive, ConvergedSaved
  <2>. QED
    BY <2>1 DEF Inductive, Sound, PendingPhase
<1>. QED
  BY <1>1, InductiveInvariant, PTL

=============================================================================
