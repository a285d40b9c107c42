-------------------------- MODULE SimpleFlowProofs --------------------------
(***************************************************************************)
(* SimpleFlow for every set of Specs, every budget and every pause streak: *)
(* the budget and the resumes, with their inductive invariant; the clean   *)
(* observations, with the part of the invariant that they need; and the    *)
(* run as a judgement, which is a behaviour of Convergence.                *)
(***************************************************************************)
EXTENDS SimpleFlow, FiniteSetTheorems, TLAPS

\* Where a process is between its start and its result.
Underway == Executing \cup {"finish", "publish", "resuming"}

\* A result that could still be resumed, whatever marker there is.
Resumable == Unarchived /\ result.status = "PAUSED"

\* An audit counts once its agent ended, and only a crash forgets one.
AuditsCounted ==
    /\ pc \in Underway \ {"agent"} => begun = mem.audits
    /\ pc = "agent" =>
          begun = mem.audits + IF stage = "audit" THEN 1 ELSE 0
    /\ begun <= Maximum

\* An agent that works has its process at "agent", or lost it in a crash.
AgentKnown ==
    /\ pc \in Underway \ {"agent"} => agents = 0
    /\ pc = "agent" => agents = 1

\* From its start or a decision to go on up to the next audit.
BeforeAudit ==
    \/ pc \in {"prepare", "drive", "resuming"}
    \/ pc \in Calling /\ stage \in {"probe", "repair", "closure"}
    \/ pc \in {"call", "agent"} /\ stage = "audit"

\* Up to its next audit a run has an audit left.
AuditLeft == BeforeAudit => mem.audits < Maximum

\* A run that goes on is RUNNING; one that was judged has had an audit.
GoesOn ==
    /\ mem.status = "RUNNING" => mem.phase # "FROZEN"
    /\ pc \in (Executing \ {"check"}) \cup {"resuming"} => mem.status = "RUNNING"
    /\ pc \in {"ended", "returned"} /\ stage = "audit" => mem.audits > 0
    /\ pc \in Calling /\ stage = "review" => mem.audits > 0

\* A streak starts with the freeze loop; when it is judged, its last finding
\* is pending.
StreakPending ==
    /\ mem.phase = "INIT" => mem.streak = 0
    /\ pc = "reviewed" /\ mem.streak > 0 => mem.pending # NoAudit

\* What a pause leaves.
PausedRun(run) ==
    run.status = "PAUSED" =>
        /\ run.phase # "FROZEN"
        /\ run.pending # NoAudit
        /\ run.streak >= PauseStreak
        /\ run.audits < Maximum

\* The archives number the resumes of the run in memory, so that a paused
\* result without its archive is the run that its process left.
ResumableIsLast ==
    /\ archives = mem.resumes
    /\ Resumable =>
          /\ mem = result
          /\ begun = mem.audits
          /\ agents = 0
          /\ pc \in {"seal", "close", "idle", "locked"}

SimpleInductive ==
    /\ TypeOK
    /\ AuditsCounted /\ AgentKnown
    /\ AuditLeft /\ GoesOn
    /\ StreakPending
    /\ PausedRun(mem) /\ PausedRun(result)
    /\ ResumableIsLast

(***************************************************************************)
(* Types                                                                   *)
(***************************************************************************)

\* The words that the updates write.
LEMMA SimpleWords ==
    /\ Failures \subseteq Statuses
    /\ {"RUNNING", "PAUSED", "CONVERGED", "NON_CONVERGED"} \subseteq Statuses
    /\ NoAudit \in 0..Maximum /\ NoAudit \in Nat
    /\ 0 \in 0..Maximum
  BY MaximumAssumption DEF Failures, Statuses, NoAudit

\* The numbered observations of the Specs.
Seen == [audit: 1..Maximum, sha: Specs]

\* The list of clean observations stays one.
LEMMA SeenClean ==
    ASSUME NEW previous \in Seq(Seen), NEW current \in Seen
    PROVE  CleanObservations(previous, current) \in Seq(Seen)
<1>. DEFINE same == previous # <<>> => previous[Len(previous)].sha = current.sha
            kept == IF same THEN previous ELSE <<>>
<1>1. kept \in Seq(Seen)
  OBVIOUS
<1>2. CASE Len(kept) < 2
  BY <1>1, <1>2 DEF CleanObservations
<1>3. CASE ~(Len(kept) < 2)
  <2>1. kept[Len(kept)] \in Seen
    BY <1>1, <1>3
  <2>. QED
    BY <1>3, <2>1 DEF CleanObservations
<1>. QED
  BY <1>2, <1>3

\* A reviewed audit leaves a run, and touches no counter of it.
LEMMA ReviewedRun ==
    ASSUME NEW run \in Run, run.audits > 0, NEW accepted \in Findings
    PROVE  LET done == SimpleReviewed(run, run.audits, accepted)
           IN  /\ done \in Run
               /\ done.status = run.status
               /\ done.audits = run.audits
               /\ done.resumes = run.resumes
               /\ done.artifact = run.artifact
               /\ done.phase = "INIT" =>
                     run.phase = "INIT" /\ done.streak = run.streak
               /\ done.phase = "FROZEN" => run.phase = "FROZEN"
               /\ \/ done.streak = 0 \/ done.pending = run.audits
                  \/ run.phase # "AUDIT" /\ done.streak = run.streak
<1> DEFINE done == SimpleReviewed(run, run.audits, accepted)
           current == [audit |-> run.audits, sha |-> run.artifact]
           clean == CleanObservations(run.clean, current)
<1>1. run.audits \in 1..Maximum /\ run.streak \in Nat
  BY MaximumAssumption DEF Run
<1>2. current \in Seen /\ run.clean \in Seq(Seen)
  BY <1>1 DEF Seen, Run
<1>3. clean \in Seq(Seen)
  BY <1>2, SeenClean
<1>4. CASE accepted # "none"
  <2> DEFINE streak == IF run.phase = "AUDIT" /\ accepted = "blocking"
                         THEN run.streak + 1 ELSE run.streak
  <2>1. streak \in Nat /\ (run.phase = "INIT" => streak = run.streak)
    BY <1>1
  <2>2. done = [run EXCEPT !.clean = <<>>, !.pending = run.audits, !.streak = streak]
    BY <1>4 DEF SimpleReviewed, Run
  <2>3. run.audits \in 0..Maximum /\ <<>> \in Seq(Seen)
    BY DEF Run
  <2>. HIDE DEF streak
  <2>. QED
    BY <2>1, <2>2, <2>3 DEF Run, Seen
<1>5. CASE accepted = "none" /\ run.phase # "AUDIT"
  BY <1>5 DEF SimpleReviewed, Run
<1>6. CASE accepted = "none" /\ run.phase = "AUDIT"
  <2>1. done = [run EXCEPT !.streak = 0, !.clean = clean]
    BY <1>6 DEF SimpleReviewed, Run
  <2>2. ASSUME NEW c \in Seq(Seen)
        PROVE  [run EXCEPT !.streak = 0, !.clean = c] \in Run
    BY DEF Run, Seen
  <2>3. [run EXCEPT !.streak = 0, !.clean = clean] \in Run
    BY <1>3, <2>2
  <2>. HIDE DEF clean
  <2>4. done \in Run
    BY <2>1, <2>3
  <2>. QED
    BY <1>6, <2>1, <2>4 DEF Run
<1>. QED
  BY <1>4, <1>5, <1>6

\* What the stop decision may set.
LEMMA StopRun ==
    ASSUME NEW run \in Run, run.status = "RUNNING"
    PROVE  LET done == SimpleStop(run, Maximum, PauseStreak)
           IN  /\ done \in Run
               /\ done.audits = run.audits
               /\ done.resumes = run.resumes
               /\ done.pending = run.pending
               /\ done.streak = run.streak
               /\ done.phase = "INIT" => run.phase = "INIT"
               /\ done.status \in {"RUNNING", "PAUSED"} =>
                     done.phase = run.phase
               /\ done.status = "RUNNING" => run.audits < Maximum
               /\ done.status = "PAUSED" =>
                     run.audits < Maximum /\ run.streak >= PauseStreak
<1>1. run.audits \in Nat /\ run.streak \in Nat /\ Maximum \in Nat
      /\ PauseStreak \in Nat
  BY MaximumAssumption, PauseStreakAssumption DEF Run
<1>2. SimpleStop(run, Maximum, PauseStreak) \in Run
  BY SimpleWords DEF SimpleStop, Run
<1>. QED
  BY <1>1, <1>2 DEF SimpleStop, Run

\* An error writes the status and ends the execution.
LEMMA SimpleFail ==
    ASSUME mem \in Run, NEW kind \in Failures, Fail(kind)
    PROVE  /\ mem' \in Run
           /\ mem'.status = kind /\ kind \notin {"RUNNING", "PAUSED"}
           /\ mem'.audits = mem.audits /\ mem'.resumes = mem.resumes
           /\ mem'.pending = mem.pending /\ mem'.streak = mem.streak
           /\ mem'.phase = mem.phase
           /\ pc' = "finish"
           /\ attempt' \in Attempt
           /\ UNCHANGED <<result, sealed, unregistered, archives, marker,
                          stage, agents, begun>>
<1>1. kind \in Statuses
  BY SimpleWords
<1>2. mem.artifact \in Specs
  BY DEF Run
<1>3. FirstAttempt(mem.artifact) \in Attempt
  BY <1>2 DEF FirstAttempt, Attempt
<1>4. kind \notin {"RUNNING", "PAUSED"}
  BY DEF Failures
<1>. QED
  BY <1>1, <1>3, <1>4 DEF Fail, Run, disk


(***************************************************************************)
(* Every step preserves the invariant                                      *)
(***************************************************************************)

\* A new run satisfies the invariant.
LEMMA SimpleInit == Init => SimpleInductive
<1> SUFFICES ASSUME Init PROVE SimpleInductive
  OBVIOUS
<1>1. PICK spec \in Specs : mem = NewRun(spec) /\ attempt = FirstAttempt(spec)
  BY DEF Init
<1>2. <<>> \in Seq(Seen)
  OBVIOUS
<1>3. mem \in Run /\ attempt \in Attempt
  BY <1>1, <1>2, SimpleWords DEF NewRun, FirstAttempt, Run, Attempt, Seen
<1>4. /\ mem.status = "RUNNING" /\ mem.phase = "INIT" /\ mem.streak = 0
      /\ mem.audits = 0 /\ mem.resumes = 0
  BY <1>1 DEF NewRun
<1>5. TypeOK
  BY <1>3 DEF Init, TypeOK, Places, Executing, Calling, Stages
<1>6. Maximum \in Nat /\ 0 < Maximum
  BY MaximumAssumption
<1>7. AuditsCounted /\ AgentKnown /\ AuditLeft /\ GoesOn /\ StreakPending
  BY <1>4, <1>6 DEF Init, AuditsCounted, AgentKnown, AuditLeft, GoesOn,
                    StreakPending, Calling
<1>8. PausedRun(mem) /\ PausedRun(result) /\ ResumableIsLast
  BY <1>4 DEF Init, PausedRun, ResumableIsLast, Resumable
<1>. QED
  BY <1>5, <1>7, <1>8 DEF SimpleInductive

\* An error where it is caught.
LEMMA FailInductive ==
    ASSUME SimpleInductive, pc \in Executing \ {"agent"},
           NEW kind \in Failures, Fail(kind)
    PROVE  SimpleInductive'
<1>1. TypeOK /\ mem \in Run /\ PausedRun(result)
  BY DEF SimpleInductive, TypeOK
<1>2. /\ mem' \in Run
      /\ mem'.status = kind /\ kind \notin {"RUNNING", "PAUSED"}
      /\ mem'.audits = mem.audits /\ mem'.resumes = mem.resumes
      /\ mem'.pending = mem.pending /\ mem'.streak = mem.streak
      /\ mem'.phase = mem.phase
      /\ pc' = "finish"
      /\ attempt' \in Attempt
      /\ UNCHANGED <<result, sealed, unregistered, archives, marker,
                     stage, agents, begun>>
  BY <1>1, SimpleFail
<1>3. TypeOK'
  BY <1>1, <1>2 DEF TypeOK, Places, Ending
<1>4. AuditsCounted' /\ AgentKnown' /\ AuditLeft' /\ GoesOn' /\ StreakPending'
  BY <1>2 DEF SimpleInductive, AuditsCounted, AgentKnown, AuditLeft,
              BeforeAudit, GoesOn, StreakPending, Underway, Executing, Calling
<1>5. PausedRun(mem)' /\ PausedRun(result)'
  BY <1>1, <1>2 DEF PausedRun
<1>6. ResumableIsLast'
  BY <1>2 DEF SimpleInductive, ResumableIsLast, Resumable, Unarchived,
              Executing, Calling
<1>. QED
  BY <1>3, <1>4, <1>5, <1>6 DEF SimpleInductive

\* A step that leaves the run in memory, the result and the archives alone.
LEMMA QuietInductive ==
    ASSUME SimpleInductive,
           UNCHANGED <<mem, result, archives, begun>>,
           TypeOK',
           AgentKnown', AuditLeft', GoesOn',
           AuditsCounted',
           pc' = "reviewed" => pc = "reviewed",
           Resumable => agents' = 0 /\ pc' \in {"seal", "close", "idle", "locked"}
    PROVE  SimpleInductive'
<1>1. PausedRun(mem)' /\ PausedRun(result)'
  BY DEF SimpleInductive, PausedRun
<1>2. StreakPending'
  BY DEF SimpleInductive, StreakPending
<1>3. ResumableIsLast'
  BY DEF SimpleInductive, ResumableIsLast, Resumable, Unarchived
<1>. QED
  BY <1>1, <1>2, <1>3 DEF SimpleInductive

\* Every step preserves the invariant.
LEMMA SimpleStep == SimpleInductive /\ [Next]_vars => SimpleInductive'
<1> SUFFICES ASSUME SimpleInductive, [Next]_vars PROVE SimpleInductive'
  OBVIOUS
<1>a. TypeOK /\ mem \in Run /\ result \in Run
  BY DEF SimpleInductive, TypeOK
<1>b. AuditsCounted /\ AgentKnown /\ AuditLeft /\ GoesOn /\ StreakPending
      /\ PausedRun(mem) /\ PausedRun(result) /\ ResumableIsLast
  BY DEF SimpleInductive
<1>c. mem.artifact \in Specs
  BY <1>a DEF Run
<1>d. \A spec \in Specs : FirstAttempt(spec) \in Attempt
  BY DEF FirstAttempt, Attempt
<1>0. CASE UNCHANGED vars
  BY <1>0 DEF vars, SimpleInductive, TypeOK, AuditsCounted, AgentKnown,
     AuditLeft,
     BeforeAudit, GoesOn, StreakPending, PausedRun, ResumableIsLast, Resumable,
     Unarchived
<1>1. ASSUME PrepareRepository PROVE SimpleInductive'
  <2>1. TypeOK'
    BY <1>1, <1>a, <1>c, <1>d DEF PrepareRepository, Call, disk, TypeOK, Places,
       Executing,
       Calling, Ending, Stages
  <2>2. AuditsCounted' /\ AgentKnown' /\ AuditLeft' /\ GoesOn'
    BY <1>1, <1>a, <1>b DEF PrepareRepository, Call, disk, AuditsCounted,
       AgentKnown, AuditLeft,
       BeforeAudit, GoesOn, Underway, Executing, Calling, TypeOK
  <2>3. Resumable => agents' = 0 /\ pc' \in {"seal", "close", "idle", "locked"}
    BY <1>1, <1>b DEF PrepareRepository, Call, disk, ResumableIsLast
  <2>4. UNCHANGED <<mem, result, archives, begun>> 
        /\ (pc' = "reviewed" => pc = "reviewed")
    BY <1>1 DEF PrepareRepository, Call, disk
  <2>. QED
    BY <2>1, <2>2, <2>3, <2>4, QuietInductive
<1>2. ASSUME ReturnCall PROVE SimpleInductive'
  <2>1. TypeOK'
    BY <1>2, <1>a, <1>c, <1>d DEF ReturnCall, Go, disk, TypeOK, Places,
       Executing,
       Calling, Ending, Stages
  <2>2. AuditsCounted' /\ AgentKnown' /\ AuditLeft' /\ GoesOn'
    BY <1>2, <1>a, <1>b DEF ReturnCall, Go, disk, AuditsCounted, AgentKnown,
       AuditLeft,
       BeforeAudit, GoesOn, Underway, Executing, Calling, TypeOK
  <2>3. Resumable => agents' = 0 /\ pc' \in {"seal", "close", "idle", "locked"}
    BY <1>2, <1>b DEF ReturnCall, Go, disk, ResumableIsLast
  <2>4. UNCHANGED <<mem, result, archives, begun>> 
        /\ (pc' = "reviewed" => pc = "reviewed")
    BY <1>2 DEF ReturnCall, Go, disk
  <2>. QED
    BY <2>1, <2>2, <2>3, <2>4, QuietInductive
<1>3. ASSUME PrepareAudit PROVE SimpleInductive'
  <2>1. TypeOK'
    BY <1>3, <1>a, <1>c, <1>d DEF PrepareAudit, Call, disk, TypeOK, Places,
       Executing,
       Calling, Ending, Stages
  <2>2. AuditsCounted' /\ AgentKnown' /\ AuditLeft' /\ GoesOn'
    BY <1>3, <1>a, <1>b DEF PrepareAudit, Call, disk, AuditsCounted, AgentKnown,
       AuditLeft,
       BeforeAudit, GoesOn, Underway, Executing, Calling, TypeOK
  <2>3. Resumable => agents' = 0 /\ pc' \in {"seal", "close", "idle", "locked"}
    BY <1>3, <1>b DEF PrepareAudit, Call, disk, ResumableIsLast
  <2>4. UNCHANGED <<mem, result, archives, begun>> 
        /\ (pc' = "reviewed" => pc = "reviewed")
    BY <1>3 DEF PrepareAudit, Call, disk
  <2>. QED
    BY <2>1, <2>2, <2>3, <2>4, QuietInductive
<1>4. ASSUME PrepareRepair PROVE SimpleInductive'
  <2>1. TypeOK'
    BY <1>4, <1>a, <1>c, <1>d DEF PrepareRepair, Call, disk, TypeOK, Places,
       Executing,
       Calling, Ending, Stages
  <2>2. AuditsCounted' /\ AgentKnown' /\ AuditLeft' /\ GoesOn'
    BY <1>4, <1>a, <1>b DEF PrepareRepair, Call, disk, AuditsCounted,
       AgentKnown, AuditLeft,
       BeforeAudit, GoesOn, Underway, Executing, Calling, TypeOK
  <2>3. Resumable => agents' = 0 /\ pc' \in {"seal", "close", "idle", "locked"}
    BY <1>4, <1>b DEF PrepareRepair, Call, disk, ResumableIsLast
  <2>4. UNCHANGED <<mem, result, archives, begun>> 
        /\ (pc' = "reviewed" => pc = "reviewed")
    BY <1>4 DEF PrepareRepair, Call, disk
  <2>. QED
    BY <2>1, <2>2, <2>3, <2>4, QuietInductive
<1>5. ASSUME Seal PROVE SimpleInductive'
  <2>1. TypeOK'
    BY <1>5, <1>a, <1>c, <1>d DEF Seal, disk, TypeOK, Places, Executing,
       Calling, Ending, Stages
  <2>2. AuditsCounted' /\ AgentKnown' /\ AuditLeft' /\ GoesOn'
    BY <1>5, <1>a, <1>b DEF Seal, disk, AuditsCounted, AgentKnown, AuditLeft,
       BeforeAudit, GoesOn, Underway, Executing, Calling, TypeOK
  <2>3. Resumable => agents' = 0 /\ pc' \in {"seal", "close", "idle", "locked"}
    BY <1>5, <1>b DEF Seal, disk, ResumableIsLast
  <2>4. UNCHANGED <<mem, result, archives, begun>> 
        /\ (pc' = "reviewed" => pc = "reviewed")
    BY <1>5 DEF Seal, disk
  <2>. QED
    BY <2>1, <2>2, <2>3, <2>4, QuietInductive
<1>6. ASSUME Close PROVE SimpleInductive'
  <2>1. TypeOK'
    BY <1>6, <1>a, <1>c, <1>d DEF Close, disk, TypeOK, Places, Executing,
       Calling, Ending, Stages
  <2>2. AuditsCounted' /\ AgentKnown' /\ AuditLeft' /\ GoesOn'
    BY <1>6, <1>a, <1>b DEF Close, disk, AuditsCounted, AgentKnown, AuditLeft,
       BeforeAudit, GoesOn, Underway, Executing, Calling, TypeOK
  <2>3. Resumable => agents' = 0 /\ pc' \in {"seal", "close", "idle", "locked"}
    BY <1>6, <1>b DEF Close, disk, ResumableIsLast
  <2>4. UNCHANGED <<mem, result, archives, begun>> 
        /\ (pc' = "reviewed" => pc = "reviewed")
    BY <1>6 DEF Close, disk
  <2>. QED
    BY <2>1, <2>2, <2>3, <2>4, QuietInductive
<1>7. ASSUME Refuse PROVE SimpleInductive'
  <2>1. TypeOK'
    BY <1>7, <1>a, <1>c, <1>d DEF Refuse, Go, disk, TypeOK, Places, Executing,
       Calling, Ending, Stages
  <2>2. AuditsCounted' /\ AgentKnown' /\ AuditLeft' /\ GoesOn'
    BY <1>7, <1>a, <1>b DEF Refuse, Go, disk, AuditsCounted, AgentKnown,
       AuditLeft,
       BeforeAudit, GoesOn, Underway, Executing, Calling, TypeOK
  <2>3. Resumable => agents' = 0 /\ pc' \in {"seal", "close", "idle", "locked"}
    BY <1>7, <1>b DEF Refuse, Go, disk, ResumableIsLast
  <2>4. UNCHANGED <<mem, result, archives, begun>> 
        /\ (pc' = "reviewed" => pc = "reviewed")
    BY <1>7 DEF Refuse, Go, disk
  <2>. QED
    BY <2>1, <2>2, <2>3, <2>4, QuietInductive
<1>8. ASSUME Resumed PROVE SimpleInductive'
  <2>1. TypeOK'
    BY <1>8, <1>a, <1>c, <1>d DEF Resumed, Go, disk, TypeOK, Places, Executing,
       Calling, Ending, Stages
  <2>2. AuditsCounted' /\ AgentKnown' /\ AuditLeft' /\ GoesOn'
    BY <1>8, <1>a, <1>b DEF Resumed, Go, disk, AuditsCounted, AgentKnown,
       AuditLeft,
       BeforeAudit, GoesOn, Underway, Executing, Calling, TypeOK
  <2>3. Resumable => agents' = 0 /\ pc' \in {"seal", "close", "idle", "locked"}
    BY <1>8, <1>b DEF Resumed, Go, disk, ResumableIsLast
  <2>4. UNCHANGED <<mem, result, archives, begun>> 
        /\ (pc' = "reviewed" => pc = "reviewed")
    BY <1>8 DEF Resumed, Go, disk
  <2>. QED
    BY <2>1, <2>2, <2>3, <2>4, QuietInductive
<1>9. ASSUME Unwind PROVE SimpleInductive'
  <2>1. TypeOK'
    BY <1>9, <1>a, <1>c, <1>d DEF Unwind, Go, disk, TypeOK, Places, Executing,
       Calling, Ending, Stages
  <2>2. AuditsCounted' /\ AgentKnown' /\ AuditLeft' /\ GoesOn'
    BY <1>9, <1>a, <1>b DEF Unwind, Go, disk, AuditsCounted, AgentKnown,
       AuditLeft,
       BeforeAudit, GoesOn, Underway, Executing, Calling, TypeOK
  <2>3. Resumable => agents' = 0 /\ pc' \in {"seal", "close", "idle", "locked"}
    BY <1>9, <1>b DEF Unwind, Go, disk, ResumableIsLast
  <2>4. UNCHANGED <<mem, result, archives, begun>> 
        /\ (pc' = "reviewed" => pc = "reviewed")
    BY <1>9 DEF Unwind, Go, disk
  <2>. QED
    BY <2>1, <2>2, <2>3, <2>4, QuietInductive
<1>10. ASSUME Crash PROVE SimpleInductive'
  <2>1. TypeOK'
    BY <1>10, <1>a, <1>c, <1>d DEF Crash, Go, disk, TypeOK, Places, Executing,
       Calling, Ending, Stages
  <2>2. AuditsCounted' /\ AgentKnown' /\ AuditLeft' /\ GoesOn'
    BY <1>10, <1>a, <1>b DEF Crash, Go, disk, AuditsCounted, AgentKnown,
       AuditLeft,
       BeforeAudit, GoesOn, Underway, Executing, Calling, TypeOK
  <2>3. Resumable => agents' = 0 /\ pc' \in {"seal", "close", "idle", "locked"}
    BY <1>10, <1>b DEF Crash, Go, disk, ResumableIsLast
  <2>4. UNCHANGED <<mem, result, archives, begun>> 
        /\ (pc' = "reviewed" => pc = "reviewed")
    BY <1>10 DEF Crash, Go, disk
  <2>. QED
    BY <2>1, <2>2, <2>3, <2>4, QuietInductive
<1>11. ASSUME OrphanDies PROVE SimpleInductive'
  <2>1. TypeOK'
    BY <1>11, <1>a, <1>c, <1>d DEF OrphanDies, disk, TypeOK, Places, Executing,
       Calling, Ending, Stages
  <2>2. AuditsCounted' /\ AgentKnown' /\ AuditLeft' /\ GoesOn'
    BY <1>11, <1>a, <1>b DEF OrphanDies, disk, AuditsCounted, AgentKnown,
       AuditLeft,
       BeforeAudit, GoesOn, Underway, Executing, Calling, TypeOK
  <2>3. Resumable => agents' = 0 /\ pc' \in {"seal", "close", "idle", "locked"}
    BY <1>11, <1>b DEF OrphanDies, disk, ResumableIsLast
  <2>4. UNCHANGED <<mem, result, archives, begun>> 
        /\ (pc' = "reviewed" => pc = "reviewed")
    BY <1>11 DEF OrphanDies, disk
  <2>. QED
    BY <2>1, <2>2, <2>3, <2>4, QuietInductive
<1>12. ASSUME RemoveMarker PROVE SimpleInductive'
  <2>1. TypeOK'
    BY <1>12, <1>a, <1>c, <1>d DEF RemoveMarker, disk, TypeOK, Places,
       Executing,
       Calling, Ending, Stages
  <2>2. AuditsCounted' /\ AgentKnown' /\ AuditLeft' /\ GoesOn'
    BY <1>12, <1>a, <1>b DEF RemoveMarker, disk, AuditsCounted, AgentKnown,
       AuditLeft,
       BeforeAudit, GoesOn, Underway, Executing, Calling, TypeOK
  <2>3. Resumable => agents' = 0 /\ pc' \in {"seal", "close", "idle", "locked"}
    BY <1>12, <1>b DEF RemoveMarker, disk, ResumableIsLast
  <2>4. UNCHANGED <<mem, result, archives, begun>> 
        /\ (pc' = "reviewed" => pc = "reviewed")
    BY <1>12 DEF RemoveMarker, disk
  <2>. QED
    BY <2>1, <2>2, <2>3, <2>4, QuietInductive
<1>13. ASSUME Lock PROVE SimpleInductive'
  <2>1. TypeOK'
    BY <1>13, <1>a, <1>c, <1>d DEF Lock, disk, TypeOK, Places, Executing,
       Calling, Ending, Stages
  <2>2. AuditsCounted' /\ AgentKnown' /\ AuditLeft' /\ GoesOn'
    BY <1>13, <1>a, <1>b DEF Lock, disk, AuditsCounted, AgentKnown, AuditLeft,
       BeforeAudit, GoesOn, Underway, Executing, Calling, TypeOK
  <2>3. Resumable => agents' = 0 /\ pc' \in {"seal", "close", "idle", "locked"}
    BY <1>13, <1>b DEF Lock, disk, ResumableIsLast
  <2>4. UNCHANGED <<mem, result, archives, begun>> 
        /\ (pc' = "reviewed" => pc = "reviewed")
    BY <1>13 DEF Lock, disk
  <2>. QED
    BY <2>1, <2>2, <2>3, <2>4, QuietInductive
<1>14. ASSUME Register PROVE SimpleInductive'
  <2>1. TypeOK'
    BY <1>14, <1>a, <1>c, <1>d DEF Register, disk, TypeOK, Places, Executing,
       Calling, Ending, Stages
  <2>2. AuditsCounted' /\ AgentKnown' /\ AuditLeft' /\ GoesOn'
    BY <1>14, <1>a, <1>b DEF Register, disk, AuditsCounted, AgentKnown,
       AuditLeft,
       BeforeAudit, GoesOn, Underway, Executing, Calling, TypeOK
  <2>3. Resumable => agents' = 0 /\ pc' \in {"seal", "close", "idle", "locked"}
    BY <1>14, <1>b DEF Register, disk, ResumableIsLast
  <2>4. UNCHANGED <<mem, result, archives, begun>> 
        /\ (pc' = "reviewed" => pc = "reviewed")
    BY <1>14 DEF Register, disk
  <2>. QED
    BY <2>1, <2>2, <2>3, <2>4, QuietInductive
<1>15. ASSUME CannotPrepare PROVE SimpleInductive'
  BY <1>15, FailInductive DEF CannotPrepare, Failures, Executing, Calling
<1>16. ASSUME CannotStart PROVE SimpleInductive'
  BY <1>16, FailInductive DEF CannotStart, Failures, Executing, Calling
<1>17. ASSUME FailCall PROVE SimpleInductive'
  BY <1>17, FailInductive DEF FailCall, Failures, Executing, Calling
<1>18. ASSUME RepairStrays PROVE SimpleInductive'
  BY <1>18, FailInductive DEF RepairStrays, Failures, Executing, Calling
<1>19. ASSUME Interrupt PROVE SimpleInductive'
  BY <1>19, FailInductive DEF Interrupt, Failures, Executing, Calling
<1>20. ASSUME RepairValid PROVE SimpleInductive'
  <2>0. attempt' \in Attempt
    BY <1>20, <1>a DEF RepairValid, TypeOK, Attempt
  <2>1. TypeOK'
    BY <1>20, <1>a, <2>0 DEF RepairValid, Call, Changed, disk, TypeOK, Places,
       Executing,
       Calling, Ending, Stages
  <2>2. AuditsCounted' /\ AgentKnown' /\ AuditLeft' /\ GoesOn'
    BY <1>20, <1>a, <1>b DEF RepairValid, Call, Changed, disk, AuditsCounted,
       AgentKnown, AuditLeft,
       BeforeAudit, GoesOn, Underway, Executing, Calling, TypeOK
  <2>3. Resumable => agents' = 0 /\ pc' \in {"seal", "close", "idle", "locked"}
    BY <1>20, <1>b DEF RepairValid, Call, Changed, disk, ResumableIsLast
  <2>4. UNCHANGED <<mem, result, archives, begun>> 
        /\ (pc' = "reviewed" => pc = "reviewed")
    BY <1>20 DEF RepairValid, Call, Changed, disk
  <2>. QED
    BY <2>1, <2>2, <2>3, <2>4, QuietInductive
<1>21. ASSUME Probed PROVE SimpleInductive'
  <2>0. CASE Go("drive") /\ UNCHANGED mem
    <3>0. attempt' \in Attempt
      BY <1>21, <2>0, <1>a, <1>c, <1>d DEF Probed, Go, TypeOK, Attempt
    <3>1. TypeOK'
      BY <1>21, <2>0, <1>a, <3>0 DEF Probed, Go, disk, TypeOK, Places,
         Executing,
         Calling, Ending, Stages
    <3>2. AuditsCounted' /\ AgentKnown' /\ AuditLeft' /\ GoesOn'
      BY <1>21, <2>0, <1>a, <1>b DEF Probed, Go, disk, AuditsCounted,
         AgentKnown,
         AuditLeft, BeforeAudit, GoesOn, Underway, Executing, Calling, TypeOK
    <3>3. Resumable => agents' = 0 /\ pc' \in {"seal", "close", "idle", "locked"}
      BY <1>21, <1>b DEF Probed, ResumableIsLast
    <3>4. UNCHANGED <<mem, result, archives, begun>>
          /\ (pc' = "reviewed" => pc = "reviewed")
      BY <1>21, <2>0 DEF Probed, Go, disk
    <3>. QED
      BY <3>1, <3>2, <3>3, <3>4, QuietInductive
  <2>1. CASE Fail("REPOSITORY_ERROR")
    BY <1>21, <2>1, FailInductive DEF Probed, Failures, Executing, Calling
  <2>. QED
    BY <1>21, <2>0, <2>1 DEF Probed
<1>22. ASSUME Audited PROVE SimpleInductive'
  <2>0. CASE Call("review") /\ UNCHANGED <<mem, attempt>>
    <3>0. attempt' \in Attempt
      BY <1>22, <2>0, <1>a, <1>c, <1>d DEF Audited, Call, TypeOK, Attempt
    <3>1. TypeOK'
      BY <1>22, <2>0, <1>a, <3>0 DEF Audited, Call, disk, TypeOK, Places,
         Executing,
         Calling, Ending, Stages
    <3>2. AuditsCounted' /\ AgentKnown' /\ AuditLeft' /\ GoesOn'
      BY <1>22, <2>0, <1>a, <1>b DEF Audited, Call, disk, AuditsCounted,
         AgentKnown,
         AuditLeft, BeforeAudit, GoesOn, Underway, Executing, Calling, TypeOK
    <3>3. Resumable => agents' = 0 /\ pc' \in {"seal", "close", "idle", "locked"}
      BY <1>22, <1>b DEF Audited, ResumableIsLast
    <3>4. UNCHANGED <<mem, result, archives, begun>>
          /\ (pc' = "reviewed" => pc = "reviewed")
      BY <1>22, <2>0 DEF Audited, Call, disk
    <3>. QED
      BY <3>1, <3>2, <3>3, <3>4, QuietInductive
  <2>1. CASE Fail("PARSE_ERROR")
    BY <1>22, <2>1, FailInductive DEF Audited, Failures, Executing, Calling
  <2>. QED
    BY <1>22, <2>0, <2>1 DEF Audited
<1>23. ASSUME Check PROVE SimpleInductive'
  <2>0. CASE Go("finish") /\ UNCHANGED mem
    <3>0. attempt' \in Attempt
      BY <1>23, <2>0, <1>a, <1>c, <1>d DEF Check, Go, TypeOK, Attempt
    <3>1. TypeOK'
      BY <1>23, <2>0, <1>a, <3>0 DEF Check, Go, disk, TypeOK, Places, Executing,
         Calling, Ending, Stages
    <3>2. AuditsCounted' /\ AgentKnown' /\ AuditLeft' /\ GoesOn'
      BY <1>23, <2>0, <1>a, <1>b DEF Check, Go, disk, AuditsCounted, AgentKnown,
         AuditLeft, BeforeAudit, GoesOn, Underway, Executing, Calling, TypeOK
    <3>3. Resumable => agents' = 0 /\ pc' \in {"seal", "close", "idle", "locked"}
      BY <1>23, <1>b DEF Check, ResumableIsLast
    <3>4. UNCHANGED <<mem, result, archives, begun>>
          /\ (pc' = "reviewed" => pc = "reviewed")
      BY <1>23, <2>0 DEF Check, Go, disk
    <3>. QED
      BY <3>1, <3>2, <3>3, <3>4, QuietInductive
  <2>1. CASE Fail("PROTOCOL_VIOLATION")
    BY <1>23, <2>1, FailInductive DEF Check, Failures, Executing, Calling
  <2>. QED
    BY <1>23, <2>0, <2>1 DEF Check
<1>24. ASSUME RepairInvalid PROVE SimpleInductive'
  <2>0. CASE /\ attempt' = [FirstAttempt(mem.artifact) EXCEPT !.retry = 1]
             /\ Call("repair")
             /\ UNCHANGED mem
    <3>0. attempt' \in Attempt
      BY <1>24, <2>0, <1>a, <1>c, <1>d DEF RepairInvalid, RetryRepair, Call,
         FirstAttempt, TypeOK, Attempt
    <3>1. TypeOK'
      BY <1>24, <2>0, <1>a, <3>0 DEF RepairInvalid, RetryRepair, Call,
         FirstAttempt, disk, TypeOK, Places, Executing,
         Calling, Ending, Stages
    <3>2. AuditsCounted' /\ AgentKnown' /\ AuditLeft' /\ GoesOn'
      BY <1>24, <2>0, <1>a, <1>b DEF RepairInvalid, RetryRepair, Call,
         FirstAttempt, disk, AuditsCounted, AgentKnown,
         AuditLeft, BeforeAudit, GoesOn, Underway, Executing, Calling, TypeOK
    <3>3. Resumable => agents' = 0 /\ pc' \in {"seal", "close", "idle", "locked"}
      BY <1>24, <1>b DEF RepairInvalid, ResumableIsLast
    <3>4. UNCHANGED <<mem, result, archives, begun>>
          /\ (pc' = "reviewed" => pc = "reviewed")
      BY <1>24, <2>0 DEF RepairInvalid, RetryRepair, Call, FirstAttempt, disk
    <3>. QED
      BY <3>1, <3>2, <3>3, <3>4, QuietInductive
  <2>1. CASE Fail("REPAIR_INVALID")
    BY <1>24, <2>1, FailInductive DEF RepairInvalid, Failures, Executing,
       Calling
  <2>. QED
    BY <1>24, <2>0, <2>1 DEF RepairInvalid, RetryRepair
<1>25. ASSUME Unresolved PROVE SimpleInductive'
  <2>0. CASE /\ attempt' = [FirstAttempt(attempt.candidate) EXCEPT !.retry = 1]
             /\ Call("repair")
             /\ UNCHANGED mem
    <3>0. attempt' \in Attempt
      BY <1>25, <2>0, <1>a, <1>c, <1>d DEF Unresolved, RetryRepair, Call,
         FirstAttempt, TypeOK, Attempt
    <3>1. TypeOK'
      BY <1>25, <2>0, <1>a, <3>0 DEF Unresolved, RetryRepair, Call,
         FirstAttempt, disk, TypeOK, Places, Executing,
         Calling, Ending, Stages
    <3>2. AuditsCounted' /\ AgentKnown' /\ AuditLeft' /\ GoesOn'
      BY <1>25, <2>0, <1>a, <1>b DEF Unresolved, RetryRepair, Call,
         FirstAttempt, disk, AuditsCounted, AgentKnown,
         AuditLeft, BeforeAudit, GoesOn, Underway, Executing, Calling, TypeOK
    <3>3. Resumable => agents' = 0 /\ pc' \in {"seal", "close", "idle", "locked"}
      BY <1>25, <1>b DEF Unresolved, ResumableIsLast
    <3>4. UNCHANGED <<mem, result, archives, begun>>
          /\ (pc' = "reviewed" => pc = "reviewed")
      BY <1>25, <2>0 DEF Unresolved, RetryRepair, Call, FirstAttempt, disk
    <3>. QED
      BY <3>1, <3>2, <3>3, <3>4, QuietInductive
  <2>1. CASE Fail("REPAIR_INVALID")
    BY <1>25, <2>1, FailInductive DEF Unresolved, Failures, Executing, Calling
  <2>. QED
    BY <1>25, <2>0, <2>1 DEF Unresolved, RetryRepair
<1>26. ASSUME ClosureInvalid PROVE SimpleInductive'
  <2>0. CASE /\ attempt' = [attempt EXCEPT !.closures = 1]
             /\ Call("closure")
             /\ UNCHANGED mem
    <3>0. attempt' \in Attempt
      BY <1>26, <2>0, <1>a, <1>c, <1>d DEF ClosureInvalid, Call, TypeOK, Attempt
    <3>1. TypeOK'
      BY <1>26, <2>0, <1>a, <3>0 DEF ClosureInvalid, Call, disk, TypeOK, Places,
         Executing,
         Calling, Ending, Stages
    <3>2. AuditsCounted' /\ AgentKnown' /\ AuditLeft' /\ GoesOn'
      BY <1>26, <2>0, <1>a, <1>b DEF ClosureInvalid, Call, disk, AuditsCounted,
         AgentKnown,
         AuditLeft, BeforeAudit, GoesOn, Underway, Executing, Calling, TypeOK
    <3>3. Resumable => agents' = 0 /\ pc' \in {"seal", "close", "idle", "locked"}
      BY <1>26, <1>b DEF ClosureInvalid, ResumableIsLast
    <3>4. UNCHANGED <<mem, result, archives, begun>>
          /\ (pc' = "reviewed" => pc = "reviewed")
      BY <1>26, <2>0 DEF ClosureInvalid, Call, disk
    <3>. QED
      BY <3>1, <3>2, <3>3, <3>4, QuietInductive
  <2>1. CASE Fail("CLOSURE_INVALID")
    BY <1>26, <2>1, FailInductive DEF ClosureInvalid, Failures, Executing,
       Calling
  <2>. QED
    BY <1>26, <2>0, <2>1 DEF ClosureInvalid
<1>27. ASSUME StartAgent PROVE SimpleInductive'
  <2>1. begun' \in Nat /\ begun' <= Maximum /\ agents' = 1
    BY <1>27, <1>a, <1>b, MaximumAssumption
       DEF StartAgent, TypeOK, AuditsCounted, AgentKnown, AuditLeft,
          BeforeAudit,
           Underway, Executing, Calling, Run
  <2>2. TypeOK'
    BY <1>27, <1>a, <2>1 DEF StartAgent, disk, TypeOK, Places, Executing,
       Calling
  <2>3. AuditsCounted' /\ AgentKnown'
    BY <1>27, <1>a, <1>b, <2>1 DEF StartAgent, AuditsCounted, AgentKnown,
       Underway, Executing, Calling, TypeOK
  <2>4. AuditLeft' /\ GoesOn' /\ StreakPending'
    BY <1>27, <1>b DEF StartAgent, AuditLeft, BeforeAudit, GoesOn,
       StreakPending,
       Underway, Executing, Calling
  <2>5. PausedRun(mem)' /\ PausedRun(result)' /\ ResumableIsLast'
    BY <1>27, <1>b DEF StartAgent, disk, PausedRun, ResumableIsLast, Resumable,
       Unarchived
  <2>. QED
    BY <2>2, <2>3, <2>4, <2>5 DEF SimpleInductive
<1>28. ASSUME AgentEnds PROVE SimpleInductive'
  <2>1. mem.audits \in Nat /\ Maximum \in Nat /\ agents = 1
        /\ (stage = "audit" => mem.audits < Maximum) /\ mem.status = "RUNNING"
    BY <1>28, <1>a, <1>b, MaximumAssumption
       DEF AgentEnds, Run, AuditLeft, BeforeAudit, AgentKnown, GoesOn,
           Executing, Calling
  <2>2. stage = "audit" => mem.audits + 1 \in 0..Maximum /\ mem.audits + 1 > 0
    BY <2>1
  <2>3. /\ mem' \in Run /\ mem'.status = mem.status /\ mem'.resumes = mem.resumes
        /\ mem'.phase = mem.phase /\ mem'.streak = mem.streak
        /\ mem'.pending = mem.pending
        /\ mem'.audits = IF stage = "audit" THEN mem.audits + 1 ELSE mem.audits
    BY <1>28, <1>a, <2>2 DEF AgentEnds, Run
  <2>4. agents' = 0
    BY <1>28, <2>1 DEF AgentEnds
  <2>5. TypeOK'
    BY <1>28, <1>a, <2>3, <2>4
       DEF AgentEnds, disk, TypeOK, Places, Executing, Calling
  <2>6. AuditsCounted' /\ AgentKnown'
    BY <1>28, <1>b, <2>1, <2>3, <2>4 DEF AgentEnds, AuditsCounted, AgentKnown,
       Underway,
       Executing, Calling
  <2>7. AuditLeft' /\ GoesOn' /\ StreakPending'
    BY <1>28, <1>b, <2>2, <2>3 DEF AgentEnds, AuditLeft, BeforeAudit, GoesOn,
       StreakPending, Underway, Executing, Calling
  <2>8. PausedRun(mem)' /\ PausedRun(result)'
    BY <1>28, <1>b, <2>1, <2>3 DEF AgentEnds, disk, PausedRun
  <2>9. ResumableIsLast'
    BY <1>28, <1>b, <2>3 DEF AgentEnds, disk, ResumableIsLast, Resumable,
       Unarchived
  <2>. QED
    BY <2>5, <2>6, <2>7, <2>8, <2>9 DEF SimpleInductive
<1>29. ASSUME Reviewed PROVE SimpleInductive'
  <2>0. CASE Fail("PARSE_ERROR")
    BY <1>29, <2>0, FailInductive DEF Reviewed, Failures, Executing, Calling
  <2>1. ASSUME NEW accepted \in Findings,
               mem' = SimpleReviewed(mem, mem.audits, accepted),
               Go("reviewed")
        PROVE  SimpleInductive'
    <3>1. mem.audits > 0 /\ mem.status = "RUNNING" /\ mem.audits \in Nat
      BY <1>29, <1>a, <1>b DEF Reviewed, GoesOn, Executing, Calling, Run
    <3>2. /\ mem' \in Run
          /\ mem'.status = mem.status
          /\ mem'.audits = mem.audits
          /\ mem'.resumes = mem.resumes
          /\ mem'.phase = "INIT" =>
                mem.phase = "INIT" /\ mem'.streak = mem.streak
          /\ mem'.phase = "FROZEN" => mem.phase = "FROZEN"
          /\ \/ mem'.streak = 0 \/ mem'.pending = mem.audits
             \/ mem.phase # "AUDIT" /\ mem'.streak = mem.streak
      BY <1>a, <2>1, <3>1, ReviewedRun
    <3>3. TypeOK'
      BY <1>a, <2>1, <3>2 DEF Go, disk, TypeOK, Places, Executing
    <3>4. AuditsCounted' /\ AgentKnown' /\ AuditLeft' /\ GoesOn'
      BY <1>29, <1>b, <2>1, <3>1, <3>2 DEF Reviewed, Go, AuditsCounted,
         AgentKnown,
         AuditLeft, BeforeAudit, GoesOn, Underway, Executing, Calling
    <3>5. mem.phase # "AUDIT" => mem.streak = 0
      BY <1>a, <1>b, <3>1 DEF GoesOn, StreakPending, Run
    <3>6. mem.audits # NoAudit
      BY <3>1 DEF NoAudit
    <3>7. mem'.streak \in Nat
      BY <3>2 DEF Run
    <3>8. StreakPending'
      BY <1>b, <3>2, <3>5, <3>6, <3>7 DEF StreakPending
    <3>9. PausedRun(mem)' /\ PausedRun(result)' /\ ResumableIsLast'
      BY <1>29, <1>b, <2>1, <3>1, <3>2 DEF Reviewed, Go, disk, PausedRun,
         ResumableIsLast, Resumable, Unarchived
    <3>. QED
      BY <3>3, <3>4, <3>8, <3>9 DEF SimpleInductive
  <2>. QED
    BY <1>29, <2>0, <2>1 DEF Reviewed
<1>30. ASSUME Stop PROVE SimpleInductive'
  <2> DEFINE done == SimpleStop(mem, Maximum, PauseStreak)
  <2>1. mem.status = "RUNNING" /\ mem' = done /\ pc = "reviewed"
    BY <1>30, <1>b DEF Stop, GoesOn, Executing
  <2>2. /\ done \in Run
        /\ done.audits = mem.audits
        /\ done.resumes = mem.resumes
        /\ done.pending = mem.pending
        /\ done.streak = mem.streak
        /\ done.phase = "INIT" => mem.phase = "INIT"
        /\ done.status \in {"RUNNING", "PAUSED"} => done.phase = mem.phase
        /\ done.status = "RUNNING" => mem.audits < Maximum
        /\ done.status = "PAUSED" =>
              mem.audits < Maximum /\ mem.streak >= PauseStreak
    BY <1>a, <2>1, StopRun
  <2>. HIDE DEF done
  <2>3. Go(IF mem'.status = "RUNNING" THEN "drive" ELSE "check")
    BY <1>30 DEF Stop
  <2>4. TypeOK'
    BY <1>a, <2>1, <2>2, <2>3 DEF Go, disk, TypeOK, Places, Executing
  <2>5. AuditsCounted' /\ AgentKnown' /\ AuditLeft'
    BY <1>b, <2>1, <2>2, <2>3 DEF Go, AuditsCounted, AgentKnown,
       AuditLeft, BeforeAudit, Underway, Executing, Calling
  <2>6. GoesOn'
    BY <1>b, <2>1, <2>2, <2>3 DEF Go, GoesOn, Executing, Calling
  <2>7. StreakPending'
    BY <1>b, <2>1, <2>2, <2>3 DEF Go, StreakPending
  <2>8. mem.streak >= PauseStreak => mem.streak > 0
    BY <1>a, PauseStreakAssumption DEF Run
  <2>9. PausedRun(mem)' /\ PausedRun(result)'
    BY <1>b, <2>1, <2>2, <2>3, <2>8 DEF Go, disk, PausedRun, StreakPending,
       GoesOn
  <2>10. ResumableIsLast'
    BY <1>b, <2>1, <2>2, <2>3 DEF Go, disk, ResumableIsLast, Resumable,
       Unarchived
  <2>. QED
    BY <2>4, <2>5, <2>6, <2>7, <2>9, <2>10 DEF SimpleInductive
<1>31. ASSUME Closed PROVE SimpleInductive'
  <2>1. mem.status = "RUNNING" /\ mem.audits < Maximum /\ pc = "returned"
        /\ stage = "closure" /\ attempt.candidate \in Specs
    BY <1>31, <1>a, <1>b DEF Closed, GoesOn, AuditLeft, BeforeAudit, Executing,
       Calling, TypeOK, Attempt
  <2>2. <<>> \in Seq(Seen)
    OBVIOUS
  <2>3. /\ mem' \in Run /\ mem'.status = mem.status /\ mem'.audits = mem.audits
        /\ mem'.resumes = mem.resumes /\ mem'.phase = "AUDIT"
    BY <1>31, <1>a, <2>1, <2>2, SimpleWords DEF Closed, SpecRepaired, Run, Seen
  <2>4. TypeOK'
    BY <1>31, <1>a, <1>d, <2>1, <2>3 DEF Closed, disk, TypeOK, Places, Executing
  <2>5. AuditsCounted' /\ AgentKnown' /\ AuditLeft' /\ GoesOn' /\ StreakPending'
    BY <1>31, <1>b, <2>1, <2>3 DEF Closed, AuditsCounted, AgentKnown, AuditLeft,
       BeforeAudit, GoesOn, StreakPending, Underway, Executing, Calling
  <2>6. PausedRun(mem)' /\ PausedRun(result)' /\ ResumableIsLast'
    BY <1>31, <1>b, <2>1, <2>3 DEF Closed, disk, PausedRun, ResumableIsLast,
       Resumable, Unarchived
  <2>. QED
    BY <2>4, <2>5, <2>6 DEF SimpleInductive
<1>32. ASSUME Publish PROVE SimpleInductive'
  <2>1. TypeOK'
    BY <1>32, <1>a DEF Publish, TypeOK, Places, Ending
  <2>2. AuditsCounted' /\ AgentKnown' /\ AuditLeft' /\ GoesOn' /\ StreakPending'
    BY <1>32, <1>b DEF Publish, AuditsCounted, AgentKnown, AuditLeft,
       BeforeAudit, GoesOn, StreakPending, Underway, Executing, Calling
  <2>3. PausedRun(mem)' /\ PausedRun(result)'
    BY <1>32, <1>b DEF Publish, PausedRun
  <2>4. ResumableIsLast'
    BY <1>32, <1>b DEF Publish, ResumableIsLast, AuditsCounted, AgentKnown,
       Underway, Executing, Calling
  <2>. QED
    BY <2>1, <2>2, <2>3, <2>4 DEF SimpleInductive
<1>33. ASSUME Resume PROVE SimpleInductive'
  <2>1. Resumable /\ mem = result /\ begun = mem.audits /\ agents = 0
    BY <1>33, <1>b DEF Resume, Intact, Resumable, ResumableIsLast
  <2>2. result.audits < Maximum /\ result.phase # "FROZEN" /\ result.resumes \in Nat
    BY <1>33, <1>a, <1>b DEF Resume, Intact, PausedRun, Run
  <2>3. <<>> \in Seq(Seen) /\ result.resumes + 1 \in Nat
    BY <2>2
  <2>4. ASSUME NEW number \in Nat
        PROVE  [result EXCEPT !.resumes = number, !.streak = 0, !.clean = <<>>,
                              !.status = "RUNNING"] \in Run
    BY <1>a, <2>3, SimpleWords DEF Run, Seen
  <2>5. mem' = [result EXCEPT !.resumes = result.resumes + 1, !.streak = 0,
                              !.clean = <<>>, !.status = "RUNNING"]
    BY <1>33, <1>a DEF Resume, Continued, Run
  <2>6. mem' \in Run
    BY <2>3, <2>4, <2>5
  <2>7. /\ mem'.status = "RUNNING" /\ mem'.streak = 0
        /\ mem'.audits = mem.audits /\ mem'.phase = mem.phase
        /\ mem'.resumes = result.resumes + 1
    BY <1>a, <2>1, <2>5 DEF Run
  <2>8. archives' = result.resumes + 1 /\ pc' = "resuming"
        /\ UNCHANGED <<result, sealed, marker, stage, attempt, agents, begun>>
    BY <1>33 DEF Resume
  <2>9. TypeOK'
    BY <1>33, <1>a, <2>3, <2>6, <2>8 DEF Resume, TypeOK, Places
  <2>10. AuditsCounted' /\ AgentKnown' /\ AuditLeft' /\ GoesOn' /\ StreakPending'
    BY <1>b, <2>1, <2>2, <2>7, <2>8 DEF AuditsCounted, AgentKnown, AuditLeft,
       BeforeAudit, GoesOn, StreakPending, Underway, Executing, Calling
  <2>11. PausedRun(mem)' /\ PausedRun(result)'
    BY <1>b, <2>7, <2>8 DEF PausedRun
  <2>12. ~(archives' < result.resumes + 1)
    BY <2>3, <2>8
  <2>13. ResumableIsLast'
    BY <2>7, <2>8, <2>12 DEF ResumableIsLast, Resumable, Unarchived
  <2>. QED
    BY <2>9, <2>10, <2>11, <2>13 DEF SimpleInductive
<1>. QED
  BY <1>0, <1>1, <1>2, <1>3, <1>4, <1>5, <1>6, <1>7, <1>8, <1>9, <1>10, <1>11,
      <1>12, <1>13, <1>14, <1>15, <1>16, <1>17, <1>18, <1>19, <1>20,
      <1>21, <1>22, <1>23, <1>24, <1>25, <1>26, <1>27, <1>28, <1>29,
      <1>30, <1>31, <1>32, <1>33
     DEF Next, Step, Environment

\* The invariant holds in every state a run can reach.
THEOREM SimpleInvariant == Spec => []SimpleInductive
<1>1. Init => SimpleInductive
  BY SimpleInit
<1>2. SimpleInductive /\ [Next]_vars => SimpleInductive'
  BY SimpleStep
<1>. QED
  BY <1>1, <1>2, PTL DEF Spec

\* The audits of a run never leave 0..Maximum, in memory or in result.json,
\* and its attempts to repair and to close never go beyond one retry.
THEOREM SimpleTypesHold == Spec => []TypeOK
<1>1. SimpleInductive => TypeOK
  BY DEF SimpleInductive
<1>. QED
  BY <1>1, SimpleInvariant, PTL

\* No crash, marker removed by hand or repeated resume lets a run of
\* spec-init-freeze start an audit beyond its budget.
THEOREM SimpleBudgetIsKept == Spec => []BudgetKept
<1>1. SimpleInductive => BudgetKept
  BY DEF SimpleInductive, AuditsCounted, AuditLeft, BeforeAudit, PausedRun,
         BudgetKept
<1>. QED
  BY <1>1, SimpleInvariant, PTL

\* A resume takes up the run that its last process left paused, and no other.
THEOREM SimpleResumesWhatPaused == Spec => ResumesWhatPaused
<1>1. SimpleInductive /\ [Next]_vars =>
        [pc' = "resuming" /\ pc # "resuming" =>
           /\ agents = 0
           /\ mem = result
           /\ mem.pending # NoAudit
           /\ mem.streak >= PauseStreak]_vars
  <2> SUFFICES ASSUME SimpleInductive, Next, pc' = "resuming", pc # "resuming"
               PROVE  /\ agents = 0
                      /\ mem = result
                      /\ mem.pending # NoAudit
                      /\ mem.streak >= PauseStreak
    BY DEF vars
  <2>1. Resume
    BY DEF Next, Step, Environment, PrepareRepository, CannotPrepare,
       StartAgent,
       CannotStart, AgentEnds, FailCall, ReturnCall, Probed, PrepareAudit,
       Audited, Reviewed, Stop, PrepareRepair, RepairStrays, RepairInvalid,
       RepairValid, ClosureInvalid, Unresolved, Closed, Check, Register, Publish,
       Seal, Close, Refuse, Resumed, Interrupt, Unwind, Crash, OrphanDies,
       RemoveMarker, Lock, Fail, Call, Go, RetryRepair
  <2>. QED
    BY <2>1 DEF Resume, Intact, Resumable, SimpleInductive, ResumableIsLast,
       PausedRun
<1>. QED
  BY <1>1, SimpleInvariant, PTL DEF Spec, ResumesWhatPaused

(***************************************************************************)
(* The clean observations                                                  *)
(***************************************************************************)

\* Where a run goes on.
Onward == Executing \cup {"resuming"}

\* The latest audit was not judged yet.
Awaited == \/ stage = "audit" /\ pc \in {"ended", "returned"}
           \/ stage = "review" /\ pc \in Calling

\* The latest audit that was judged.
Judged == IF Awaited THEN mem.audits - 1 ELSE mem.audits

\* Observations are of the present Spec, two of them adjacent, and nothing
\* is pending beside them.
CleanList(run) ==
    /\ run.clean # <<>> => run.pending = NoAudit /\ run.phase # "INIT"
    /\ Len(run.clean) <= 2
    /\ \A i \in DOMAIN run.clean : run.clean[i].sha = run.artifact
    /\ Len(run.clean) = 2 => run.clean[2].audit = run.clean[1].audit + 1

\* The last observation is the latest judgement; two of them end the loop.
CleanPlaces ==
    /\ pc \in Onward /\ mem.clean # <<>> =>
          mem.clean[Len(mem.clean)].audit = Judged
    /\ pc \in Onward \ {"reviewed", "check"} => Len(mem.clean) < 2

\* Audits are made when nothing is pending, repairs when something is; what
\* goes to a closure is not the present Spec.
StageKnown ==
    pc \in Calling =>
        /\ stage \in {"audit", "review"} => mem.pending = NoAudit
        /\ stage \in {"repair", "closure"} => mem.pending # NoAudit
        /\ stage = "closure" => attempt.candidate # mem.artifact

SimpleClean == CleanList(mem) /\ CleanPlaces /\ StageKnown

\* A new run has no observation.
LEMMA InitClean == Init => SimpleClean
<1> SUFFICES ASSUME Init PROVE SimpleClean
  OBVIOUS
<1>1. mem.clean = <<>>
  BY DEF Init, NewRun
<1>2. pc = "prepare"
  BY DEF Init
<1>3. Len(<<>>) = 0 /\ DOMAIN <<>> = {}
  OBVIOUS
<1>. QED
  BY <1>1, <1>2, <1>3
  DEF SimpleClean, CleanList, CleanPlaces, StageKnown, Calling

\* A step that leaves the observations and their place alone.
LEMMA ListStays ==
    ASSUME SimpleClean,
           mem'.clean = mem.clean, mem'.artifact = mem.artifact,
           mem'.pending = mem.pending,
           mem'.phase = "INIT" => mem.phase = "INIT",
           pc' \in Onward => pc \in Onward /\ Judged' = Judged,
           pc' \in Onward \ {"reviewed", "check"} =>
               pc \in Onward \ {"reviewed", "check"} \/ Len(mem.clean) < 2,
           StageKnown'
    PROVE  SimpleClean'
<1>1. CleanList(mem)'
  BY DEF SimpleClean, CleanList
<1>2. CleanPlaces'
  BY DEF SimpleClean, CleanPlaces
<1>. QED
  BY <1>1, <1>2 DEF SimpleClean

\* An error leaves them alone as well.
LEMMA FailClean ==
    ASSUME SimpleInductive, SimpleClean, NEW kind \in Failures, Fail(kind)
    PROVE  SimpleClean'
<1>1. mem \in Run
  BY DEF SimpleInductive, TypeOK
<1>2. /\ mem'.clean = mem.clean /\ mem'.artifact = mem.artifact
      /\ mem'.pending = mem.pending /\ mem'.phase = mem.phase
      /\ pc' = "finish"
  BY <1>1 DEF Fail, Run
<1>3. pc' \notin Onward /\ pc' \notin Calling
  BY <1>2 DEF Onward, Executing, Calling
<1>4. StageKnown'
  BY <1>3 DEF StageKnown
<1>. QED
  BY <1>2, <1>3, <1>4, ListStays

\* What a review makes of the observations.
LEMMA ReviewedList ==
    ASSUME NEW run \in Run, run.audits > 0, NEW accepted \in Findings,
           CleanList(run), run.pending = NoAudit, run.phase # "FROZEN",
           Len(run.clean) < 2,
           run.clean # <<>> => run.clean[Len(run.clean)].audit = run.audits - 1
    PROVE  LET done == SimpleReviewed(run, run.audits, accepted)
               current == [audit |-> run.audits, sha |-> run.artifact]
           IN  /\ CleanList(done)
               /\ done.clean # <<>> =>
                     done.clean[Len(done.clean)].audit = run.audits
               /\ done.artifact = run.artifact
               /\ \/ done.clean = <<>>
                  \/ done.clean = Append(run.clean, current)
<1>. DEFINE done == SimpleReviewed(run, run.audits, accepted)
            current == [audit |-> run.audits, sha |-> run.artifact]
            more == Append(run.clean, current)
<1>1. /\ run.clean \in Seq(Seen) /\ run.audits \in 1..Maximum
      /\ run.artifact \in Specs
  BY MaximumAssumption DEF Run, Seen
<1>2. current \in Seen /\ current.sha = run.artifact
      /\ current.audit = run.audits
  BY <1>1 DEF Seen
<1>3. CASE accepted # "none"
  <2>1. done.clean = <<>> /\ done.artifact = run.artifact
    BY <1>3 DEF SimpleReviewed, Run
  <2>2. Len(<<>>) = 0 /\ DOMAIN <<>> = {}
    OBVIOUS
  <2>. QED
    BY <2>1, <2>2 DEF CleanList
<1>4. CASE accepted = "none" /\ run.phase # "AUDIT"
  <2>1. run.phase = "INIT"
    BY <1>4 DEF Run
  <2>2. run.clean = <<>>
    BY <2>1 DEF CleanList
  <2>3. done.clean = <<>> /\ done.artifact = run.artifact
    BY <1>4, <2>2 DEF SimpleReviewed, Run
  <2>4. Len(<<>>) = 0 /\ DOMAIN <<>> = {}
    OBVIOUS
  <2>. QED
    BY <2>3, <2>4 DEF CleanList
<1>5. CASE accepted = "none" /\ run.phase = "AUDIT"
  <2>. DEFINE clean == CleanObservations(run.clean, current)
  <2>1. done = [run EXCEPT !.streak = 0, !.clean = clean]
    BY <1>5 DEF SimpleReviewed, Run
  <2>2. run.clean # <<>> => run.clean[Len(run.clean)].sha = run.artifact
    <3>1. ASSUME run.clean # <<>> PROVE Len(run.clean) \in DOMAIN run.clean
      BY <1>1, <3>1
    <3>. QED
      BY <3>1 DEF CleanList
  <2>3. clean = more
    BY <1>2, <2>2 DEF CleanObservations
  <2>. HIDE DEF clean, current
  <2>4. /\ done.clean = more /\ done.artifact = run.artifact
        /\ done.phase = "AUDIT" /\ done.pending = run.pending
    BY <1>5, <2>1, <2>3 DEF Run
  <2>5. /\ Len(run.clean) \in Nat /\ Len(more) = Len(run.clean) + 1
        /\ DOMAIN run.clean = 1..Len(run.clean)
        /\ DOMAIN more = 1..(Len(run.clean) + 1)
        /\ more[Len(run.clean) + 1] = current
        /\ \A i \in 1..Len(run.clean) : more[i] = run.clean[i]
    BY <1>1, <1>2
  <2>. HIDE DEF more
  <2>6. \A i \in DOMAIN more : more[i].sha = run.artifact
    <3>1. ASSUME NEW i \in DOMAIN more PROVE more[i].sha = run.artifact
      <4>1. CASE i = Len(run.clean) + 1
        BY <1>2, <2>5, <4>1
      <4>2. CASE i \in 1..Len(run.clean)
        BY <2>5, <4>2 DEF CleanList
      <4>. QED
        BY <2>5, <3>1, <4>1, <4>2
    <3>. QED
      BY <3>1
  <2>7. Len(more) = 2 => more[2].audit = more[1].audit + 1
    <3>1. ASSUME Len(more) = 2
          PROVE  /\ Len(run.clean) = 1 /\ more[1] = run.clean[1]
                 /\ more[2] = current
      <4>0. /\ Len(run.clean) \in Nat
            /\ Len(more) = Len(run.clean) + 1 /\ Len(more) = 2
        BY <2>5, <3>1
      <4>. DEFINE n == Len(run.clean)
      <4>a. n \in Nat /\ n + 1 = 2
        BY <4>0
      <4>. HIDE DEF n
      <4>b. n = 1
        BY <4>a
      <4>1. Len(run.clean) = 1 /\ Len(run.clean) + 1 = 2
        BY <4>b DEF n
      <4>2. more[2] = current
        BY <2>5, <4>1
      <4>3. 1 \in 1..Len(run.clean)
        BY <4>1
      <4>. QED
        BY <2>5, <4>1, <4>2, <4>3
    <3>2. ASSUME Len(more) = 2 PROVE run.clean[1].audit = run.audits - 1
      <4>1. Len(run.clean) = 1
        BY <3>1, <3>2
      <4>2. run.clean # <<>>
        BY <4>1
      <4>. QED
        BY <4>1, <4>2
    <3>. QED
      BY <1>1, <1>2, <3>1, <3>2
  <2>8. more[Len(more)].audit = run.audits
    BY <1>2, <2>5
  <2>9. CleanList(done)
    BY <2>4, <2>5, <2>6, <2>7 DEF CleanList
  <2>. QED
    BY <2>4, <2>8, <2>9 DEF more, current
<1>. QED
  BY <1>3, <1>4, <1>5

\* Every step preserves what is said of the observations.
LEMMA CleanStep ==
    ASSUME SimpleInductive, SimpleClean, [Next]_vars
    PROVE  SimpleClean'
<1>1. mem \in Run /\ attempt \in Attempt /\ stage \in Stages
  BY DEF SimpleInductive, TypeOK
<1>2. GoesOn /\ AuditLeft
  BY DEF SimpleInductive
<1>3. mem.clean \in Seq(Seen) /\ Len(mem.clean) \in Nat
  <2>1. mem.clean \in Seq(Seen)
    BY <1>1 DEF Run, Seen
  <2>. QED
    BY <2>1
<1>4. CleanList(mem) /\ CleanPlaces /\ StageKnown
  BY DEF SimpleClean
<1>5. ASSUME UNCHANGED mem,
             pc' \in Onward => pc \in Onward /\ Judged' = Judged,
             pc' \in Onward \ {"reviewed", "check"} =>
                 pc \in Onward \ {"reviewed", "check"},
             StageKnown'
      PROVE  SimpleClean'
  BY <1>5, ListStays
<1>6. ASSUME UNCHANGED mem, pc' \notin Onward
      PROVE  SimpleClean'
  <2>1. pc' \notin Calling
    BY <1>6 DEF Onward, Executing
  <2>2. StageKnown'
    BY <2>1 DEF StageKnown
  <2>. QED
    BY <1>5, <1>6, <2>2
<1>7. CASE Close \/ Unwind \/ Crash \/ Lock \/ Register \/ Publish \/ Seal
           \/ Refuse
  <2>1. UNCHANGED mem /\ pc' \in {"idle", "close", "locked", "publish", "seal"}
    BY <1>7 DEF Close, Unwind, Crash, Lock, Register, Publish, Seal, Refuse, Go
  <2>2. pc' \notin Onward
    BY <2>1 DEF Onward, Executing, Calling
  <2>. QED
    BY <1>6, <2>1, <2>2
<1>8. CASE UNCHANGED vars \/ OrphanDies \/ RemoveMarker
  <2>1. UNCHANGED <<mem, pc, stage, attempt>>
    BY <1>8 DEF vars, OrphanDies, RemoveMarker
  <2>2. StageKnown'
    BY <1>4, <2>1 DEF StageKnown
  <2>3. Judged' = Judged
    BY <2>1 DEF Judged, Awaited
  <2>. QED
    BY <1>5, <2>1, <2>2, <2>3
<1>9. CASE PrepareRepository \/ Resumed \/ StartAgent \/ ReturnCall
  <2>1. UNCHANGED mem
    BY <1>9 DEF PrepareRepository, Resumed, StartAgent, ReturnCall
  <2>2. pc \in Onward \ {"reviewed", "check"}
    BY <1>9
    DEF PrepareRepository, Resumed, StartAgent, ReturnCall, Onward, Executing,
        Calling
  <2>3. Judged' = Judged
    BY <1>9
    DEF PrepareRepository, Resumed, StartAgent, ReturnCall, Call, Go, Judged,
        Awaited, Calling
  <2>4. StageKnown'
    BY <1>4, <1>9
    DEF PrepareRepository, Resumed, StartAgent, ReturnCall, Call, Go,
        StageKnown, Calling
  <2>. QED
    BY <1>5, <2>1, <2>2, <2>3, <2>4
<1>10. CASE PrepareAudit \/ PrepareRepair \/ (Probed /\ Go("drive") /\ UNCHANGED mem)
  <2>1. UNCHANGED mem
    BY <1>10 DEF PrepareAudit, PrepareRepair
  <2>2. pc \in Onward \ {"reviewed", "check"}
    BY <1>10
    DEF PrepareAudit, PrepareRepair, Probed, Onward, Executing, Calling
  <2>3. Judged' = Judged
    BY <1>10
    DEF PrepareAudit, PrepareRepair, Probed, Call, Go, Judged, Awaited, Calling
  <2>4. StageKnown'
    BY <1>4, <1>10
    DEF PrepareAudit, PrepareRepair, Probed, Call, Go, StageKnown, Calling
  <2>. QED
    BY <1>5, <2>1, <2>2, <2>3, <2>4
<1>11. ASSUME pc = "returned", stage = "audit", Call("review"),
              UNCHANGED <<mem, attempt>>
       PROVE  SimpleClean'
  <2>1. Judged' = Judged
    BY <1>11 DEF Call, Judged, Awaited, Calling
  <2>2. StageKnown'
    BY <1>4, <1>11 DEF Call, StageKnown, Calling
  <2>. QED
    BY <1>5, <1>11, <2>1, <2>2 DEF Onward, Executing, Calling
<1>12. ASSUME pc = "returned", stage \in {"repair", "closure"},
              stage' \in {"repair", "closure"}, pc' = "call", UNCHANGED mem,
              stage' = "closure" => attempt'.candidate # mem.artifact
       PROVE  SimpleClean'
  <2>1. Judged' = Judged
    BY <1>12 DEF Judged, Awaited, Calling
  <2>2. StageKnown'
    BY <1>4, <1>12 DEF StageKnown, Calling
  <2>. QED
    BY <1>5, <1>12, <2>1, <2>2 DEF Onward, Executing, Calling
<1>13. ASSUME NEW kind \in Failures, Fail(kind) PROVE SimpleClean'
  BY <1>13, FailClean
<1>14. ASSUME NEW seed, RetryRepair(seed),
              pc = "returned", stage \in {"repair", "closure"}
       PROVE  SimpleClean'
  <2>1. CASE Fail("REPAIR_INVALID")
    BY <1>13, <2>1 DEF Failures
  <2>2. CASE Call("repair") /\ UNCHANGED mem
    BY <1>12, <1>14, <2>2 DEF Call
  <2>. QED
    BY <1>14, <2>1, <2>2 DEF RetryRepair
<1>15. CASE RepairInvalid \/ Unresolved
  BY <1>14, <1>15 DEF RepairInvalid, Unresolved
<1>16. CASE RepairValid
  <2>1. PICK candidate \in Specs :
            /\ Changed(candidate)
            /\ attempt' = [attempt EXCEPT !.candidate = candidate]
    BY <1>16 DEF RepairValid
  <2>2. attempt'.candidate # mem.artifact
    BY <1>1, <2>1 DEF Changed, Attempt
  <2>. QED
    BY <1>12, <1>16, <2>2 DEF RepairValid, Call
<1>17. CASE ClosureInvalid
  <2>1. CASE Fail("CLOSURE_INVALID")
    BY <1>13, <2>1 DEF Failures
  <2>2. CASE /\ attempt' = [attempt EXCEPT !.closures = 1]
             /\ Call("closure") /\ UNCHANGED mem
    <3>1. attempt'.candidate = attempt.candidate
      BY <1>1, <2>2 DEF Attempt
    <3>2. attempt.candidate # mem.artifact
      BY <1>4, <1>17 DEF ClosureInvalid, StageKnown, Calling
    <3>. QED
      BY <1>12, <1>17, <2>2, <3>1, <3>2 DEF ClosureInvalid, Call
  <2>. QED
    BY <1>17, <2>1, <2>2 DEF ClosureInvalid
<1>18. CASE CannotPrepare \/ CannotStart \/ FailCall \/ RepairStrays \/ Interrupt
  BY <1>13, <1>18
  DEF CannotPrepare, CannotStart, FailCall, RepairStrays, Interrupt, Failures
<1>19. CASE Probed \/ Audited
  BY <1>10, <1>11, <1>13, <1>19 DEF Probed, Audited, Failures
<1>20. CASE Check
  <2>1. CASE Go("finish") /\ UNCHANGED mem
    BY <1>6, <2>1 DEF Go, Onward, Executing, Calling
  <2>. QED
    BY <1>13, <1>20, <2>1 DEF Check, Failures
<1>21. CASE AgentEnds
  <2>1. /\ mem'.clean = mem.clean /\ mem'.artifact = mem.artifact
        /\ mem'.pending = mem.pending /\ mem'.phase = mem.phase
        /\ mem'.audits = IF stage = "audit" THEN mem.audits + 1 ELSE mem.audits
    BY <1>1, <1>21 DEF AgentEnds, Run
  <2>2. pc = "agent" /\ pc' = "ended" /\ UNCHANGED <<stage, attempt>>
    BY <1>21 DEF AgentEnds
  <2>3. mem.audits \in Nat
    BY <1>1 DEF Run
  <2>4. Judged' = Judged
    BY <2>1, <2>2, <2>3 DEF Judged, Awaited, Calling
  <2>5. StageKnown'
    BY <1>4, <2>1, <2>2 DEF StageKnown, Calling
  <2>6. pc \in Onward \ {"reviewed", "check"}
    BY <2>2 DEF Onward, Executing, Calling
  <2>. QED
    BY <2>1, <2>4, <2>5, <2>6, ListStays
<1>22. CASE Reviewed
  <2>1. CASE Fail("PARSE_ERROR")
    BY <1>13, <2>1 DEF Failures
  <2>2. ASSUME NEW accepted \in Findings,
               mem' = SimpleReviewed(mem, mem.audits, accepted),
               Go("reviewed")
        PROVE  SimpleClean'
    <3>1. pc = "returned" /\ stage = "review"
      BY <1>22 DEF Reviewed
    <3>2. /\ mem.audits > 0 /\ mem.phase # "FROZEN"
          /\ mem.pending = NoAudit /\ Len(mem.clean) < 2
          /\ mem.clean # <<>> =>
                mem.clean[Len(mem.clean)].audit = mem.audits - 1
      BY <1>2, <1>4, <3>1 DEF GoesOn, StageKnown, CleanPlaces, Judged, Awaited,
         Onward, Executing, Calling
    <3>3. /\ CleanList(mem')
          /\ mem'.clean # <<>> => mem'.clean[Len(mem'.clean)].audit = mem.audits
      BY <1>1, <1>4, <2>2, <3>2, ReviewedList
    <3>4. mem'.audits = mem.audits /\ pc' = "reviewed"
      BY <1>1, <2>2, <3>2, ReviewedRun DEF Go
    <3>5. CleanPlaces'
      BY <3>3, <3>4 DEF CleanPlaces, Judged, Awaited, Calling
    <3>6. StageKnown'
      BY <3>4 DEF StageKnown, Calling
    <3>. QED
      BY <3>3, <3>5, <3>6 DEF SimpleClean, CleanList
  <2>. QED
    BY <1>22, <2>1, <2>2 DEF Reviewed
<1>23. CASE Stop
  <2>1. /\ mem' = SimpleStop(mem, Maximum, PauseStreak) /\ pc = "reviewed"
        /\ pc' = IF mem'.status = "RUNNING" THEN "drive" ELSE "check"
        /\ UNCHANGED <<stage, attempt>>
    BY <1>23 DEF Stop, Go
  <2>2. /\ mem'.clean = mem.clean /\ mem'.artifact = mem.artifact
        /\ mem'.pending = mem.pending /\ mem'.audits = mem.audits
        /\ mem'.phase \in {mem.phase, "FROZEN"}
        /\ mem'.status = "RUNNING" => Len(mem.clean) # 2
    BY <1>1, <2>1 DEF SimpleStop, Freezes, Run
  <2>3. Judged' = Judged
    BY <2>1, <2>2 DEF Judged, Awaited, Calling
  <2>4. mem'.status = "RUNNING" => Len(mem.clean) < 2
    <3>. DEFINE n == Len(mem.clean)
    <3>1. n \in Nat /\ n <= 2 /\ (mem'.status = "RUNNING" => n # 2)
      BY <1>3, <1>4, <2>2 DEF CleanList
    <3>. HIDE DEF n
    <3>2. mem'.status = "RUNNING" => n < 2
      BY <3>1
    <3>. QED
      BY <3>2 DEF n
  <2>5. StageKnown'
    BY <2>1 DEF StageKnown, Calling
  <2>6. pc \in Onward
    BY <2>1 DEF Onward, Executing
  <2>. QED
    BY <2>1, <2>2, <2>3, <2>4, <2>5, <2>6, ListStays
<1>24. CASE Closed
  <2>1. mem'.clean = <<>> /\ pc' = "drive"
    BY <1>1, <1>24 DEF Closed, SpecRepaired, Run
  <2>2. Len(<<>>) = 0 /\ DOMAIN <<>> = {}
    OBVIOUS
  <2>. QED
    BY <2>1, <2>2 DEF SimpleClean, CleanList, CleanPlaces, StageKnown, Calling
<1>25. CASE Resume
  <2>1. result \in Run
    BY DEF SimpleInductive, TypeOK
  <2>2. mem'.clean = <<>> /\ pc' = "resuming"
    BY <1>25, <2>1 DEF Resume, Continued, Run
  <2>3. Len(<<>>) = 0 /\ DOMAIN <<>> = {}
    OBVIOUS
  <2>. QED
    BY <2>2, <2>3 DEF SimpleClean, CleanList, CleanPlaces, StageKnown, Calling
<1>. QED
  BY <1>7, <1>8, <1>9, <1>10, <1>15, <1>16, <1>17, <1>18, <1>19, <1>20, <1>21,
     <1>22, <1>23, <1>24, <1>25
  DEF Next, Step, Environment

\* What is said of the observations is so in every state.
THEOREM SimpleCleanHolds == Spec => []SimpleClean
<1>1. Init => SimpleClean
  BY InitClean
<1>2. SimpleInductive /\ SimpleClean /\ [Next]_vars => SimpleClean'
  BY CleanStep
<1>. QED
  BY <1>1, <1>2, SimpleInvariant, PTL DEF Spec

\* The clean observations of a run that goes on are its latest freeze audits,
\* of its present Spec (simple_reviewed and clean_observations,
\* transitions.py:66-77, against the repairs and resumes of simple_flow.py).
THEOREM SimpleCleanStaysRecent == Spec => []CleanIsRecent
<1>1. SimpleInductive /\ SimpleClean => CleanIsRecent
  <2>. SUFFICES ASSUME SimpleInductive, SimpleClean PROVE CleanIsRecent
    OBVIOUS
  <2>1. mem.clean \in Seq(Seen)
    BY DEF SimpleInductive, TypeOK, Run, Seen
  <2>2. /\ Len(mem.clean) \in Nat /\ DOMAIN mem.clean = 1..Len(mem.clean)
        /\ Len(mem.clean) > 0 => mem.clean # <<>>
    BY <2>1
  <2>. QED
    BY <2>2 DEF SimpleClean, CleanList, CleanPlaces, CleanIsRecent, Judged,
       Awaited, Onward, Calling
<1>. QED
  BY <1>1, SimpleInvariant, SimpleCleanHolds, PTL

(***************************************************************************)
(* The run as a judgement                                                  *)
(***************************************************************************)

\* The audits that found the Spec of a run clean, and whether it is decided.
Approvals(run) == {run.clean[i].audit : i \in DOMAIN run.clean}
Decided(run) == \/ run.status = "CONVERGED"
                \/ run.status = "RUNNING" /\ Len(run.clean) = 2

\* Without observations there is no approval and no decision to come.
LEMMA NoApproval ==
    ASSUME NEW run, run.clean = <<>>
    PROVE  /\ Approvals(run) = {}
           /\ Decided(run) <=> run.status = "CONVERGED"
  BY DEF Approvals, Decided

\* One more observation is one more approval.
LEMMA OneMoreApproval ==
    ASSUME NEW run, run.clean \in Seq(Seen), NEW current \in Seen, NEW next,
           next.clean = Append(run.clean, current)
    PROVE  Approvals(next) = Approvals(run) \cup {current.audit}
<1>1. /\ DOMAIN next.clean = 1..(Len(run.clean) + 1)
      /\ DOMAIN run.clean = 1..Len(run.clean)
      /\ Len(run.clean) \in Nat
      /\ next.clean[Len(run.clean) + 1] = current
      /\ \A i \in 1..Len(run.clean) : next.clean[i] = run.clean[i]
  OBVIOUS
<1>2. \A i : i \in 1..(Len(run.clean) + 1)
               <=> i \in 1..Len(run.clean) \/ i = Len(run.clean) + 1
  BY <1>1
<1>3. ASSUME NEW a PROVE a \in Approvals(next)
                           <=> a \in Approvals(run) \cup {current.audit}
  BY <1>1, <1>2 DEF Approvals
<1>. QED
  BY <1>3

\* The latest of at most one observation, and its approvals.
LEMMA FewApprovals ==
    ASSUME NEW run, run.clean \in Seq(Seen), Len(run.clean) < 2
    PROVE  \/ run.clean = <<>>
           \/ /\ Len(run.clean) = 1
              /\ Approvals(run) = {run.clean[1].audit}
              /\ run.clean[1].audit \in 1..Maximum
<1>1. /\ Len(run.clean) \in Nat /\ DOMAIN run.clean = 1..Len(run.clean)
      /\ Len(run.clean) = 0 => run.clean = <<>>
  OBVIOUS
<1>2. CASE Len(run.clean) = 1
  <2>1. Approvals(run) = {run.clean[1].audit}
    BY <1>1, <1>2 DEF Approvals
  <2>2. run.clean[1] \in Seen
    BY <1>2
  <2>. QED
    BY <1>2, <2>1, <2>2 DEF Seen
<1>3. \A n \in Nat : n < 2 => n \in {0, 1}
  OBVIOUS
<1>. QED
  BY <1>1, <1>2, <1>3

\* One approval, and two.
LEMMA OneAndAnother ==
    ASSUME NEW S, NEW e, S = {e}, NEW other, other \notin S
    PROVE  Cardinality(S) = 1 /\ Cardinality(S \cup {other}) = 2
<1>1. IsFiniteSet(S) /\ Cardinality(S) = 1
  BY FS_Singleton
<1>. QED
  BY <1>1, FS_AddElement

\* Convergence counts as FiniteSets does.
LEMMA SameCardinality == \A S : Judgement!Cardinality(S) = Cardinality(S)
  BY DEF Judgement!Cardinality, Cardinality

\* A new run is an initial state of Convergence.
LEMMA InitImplements == Init => Judgement!Init
<1> SUFFICES ASSUME Init PROVE Judgement!Init
  OBVIOUS
<1>1. /\ mem.artifact \in Specs /\ mem.clean = <<>> /\ mem.status = "RUNNING"
  BY DEF Init, NewRun
<1>2. Approvals(mem) = {} /\ ~Decided(mem)
  BY <1>1, NoApproval
<1>. QED
  BY <1>1, <1>2 DEF Judgement!Init, Approvals, Decided

\* A step that leaves Spec, observations and decision alone.
LEMMA StaysImplements ==
    ASSUME mem'.artifact = mem.artifact, mem'.clean = mem.clean,
           Decided(mem)' => Decided(mem)
    PROVE  [Judgement!Next]_(Judgement!vars)
<1>1. Approvals(mem)' = Approvals(mem)
  BY DEF Approvals
<1>2. CASE Decided(mem)' <=> Decided(mem)
  BY <1>1, <1>2 DEF Judgement!vars, Approvals, Decided
<1>3. CASE ~Decided(mem)' /\ Decided(mem)
  BY <1>1, <1>3 DEF Judgement!Next, Judgement!Retract, Approvals, Decided
<1>. QED
  BY <1>2, <1>3

\* A step that leaves no observation of a Spec that was not decided.
LEMMA WithdrawsImplements ==
    ASSUME mem'.artifact \in Specs, mem'.clean = <<>>,
           ~Decided(mem), mem'.status # "CONVERGED"
    PROVE  Judgement!Next
<1>1. Approvals(mem)' = {} /\ ~Decided(mem)'
  BY NoApproval
<1>2. CASE mem'.artifact = mem.artifact
  BY <1>1, <1>2 DEF Judgement!Next, Judgement!Object, Approvals, Decided
<1>3. CASE mem'.artifact # mem.artifact
  BY <1>1, <1>3 DEF Judgement!Next, Judgement!Revise, Approvals, Decided
<1>. QED
  BY <1>2, <1>3

\* A clean audit approves, and the second one decides.
LEMMA ApprovesImplements ==
    ASSUME mem \in Run, mem.audits \in 1..Maximum, Len(mem.clean) < 2,
           mem.clean # <<>> =>
               mem.clean[Len(mem.clean)].audit = mem.audits - 1,
           mem.status = "RUNNING", mem'.status = "RUNNING",
           mem'.artifact = mem.artifact,
           mem'.clean = Append(mem.clean, [audit |-> mem.audits,
                                           sha |-> mem.artifact])
    PROVE  Judgement!Approve
<1>. DEFINE current == [audit |-> mem.audits, sha |-> mem.artifact]
<1>1. mem.clean \in Seq(Seen) /\ mem.artifact \in Specs
  BY DEF Run, Seen
<1>2. current \in Seen /\ current.audit = mem.audits
  BY <1>1 DEF Seen
<1>3. Approvals(mem)' = Approvals(mem) \cup {mem.audits}
  <2>1. PICK run, next : run = mem /\ next = mem'
    OBVIOUS
  <2>2. Approvals(next) = Approvals(run) \cup {current.audit}
    <3>1. next.clean = Append(run.clean, current) /\ run.clean \in Seq(Seen)
      BY <1>1, <2>1
    <3>. HIDE DEF current
    <3>. QED
      BY <1>2, <3>1, OneMoreApproval
  <2>. QED
    BY <1>2, <2>1, <2>2 DEF Approvals
<1>4. Len(mem'.clean) = Len(mem.clean) + 1 /\ Len(mem.clean) \in Nat
  BY <1>1, <1>2
<1>5. /\ Cardinality(Approvals(mem)) < 2
      /\ Len(mem'.clean) = 2 => Cardinality(Approvals(mem)') = 2
      /\ mem.audits \notin Approvals(mem)
  <2>1. CASE mem.clean = <<>>
    <3>1. Approvals(mem) = {} /\ Len(mem.clean) = 0
      BY <2>1, NoApproval
    <3>. QED
      BY <1>4, <3>1, FS_EmptySet
  <2>2. CASE Len(mem.clean) = 1 /\ Approvals(mem) = {mem.clean[1].audit}
    <3>1. mem.clean # <<>>
      BY <2>2
    <3>2. mem.clean[1].audit = mem.audits - 1
      BY <2>2, <3>1
    <3>3. Approvals(mem) = {mem.audits - 1} /\ mem.audits \notin Approvals(mem)
      BY <2>2, <3>2
    <3>4. /\ Cardinality(Approvals(mem)) = 1
          /\ Cardinality(Approvals(mem) \cup {mem.audits}) = 2
      BY <3>3, OneAndAnother
    <3>. QED
      BY <1>3, <3>3, <3>4
  <2>. QED
    BY <1>1, <2>1, <2>2, FewApprovals
<1>6. ~Decided(mem) /\ (Decided(mem)' <=> Len(mem'.clean) = 2)
  <2>. DEFINE n == Len(mem.clean)
  <2>0. n \in Nat /\ n < 2
    BY <1>4
  <2>. HIDE DEF n
  <2>1. n # 2
    BY <2>0
  <2>. USE DEF n
  <2>. QED
    BY <2>1 DEF Decided
<1>7. Decided(mem)' \in BOOLEAN
  BY DEF Decided
<1>. HIDE DEF current
<1>. QED
  BY <1>3, <1>5, <1>6, <1>7, SameCardinality
  DEF Judgement!Approve, Approvals, Decided

\* A run that goes on has fewer observations than decide.
LEMMA FewClean ==
    ASSUME NEW run \in Run, Len(run.clean) < 2
    PROVE  Len(run.clean) # 2
<1>. DEFINE n == Len(run.clean)
<1>1. run.clean \in Seq(Seen)
  BY DEF Run, Seen
<1>2. n \in Nat /\ n < 2
  BY <1>1
<1>. HIDE DEF n
<1>3. n # 2
  BY <1>2
<1>. QED
  BY <1>3 DEF n

\* Every step of the flow is a step of Convergence or none.
LEMMA StepImplements ==
    ASSUME SimpleInductive, SimpleInductive', SimpleClean, [Next]_vars
    PROVE  [Judgement!Next]_(Judgement!vars)
<1>1. mem \in Run /\ mem' \in Run /\ GoesOn
  BY DEF SimpleInductive, TypeOK
<1>2. CleanList(mem) /\ CleanPlaces /\ StageKnown
  BY DEF SimpleClean
<1>3. ASSUME UNCHANGED mem PROVE [Judgement!Next]_(Judgement!vars)
  BY <1>3, StaysImplements DEF Decided
<1>4. ASSUME NEW kind \in Failures, Fail(kind)
      PROVE  [Judgement!Next]_(Judgement!vars)
  <2>1. /\ mem'.artifact = mem.artifact /\ mem'.clean = mem.clean
        /\ mem'.status = kind
    BY <1>1, <1>4 DEF Fail, Run
  <2>2. ~Decided(mem)'
    BY <2>1 DEF Decided, Failures
  <2>. QED
    BY <2>1, <2>2, StaysImplements
<1>5. CASE AgentEnds
  <2>1. /\ mem'.artifact = mem.artifact /\ mem'.clean = mem.clean
        /\ mem'.status = mem.status
    BY <1>1, <1>5 DEF AgentEnds, Run
  <2>. QED
    BY <2>1, StaysImplements DEF Decided
<1>6. CASE Stop
  <2>1. mem.status = "RUNNING" /\ mem' = SimpleStop(mem, Maximum, PauseStreak)
    BY <1>1, <1>6 DEF Stop, GoesOn, Executing
  <2>2. /\ mem'.artifact = mem.artifact /\ mem'.clean = mem.clean
        /\ mem'.status = "CONVERGED" => Len(mem.clean) = 2
    BY <1>1, <2>1 DEF SimpleStop, Freezes, Run
  <2>3. Decided(mem)' => Decided(mem)
    BY <2>1, <2>2 DEF Decided
  <2>. QED
    BY <2>2, <2>3, StaysImplements
<1>7. CASE Closed
  <2>1. /\ mem'.clean = <<>> /\ mem'.status = mem.status
        /\ mem.status = "RUNNING" /\ Len(mem.clean) < 2
    BY <1>1, <1>2, <1>7 DEF Closed, SpecRepaired, GoesOn, CleanPlaces, Run,
       Onward, Executing, Calling
  <2>2. ~Decided(mem)
    <3>1. Len(mem.clean) # 2
      BY <1>1, <2>1, FewClean
    <3>. QED
      BY <2>1, <3>1 DEF Decided
  <2>3. mem'.artifact \in Specs
    BY <1>1 DEF Run
  <2>. QED
    BY <2>1, <2>2, <2>3, WithdrawsImplements
<1>8. CASE Resume
  <2>1. mem = result /\ result.status = "PAUSED"
    BY <1>8 DEF Resume, Intact, SimpleInductive, ResumableIsLast, Resumable
  <2>2. mem'.clean = <<>> /\ mem'.status = "RUNNING"
    BY <1>1, <1>8, <2>1 DEF Resume, Continued, Run
  <2>3. ~Decided(mem) /\ mem'.artifact \in Specs
    BY <1>1, <2>1 DEF Decided, Run
  <2>. QED
    BY <2>2, <2>3, WithdrawsImplements
<1>9. ASSUME NEW accepted \in Findings, Reviewed,
             mem' = SimpleReviewed(mem, mem.audits, accepted)
      PROVE  [Judgement!Next]_(Judgement!vars)
  <2>. DEFINE current == [audit |-> mem.audits, sha |-> mem.artifact]
  <2>1. pc = "returned" /\ stage = "review"
    BY <1>9 DEF Reviewed
  <2>2. /\ mem.audits > 0 /\ mem.phase # "FROZEN" /\ mem.status = "RUNNING"
        /\ mem.pending = NoAudit /\ Len(mem.clean) < 2
        /\ mem.clean # <<>> =>
              mem.clean[Len(mem.clean)].audit = mem.audits - 1
    BY <1>1, <1>2, <2>1 DEF GoesOn, StageKnown, CleanPlaces, Judged, Awaited,
       Onward, Executing, Calling
  <2>3. /\ mem'.artifact = mem.artifact
        /\ mem'.clean = <<>> \/ mem'.clean = Append(mem.clean, current)
    BY <1>1, <1>2, <1>9, <2>2, ReviewedList
  <2>4. mem'.status = "RUNNING"
    BY <1>1, <1>9, <2>2, ReviewedRun
  <2>5. CASE mem'.clean = <<>>
    <3>1. Len(mem.clean) # 2
      BY <1>1, <2>2, FewClean
    <3>2. ~Decided(mem) /\ mem'.artifact \in Specs
      BY <1>1, <2>2, <3>1 DEF Decided, Run
    <3>. QED
      BY <2>4, <2>5, <3>2, WithdrawsImplements
  <2>6. CASE mem'.clean = Append(mem.clean, current)
    <3>1. mem.audits \in 1..Maximum
      BY <1>1, <2>2, MaximumAssumption DEF Run
    <3>. QED
      BY <1>1, <2>2, <2>3, <2>4, <2>6, <3>1, ApprovesImplements
      DEF Judgement!Next
  <2>. QED
    BY <2>3, <2>5, <2>6
<1>10. CASE Reviewed
  BY <1>4, <1>9, <1>10 DEF Reviewed, Failures
<1>11. CASE CannotPrepare \/ CannotStart \/ FailCall \/ RepairStrays \/ Interrupt
            \/ Probed \/ Audited \/ RepairInvalid \/ Unresolved
            \/ ClosureInvalid \/ Check
  BY <1>3, <1>4, <1>11
  DEF CannotPrepare, CannotStart, FailCall, RepairStrays, Interrupt, Probed,
      Audited, RepairInvalid, Unresolved, RetryRepair, ClosureInvalid, Check,
      Failures
<1>12. CASE PrepareRepository \/ StartAgent \/ ReturnCall \/ PrepareAudit
            \/ PrepareRepair \/ RepairValid \/ Register \/ Publish \/ Seal
            \/ Close \/ Refuse \/ Resumed \/ Unwind \/ Crash \/ OrphanDies
            \/ RemoveMarker \/ Lock \/ UNCHANGED vars
  BY <1>3, <1>12
  DEF PrepareRepository, StartAgent, ReturnCall, PrepareAudit, PrepareRepair,
      RepairValid, Register, Publish, Seal, Close, Refuse, Resumed, Unwind,
      Crash, OrphanDies, RemoveMarker, Lock, vars
<1>. QED
  BY <1>5, <1>6, <1>7, <1>8, <1>10, <1>11, <1>12 DEF Next, Step, Environment

\* The audits, repairs, pauses, crashes and resumes of spec-init-freeze are a
\* run of the abstract Convergence (drive_simple and resume_run against
\* simple_reviewed and simple_stop, transitions.py).
THEOREM SimpleFlowImplementsConvergence == Spec => ImplementsConvergence
<1>1. Init => Judgement!Init
  BY InitImplements
<1>2. SimpleInductive /\ SimpleInductive' /\ SimpleClean /\ [Next]_vars
        => [Judgement!Next]_(Judgement!vars)
  BY StepImplements
<1>. QED
  BY <1>1, <1>2, SimpleInvariant, SimpleCleanHolds, PTL
     DEF Spec, ImplementsConvergence, Judgement!Spec
=============================================================================
