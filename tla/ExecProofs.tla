----------------------------- MODULE ExecProofs -----------------------------
(***************************************************************************)
(* The safety of ExecFlow for every set of trees and auditors, every size  *)
(* of a batch and any number of resumes: proofs that ExecInductive is an   *)
(* invariant, and what follows from it.                                    *)
(***************************************************************************)
EXTENDS ExecInvariant, FiniteSetTheorems, TLAPS

(***************************************************************************)
(* The helpers return runs                                                 *)
(***************************************************************************)

\* The words and the constants that the updates write.
LEMMA Words ==
    /\ Phases = {"IMPLEMENT", "AUDIT", "FIX", "CONVERGED", "ABORTED"}
    /\ "CONVERGED" \in Statuses /\ "PAUSED" \in Statuses
    /\ "RUNNING" \in Statuses /\ "NEEDS_INPUT" \in Statuses
    /\ "ABORTED" \in Statuses /\ "PROTOCOL_VIOLATION" \in Statuses
    /\ "REPOSITORY_ERROR" \in Statuses /\ "INTERNAL_ERROR" \in Statuses
    /\ "AGENT_ERROR" \in Statuses /\ "AUDIT_INVALID" \in Statuses
    /\ "FIX_INVALID" \in Statuses
    /\ <<>> \in Seq(Observation)
    /\ NoAudit \in Nat
    /\ NoPending \in Pending
    /\ NoCall \in [role: Roles \cup {"none"}, before: Nat]
<1>1. <<>> \in Seq(Observation)
  OBVIOUS
<1>. QED
  BY <1>1 DEF Phases, Statuses, Resumable, NoAudit, NoCall, NoPending, Pending

\* The stage in flight, and when it may write.
LEMMA Stages ==
    /\ Role \in Roles
    /\ Writer <=> mem.phase \in Writing
    /\ "audit" \in Roles
  BY DEF Role, Roles, Writer, Writing

\* An error changes nothing but the status.
LEMMA FailKeeps ==
    ASSUME NEW run \in Run, NEW kind \in Statuses, Fail(run, kind)
    PROVE  /\ mem' \in Run /\ pc' = "failed"
           /\ mem'.status = kind
           /\ mem'.phase = run.phase /\ mem'.clean = run.clean
           /\ mem'.pending = run.pending /\ mem'.active = run.active
           /\ mem'.sequence = run.sequence /\ mem'.auditors = run.auditors
           /\ mem'.resumes = run.resumes /\ mem'.lastCall = run.lastCall
           /\ mem'.candidate = run.candidate /\ mem'.rounds = run.rounds
           /\ mem'.limit = run.limit
  BY DEF Fail, Run

\* A counted call differs by one round of its stage.
LEMMA CountedKeeps ==
    ASSUME mem \in Run
    PROVE  /\ Counted \in Run
           /\ Counted.rounds = [mem.rounds EXCEPT ![Role] = @ + 1]
           /\ Counted.status = mem.status
           /\ Counted.phase = mem.phase /\ Counted.clean = mem.clean
           /\ Counted.pending = mem.pending /\ Counted.active = mem.active
           /\ Counted.sequence = mem.sequence
           /\ Counted.auditors = mem.auditors
           /\ Counted.resumes = mem.resumes
           /\ Counted.lastCall = mem.lastCall
           /\ Counted.candidate = mem.candidate
           /\ Counted.limit = mem.limit
<1> DEFINE rounds == [mem.rounds EXCEPT ![Role] = @ + 1]
<1>1. rounds \in [Roles -> Nat]
  BY Stages DEF Run
<1>2. Counted = [mem EXCEPT !.rounds = rounds]
  BY DEF Counted, Run
<1>3. Counted.rounds = rounds
  BY <1>2 DEF Run
<1>. HIDE DEF rounds
<1>4. Counted \in Run
  BY <1>1, <1>2 DEF Run
<1>5. /\ Counted.status = mem.status
      /\ Counted.phase = mem.phase /\ Counted.clean = mem.clean
      /\ Counted.pending = mem.pending /\ Counted.active = mem.active
      /\ Counted.sequence = mem.sequence
      /\ Counted.auditors = mem.auditors
      /\ Counted.resumes = mem.resumes
      /\ Counted.lastCall = mem.lastCall
      /\ Counted.candidate = mem.candidate
      /\ Counted.limit = mem.limit
  BY <1>2 DEF Run
<1>. QED
  BY <1>3, <1>4, <1>5 DEF rounds

\* A candidate that is saved differs by the tree.
LEMMA CandidateKeeps ==
    ASSUME NEW run \in Run, NEW tree \in Trees
    PROVE  LET done == WithCandidate(run, tree)
           IN  /\ done \in Run
               /\ done.candidate = tree
               /\ done.status = run.status
               /\ done.phase = run.phase /\ done.clean = run.clean
               /\ done.pending = run.pending /\ done.active = run.active
               /\ done.sequence = run.sequence
               /\ done.auditors = run.auditors
               /\ done.resumes = run.resumes
               /\ done.lastCall = run.lastCall
               /\ done.rounds = run.rounds /\ done.limit = run.limit
<1>1. run.number + 1 \in Nat
  BY DEF Run
<1>2. WithCandidate(run, tree) = run \/
      WithCandidate(run, tree) = [run EXCEPT !.candidate = tree,
                                             !.number = run.number + 1]
  BY DEF WithCandidate, Run
<1>3. ASSUME NEW n \in Nat
      PROVE  [run EXCEPT !.candidate = tree, !.number = n] \in Run
  BY DEF Run
<1>4. WithCandidate(run, tree) \in Run
  BY <1>1, <1>2, <1>3
<1>. QED
  BY <1>4 DEF WithCandidate, Run

\* reconcile_invocation counts a started call and abandons the audit.
LEMMA ReconcileKeeps ==
    ASSUME NEW run \in Run, NEW call \in Invocations
    PROVE  LET done == ReconcileInvocation(run, call, FALSE)
           IN  /\ done \in Run
               /\ done.lastCall = NoCall
               /\ done.active = NoAudit
               /\ done.clean = IF run.active # NoAudit THEN <<>> ELSE run.clean
               /\ \A role \in Roles :
                     done.rounds[role] = run.rounds[role]
                        + IF Uncounted(run, call, role) THEN 1 ELSE 0
               /\ done.phase = run.phase
               /\ done.status = run.status
               /\ done.pending = run.pending
               /\ done.sequence = run.sequence
               /\ done.auditors = run.auditors
               /\ done.candidate = run.candidate
               /\ done.resumes = run.resumes
               /\ done.limit = run.limit
<1> DEFINE rounds == [role \in DOMAIN run.rounds |->
                        run.rounds[role] + IF Uncounted(run, call, role)
                                             THEN 1 ELSE 0]
           clean == IF run.active # NoAudit THEN <<>> ELSE run.clean
           done == ReconcileInvocation(run, call, FALSE)
<1>1. rounds \in [Roles -> Nat]
  BY DEF Run
<1>2. clean \in Seq(Observation)
  BY Words DEF Run
<1>3. done = [run EXCEPT !.rounds = rounds, !.lastCall = NoCall,
                         !.active = NoAudit, !.clean = clean]
  BY DEF ReconcileInvocation, KeptClean, NoAudit
<1>4. \A role \in Roles :
         rounds[role] = run.rounds[role]
            + IF Uncounted(run, call, role) THEN 1 ELSE 0
  BY DEF Run
<1>. HIDE DEF rounds, clean, done
<1>5. done \in Run
  BY <1>1, <1>2, <1>3, Words DEF Run
<1>6. done.rounds = rounds /\ done.clean = clean
  BY <1>3 DEF Run
<1>7. /\ done.lastCall = NoCall /\ done.active = NoAudit
      /\ done.phase = run.phase /\ done.status = run.status
      /\ done.pending = run.pending /\ done.sequence = run.sequence
      /\ done.auditors = run.auditors /\ done.candidate = run.candidate
      /\ done.resumes = run.resumes /\ done.limit = run.limit
  BY <1>3 DEF Run
<1>. QED
  BY <1>4, <1>5, <1>6, <1>7 DEF clean, done

\* The list of clean observations stays one.
LEMMA CleanType ==
    ASSUME NEW previous \in Seq(Observation), NEW current \in Observation
    PROVE  CleanObservations(previous, current) \in Seq(Observation)
<1>. DEFINE same == previous # <<>> =>
                       previous[Len(previous)].sha = current.sha
            kept == IF same THEN previous ELSE <<>>
<1>1. kept \in Seq(Observation)
  OBVIOUS
<1>2. CASE Len(kept) < 2
  BY <1>1, <1>2 DEF CleanObservations
<1>3. CASE ~(Len(kept) < 2)
  <2>1. kept[Len(kept)] \in Observation
    BY <1>1, <1>3
  <2>. QED
    BY <1>3, <2>1 DEF CleanObservations
<1>. QED
  BY <1>2, <1>3

(***************************************************************************)
(* What the larger steps do to the fields of the run                       *)
(***************************************************************************)

\* The checkout becomes the first candidate, or is the candidate.
LEMMA PrepareKeeps ==
    ASSUME TypeOK, PrepareRepository
    PROVE  /\ mem' \in Run /\ pc = "prepare" /\ pc' = "drive"
           /\ saved' = saved
           /\ mem'.candidate = checkout
           /\ mem.candidate \in {NoTree, checkout}
           /\ mem'.status = mem.status
           /\ mem'.phase = mem.phase /\ mem'.clean = mem.clean
           /\ mem'.pending = mem.pending /\ mem'.active = mem.active
           /\ mem'.sequence = mem.sequence /\ mem'.auditors = mem.auditors
           /\ mem'.resumes = mem.resumes /\ mem'.lastCall = mem.lastCall
           /\ mem'.rounds = mem.rounds /\ mem'.limit = mem.limit
           /\ UNCHANGED <<published, checkout, snapshot, before, tainted,
                          invocation, agents, begun>>
<1>1. mem' = WithCandidate(mem, checkout)
  BY DEF PrepareRepository
<1>2. mem \in Run /\ checkout \in Trees
  BY DEF TypeOK
<1>. QED
  BY <1>1, <1>2, CandidateKeeps DEF PrepareRepository, code, calls

\* A call is recorded; an audit becomes active, a writer drops what is clean.
LEMMA CallKeeps ==
    ASSUME TypeOK, PrepareCall
    PROVE  /\ mem' \in Run /\ pc = "drive" /\ pc' = "prepared"
           /\ saved' = mem' /\ invocation' = "absent" /\ unsaved' = FALSE
           /\ mem.status = "RUNNING" /\ ~Exhausted(mem)
           /\ mem'.lastCall = [role |-> Role, before |-> mem.rounds[Role]]
           /\ IF Writer
                THEN /\ mem'.clean = <<>> /\ mem'.active = mem.active
                     /\ mem'.sequence = mem.sequence
                ELSE /\ mem'.clean = mem.clean
                     /\ mem'.active = mem.sequence + 1
                     /\ mem'.sequence = mem.sequence + 1
           /\ mem'.status = mem.status
           /\ mem'.phase = mem.phase /\ mem'.pending = mem.pending
           /\ mem'.auditors = mem.auditors /\ mem'.resumes = mem.resumes
           /\ mem'.candidate = mem.candidate /\ mem'.rounds = mem.rounds
           /\ mem'.limit = mem.limit
           /\ UNCHANGED <<published, checkout, snapshot, before, tainted,
                          patches, agents, begun>>
<1> DEFINE call == [role |-> Role, before |-> mem.rounds[Role]]
           run == [mem EXCEPT !.lastCall = call]
<1>1. call \in [role: Roles \cup {"none"}, before: Nat] /\ mem \in Run
  BY Stages DEF Run, TypeOK
<1>2. mem' = IF Writer THEN [run EXCEPT !.clean = <<>>]
             ELSE [run EXCEPT !.sequence = @ + 1, !.active = run.sequence + 1]
  BY DEF PrepareCall, Checkpoint
<1>. HIDE DEF call
<1>3. run \in Run /\ run.lastCall = call
      /\ run.status = mem.status
      /\ run.phase = mem.phase /\ run.clean = mem.clean
      /\ run.pending = mem.pending /\ run.active = mem.active
      /\ run.sequence = mem.sequence /\ run.auditors = mem.auditors
      /\ run.resumes = mem.resumes /\ run.candidate = mem.candidate
      /\ run.rounds = mem.rounds /\ run.limit = mem.limit
  BY <1>1 DEF Run
<1>. HIDE DEF run
<1>4. CASE Writer
  <2>1. mem' = [run EXCEPT !.clean = <<>>]
    BY <1>2, <1>4
  <2>2. /\ mem' \in Run /\ mem'.clean = <<>>
        /\ mem'.active = run.active /\ mem'.sequence = run.sequence
        /\ mem'.lastCall = run.lastCall /\ mem'.status = run.status
        /\ mem'.phase = run.phase /\ mem'.pending = run.pending
        /\ mem'.auditors = run.auditors /\ mem'.resumes = run.resumes
        /\ mem'.candidate = run.candidate /\ mem'.rounds = run.rounds
        /\ mem'.limit = run.limit
    BY <1>3, <2>1, Words DEF Run
  <2>. QED
    BY <1>3, <1>4, <2>2 DEF PrepareCall, Checkpoint, code, call
<1>5. CASE ~Writer
  <2>1. run.sequence + 1 \in Nat
    BY <1>3 DEF Run
  <2>2. mem' = [run EXCEPT !.sequence = run.sequence + 1,
                           !.active = run.sequence + 1]
    BY <1>2, <1>3, <1>5 DEF Run
  <2>3. /\ mem' \in Run /\ mem'.clean = run.clean
        /\ mem'.active = run.sequence + 1 /\ mem'.sequence = run.sequence + 1
        /\ mem'.lastCall = run.lastCall /\ mem'.status = run.status
        /\ mem'.phase = run.phase /\ mem'.pending = run.pending
        /\ mem'.auditors = run.auditors /\ mem'.resumes = run.resumes
        /\ mem'.candidate = run.candidate /\ mem'.rounds = run.rounds
        /\ mem'.limit = run.limit
    BY <1>3, <2>1, <2>2 DEF Run
  <2>. QED
    BY <1>3, <1>5, <2>3 DEF PrepareCall, Checkpoint, code, call
<1>. QED
  BY <1>4, <1>5

\* The call is closed in memory; a writer's snapshot becomes the candidate,
\* or its patch is in the way.
LEMMA StoreKeeps ==
    ASSUME TypeOK, StoreCandidate
    PROVE  /\ mem' \in Run /\ pc = "completed" /\ saved' = saved
           /\ mem'.lastCall = NoCall
           /\ \/ pc' = "stored" /\ mem'.status = mem.status
              \/ pc' = "failed" /\ mem'.status = "INTERNAL_ERROR"
           /\ mem'.candidate \in {mem.candidate, snapshot}
           /\ ~Writer => mem'.candidate = mem.candidate
           /\ mem'.phase = mem.phase /\ mem'.clean = mem.clean
           /\ mem'.pending = mem.pending /\ mem'.active = mem.active
           /\ mem'.sequence = mem.sequence /\ mem'.auditors = mem.auditors
           /\ mem'.resumes = mem.resumes
           /\ mem'.rounds = mem.rounds /\ mem'.limit = mem.limit
           /\ UNCHANGED <<published, checkout, snapshot, tainted, unsaved,
                          invocation, agents, begun>>
<1> DEFINE run == [mem EXCEPT !.lastCall = NoCall]
<1>1. /\ run \in Run /\ run.lastCall = NoCall /\ run.status = mem.status
      /\ run.phase = mem.phase /\ run.clean = mem.clean
      /\ run.pending = mem.pending /\ run.active = mem.active
      /\ run.sequence = mem.sequence /\ run.auditors = mem.auditors
      /\ run.resumes = mem.resumes /\ run.candidate = mem.candidate
      /\ run.rounds = mem.rounds /\ run.limit = mem.limit
  BY Words DEF TypeOK, Run
<1>2. \/ ~Writer /\ mem' = run /\ pc' = "stored"
      \/ Writer /\ mem' = WithCandidate(run, snapshot) /\ pc' = "stored"
      \/ Writer /\ Fail([run EXCEPT !.number = @ + 1], "INTERNAL_ERROR")
  BY DEF StoreCandidate
<1>3. snapshot \in Trees
  BY DEF TypeOK
<1>4. /\ pc = "completed" /\ saved' = saved
      /\ UNCHANGED <<published, checkout, snapshot, tainted, unsaved,
                     invocation, agents, begun>>
  BY DEF StoreCandidate, calls
<1>. HIDE DEF run
<1>5. CASE ~Writer /\ mem' = run /\ pc' = "stored"
  BY <1>1, <1>4, <1>5
<1>6. CASE Writer /\ mem' = WithCandidate(run, snapshot) /\ pc' = "stored"
  BY <1>1, <1>3, <1>4, <1>6, CandidateKeeps
<1>7. CASE Writer /\ Fail([run EXCEPT !.number = @ + 1], "INTERNAL_ERROR")
  <2> DEFINE next == [run EXCEPT !.number = run.number + 1]
  <2>1. run.number + 1 \in Nat
    BY <1>1 DEF Run
  <2>2. [run EXCEPT !.number = @ + 1] = next
    BY <1>1 DEF Run
  <2>3. /\ next \in Run /\ next.lastCall = run.lastCall
        /\ next.phase = run.phase /\ next.clean = run.clean
        /\ next.pending = run.pending /\ next.active = run.active
        /\ next.sequence = run.sequence /\ next.auditors = run.auditors
        /\ next.resumes = run.resumes /\ next.candidate = run.candidate
        /\ next.rounds = run.rounds /\ next.limit = run.limit
    BY <1>1, <2>1 DEF Run
  <2>. HIDE DEF next
  <2>4. Fail(next, "INTERNAL_ERROR")
    BY <1>7, <2>2
  <2>. QED
    BY <1>1, <1>4, <1>7, <2>3, <2>4, FailKeeps, Words
<1>. QED
  BY <1>2, <1>5, <1>6, <1>7

\* A judged audit: findings, or one more clean observation.
LEMMA JudgeKeeps ==
    ASSUME ExecInductive, JudgeAudit
    PROVE  /\ mem' \in Run /\ pc = "returned" /\ pc' = "record" /\ ~Writer
           /\ saved' = saved
           /\ mem'.active = NoAudit
           /\ mem'.sequence = mem.sequence
           /\ mem'.resumes = mem.resumes /\ mem'.lastCall = mem.lastCall
           /\ mem'.candidate = mem.candidate /\ mem'.rounds = mem.rounds
           /\ mem'.limit = mem.limit
           /\ UNCHANGED <<published, checkout, snapshot, before, tainted,
                          patches, invocation, agents, begun>>
           /\ \/ /\ mem'.phase = "FIX"
                 /\ mem'.status = mem.status
                 /\ mem'.clean = <<>>
              \/ \E auditor \in Auditors \ mem.auditors :
                    LET clean == CleanObservations(
                                    mem.clean,
                                    [audit |-> mem.active,
                                     auditor |-> auditor,
                                     sha |-> mem.candidate])
                    IN  /\ mem'.auditors = mem.auditors \cup {auditor}
                        /\ mem'.clean = clean
                        /\ mem'.pending = mem.pending
                        /\ \/ /\ Freezes(clean)
                              /\ mem'.phase = "CONVERGED"
                              /\ mem'.status = "CONVERGED"
                           \/ /\ ~Freezes(clean)
                              /\ mem'.phase = mem.phase
                              /\ mem'.status = mem.status
<1>0. TypeOK /\ mem.candidate # NoTree
  BY DEF ExecInductive, RunningPlaces, Executing, JudgeAudit
<1>1. PICK auditor \in Auditors \ mem.auditors, findings \in BOOLEAN :
         mem' = ExecAudited([mem EXCEPT !.auditors = @ \cup {auditor}],
                            auditor, findings)
  BY DEF JudgeAudit
<1> DEFINE known == mem.auditors \cup {auditor}
           judged == [mem EXCEPT !.auditors = known]
<1>2. known \in SUBSET Auditors /\ mem \in Run
  BY <1>0 DEF TypeOK, Run
<1>3. mem' = ExecAudited(judged, auditor, findings)
  BY <1>1, <1>2 DEF Run
<1>. HIDE DEF known
<1>4. /\ judged \in Run
      /\ judged.status = mem.status
      /\ judged.phase = mem.phase /\ judged.clean = mem.clean
      /\ judged.pending = mem.pending /\ judged.active = mem.active
      /\ judged.sequence = mem.sequence /\ judged.auditors = known
      /\ judged.resumes = mem.resumes /\ judged.lastCall = mem.lastCall
      /\ judged.candidate = mem.candidate /\ judged.rounds = mem.rounds
      /\ judged.limit = mem.limit
  BY <1>2 DEF Run
<1>. HIDE DEF judged
<1>5. /\ pc = "returned" /\ pc' = "record" /\ ~Writer /\ saved' = saved
      /\ UNCHANGED <<published, checkout, snapshot, before, tainted, patches,
                     invocation, agents, begun>>
  BY DEF JudgeAudit, code, calls
<1>6. CASE findings
  <2> DEFINE pending == [audit |-> judged.active, candidate |-> judged.candidate]
  <2>1. pending \in Pending
    BY <1>0, <1>4 DEF Run, Pending
  <2>2. mem' = [judged EXCEPT !.active = NoAudit, !.phase = "FIX",
                              !.clean = <<>>, !.pending = pending]
    BY <1>3, <1>6 DEF ExecAudited
  <2>. HIDE DEF pending
  <2>3. /\ mem' \in Run /\ mem'.active = NoAudit /\ mem'.phase = "FIX"
        /\ mem'.clean = <<>> /\ mem'.status = judged.status
        /\ mem'.sequence = judged.sequence
        /\ mem'.resumes = judged.resumes
        /\ mem'.lastCall = judged.lastCall
        /\ mem'.candidate = judged.candidate
        /\ mem'.rounds = judged.rounds /\ mem'.limit = judged.limit
    BY <1>4, <2>1, <2>2, Words DEF Run
  <2>. QED
    BY <1>4, <1>5, <2>3
<1>7. CASE ~findings
  <2> DEFINE current == [audit |-> mem.active, auditor |-> auditor,
                         sha |-> mem.candidate]
             clean == CleanObservations(mem.clean, current)
             phase == IF Freezes(clean) THEN "CONVERGED" ELSE mem.phase
             status == IF Freezes(clean) THEN "CONVERGED" ELSE mem.status
  <2>1. current \in Observation /\ mem.clean \in Seq(Observation)
    BY <1>0, <1>2 DEF Observation, Run
  <2>2. clean \in Seq(Observation)
    BY <2>1, CleanType
  <2>3. phase \in Phases /\ status \in Statuses
    BY <1>2, Words DEF Run
  <2>4. mem' = [judged EXCEPT !.active = NoAudit, !.clean = clean,
                              !.phase = phase, !.status = status]
    BY <1>3, <1>4, <1>7 DEF ExecAudited, Run
  <2>. HIDE DEF clean, phase, status
  <2>5. /\ mem' \in Run /\ mem'.active = NoAudit /\ mem'.phase = phase
        /\ mem'.clean = clean /\ mem'.status = status
        /\ mem'.sequence = judged.sequence
        /\ mem'.auditors = judged.auditors
        /\ mem'.pending = judged.pending
        /\ mem'.resumes = judged.resumes
        /\ mem'.lastCall = judged.lastCall
        /\ mem'.candidate = judged.candidate
        /\ mem'.rounds = judged.rounds /\ mem'.limit = judged.limit
    BY <1>4, <2>2, <2>3, <2>4, Words DEF Run
  <2>6. \/ Freezes(clean) /\ phase = "CONVERGED" /\ status = "CONVERGED"
        \/ ~Freezes(clean) /\ phase = mem.phase /\ status = mem.status
    BY DEF phase, status
  <2>7. \E one \in Auditors \ mem.auditors :
           LET list == CleanObservations(
                          mem.clean, [audit |-> mem.active, auditor |-> one,
                                      sha |-> mem.candidate])
           IN  /\ mem'.auditors = mem.auditors \cup {one}
               /\ mem'.clean = list
               /\ mem'.pending = mem.pending
               /\ \/ /\ Freezes(list)
                     /\ mem'.phase = "CONVERGED"
                     /\ mem'.status = "CONVERGED"
                  \/ /\ ~Freezes(list)
                     /\ mem'.phase = mem.phase
                     /\ mem'.status = mem.status
    <3>1. mem'.clean = CleanObservations(
                          mem.clean, [audit |-> mem.active,
                                      auditor |-> auditor,
                                      sha |-> mem.candidate])
      BY <2>5 DEF clean
    <3>2. mem'.auditors = mem.auditors \cup {auditor}
      BY <1>4, <2>5 DEF known
    <3>. QED
      BY <1>1, <1>4, <2>5, <2>6, <3>1, <3>2
  <2>. QED
    BY <1>4, <1>5, <2>5, <2>7
<1>. QED
  BY <1>6, <1>7

\* The work is complete: back to the audits, without findings.
LEMMA CompleteKeeps ==
    ASSUME TypeOK, CodeComplete
    PROVE  /\ mem' \in Run /\ pc = "returned" /\ pc' = "save" /\ Writer
           /\ Repaired(mem) /\ saved' = saved
           /\ mem'.phase = "AUDIT" /\ mem'.pending = NoPending
           /\ mem'.status = mem.status /\ mem'.clean = mem.clean
           /\ mem'.active = mem.active
           /\ mem'.sequence = mem.sequence /\ mem'.auditors = mem.auditors
           /\ mem'.resumes = mem.resumes /\ mem'.lastCall = mem.lastCall
           /\ mem'.candidate = mem.candidate /\ mem'.rounds = mem.rounds
           /\ mem'.limit = mem.limit
           /\ UNCHANGED <<published, checkout, snapshot, before, tainted,
                          patches, invocation, agents, begun>>
  BY Words DEF CodeComplete, TypeOK, Run, code, calls

\* An error is settled: no observation stays, partial work may be kept.
LEMMA SettleKeeps ==
    ASSUME TypeOK, SettleError
    PROVE  /\ mem' \in Run /\ pc = "failed" /\ pc' = "finish"
           /\ saved' = saved
           /\ mem'.clean = <<>>
           /\ \/ mem'.candidate = mem.candidate
              \/ mem'.candidate = checkout /\ Partial(mem)
           /\ mem'.status = mem.status
           /\ mem'.phase = mem.phase
           /\ mem'.pending = mem.pending /\ mem'.active = mem.active
           /\ mem'.sequence = mem.sequence /\ mem'.auditors = mem.auditors
           /\ mem'.resumes = mem.resumes /\ mem'.lastCall = mem.lastCall
           /\ mem'.rounds = mem.rounds /\ mem'.limit = mem.limit
           /\ UNCHANGED <<published, checkout, snapshot, before, tainted,
                          unsaved, invocation, agents, begun>>
<1> DEFINE run == Cleared(mem)
<1>1. /\ run \in Run /\ run.clean = <<>>
      /\ run.status = mem.status /\ run.phase = mem.phase
      /\ run.pending = mem.pending /\ run.active = mem.active
      /\ run.sequence = mem.sequence /\ run.auditors = mem.auditors
      /\ run.resumes = mem.resumes /\ run.lastCall = mem.lastCall
      /\ run.candidate = mem.candidate
      /\ run.rounds = mem.rounds /\ run.limit = mem.limit
  BY Words DEF Cleared, TypeOK, Run
<1>2. \/ mem' = run
      \/ Partial(mem) /\ mem' = WithCandidate(run, checkout)
  BY DEF SettleError
<1>3. checkout \in Trees
  BY DEF TypeOK
<1>. HIDE DEF run
<1>. QED
  BY <1>1, <1>2, <1>3, CandidateKeeps DEF SettleError, code, calls

\* A resume settles the interrupted call and grants a batch at most.
LEMMA ResumeKeeps ==
    ASSUME TypeOK, Resume
    PROVE  LET settled == ReconcileInvocation(saved, invocation, FALSE)
           IN  /\ mem' \in Run /\ pc = "idle"
               /\ pc' \in {"resuming", "finish"}
               /\ Usable /\ checkout = saved.candidate
               /\ saved.status \in Resumable \cup {"RUNNING"}
               /\ saved' = saved
               /\ mem'.status = IF pc' = "finish" THEN "PAUSED" ELSE "RUNNING"
               /\ \/ mem'.limit = saved.limit
                  \/ /\ mem'.limit = saved.limit + BatchSize
                     /\ settled.rounds["audit"] >= saved.limit
               /\ mem'.phase = saved.phase /\ mem'.clean = settled.clean
               /\ mem'.pending = saved.pending /\ mem'.active = NoAudit
               /\ mem'.sequence = saved.sequence
               /\ mem'.auditors = saved.auditors
               /\ mem'.resumes = saved.resumes + 1
               /\ mem'.lastCall = NoCall
               /\ mem'.candidate = saved.candidate
               /\ mem'.rounds = settled.rounds
               /\ UNCHANGED <<published, checkout, snapshot, before, tainted,
                              patches, invocation, agents, begun>>
<1> DEFINE settled == ReconcileInvocation(saved, invocation, FALSE)
           run == [settled EXCEPT !.resumes = @ + 1]
<1>1. saved \in Run /\ invocation \in Invocations
  BY DEF TypeOK
<1>2. /\ settled \in Run /\ settled.lastCall = NoCall
      /\ settled.active = NoAudit /\ settled.phase = saved.phase
      /\ settled.pending = saved.pending
      /\ settled.sequence = saved.sequence
      /\ settled.auditors = saved.auditors
      /\ settled.candidate = saved.candidate
      /\ settled.resumes = saved.resumes /\ settled.limit = saved.limit
  BY <1>1, ReconcileKeeps
<1>3. /\ pc = "idle" /\ Usable /\ checkout = saved.candidate /\ saved' = saved
      /\ saved.status \in Resumable \cup {"RUNNING"}
      /\ UNCHANGED <<published, checkout, snapshot, before, tainted,
                     patches, invocation, agents, begun>>
  BY DEF Resume, Usable, code, calls
<1>4. \/ mem' = [run EXCEPT !.status = "RUNNING"] /\ pc' = "resuming"
      \/ mem' = [run EXCEPT !.status = "PAUSED"] /\ pc' = "finish"
      \/ /\ Exhausted(run) /\ pc' = "resuming"
         /\ mem' = [run EXCEPT !.status = "RUNNING", !.limit = @ + BatchSize]
  BY DEF Resume
<1>. HIDE DEF settled
<1>5. settled.resumes + 1 \in Nat
  BY <1>2 DEF Run
<1>6. run = [settled EXCEPT !.resumes = settled.resumes + 1]
  BY <1>2 DEF Run
<1>7. /\ run \in Run /\ run.lastCall = NoCall
      /\ run.active = NoAudit /\ run.phase = saved.phase
      /\ run.clean = settled.clean /\ run.rounds = settled.rounds
      /\ run.pending = saved.pending
      /\ run.sequence = saved.sequence
      /\ run.auditors = saved.auditors
      /\ run.candidate = saved.candidate
      /\ run.resumes = saved.resumes + 1 /\ run.limit = saved.limit
  BY <1>2, <1>5, <1>6 DEF Run
<1>. HIDE DEF run
<1>8. CASE mem' = [run EXCEPT !.status = "RUNNING"] /\ pc' = "resuming"
  BY <1>3, <1>7, <1>8, Words DEF Run, settled
<1>9. CASE mem' = [run EXCEPT !.status = "PAUSED"] /\ pc' = "finish"
  BY <1>3, <1>7, <1>9, Words DEF Run, settled
<1>10. CASE /\ Exhausted(run) /\ pc' = "resuming"
            /\ mem' = [run EXCEPT !.status = "RUNNING",
                                  !.limit = @ + BatchSize]
  <2>1. run.limit + BatchSize \in Nat /\ run.limit \in Nat
    BY <1>7, BatchAssumption DEF Run
  <2>2. mem' = [run EXCEPT !.status = "RUNNING",
                           !.limit = run.limit + BatchSize]
    BY <1>7, <1>10 DEF Run
  <2>3. settled.rounds["audit"] >= saved.limit
    BY <1>7, <1>10 DEF Exhausted
  <2>4. /\ mem' \in Run /\ mem'.limit = run.limit + BatchSize
        /\ mem'.status = "RUNNING" /\ mem'.phase = run.phase
        /\ mem'.clean = run.clean /\ mem'.pending = run.pending
        /\ mem'.active = run.active /\ mem'.sequence = run.sequence
        /\ mem'.auditors = run.auditors /\ mem'.resumes = run.resumes
        /\ mem'.lastCall = run.lastCall /\ mem'.candidate = run.candidate
        /\ mem'.rounds = run.rounds
    BY <1>7, <2>1, <2>2, Words DEF Run
  <2>. QED
    BY <1>3, <1>7, <1>10, <2>3, <2>4 DEF settled
<1>. QED
  BY <1>4, <1>8, <1>9, <1>10

\* An abort settles the interrupted call.
LEMMA AbortKeeps ==
    ASSUME TypeOK, Abort
    PROVE  LET settled == ReconcileInvocation(saved, invocation, FALSE)
           IN  /\ mem' \in Run /\ pc = "idle" /\ pc' = "finish"
               /\ Usable /\ saved.status \notin {"CONVERGED", "ABORTED"}
               /\ saved' = saved
               /\ mem'.status = "ABORTED" /\ mem'.phase = "ABORTED"
               /\ mem'.limit = saved.limit
               /\ mem'.clean = settled.clean
               /\ mem'.pending = saved.pending /\ mem'.active = NoAudit
               /\ mem'.sequence = saved.sequence
               /\ mem'.auditors = saved.auditors
               /\ mem'.resumes = saved.resumes
               /\ mem'.lastCall = NoCall
               /\ mem'.candidate = saved.candidate
               /\ mem'.rounds = settled.rounds
               /\ UNCHANGED <<published, checkout, snapshot, before, tainted,
                              patches, invocation, agents, begun>>
<1> DEFINE settled == ReconcileInvocation(saved, invocation, FALSE)
<1>1. saved \in Run /\ invocation \in Invocations
  BY DEF TypeOK
<1>2. /\ settled \in Run /\ settled.lastCall = NoCall
      /\ settled.active = NoAudit /\ settled.phase = saved.phase
      /\ settled.pending = saved.pending
      /\ settled.sequence = saved.sequence
      /\ settled.auditors = saved.auditors
      /\ settled.candidate = saved.candidate
      /\ settled.resumes = saved.resumes /\ settled.limit = saved.limit
  BY <1>1, ReconcileKeeps
<1>3. mem' = [settled EXCEPT !.phase = "ABORTED", !.status = "ABORTED"]
  BY DEF Abort
<1>4. /\ pc = "idle" /\ pc' = "finish" /\ Usable /\ saved' = saved
      /\ saved.status \notin {"CONVERGED", "ABORTED"}
      /\ UNCHANGED <<published, checkout, snapshot, before, tainted,
                     patches, invocation, agents, begun>>
  BY DEF Abort, Usable, code, calls
<1>. HIDE DEF settled
<1>5. /\ mem' \in Run /\ mem'.status = "ABORTED" /\ mem'.phase = "ABORTED"
      /\ mem'.limit = settled.limit /\ mem'.clean = settled.clean
      /\ mem'.pending = settled.pending /\ mem'.active = settled.active
      /\ mem'.sequence = settled.sequence
      /\ mem'.auditors = settled.auditors
      /\ mem'.resumes = settled.resumes /\ mem'.lastCall = settled.lastCall
      /\ mem'.candidate = settled.candidate
      /\ mem'.rounds = settled.rounds
  BY <1>2, <1>3, Words DEF Run
<1>. QED
  BY <1>2, <1>4, <1>5 DEF settled

\* Either of them counts the call that was cut short.
LEMMA SettledRounds ==
    ASSUME TypeOK, Resume \/ Abort
    PROVE  /\ mem'.clean = IF saved.active # NoAudit THEN <<>> ELSE saved.clean
           /\ \A role \in Roles :
                 mem'.rounds[role] = saved.rounds[role]
                    + IF Uncounted(saved, invocation, role) THEN 1 ELSE 0
<1> DEFINE settled == ReconcileInvocation(saved, invocation, FALSE)
<1>1. saved \in Run /\ invocation \in Invocations
  BY DEF TypeOK
<1>2. /\ settled.clean = IF saved.active # NoAudit THEN <<>> ELSE saved.clean
      /\ \A role \in Roles :
            settled.rounds[role] = saved.rounds[role]
               + IF Uncounted(saved, invocation, role) THEN 1 ELSE 0
  BY <1>1, ReconcileKeeps
<1>3. mem'.clean = settled.clean /\ mem'.rounds = settled.rounds
  BY ResumeKeeps, AbortKeeps
<1>. HIDE DEF settled
<1>. QED
  BY <1>2, <1>3

\* A batch is added only when the audits of the others are used up.
LEMMA ResumeGrants ==
    ASSUME TypeOK, Resume
    PROVE  \/ mem'.limit = saved.limit
           \/ /\ mem'.limit = saved.limit + BatchSize
              /\ mem'.rounds["audit"] >= saved.limit
<1> DEFINE settled == ReconcileInvocation(saved, invocation, FALSE)
<1>1. /\ mem'.rounds = settled.rounds
      /\ \/ mem'.limit = saved.limit
         \/ /\ mem'.limit = saved.limit + BatchSize
            /\ settled.rounds["audit"] >= saved.limit
  BY ResumeKeeps
<1>. HIDE DEF settled
<1>. QED
  BY <1>1

\* What is the same after a step that changes only the status, in memory.
Same(run, next) ==
    /\ next.phase = run.phase /\ next.clean = run.clean
    /\ next.pending = run.pending /\ next.active = run.active
    /\ next.sequence = run.sequence /\ run.auditors \subseteq next.auditors
    /\ next.resumes = run.resumes /\ next.lastCall = run.lastCall
    /\ next.candidate = run.candidate /\ next.rounds = run.rounds
    /\ next.limit = run.limit

\* Without an engine the run keeps all but its clean observations.
LEMMA CannotPrepareKeeps ==
    ASSUME TypeOK, CannotPrepare
    PROVE  /\ mem' \in Run /\ pc = "prepare" /\ pc' = "finish"
           /\ saved' = saved
           /\ mem'.clean = <<>>
           /\ mem'.status \in {"REPOSITORY_ERROR", "PROTOCOL_VIOLATION",
                               "INTERNAL_ERROR"}
           /\ mem'.phase = mem.phase /\ mem'.pending = mem.pending
           /\ mem'.active = mem.active /\ mem'.sequence = mem.sequence
           /\ mem'.auditors = mem.auditors /\ mem'.resumes = mem.resumes
           /\ mem'.lastCall = mem.lastCall /\ mem'.rounds = mem.rounds
           /\ mem'.candidate = mem.candidate /\ mem'.limit = mem.limit
           /\ UNCHANGED <<published, checkout, snapshot, before, tainted,
                          patches, invocation, agents, begun>>
<1>1. PICK kind \in {"REPOSITORY_ERROR", "PROTOCOL_VIOLATION",
                     "INTERNAL_ERROR"} :
         mem' = [mem EXCEPT !.status = kind, !.clean = <<>>]
  BY DEF CannotPrepare
<1>2. kind \in Statuses /\ mem \in Run
  BY Words DEF TypeOK
<1>3. /\ mem' \in Run /\ mem'.clean = <<>> /\ mem'.status = kind
      /\ mem'.phase = mem.phase /\ mem'.pending = mem.pending
      /\ mem'.active = mem.active /\ mem'.sequence = mem.sequence
      /\ mem'.auditors = mem.auditors /\ mem'.resumes = mem.resumes
      /\ mem'.lastCall = mem.lastCall /\ mem'.rounds = mem.rounds
      /\ mem'.candidate = mem.candidate /\ mem'.limit = mem.limit
  BY <1>1, <1>2, Words DEF Run
<1>. QED
  BY <1>3 DEF CannotPrepare, code, calls

\* A used-up batch pauses the run, or stops it for what was found.
LEMMA ExhaustedKeeps ==
    ASSUME TypeOK, BatchExhausted
    PROVE  /\ mem' \in Run /\ pc = "drive" /\ Exhausted(mem)
           /\ mem.status = "RUNNING"
           /\ \/ pc' = "drive" /\ mem'.status = "PAUSED"
              \/ pc' = "failed" /\ mem'.status = "PROTOCOL_VIOLATION"
           /\ saved' = saved /\ Same(mem, mem')
           /\ UNCHANGED <<published, checkout, snapshot, before, tainted,
                          patches, invocation, agents, begun>>
<1>1. PICK kind \in {"PAUSED", "PROTOCOL_VIOLATION"} :
         /\ mem' = [mem EXCEPT !.status = kind]
         /\ pc' = IF kind = "PAUSED" THEN "drive" ELSE "failed"
  BY DEF BatchExhausted, Fail
<1>2. kind \in Statuses /\ mem \in Run
  BY Words DEF TypeOK
<1>3. mem' \in Run /\ mem'.status = kind /\ Same(mem, mem')
  BY <1>1, <1>2 DEF Run, Same
<1>. QED
  BY <1>1, <1>3 DEF BatchExhausted, code, calls

\* The checkout is the candidate, or the call fails.
LEMMA BeginKeeps ==
    ASSUME TypeOK, BeginCall
    PROVE  /\ mem' \in Run /\ pc = "prepared"
           /\ \/ /\ pc' = "started" /\ mem' = mem /\ saved' = mem
                 /\ checkout = mem.candidate
              \/ /\ pc' = "failed" /\ mem'.status = "PROTOCOL_VIOLATION"
                 /\ saved' = saved
           /\ Same(mem, mem')
           /\ UNCHANGED <<published, checkout, snapshot, before, tainted,
                          patches, invocation, agents, begun>>
  BY Words DEF BeginCall, Checkpoint, Fail, Same, TypeOK, Run, code, calls

\* An agent that cannot start leaves the counters alone.
LEMMA CannotStartKeeps ==
    ASSUME TypeOK, CannotStart
    PROVE  /\ mem' \in Run /\ pc = "started" /\ pc' = "failed"
           /\ saved' = mem
           /\ mem'.status \in {"AGENT_ERROR", "PROTOCOL_VIOLATION"}
           /\ mem'.status = "AGENT_ERROR" => Unchanged
           /\ Same(mem, mem')
           /\ UNCHANGED <<published, checkout, snapshot, before, tainted,
                          patches, invocation, agents, begun>>
<1>1. PICK kind \in {"AGENT_ERROR", "PROTOCOL_VIOLATION"} :
         Fail(mem, kind) /\ (kind = "AGENT_ERROR" => Unchanged)
  BY DEF CannotStart, CallFails
<1>2. kind \in Statuses /\ mem \in Run
  BY Words DEF TypeOK
<1>3. /\ mem' \in Run /\ pc' = "failed" /\ mem'.status = kind
      /\ Same(mem, mem')
  BY <1>1, <1>2, FailKeeps DEF Same
<1>. QED
  BY <1>1, <1>3 DEF CannotStart, CallFails, code, calls

\* A call that failed is counted in memory and in the checkpoint.
LEMMA FailCallKeeps ==
    ASSUME TypeOK, FailCall
    PROVE  /\ mem' \in Run /\ pc = "ended" /\ pc' = "failed"
           /\ saved' = Counted
           /\ mem'.status \in {"AGENT_ERROR", "PROTOCOL_VIOLATION"}
           /\ mem'.status = "AGENT_ERROR" => Unchanged
           /\ Same(Counted, mem')
           /\ UNCHANGED <<published, checkout, snapshot, before, tainted,
                          patches, invocation, agents, begun>>
<1>1. Counted \in Run
  BY CountedKeeps DEF TypeOK
<1>2. PICK kind \in {"AGENT_ERROR", "PROTOCOL_VIOLATION"} :
         Fail(Counted, kind) /\ (kind = "AGENT_ERROR" => Unchanged)
  BY DEF FailCall, CallFails
<1>3. kind \in Statuses
  BY Words
<1>4. /\ mem' \in Run /\ pc' = "failed" /\ mem'.status = kind
      /\ Same(Counted, mem')
  BY <1>1, <1>2, <1>3, FailKeeps DEF Same
<1>. QED
  BY <1>2, <1>4 DEF FailCall, CallFails, code, calls

\* So is one that succeeded.
LEMMA CompleteCallKeeps ==
    ASSUME TypeOK, CompleteCall
    PROVE  /\ mem' = Counted /\ saved' = Counted /\ mem' \in Run
           /\ pc = "ended" /\ pc' = "completed" /\ Unchanged
           /\ snapshot' = IF Writer THEN checkout ELSE snapshot
           /\ UNCHANGED <<published, checkout, before, tainted, patches,
                          invocation, agents, begun>>
  BY CountedKeeps DEF CompleteCall, Checkpoint, TypeOK, calls

\* An invalid audit may use up the session id of its auditor.
LEMMA InvalidKeeps ==
    ASSUME TypeOK, AuditInvalid
    PROVE  /\ mem' \in Run /\ pc = "returned" /\ pc' = "failed" /\ ~Writer
           /\ saved' = saved /\ mem'.status = "AUDIT_INVALID"
           /\ Same(mem, mem')
           /\ UNCHANGED <<published, checkout, snapshot, before, tainted,
                          patches, invocation, agents, begun>>
<1>1. PICK known \in {{}} \cup {{auditor} : auditor \in Auditors} :
         Fail([mem EXCEPT !.auditors = @ \cup known], "AUDIT_INVALID")
  BY DEF AuditInvalid
<1> DEFINE auditors == mem.auditors \cup known
           run == [mem EXCEPT !.auditors = auditors]
<1>2. auditors \in SUBSET Auditors /\ mem \in Run
  <2>1. mem \in Run /\ mem.auditors \in SUBSET Auditors
    BY DEF TypeOK, Run
  <2>. QED
    BY <2>1
<1>3. Fail(run, "AUDIT_INVALID")
  BY <1>1, <1>2 DEF Run
<1>4. mem.auditors \subseteq auditors
  OBVIOUS
<1>. HIDE DEF auditors
<1>5. run \in Run /\ Same(mem, run)
  BY <1>2, <1>4 DEF Run, Same
<1>. HIDE DEF run
<1>6. /\ mem' \in Run /\ pc' = "failed" /\ mem'.status = "AUDIT_INVALID"
      /\ Same(mem, mem')
  BY <1>3, <1>5, FailKeeps, Words DEF Same
<1>. QED
  BY <1>6 DEF AuditInvalid, code, calls

\* Code that is no answer stops the run.
LEMMA CodeInvalidKeeps ==
    ASSUME TypeOK, CodeInvalid
    PROVE  /\ mem' \in Run /\ pc = "returned" /\ pc' = "failed" /\ Writer
           /\ saved' = saved /\ mem'.status = "FIX_INVALID"
           /\ Same(mem, mem')
           /\ UNCHANGED <<published, checkout, snapshot, before, tainted,
                          patches, invocation, agents, begun>>
  BY Words DEF CodeInvalid, Fail, Same, TypeOK, Run, code, calls

\* A question of the writer stops the loop.
LEMMA NeedsInputKeeps ==
    ASSUME TypeOK, CodeNeedsInput
    PROVE  /\ mem' \in Run /\ pc = "returned" /\ pc' = "drive" /\ Writer
           /\ saved' = saved /\ mem'.status = "NEEDS_INPUT"
           /\ Same(mem, mem')
           /\ UNCHANGED <<published, checkout, snapshot, before, tainted,
                          patches, invocation, agents, begun>>
  BY Words DEF CodeNeedsInput, Same, TypeOK, Run, code, calls

\* An exception nobody expected is an error like the others.
LEMMA InterruptKeeps ==
    ASSUME TypeOK, Interrupt
    PROVE  /\ mem' \in Run /\ pc \in Executing \ {"prepare", "agent"}
           /\ pc' = "failed"
           /\ saved' = saved /\ mem'.status = "INTERNAL_ERROR"
           /\ Same(mem, mem')
           /\ UNCHANGED <<published, checkout, snapshot, before, tainted,
                          patches, invocation, agents, begun>>
  BY Words DEF Interrupt, Fail, Same, TypeOK, Run, code, calls

(***************************************************************************)
(* Clean observations                                                      *)
(***************************************************************************)

\* Without clean observations there is nothing to be out of date.
LEMMA NoClean ==
    ASSUME NEW run \in Run, run.clean = <<>>
    PROVE  CleanIsCurrent(run)
  BY DEF CleanIsCurrent

\* Nothing but these fields decides what the observations are worth.
LEMMA SameClean ==
    ASSUME NEW run \in Run, NEW next \in Run, CleanIsCurrent(run),
           next.clean = run.clean,
           next.candidate = run.candidate,
           next.active = run.active,
           next.sequence = run.sequence,
           next.pending = run.pending,
           run.auditors \subseteq next.auditors
    PROVE  CleanIsCurrent(next)
  BY DEF CleanIsCurrent

\* One or two observations that meet the conditions, when no audit is active.
LEMMA CleanShown ==
    ASSUME NEW run,
           run.active = NoAudit, run.pending = NoPending,
           Len(run.clean) \in {1, 2},
           \A i \in 1..Len(run.clean) :
              /\ run.clean[i].sha = run.candidate
              /\ run.clean[i].auditor \in run.auditors
              /\ run.clean[i].audit = run.sequence - (Len(run.clean) - i),
           Len(run.clean) = 2 => run.clean[1].auditor # run.clean[2].auditor
    PROVE  CleanIsCurrent(run)
  BY DEF CleanIsCurrent

\* An element more at the end of a sequence.
LEMMA Appended ==
    ASSUME NEW S, NEW s \in Seq(S), NEW e \in S
    PROVE  /\ Len(Append(s, e)) = Len(s) + 1
           /\ Append(s, e)[Len(s) + 1] = e
           /\ \A i \in 1..Len(s) : Append(s, e)[i] = s[i]
  OBVIOUS

\* An audit that becomes active is the next one: the list still ends before it.
LEMMA Activated ==
    ASSUME NEW run \in Run, NEW next \in Run, CleanIsCurrent(run),
           run.active = NoAudit,
           next.clean = run.clean,
           next.candidate = run.candidate,
           next.active = run.sequence + 1,
           next.sequence = run.sequence + 1,
           next.pending = run.pending,
           next.auditors = run.auditors
    PROVE  CleanIsCurrent(next)
<1>1. run.sequence \in Nat
  BY DEF Run
<1>2. next.active # NoAudit /\ next.active - 1 = run.sequence
  BY <1>1 DEF NoAudit
<1>. QED
  BY <1>2 DEF CleanIsCurrent

\* One more audit without findings, by an auditor of its own.
LEMMA OneMoreClean ==
    ASSUME NEW run \in Run, NEW next \in Run, CleanIsCurrent(run),
           NEW auditor \in Auditors \ run.auditors,
           run.active # NoAudit, run.active = run.sequence,
           run.candidate \in Trees,
           run.pending = NoPending,
           next.clean = CleanObservations(
                           run.clean,
                           [audit |-> run.active, auditor |-> auditor,
                            sha |-> run.candidate]),
           next.auditors = run.auditors \cup {auditor},
           next.candidate = run.candidate,
           next.active = NoAudit,
           next.sequence = run.sequence,
           next.pending = run.pending
    PROVE  CleanIsCurrent(next)
<1> DEFINE current == [audit |-> run.active, auditor |-> auditor,
                       sha |-> run.candidate]
<1>1. /\ run.clean \in Seq(Observation)
      /\ run.active \in Nat /\ current \in Observation
      /\ next.clean \in Seq(Observation)
  BY DEF Run, Observation
<1>2. /\ Len(run.clean) \in Nat
      /\ Len(run.clean) <= 2
      /\ \A i \in 1..Len(run.clean) :
            /\ run.clean[i].sha = run.candidate
            /\ run.clean[i].auditor \in run.auditors
            /\ run.clean[i].audit = (run.active - 1) - (Len(run.clean) - i)
  BY <1>1 DEF CleanIsCurrent
<1>3. next.clean = CleanObservations(run.clean, current)
  OBVIOUS
<1>. HIDE DEF current
<1>4. current.audit = run.active /\ current.auditor = auditor
      /\ current.sha = run.candidate
  BY DEF current
<1>5. ASSUME NEW old \in Observation, Len(next.clean) = 2,
             next.clean[1] = old, next.clean[2] = current,
             old.sha = run.candidate, old.auditor \in run.auditors,
             old.audit = run.active - 1
      PROVE  CleanIsCurrent(next)
  <2>1. old.auditor # current.auditor
    BY <1>4, <1>5
  <2>2. \A i \in 1..2 : i = 1 \/ i = 2
    OBVIOUS
  <2>3. next.active = NoAudit /\ next.sequence = run.active
        /\ run.active \in Nat /\ next.pending = NoPending
    BY <1>1
  <2>4. \A i \in 1..2 :
           /\ next.clean[i].sha = next.candidate
           /\ next.clean[i].auditor \in next.auditors
           /\ next.clean[i].audit = next.sequence - (2 - i)
    BY <1>4, <1>5, <2>2, <2>3
  <2>. QED
    BY <1>5, <2>1, <2>3, <2>4, CleanShown
<1>6. CASE Len(run.clean) = 0
  <2>1. next.clean = <<current>>
    <3>1. run.clean = <<>>
      BY <1>1, <1>6
    <3>. QED
      BY <1>3, <3>1 DEF CleanObservations
  <2>2. Len(next.clean) = 1 /\ next.clean[1] = current
    BY <2>1
  <2>3. \A i \in 1..Len(next.clean) : i = 1
    <3>1. \A i \in 1..1 : i = 1
      OBVIOUS
    <3>2. 1..Len(next.clean) = 1..1
      BY <2>2
    <3>. QED
      BY <3>1, <3>2
  <2>4. next.active = NoAudit /\ next.sequence = run.active
        /\ run.active \in Nat /\ next.pending = NoPending
    BY <1>1
  <2>5. \A i \in 1..Len(next.clean) :
           /\ next.clean[i].sha = next.candidate
           /\ next.clean[i].auditor \in next.auditors
           /\ next.clean[i].audit = next.sequence - (Len(next.clean) - i)
    BY <1>4, <2>2, <2>3, <2>4
  <2>. QED
    <3>1. Len(next.clean) \in {1, 2} /\ Len(next.clean) # 2
      BY <2>2
    <3>. QED
      BY <3>1, <2>4, <2>5, CleanShown
<1>7. CASE Len(run.clean) = 1
  <2>1. /\ run.clean[1] \in Observation
        /\ run.clean[1].sha = run.candidate
        /\ run.clean[1].auditor \in run.auditors
        /\ run.clean[1].audit = run.active - 1
    BY <1>1, <1>2, <1>7
  <2>2. CleanObservations(run.clean, current) = Append(run.clean, current)
    BY <1>1, <1>4, <1>7, <2>1 DEF CleanObservations
  <2>3. /\ Len(next.clean) = 2
        /\ next.clean[1] = run.clean[1] /\ next.clean[2] = current
    <3>1. next.clean = Append(run.clean, current)
      BY <1>3, <2>2
    <3>2. /\ Len(next.clean) = Len(run.clean) + 1
          /\ next.clean[Len(run.clean) + 1] = current
          /\ \A i \in 1..Len(run.clean) : next.clean[i] = run.clean[i]
      <4>1. run.clean \in Seq(Observation) /\ current \in Observation
        BY <1>1
      <4>. QED
        BY <3>1, <4>1, Appended
    <3>. QED
      BY <1>7, <3>2
  <2>. QED
    BY <1>5, <2>1, <2>3
<1>8. CASE Len(run.clean) = 2
  <2>1. /\ run.clean[2] \in Observation
        /\ run.clean[2].sha = run.candidate
        /\ run.clean[2].auditor \in run.auditors
        /\ run.clean[2].audit = run.active - 1
    BY <1>1, <1>2, <1>8
  <2>2. CleanObservations(run.clean, current) = <<run.clean[2], current>>
    BY <1>1, <1>4, <1>8, <2>1 DEF CleanObservations
  <2>3. /\ Len(next.clean) = 2
        /\ next.clean[1] = run.clean[2] /\ next.clean[2] = current
    BY <1>3, <2>2
  <2>. QED
    BY <1>5, <2>1, <2>3
<1>9. \A n \in Nat : n <= 2 => n \in {0, 1, 2}
  OBVIOUS
<1>. QED
  BY <1>2, <1>6, <1>7, <1>8, <1>9

(***************************************************************************)
(* Every step preserves the invariant, one group of its parts at a time    *)
(***************************************************************************)

\* Every step keeps the types.
LEMMA TypeStep ==
    ASSUME ExecInductive, [Next]_vars
    PROVE  TypeOK'
<1>a. /\ TypeOK /\ mem \in Run
      /\ pc = "agent" => agents = 1
      /\ pc = "returned" => mem.candidate # NoTree
      /\ mem.number + 1 \in Nat /\ mem.status \in Statuses
  <2>1. TypeOK /\ mem \in Run
    BY DEF ExecInductive, TypeOK
  <2>2. mem.number + 1 \in Nat /\ mem.status \in Statuses
    BY <2>1 DEF Run
  <2>. QED
    BY <2>1, <2>2 DEF ExecInductive, AgentKnown, RunningPlaces, Executing
<1> USE DEF TypeOK, Places, Executing, Invocations
<1>0. CASE UNCHANGED vars
  BY <1>0, <1>a DEF vars
<1>1. CASE PrepareRepository
  BY <1>1, <1>a, PrepareKeeps DEF PrepareRepository, Patches, code, calls
<1>2. CASE CannotPrepare
  BY <1>2, <1>a, CannotPrepareKeeps DEF CannotPrepare, code, calls
<1>3. CASE BatchExhausted
  BY <1>3, <1>a, ExhaustedKeeps DEF BatchExhausted, code, calls
<1>4. CASE PrepareCall
  BY <1>4, <1>a, CallKeeps DEF PrepareCall, Checkpoint, code, calls
<1>5. CASE LeaveLoop
  BY <1>5, <1>a DEF LeaveLoop, code, calls
<1>6. CASE BeginCall
  BY <1>6, <1>a, BeginKeeps DEF BeginCall, Checkpoint, code, calls
<1>7. CASE StartAgent
  BY <1>7, <1>a, Stages DEF StartAgent, code, calls
<1>8. CASE CannotStart
  BY <1>8, <1>a, CannotStartKeeps DEF CannotStart, CallFails, code, calls
<1>9. CASE AgentEnds
  BY <1>9, <1>a DEF AgentEnds, code, calls
<1>10. CASE CompleteCall
  BY <1>10, <1>a, CompleteCallKeeps, CountedKeeps DEF CompleteCall,
     Checkpoint, code, calls
<1>11. CASE FailCall
  BY <1>11, <1>a, FailCallKeeps, CountedKeeps DEF FailCall, CallFails, code,
     calls
<1>12. CASE StoreCandidate
  <2>1. [mem EXCEPT !.lastCall = NoCall].number = mem.number
    BY <1>a DEF Run
  <2>2. patches' \in Nat
    BY <1>12, <1>a, <2>1 DEF StoreCandidate, Patches
  <2>3. before' \in Trees \cup {NoTree}
    BY <1>12, <1>a DEF StoreCandidate, Run
  <2>. QED
    BY <1>12, <1>a, <2>2, <2>3, StoreKeeps
<1>13. CASE ReturnCall
  BY <1>13, <1>a DEF ReturnCall, code, calls, Checkpoint
<1>14. CASE AuditInvalid
  BY <1>14, <1>a, InvalidKeeps DEF AuditInvalid, code, calls
<1>15. CASE JudgeAudit
  BY <1>15, <1>a, JudgeKeeps DEF JudgeAudit, code, calls
<1>16. CASE CodeInvalid
  BY <1>16, <1>a, CodeInvalidKeeps DEF CodeInvalid, code, calls
<1>17. CASE CodeNeedsInput
  BY <1>17, <1>a, NeedsInputKeeps DEF CodeNeedsInput, code, calls
<1>18. CASE CodeComplete
  BY <1>18, <1>a, CompleteKeeps DEF CodeComplete, code, calls
<1>19. CASE Record
  BY <1>19, <1>a DEF Record, code, calls, Checkpoint
<1>20. CASE SettleError
  BY <1>20, <1>a, SettleKeeps DEF SettleError, Patches, code, calls
<1>21. CASE SettleRaises
  BY <1>21, <1>a DEF SettleRaises, code, calls
<1>22. CASE PublishResult
  BY <1>22, <1>a DEF PublishResult, code, calls
<1>23. CASE CloseRun
  BY <1>23, <1>a DEF CloseRun, code, calls, Checkpoint
<1>24. CASE Resumed
  BY <1>24, <1>a DEF Resumed, code, calls, Checkpoint
<1>25. CASE Interrupt
  BY <1>25, <1>a, InterruptKeeps DEF Interrupt, code, calls
<1>26. CASE Crash
  BY <1>26, <1>a DEF Crash, code, calls
<1>27. CASE OrphanDies
  BY <1>27, <1>a DEF OrphanDies, code, calls
<1>28. CASE AgentWrites
  BY <1>28, <1>a DEF AgentWrites, code, calls
<1>29. CASE Edit
  BY <1>29, <1>a DEF Edit, code, calls
<1>30. CASE Resume
  BY <1>30, <1>a, ResumeKeeps DEF Resume, code, calls
<1>31. CASE Abort
  BY <1>31, <1>a, AbortKeeps DEF Abort, code, calls
<1>. QED
  BY <1>0, <1>1, <1>2, <1>3, <1>4, <1>5, <1>6, <1>7, <1>8, <1>9, <1>10, <1>11,
     <1>12, <1>13, <1>14, <1>15, <1>16, <1>17, <1>18, <1>19, <1>20, <1>21,
     <1>22, <1>23, <1>24, <1>25, <1>26, <1>27, <1>28, <1>29, <1>30, <1>31 DEF
     Next, Step, Environment

\* The call record follows the steps of ExecEngine.call and Invoker.
LEMMA CallStep ==
    ASSUME ExecInductive, [Next]_vars
    PROVE  (CallRecorded /\ NoCallRecorded /\ IdleIsSaved /\ ReturnedSaved)'
<1>a. /\ CallRecorded /\ NoCallRecorded /\ IdleIsSaved /\ ReturnedSaved
      /\ TypeOK /\ Role \in Roles /\ mem.rounds \in [Roles -> Nat]
  BY Stages DEF ExecInductive, TypeOK, Run
<1> USE DEF CallRecorded, NoCallRecorded, IdleIsSaved, ReturnedSaved, Calling,
   Executing, Role
<1>0. CASE UNCHANGED vars
  BY <1>0, <1>a DEF vars
<1>1. CASE PrepareRepository
  BY <1>1, <1>a, PrepareKeeps
<1>2. CASE CannotPrepare
  BY <1>2, <1>a, CannotPrepareKeeps
<1>3. CASE BatchExhausted
  BY <1>3, <1>a, ExhaustedKeeps DEF Same
<1>4. CASE PrepareCall
  BY <1>4, <1>a, CallKeeps
<1>5. CASE LeaveLoop
  BY <1>5, <1>a DEF LeaveLoop, code, calls
<1>6. CASE BeginCall
  BY <1>6, <1>a, BeginKeeps DEF Same
<1>7. CASE StartAgent
  BY <1>7, <1>a DEF StartAgent, code, calls
<1>8. CASE CannotStart
  BY <1>8, <1>a, CannotStartKeeps DEF Same
<1>9. CASE AgentEnds
  BY <1>9, <1>a DEF AgentEnds, code, calls
<1>10. CASE CompleteCall
  BY <1>10, <1>a, CompleteCallKeeps, CountedKeeps DEF TypeOK
<1>11. CASE FailCall
  BY <1>11, <1>a, FailCallKeeps DEF Same
<1>12. CASE StoreCandidate
  BY <1>12, <1>a, StoreKeeps
<1>13. CASE ReturnCall
  BY <1>13, <1>a DEF ReturnCall, code, calls, Checkpoint
<1>14. CASE AuditInvalid
  BY <1>14, <1>a, InvalidKeeps DEF Same
<1>15. CASE JudgeAudit
  BY <1>15, <1>a, JudgeKeeps
<1>16. CASE CodeInvalid
  BY <1>16, <1>a, CodeInvalidKeeps DEF Same
<1>17. CASE CodeNeedsInput
  BY <1>17, <1>a, NeedsInputKeeps DEF Same
<1>18. CASE CodeComplete
  BY <1>18, <1>a, CompleteKeeps
<1>19. CASE Record
  BY <1>19, <1>a DEF Record, code, calls, Checkpoint
<1>20. CASE SettleError
  BY <1>20, <1>a, SettleKeeps
<1>21. CASE SettleRaises
  BY <1>21, <1>a DEF SettleRaises, code, calls
<1>22. CASE PublishResult
  BY <1>22, <1>a DEF PublishResult, code, calls
<1>23. CASE CloseRun
  BY <1>23, <1>a DEF CloseRun, code, calls, Checkpoint
<1>24. CASE Resumed
  BY <1>24, <1>a DEF Resumed, code, calls, Checkpoint
<1>25. CASE Interrupt
  BY <1>25, <1>a, InterruptKeeps DEF Same
<1>26. CASE Crash
  BY <1>26, <1>a DEF Crash, code, calls
<1>27. CASE OrphanDies
  BY <1>27, <1>a DEF OrphanDies, code, calls
<1>28. CASE AgentWrites
  BY <1>28, <1>a DEF AgentWrites, code, calls
<1>29. CASE Edit
  BY <1>29, <1>a DEF Edit, code, calls
<1>30. CASE Resume
  BY <1>30, <1>a, ResumeKeeps
<1>31. CASE Abort
  BY <1>31, <1>a, AbortKeeps
<1>. QED
  BY <1>0, <1>1, <1>2, <1>3, <1>4, <1>5, <1>6, <1>7, <1>8, <1>9, <1>10, <1>11,
     <1>12, <1>13, <1>14, <1>15, <1>16, <1>17, <1>18, <1>19, <1>20, <1>21,
     <1>22, <1>23, <1>24, <1>25, <1>26, <1>27, <1>28, <1>29, <1>30, <1>31 DEF
     Next, Step, Environment

\* Each call that begins is counted once, in memory and in the checkpoint.
LEMMA TallyStep ==
    ASSUME ExecInductive, [Next]_vars
    PROVE  (Tally(mem) /\ Tally(saved))'
<1>a. /\ Tally(mem) /\ Tally(saved) /\ CallRecorded /\ NoCallRecorded
      /\ TypeOK /\ Role \in Roles /\ begun \in [Roles -> Nat]
      /\ mem.rounds \in [Roles -> Nat] /\ saved.rounds \in [Roles -> Nat]
      /\ "none" \notin Roles /\ saved \in Run
  BY Stages DEF ExecInductive, TypeOK, Run, Roles
<1> USE DEF Tally, Uncounted, CallStarted, CallRecorded, NoCallRecorded,
   Calling, Executing, NoCall
<1>0. CASE UNCHANGED vars
  BY <1>0, <1>a DEF vars
<1>1. CASE PrepareRepository
  BY <1>1, <1>a, PrepareKeeps
<1>2. CASE CannotPrepare
  BY <1>2, <1>a, CannotPrepareKeeps
<1>3. CASE BatchExhausted
  BY <1>3, <1>a, ExhaustedKeeps DEF Same
<1>4. CASE PrepareCall
  BY <1>4, <1>a, CallKeeps
<1>5. CASE LeaveLoop
  BY <1>5, <1>a DEF LeaveLoop, code, calls
<1>6. CASE BeginCall
  BY <1>6, <1>a, BeginKeeps DEF Same
<1>7. CASE StartAgent
  BY <1>7, <1>a DEF StartAgent, code, calls
<1>8. CASE CannotStart
  BY <1>8, <1>a, CannotStartKeeps DEF Same
<1>9. CASE AgentEnds
  BY <1>9, <1>a DEF AgentEnds, code, calls
<1>10. CASE CompleteCall
  BY <1>10, <1>a, CompleteCallKeeps, CountedKeeps DEF TypeOK
<1>11. CASE FailCall
  BY <1>11, <1>a, FailCallKeeps, CountedKeeps DEF TypeOK, Same
<1>12. CASE StoreCandidate
  BY <1>12, <1>a, StoreKeeps
<1>13. CASE ReturnCall
  BY <1>13, <1>a DEF ReturnCall, code, calls, Checkpoint
<1>14. CASE AuditInvalid
  BY <1>14, <1>a, InvalidKeeps DEF Same
<1>15. CASE JudgeAudit
  BY <1>15, <1>a, JudgeKeeps
<1>16. CASE CodeInvalid
  BY <1>16, <1>a, CodeInvalidKeeps DEF Same
<1>17. CASE CodeNeedsInput
  BY <1>17, <1>a, NeedsInputKeeps DEF Same
<1>18. CASE CodeComplete
  BY <1>18, <1>a, CompleteKeeps
<1>19. CASE Record
  BY <1>19, <1>a DEF Record, code, calls, Checkpoint
<1>20. CASE SettleError
  BY <1>20, <1>a, SettleKeeps
<1>21. CASE SettleRaises
  BY <1>21, <1>a DEF SettleRaises, code, calls
<1>22. CASE PublishResult
  BY <1>22, <1>a DEF PublishResult, code, calls
<1>23. CASE CloseRun
  BY <1>23, <1>a DEF CloseRun, code, calls, Checkpoint
<1>24. CASE Resumed
  BY <1>24, <1>a DEF Resumed, code, calls, Checkpoint
<1>25. CASE Interrupt
  BY <1>25, <1>a, InterruptKeeps DEF Same
<1>26. CASE Crash
  BY <1>26, <1>a DEF Crash, code, calls
<1>27. CASE OrphanDies
  BY <1>27, <1>a DEF OrphanDies, code, calls
<1>28. CASE AgentWrites
  BY <1>28, <1>a DEF AgentWrites, code, calls
<1>29. CASE Edit
  BY <1>29, <1>a DEF Edit, code, calls
<1>30. CASE Resume
  BY <1>30, <1>a, ResumeKeeps, SettledRounds
<1>31. CASE Abort
  BY <1>31, <1>a, AbortKeeps, SettledRounds
<1>. QED
  BY <1>0, <1>1, <1>2, <1>3, <1>4, <1>5, <1>6, <1>7, <1>8, <1>9, <1>10, <1>11,
     <1>12, <1>13, <1>14, <1>15, <1>16, <1>17, <1>18, <1>19, <1>20, <1>21,
     <1>22, <1>23, <1>24, <1>25, <1>26, <1>27, <1>28, <1>29, <1>30, <1>31 DEF
     Next, Step, Environment

\* An agent that outlives its process is named by the checkpoint.
LEMMA AgentStep ==
    ASSUME ExecInductive, [Next]_vars
    PROVE  AgentKnown'
<1>a. /\ AgentKnown /\ CallRecorded /\ TypeOK /\ agents \in Nat
      /\ Role \in Roles /\ "none" \notin Roles
  BY Stages DEF ExecInductive, TypeOK, Roles
<1> USE DEF AgentKnown, CallRecorded, Calling, Executing, NoCall
<1>0. CASE UNCHANGED vars
  BY <1>0, <1>a DEF vars
<1>1. CASE PrepareRepository
  BY <1>1, <1>a, PrepareKeeps
<1>2. CASE CannotPrepare
  BY <1>2, <1>a, CannotPrepareKeeps
<1>3. CASE BatchExhausted
  BY <1>3, <1>a, ExhaustedKeeps
<1>4. CASE PrepareCall
  BY <1>4, <1>a, CallKeeps
<1>5. CASE LeaveLoop
  BY <1>5, <1>a DEF LeaveLoop, code, calls
<1>6. CASE BeginCall
  BY <1>6, <1>a, BeginKeeps
<1>7. CASE StartAgent
  BY <1>7, <1>a DEF StartAgent, code, calls
<1>8. CASE CannotStart
  BY <1>8, <1>a, CannotStartKeeps
<1>9. CASE AgentEnds
  BY <1>9, <1>a DEF AgentEnds, code, calls
<1>10. CASE CompleteCall
  BY <1>10, <1>a, CompleteCallKeeps
<1>11. CASE FailCall
  BY <1>11, <1>a, FailCallKeeps
<1>12. CASE StoreCandidate
  BY <1>12, <1>a, StoreKeeps
<1>13. CASE ReturnCall
  BY <1>13, <1>a DEF ReturnCall, code, calls, Checkpoint
<1>14. CASE AuditInvalid
  BY <1>14, <1>a, InvalidKeeps
<1>15. CASE JudgeAudit
  BY <1>15, <1>a, JudgeKeeps
<1>16. CASE CodeInvalid
  BY <1>16, <1>a, CodeInvalidKeeps
<1>17. CASE CodeNeedsInput
  BY <1>17, <1>a, NeedsInputKeeps
<1>18. CASE CodeComplete
  BY <1>18, <1>a, CompleteKeeps
<1>19. CASE Record
  BY <1>19, <1>a DEF Record, code, calls, Checkpoint
<1>20. CASE SettleError
  BY <1>20, <1>a, SettleKeeps
<1>21. CASE SettleRaises
  BY <1>21, <1>a DEF SettleRaises, code, calls
<1>22. CASE PublishResult
  BY <1>22, <1>a DEF PublishResult, code, calls
<1>23. CASE CloseRun
  BY <1>23, <1>a DEF CloseRun, code, calls, Checkpoint
<1>24. CASE Resumed
  BY <1>24, <1>a DEF Resumed, code, calls, Checkpoint
<1>25. CASE Interrupt
  BY <1>25, <1>a, InterruptKeeps
<1>26. CASE Crash
  BY <1>26, <1>a DEF Crash, code, calls
<1>27. CASE OrphanDies
  BY <1>27, <1>a DEF OrphanDies, code, calls
<1>28. CASE AgentWrites
  BY <1>28, <1>a DEF AgentWrites, code, calls
<1>29. CASE Edit
  BY <1>29, <1>a DEF Edit, code, calls
<1>30. CASE Resume
  BY <1>30, <1>a, ResumeKeeps DEF Usable, AgentStillAlive
<1>31. CASE Abort
  BY <1>31, <1>a, AbortKeeps DEF Usable, AgentStillAlive
<1>. QED
  BY <1>0, <1>1, <1>2, <1>3, <1>4, <1>5, <1>6, <1>7, <1>8, <1>9, <1>10, <1>11,
     <1>12, <1>13, <1>14, <1>15, <1>16, <1>17, <1>18, <1>19, <1>20, <1>21,
     <1>22, <1>23, <1>24, <1>25, <1>26, <1>27, <1>28, <1>29, <1>30, <1>31 DEF
     Next, Step, Environment

\* Batches are granted and used one after the other.
LEMMA GrantStep ==
    ASSUME ExecInductive, [Next]_vars
    PROVE  (Granted(mem) /\ Granted(saved) /\ WithinBatch)'
<1>a. /\ Granted(mem) /\ Granted(saved) /\ WithinBatch /\ CallRecorded
      /\ TypeOK /\ Tally(mem) /\ Tally(saved)
      /\ Role \in Roles /\ "audit" \in Roles /\ begun \in [Roles -> Nat]
      /\ mem.rounds \in [Roles -> Nat] /\ saved.rounds \in [Roles -> Nat]
      /\ mem.limit \in Nat /\ saved.limit \in Nat /\ saved \in Run
      /\ BatchSize \in Nat
  BY Stages, BatchAssumption DEF ExecInductive, TypeOK, Run
<1> USE DEF Granted, WithinBatch, CallRecorded, Calling, Executing, Exhausted
<1>0. CASE UNCHANGED vars
  BY <1>0, <1>a DEF vars
<1>1. CASE PrepareRepository
  BY <1>1, <1>a, PrepareKeeps
<1>2. CASE CannotPrepare
  BY <1>2, <1>a, CannotPrepareKeeps
<1>3. CASE BatchExhausted
  BY <1>3, <1>a, ExhaustedKeeps DEF Same
<1>4. CASE PrepareCall
  BY <1>4, <1>a, CallKeeps
<1>5. CASE LeaveLoop
  BY <1>5, <1>a DEF LeaveLoop, code, calls
<1>6. CASE BeginCall
  BY <1>6, <1>a, BeginKeeps DEF Same
<1>7. CASE StartAgent
  BY <1>7, <1>a DEF StartAgent, code, calls, Tally, Uncounted, CallStarted
<1>8. CASE CannotStart
  BY <1>8, <1>a, CannotStartKeeps DEF Same
<1>9. CASE AgentEnds
  BY <1>9, <1>a DEF AgentEnds, code, calls
<1>10. CASE CompleteCall
  BY <1>10, <1>a, CompleteCallKeeps, CountedKeeps DEF TypeOK
<1>11. CASE FailCall
  BY <1>11, <1>a, FailCallKeeps, CountedKeeps DEF TypeOK, Same
<1>12. CASE StoreCandidate
  BY <1>12, <1>a, StoreKeeps
<1>13. CASE ReturnCall
  BY <1>13, <1>a DEF ReturnCall, code, calls, Checkpoint
<1>14. CASE AuditInvalid
  BY <1>14, <1>a, InvalidKeeps DEF Same
<1>15. CASE JudgeAudit
  BY <1>15, <1>a, JudgeKeeps
<1>16. CASE CodeInvalid
  BY <1>16, <1>a, CodeInvalidKeeps DEF Same
<1>17. CASE CodeNeedsInput
  BY <1>17, <1>a, NeedsInputKeeps DEF Same
<1>18. CASE CodeComplete
  BY <1>18, <1>a, CompleteKeeps
<1>19. CASE Record
  BY <1>19, <1>a DEF Record, code, calls, Checkpoint
<1>20. CASE SettleError
  BY <1>20, <1>a, SettleKeeps
<1>21. CASE SettleRaises
  BY <1>21, <1>a DEF SettleRaises, code, calls
<1>22. CASE PublishResult
  BY <1>22, <1>a DEF PublishResult, code, calls
<1>23. CASE CloseRun
  BY <1>23, <1>a DEF CloseRun, code, calls, Checkpoint
<1>24. CASE Resumed
  BY <1>24, <1>a DEF Resumed, code, calls, Checkpoint
<1>25. CASE Interrupt
  BY <1>25, <1>a, InterruptKeeps DEF Same
<1>26. CASE Crash
  BY <1>26, <1>a DEF Crash, code, calls
<1>27. CASE OrphanDies
  BY <1>27, <1>a DEF OrphanDies, code, calls
<1>28. CASE AgentWrites
  BY <1>28, <1>a DEF AgentWrites, code, calls
<1>29. CASE Edit
  BY <1>29, <1>a DEF Edit, code, calls
<1>30. CASE Resume
  BY <1>30, <1>a, ResumeKeeps, SettledRounds, ResumeGrants DEF Tally
<1>31. CASE Abort
  BY <1>31, <1>a, AbortKeeps, SettledRounds
<1>. QED
  BY <1>0, <1>1, <1>2, <1>3, <1>4, <1>5, <1>6, <1>7, <1>8, <1>9, <1>10, <1>11,
     <1>12, <1>13, <1>14, <1>15, <1>16, <1>17, <1>18, <1>19, <1>20, <1>21,
     <1>22, <1>23, <1>24, <1>25, <1>26, <1>27, <1>28, <1>29, <1>30, <1>31 DEF
     Next, Step, Environment

\* Audits, phases and statuses fit the place of the process.
LEMMA PlaceStep ==
    ASSUME ExecInductive, [Next]_vars
    PROVE  (AuditPlaces /\ PendingPhase(mem) /\ PendingPhase(saved) /\ RunningPlaces)'
<1>a. /\ AuditPlaces /\ PendingPhase(mem) /\ PendingPhase(saved)
      /\ RunningPlaces /\ CallRecorded /\ IdleIsSaved /\ TypeOK
      /\ mem.sequence \in Nat /\ mem.active \in Nat /\ mem.phase \in Phases
      /\ NoTree \notin Trees /\ checkout \in Trees /\ snapshot \in Trees
  BY TreesAssumption DEF ExecInductive, TypeOK, Run
<1> USE DEF AuditPlaces, LatestAudit, PendingPhase, RunningPlaces,
   CallRecorded, IdleIsSaved, Calling, Executing, Writer, Role, NoAudit,
   Phases
<1>0. CASE UNCHANGED vars
  BY <1>0, <1>a DEF vars
<1>1. CASE PrepareRepository
  BY <1>1, <1>a, PrepareKeeps
<1>2. CASE CannotPrepare
  BY <1>2, <1>a, CannotPrepareKeeps
<1>3. CASE BatchExhausted
  BY <1>3, <1>a, ExhaustedKeeps DEF Same
<1>4. CASE PrepareCall
  BY <1>4, <1>a, CallKeeps
<1>5. CASE LeaveLoop
  BY <1>5, <1>a DEF LeaveLoop, code, calls
<1>6. CASE BeginCall
  BY <1>6, <1>a, BeginKeeps DEF Same
<1>7. CASE StartAgent
  BY <1>7, <1>a DEF StartAgent, code, calls
<1>8. CASE CannotStart
  BY <1>8, <1>a, CannotStartKeeps DEF Same
<1>9. CASE AgentEnds
  BY <1>9, <1>a DEF AgentEnds, code, calls
<1>10. CASE CompleteCall
  BY <1>10, <1>a, CompleteCallKeeps, CountedKeeps DEF TypeOK
<1>11. CASE FailCall
  BY <1>11, <1>a, FailCallKeeps, CountedKeeps DEF TypeOK, Same
<1>12. CASE StoreCandidate
  BY <1>12, <1>a, StoreKeeps
<1>13. CASE ReturnCall
  BY <1>13, <1>a DEF ReturnCall, code, calls, Checkpoint
<1>14. CASE AuditInvalid
  BY <1>14, <1>a, InvalidKeeps DEF Same
<1>15. CASE JudgeAudit
  BY <1>15, <1>a, JudgeKeeps
<1>16. CASE CodeInvalid
  BY <1>16, <1>a, CodeInvalidKeeps DEF Same
<1>17. CASE CodeNeedsInput
  BY <1>17, <1>a, NeedsInputKeeps DEF Same
<1>18. CASE CodeComplete
  BY <1>18, <1>a, CompleteKeeps
<1>19. CASE Record
  BY <1>19, <1>a DEF Record, code, calls, Checkpoint
<1>20. CASE SettleError
  BY <1>20, <1>a, SettleKeeps
<1>21. CASE SettleRaises
  BY <1>21, <1>a DEF SettleRaises, code, calls
<1>22. CASE PublishResult
  BY <1>22, <1>a DEF PublishResult, code, calls
<1>23. CASE CloseRun
  BY <1>23, <1>a DEF CloseRun, code, calls, Checkpoint
<1>24. CASE Resumed
  BY <1>24, <1>a DEF Resumed, code, calls, Checkpoint
<1>25. CASE Interrupt
  BY <1>25, <1>a, InterruptKeeps DEF Same
<1>26. CASE Crash
  BY <1>26, <1>a DEF Crash, code, calls
<1>27. CASE OrphanDies
  BY <1>27, <1>a DEF OrphanDies, code, calls
<1>28. CASE AgentWrites
  BY <1>28, <1>a DEF AgentWrites, code, calls
<1>29. CASE Edit
  BY <1>29, <1>a DEF Edit, code, calls
<1>30. CASE Resume
  BY <1>30, <1>a, ResumeKeeps DEF Resumable
<1>31. CASE Abort
  BY <1>31, <1>a, AbortKeeps
<1>. QED
  BY <1>0, <1>1, <1>2, <1>3, <1>4, <1>5, <1>6, <1>7, <1>8, <1>9, <1>10, <1>11,
     <1>12, <1>13, <1>14, <1>15, <1>16, <1>17, <1>18, <1>19, <1>20, <1>21,
     <1>22, <1>23, <1>24, <1>25, <1>26, <1>27, <1>28, <1>29, <1>30, <1>31 DEF
     Next, Step, Environment

\* Clean observations stay recent, and two of them are the end.
LEMMA CleanStep ==
    ASSUME ExecInductive, [Next]_vars
    PROVE  Clean'
<1>a. /\ Clean /\ AuditPlaces /\ PendingPhase(mem) /\ RunningPlaces
      /\ CallRecorded /\ IdleIsSaved /\ TypeOK
      /\ mem \in Run /\ saved \in Run /\ mem' \in Run /\ saved' \in Run
      /\ NoTree \notin Trees /\ checkout \in Trees /\ snapshot \in Trees
      /\ Len(<<>>) = 0
  BY TypeStep, TreesAssumption DEF ExecInductive, TypeOK
<1> USE DEF Clean, Open, AuditPlaces, RunningPlaces, CallRecorded,
   IdleIsSaved, Calling, Executing, Writer, Role
<1>0. CASE UNCHANGED vars
  BY <1>0, <1>a DEF vars
<1>1. CASE PrepareRepository
  BY <1>1, <1>a, PrepareKeeps, SameClean, NoClean
<1>2. CASE CannotPrepare
  BY <1>2, <1>a, CannotPrepareKeeps, SameClean, NoClean
<1>3. CASE BatchExhausted
  BY <1>3, <1>a, ExhaustedKeeps, SameClean DEF Same
<1>4. CASE PrepareCall
  BY <1>4, <1>a, CallKeeps, NoClean, Activated
<1>5. CASE LeaveLoop
  BY <1>5, <1>a DEF LeaveLoop, code, calls
<1>6. CASE BeginCall
  BY <1>6, <1>a, BeginKeeps, SameClean DEF Same
<1>7. CASE StartAgent
  BY <1>7, <1>a DEF StartAgent, code, calls
<1>8. CASE CannotStart
  BY <1>8, <1>a, CannotStartKeeps, SameClean DEF Same
<1>9. CASE AgentEnds
  BY <1>9, <1>a DEF AgentEnds, code, calls
<1>10. CASE CompleteCall
  BY <1>10, <1>a, CompleteCallKeeps, SameClean, CountedKeeps
<1>11. CASE FailCall
  BY <1>11, <1>a, FailCallKeeps, SameClean, CountedKeeps DEF Same
<1>12. CASE StoreCandidate
  BY <1>12, <1>a, StoreKeeps, SameClean, NoClean
<1>13. CASE ReturnCall
  BY <1>13, <1>a DEF ReturnCall, code, calls, Checkpoint
<1>14. CASE AuditInvalid
  BY <1>14, <1>a, InvalidKeeps, SameClean DEF Same
<1>15. CASE JudgeAudit
  <2>1. /\ saved' = saved /\ pc' = "record" /\ mem'.candidate # NoTree
        /\ mem.candidate \in Trees
        /\ mem.active # NoAudit /\ mem.pending = NoPending
        /\ mem.active = mem.sequence /\ pc = "returned"
    BY <1>15, <1>a, JudgeKeeps DEF PendingPhase, LatestAudit, Phases, TypeOK, Run
  <2>2. CASE mem'.clean = <<>>
    BY <1>a, <2>1, <2>2, NoClean
  <2>3. CASE mem'.clean # <<>>
    <3>1. PICK auditor \in Auditors \ mem.auditors :
             LET clean == CleanObservations(
                             mem.clean, [audit |-> mem.active,
                                         auditor |-> auditor,
                                         sha |-> mem.candidate])
             IN  /\ mem'.auditors = mem.auditors \cup {auditor}
                 /\ mem'.clean = clean
                 /\ mem'.pending = mem.pending
                 /\ Freezes(mem'.clean) => mem'.status = "CONVERGED"
      BY <1>15, <2>3, JudgeKeeps
    <3>2. /\ mem'.candidate = mem.candidate /\ mem'.active = NoAudit
          /\ mem'.sequence = mem.sequence
      BY <1>15, JudgeKeeps
    <3>3. CleanIsCurrent(mem')
      BY <1>a, <2>1, <3>1, <3>2, OneMoreClean
    <3>4. Len(mem'.clean) \in Nat /\ Len(mem'.clean) <= 2
      BY <1>a, <3>3 DEF Run, CleanIsCurrent
    <3>5. Open(mem')
      <4>1. Len(mem'.clean) = 2 => mem'.status = "CONVERGED"
        BY <3>1 DEF Freezes
      <4>2. \A n \in Nat : n <= 2 /\ n # 2 => n < 2
        OBVIOUS
      <4>. QED
        BY <3>4, <4>1, <4>2, Zenon
    <3>. QED
      BY <1>a, <2>1, <3>3, <3>5
  <2>. QED
    BY <2>2, <2>3
<1>16. CASE CodeInvalid
  BY <1>16, <1>a, CodeInvalidKeeps, SameClean DEF Same
<1>17. CASE CodeNeedsInput
  BY <1>17, <1>a, NeedsInputKeeps, SameClean DEF Same
<1>18. CASE CodeComplete
  BY <1>18, <1>a, CompleteKeeps, SameClean, NoClean
<1>19. CASE Record
  BY <1>19, <1>a DEF Record, code, calls, Checkpoint
<1>20. CASE SettleError
  BY <1>20, <1>a, SettleKeeps, SameClean, NoClean
<1>21. CASE SettleRaises
  BY <1>21, <1>a DEF SettleRaises, code, calls
<1>22. CASE PublishResult
  BY <1>22, <1>a DEF PublishResult, code, calls
<1>23. CASE CloseRun
  BY <1>23, <1>a DEF CloseRun, code, calls, Checkpoint
<1>24. CASE Resumed
  BY <1>24, <1>a DEF Resumed, code, calls, Checkpoint
<1>25. CASE Interrupt
  BY <1>25, <1>a, InterruptKeeps, SameClean DEF Same
<1>26. CASE Crash
  BY <1>26, <1>a DEF Crash, code, calls
<1>27. CASE OrphanDies
  BY <1>27, <1>a DEF OrphanDies, code, calls
<1>28. CASE AgentWrites
  BY <1>28, <1>a DEF AgentWrites, code, calls
<1>29. CASE Edit
  BY <1>29, <1>a DEF Edit, code, calls
<1>30. CASE Resume
  BY <1>30, <1>a, ResumeKeeps, SettledRounds, NoClean, SameClean DEF Resumable
<1>31. CASE Abort
  BY <1>31, <1>a, AbortKeeps, SettledRounds, NoClean, SameClean
<1>. QED
  BY <1>0, <1>1, <1>2, <1>3, <1>4, <1>5, <1>6, <1>7, <1>8, <1>9, <1>10, <1>11,
     <1>12, <1>13, <1>14, <1>15, <1>16, <1>17, <1>18, <1>19, <1>20, <1>21,
     <1>22, <1>23, <1>24, <1>25, <1>26, <1>27, <1>28, <1>29, <1>30, <1>31 DEF
     Next, Step, Environment

\* What an auditor changed stays away from the candidate.
LEMMA TaintStep ==
    ASSUME ExecInductive, [Next]_vars
    PROVE  Tainted'
<1>a. /\ Tainted /\ AgentKnown /\ CallRecorded /\ IdleIsSaved
      /\ Role \in Roles /\ (Writer <=> mem.phase \in Writing)
      /\ agents \in Nat /\ TypeOK /\ mem \in Run
  BY Stages DEF ExecInductive, TypeOK
<1> USE DEF Tainted, CallRecorded, AgentKnown, IdleIsSaved, Calling,
   Executing, Partial, Writing, Writer, Role
<1>0. CASE UNCHANGED vars
  BY <1>0, <1>a DEF vars
<1>1. CASE PrepareRepository
  BY <1>1, <1>a, PrepareKeeps
<1>2. CASE CannotPrepare
  BY <1>2, <1>a, CannotPrepareKeeps
<1>3. CASE BatchExhausted
  BY <1>3, <1>a, ExhaustedKeeps DEF Same
<1>4. CASE PrepareCall
  BY <1>4, <1>a, CallKeeps
<1>5. CASE LeaveLoop
  BY <1>5, <1>a DEF LeaveLoop, code, calls
<1>6. CASE BeginCall
  BY <1>6, <1>a, BeginKeeps DEF Same
<1>7. CASE StartAgent
  BY <1>7, <1>a DEF StartAgent, code, calls
<1>8. CASE CannotStart
  BY <1>8, <1>a, CannotStartKeeps DEF Same
<1>9. CASE AgentEnds
  BY <1>9, <1>a DEF AgentEnds, code, calls
<1>10. CASE CompleteCall
  BY <1>10, <1>a, CompleteCallKeeps, CountedKeeps DEF Unchanged
<1>11. CASE FailCall
  BY <1>11, <1>a, FailCallKeeps, CountedKeeps DEF Same
<1>12. CASE StoreCandidate
  BY <1>12, <1>a, StoreKeeps
<1>13. CASE ReturnCall
  BY <1>13, <1>a DEF ReturnCall, code, calls, Checkpoint
<1>14. CASE AuditInvalid
  BY <1>14, <1>a, InvalidKeeps DEF Same
<1>15. CASE JudgeAudit
  BY <1>15, <1>a, JudgeKeeps
<1>16. CASE CodeInvalid
  BY <1>16, <1>a, CodeInvalidKeeps DEF Same
<1>17. CASE CodeNeedsInput
  BY <1>17, <1>a, NeedsInputKeeps DEF Same
<1>18. CASE CodeComplete
  BY <1>18, <1>a, CompleteKeeps
<1>19. CASE Record
  BY <1>19, <1>a DEF Record, code, calls, Checkpoint
<1>20. CASE SettleError
  BY <1>20, <1>a, SettleKeeps
<1>21. CASE SettleRaises
  BY <1>21, <1>a DEF SettleRaises, code, calls
<1>22. CASE PublishResult
  BY <1>22, <1>a DEF PublishResult, code, calls
<1>23. CASE CloseRun
  BY <1>23, <1>a DEF CloseRun, code, calls, Checkpoint
<1>24. CASE Resumed
  BY <1>24, <1>a DEF Resumed, code, calls, Checkpoint
<1>25. CASE Interrupt
  BY <1>25, <1>a, InterruptKeeps DEF Same
<1>26. CASE Crash
  BY <1>26, <1>a DEF Crash, code, calls
<1>27. CASE OrphanDies
  BY <1>27, <1>a DEF OrphanDies, code, calls
<1>28. CASE AgentWrites
  <2>1. tainted' <=> (tainted \/ mem.lastCall.role = "audit") /\ Foreign
    BY <1>28, Zenon DEF AgentWrites
  <2>2. /\ mem' = mem /\ saved' = saved /\ pc' = pc
        /\ pc \in {"agent", "idle"}
    BY <1>28, <1>a DEF AgentWrites
  <2>. QED
    BY <1>a, <2>1, <2>2 DEF Foreign
<1>29. CASE Edit
  BY <1>29, <1>a DEF Edit, code, calls, Foreign
<1>30. CASE Resume
  BY <1>30, <1>a, ResumeKeeps
<1>31. CASE Abort
  BY <1>31, <1>a, AbortKeeps
<1>. QED
  BY <1>0, <1>1, <1>2, <1>3, <1>4, <1>5, <1>6, <1>7, <1>8, <1>9, <1>10, <1>11,
     <1>12, <1>13, <1>14, <1>15, <1>16, <1>17, <1>18, <1>19, <1>20, <1>21,
     <1>22, <1>23, <1>24, <1>25, <1>26, <1>27, <1>28, <1>29, <1>30, <1>31 DEF
     Next, Step, Environment

\* Memory and checkpoint differ by at most one decision about findings.
LEMMA PendingStep ==
    ASSUME ExecInductive, [Next]_vars
    PROVE  PendingSaved'
<1>a. /\ PendingSaved /\ ReturnedSaved /\ PendingPhase(mem) /\ RunningPlaces
      /\ CallRecorded /\ IdleIsSaved /\ TypeOK /\ mem.phase \in Phases
  BY DEF ExecInductive, TypeOK, Run
<1> USE DEF PendingSaved, ReturnedSaved, RunningPlaces, PendingPhase,
   CallRecorded, IdleIsSaved, Calling, Executing, Writer, Role, Phases
<1>0. CASE UNCHANGED vars
  BY <1>0, <1>a DEF vars
<1>1. CASE PrepareRepository
  BY <1>1, <1>a, PrepareKeeps
<1>2. CASE CannotPrepare
  BY <1>2, <1>a, CannotPrepareKeeps
<1>3. CASE BatchExhausted
  BY <1>3, <1>a, ExhaustedKeeps DEF Same
<1>4. CASE PrepareCall
  BY <1>4, <1>a, CallKeeps
<1>5. CASE LeaveLoop
  BY <1>5, <1>a DEF LeaveLoop, code, calls
<1>6. CASE BeginCall
  BY <1>6, <1>a, BeginKeeps DEF Same
<1>7. CASE StartAgent
  BY <1>7, <1>a DEF StartAgent, code, calls
<1>8. CASE CannotStart
  BY <1>8, <1>a, CannotStartKeeps DEF Same
<1>9. CASE AgentEnds
  BY <1>9, <1>a DEF AgentEnds, code, calls
<1>10. CASE CompleteCall
  BY <1>10, <1>a, CompleteCallKeeps, CountedKeeps
<1>11. CASE FailCall
  BY <1>11, <1>a, FailCallKeeps, CountedKeeps DEF Same
<1>12. CASE StoreCandidate
  BY <1>12, <1>a, StoreKeeps
<1>13. CASE ReturnCall
  BY <1>13, <1>a DEF ReturnCall, code, calls, Checkpoint
<1>14. CASE AuditInvalid
  BY <1>14, <1>a, InvalidKeeps DEF Same
<1>15. CASE JudgeAudit
  BY <1>15, <1>a, JudgeKeeps
<1>16. CASE CodeInvalid
  BY <1>16, <1>a, CodeInvalidKeeps DEF Same
<1>17. CASE CodeNeedsInput
  BY <1>17, <1>a, NeedsInputKeeps DEF Same
<1>18. CASE CodeComplete
  BY <1>18, <1>a, CompleteKeeps DEF Repaired
<1>19. CASE Record
  BY <1>19, <1>a DEF Record, code, calls, Checkpoint
<1>20. CASE SettleError
  BY <1>20, <1>a, SettleKeeps
<1>21. CASE SettleRaises
  BY <1>21, <1>a DEF SettleRaises, code, calls
<1>22. CASE PublishResult
  BY <1>22, <1>a DEF PublishResult, code, calls
<1>23. CASE CloseRun
  BY <1>23, <1>a DEF CloseRun, code, calls, Checkpoint
<1>24. CASE Resumed
  BY <1>24, <1>a DEF Resumed, code, calls, Checkpoint
<1>25. CASE Interrupt
  BY <1>25, <1>a, InterruptKeeps DEF Same
<1>26. CASE Crash
  BY <1>26, <1>a DEF Crash, code, calls
<1>27. CASE OrphanDies
  BY <1>27, <1>a DEF OrphanDies, code, calls
<1>28. CASE AgentWrites
  BY <1>28, <1>a DEF AgentWrites, code, calls
<1>29. CASE Edit
  BY <1>29, <1>a DEF Edit, code, calls
<1>30. CASE Resume
  BY <1>30, <1>a, ResumeKeeps
<1>31. CASE Abort
  BY <1>31, <1>a, AbortKeeps
<1>. QED
  BY <1>0, <1>1, <1>2, <1>3, <1>4, <1>5, <1>6, <1>7, <1>8, <1>9, <1>10, <1>11,
     <1>12, <1>13, <1>14, <1>15, <1>16, <1>17, <1>18, <1>19, <1>20, <1>21,
     <1>22, <1>23, <1>24, <1>25, <1>26, <1>27, <1>28, <1>29, <1>30, <1>31 DEF
     Next, Step, Environment

\* A new run is a state the invariant describes.
LEMMA InitInductive == Init => ExecInductive
<1> SUFFICES ASSUME Init PROVE ExecInductive
  OBVIOUS
<1>1. [role \in Roles |-> 0] \in [Roles -> Nat] /\ BatchSize \in Nat
      /\ BatchSize > 0
  BY BatchAssumption
<1>2. NewRun \in Run
  BY <1>1, Words DEF NewRun, Run
<1>3. TypeOK
  BY <1>1, <1>2 DEF Init, TypeOK, Places, Executing, Invocations
<1>4. /\ mem = NewRun /\ saved = NewRun /\ pc = "prepare" /\ agents = 0
      /\ invocation = "absent" /\ tainted = FALSE
      /\ begun = [role \in Roles |-> 0]
  BY DEF Init
<1>5. /\ NewRun.phase = "IMPLEMENT" /\ NewRun.status = "RUNNING"
      /\ NewRun.clean = <<>> /\ NewRun.pending = NoPending
      /\ NewRun.active = NoAudit /\ NewRun.lastCall = NoCall
      /\ NewRun.candidate = NoTree /\ NewRun.limit = BatchSize
      /\ NewRun.rounds = [role \in Roles |-> 0]
  BY DEF NewRun
<1>6. Tally(mem) /\ Tally(saved)
  BY <1>4, <1>5 DEF Tally, Uncounted, CallStarted
<1>7. /\ CallRecorded /\ NoCallRecorded /\ AgentKnown /\ IdleIsSaved
      /\ ReturnedSaved /\ WithinBatch
  BY <1>4, <1>5 DEF CallRecorded, NoCallRecorded, AgentKnown, IdleIsSaved,
     ReturnedSaved, WithinBatch, Calling, Executing
<1>8. Granted(mem) /\ Granted(saved)
  BY <1>1, <1>4, <1>5, Stages DEF Granted
<1>9. /\ AuditPlaces /\ PendingPhase(mem) /\ PendingPhase(saved)
      /\ RunningPlaces /\ PendingSaved
  BY <1>4, <1>5 DEF AuditPlaces, LatestAudit, PendingPhase, RunningPlaces,
     PendingSaved, Calling, Executing
<1>10. Clean /\ Tainted
  <2>1. Len(<<>>) = 0 /\ CleanIsCurrent(NewRun)
    BY <1>2, <1>5, NoClean
  <2>. QED
    BY <1>4, <1>5, <2>1 DEF Clean, Open, Tainted, Calling
<1>. QED
  BY <1>3, <1>6, <1>7, <1>8, <1>9, <1>10 DEF ExecInductive

\* Every step preserves all of it.
LEMMA InductiveStep == ExecInductive /\ [Next]_vars => ExecInductive'
  BY TypeStep, CallStep, TallyStep, AgentStep, GrantStep, PlaceStep, CleanStep,
     TaintStep, PendingStep DEF ExecInductive

\* Only a snapshot of untainted work becomes a new candidate.
LEMMA PromotedStep ==
    ASSUME ExecInductive, [Next]_vars
    PROVE  mem'.candidate \in {mem.candidate, saved.candidate} \/ ~tainted
<1>a. Tainted /\ CallRecorded /\ TypeOK /\ mem \in Run
  BY DEF ExecInductive, TypeOK
<1> USE DEF Tainted, CallRecorded
<1>0. CASE UNCHANGED vars
  BY <1>0, <1>a DEF vars
<1>1. CASE PrepareRepository
  BY <1>1, <1>a, PrepareKeeps
<1>2. CASE CannotPrepare
  BY <1>2, <1>a, CannotPrepareKeeps
<1>3. CASE BatchExhausted
  BY <1>3, <1>a, ExhaustedKeeps DEF Same
<1>4. CASE PrepareCall
  BY <1>4, <1>a, CallKeeps
<1>5. CASE LeaveLoop
  BY <1>5, <1>a DEF LeaveLoop, code, calls
<1>6. CASE BeginCall
  BY <1>6, <1>a, BeginKeeps DEF Same
<1>7. CASE StartAgent
  BY <1>7, <1>a DEF StartAgent, code, calls
<1>8. CASE CannotStart
  BY <1>8, <1>a, CannotStartKeeps DEF Same
<1>9. CASE AgentEnds
  BY <1>9, <1>a DEF AgentEnds, code, calls
<1>10. CASE CompleteCall
  BY <1>10, <1>a, CompleteCallKeeps, CountedKeeps
<1>11. CASE FailCall
  BY <1>11, <1>a, FailCallKeeps, CountedKeeps DEF Same
<1>12. CASE StoreCandidate
  BY <1>12, <1>a, StoreKeeps
<1>13. CASE ReturnCall
  BY <1>13, <1>a DEF ReturnCall, code, calls, Checkpoint
<1>14. CASE AuditInvalid
  BY <1>14, <1>a, InvalidKeeps DEF Same
<1>15. CASE JudgeAudit
  BY <1>15, <1>a, JudgeKeeps
<1>16. CASE CodeInvalid
  BY <1>16, <1>a, CodeInvalidKeeps DEF Same
<1>17. CASE CodeNeedsInput
  BY <1>17, <1>a, NeedsInputKeeps DEF Same
<1>18. CASE CodeComplete
  BY <1>18, <1>a, CompleteKeeps
<1>19. CASE Record
  BY <1>19, <1>a DEF Record, code, calls, Checkpoint
<1>20. CASE SettleError
  BY <1>20, <1>a, SettleKeeps
<1>21. CASE SettleRaises
  BY <1>21, <1>a DEF SettleRaises, code, calls
<1>22. CASE PublishResult
  BY <1>22, <1>a DEF PublishResult, code, calls
<1>23. CASE CloseRun
  BY <1>23, <1>a DEF CloseRun, code, calls, Checkpoint
<1>24. CASE Resumed
  BY <1>24, <1>a DEF Resumed, code, calls, Checkpoint
<1>25. CASE Interrupt
  BY <1>25, <1>a, InterruptKeeps DEF Same
<1>26. CASE Crash
  BY <1>26, <1>a DEF Crash, code, calls
<1>27. CASE OrphanDies
  BY <1>27, <1>a DEF OrphanDies, code, calls
<1>28. CASE AgentWrites
  BY <1>28, <1>a DEF AgentWrites, code, calls
<1>29. CASE Edit
  BY <1>29, <1>a DEF Edit, code, calls
<1>30. CASE Resume
  BY <1>30, <1>a, ResumeKeeps
<1>31. CASE Abort
  BY <1>31, <1>a, AbortKeeps
<1>. QED
  BY <1>0, <1>1, <1>2, <1>3, <1>4, <1>5, <1>6, <1>7, <1>8, <1>9, <1>10, <1>11,
     <1>12, <1>13, <1>14, <1>15, <1>16, <1>17, <1>18, <1>19, <1>20, <1>21,
     <1>22, <1>23, <1>24, <1>25, <1>26, <1>27, <1>28, <1>29, <1>30, <1>31 DEF
     Next, Step, Environment

\* The checkpoint loses findings only to a repair of the same execution.
LEMMA KeptStep ==
    ASSUME ExecInductive, [Next]_vars
    PROVE  \/ saved'.pending = saved.pending
           \/ saved.pending = NoPending
           \/ /\ saved'.pending = NoPending /\ saved'.phase = "AUDIT"
              /\ saved'.resumes = saved.resumes /\ saved'.rounds = saved.rounds
              /\ saved.candidate # before
<1>a. /\ PendingSaved /\ CallRecorded /\ ReturnedSaved /\ TypeOK
      /\ mem \in Run
  BY DEF ExecInductive, TypeOK
<1> USE DEF PendingSaved, CallRecorded, Calling, ReturnedSaved
<1>0. CASE UNCHANGED vars
  BY <1>0, <1>a DEF vars
<1>1. CASE PrepareRepository
  BY <1>1, <1>a, PrepareKeeps
<1>2. CASE CannotPrepare
  BY <1>2, <1>a, CannotPrepareKeeps
<1>3. CASE BatchExhausted
  BY <1>3, <1>a, ExhaustedKeeps DEF Same
<1>4. CASE PrepareCall
  BY <1>4, <1>a, CallKeeps
<1>5. CASE LeaveLoop
  BY <1>5, <1>a DEF LeaveLoop, code, calls
<1>6. CASE BeginCall
  BY <1>6, <1>a, BeginKeeps DEF Same
<1>7. CASE StartAgent
  BY <1>7, <1>a DEF StartAgent, code, calls
<1>8. CASE CannotStart
  BY <1>8, <1>a, CannotStartKeeps DEF Same
<1>9. CASE AgentEnds
  BY <1>9, <1>a DEF AgentEnds, code, calls
<1>10. CASE CompleteCall
  BY <1>10, <1>a, CompleteCallKeeps, CountedKeeps
<1>11. CASE FailCall
  BY <1>11, <1>a, FailCallKeeps, CountedKeeps DEF Same
<1>12. CASE StoreCandidate
  BY <1>12, <1>a, StoreKeeps
<1>13. CASE ReturnCall
  BY <1>13, <1>a DEF ReturnCall, code, calls, Checkpoint
<1>14. CASE AuditInvalid
  BY <1>14, <1>a, InvalidKeeps DEF Same
<1>15. CASE JudgeAudit
  BY <1>15, <1>a, JudgeKeeps
<1>16. CASE CodeInvalid
  BY <1>16, <1>a, CodeInvalidKeeps DEF Same
<1>17. CASE CodeNeedsInput
  BY <1>17, <1>a, NeedsInputKeeps DEF Same
<1>18. CASE CodeComplete
  BY <1>18, <1>a, CompleteKeeps
<1>19. CASE Record
  BY <1>19, <1>a DEF Record, code, calls, Checkpoint
<1>20. CASE SettleError
  BY <1>20, <1>a, SettleKeeps
<1>21. CASE SettleRaises
  BY <1>21, <1>a DEF SettleRaises, code, calls
<1>22. CASE PublishResult
  BY <1>22, <1>a DEF PublishResult, code, calls
<1>23. CASE CloseRun
  BY <1>23, <1>a DEF CloseRun, code, calls, Checkpoint
<1>24. CASE Resumed
  BY <1>24, <1>a DEF Resumed, code, calls, Checkpoint
<1>25. CASE Interrupt
  BY <1>25, <1>a, InterruptKeeps DEF Same
<1>26. CASE Crash
  BY <1>26, <1>a DEF Crash, code, calls
<1>27. CASE OrphanDies
  BY <1>27, <1>a DEF OrphanDies, code, calls
<1>28. CASE AgentWrites
  BY <1>28, <1>a DEF AgentWrites, code, calls
<1>29. CASE Edit
  BY <1>29, <1>a DEF Edit, code, calls
<1>30. CASE Resume
  BY <1>30, <1>a, ResumeKeeps
<1>31. CASE Abort
  BY <1>31, <1>a, AbortKeeps
<1>. QED
  BY <1>0, <1>1, <1>2, <1>3, <1>4, <1>5, <1>6, <1>7, <1>8, <1>9, <1>10, <1>11,
     <1>12, <1>13, <1>14, <1>15, <1>16, <1>17, <1>18, <1>19, <1>20, <1>21,
     <1>22, <1>23, <1>24, <1>25, <1>26, <1>27, <1>28, <1>29, <1>30, <1>31 DEF
     Next, Step, Environment

(***************************************************************************)
(* The theorems                                                            *)
(***************************************************************************)

\* ExecInductive holds throughout every run of exec-mrac-v1, whatever dies,
\* edits, resumes or aborts it.
THEOREM ExecutionInvariant == Spec => []ExecInductive
<1>1. Init => ExecInductive
  BY InitInductive
<1>2. ExecInductive /\ [Next]_vars => ExecInductive'
  BY InductiveStep
<1>. QED
  BY <1>1, <1>2, PTL DEF Spec

\* The run in memory and the one in exec-state.json are always runs, the
\* process stands at one of its places.
THEOREM ExecTypesHold == Spec => []TypeOK
<1>1. ExecInductive => TypeOK
  BY DEF ExecInductive
<1>. QED
  BY <1>1, ExecutionInvariant, PTL

\* Audits stay within the batches granted, and nobody grants a batch before
\* the audits of the earlier ones were started (resume_exec).
THEOREM BatchesAreKept == Spec => []BatchesKept
<1>1. ExecInductive => BatchesKept
  BY DEF ExecInductive, Granted, BatchesKept
<1>. QED
  BY <1>1, ExecutionInvariant, PTL

\* Clean observations are the latest audits, of the candidate, by different
\* auditors, through every pause, resume, error and crash.
THEOREM CleanStaysRecent == Spec => []CleanIsRecent
<1>1. ExecInductive => CleanIsRecent
  BY DEF ExecInductive, Clean, CleanIsRecent
<1>. QED
  BY <1>1, ExecutionInvariant, PTL

\* Nothing that an auditor left in the checkout becomes the candidate
\* (execute_exec keeps partial work of writers only).
THEOREM NoAuditorIsPromoted == Spec => AuditorNeverPromoted
<1>1. ExecInductive /\ [Next]_vars =>
         [mem'.candidate \notin {mem.candidate, saved.candidate} =>
             ~tainted]_mem
  BY PromotedStep
<1>. QED
  BY <1>1, ExecutionInvariant, PTL DEF Spec, AuditorNeverPromoted

\* Findings leave the checkpoint only with the repair of the execution that
\* worked on them.
THEOREM FindingsStayPending == Spec => PendingKept
<1>1. ExecInductive /\ [Next]_vars =>
         [saved.pending # NoPending /\ saved'.pending # saved.pending =>
             /\ saved'.pending = NoPending
             /\ saved'.phase = "AUDIT"
             /\ saved'.resumes = saved.resumes
             /\ saved'.rounds = saved.rounds
             /\ saved.candidate # before]_saved
  BY KeptStep
<1>. QED
  BY <1>1, ExecutionInvariant, PTL DEF Spec, PendingKept

(***************************************************************************)
(* The checkpoints implement Convergence                                   *)
(***************************************************************************)

\* A step makes or saves one decision at most.
LEMMA AheadStep ==
    ASSUME ExecInductive, [Next]_vars, ExecAhead
    PROVE  ExecAhead' /\ (saved' = saved \/ Moves(saved, saved'))
<1>a. /\ ExecAhead /\ ReturnedSaved /\ CallRecorded /\ IdleIsSaved
      /\ RunningPlaces /\ TypeOK /\ mem \in Run /\ saved \in Run
      /\ Open(mem) \/ pc = "failed"
      /\ pc \in Calling \cup {"stored", "returned"} /\ Writer =>
            mem.clean = <<>>
      /\ mem.candidate = NoTree => mem.clean = <<>>
      /\ Writer <=> mem.phase \in Writing
  BY Stages DEF ExecInductive, Clean, TypeOK
<1> USE DEF ExecAhead, Stays, Withdraws, Moves, ReturnedSaved, CallRecorded,
   IdleIsSaved, RunningPlaces, Calling, Executing
<1>0. CASE UNCHANGED vars
  BY <1>0, <1>a DEF vars
<1>1. CASE PrepareRepository
  BY <1>1, <1>a, PrepareKeeps
<1>2. CASE CannotPrepare
  BY <1>2, <1>a, CannotPrepareKeeps
<1>3. CASE BatchExhausted
  BY <1>3, <1>a, ExhaustedKeeps DEF Same
<1>4. CASE PrepareCall
  BY <1>4, <1>a, CallKeeps
<1>5. CASE LeaveLoop
  BY <1>5, <1>a DEF LeaveLoop, code, calls
<1>6. CASE BeginCall
  BY <1>6, <1>a, BeginKeeps DEF Same
<1>7. CASE StartAgent
  BY <1>7, <1>a DEF StartAgent, code, calls
<1>8. CASE CannotStart
  BY <1>8, <1>a, CannotStartKeeps DEF Same
<1>9. CASE AgentEnds
  BY <1>9, <1>a DEF AgentEnds, code, calls
<1>10. CASE CompleteCall
  BY <1>10, <1>a, CompleteCallKeeps, CountedKeeps
<1>11. CASE FailCall
  BY <1>11, <1>a, FailCallKeeps, CountedKeeps DEF Same
<1>12. CASE StoreCandidate
  BY <1>12, <1>a, StoreKeeps
<1>13. CASE ReturnCall
  BY <1>13, <1>a DEF ReturnCall, code, calls, Checkpoint
<1>14. CASE AuditInvalid
  BY <1>14, <1>a, InvalidKeeps DEF Same
<1>15. CASE JudgeAudit
  <2>1. /\ saved' = saved /\ pc' = "record" /\ pc = "returned"
        /\ saved = mem /\ mem.status = "RUNNING"
        /\ mem'.candidate = mem.candidate /\ mem.candidate # NoTree
    BY <1>15, <1>a, JudgeKeeps
  <2>2. CASE mem'.phase = "FIX" /\ mem'.status = mem.status /\ mem'.clean = <<>>
    BY <2>1, <2>2
  <2>3. ASSUME NEW auditor \in Auditors \ mem.auditors, NEW current,
               current = [audit |-> mem.active, auditor |-> auditor,
                          sha |-> mem.candidate],
               mem'.clean = CleanObservations(mem.clean, current),
               \/ /\ Freezes(mem'.clean) /\ mem'.phase = "CONVERGED"
                  /\ mem'.status = "CONVERGED"
               \/ mem'.phase = mem.phase /\ mem'.status = mem.status
        PROVE  Approves(saved, mem') /\ ExecAhead'
    <3>1. current \in Observation /\ current.sha = mem.candidate
      BY <1>a, <2>1, <2>3 DEF Observation, Run
    <3>2. mem.clean \in Seq(Observation) /\ Len(mem.clean) \in Nat
          /\ Len(mem.clean) < 2
      BY <1>a, <2>1 DEF Run, Open
    <3>3. mem.clean # <<>> => mem.clean[Len(mem.clean)].sha = mem.candidate
      BY <3>2 DEF ExecInductive, Clean, CleanIsCurrent
    <3>4. mem'.clean = Append(mem.clean, current)
      BY <2>3, <3>1, <3>2, <3>3 DEF CleanObservations
    <3>5. /\ mem'.clean # <<>> /\ mem'.clean[Len(mem'.clean)] = current
      BY <3>1, <3>2, <3>4
    <3>6. mem'.status = "CONVERGED" => Len(mem'.clean) = 2
      BY <2>1, <2>3 DEF Freezes
    <3>7. Approves(saved, mem')
      BY <2>1, <3>4, <3>5, <3>6 DEF Approves
    <3>. QED
      BY <2>1, <2>3, <3>7
  <2>. QED
    BY <1>15, <2>1, <2>2, <2>3, JudgeKeeps
<1>16. CASE CodeInvalid
  BY <1>16, <1>a, CodeInvalidKeeps DEF Same
<1>17. CASE CodeNeedsInput
  BY <1>17, <1>a, NeedsInputKeeps DEF Same
<1>18. CASE CodeComplete
  BY <1>18, <1>a, CompleteKeeps DEF Writing
<1>19. CASE Record
  BY <1>19, <1>a DEF Record, code, calls, Checkpoint, Approves
<1>20. CASE SettleError
  BY <1>20, <1>a, SettleKeeps DEF Partial, Writing, Approves
<1>21. CASE SettleRaises
  BY <1>21, <1>a DEF SettleRaises, code, calls, Partial, Writing
<1>22. CASE PublishResult
  BY <1>22, <1>a DEF PublishResult, code, calls
<1>23. CASE CloseRun
  BY <1>23, <1>a DEF CloseRun, code, calls, Checkpoint
<1>24. CASE Resumed
  BY <1>24, <1>a DEF Resumed, code, calls, Checkpoint
<1>25. CASE Interrupt
  BY <1>25, <1>a, InterruptKeeps DEF Same, Approves
<1>26. CASE Crash
  BY <1>26, <1>a DEF Crash, code, calls
<1>27. CASE OrphanDies
  BY <1>27, <1>a DEF OrphanDies, code, calls
<1>28. CASE AgentWrites
  BY <1>28, <1>a DEF AgentWrites, code, calls
<1>29. CASE Edit
  BY <1>29, <1>a DEF Edit, code, calls
<1>30. CASE Resume
  BY <1>30, <1>a, ResumeKeeps, SettledRounds DEF Resumable
<1>31. CASE Abort
  BY <1>31, <1>a, AbortKeeps, SettledRounds
<1>. QED
  BY <1>0, <1>1, <1>2, <1>3, <1>4, <1>5, <1>6, <1>7, <1>8, <1>9, <1>10, <1>11,
     <1>12, <1>13, <1>14, <1>15, <1>16, <1>17, <1>18, <1>19, <1>20, <1>21,
     <1>22, <1>23, <1>24, <1>25, <1>26, <1>27, <1>28, <1>29, <1>30, <1>31 DEF
     Next, Step, Environment

\* Initially there is nothing to decide.
LEMMA InitAhead == Init => ExecAhead
  BY DEF Init, NewRun, ExecAhead, Stays

\* Both invariants hold throughout.
LEMMA AheadInvariant == Spec => [](ExecInductive /\ ExecAhead)
<1>1. Init => ExecInductive /\ ExecAhead
  BY InitInductive, InitAhead
<1>2. (ExecInductive /\ ExecAhead) /\ [Next]_vars
         => (ExecInductive /\ ExecAhead)'
  BY InductiveStep, AheadStep
<1>. QED
  BY <1>1, <1>2, PTL DEF Spec

\* Those who approved the candidate of a run.
Approvals(run) == {run.clean[i].auditor : i \in DOMAIN run.clean}

\* Without observations there is no approval.
LEMMA NoApproval ==
    ASSUME NEW run, run.clean = <<>>
    PROVE  Approvals(run) = {}
  BY DEF Approvals

\* One more observation is one more approval.
LEMMA OneMoreApproval ==
    ASSUME NEW run \in Run, NEW next \in Run, NEW current \in Observation,
           next.clean = Append(run.clean, current)
    PROVE  Approvals(next) = Approvals(run) \cup {current.auditor}
<1>1. run.clean \in Seq(Observation)
  BY DEF Run
<1>2. /\ DOMAIN next.clean = 1..(Len(run.clean) + 1)
      /\ DOMAIN run.clean = 1..Len(run.clean)
      /\ Len(run.clean) \in Nat
      /\ next.clean[Len(run.clean) + 1] = current
      /\ \A i \in 1..Len(run.clean) : next.clean[i] = run.clean[i]
  BY <1>1
<1>3. \A i : i \in 1..(Len(run.clean) + 1)
               <=> i \in 1..Len(run.clean) \/ i = Len(run.clean) + 1
  BY <1>2
<1>4. ASSUME NEW a PROVE a \in Approvals(next)
                           <=> a \in Approvals(run) \cup {current.auditor}
  BY <1>2, <1>3 DEF Approvals
<1>. QED
  BY <1>4

\* As many approve as observations are kept: their auditors differ.
LEMMA ApprovalsCounted ==
    ASSUME NEW run \in Run, CleanIsCurrent(run)
    PROVE  Cardinality(Approvals(run)) = Len(run.clean)
<1>1. /\ run.clean \in Seq(Observation)
      /\ Len(run.clean) \in Nat /\ Len(run.clean) <= 2
      /\ DOMAIN run.clean = 1..Len(run.clean)
  BY DEF Run, CleanIsCurrent
<1>2. CASE Len(run.clean) = 0
  <2>1. Approvals(run) = {}
    BY <1>1, <1>2 DEF Approvals
  <2>. QED
    BY <1>2, <2>1, FS_EmptySet
<1>3. CASE Len(run.clean) = 1
  <2>1. Approvals(run) = {run.clean[1].auditor}
    BY <1>1, <1>3 DEF Approvals
  <2>. QED
    BY <1>3, <2>1, FS_Singleton
<1>4. CASE Len(run.clean) = 2
  <2> DEFINE first == run.clean[1].auditor
             second == run.clean[2].auditor
  <2>1. Approvals(run) = {first} \cup {second}
    BY <1>1, <1>4 DEF Approvals
  <2>2. first # second
    BY <1>4 DEF CleanIsCurrent
  <2>3. IsFiniteSet({first}) /\ Cardinality({first}) = 1
    BY FS_Singleton
  <2>. HIDE DEF first, second
  <2>4. Cardinality({first} \cup {second}) = 2
    BY <2>2, <2>3, FS_AddElement
  <2>. QED
    BY <1>4, <2>1, <2>4
<1>5. \A n \in Nat : n <= 2 => n \in {0, 1, 2}
  OBVIOUS
<1>. QED
  BY <1>1, <1>2, <1>3, <1>4, <1>5

\* Convergence counts as FiniteSets does.
LEMMA SameCardinality == \A S : Judgement!Cardinality(S) = Cardinality(S)
  BY DEF Judgement!Cardinality, Cardinality

\* The first checkpoint is an initial state of Convergence.
LEMMA InitImplements == Init => Judgement!Init
<1> SUFFICES ASSUME Init PROVE Judgement!Init
  OBVIOUS
<1>1. /\ saved.candidate = NoTree /\ saved.clean = <<>>
      /\ saved.status = "RUNNING"
  BY DEF NewRun, Init
<1>2. Approvals(saved) = {}
  BY <1>1, NoApproval
<1>. QED
  BY <1>1, <1>2 DEF Judgement!Init, Approvals

\* One more clean observation in the checkpoint is an approval.
LEMMA ApprovesImplements ==
    ASSUME saved \in Run, saved' \in Run,
           CleanIsCurrent(saved), CleanIsCurrent(saved'),
           Approves(saved, saved')
    PROVE  Judgement!Approve
<1>1. saved'.clean \in Seq(Observation) /\ saved.clean \in Seq(Observation)
  BY DEF Run
<1>2. PICK current \in Observation : saved'.clean = Append(saved.clean, current)
  <2>1. saved'.clean[Len(saved'.clean)] \in Observation
    BY <1>1 DEF Approves
  <2>. QED
    BY <2>1 DEF Approves
<1>3. current.auditor \in Auditors
  BY <1>2 DEF Observation
<1>4. Approvals(saved') = Approvals(saved) \cup {current.auditor}
  BY <1>2, OneMoreApproval, Zenon
<1>5. /\ Len(saved'.clean) = Len(saved.clean) + 1
      /\ Len(saved.clean) \in Nat
  BY <1>1, <1>2
<1>6. /\ Cardinality(Approvals(saved)) = Len(saved.clean)
      /\ Cardinality(Approvals(saved')) = Len(saved'.clean)
  BY ApprovalsCounted
<1>7. current.auditor \notin Approvals(saved)
  <2>1. SUFFICES ASSUME current.auditor \in Approvals(saved) PROVE FALSE
    OBVIOUS
  <2>2. Approvals(saved') = Approvals(saved)
    BY <1>4, <2>1
  <2>. QED
    BY <1>5, <1>6, <2>2
<1>8. Len(saved'.clean) <= 2
  BY DEF CleanIsCurrent
<1>9. Cardinality(Approvals(saved)) < 2
  BY <1>5, <1>6, <1>8
<1>10. saved'.status = "CONVERGED" => Cardinality(Approvals(saved')) = 2
  BY <1>6 DEF Approves
<1>11. saved'.candidate = saved.candidate /\ saved.status # "CONVERGED"
  BY DEF Approves
<1>. QED
  BY <1>3, <1>4, <1>7, <1>9, <1>10, <1>11, SameCardinality
     DEF Judgement!Approve, Approvals

\* The other changes are an objection, a revision, a retraction or nothing.
LEMMA StaysImplements ==
    ASSUME Stays(saved, saved')
    PROVE  [Judgement!Next]_(Judgement!vars)
<1>1. CASE saved'.status = "CONVERGED" <=> saved.status = "CONVERGED"
  BY <1>1 DEF Stays, Judgement!vars
<1>2. CASE saved'.status # "CONVERGED" /\ saved.status = "CONVERGED"
  BY <1>2 DEF Stays, Judgement!Next, Judgement!Retract
<1>. QED
  BY <1>1, <1>2 DEF Stays

LEMMA WithdrawsImplements ==
    ASSUME saved \in Run, saved' \in Run, Withdraws(saved, saved')
    PROVE  Judgement!Next
<1>1. Approvals(saved') = {} /\ saved'.status # "CONVERGED"
  BY NoApproval DEF Withdraws
<1>2. CASE saved.status = "CONVERGED"
  BY <1>1, <1>2 DEF Withdraws, Judgement!Next, Judgement!Retract, Approvals
<1>3. CASE saved.status # "CONVERGED" /\ saved'.candidate = saved.candidate
  BY <1>1, <1>3 DEF Judgement!Next, Judgement!Object, Approvals
<1>4. CASE saved.status # "CONVERGED" /\ saved'.candidate # saved.candidate
  <2>1. saved'.candidate \in (Trees \cup {NoTree}) \ {saved.candidate}
    BY <1>4 DEF Run
  <2>. QED
    BY <1>1, <1>4, <2>1 DEF Judgement!Next, Judgement!Revise, Approvals
<1>. QED
  BY <1>2, <1>3, <1>4

\* Every step of the program is a step of Convergence or none.
LEMMA StepImplements ==
    ExecInductive /\ ExecInductive' /\ ExecAhead /\ [Next]_vars
        => [Judgement!Next]_(Judgement!vars)
<1> SUFFICES ASSUME ExecInductive, ExecInductive', ExecAhead, [Next]_vars
             PROVE  [Judgement!Next]_(Judgement!vars)
  OBVIOUS
<1>1. /\ saved \in Run /\ saved' \in Run
      /\ CleanIsCurrent(saved) /\ CleanIsCurrent(saved')
  BY DEF ExecInductive, TypeOK, Clean
<1>2. saved' = saved \/ Moves(saved, saved')
  BY AheadStep
<1>3. CASE saved' = saved
  BY <1>3 DEF Judgement!vars
<1>4. CASE Stays(saved, saved')
  BY <1>4, StaysImplements
<1>5. CASE Withdraws(saved, saved')
  BY <1>1, <1>5, WithdrawsImplements
<1>6. CASE Approves(saved, saved')
  BY <1>1, <1>6, ApprovesImplements DEF Judgement!Next
<1>. QED
  BY <1>2, <1>3, <1>4, <1>5, <1>6 DEF Moves

\* The checkpoints of exec-mrac-v1, across crashes, pauses, resumes, errors
\* and aborts, are a run of the abstract Convergence.
THEOREM ExecFlowImplementsConvergence == Spec => ImplementsConvergence
<1>1. Init => Judgement!Init
  BY InitImplements
<1>2. (ExecInductive /\ ExecAhead) /\ (ExecInductive /\ ExecAhead)'
        /\ [Next]_vars => [Judgement!Next]_(Judgement!vars)
  BY StepImplements
<1>. QED
  BY <1>1, <1>2, AheadInvariant, PTL
     DEF Spec, ImplementsConvergence, Judgement!Spec

=============================================================================
