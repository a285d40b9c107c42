-------------------------- MODULE SchedulerProofs ---------------------------
(***************************************************************************)
(* The limits hold and a cancellation wins, for every set of tasks, every  *)
(* dependency and limit, any number of attempts, users and faults.         *)
(***************************************************************************)
EXTENDS SchedulerInvariant, FiniteSetTheorems, SequenceTheorems, TLAPS

(***************************************************************************)
(* What a step may do to a row                                             *)
(***************************************************************************)

\* The row of t becomes row: it leaves the occupied states, and if it was to
\* be cancelled it now is; it stays in them; or it is claimed.
Moves(t, row) ==
    /\ row.id = t
    /\ task' = [task EXCEPT ![t] = row]
    /\ \/ /\ row.state \notin Occupied
          /\ task[t].state = "CANCEL_REQUESTED" => row.state = "CANCELLED"
       \/ /\ task[t].state \in Occupied
          /\ row.state \in Occupied
          /\ task[t].state = "CANCEL_REQUESTED" =>
                 row.state = "CANCEL_REQUESTED"
       \/ task[t].state \in Waiting /\ Fits(t)

\* The steps that change rows at most by a move.
Orderly == task' = task \/ \E t \in Tasks, row \in Row : Moves(t, row)

\* The words of the states.
LEMMA StateWords ==
    /\ \A s \in States : s \in Occupied \/ s \in Terminal \/ s \in Waiting
                         \/ s \in {"PAUSED", "WAITING_INPUT"}
    /\ \A s \in Waiting \cup Terminal \cup {"PAUSED", "WAITING_INPUT"} :
           s \notin Occupied
  BY DEF States, Occupied, Terminal, Waiting

\* An update in reconcile leaves an occupied row occupied.
LEMMA UpdateOrEndMoves ==
    ASSUME ReadIsGood, pc = "act",
           NEW state \in {"RUNNING", "RECOVERING"},
           at.state # "CANCEL_REQUESTED",
           UpdateOrEnd(at, [at EXCEPT !.state = state])
    PROVE  Orderly
<1>1. CASE task[at.id] = at
  <2>. DEFINE row == [at EXCEPT !.state = state]
  <2>1. at \in Row /\ at.state \in Occupied /\ at.id \in Tasks
    BY DEF ReadIsGood, ReadRows, Row
  <2>2. row \in Row /\ row.id = at.id /\ row.state = state
    BY <2>1 DEF Row, States, Occupied
  <2>3. task' = [task EXCEPT ![at.id] = row]
    BY <1>1, <2>2 DEF UpdateOrEnd, Update
  <2>4. Moves(at.id, row)
    BY <1>1, <2>1, <2>2, <2>3 DEF Moves, Occupied
  <2>. QED
    BY <2>1, <2>2, <2>4 DEF Orderly
<1>2. CASE task[at.id] # at
  BY <1>2 DEF UpdateOrEnd, NoUpdate, Orderly
<1>. QED
  BY <1>1, <1>2

\* What becomes of a row whose attempt ended.
LEMMA FinishedRow ==
    ASSUME RowsTyped, NEW row \in Row,
           NEW state \in Observations \ {"UNKNOWN", "RUNNING"}
    PROVE  /\ Finished(row, state) \in Row
           /\ Finished(row, state).id = row.id
           /\ Finished(row, state).state \notin Occupied
           /\ task[row.id].state = "CANCEL_REQUESTED" =>
                  Finished(row, state).state = "CANCELLED"
<1>. DEFINE recovery == IF state = "LOST" /\ row.state # "CANCEL_REQUESTED"
                        THEN Recovery(row) ELSE {}
            final == IF Cancelled(row) THEN "CANCELLED"
                     ELSE IF recovery # {} THEN "RETRY_WAIT"
                     ELSE IF state = "LOST" THEN "FAILED" ELSE state
            converged == /\ state = "COMPLETED"
                         /\ run[RunDir(row)].saved = "CONVERGED"
            ended == [task[row.id] EXCEPT !.state = final,
                                          !.converged = converged]
            operation == CHOOSE op \in recovery : TRUE
            again == [ended EXCEPT !.auto = @ + 1, !.operation = operation]
<1>1. Finished(row, state) = IF recovery = {} THEN ended ELSE again
  BY DEF Finished
<1>2. task[row.id] \in Row /\ task[row.id].id = row.id
  BY DEF RowsTyped, Row
<1>3. final \in States \ Occupied
  BY DEF Observations, States, Occupied, Terminal, Waiting
<1>4. task[row.id].state = "CANCEL_REQUESTED" => final = "CANCELLED"
  BY DEF Cancelled
<1>5. recovery \subseteq Operations
  BY DEF Recovery, Operations
<1>6. recovery # {} => operation \in Operations
  BY <1>5
<1>7. converged \in BOOLEAN
  OBVIOUS
<1>. HIDE DEF final, converged, recovery, operation
<1>8. ended \in Row /\ ended.id = row.id /\ ended.state = final
  BY <1>2, <1>3, <1>7 DEF Row
<1>9. recovery # {} =>
          again \in Row /\ again.id = row.id /\ again.state = final
  <2>1. ASSUME NEW r \in Row, NEW op \in Operations, NEW n \in Nat
        PROVE  LET new == [r EXCEPT !.auto = n, !.operation = op]
               IN new \in Row /\ new.id = r.id /\ new.state = r.state
    BY DEF Row
  <2>2. \A r \in Row : r.auto + 1 \in Nat
    BY DEF Row
  <2>. QED
    BY <1>6, <1>8, <2>1, <2>2
<1>. QED
  BY <1>1, <1>3, <1>4, <1>8, <1>9

\* An attempt's end is orderly.
LEMMA FinishMoves ==
    ASSUME RowsTyped, at \in Row,
           NEW state \in Observations \ {"UNKNOWN", "RUNNING"},
           NEW loop, NEW abort, Finish(state, loop, abort)
    PROVE  Orderly
<1>. DEFINE row == Finished(at, state)
<1>1. /\ row \in Row
      /\ row.id = at.id
      /\ row.state \notin Occupied
      /\ task[at.id].state = "CANCEL_REQUESTED" => row.state = "CANCELLED"
  BY FinishedRow
<1>2. task' = [task EXCEPT ![at.id] = row]
  BY <1>1 DEF Finish, Update
<1>3. at.id \in Tasks
  BY DEF Row
<1>4. Moves(at.id, row)
  BY <1>1, <1>2 DEF Moves
<1>. QED
  BY <1>1, <1>3, <1>4 DEF Orderly

\* Contamination is orderly: what was occupied is to be cancelled.
LEMMA MarkMoves ==
    ASSUME RowsTyped, NEW t \in Tasks, MarkInvalid(t)
    PROVE  Orderly
<1>. DEFINE row == Invalidated(task[t])
<1>1. CASE task[t] = Head(todo)
  <2>1. task[t] \in Row /\ task[t].id = t
    BY DEF RowsTyped
  <2>2. /\ row \in Row
        /\ row.id = t
        /\ task[t].state \in Occupied => row.state = "CANCEL_REQUESTED"
        /\ task[t].state \notin Occupied => row.state \notin Occupied
    <3>. DEFINE state == CASE task[t].state \in Occupied -> "CANCEL_REQUESTED"
                          [] task[t].state \in Waiting \cup {"PAUSED", "WAITING_INPUT"}
                                 -> "FAILED"
                          [] OTHER -> task[t].state
    <3>1. row = [task[t] EXCEPT !.valid = FALSE, !.state = state]
      BY DEF Invalidated
    <3>2. /\ state \in States
          /\ task[t].state \in Occupied => state = "CANCEL_REQUESTED"
          /\ task[t].state \notin Occupied => state \notin Occupied
      <4>1. task[t].state \in States
        BY <2>1 DEF Row
      <4>. QED
        BY <4>1 DEF States, Occupied, Terminal, Waiting
    <3>. HIDE DEF state, row
    <3>. QED
      BY <2>1, <3>1, <3>2 DEF Row
  <2>3. task' = [task EXCEPT ![t] = row]
    BY <1>1, <2>2 DEF MarkInvalid, Update
  <2>4. Moves(t, row)
    BY <2>2, <2>3 DEF Moves, Occupied
  <2>. QED
    BY <2>2, <2>4 DEF Orderly
<1>2. CASE task[t] # Head(todo)
  BY <1>2 DEF MarkInvalid, NoUpdate, Orderly
<1>. QED
  BY <1>1, <1>2

\* Every step of Scheduler is orderly.
LEMMA NextOrderly ==
    ASSUME ReadIsGood, [Next]_vars
    PROVE  Orderly
<1>. USE DEF Orderly
<1>1. CASE UNCHANGED task
  BY <1>1
<1>2. CASE Service
  <2>1. CASE ActUnknown
    <3>1. CASE at.state \in {"RECOVERING", "CANCEL_REQUESTED"}
      BY <2>1, <3>1 DEF ActUnknown, NoUpdate
    <3>2. CASE at.state \notin {"RECOVERING", "CANCEL_REQUESTED"}
      BY <2>1, <3>2, UpdateOrEndMoves DEF ActUnknown
    <3>. QED
      BY <3>1, <3>2
  <2>2. CASE ActRunning
    <3>1. CASE at.state \in {"RUNNING", "CANCEL_REQUESTED"}
      BY <2>2, <3>1 DEF ActRunning, NoUpdate
    <3>2. CASE at.state \notin {"RUNNING", "CANCEL_REQUESTED"}
      BY <2>2, <3>2, UpdateOrEndMoves DEF ActRunning
    <3>. QED
      BY <3>1, <3>2
  <2>3. CASE ActFinish
    BY <2>3, FinishMoves DEF ActFinish, ReadIsGood, ReadRows
  <2>4. ASSUME NEW t \in Tasks, MarkInvalid(t)
        PROVE  Orderly
    BY <2>4, MarkMoves DEF ReadIsGood
  <2>5. ASSUME NEW t \in Tasks, DispatchSkips(t)
        PROVE  Orderly
    <3>. DEFINE row == [task[t] EXCEPT !.state = "SKIPPED"]
    <3>1. row \in Row /\ row.id = t /\ row.state = "SKIPPED"
      BY DEF ReadIsGood, RowsTyped, Row, States, Terminal
    <3>2. Moves(t, row)
      BY <2>5, <3>1 DEF DispatchSkips, Update, Moves, Waiting, Occupied
    <3>. QED
      BY <3>1, <3>2
  <2>6. ASSUME NEW t \in Tasks, DispatchClaims(t)
        PROVE  Orderly
    <3>. DEFINE row == Claimed(task[t])
    <3>1. task[t] \in Row /\ task[t].id = t
      BY DEF ReadIsGood, RowsTyped
    <3>2. row \in Row /\ row.id = t
      <4>1. ASSUME NEW r \in Row, NEW n \in Nat
            PROVE  LET new == [r EXCEPT !.state = "STARTING", !.attempts = n]
                   IN new \in Row /\ new.id = r.id
        BY DEF Row, States, Occupied
      <4>2. \A r \in Row : r.attempts + 1 \in Nat
        BY DEF Row
      <4>. QED
        BY <3>1, <4>1, <4>2 DEF Claimed
    <3>3. Moves(t, row)
      BY <2>6, <3>2 DEF DispatchClaims, Ready, Update, Moves
    <3>. QED
      BY <3>2, <3>3
  <2>. QED
    BY <1>2, <2>1, <2>2, <2>3, <2>4, <2>5, <2>6
    DEF Service, ReconcilePasses, ReconcileAborts, ReconcileObserves,
        FinishAborts, Invalidate, InvalidateEnds,
        DispatchPasses, DispatchLaunches, TickEnds, users
<1>3. CASE DispatchFails
  <2>1. PICK state \in {"LOST", "FAILED"} : Finish(state, "dispatch", "undo")
    BY <1>3 DEF DispatchFails
  <2>2. at \in Row
    BY <1>3 DEF DispatchFails, ReadIsGood, ReadRows
  <2>. QED
    BY <2>1, <2>2, FinishMoves DEF Observations, ReadIsGood
<1>4. ASSUME NEW o \in Ops, User(o)
      PROVE  Orderly
  <2>1. CASE OperateInspects(o) \/ OperateAborts(o)
    BY <2>1 DEF OperateInspects, OperateAborts
  <2>2. CASE OperateResumes(o)
    <3>. DEFINE t == call[o].task
                row == [task[t] EXCEPT !.state = "QUEUED",
                                       !.operation = call[o].action]
    <3>1. call[o] \in CallRow /\ t \in Tasks /\ Eligible(t)
      BY <2>2 DEF OperateResumes, ReadIsGood, CallsEligible, CallRow
    <3>2. call[o].action \in Operations
      BY <2>2 DEF OperateResumes, Resumes, Operations
    <3>3. row \in Row /\ row.id = t /\ row.state = "QUEUED"
      <4>1. task[t] \in Row /\ task[t].id = t
        BY <3>1 DEF ReadIsGood, RowsTyped
      <4>2. ASSUME NEW r \in Row, NEW op \in Operations
            PROVE  LET new == [r EXCEPT !.state = "QUEUED", !.operation = op]
                   IN new \in Row /\ new.id = r.id /\ new.state = "QUEUED"
        BY DEF Row, States, Waiting
      <4>. QED
        BY <3>2, <4>1, <4>2
    <3>4. Moves(t, row)
      BY <2>2, <3>1, <3>3
      DEF OperateResumes, Update, Moves, Eligible, Occupied
    <3>. QED
      BY <3>1, <3>3, <3>4
  <2>3. ASSUME NEW t \in Tasks, OperateCancels(o, t)
        PROVE  Orderly
    <3>. DEFINE state == IF task[t].state \in Occupied THEN "CANCEL_REQUESTED"
                         ELSE IF task[t].state \in Terminal
                              THEN task[t].state
                         ELSE "CANCELLED"
                row == [task[t] EXCEPT !.state = state]
    <3>1. task[t] \in Row /\ task[t].id = t
      BY DEF ReadIsGood, RowsTyped
    <3>2. /\ state \in States
          /\ task[t].state \in Occupied => state = "CANCEL_REQUESTED"
          /\ task[t].state \notin Occupied => state \notin Occupied
      BY <3>1 DEF Row, States, Occupied, Terminal, Waiting
    <3>3. task' = [task EXCEPT ![t] = row]
      BY <2>3 DEF OperateCancels
    <3>. HIDE DEF state
    <3>4. row \in Row /\ row.id = t /\ row.state = state
      BY <3>1, <3>2 DEF Row
    <3>5. Moves(t, row)
      BY <3>2, <3>3, <3>4 DEF Moves, Occupied
    <3>. QED
      BY <3>4, <3>5
  <2>4. ASSUME NEW t \in Tasks, OperateReruns(o, t)
        PROVE  Orderly
    <3>. DEFINE row == [task[t] EXCEPT !.state = "QUEUED", !.run = @ + 1,
                                       !.operation = "start", !.valid = TRUE,
                                       !.converged = FALSE]
    <3>1. task[t] \in Row /\ task[t].id = t
      BY DEF ReadIsGood, RowsTyped
    <3>2. row \in Row /\ row.id = t /\ row.state = "QUEUED"
      <4>1. ASSUME NEW r \in Row, NEW n \in Nat
            PROVE  LET new == [r EXCEPT !.state = "QUEUED", !.run = n,
                                        !.operation = "start", !.valid = TRUE,
                                        !.converged = FALSE]
                   IN new \in Row /\ new.id = r.id /\ new.state = "QUEUED"
        BY DEF Row, States, Waiting, Operations
      <4>2. \A r \in Row : r.run + 1 \in Nat
        BY DEF Row
      <4>. QED
        BY <3>1, <4>1, <4>2
    <3>3. Moves(t, row)
      BY <2>4, <3>2 DEF OperateReruns, Update, Moves, Occupied
    <3>. QED
      BY <3>2, <3>3
  <2>. QED
    BY <1>4, <2>1, <2>2, <2>3, <2>4 DEF User
<1>. QED
  BY <1>1, <1>2, <1>3, <1>4
  DEF Next, vars, ServiceStarts, ServiceCrashes, Supervises, Executes, Breaks,
      others, Contaminates

(***************************************************************************)
(* What has been read stays good                                           *)
(***************************************************************************)

\* At the start nothing has been read and no user waits.
LEMMA InitIsGood ==
    Init => ReadIsGood
<1>. SUFFICES ASSUME Init PROVE ReadIsGood
  OBVIOUS
<1>1. \A t \in Tasks : NewTask(t) \in Row /\ NewTask(t).id = t
  BY DEF NewTask, Row, States, Waiting, Operations
<1>. QED
  BY <1>1 DEF Init, ReadIsGood, RowsTyped, ReadRows, CallsEligible

\* An orderly step leaves rows.
LEMMA RowsStep ==
    ASSUME RowsTyped, Orderly
    PROVE  RowsTyped'
<1>1. CASE task' = task
  BY <1>1 DEF RowsTyped
<1>2. ASSUME NEW t \in Tasks, NEW row \in Row, Moves(t, row)
      PROVE  RowsTyped'
  BY <1>2 DEF RowsTyped, Moves
<1>. QED
  BY <1>1, <1>2 DEF Orderly

\* The rows that a tick begins with.
LEMMA RowsAreRows ==
    ASSUME RowsTyped
    PROVE  Rows \in Seq(Row)
<1>1. Order \in Seq(Tasks)
  BY SchedulerAssumption
<1>2. DOMAIN Order = 1..Len(Order) /\ Len(Order) \in Nat
  BY <1>1
<1>3. Rows \in [1..Len(Order) -> Row]
  <2>1. \A i \in 1..Len(Order) : Order[i] \in Tasks
    BY <1>1
  <2>. QED
    BY <1>2, <2>1 DEF Rows, RowsTyped
<1>. QED
  BY <1>2, <1>3

\* What the service reads are rows, and the one it settles was occupied.
LEMMA ReadStep ==
    ASSUME ReadIsGood, [Next]_vars
    PROVE  ReadRows'
<1>. USE DEF ReadRows
<1>1. CASE UNCHANGED <<pc, todo, at, observed>>
  BY <1>1 DEF ReadIsGood
<1>2. CASE StartTick
  BY <1>2, RowsAreRows DEF StartTick, ReadIsGood
<1>3. CASE ServiceEnds
  BY <1>3 DEF ServiceEnds
<1>4. ASSUME NEW place \in {"reconcile", "dispatch"}, Continue(place),
             place = "reconcile" => pc \in {"act", "abort"}
      PROVE  ReadRows'
  BY <1>4 DEF Continue, ReadIsGood
<1>5. ASSUME NEW state, NEW abort \in {"abort", "undo"},
             NEW loop \in {"reconcile", "dispatch"},
             Finish(state, loop, abort),
             "reconcile" = loop => pc \in {"act", "abort"},
             "abort" = abort => pc \in {"act", "abort"}
      PROVE  ReadRows'
  BY <1>4, <1>5 DEF Finish, ReadIsGood
<1>6. CASE Service
  <2>1. CASE ReconcilePasses
    BY <2>1, HeadTailProperties DEF ReconcilePasses, ReadIsGood
  <2>2. CASE ReconcileAborts
    BY <2>2, <1>3, HeadTailProperties DEF ReconcileAborts, ReadIsGood
  <2>3. CASE ReconcileObserves
    BY <2>3, HeadTailProperties DEF ReconcileObserves, ReadIsGood
  <2>4. CASE ActUnknown
    BY <2>4, <1>3, <1>4 DEF ActUnknown, UpdateOrEnd
  <2>5. CASE ActRunning
    BY <2>5, <1>3, <1>4 DEF ActRunning, UpdateOrEnd
  <2>6. CASE ActFinish
    BY <2>6, <1>5 DEF ActFinish
  <2>7. CASE FinishAborts
    BY <2>7, <1>3, <1>4 DEF FinishAborts
  <2>8. CASE Invalidate \/ InvalidateEnds \/ DispatchPasses
    BY <2>8 DEF Invalidate, InvalidateEnds, DispatchPasses
  <2>9. ASSUME NEW t \in Tasks, MarkInvalid(t)
        PROVE  ReadRows'
    BY <2>9, <1>3 DEF MarkInvalid
  <2>10. ASSUME NEW t \in Tasks, DispatchSkips(t)
         PROVE  ReadRows'
    BY <2>10 DEF DispatchSkips
  <2>11. ASSUME NEW t \in Tasks, DispatchClaims(t)
         PROVE  ReadRows'
    <3>1. task[t] \in Row
      BY DEF ReadIsGood, RowsTyped
    <3>2. Claimed(task[t]) \in Row
      <4>1. ASSUME NEW r \in Row, NEW n \in Nat
            PROVE  [r EXCEPT !.state = "STARTING", !.attempts = n] \in Row
        BY DEF Row, States, Occupied
      <4>2. \A r \in Row : r.attempts + 1 \in Nat
        BY DEF Row
      <4>. QED
        BY <3>1, <4>1, <4>2 DEF Claimed
    <3>. QED
      BY <2>11, <3>2 DEF DispatchClaims
  <2>12. CASE DispatchLaunches
    BY <2>12, <1>4 DEF DispatchLaunches
  <2>13. CASE TickEnds
    BY <2>13, <1>2, <1>3 DEF TickEnds
  <2>. QED
    BY <1>6, <2>1, <2>2, <2>3, <2>4, <2>5, <2>6, <2>7, <2>8, <2>9, <2>10,
       <2>11, <2>12, <2>13 DEF Service
<1>7. CASE DispatchFails
  BY <1>7, <1>5 DEF DispatchFails
<1>8. CASE \E o \in Ops : User(o)
  BY <1>8, <1>1
  DEF User, OperateInspects, OperateResumes, OperateCancels, OperateAborts,
      OperateReruns, service
<1>. QED
  BY <1>1, <1>2, <1>3, <1>6, <1>7, <1>8
  DEF Next, vars, service, ServiceStarts, ServiceCrashes, Supervises,
      Executes, Breaks, others, Contaminates

\* Store.update leaves the operations that will find the row they have read.
LEMMA UpdateKeepsCalls ==
    ASSUME ReadIsGood, NEW row, Update(row)
    PROVE  CallsEligible'
<1>1. call' = Unaffected(row.id) /\ task' = [task EXCEPT ![row.id] = row]
  BY DEF Update
<1>2. call' \in [Ops -> CallRow \cup {NoCall}]
  BY <1>1 DEF Unaffected, ReadIsGood, CallsEligible
<1>3. ASSUME NEW o \in Ops, call'[o] # NoCall, call'[o].action \in Resumes
      PROVE  Eligible(call[o].task)'
  <2>1. call'[o] = call[o] /\ call[o].task # row.id
    BY <1>1, <1>3 DEF Unaffected
  <2>2. call[o].task \in Tasks /\ Eligible(call[o].task)
    BY <1>3, <2>1 DEF ReadIsGood, CallsEligible, CallRow
  <2>3. task'[call[o].task] = task[call[o].task]
    BY <1>1, <2>1, <2>2 DEF ReadIsGood, RowsTyped
  <2>. QED
    BY <2>1, <2>2, <2>3 DEF Eligible
<1>. QED
  BY <1>2, <1>3 DEF CallsEligible

\* An operation of a user keeps its task eligible or is dropped.
LEMMA CallsStep ==
    ASSUME ReadIsGood, [Next]_vars
    PROVE  CallsEligible'
<1>1. CASE NoUpdate
  BY <1>1 DEF NoUpdate, CallsEligible, Eligible, ReadIsGood
<1>2. CASE \E row : Update(row)
  BY <1>2, UpdateKeepsCalls
<1>3. CASE Service
  <2>1. CASE ActUnknown \/ ActRunning
    BY <2>1, <1>1, <1>2 DEF ActUnknown, ActRunning, UpdateOrEnd
  <2>2. CASE ActFinish
    BY <2>2, <1>2 DEF ActFinish, Finish
  <2>3. ASSUME NEW t \in Tasks,
               MarkInvalid(t) \/ DispatchSkips(t) \/ DispatchClaims(t)
        PROVE  CallsEligible'
    BY <2>3, <1>1, <1>2 DEF MarkInvalid, DispatchSkips, DispatchClaims
  <2>. QED
    BY <1>1, <1>3, <2>1, <2>2, <2>3
    DEF Service, NoUpdate, ReconcilePasses, ReconcileAborts,
        ReconcileObserves, FinishAborts, Invalidate,
        InvalidateEnds, DispatchPasses, DispatchLaunches, TickEnds, users
<1>4. CASE DispatchFails
  BY <1>4, <1>2 DEF DispatchFails, Finish
<1>5. ASSUME NEW o \in Ops, User(o)
      PROVE  CallsEligible'
  <2>1. CASE OperateInspects(o)
    <3>1. PICK t \in Tasks, action \in Resumes :
              /\ Eligible(t)
              /\ call' = [call EXCEPT ![o] = [task |-> t, action |-> action,
                                              run |-> task[t].run]]
      BY <2>1 DEF OperateInspects
    <3>2. [task |-> t, action |-> action, run |-> task[t].run] \in CallRow
      BY DEF CallRow, ReadIsGood, RowsTyped, Row
    <3>3. task' = task
      BY <2>1 DEF OperateInspects
    <3>. QED
      BY <3>1, <3>2, <3>3 DEF CallsEligible, Eligible, ReadIsGood
  <2>2. CASE OperateResumes(o)
    BY <2>2, <1>2 DEF OperateResumes
  <2>3. ASSUME NEW t \in Tasks, OperateCancels(o, t)
        PROVE  CallsEligible'
    <3>1. PICK state : task' = [task EXCEPT ![t].state = state]
                       /\ LET kept == IF task[t].state = state THEN call
                                      ELSE Unaffected(t)
                          IN call' = IF state # "CANCELLED" THEN kept
                                     ELSE [kept EXCEPT ![o] =
                                               [task |-> t,
                                                action |-> "cancel",
                                                run |-> task[t].run]]
      BY <2>3 DEF OperateCancels
    <3>. DEFINE kept == IF task[t].state = state THEN call ELSE Unaffected(t)
                cancel == [task |-> t, action |-> "cancel", run |-> task[t].run]
    <3>2. /\ kept \in [Ops -> CallRow \cup {NoCall}]
          /\ \A p \in Ops : kept[p] # NoCall /\ kept[p].action \in Resumes =>
                 task'[kept[p].task].state \in
                     {"FAILED", "PAUSED", "WAITING_INPUT"}
      <4>1. CASE task[t].state = state
        <5>1. \A u \in Tasks : task'[u].state = task[u].state
          BY <3>1, <4>1 DEF ReadIsGood, RowsTyped, Row
        <5>2. \A p \in Ops : call[p] # NoCall => call[p].task \in Tasks
          BY DEF ReadIsGood, CallsEligible, CallRow
        <5>. QED
          BY <4>1, <5>1, <5>2 DEF ReadIsGood, CallsEligible, Eligible
      <4>2. CASE task[t].state # state
        <5>1. \A u \in Tasks \ {t} : task'[u] = task[u]
          BY <3>1 DEF ReadIsGood, RowsTyped
        <5>2. \A p \in Ops :
                  Unaffected(t)[p] # NoCall
                      /\ Unaffected(t)[p].action \in Resumes =>
                  /\ Unaffected(t)[p] = call[p]
                  /\ call[p].task \in Tasks \ {t}
          BY DEF Unaffected, ReadIsGood, CallsEligible, CallRow
        <5>3. Unaffected(t) \in [Ops -> CallRow \cup {NoCall}]
          BY DEF Unaffected, ReadIsGood, CallsEligible
        <5>. QED
          BY <4>2, <5>1, <5>2, <5>3 DEF ReadIsGood, CallsEligible, Eligible
      <4>. QED
        BY <4>1, <4>2
    <3>3. cancel \in CallRow /\ cancel.action \notin Resumes
      BY DEF CallRow, Resumes, ReadIsGood, RowsTyped, Row
    <3>4. call' = IF state # "CANCELLED" THEN kept
                  ELSE [kept EXCEPT ![o] = cancel]
      BY <3>1
    <3>. HIDE DEF kept, cancel
    <3>. QED
      BY <3>2, <3>3, <3>4 DEF CallsEligible, Eligible
  <2>4. CASE OperateAborts(o)
    BY <2>4 DEF OperateAborts, CallsEligible, Eligible, ReadIsGood
  <2>5. ASSUME NEW t \in Tasks, OperateReruns(o, t)
        PROVE  CallsEligible'
    BY <2>5, <1>2 DEF OperateReruns
  <2>. QED
    BY <1>5, <2>1, <2>2, <2>3, <2>4, <2>5 DEF User
<1>. QED
  BY <1>1, <1>3, <1>4, <1>5
  DEF Next, vars, NoUpdate, users, ServiceStarts, ServiceCrashes, Supervises,
      Executes, Breaks, others, Contaminates

(***************************************************************************)
(* The theorems                                                            *)
(***************************************************************************)

\* What the service and its users have read stays good for what they do with
\* it (reconcile, invalidate and operate against Store.update).
THEOREM ReadsStayGood == Spec => []ReadIsGood
<1>1. Init => ReadIsGood
  BY InitIsGood
<1>2. ReadIsGood /\ [Next]_vars => ReadIsGood'
  <2>. SUFFICES ASSUME ReadIsGood, [Next]_vars PROVE ReadIsGood'
    OBVIOUS
  <2>1. RowsTyped'
    BY NextOrderly, RowsStep DEF ReadIsGood
  <2>. QED
    BY <2>1, ReadStep, CallsStep DEF ReadIsGood
<1>. QED
  BY <1>1, <1>2, PTL DEF Spec

\* A cancellation that was requested is final, whatever the service had read
\* before and whatever users and processes do (_finish).
THEOREM CancellationIsFinal == Spec => CancelWins
<1>1. ReadIsGood /\ [Next]_vars =>
          [\A t \in Tasks : task[t].state = "CANCEL_REQUESTED" =>
              task'[t].state \in {"CANCEL_REQUESTED", "CANCELLED"}]_vars
  <2>. SUFFICES ASSUME ReadIsGood, [Next]_vars,
                       NEW t \in Tasks, task[t].state = "CANCEL_REQUESTED"
                PROVE  task'[t].state \in {"CANCEL_REQUESTED", "CANCELLED"}
    OBVIOUS
  <2>1. CASE task' = task
    BY <2>1
  <2>2. ASSUME NEW u \in Tasks, NEW row \in Row, Moves(u, row)
        PROVE  task'[t].state \in {"CANCEL_REQUESTED", "CANCELLED"}
    BY <2>2 DEF Moves, ReadIsGood, RowsTyped, Waiting
  <2>. QED
    BY <2>1, <2>2, NextOrderly DEF Orderly
<1>. QED
  BY <1>1, ReadsStayGood, PTL DEF Spec, CancelWins

\* An element more.
LEMMA OneMore ==
    ASSUME NEW S, IsFiniteSet(S), NEW x
    PROVE  /\ IsFiniteSet(S \cup {x})
           /\ Cardinality(S \cup {x}) <= Cardinality(S) + 1
<1>1. Cardinality(S) \in Nat
  BY FS_CardinalityType
<1>2. /\ IsFiniteSet(S \cup {x})
      /\ Cardinality(S \cup {x}) = IF x \in S THEN Cardinality(S)
                                    ELSE Cardinality(S) + 1
  BY FS_AddElement
<1>. QED
  BY <1>1, <1>2

\* A claim keeps the limits it was checked against, and nothing else fills a
\* slot.
LEMMA LimitsStep ==
    ASSUME ReadIsGood, WithinLimits, [Next]_vars
    PROVE  WithinLimits'
<1>. SUFFICES ASSUME NEW l \in Limits
              PROVE  Cardinality(OccupiedTasks' \cap l.of) <= l.limit
  BY DEF WithinLimits
<1>1. l.limit \in Nat /\ IsFiniteSet(Tasks)
  BY SchedulerAssumption
<1>. DEFINE in == OccupiedTasks \cap l.of
            after == OccupiedTasks' \cap l.of
<1>2. in \subseteq Tasks /\ after \subseteq Tasks
  BY DEF OccupiedTasks
<1>3. IsFiniteSet(in) /\ Cardinality(in) \in Nat /\ Cardinality(in) <= l.limit
  BY <1>1, <1>2, FS_Subset, FS_CardinalityType DEF WithinLimits
<1>4. after \subseteq in => Cardinality(after) <= l.limit
  <2>. SUFFICES ASSUME after \subseteq in PROVE Cardinality(after) <= l.limit
    OBVIOUS
  <2>1. Cardinality(after) <= Cardinality(in) /\ Cardinality(after) \in Nat
    BY <1>3, FS_Subset, FS_CardinalityType
  <2>. QED
    BY <1>1, <1>3, <2>1
<1>5. CASE task' = task
  BY <1>4, <1>5 DEF OccupiedTasks
<1>6. ASSUME NEW t \in Tasks, NEW row \in Row, Moves(t, row)
      PROVE  Cardinality(after) <= l.limit
  <2>1. /\ task'[t] = row
        /\ \A u \in Tasks \ {t} : task'[u] = task[u]
    BY <1>6 DEF Moves, ReadIsGood, RowsTyped
  <2>2. OccupiedTasks' \subseteq OccupiedTasks \cup {t}
    BY <2>1 DEF OccupiedTasks
  <2>3. CASE t \in OccupiedTasks \/ t \notin OccupiedTasks'
    BY <1>4, <2>2, <2>3
  <2>4. CASE t \notin l.of
    BY <1>4, <2>2, <2>4
  <2>5. CASE Fits(t) /\ t \in l.of
    <3>1. Cardinality(in) < l.limit
      BY <2>5 DEF Fits
    <3>2. IsFiniteSet(in \cup {t}) /\ Cardinality(in \cup {t}) <= Cardinality(in) + 1
      BY <1>3, OneMore
    <3>3. Cardinality(after) <= Cardinality(in \cup {t})
          /\ IsFiniteSet(after)
      BY <2>2, <3>2, FS_Subset
    <3>4. Cardinality(after) \in Nat /\ Cardinality(in \cup {t}) \in Nat
      BY <3>2, <3>3, FS_CardinalityType
    <3>. QED
      BY <1>1, <1>3, <3>1, <3>2, <3>3, <3>4
  <2>6. t \in OccupiedTasks \/ t \notin OccupiedTasks' \/ Fits(t)
    BY <1>6, <2>1 DEF Moves, OccupiedTasks
  <2>. QED
    BY <2>3, <2>4, <2>5, <2>6
<1>. QED
  BY <1>5, <1>6, NextOrderly DEF Orderly

\* No limit is ever exceeded, for every set of tasks and limits (the
\* transaction in tick).
THEOREM LimitsHold == Spec => []WithinLimits
<1>1. Init => WithinLimits
  <2>. SUFFICES ASSUME Init, NEW l \in Limits
                PROVE  Cardinality(OccupiedTasks \cap l.of) <= l.limit
    BY DEF WithinLimits
  <2>1. OccupiedTasks \cap l.of = {}
    BY DEF Init, OccupiedTasks, NewTask, Occupied
  <2>. QED
    <3>1. l.limit \in Nat
      BY SchedulerAssumption
    <3>. QED
      BY <2>1, <3>1, FS_EmptySet
<1>2. ReadIsGood /\ WithinLimits /\ [Next]_vars => WithinLimits'
  BY LimitsStep
<1>. QED
  BY <1>1, <1>2, ReadsStayGood, PTL DEF Spec
-----------------------------------------------------------------------------
(***************************************************************************)
(* Every way in which a row changes                                        *)
(***************************************************************************)

\* The row keeps its run, attempts and operation.  It stays in its state, or
\* in the occupied ones, or a task that was not in flight ends for good.
RowStays(t) ==
    /\ task'[t] = [task[t] EXCEPT !.state = task'[t].state,
                                  !.valid = task'[t].valid]
    /\ \/ task'[t].state = task[t].state
       \/ task[t].state \in Occupied /\ task'[t].state \in Occupied
       \/ /\ task[t].state \notin Occupied \cup {"CANCELLED"}
          /\ task'[t].state \in {"FAILED", "CANCELLED", "SKIPPED"}

\* A waiting task is claimed, and the service is at its new row.
RowClaimed(t) ==
    /\ pc = "dispatch" /\ pc' = "launch"
    /\ task[t].state \in Waiting
    /\ task'[t] = Claimed(task[t]) /\ at' = task'[t]
    /\ UNCHANGED <<worker, run>>

\* A user goes on with the run of a task.
RowResumed(t) ==
    \E o \in Ops :
        /\ call[o] # NoCall /\ call[o].action \in Resumes /\ call[o].task = t
        /\ task'[t] = [task[t] EXCEPT !.state = "QUEUED",
                                      !.operation = call[o].action]
        /\ done' = done \cup {o}
        /\ UNCHANGED <<worker, run>>

\* A user has a task begin a new run.
RowRerun(t) ==
    \E o \in Ops \ done :
        /\ task[t].state \notin Occupied \cup Waiting
        /\ task'[t] = [task[t] EXCEPT !.state = "QUEUED", !.run = @ + 1,
                                      !.operation = "start", !.valid = TRUE,
                                      !.converged = FALSE]
        /\ done' = done \cup {o}
        /\ UNCHANGED <<worker, run>>

\* The attempt of the row at which the service is has ended.
RowEnded(t) ==
    \E state \in Observations \ {"UNKNOWN", "RUNNING"} :
        /\ at.id = t
        /\ \/ pc = "act" /\ state = observed /\ UNCHANGED worker
           \/ pc = "launch" /\ state \in {"LOST", "FAILED"}
        /\ task'[t] = Finished(at, state)
        /\ UNCHANGED run

RowMoves(t) ==
    \/ task'[t] = task[t] \/ RowStays(t) \/ RowClaimed(t) \/ RowResumed(t)
    \/ RowRerun(t) \/ RowEnded(t)

\* A row in the store after another was updated.
LEMMA OtherRows ==
    ASSUME RowsTyped, NEW u \in Tasks, NEW row,
           task' = [task EXCEPT ![u] = row], RowMoves(u)
    PROVE  \A t \in Tasks : RowMoves(t)
<1>1. \A t \in Tasks \ {u} : task'[t] = task[t]
  BY DEF RowsTyped
<1>. QED
  BY <1>1 DEF RowMoves

\* An update in reconcile changes the state of the row at most.
LEMMA UpdateOrEndStays ==
    ASSUME ReadIsGood, pc = "act",
           NEW state \in {"RUNNING", "RECOVERING"},
           UpdateOrEnd(at, [at EXCEPT !.state = state])
    PROVE  \A t \in Tasks : RowMoves(t)
<1>1. CASE task[at.id] = at
  <2>. DEFINE row == [at EXCEPT !.state = state]
  <2>1. at \in Row /\ at.state \in Occupied /\ at.id \in Tasks
    BY DEF ReadIsGood, ReadRows, Row
  <2>2. /\ row.id = at.id /\ row.state = state
        /\ row = [at EXCEPT !.state = row.state, !.valid = row.valid]
    BY <2>1 DEF Row
  <2>3. task' = [task EXCEPT ![at.id] = row]
    BY <1>1, <2>2 DEF UpdateOrEnd, Update
  <2>. HIDE DEF row
  <2>4. task'[at.id] = row
    BY <2>1, <2>3 DEF ReadIsGood, RowsTyped
  <2>5. RowStays(at.id)
    BY <1>1, <2>1, <2>2, <2>4 DEF RowStays, Occupied
  <2>. QED
    BY <2>1, <2>3, <2>5, OtherRows DEF RowMoves, ReadIsGood
<1>2. CASE task[at.id] # at
  BY <1>2 DEF UpdateOrEnd, NoUpdate, RowMoves
<1>. QED
  BY <1>1, <1>2

\* The end of an attempt changes the row at which the service is.
LEMMA FinishEnds ==
    ASSUME ReadIsGood, at \in Row,
           NEW state \in Observations \ {"UNKNOWN", "RUNNING"},
           \/ pc = "act" /\ state = observed /\ UNCHANGED worker
           \/ pc = "launch" /\ state \in {"LOST", "FAILED"},
           UNCHANGED run,
           NEW loop, NEW abort, Finish(state, loop, abort)
    PROVE  \A t \in Tasks : RowMoves(t)
<1>. DEFINE row == Finished(at, state)
<1>1. at.id \in Tasks /\ row.id = at.id
  BY FinishedRow DEF ReadIsGood, Row
<1>2. task' = [task EXCEPT ![at.id] = row]
  BY <1>1 DEF Finish, Update
<1>3. task'[at.id] = row
  BY <1>1, <1>2 DEF ReadIsGood, RowsTyped
<1>4. RowEnded(at.id)
  BY <1>3 DEF RowEnded
<1>. HIDE DEF row
<1>. QED
  BY <1>1, <1>2, <1>4, OtherRows DEF RowMoves, ReadIsGood

\* A row found contaminated keeps its run and its attempts.
LEMMA MarkStays ==
    ASSUME ReadIsGood, NEW u \in Tasks, MarkInvalid(u)
    PROVE  \A t \in Tasks : RowMoves(t)
<1>1. CASE task[u] = Head(todo)
  <2>. DEFINE state == CASE task[u].state \in Occupied -> "CANCEL_REQUESTED"
                        [] task[u].state \in Waiting \cup {"PAUSED", "WAITING_INPUT"}
                               -> "FAILED"
                        [] OTHER -> task[u].state
              row == [task[u] EXCEPT !.valid = FALSE, !.state = state]
  <2>1. task[u] \in Row /\ task[u].id = u
    BY DEF ReadIsGood, RowsTyped
  <2>2. \/ state = task[u].state
        \/ task[u].state \in Occupied /\ state \in Occupied
        \/ task[u].state \notin Occupied \cup {"CANCELLED"} /\ state = "FAILED"
    BY <2>1 DEF Row, States, Occupied, Terminal, Waiting
  <2>. HIDE DEF state
  <2>3. /\ row.id = u /\ row.state = state
        /\ row = [task[u] EXCEPT !.state = row.state, !.valid = row.valid]
    BY <2>1 DEF Row
  <2>4. Invalidated(task[u]) = row
    BY DEF Invalidated, state
  <2>5. task' = [task EXCEPT ![u] = row]
    BY <1>1, <2>3, <2>4 DEF MarkInvalid, Update
  <2>. HIDE DEF row
  <2>6. task'[u] = row
    BY <2>5 DEF ReadIsGood, RowsTyped
  <2>7. RowStays(u)
    BY <2>2, <2>3, <2>6 DEF RowStays
  <2>. QED
    BY <2>5, <2>7, OtherRows DEF RowMoves, ReadIsGood
<1>2. CASE task[u] # Head(todo)
  BY <1>2 DEF MarkInvalid, NoUpdate, RowMoves
<1>. QED
  BY <1>1, <1>2

\* A cancellation of an occupied task waits for the service.
LEMMA CancelStays ==
    ASSUME ReadIsGood, NEW o \in Ops, NEW u \in Tasks, OperateCancels(o, u)
    PROVE  \A t \in Tasks : RowMoves(t)
<1>. DEFINE state == IF task[u].state \in Occupied THEN "CANCEL_REQUESTED"
                     ELSE IF task[u].state \in Terminal THEN task[u].state
                     ELSE "CANCELLED"
            row == [task[u] EXCEPT !.state = state]
<1>1. task[u] \in Row /\ task[u].id = u
  BY DEF ReadIsGood, RowsTyped
<1>2. \/ state = task[u].state
      \/ task[u].state \in Occupied /\ state \in Occupied
      \/ task[u].state \notin Occupied \cup {"CANCELLED"} /\ state = "CANCELLED"
  BY <1>1 DEF Row, States, Occupied, Terminal, Waiting
<1>3. task' = [task EXCEPT ![u].state = state]
  BY DEF OperateCancels
<1>. HIDE DEF state
<1>4. task' = [task EXCEPT ![u] = row]
  BY <1>3
<1>5. /\ row.state = state
      /\ row = [task[u] EXCEPT !.state = row.state, !.valid = row.valid]
  BY <1>1 DEF Row
<1>. HIDE DEF row
<1>6. task'[u] = row
  BY <1>4 DEF ReadIsGood, RowsTyped
<1>7. RowStays(u)
  BY <1>2, <1>5, <1>6 DEF RowStays
<1>. QED
  BY <1>4, <1>7, OtherRows DEF RowMoves, ReadIsGood

\* Every step changes every row in one of these ways.
LEMMA NextRows ==
    ASSUME ReadIsGood, [Next]_vars
    PROVE  \A t \in Tasks : RowMoves(t)
<1>1. CASE UNCHANGED task
  BY <1>1 DEF RowMoves
<1>2. CASE Service
  <2>1. CASE ActUnknown
    <3>1. CASE at.state \in {"RECOVERING", "CANCEL_REQUESTED"}
      BY <1>1, <2>1, <3>1 DEF ActUnknown, NoUpdate
    <3>2. CASE at.state \notin {"RECOVERING", "CANCEL_REQUESTED"}
      BY <2>1, <3>2, UpdateOrEndStays DEF ActUnknown
    <3>. QED
      BY <3>1, <3>2
  <2>2. CASE ActRunning
    <3>1. CASE at.state \in {"RUNNING", "CANCEL_REQUESTED"}
      BY <1>1, <2>2, <3>1 DEF ActRunning, NoUpdate
    <3>2. CASE at.state \notin {"RUNNING", "CANCEL_REQUESTED"}
      BY <2>2, <3>2, UpdateOrEndStays DEF ActRunning
    <3>. QED
      BY <3>1, <3>2
  <2>3. CASE ActFinish
    BY <2>3, FinishEnds DEF ActFinish, ReadIsGood, ReadRows
  <2>4. ASSUME NEW u \in Tasks, MarkInvalid(u)
        PROVE  \A t \in Tasks : RowMoves(t)
    BY <2>4, MarkStays
  <2>5. ASSUME NEW u \in Tasks, DispatchSkips(u)
        PROVE  \A t \in Tasks : RowMoves(t)
    <3>. DEFINE row == [task[u] EXCEPT !.state = "SKIPPED"]
    <3>1. task[u] \in Row /\ task[u].id = u
      BY DEF ReadIsGood, RowsTyped
    <3>2. /\ row.id = u /\ row.state = "SKIPPED"
          /\ row = [task[u] EXCEPT !.state = row.state, !.valid = row.valid]
      BY <3>1 DEF Row
    <3>3. task' = [task EXCEPT ![u] = row]
      BY <2>5, <3>2 DEF DispatchSkips, Update
    <3>. HIDE DEF row
    <3>4. task'[u] = row
      BY <3>3 DEF ReadIsGood, RowsTyped
    <3>5. RowStays(u)
      BY <2>5, <3>2, <3>4 DEF DispatchSkips, RowStays, Waiting, Occupied
    <3>. QED
      BY <3>3, <3>5, OtherRows DEF RowMoves, ReadIsGood
  <2>6. ASSUME NEW u \in Tasks, DispatchClaims(u)
        PROVE  \A t \in Tasks : RowMoves(t)
    <3>. DEFINE row == Claimed(task[u])
    <3>1. row.id = u
      BY DEF ReadIsGood, RowsTyped, Row, Claimed
    <3>2. task' = [task EXCEPT ![u] = row] /\ at' = row
      BY <2>6, <3>1 DEF DispatchClaims, Update
    <3>. HIDE DEF row
    <3>3. task'[u] = row
      BY <3>2 DEF ReadIsGood, RowsTyped
    <3>4. RowClaimed(u)
      BY <2>6, <3>2, <3>3 DEF DispatchClaims, Ready, RowClaimed, row
    <3>. QED
      BY <3>2, <3>4, OtherRows DEF RowMoves, ReadIsGood
  <2>. QED
    BY <1>1, <1>2, <2>1, <2>2, <2>3, <2>4, <2>5, <2>6
    DEF Service, ReconcilePasses, ReconcileAborts, ReconcileObserves,
        FinishAborts, Invalidate, InvalidateEnds,
        DispatchPasses, DispatchLaunches, TickEnds, users
<1>3. CASE DispatchFails
  <2>1. PICK state \in {"LOST", "FAILED"} : Finish(state, "dispatch", "undo")
    BY <1>3 DEF DispatchFails
  <2>2. at \in Row /\ pc = "launch" /\ UNCHANGED run
    BY <1>3 DEF DispatchFails, ReadIsGood, ReadRows
  <2>3. state \in Observations \ {"UNKNOWN", "RUNNING"}
    BY DEF Observations
  <2>. QED
    BY <2>1, <2>2, <2>3, FinishEnds
<1>4. ASSUME NEW o \in Ops, User(o)
      PROVE  \A t \in Tasks : RowMoves(t)
  <2>1. CASE OperateInspects(o) \/ OperateAborts(o)
    BY <1>1, <2>1 DEF OperateInspects, OperateAborts
  <2>2. CASE OperateResumes(o)
    <3>. DEFINE u == call[o].task
                row == [task[u] EXCEPT !.state = "QUEUED",
                                       !.operation = call[o].action]
    <3>1. u \in Tasks
      BY <2>2 DEF OperateResumes, ReadIsGood, CallsEligible, CallRow
    <3>2. row.id = u
      BY <3>1 DEF ReadIsGood, RowsTyped, Row
    <3>3. task' = [task EXCEPT ![u] = row]
      BY <2>2, <3>2 DEF OperateResumes, Update
    <3>4. task'[u] = row
      BY <3>1, <3>3 DEF ReadIsGood, RowsTyped
    <3>5. RowResumed(u)
      BY <2>2, <3>4 DEF OperateResumes, RowResumed
    <3>. HIDE DEF row, u
    <3>. QED
      BY <3>1, <3>3, <3>5, OtherRows DEF RowMoves, ReadIsGood
  <2>3. ASSUME NEW u \in Tasks, OperateCancels(o, u)
        PROVE  \A t \in Tasks : RowMoves(t)
    BY <2>3, CancelStays
  <2>4. ASSUME NEW u \in Tasks, OperateReruns(o, u)
        PROVE  \A t \in Tasks : RowMoves(t)
    <3>. DEFINE row == [task[u] EXCEPT !.state = "QUEUED", !.run = @ + 1,
                                       !.operation = "start", !.valid = TRUE,
                                       !.converged = FALSE]
    <3>1. row.id = u
      BY DEF ReadIsGood, RowsTyped, Row
    <3>2. task' = [task EXCEPT ![u] = row]
      BY <2>4, <3>1 DEF OperateReruns, Update
    <3>3. task'[u] = row
      BY <3>2 DEF ReadIsGood, RowsTyped
    <3>4. RowRerun(u)
      BY <2>4, <3>3 DEF OperateReruns, RowRerun
    <3>. HIDE DEF row
    <3>. QED
      BY <3>2, <3>4, OtherRows DEF RowMoves, ReadIsGood
  <2>. QED
    BY <1>4, <2>1, <2>2, <2>3, <2>4 DEF User
<1>. QED
  BY <1>1, <1>2, <1>3, <1>4
  DEF Next, vars, ServiceStarts, ServiceCrashes, Supervises, Executes, Breaks,
      others, Contaminates

\* The end of an attempt keeps its run; a task that waits again has been
\* given a recovery, and no other outcome is made up but a failure or a
\* cancellation.
LEMMA FinishedKeeps ==
    ASSUME RowsTyped, at \in Row, SameRow(at),
           NEW state \in Observations \ {"UNKNOWN", "RUNNING"}
    PROVE  LET old == task[at.id]
               new == Finished(at, state)
           IN  /\ new.run = old.run /\ new.attempts = old.attempts
               /\ new.state \in {"RETRY_WAIT", "CANCELLED", "FAILED", state}
               /\ new.state # "LOST"
               /\ \/ /\ new.state # "RETRY_WAIT"
                     /\ new.auto = old.auto /\ new.operation = old.operation
                  \/ /\ old.auto < MaxAuto /\ new.auto = old.auto + 1
                     /\ new.state \in {"RETRY_WAIT", "CANCELLED"}
                     /\ new.operation \in Recovery(at)
<1>. DEFINE recovery == IF state = "LOST" /\ at.state # "CANCEL_REQUESTED"
                        THEN Recovery(at) ELSE {}
            final == IF Cancelled(at) THEN "CANCELLED"
                     ELSE IF recovery # {} THEN "RETRY_WAIT"
                     ELSE IF state = "LOST" THEN "FAILED" ELSE state
            converged == /\ state = "COMPLETED"
                         /\ run[RunDir(at)].saved = "CONVERGED"
            old == task[at.id]
            ended == [old EXCEPT !.state = final, !.converged = converged]
            operation == CHOOSE op \in recovery : TRUE
            again == [ended EXCEPT !.auto = @ + 1, !.operation = operation]
<1>1. Finished(at, state) = IF recovery = {} THEN ended ELSE again
  BY DEF Finished
<1>2. old \in Row /\ old.auto = at.auto
  BY DEF RowsTyped, SameRow, Row
<1>3. /\ final \in {"RETRY_WAIT", "CANCELLED", "FAILED", state}
      /\ final # "LOST"
      /\ recovery = {} => final # "RETRY_WAIT"
      /\ recovery # {} => final \in {"RETRY_WAIT", "CANCELLED"}
  BY DEF Observations
<1>4. recovery # {} => operation \in Recovery(at) /\ old.auto < MaxAuto
  <2>1. recovery # {} => operation \in recovery
    OBVIOUS
  <2>2. ASSUME recovery # {} PROVE old.auto < MaxAuto
    <3>1. ~(at.auto >= MaxAuto)
      BY <2>2 DEF Recovery
    <3>2. at.auto \in Nat /\ MaxAuto \in Nat
      BY SchedulerAssumption DEF Row
    <3>. QED
      BY <1>2, <3>1, <3>2
  <2>. QED
    BY <2>1, <2>2
<1>. HIDE DEF final, converged, recovery, operation
<1>5. /\ ended.run = old.run /\ ended.attempts = old.attempts
      /\ ended.state = final /\ ended.auto = old.auto
      /\ ended.operation = old.operation
  BY <1>2 DEF Row
<1>6. /\ again.run = old.run /\ again.attempts = old.attempts
      /\ again.state = final /\ again.auto = old.auto + 1
      /\ again.operation = operation
  BY <1>2 DEF Row
<1>. HIDE DEF ended, again
<1>. QED
  BY <1>1, <1>3, <1>4, <1>5, <1>6

(***************************************************************************)
(* What was read stays current                                             *)
(***************************************************************************)

\* An update leaves the rows of other tasks alone.
LEMMA UpdateOthers ==
    ASSUME RowsTyped, NEW row, Update(row), NEW t \in Tasks, t # row.id
    PROVE  task'[t] = task[t]
  BY DEF RowsTyped, Update

\* A user changes an occupied row only to have it cancelled.
LEMMA UsersOnlyCancel ==
    ASSUME ReadIsGood, NEW o \in Ops, User(o),
           NEW t \in Tasks, task[t].state \in Occupied
    PROVE  \/ task'[t] = task[t]
           \/ task'[t] = [task[t] EXCEPT !.state = "CANCEL_REQUESTED"]
<1>1. CASE OperateInspects(o) \/ OperateAborts(o)
  BY <1>1 DEF OperateInspects, OperateAborts
<1>2. CASE OperateResumes(o)
  <2>. DEFINE u == call[o].task
  <2>1. u \in Tasks /\ u # t
    BY <1>2 DEF OperateResumes, ReadIsGood, CallsEligible, CallRow, Eligible,
       Occupied
  <2>. DEFINE row == [task[u] EXCEPT !.state = "QUEUED",
                                     !.operation = call[o].action]
  <2>2. row.id = u
    BY <2>1 DEF ReadIsGood, RowsTyped, Row
  <2>3. Update(row)
    BY <1>2 DEF OperateResumes
  <2>. HIDE DEF row
  <2>. QED
    BY <2>1, <2>2, <2>3, UpdateOthers DEF ReadIsGood
<1>3. ASSUME NEW u \in Tasks, OperateCancels(o, u)
      PROVE  \/ task'[t] = task[t]
             \/ task'[t] = [task[t] EXCEPT !.state = "CANCEL_REQUESTED"]
  BY <1>3 DEF OperateCancels, ReadIsGood, RowsTyped
<1>4. ASSUME NEW u \in Tasks, OperateReruns(o, u)
      PROVE  task'[t] = task[t]
  <2>1. u # t
    BY <1>4 DEF OperateReruns
  <2>. DEFINE row == [task[u] EXCEPT !.state = "QUEUED", !.run = @ + 1,
                                     !.operation = "start", !.valid = TRUE,
                                     !.converged = FALSE]
  <2>2. row.id = u
    BY DEF ReadIsGood, RowsTyped, Row
  <2>3. Update(row)
    BY <1>4 DEF OperateReruns
  <2>. HIDE DEF row
  <2>. QED
    BY <2>1, <2>2, <2>3, UpdateOthers DEF ReadIsGood
<1>. QED
  BY <1>1, <1>2, <1>3, <1>4 DEF User

\* What is left of the rows of a tick was among them.
LEMMA TailRows ==
    ASSUME todo # <<>>, todo \in Seq(Row),
           \A i, j \in DOMAIN todo : todo[i].id = todo[j].id => i = j
    PROVE  /\ Tail(todo) \in Seq(Row)
           /\ Head(todo) = todo[1] /\ 1 \in DOMAIN todo /\ Head(todo) \in Row
           /\ \A i \in DOMAIN Tail(todo) :
                 /\ i \in Nat
                 /\ i + 1 \in DOMAIN todo
                 /\ Tail(todo)[i] = todo[i + 1]
                 /\ Tail(todo)[i].id # Head(todo).id
           /\ \A i, j \in DOMAIN Tail(todo) :
                 Tail(todo)[i].id = Tail(todo)[j].id => i = j
<1>1. /\ Len(todo) \in Nat /\ Len(todo) > 0
      /\ DOMAIN todo = 1..Len(todo)
      /\ Tail(todo) \in Seq(Row) /\ Len(Tail(todo)) = Len(todo) - 1
      /\ Head(todo) = todo[1] /\ Head(todo) \in Row
      /\ DOMAIN Tail(todo) = 1..(Len(todo) - 1)
      /\ \A i \in 1..(Len(todo) - 1) : Tail(todo)[i] = todo[i + 1]
  BY HeadTailProperties
<1>2. \A i \in DOMAIN Tail(todo) :
          i \in Nat /\ i + 1 \in DOMAIN todo /\ i + 1 # 1
  BY <1>1
<1>3. 1 \in DOMAIN todo
  BY <1>1
<1>4. \A i \in DOMAIN Tail(todo) : Tail(todo)[i].id # Head(todo).id
  BY <1>1, <1>2, <1>3
<1>5. ASSUME NEW i \in DOMAIN Tail(todo), NEW j \in DOMAIN Tail(todo),
             Tail(todo)[i].id = Tail(todo)[j].id
      PROVE  i = j
  <2>1. i + 1 = j + 1
    BY <1>1, <1>2, <1>5
  <2>. QED
    BY <1>2, <2>1
<1>. QED
  BY <1>1, <1>2, <1>3, <1>4, <1>5

\* Rows that are still to come do not depend on the row of another task.
LEMMA OthersCurrent ==
    ASSUME ReadIsGood, ReadsCurrent, pc = "act",
           NEW row, task' = [task EXCEPT ![at.id] = row],
           UNCHANGED todo
    PROVE  /\ \A i \in DOMAIN todo :
                 todo[i].state \in Occupied => SameRow(todo[i])'
           /\ \A i, j \in DOMAIN todo : todo[i].id = todo[j].id => i = j
<1>1. \A i \in DOMAIN todo : todo[i].id # at.id /\ todo[i].id \in Tasks
  <2>1. todo \in Seq(Row)
    BY DEF ReadIsGood, ReadRows
  <2>2. \A i \in DOMAIN todo : todo[i] \in Row
    BY <2>1
  <2>. QED
    BY <2>2 DEF ReadsCurrent, Row
<1>2. \A i \in DOMAIN todo : task'[todo[i].id] = task[todo[i].id]
  BY <1>1 DEF ReadIsGood, RowsTyped
<1>. QED
  BY <1>2 DEF ReadsCurrent, SameRow

\* A step after which the service has read nothing of rows.
Forgets == pc' \notin {"reconcile", "act", "abort", "launch"}

\* Each step of the service keeps what it has read current.
LEMMA ServiceCurrent ==
    ASSUME ReadIsGood, ReadsCurrent, Service \/ ServiceStarts \/ DispatchFails
    PROVE  ReadsCurrent'
<1>1. CASE Forgets
  BY <1>1 DEF Forgets, ReadsCurrent
<1>2. CASE ServiceEnds
  BY <1>1, <1>2 DEF ServiceEnds, Forgets
<1>3. ASSUME StartTick, task' = task PROVE ReadsCurrent'
  <2>1. todo' = Rows /\ pc' = "reconcile"
    BY <1>3 DEF StartTick
  <2>2. DOMAIN Rows = DOMAIN Order /\ \A i \in DOMAIN Order : Order[i] \in Tasks
    BY SchedulerAssumption DEF Rows
  <2>3. \A i \in DOMAIN Order : Rows[i] = task[Order[i]] /\ Rows[i].id = Order[i]
    BY <2>2 DEF Rows, ReadIsGood, RowsTyped
  <2>4. \A i, j \in DOMAIN Rows : Rows[i].id = Rows[j].id => i = j
    BY <2>2, <2>3, SchedulerAssumption
  <2>. QED
    BY <1>3, <2>1, <2>2, <2>3, <2>4 DEF ReadsCurrent, SameRow
<1>4. ASSUME todo # <<>>, pc = "reconcile", todo' = Tail(todo),
             task' = task, pc' = "reconcile"
      PROVE  ReadsCurrent'
  <2>1. todo \in Seq(Row)
    BY <1>4 DEF ReadIsGood, ReadRows
  <2>. QED
    BY <1>4, <2>1, TailRows DEF ReadsCurrent, SameRow
<1>5. CASE ReconcilePasses
  BY <1>4, <1>5 DEF ReconcilePasses
<1>6. CASE ReconcileAborts
  BY <1>2, <1>4, <1>6 DEF ReconcileAborts
<1>7. CASE ReconcileObserves
  <2>1. todo \in Seq(Row)
    BY <1>7 DEF ReconcileObserves, ReadIsGood, ReadRows
  <2>2. SameRow(Head(todo)) /\ Head(todo).state \in Occupied
    BY <1>7, <2>1, TailRows DEF ReconcileObserves, ReadsCurrent
  <2>. QED
    BY <1>7, <2>1, <2>2, TailRows DEF ReconcileObserves, ReadsCurrent, SameRow
<1>8. ASSUME pc = "act", task' = task, Continue("reconcile")
      PROVE  ReadsCurrent'
  BY <1>8 DEF Continue, ReadsCurrent, SameRow
<1>9. ASSUME pc = "act", NEW row, task' = [task EXCEPT ![at.id] = row],
             UNCHANGED todo, pc' \in {"reconcile", "abort"}
      PROVE  ReadsCurrent'
  BY <1>9, OthersCurrent DEF ReadsCurrent
<1>10. ASSUME NEW state \in {"RUNNING", "RECOVERING"}, pc = "act",
              UpdateOrEnd(at, [at EXCEPT !.state = state])
       PROVE  ReadsCurrent'
  <2>1. at \in Row
    BY <1>10 DEF ReadIsGood, ReadRows
  <2>2. [at EXCEPT !.state = state].id = at.id
    BY <2>1 DEF Row
  <2>. QED
    BY <1>2, <1>9, <1>10, <2>2 DEF UpdateOrEnd, Update, Continue
<1>11. CASE ActUnknown
  BY <1>8, <1>10, <1>11 DEF ActUnknown, NoUpdate
<1>12. CASE ActRunning
  BY <1>8, <1>10, <1>12 DEF ActRunning, NoUpdate
<1>13. CASE ActFinish
  <2>1. Finished(at, observed).id = at.id
    BY <1>13, FinishedRow DEF ActFinish, ReadIsGood, ReadRows
  <2>. QED
    BY <1>9, <1>13, <2>1 DEF ActFinish, Finish, Update, Continue
<1>14. CASE FinishAborts
  <2>1. CASE ServiceEnds
    BY <1>2, <2>1
  <2>2. ASSUME pc = "abort", Continue("reconcile"), task' = task
        PROVE  ReadsCurrent'
    BY <2>2 DEF Continue, ReadsCurrent, SameRow
  <2>3. ASSUME Continue("dispatch")
        PROVE  ReadsCurrent'
    BY <1>1, <2>3 DEF Continue, Forgets
  <2>. QED
    BY <1>14, <2>1, <2>2, <2>3 DEF FinishAborts
<1>15. CASE Invalidate \/ InvalidateEnds \/ DispatchPasses
  BY <1>1, <1>15 DEF Invalidate, InvalidateEnds, DispatchPasses, Forgets
<1>16. ASSUME NEW t \in Tasks, MarkInvalid(t)
       PROVE  ReadsCurrent'
  BY <1>1, <1>2, <1>16 DEF MarkInvalid, Forgets
<1>17. ASSUME NEW t \in Tasks, DispatchSkips(t)
       PROVE  ReadsCurrent'
  BY <1>1, <1>17 DEF DispatchSkips, Forgets
<1>18. ASSUME NEW t \in Tasks, DispatchClaims(t)
       PROVE  ReadsCurrent'
  <2>. DEFINE row == Claimed(task[t])
  <2>1. row.id = t /\ row.state = "STARTING"
    BY DEF ReadIsGood, RowsTyped, Row, Claimed
  <2>2. task' = [task EXCEPT ![t] = row] /\ at' = row /\ pc' = "launch"
    BY <1>18, <2>1 DEF DispatchClaims, Update
  <2>. HIDE DEF row
  <2>3. task'[t] = row
    BY <2>2 DEF ReadIsGood, RowsTyped
  <2>. QED
    BY <2>1, <2>2, <2>3 DEF ReadsCurrent, SameRow, Occupied
<1>19. CASE DispatchLaunches
  BY <1>1, <1>19 DEF DispatchLaunches, Continue, Forgets
<1>20. CASE TickEnds
  BY <1>2, <1>3, <1>20 DEF TickEnds
<1>21. CASE ServiceStarts
  BY <1>3, <1>21 DEF ServiceStarts
<1>22. CASE DispatchFails
  BY <1>1, <1>22 DEF DispatchFails, Finish, Continue, Forgets
<1>. QED
  BY <1>5, <1>6, <1>7, <1>11, <1>12, <1>13, <1>14, <1>15, <1>16, <1>17, <1>18,
     <1>19, <1>20, <1>21, <1>22 DEF Service

\* Every step keeps what the service has read current.
LEMMA CurrentStep ==
    ASSUME ReadIsGood, ReadsCurrent, [Next]_vars
    PROVE  ReadsCurrent'
<1>1. CASE UNCHANGED <<task, service>>
  BY <1>1 DEF ReadsCurrent, SameRow, service
<1>2. CASE ServiceCrashes
  BY <1>2 DEF ServiceCrashes, ServiceEnds, ReadsCurrent
<1>3. ASSUME NEW o \in Ops, User(o)
      PROVE  ReadsCurrent'
  <2>1. UNCHANGED service
    BY <1>3 DEF User, OperateInspects, OperateResumes, OperateCancels,
       OperateAborts, OperateReruns
  <2>2. ASSUME NEW row \in Row, row.state \in Occupied, SameRow(row)
        PROVE  SameRow(row)'
    <3>1. row.id \in Tasks /\ task[row.id].state \in Occupied
      BY <2>2 DEF SameRow, Row, Occupied
    <3>2. \/ task'[row.id] = task[row.id]
          \/ task'[row.id] = [task[row.id] EXCEPT !.state = "CANCEL_REQUESTED"]
      BY <1>3, <3>1, UsersOnlyCancel
    <3>3. CASE task[row.id] = row
      BY <3>2, <3>3 DEF SameRow
    <3>4. CASE task[row.id] = [row EXCEPT !.state = "CANCEL_REQUESTED"]
      <4>1. [task[row.id] EXCEPT !.state = "CANCEL_REQUESTED"] = task[row.id]
        BY <2>2, <3>4 DEF Row
      <4>. QED
        BY <3>2, <3>4, <4>1 DEF SameRow
    <3>. QED
      BY <2>2, <3>3, <3>4 DEF SameRow
  <2>3. pc \in {"reconcile", "act", "abort"} =>
            \A i \in DOMAIN todo : todo[i] \in Row
    <3>1. pc \in {"reconcile", "act", "abort"} => todo \in Seq(Row)
      BY DEF ReadIsGood, ReadRows
    <3>. QED
      BY <3>1
  <2>4. pc \in {"act", "launch"} => at \in Row
    BY DEF ReadIsGood, ReadRows
  <2>. QED
    BY <2>1, <2>2, <2>3, <2>4 DEF ReadsCurrent, service
<1>. QED
  BY <1>1, <1>2, <1>3, ServiceCurrent
  DEF Next, vars, Supervises, Executes, Breaks, others, Contaminates

(***************************************************************************)
(* Attempts are counted                                                    *)
(***************************************************************************)

\* Operations are recorded one by one.
LEMMA DoneGrows ==
    ASSUME RowsCounted, [Next]_vars
    PROVE  done' = done \/ \E o \in Ops \ done : done' = done \cup {o}
<1>1. CASE \E o \in Ops : User(o)
  <2>1. ASSUME NEW o \in Ops, OperateResumes(o)
        PROVE  o \notin done /\ done' = done \cup {o}
    BY <2>1 DEF OperateResumes, RowsCounted
  <2>. QED
    BY <1>1, <2>1
    DEF User, OperateInspects, OperateCancels, OperateAborts, OperateReruns
<1>2. CASE ~\E o \in Ops : User(o)
  BY <1>2
  DEF Next, vars, users, others, ServiceStarts, Service, DispatchFails,
      ServiceCrashes, Supervises, Executes, Breaks, Contaminates,
      ReconcilePasses, ReconcileAborts, ReconcileObserves, ActUnknown,
      ActRunning, ActFinish, FinishAborts, Invalidate, InvalidateEnds,
      DispatchPasses, MarkInvalid, DispatchSkips, DispatchClaims,
      DispatchLaunches, TickEnds
<1>. QED
  BY <1>1, <1>2

\* How many they are.
LEMMA DoneCounted ==
    ASSUME RowsCounted, [Next]_vars
    PROVE  /\ done' \subseteq Ops
           /\ Cardinality(done) \in Nat /\ Cardinality(done') \in Nat
           /\ Cardinality(done) <= Cardinality(done')
           /\ \A o \in Ops \ done : done' = done \cup {o} =>
                  Cardinality(done') = Cardinality(done) + 1
<1>1. done \subseteq Ops /\ IsFiniteSet(Ops)
  BY SchedulerAssumption DEF RowsCounted
<1>2. IsFiniteSet(done) /\ Cardinality(done) \in Nat
  BY <1>1, FS_Subset, FS_CardinalityType
<1>3. ASSUME NEW o \in Ops \ done, done' = done \cup {o}
      PROVE  Cardinality(done') = Cardinality(done) + 1
  BY <1>2, <1>3, FS_AddElement
<1>. QED
  BY <1>1, <1>2, <1>3, DoneGrows

\* A user's operation in progress is not recorded yet.
LEMMA CallsUnrecorded ==
    ASSUME ReadIsGood, RowsCounted, [Next]_vars,
           NEW o \in Ops, call'[o] # NoCall, call'[o].action \in Resumes
    PROVE  o \notin done'
<1>1. \A t : /\ Unaffected(t)[o] # NoCall => Unaffected(t)[o] = call[o]
             /\ call[o] = NoCall => Unaffected(t)[o] = NoCall
             /\ call[o] # NoCall /\ call[o].action \in Resumes /\ call[o].task = t
                   => Unaffected(t)[o] = NoCall
  BY DEF Unaffected
<1>2. ASSUME NEW p \in Ops, User(p)
      PROVE  o \notin done'
  <2>1. CASE OperateInspects(p)
    BY <2>1 DEF OperateInspects, RowsCounted, ReadIsGood, CallsEligible
  <2>2. CASE OperateResumes(p)
    <3>. DEFINE u == call[p].task
                row == [task[u] EXCEPT !.state = "QUEUED",
                                       !.operation = call[p].action]
    <3>1. u \in Tasks
      BY <2>2 DEF OperateResumes, ReadIsGood, CallsEligible, CallRow
    <3>2. row.id = u
      BY <3>1 DEF ReadIsGood, RowsTyped, Row
    <3>3. call' = Unaffected(u) /\ done' = done \cup {p}
      BY <2>2, <3>2 DEF OperateResumes, Update
    <3>. HIDE DEF u, row
    <3>4. o # p
      BY <1>1, <2>2, <3>3 DEF OperateResumes, u
    <3>. QED
      BY <1>1, <3>3, <3>4 DEF RowsCounted
  <2>3. ASSUME NEW t \in Tasks, OperateCancels(p, t)
        PROVE  o \notin done'
    <3>1. PICK kept, cancel :
              /\ kept = call \/ kept = Unaffected(t)
              /\ cancel.action = "cancel"
              /\ call' = kept \/ call' = [kept EXCEPT ![p] = cancel]
      <4>. DEFINE cancel == [task |-> t, action |-> "cancel",
                             run |-> task[t].run]
      <4>1. cancel.action = "cancel"
        OBVIOUS
      <4>2. \E kept \in {call, Unaffected(t)} :
                call' = kept \/ call' = [kept EXCEPT ![p] = cancel]
        BY <2>3 DEF OperateCancels
      <4>. HIDE DEF cancel
      <4>. QED
        BY <4>1, <4>2
    <3>2. o \in DOMAIN kept
      BY <3>1 DEF Unaffected, ReadIsGood, CallsEligible
    <3>3. o # p
      BY <1>1, <2>3, <3>1, <3>2 DEF OperateCancels, Resumes
    <3>4. call'[o] = kept[o]
      BY <3>1, <3>2, <3>3
    <3>5. done' = done \cup {p}
      BY <2>3 DEF OperateCancels
    <3>. QED
      BY <1>1, <3>1, <3>3, <3>4, <3>5 DEF RowsCounted
  <2>4. CASE OperateAborts(p)
    BY <2>4 DEF OperateAborts, RowsCounted, ReadIsGood, CallsEligible
  <2>5. ASSUME NEW t \in Tasks, OperateReruns(p, t)
        PROVE  o \notin done'
    <3>1. PICK u : call' = Unaffected(u) /\ done' = done \cup {p}
      BY <2>5 DEF OperateReruns, Update
    <3>2. o # p
      BY <1>1, <2>5, <3>1 DEF OperateReruns
    <3>. QED
      BY <1>1, <3>1, <3>2 DEF RowsCounted
  <2>. QED
    BY <1>2, <2>1, <2>2, <2>3, <2>4, <2>5 DEF User
<1>3. CASE ~\E p \in Ops : User(p)
  <2>1. done' = done /\ (call' = call \/ \E u : call' = Unaffected(u))
    BY <1>3
    DEF Next, vars, users, others, ServiceStarts, Service, DispatchFails,
        ServiceCrashes, Supervises, Executes, Breaks, Contaminates,
        ReconcilePasses, ReconcileAborts, ReconcileObserves, ActUnknown,
        ActRunning, ActFinish, FinishAborts, Invalidate, InvalidateEnds,
        DispatchPasses, MarkInvalid, DispatchSkips, DispatchClaims,
        DispatchLaunches, TickEnds, UpdateOrEnd, Update, NoUpdate, Finish
  <2>. QED
    BY <1>1, <2>1 DEF RowsCounted
<1>. QED
  BY <1>2, <1>3

\* A row that moves stays counted.
LEMMA CountedStep ==
    ASSUME ReadIsGood, ReadsCurrent, RowsCounted, [Next]_vars
    PROVE  RowsCounted'
<1>. DEFINE Counted(row, n) ==
        /\ row.attempts + Due(row) <= 1 + row.auto + n
        /\ row.run <= n
        /\ row.auto <= MaxAuto
        /\ row.state \in Attempted => row.attempts >= 1
            n == Cardinality(done)
            m == Cardinality(done')
<1>1. n \in Nat /\ m \in Nat /\ n <= m
  BY DoneCounted
<1>2. ASSUME NEW t \in Tasks
      PROVE  Counted(task'[t], m)
  <2>. DEFINE old == task[t]
              new == task'[t]
  <2>. SUFFICES Counted(new, m)
    OBVIOUS
  <2>1. old \in Row /\ Counted(old, n)
    BY DEF ReadIsGood, RowsTyped, RowsCounted
  <2>2. /\ old.attempts \in Nat /\ old.run \in Nat /\ old.auto \in Nat
        /\ MaxAuto \in Nat
    BY <2>1, SchedulerAssumption DEF Row
  <2>. HIDE DEF n, m, old, new
  <2>3. ASSUME new.attempts = old.attempts, new.run = old.run,
               new.auto = old.auto,
               new.state \in Waiting => old.state \in Waiting,
               new.state \in Attempted => old.state \in Attempted
        PROVE  Counted(new, m)
    BY <1>1, <2>1, <2>2, <2>3 DEF Due
  <2>4. CASE new = old
    BY <2>3, <2>4
  <2>5. CASE RowStays(t)
    <3>1. /\ new.attempts = old.attempts /\ new.run = old.run
          /\ new.auto = old.auto
      BY <2>1, <2>5 DEF RowStays, Row, new, old
    <3>. QED
      BY <2>3, <2>5, <3>1
      DEF RowStays, Waiting, Attempted, Occupied, new, old
  <2>6. CASE RowClaimed(t)
    <3>1. /\ new.attempts = old.attempts + 1 /\ new.run = old.run
          /\ new.auto = old.auto /\ new.state = "STARTING"
      BY <2>1, <2>6 DEF RowClaimed, Claimed, Row, new, old
    <3>2. Due(old) = 1 /\ Due(new) = 0
      BY <2>6, <3>1 DEF RowClaimed, Due, Waiting, old
    <3>. QED
      BY <1>1, <2>1, <2>2, <3>1, <3>2
  <2>7. CASE RowResumed(t)
    <3>1. PICK o \in Ops : /\ call[o] # NoCall /\ call[o].action \in Resumes
                           /\ new = [old EXCEPT !.state = "QUEUED",
                                                !.operation = call[o].action]
                           /\ done' = done \cup {o}
      BY <2>7 DEF RowResumed, new, old
    <3>2. o \in Ops \ done
      BY <3>1 DEF RowsCounted
    <3>3. m = n + 1
      BY <3>1, <3>2, DoneCounted DEF m, n
    <3>4. /\ new.attempts = old.attempts /\ new.run = old.run
          /\ new.auto = old.auto /\ new.state = "QUEUED"
      BY <2>1, <3>1 DEF Row
    <3>5. Due(new) = 1 /\ Due(old) \in {0, 1} /\ new.state \notin Attempted
      BY <3>4 DEF Due, Waiting, Attempted, Occupied
    <3>. QED
      BY <1>1, <2>1, <2>2, <3>3, <3>4, <3>5
  <2>8. CASE RowRerun(t)
    <3>1. PICK o \in Ops \ done :
              /\ new = [old EXCEPT !.state = "QUEUED", !.run = @ + 1,
                                   !.operation = "start", !.valid = TRUE,
                                   !.converged = FALSE]
              /\ done' = done \cup {o}
      BY <2>8 DEF RowRerun, new, old
    <3>2. m = n + 1
      BY <3>1, DoneCounted DEF m, n
    <3>3. /\ new.attempts = old.attempts /\ new.run = old.run + 1
          /\ new.auto = old.auto /\ new.state = "QUEUED"
      BY <2>1, <3>1 DEF Row
    <3>4. Due(new) = 1 /\ Due(old) \in {0, 1} /\ new.state \notin Attempted
      BY <3>3 DEF Due, Waiting, Attempted, Occupied
    <3>. QED
      BY <1>1, <2>1, <2>2, <3>2, <3>3, <3>4
  <2>9. CASE RowEnded(t)
    <3>1. PICK state \in Observations \ {"UNKNOWN", "RUNNING"} :
              at.id = t /\ new = Finished(at, state) /\ pc \in {"act", "launch"}
      BY <2>9 DEF RowEnded, new
    <3>2. at \in Row /\ SameRow(at) /\ at.state \in Occupied
      BY <3>1 DEF ReadIsGood, ReadRows, ReadsCurrent
    <3>3. /\ new.run = old.run /\ new.attempts = old.attempts
          /\ \/ new.state # "RETRY_WAIT" /\ new.auto = old.auto
             \/ old.auto < MaxAuto /\ new.auto = old.auto + 1
          /\ new.state \in {"RETRY_WAIT", "CANCELLED", "FAILED", state}
      BY <3>1, <3>2, FinishedKeeps DEF ReadIsGood, old
    <3>4. old.state \in Attempted
      BY <3>1, <3>2 DEF SameRow, Attempted, Occupied, Row, old
    <3>5. /\ Due(new) \in {0, 1} /\ Due(old) \in {0, 1}
          /\ new.state # "RETRY_WAIT" => Due(new) = 0
      BY <3>1, <3>3 DEF Due, Waiting, Observations
    <3>6. CASE new.state # "RETRY_WAIT" /\ new.auto = old.auto
      BY <1>1, <2>1, <2>2, <3>3, <3>4, <3>5, <3>6
    <3>7. CASE old.auto < MaxAuto /\ new.auto = old.auto + 1
      BY <1>1, <2>1, <2>2, <3>3, <3>4, <3>5, <3>7
    <3>. QED
      BY <3>3, <3>6, <3>7
  <2>. QED
    BY <2>4, <2>5, <2>6, <2>7, <2>8, <2>9, NextRows DEF RowMoves, new, old
<1>3. done' \subseteq Ops
  BY DoneCounted
<1>4. \A o \in Ops :
          call'[o] # NoCall /\ call'[o].action \in Resumes => o \notin done'
  BY CallsUnrecorded
<1>. QED
  BY <1>2, <1>3, <1>4 DEF RowsCounted, Due

\* What was read stays current, and there is no attempt or run beyond those
\* that recoveries and operations pay for.
RowsInductive == ReadIsGood /\ ReadsCurrent /\ RowsCounted

\* These facts hold in every state (claim, _finish and operate against each
\* other).
THEOREM RowsInvariant == Spec => []RowsInductive
<1>1. Init => ReadsCurrent /\ RowsCounted
  <2>. SUFFICES ASSUME Init PROVE ReadsCurrent /\ RowsCounted
    OBVIOUS
  <2>1. ReadsCurrent
    BY DEF Init, ReadsCurrent
  <2>2. Cardinality(done) = 0
    BY FS_EmptySet DEF Init
  <2>3. \A t \in Tasks : /\ task[t].attempts = 0 /\ task[t].run = 0
                         /\ task[t].auto = 0 /\ task[t].state = "QUEUED"
    BY DEF Init, NewTask
  <2>4. \A t \in Tasks : task[t].state \notin Attempted
    BY <2>3 DEF Attempted, Occupied
  <2>5. \A t \in Tasks : Due(task[t]) = 1
    BY <2>3 DEF Due, Waiting
  <2>6. MaxAuto \in Nat
    BY SchedulerAssumption
  <2>. QED
    BY <2>1, <2>2, <2>3, <2>4, <2>5, <2>6 DEF Init, RowsCounted
<1>2. ReadIsGood /\ ReadsCurrent /\ RowsCounted /\ [Next]_vars =>
          ReadsCurrent' /\ RowsCounted'
  BY CurrentStep, CountedStep
<1>. QED
  BY <1>1, <1>2, ReadsStayGood, PTL DEF Spec, RowsInductive

\* Rows keep to the bounds of their instance.
LEMMA RowsBounded ==
    ASSUME RowsInductive
    PROVE  /\ task \in [Tasks -> Task]
           /\ \A t \in Tasks :
                 task[t].state \in Waiting => task[t].attempts + 1 <= MaxAttempts
<1>1. Cardinality(done) \in Nat /\ Cardinality(Ops) \in Nat
      /\ Cardinality(done) <= Cardinality(Ops)
  <2>1. done \subseteq Ops /\ IsFiniteSet(Ops)
    BY SchedulerAssumption DEF RowsInductive, RowsCounted
  <2>. QED
    BY <2>1, FS_Subset, FS_CardinalityType
<1>2. ASSUME NEW t \in Tasks
      PROVE  /\ task[t] \in Task
             /\ task[t].state \in Waiting => task[t].attempts + 1 <= MaxAttempts
  <2>. DEFINE row == task[t]
  <2>1. row \in Row
    BY DEF RowsInductive, ReadIsGood, RowsTyped
  <2>2. /\ row.attempts + Due(row) <= 1 + row.auto + Cardinality(done)
        /\ row.run <= Cardinality(done) /\ row.auto <= MaxAuto
    BY DEF RowsInductive, RowsCounted
  <2>3. /\ MaxAuto \in Nat /\ MaxAttempts \in Nat /\ MaxReruns \in Nat
        /\ MaxAttempts >= 1 + MaxAuto + Cardinality(Ops)
        /\ MaxReruns >= Cardinality(Ops)
    BY SchedulerAssumption, AttemptsAssumption, WorkerAssumption
  <2>4. Due(row) \in {0, 1} /\ (row.state \in Waiting => Due(row) = 1)
    BY DEF Due
  <2>5. row.attempts \in Nat /\ row.run \in Nat /\ row.auto \in Nat
    BY <2>1 DEF Row
  <2>. HIDE DEF row
  <2>6. row.attempts + Due(row) <= MaxAttempts
    BY <1>1, <2>2, <2>3, <2>4, <2>5
  <2>7. /\ row.attempts \in 0..MaxAttempts /\ row.run \in 0..MaxReruns
        /\ row.auto \in 0..MaxAuto
    BY <1>1, <2>2, <2>3, <2>4, <2>5, <2>6
  <2>8. row \in Task
    BY <2>1, <2>7 DEF Row, Task
  <2>. QED
    BY <2>4, <2>5, <2>6, <2>8 DEF row
<1>. QED
  BY <1>2 DEF RowsInductive, ReadIsGood, RowsTyped
=============================================================================
