------------------------- MODULE SchedulerInvariant -------------------------
(***************************************************************************)
(* What the service and the users of Scheduler rely on about the rows they *)
(* have read: the strengthening with which TypeOK, WithinLimits and        *)
(* CancelWins can be proved.                                               *)
(***************************************************************************)
EXTENDS Scheduler

\* A row without the bounds of an instance.
Row == [id: Tasks, state: States, run: Nat, attempts: Nat,
        operation: Operations, auto: Nat, valid: BOOLEAN, converged: BOOLEAN]
CallRow == [task: Tasks, action: Resumes \cup {"cancel"}, run: Nat]

RowsTyped == /\ task \in [Tasks -> Row]
             /\ \A t \in Tasks : task[t].id = t

\* While the service reconciles, what it has read are rows, and the one it is
\* settling was occupied.
ReadRows ==
    /\ pc \in {"reconcile", "act", "abort"} => todo \in Seq(Row)
    /\ pc \in {"act", "launch"} => at \in Row
    /\ pc = "act" => at.state \in Occupied /\ observed \in Observations

\* An operation that met no conflict so far finds its task as eligible as
\* its user saw it.
CallsEligible ==
    /\ call \in [Ops -> CallRow \cup {NoCall}]
    /\ \A o \in Ops : call[o] # NoCall /\ call[o].action \in Resumes =>
           Eligible(call[o].task)

\* What a service or a user has read of a row is still good for what they
\* will do with it (Store.update and operate, store.py:159-173 and
\* operations.py:38-46).
ReadIsGood == RowsTyped /\ ReadRows /\ CallsEligible

\* The row in the store is the one that was read, or its cancellation was
\* requested since.
SameRow(row) ==
    \/ task[row.id] = row
    \/ task[row.id] = [row EXCEPT !.state = "CANCEL_REQUESTED"]

\* Only a request to cancel changes an occupied row behind the service's
\* back, and no row is read twice in a tick (_finish relies on the attempt,
\* the counter and the operation of the row it was given).
ReadsCurrent ==
    /\ pc \in {"act", "launch"} => at.state \in Occupied /\ SameRow(at)
    /\ pc \in {"reconcile", "act", "abort"} =>
          /\ \A i \in DOMAIN todo :
                 todo[i].state \in Occupied => SameRow(todo[i])
          /\ \A i, j \in DOMAIN todo : todo[i].id = todo[j].id => i = j
    /\ pc = "act" => \A i \in DOMAIN todo : todo[i].id # at.id

\* The attempts that a task may still ask for: one if it waits.
Due(row) == IF row.state \in Waiting THEN 1 ELSE 0

\* The states of a task that has had an attempt.
Attempted == Occupied \cup {"COMPLETED", "PAUSED", "WAITING_INPUT"}

\* Every attempt after the first is paid for by an automatic recovery or by
\* a recorded operation, every rerun by an operation.
RowsCounted ==
    /\ done \subseteq Ops
    /\ \A t \in Tasks :
          LET row == task[t] IN
          /\ row.attempts + Due(row) <= 1 + row.auto + Cardinality(done)
          /\ row.run <= Cardinality(done)
          /\ row.auto <= MaxAuto
          /\ row.state \in Attempted => row.attempts >= 1
    /\ \A o \in Ops :
          call[o] # NoCall /\ call[o].action \in Resumes => o \notin done
=============================================================================
