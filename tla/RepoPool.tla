------------------------------ MODULE RepoPool ------------------------------
(***************************************************************************)
(* One shared, read-only repository of the pool in                          *)
(* mrac_resources/repositories.py (RepoPool.readonly, clean, rebuild,       *)
(* resource_events, invalid_runs) under the kernel locks of locks.py: the   *)
(* runs that read it, the maintenance commands, whoever pollutes a          *)
(* checkout, and crashes of all of them.                                    *)
(*                                                                          *)
(* The locks are those of one key: "prepare", the key lock that readers     *)
(* share, and the metadata lock, under which a step is atomic.  The kernel  *)
(* drops the locks of a process that dies.                                  *)
(***************************************************************************)
EXTENDS Naturals, Sequences, FiniteSets

CONSTANTS
    Runs,           \* the run directories that read the repository
    Supervised,     \* the runs with a supervision receipt
    MaxGenerations, \* bound of the model: checkouts ever created
    MaxSequence     \* bound of the model: checks counted per generation

ASSUME RunsAssumption == Supervised \subseteq Runs
ASSUME BoundsAssumption == MaxGenerations \in Nat /\ MaxSequence \in Nat

VARIABLES
    record,    \* shared/<key>.json
    trees,     \* the checkout of every generation, as its content compares
    retired,   \* generations in retired/, with their users
    archived,  \* affected runs of the generations in quarantine/
    events,    \* STARTED events of cleanups that died: their generations
    plans,     \* paths read by processes that are going to clean
    pc,        \* where each run stands in readonly()
    cleaner,   \* where the process that cleans under the locks stands
    exposed    \* history: runs that may have read the present pollution

vars == <<record, trees, retired, archived, events, plans, pc, cleaner,
          exposed>>

Generations == 1..MaxGenerations
NoGeneration == 0

\* A lease has no end while its run reads, and for good if the run dies.
Open == 0
Lease == [run: Runs, end: Nat]

States == {"NONE", "PREPARING", "READY", "PREPARE_FAILED", "QUARANTINED"}
Trees == {"absent", "partial", "clean", "dirty"}
Places == {"out", "preparing", "cloning", "entering", "shared", "reading"}
Cleaning == {"idle", "deleting", "removed", "marked"}

Record == [state: States, generation: Generations \cup {NoGeneration},
           users: SUBSET Runs, sequence: Nat, lastClean: Nat,
           leases: Seq(Lease), affected: SUBSET Runs, deleted: BOOLEAN]

TypeOK ==
    /\ record \in Record
    /\ trees \in [Generations -> Trees]
    /\ retired \subseteq [generation: Generations, users: SUBSET Runs]
    /\ archived \subseteq [generation: Generations, affected: SUBSET Runs]
    /\ events \subseteq Generations
    /\ plans \subseteq Generations
    /\ pc \in [Runs -> Places]
    /\ cleaner \in [at: Cleaning, path: Generations \cup {NoGeneration},
                    of: Generations \cup {NoGeneration}]
    /\ exposed \in SUBSET Runs

\* The directory a cleanup removes, and the generation whose record it has
\* read again and will mark: they may differ.
Idle == [at |-> "idle", path |-> NoGeneration, of |-> NoGeneration]

Init ==
    /\ record = [state |-> "NONE", generation |-> NoGeneration, users |-> {},
                 sequence |-> 0, lastClean |-> 0, leases |-> <<>>,
                 affected |-> {}, deleted |-> FALSE]
    /\ trees = [generation \in Generations |-> "absent"]
    /\ retired = {}
    /\ archived = {}
    /\ events = {}
    /\ plans = {}
    /\ pc = [run \in Runs |-> "out"]
    /\ cleaner = Idle
    /\ exposed = {}

Go(run, place) == pc' = [pc EXCEPT ![run] = place]

\* Who holds the locks of the key follows from where the processes stand.
PrepareFree == \A run \in Runs : pc[run] \notin {"preparing", "cloning"}
ExclusiveHeld == cleaner # Idle \/ \E run \in Runs : pc[run] = "cloning"
SharedHeld == \E run \in Runs : pc[run] \in {"shared", "reading"}

\* Bug: maintenance waits for nobody.
BugLockFree == cleaner = Idle

\* The exclusive lock of the key can be taken at once.
LockFree == ~ExclusiveHeld /\ ~SharedHeld

\* RepoPool.stopped: nothing is known of an unsupervised caller.
Stopped(run) == run \notin Supervised \/ pc[run] = "out"

OpenLeases(item) ==
    {item.leases[i].run : i \in {j \in DOMAIN item.leases :
                                    item.leases[j].end = Open}}

\* Bug: the leases are noted where their runs belong.
BugQuarantined(item) ==
    [item EXCEPT !.state = "QUARANTINED",
                 !.affected = @ \cup {i \in DOMAIN item.leases :
                                         item.leases[i].end = Open}]

\* quarantine(): every run whose lease may reach past the last clean check.
Quarantined(item) ==
    LET touched == {i \in DOMAIN item.leases :
                       \/ item.leases[i].end = Open
                       \/ item.leases[i].end > item.lastClean}
    IN  [item EXCEPT !.state = "QUARANTINED",
                     !.affected = @ \cup {item.leases[i].run : i \in touched}]
-----------------------------------------------------------------------------
(***************************************************************************)
(* RepoPool.readonly                                                       *)
(***************************************************************************)

\* No usable generation: none yet, a deleted one, or an unfinished one.
Unusable == record.state \in {"NONE", "PREPARING", "PREPARE_FAILED"}
                \/ record.deleted

\* Under the prepare lock the record decides whether to clone.
Acquire(run) ==
    /\ pc[run] = "out"
    /\ PrepareFree
    /\ Go(run, IF Unusable THEN "preparing" ELSE "entering")
    /\ UNCHANGED <<record, trees, retired, archived, events, plans, cleaner,
                   exposed>>

\* With the exclusive lock a new generation replaces the record; an
\* unfinished one is retired.
StartClone(run) ==
    /\ pc[run] = "preparing"
    /\ LockFree
    /\ \E generation \in Generations :
          /\ generation = record.generation + 1
          /\ record' = [state |-> "PREPARING", generation |-> generation,
                        users |-> {run}, sequence |-> 0, lastClean |-> 0,
                        leases |-> <<>>, affected |-> {}, deleted |-> FALSE]
          /\ trees' = [trees EXCEPT ![generation] = "partial"]
    /\ retired' = IF record.state \in {"PREPARING", "PREPARE_FAILED"}
                    THEN retired \cup {[generation |-> record.generation,
                                        users |-> record.users]}
                    ELSE retired
    /\ exposed' = {}
    /\ Go(run, "cloning")
    /\ UNCHANGED <<archived, events, plans, cleaner>>

FinishClone(run) ==
    /\ pc[run] = "cloning"
    /\ record' = [record EXCEPT !.state = "READY"]
    /\ trees' = [trees EXCEPT ![record.generation] = "clean"]
    /\ Go(run, "entering")
    /\ UNCHANGED <<retired, archived, events, plans, cleaner, exposed>>

FailClone(run) ==
    /\ pc[run] = "cloning"
    /\ record' = [record EXCEPT !.state = "PREPARE_FAILED"]
    /\ Go(run, "out")
    /\ UNCHANGED <<trees, retired, archived, events, plans, cleaner, exposed>>

Share(run) ==
    /\ pc[run] = "entering"
    /\ ~ExclusiveHeld
    /\ Go(run, "shared")
    /\ UNCHANGED <<record, trees, retired, archived, events, plans, cleaner,
                   exposed>>

Ready == record.state = "READY" /\ ~record.deleted

\* The check on entry: a clean checkout grants a lease.
Enter(run) ==
    /\ pc[run] = "shared"
    /\ Ready
    /\ trees[record.generation] = "clean"
    /\ record.sequence < MaxSequence
    /\ record' = [record EXCEPT
                     !.users = @ \cup {run},
                     !.sequence = @ + 1,
                     !.lastClean = record.sequence + 1,
                     !.leases = Append(@, [run |-> run, end |-> Open])]
    /\ Go(run, "reading")
    /\ UNCHANGED <<trees, retired, archived, events, plans, cleaner, exposed>>

\* A changed checkout is quarantined; one that is gone, or a record that is
\* not ready, is only an error.
Refuse(run) ==
    /\ pc[run] = "shared"
    /\ ~(Ready /\ trees[record.generation] = "clean")
    /\ record' = IF Ready /\ trees[record.generation] # "absent"
                   THEN Quarantined(record) ELSE record
    /\ Go(run, "out")
    /\ UNCHANGED <<trees, retired, archived, events, plans, cleaner, exposed>>

\* The lease of a reading run is its only open one of this acquisition.
LastLease(run) ==
    CHOOSE i \in DOMAIN record.leases :
        /\ record.leases[i].run = run
        /\ \A j \in DOMAIN record.leases : record.leases[j].run = run => j <= i

Ended(item, lease) == [item EXCEPT !.leases[lease].end = item.sequence]

\* Bug: the check on exit is left to the next run that enters.
BugLeft(item) ==
    IF item.state = "READY"
      THEN [item EXCEPT !.lastClean = item.sequence] ELSE item

\* The check on exit.
Left(item) ==
    IF trees[item.generation] # "clean" THEN Quarantined(item)
    ELSE IF item.state = "READY"
      THEN [item EXCEPT !.lastClean = item.sequence]
    ELSE item

Exit(run) ==
    /\ pc[run] = "reading"
    /\ record' = Ended(Left([record EXCEPT !.sequence = @ + 1]), LastLease(run))
    /\ Go(run, "out")
    /\ UNCHANGED <<trees, retired, archived, events, plans, cleaner, exposed>>

\* The run dies: the kernel drops its locks, its lease stays open.
CrashRun(run) ==
    /\ pc[run] # "out"
    /\ Go(run, "out")
    /\ UNCHANGED <<record, trees, retired, archived, events, plans, cleaner,
                   exposed>>
-----------------------------------------------------------------------------
(***************************************************************************)
(* RepoPool.clean with apply, and resource_events                          *)
(***************************************************************************)

\* clean() reads a record and looks for its directory before it has any
\* lock.  How many processes clean, and how long they take to get the locks,
\* is open: a path that was read once may be used at any time later.
PlanClean ==
    /\ \E path \in Generations \ plans :
          /\ trees[path] # "absent"
          /\ \/ path = record.generation /\ ~record.deleted
             \/ \E item \in retired : item.generation = path
          /\ plans' = plans \cup {path}
    /\ UNCHANGED <<record, trees, retired, archived, events, pc, cleaner,
                   exposed>>

\* The shared record as it is read again: not deleted or quarantined, its
\* users stopped.
Cleanable ==
    /\ ~record.deleted
    /\ record.state \in {"READY", "PREPARE_FAILED", "PREPARING"}
    /\ \A user \in record.users : Stopped(user)

\* Under the locks the record is read again, but not the path: the shared
\* record may name another generation by now.  The record of a retired
\* generation keeps its path.
StartClean ==
    /\ LockFree
    /\ \E path \in plans :
          \/ /\ Cleanable
             /\ cleaner' = [at |-> "deleting", path |-> path,
                            of |-> record.generation]
          \/ \E item \in retired :
                /\ item.generation = path
                /\ \A user \in item.users : Stopped(user)
                /\ cleaner' = [at |-> "deleting", path |-> path, of |-> path]
    /\ UNCHANGED <<record, trees, retired, archived, events, plans, pc,
                   exposed>>

RemoveTree ==
    /\ cleaner.at = "deleting"
    /\ trees[cleaner.path] # "absent"
    /\ trees' = [trees EXCEPT ![cleaner.path] = "absent"]
    /\ cleaner' = [cleaner EXCEPT !.at = "removed"]
    /\ UNCHANGED <<record, retired, archived, events, plans, pc, exposed>>

Remains(tree) == IF tree = "absent" THEN "absent" ELSE "partial"

\* A file cannot be removed, and the rest of the checkout stays; or the
\* directory is gone already.
RemoveFails ==
    /\ cleaner.at = "deleting"
    /\ trees' = [trees EXCEPT ![cleaner.path] = Remains(@)]
    /\ cleaner' = Idle
    /\ UNCHANGED <<record, retired, archived, events, plans, pc, exposed>>

\* A retired generation has a record of its own.
Deleted(generation) ==
    /\ record' = [record EXCEPT !.deleted = @ \/ record.generation = generation]
    /\ retired' = {item \in retired : item.generation # generation}

\* The record that was read again is marked, whatever path was removed.
MarkDeleted ==
    /\ cleaner.at = "removed"
    /\ Deleted(cleaner.of)
    /\ cleaner' = [cleaner EXCEPT !.at = "marked"]
    /\ UNCHANGED <<trees, archived, events, plans, pc, exposed>>

FinishClean ==
    /\ cleaner.at = "marked"
    /\ cleaner' = Idle
    /\ UNCHANGED <<record, trees, retired, archived, events, plans, pc,
                   exposed>>

\* The cleaning process dies, perhaps in the middle of the directory.  Its
\* event, which names the record that was read again, is STARTED for good.
CrashClean ==
    /\ cleaner # Idle
    /\ trees' \in {trees} \cup
                  {[trees EXCEPT ![cleaner.path] =
                        IF cleaner.at = "deleting" THEN Remains(@) ELSE @]}
    /\ events' = events \cup {cleaner.of}
    /\ cleaner' = Idle
    /\ UNCHANGED <<record, retired, archived, plans, pc, exposed>>

\* Bug: the record is taken to be that of the event.
BugSettled(generation) ==
    /\ record' = [record EXCEPT !.deleted = TRUE]
    /\ retired' = {item \in retired : item.generation # generation}

\* The record is marked only while it still names the removed directory; a
\* retired one without its directory is out of every cleanup, marked or not.
Settled(generation) == Deleted(generation)

\* resource_events settles a cleanup that died after the removal; the
\* metadata lock keeps it from one that is still at work.
SettleEvent ==
    /\ cleaner = Idle
    /\ \E generation \in events :
          /\ trees[generation] = "absent"
          /\ Settled(generation)
          /\ events' = events \ {generation}
    /\ UNCHANGED <<trees, archived, plans, pc, cleaner, exposed>>
-----------------------------------------------------------------------------
(***************************************************************************)
(* RepoPool.rebuild and pollution                                          *)
(***************************************************************************)

\* Bug: the polluted generation is retired without its archive.
BugArchive(item) == archived

Archive(item) == archived \cup {[generation |-> item.generation,
                                 affected |-> item.affected]}

\* The affected runs are archived before the record is retired; the process
\* may die in between.
Rebuild ==
    /\ LockFree
    /\ record.state = "QUARANTINED"
    /\ trees[record.generation] # "absent"
    /\ \A user \in record.users : Stopped(user)
    /\ archived' = Archive(record)
    /\ record' \in {record, [record EXCEPT !.deleted = TRUE]}
    /\ UNCHANGED <<trees, retired, events, plans, pc, cleaner, exposed>>

\* Whoever can write to the checkout changes it: all who may be reading now
\* are exposed.  Nobody who comes later gets past the check.
Pollute ==
    /\ record.generation # NoGeneration
    /\ trees[record.generation] = "clean"
    /\ trees' = [trees EXCEPT ![record.generation] = "dirty"]
    /\ exposed' = exposed \cup OpenLeases(record)
    /\ UNCHANGED <<record, retired, archived, events, plans, pc, cleaner>>

\* A change that is undone before any check is out of the pool's sight.
Restore ==
    /\ record.generation # NoGeneration
    /\ trees[record.generation] = "dirty"
    /\ trees' = [trees EXCEPT ![record.generation] = "clean"]
    /\ exposed' = IF record.state = "QUARANTINED" THEN exposed ELSE {}
    /\ UNCHANGED <<record, retired, archived, events, plans, pc, cleaner>>
-----------------------------------------------------------------------------
RunStep(run) ==
    \/ Acquire(run) \/ StartClone(run) \/ FinishClone(run) \/ FailClone(run)
    \/ Share(run) \/ Enter(run) \/ Refuse(run) \/ Exit(run) \/ CrashRun(run)

Maintain ==
    \/ PlanClean \/ StartClean \/ RemoveTree \/ RemoveFails \/ MarkDeleted
    \/ FinishClean \/ CrashClean \/ SettleEvent \/ Rebuild

Next == (\E run \in Runs : RunStep(run)) \/ Maintain \/ Pollute \/ Restore

Spec == Init /\ [][Next]_vars
-----------------------------------------------------------------------------
(***************************************************************************)
(* Properties                                                              *)
(***************************************************************************)

\* invalid_runs: what the scheduler marks INVALID.
InvalidRuns ==
    (IF record.state = "QUARANTINED" THEN record.affected ELSE {})
        \cup UNION {item.affected : item \in archived}

\* While a run reads, no other process clones, removes or retires its
\* generation: not a cleanup whose plan is old and names another generation
\* than the record it marks, nor one that crashed and is settled late.
ReadersKeepTree ==
    \A run \in Runs : pc[run] = "reading" =>
        /\ ~ExclusiveHeld
        /\ record.state \in {"READY", "QUARANTINED"}
        /\ ~record.deleted
        /\ trees[record.generation] # "absent"
        /\ run \in OpenLeases(record)

\* The polluted files of a generation that was rebuilt are preserved for
\* investigation (the comment of rebuild, repositories.py:258).
EvidenceKept == \A item \in archived : trees[item.generation] # "absent"

\* Once a pollution is detected, every run that may have read it is invalid,
\* whichever run detected it and whichever died before (the interval rule of
\* quarantine()).
ExposedInvalid == record.state = "QUARANTINED" => exposed \subseteq InvalidRuns

\* No verdict of contamination is ever taken back: not by a rebuild, a crash
\* in it, or a new generation.
InvalidKept == [][InvalidRuns \subseteq InvalidRuns']_vars
=============================================================================
