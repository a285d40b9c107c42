--------------------------- MODULE RepoPoolProofs ---------------------------
(***************************************************************************)
(* The shared repositories of RepoPool, for every set of runs and every    *)
(* number of generations and checks: nobody's checkout is taken away while *)
(* it is read, and no verdict of contamination is ever taken back.         *)
(***************************************************************************)
EXTENDS RepoPool, WellFoundedInduction, TLAPS

Preparing == {"preparing", "cloning"}
Sharing == {"shared", "reading"}

\* The locks of the key: one process prepares; cleaning and cloning exclude
\* each other and everyone who shares.
LocksHeld ==
    /\ \A run, other \in Runs :
          pc[run] \in Preparing /\ pc[other] \in Preparing => run = other
    /\ \A run \in Runs : pc[run] = "cloning" \/ cleaner # Idle =>
          \A other \in Runs : pc[other] \notin Sharing
    /\ \A run \in Runs : pc[run] = "cloning" => cleaner = Idle

\* What a process that prepares has found stays true until it clones.
ClonesNeeded ==
    \A run \in Runs :
        /\ pc[run] = "preparing" => Unusable
        /\ pc[run] = "cloning" =>
              /\ record.state = "PREPARING" /\ ~record.deleted
              /\ trees[record.generation] = "partial"

\* Generations only grow: what was retired is older than the record.
GenerationsGrow ==
    /\ record.state # "NONE" => record.generation # NoGeneration
    /\ \A item \in retired : item.generation < record.generation

\* A cleanup that is under way may remove another generation than the one it
\* marks, but never the checkout of a quarantined record, nor marks that.
CleanerSpares ==
    /\ cleaner # Idle =>
          /\ cleaner.path \in Generations
          /\ cleaner.of \in Generations
    /\ cleaner.at \in {"deleting", "removed"} =>
          /\ cleaner # Idle
          /\ cleaner.path = record.generation => cleaner.of = record.generation
          /\ cleaner.of = record.generation => record.state # "QUARANTINED"

\* A quarantined checkout stays until its verdict is archived.
VerdictKept ==
    record.state = "QUARANTINED" =>
        IF record.deleted
          THEN [generation |-> record.generation,
                affected |-> record.affected] \in archived
          ELSE trees[record.generation] # "absent"

PoolInductive ==
    /\ TypeOK
    /\ LocksHeld
    /\ ClonesNeeded
    /\ GenerationsGrow
    /\ CleanerSpares
    /\ VerdictKept
    /\ ReadersKeepTree

\* Who may have read the present pollution still holds a lease until a check
\* finds it, and what is clean exposes nobody.  From the quarantine on, the
\* exposed and all who still hold a lease are invalid: the pollution may go
\* on, but nobody is let in any more.
ExposedFound ==
    /\ record.state \notin {"READY", "QUARANTINED"} => OpenLeases(record) = {}
    /\ record.state # "QUARANTINED" => exposed \subseteq OpenLeases(record)
    /\ record.state = "READY" /\ trees[record.generation] = "clean" =>
          exposed = {}
    /\ record.state = "QUARANTINED" =>
          exposed \cup OpenLeases(record) \subseteq InvalidRuns
-----------------------------------------------------------------------------
(***************************************************************************)
(* Records and leases                                                      *)
(***************************************************************************)

\* The numbers below a given one are well-founded, so that a set of them has
\* a least element.
LEMMA Least ==
    ASSUME NEW S \in SUBSET Nat, S # {}
    PROVE  \E x \in S : \A y \in S : x <= y
<1>. DEFINE R == OpToRel(<, Nat)
<1>1. IsWellFoundedOn(R, Nat)
  BY NatLessThanWellFounded
<1>2. PICK x \in S : \A y \in Nat : <<y, x>> \in R => y \notin S
  <2>1. \E x \in S : \A y \in S : ~(<<y, x>> \in R)
    BY <1>1, WFMin, Zenon
  <2>. QED
    BY <2>1
<1>3. \A y \in S : ~(y < x)
  BY <1>2 DEF OpToRel
<1>. HIDE DEF R
<1>4. \A y \in S : x \in Nat /\ y \in Nat
  OBVIOUS
<1>. QED
  BY <1>3, <1>4

\* A run with an open lease has a last one.
LEMMA LastLeaseOwn ==
    ASSUME TypeOK, NEW run \in OpenLeases(record)
    PROVE  /\ LastLease(run) \in DOMAIN record.leases
           /\ record.leases[LastLease(run)].run = run
<1>. DEFINE length == Len(record.leases)
            own == {i \in 1..length : record.leases[i].run = run}
            behind == {length - i : i \in own}
<1>1. record.leases \in Seq(Lease) /\ length \in Nat
      /\ DOMAIN record.leases = 1..length
  BY DEF TypeOK, Record
<1>2. own # {}
  BY <1>1 DEF OpenLeases
<1>3. behind \in SUBSET Nat /\ behind # {}
  <2>1. \A i \in own : length - i \in Nat
    BY <1>1
  <2>. QED
    BY <1>2, <2>1
<1>4. PICK x \in behind : \A y \in behind : x <= y
  <2>. HIDE DEF behind
  <2>. QED
    BY <1>3, Least
<1>5. PICK i \in own : x = length - i
  BY <1>4
<1>6. ASSUME NEW j \in own PROVE j <= i
  <2>1. x <= length - j
    BY <1>4
  <2>2. i \in Nat /\ j \in Nat
    BY <1>1
  <2>. QED
    BY <1>1, <1>5, <2>1, <2>2
<1>. QED
  BY <1>1, <1>5, <1>6 DEF LastLease

\* A quarantine changes the state and adds to the affected runs.
LEMMA QuarantinedKeeps ==
    ASSUME NEW item \in Record
    PROVE  /\ Quarantined(item) \in Record
           /\ Quarantined(item).state = "QUARANTINED"
           /\ Quarantined(item).generation = item.generation
           /\ Quarantined(item).leases = item.leases
           /\ Quarantined(item).deleted = item.deleted
           /\ item.affected \subseteq Quarantined(item).affected
<1>. DEFINE touched == {i \in DOMAIN item.leases :
                          \/ item.leases[i].end = Open
                          \/ item.leases[i].end > item.lastClean}
<1>1. {item.leases[i].run : i \in touched} \subseteq Runs
  <2>1. item.leases \in Seq(Lease)
    BY DEF Record
  <2>2. \A i \in DOMAIN item.leases : item.leases[i] \in Lease
    BY <2>1
  <2>. QED
    BY <2>2 DEF Lease
<1>2. Quarantined(item) =
         [item EXCEPT !.state = "QUARANTINED",
                      !.affected = @ \cup {item.leases[i].run : i \in touched}]
  BY DEF Quarantined
<1>. HIDE DEF touched
<1>. QED
  BY <1>1, <1>2 DEF Record, States

\* The check on exit quarantines at most.
LEMMA LeftKeeps ==
    ASSUME NEW item \in Record
    PROVE  /\ Left(item) \in Record
           /\ Left(item).state = "QUARANTINED" \/ Left(item).state = item.state
           /\ Left(item).state = "QUARANTINED" =>
                 item.state = "QUARANTINED" \/ trees[item.generation] # "clean"
           /\ item.state = "QUARANTINED" => Left(item).state = "QUARANTINED"
           /\ Left(item).generation = item.generation
           /\ Left(item).leases = item.leases
           /\ Left(item).deleted = item.deleted
           /\ item.affected \subseteq Left(item).affected
<1>1. CASE trees[item.generation] # "clean"
  BY <1>1, QuarantinedKeeps DEF Left
<1>2. CASE trees[item.generation] = "clean"
  BY <1>2 DEF Left, Record
<1>. QED
  BY <1>1, <1>2

\* The end of a lease changes nothing else.
LEMMA EndedKeeps ==
    ASSUME NEW item \in Record, NEW lease
    PROVE  /\ Ended(item, lease) \in Record
           /\ Ended(item, lease).state = item.state
           /\ Ended(item, lease).generation = item.generation
           /\ Ended(item, lease).deleted = item.deleted
           /\ Ended(item, lease).affected = item.affected
           /\ DOMAIN Ended(item, lease).leases = DOMAIN item.leases
           /\ \A i \in DOMAIN item.leases \ {lease} :
                 Ended(item, lease).leases[i] = item.leases[i]
<1>. DEFINE leases == [item.leases EXCEPT ![lease] =
                          [@ EXCEPT !.end = item.sequence]]
<1>1. Ended(item, lease) = [item EXCEPT !.leases = leases]
  BY DEF Ended, Record
<1>2. item.leases \in Seq(Lease) /\ item.sequence \in Nat
  BY DEF Record
<1>3. \A i \in DOMAIN item.leases : leases[i] \in Lease
  <2>. SUFFICES ASSUME NEW i \in DOMAIN item.leases PROVE leases[i] \in Lease
    OBVIOUS
  <2>1. item.leases[i] \in Lease
    BY <1>2
  <2>2. [item.leases[i] EXCEPT !.end = item.sequence] \in Lease
    BY <1>2, <2>1 DEF Lease
  <2>3. leases[i] = IF i = lease
                      THEN [item.leases[i] EXCEPT !.end = item.sequence]
                      ELSE item.leases[i]
    OBVIOUS
  <2>. QED
    BY <2>1, <2>2, <2>3
<1>4. leases \in Seq(Lease) /\ DOMAIN leases = DOMAIN item.leases
  <2>1. DOMAIN leases = DOMAIN item.leases
    OBVIOUS
  <2>2. DOMAIN leases = 1..Len(item.leases) /\ Len(item.leases) \in Nat
    BY <1>2, <2>1
  <2>3. leases \in [1..Len(item.leases) -> Lease]
    <3>1. leases = [i \in DOMAIN leases |-> leases[i]]
      OBVIOUS
    <3>. QED
      BY <1>3, <2>1, <2>2, <3>1
  <2>. HIDE DEF leases
  <2>. QED
    BY <2>1, <2>2, <2>3
<1>5. \A i \in DOMAIN item.leases \ {lease} : leases[i] = item.leases[i]
  OBVIOUS
<1>. HIDE DEF leases
<1>. QED
  BY <1>1, <1>4, <1>5 DEF Record

\* Leases belong to runs.
LEMMA OpenLeasesRuns ==
    ASSUME TypeOK PROVE OpenLeases(record) \subseteq Runs
<1>1. record.leases \in Seq(Lease)
  BY DEF TypeOK, Record
<1>2. \A i \in DOMAIN record.leases : record.leases[i] \in Lease
  BY <1>1
<1>. QED
  BY <1>2 DEF OpenLeases, Lease

\* A run that leaves closes its own lease, and quarantines at most.
LEMMA ExitKeeps ==
    ASSUME TypeOK, ReadersKeepTree, NEW run \in Runs, Exit(run)
    PROVE  /\ record' \in Record
           /\ record'.state \in {record.state, "QUARANTINED"}
           /\ record'.state = "QUARANTINED" =>
                 \/ record.state = "QUARANTINED"
                 \/ trees[record.generation] # "clean"
           /\ record.state = "QUARANTINED" => record'.state = "QUARANTINED"
           /\ record'.generation = record.generation
           /\ record'.deleted = record.deleted
           /\ record.affected \subseteq record'.affected
           /\ OpenLeases(record) \ {run} \subseteq OpenLeases(record')
<1>. DEFINE counted == [record EXCEPT !.sequence = @ + 1]
<1>1. /\ counted \in Record
      /\ counted.state = record.state
      /\ counted.generation = record.generation
      /\ counted.leases = record.leases
      /\ counted.deleted = record.deleted
      /\ counted.affected = record.affected
  <2>1. record \in Record
    BY DEF TypeOK
  <2>2. record.sequence + 1 \in Nat
    BY <2>1 DEF Record
  <2>. QED
    BY <2>1, <2>2 DEF Record
<1>2. record' = Ended(Left(counted), LastLease(run))
  BY DEF Exit
<1>. HIDE DEF counted
<1>3. record.leases[LastLease(run)].run = run
  BY LastLeaseOwn DEF Exit, ReadersKeepTree
<1>4. /\ DOMAIN record'.leases = DOMAIN record.leases
      /\ \A i \in DOMAIN record.leases \ {LastLease(run)} :
            record'.leases[i] = record.leases[i]
  BY <1>1, <1>2, LeftKeeps, EndedKeeps
<1>5. OpenLeases(record) \ {run} \subseteq OpenLeases(record')
  BY <1>3, <1>4 DEF OpenLeases
<1>. QED
  BY <1>1, <1>2, <1>5, LeftKeeps, EndedKeeps
-----------------------------------------------------------------------------
(***************************************************************************)
(* Each step                                                               *)
(***************************************************************************)

\* Every step keeps the types.
LEMMA PoolTypeStep ==
    ASSUME PoolInductive, [Next]_vars
    PROVE  TypeOK'
<1>1. CASE UNCHANGED vars
  BY <1>1 DEF PoolInductive, TypeOK, vars
<1>2. ASSUME NEW run \in Runs, Acquire(run) PROVE TypeOK'
  BY <1>2 DEF PoolInductive, LocksHeld, ClonesNeeded, GenerationsGrow,
         CleanerSpares, TypeOK, Record, Go, Generations, States, Trees,
         Places, Cleaning, Idle, NoGeneration,
         Acquire, Remains, Deleted
<1>3. ASSUME NEW run \in Runs, StartClone(run) PROVE TypeOK'
  <2>1. PICK generation \in Generations :
         /\ generation = record.generation + 1
         /\ record' = [state |-> "PREPARING", generation |-> generation,
                       users |-> {run}, sequence |-> 0, lastClean |-> 0,
                       leases |-> <<>>, affected |-> {}, deleted |-> FALSE]
         /\ trees' = [trees EXCEPT ![generation] = "partial"]
    BY <1>3 DEF StartClone
  <2>2. record' \in Record
    BY <2>1 DEF Record, States
  <2>3. record.generation \in Generations
           \/ record.state \notin {"PREPARING", "PREPARE_FAILED"}
    BY DEF PoolInductive, GenerationsGrow, TypeOK, Record
  <2>4. retired' \subseteq [generation: Generations, users: SUBSET Runs]
    BY <1>3, <2>3 DEF PoolInductive, TypeOK, Record, StartClone
  <2>5. trees' \in [Generations -> Trees]
    BY <2>1 DEF PoolInductive, TypeOK, Trees
  <2>. QED
    BY <1>3, <2>2, <2>4, <2>5 DEF PoolInductive, TypeOK, StartClone, Go, Places
<1>4. ASSUME NEW run \in Runs, FinishClone(run) PROVE TypeOK'
  BY <1>4 DEF PoolInductive, LocksHeld, ClonesNeeded, GenerationsGrow,
         CleanerSpares, TypeOK, Record, Go, Generations, States, Trees,
         Places, Cleaning, Idle, NoGeneration,
         FinishClone, Remains, Deleted
<1>5. ASSUME NEW run \in Runs, FailClone(run) PROVE TypeOK'
  BY <1>5 DEF PoolInductive, LocksHeld, ClonesNeeded, GenerationsGrow,
         CleanerSpares, TypeOK, Record, Go, Generations, States, Trees,
         Places, Cleaning, Idle, NoGeneration,
         FailClone, Remains, Deleted
<1>6. ASSUME NEW run \in Runs, Share(run) PROVE TypeOK'
  BY <1>6 DEF PoolInductive, LocksHeld, ClonesNeeded, GenerationsGrow,
         CleanerSpares, TypeOK, Record, Go, Generations, States, Trees,
         Places, Cleaning, Idle, NoGeneration,
         Share, Remains, Deleted
<1>7. ASSUME NEW run \in Runs, Enter(run) PROVE TypeOK'
  <2>1. [run |-> run, end |-> Open] \in Lease
    BY DEF Lease, Open
  <2>2. Append(record.leases, [run |-> run, end |-> Open]) \in Seq(Lease)
    BY <2>1 DEF PoolInductive, TypeOK, Record
  <2>3. record' \in Record
    <3>1. record \in Record
      BY DEF PoolInductive, TypeOK
    <3>2. record' = [record EXCEPT
                       !.users = record.users \cup {run},
                       !.sequence = record.sequence + 1,
                       !.lastClean = record.sequence + 1,
                       !.leases = Append(record.leases,
                                         [run |-> run, end |-> Open])]
      BY <1>7 DEF Enter
    <3>3. record.users \cup {run} \in SUBSET Runs
             /\ record.sequence + 1 \in Nat
      BY <3>1 DEF Record
    <3>. HIDE DEF Open
    <3>. QED
      BY <2>2, <3>1, <3>2, <3>3 DEF Record
  <2>. QED
    BY <1>7, <2>3 DEF PoolInductive, TypeOK, Enter, Go, Places
<1>8. ASSUME NEW run \in Runs, Refuse(run) PROVE TypeOK'
  <2>1. record' \in Record
    BY <1>8, QuarantinedKeeps DEF PoolInductive, TypeOK, Refuse
  <2>. QED
    BY <1>8, <2>1 DEF PoolInductive, TypeOK, Refuse, Go, Places
<1>9. ASSUME NEW run \in Runs, Exit(run) PROVE TypeOK'
  <2>1. record' \in Record
    BY <1>9, ExitKeeps DEF PoolInductive
  <2>. QED
    BY <1>9, <2>1 DEF PoolInductive, TypeOK, Exit, Go, Places
<1>10. ASSUME NEW run \in Runs, CrashRun(run) PROVE TypeOK'
  BY <1>10 DEF PoolInductive, LocksHeld, ClonesNeeded, GenerationsGrow,
         CleanerSpares, TypeOK, Record, Go, Generations, States, Trees,
         Places, Cleaning, Idle, NoGeneration,
         CrashRun, Remains, Deleted
<1>11. CASE StartClean
  <2>1. PICK path \in plans :
         \/ cleaner' = [at |-> "deleting", path |-> path,
                        of |-> record.generation]
         \/ cleaner' = [at |-> "deleting", path |-> path, of |-> path]
    BY <1>11 DEF StartClean
  <2>2. path \in Generations
           /\ record.generation \in Generations \cup {NoGeneration}
    BY DEF PoolInductive, TypeOK, Record
  <2>3. cleaner' \in [at: Cleaning, path: Generations \cup {NoGeneration},
                      of: Generations \cup {NoGeneration}]
    BY <2>1, <2>2 DEF Cleaning
  <2>. QED
    BY <1>11, <2>3 DEF PoolInductive, TypeOK, StartClean
<1>12. CASE RemoveTree
  BY <1>12 DEF PoolInductive, LocksHeld, ClonesNeeded, GenerationsGrow,
         CleanerSpares, TypeOK, Record, Go, Generations, States, Trees,
         Places, Cleaning, Idle, NoGeneration,
         RemoveTree, Remains, Deleted
<1>13. CASE RemoveFails
  BY <1>13 DEF PoolInductive, LocksHeld, ClonesNeeded, GenerationsGrow,
         CleanerSpares, TypeOK, Record, Go, Generations, States, Trees,
         Places, Cleaning, Idle, NoGeneration,
         RemoveFails, Remains, Deleted
<1>14. CASE MarkDeleted
  BY <1>14 DEF PoolInductive, LocksHeld, ClonesNeeded, GenerationsGrow,
         CleanerSpares, TypeOK, Record, Go, Generations, States, Trees,
         Places, Cleaning, Idle, NoGeneration,
         MarkDeleted, Remains, Deleted
<1>15. CASE FinishClean
  BY <1>15 DEF PoolInductive, LocksHeld, ClonesNeeded, GenerationsGrow,
         CleanerSpares, TypeOK, Record, Go, Generations, States, Trees,
         Places, Cleaning, Idle, NoGeneration,
         FinishClean, Remains, Deleted
<1>16. CASE CrashClean
  BY <1>16 DEF PoolInductive, LocksHeld, ClonesNeeded, GenerationsGrow,
         CleanerSpares, TypeOK, Record, Go, Generations, States, Trees,
         Places, Cleaning, Idle, NoGeneration,
         CrashClean, Remains, Deleted
<1>17. CASE SettleEvent
  <2>1. PICK generation \in events :
         /\ Settled(generation)
         /\ events' = events \ {generation}
    BY <1>17 DEF SettleEvent
  <2>2. record' \in Record /\ retired' \subseteq retired
    BY <2>1 DEF PoolInductive, TypeOK, Record, Settled, Deleted
  <2>. QED
    BY <1>17, <2>1, <2>2 DEF PoolInductive, TypeOK, SettleEvent
<1>18. CASE Rebuild
  <2>1. record' \in Record
    BY <1>18 DEF PoolInductive, TypeOK, Record, Rebuild
  <2>2. record.generation \in Generations
    BY <1>18 DEF PoolInductive, TypeOK, Record, GenerationsGrow, Rebuild
  <2>3. archived' \subseteq [generation: Generations, affected: SUBSET Runs]
    BY <1>18, <2>2 DEF PoolInductive, TypeOK, Record, Rebuild, Archive
  <2>. QED
    BY <1>18, <2>1, <2>3 DEF PoolInductive, TypeOK, Rebuild
<1>19. CASE Pollute
  <2>1. OpenLeases(record) \subseteq Runs
    BY OpenLeasesRuns DEF PoolInductive
  <2>. QED
    BY <1>19, <2>1 DEF PoolInductive, TypeOK, Pollute, Trees
<1>20. CASE Restore
  BY <1>20 DEF PoolInductive, LocksHeld, ClonesNeeded, GenerationsGrow,
         CleanerSpares, TypeOK, Record, Go, Generations, States, Trees,
         Places, Cleaning, Idle, NoGeneration,
         Restore, Remains, Deleted
<1>21. CASE PlanClean
  BY <1>21 DEF PoolInductive, TypeOK, PlanClean
<1>. QED
  BY <1>1, <1>2, <1>3, <1>4, <1>5, <1>6, <1>7, <1>8, <1>9, <1>10, <1>11, <1>12,
     <1>13, <1>14, <1>15, <1>16, <1>17, <1>18, <1>19, <1>20, <1>21 DEF Next, RunStep,
     Maintain

\* Every step respects the locks.
LEMMA LocksStep ==
    ASSUME PoolInductive, [Next]_vars
    PROVE  LocksHeld'
<1>1. CASE UNCHANGED vars
  BY <1>1 DEF PoolInductive, LocksHeld, Preparing, Sharing, vars
<1>2. ASSUME NEW run \in Runs, Acquire(run) PROVE LocksHeld'
  BY <1>2 DEF PoolInductive, TypeOK, Acquire, LocksHeld, Preparing, Sharing,
         Go, PrepareFree, ExclusiveHeld, SharedHeld, LockFree, Idle
<1>3. ASSUME NEW run \in Runs, StartClone(run) PROVE LocksHeld'
  BY <1>3 DEF PoolInductive, TypeOK, StartClone, LocksHeld, Preparing, Sharing,
         Go, PrepareFree, ExclusiveHeld, SharedHeld, LockFree, Idle
<1>4. ASSUME NEW run \in Runs, FinishClone(run) PROVE LocksHeld'
  BY <1>4 DEF PoolInductive, TypeOK, FinishClone, LocksHeld, Preparing,
     Sharing,
         Go, PrepareFree, ExclusiveHeld, SharedHeld, LockFree, Idle
<1>5. ASSUME NEW run \in Runs, FailClone(run) PROVE LocksHeld'
  BY <1>5 DEF PoolInductive, TypeOK, FailClone, LocksHeld, Preparing, Sharing,
         Go, PrepareFree, ExclusiveHeld, SharedHeld, LockFree, Idle
<1>6. ASSUME NEW run \in Runs, Share(run) PROVE LocksHeld'
  BY <1>6 DEF PoolInductive, TypeOK, Share, LocksHeld, Preparing, Sharing,
         Go, PrepareFree, ExclusiveHeld, SharedHeld, LockFree, Idle
<1>7. ASSUME NEW run \in Runs, Enter(run) PROVE LocksHeld'
  BY <1>7 DEF PoolInductive, TypeOK, Enter, LocksHeld, Preparing, Sharing,
         Go, PrepareFree, ExclusiveHeld, SharedHeld, LockFree, Idle
<1>8. ASSUME NEW run \in Runs, Refuse(run) PROVE LocksHeld'
  BY <1>8 DEF PoolInductive, TypeOK, Refuse, LocksHeld, Preparing, Sharing,
         Go, PrepareFree, ExclusiveHeld, SharedHeld, LockFree, Idle
<1>9. ASSUME NEW run \in Runs, Exit(run) PROVE LocksHeld'
  BY <1>9 DEF PoolInductive, TypeOK, Exit, LocksHeld, Preparing, Sharing,
         Go, PrepareFree, ExclusiveHeld, SharedHeld, LockFree, Idle
<1>10. ASSUME NEW run \in Runs, CrashRun(run) PROVE LocksHeld'
  BY <1>10 DEF PoolInductive, TypeOK, CrashRun, LocksHeld, Preparing, Sharing,
         Go, PrepareFree, ExclusiveHeld, SharedHeld, LockFree, Idle
<1>11. CASE StartClean
  BY <1>11 DEF PoolInductive, TypeOK, StartClean, LocksHeld, Preparing,
     Sharing,
         Go, PrepareFree, ExclusiveHeld, SharedHeld, LockFree, Idle
<1>12. CASE RemoveTree
  BY <1>12 DEF PoolInductive, TypeOK, RemoveTree, LocksHeld, Preparing,
     Sharing,
         Go, PrepareFree, ExclusiveHeld, SharedHeld, LockFree, Idle
<1>13. CASE RemoveFails
  BY <1>13 DEF PoolInductive, TypeOK, RemoveFails, LocksHeld, Preparing,
     Sharing,
         Go, PrepareFree, ExclusiveHeld, SharedHeld, LockFree, Idle
<1>14. CASE MarkDeleted
  BY <1>14 DEF PoolInductive, TypeOK, MarkDeleted, LocksHeld, Preparing,
     Sharing,
         Go, PrepareFree, ExclusiveHeld, SharedHeld, LockFree, Idle
<1>15. CASE FinishClean
  BY <1>15 DEF PoolInductive, TypeOK, FinishClean, LocksHeld, Preparing,
     Sharing,
         Go, PrepareFree, ExclusiveHeld, SharedHeld, LockFree, Idle
<1>16. CASE CrashClean
  BY <1>16 DEF PoolInductive, TypeOK, CrashClean, LocksHeld, Preparing,
     Sharing,
         Go, PrepareFree, ExclusiveHeld, SharedHeld, LockFree, Idle
<1>17. CASE SettleEvent
  BY <1>17 DEF PoolInductive, TypeOK, SettleEvent, LocksHeld, Preparing,
     Sharing,
         Go, PrepareFree, ExclusiveHeld, SharedHeld, LockFree, Idle
<1>18. CASE Rebuild
  BY <1>18 DEF PoolInductive, TypeOK, Rebuild, LocksHeld, Preparing, Sharing,
         Go, PrepareFree, ExclusiveHeld, SharedHeld, LockFree, Idle
<1>19. CASE Pollute
  BY <1>19 DEF PoolInductive, TypeOK, Pollute, LocksHeld, Preparing, Sharing,
         Go, PrepareFree, ExclusiveHeld, SharedHeld, LockFree, Idle
<1>20. CASE Restore
  BY <1>20 DEF PoolInductive, TypeOK, Restore, LocksHeld, Preparing, Sharing,
         Go, PrepareFree, ExclusiveHeld, SharedHeld, LockFree, Idle
<1>21. CASE PlanClean
  BY <1>21 DEF PoolInductive, LocksHeld, PlanClean
<1>. QED
  BY <1>1, <1>2, <1>3, <1>4, <1>5, <1>6, <1>7, <1>8, <1>9, <1>10, <1>11, <1>12,
     <1>13, <1>14, <1>15, <1>16, <1>17, <1>18, <1>19, <1>20, <1>21 DEF Next, RunStep,
     Maintain

\* Nobody else makes a checkout usable while a process prepares one.
LEMMA ClonesStep ==
    ASSUME PoolInductive, [Next]_vars
    PROVE  ClonesNeeded'
<1>1. CASE UNCHANGED vars
  BY <1>1 DEF PoolInductive, ClonesNeeded, Unusable, vars
<1>2. ASSUME NEW run \in Runs, Acquire(run) PROVE ClonesNeeded'
  BY <1>2 DEF PoolInductive, TypeOK, Record, Acquire, Deleted, Idle,
         ClonesNeeded, LocksHeld, Preparing, Sharing, Unusable, Go,
         ExclusiveHeld, SharedHeld, LockFree
<1>3. ASSUME NEW run \in Runs, StartClone(run) PROVE ClonesNeeded'
  BY <1>3 DEF PoolInductive, TypeOK, Record, StartClone, Deleted, Idle,
         ClonesNeeded, LocksHeld, Preparing, Sharing, Unusable, Go,
         ExclusiveHeld, SharedHeld, LockFree
<1>4. ASSUME NEW run \in Runs, FinishClone(run) PROVE ClonesNeeded'
  BY <1>4 DEF PoolInductive, TypeOK, Record, FinishClone, Deleted, Idle,
         ClonesNeeded, LocksHeld, Preparing, Sharing, Unusable, Go,
         ExclusiveHeld, SharedHeld, LockFree
<1>5. ASSUME NEW run \in Runs, FailClone(run) PROVE ClonesNeeded'
  BY <1>5 DEF PoolInductive, TypeOK, Record, FailClone, Deleted, Idle,
         ClonesNeeded, LocksHeld, Preparing, Sharing, Unusable, Go,
         ExclusiveHeld, SharedHeld, LockFree
<1>6. ASSUME NEW run \in Runs, Share(run) PROVE ClonesNeeded'
  BY <1>6 DEF PoolInductive, TypeOK, Record, Share, Deleted, Idle,
         ClonesNeeded, LocksHeld, Preparing, Sharing, Unusable, Go,
         ExclusiveHeld, SharedHeld, LockFree
<1>7. ASSUME NEW run \in Runs, Enter(run) PROVE ClonesNeeded'
  BY <1>7 DEF PoolInductive, TypeOK, Record, Enter, Deleted, Idle,
         ClonesNeeded, LocksHeld, Preparing, Sharing, Unusable, Go,
         ExclusiveHeld, SharedHeld, LockFree
<1>8. ASSUME NEW run \in Runs, Refuse(run) PROVE ClonesNeeded'
  <2>1. record' = record \/ (Ready /\ record' = Quarantined(record))
    BY <1>8 DEF Refuse
  <2>2. CASE record' = record
    BY <1>8, <2>2 DEF PoolInductive, TypeOK, ClonesNeeded, Unusable, Refuse, Go
  <2>3. CASE Ready
    <3>1. \A other \in Runs : pc[other] \notin Preparing
      BY <2>3 DEF PoolInductive, ClonesNeeded, Preparing, Unusable, Ready
    <3>. QED
      BY <1>8, <3>1 DEF PoolInductive, TypeOK, ClonesNeeded, Preparing, Refuse,
         Go
  <2>. QED
    BY <2>1, <2>2, <2>3
<1>9. ASSUME NEW run \in Runs, Exit(run) PROVE ClonesNeeded'
  <2>1. record.state \in {"READY", "QUARANTINED"} /\ ~record.deleted
    BY <1>9 DEF PoolInductive, ReadersKeepTree, Exit
  <2>2. \A other \in Runs : pc[other] \notin Preparing
    BY <1>9, <2>1 DEF PoolInductive, ClonesNeeded, LocksHeld, Preparing,
         Sharing, Unusable, Exit
  <2>. QED
    BY <1>9, <2>2 DEF PoolInductive, TypeOK, ClonesNeeded, Preparing, Exit, Go
<1>10. ASSUME NEW run \in Runs, CrashRun(run) PROVE ClonesNeeded'
  BY <1>10 DEF PoolInductive, TypeOK, Record, CrashRun, Deleted, Idle,
         ClonesNeeded, LocksHeld, Preparing, Sharing, Unusable, Go,
         ExclusiveHeld, SharedHeld, LockFree
<1>11. CASE StartClean
  BY <1>11 DEF PoolInductive, TypeOK, Record, StartClean, Deleted, Idle,
         ClonesNeeded, LocksHeld, Preparing, Sharing, Unusable, Go,
         ExclusiveHeld, SharedHeld, LockFree
<1>12. CASE RemoveTree
  BY <1>12 DEF PoolInductive, TypeOK, Record, RemoveTree, Deleted, Idle,
         ClonesNeeded, LocksHeld, Preparing, Sharing, Unusable, Go,
         ExclusiveHeld, SharedHeld, LockFree
<1>13. CASE RemoveFails
  BY <1>13 DEF PoolInductive, TypeOK, Record, RemoveFails, Deleted, Idle,
         ClonesNeeded, LocksHeld, Preparing, Sharing, Unusable, Go,
         ExclusiveHeld, SharedHeld, LockFree
<1>14. CASE MarkDeleted
  BY <1>14 DEF PoolInductive, TypeOK, Record, MarkDeleted, Deleted, Idle,
         ClonesNeeded, LocksHeld, Preparing, Sharing, Unusable, Go,
         ExclusiveHeld, SharedHeld, LockFree
<1>15. CASE FinishClean
  BY <1>15 DEF PoolInductive, TypeOK, Record, FinishClean, Deleted, Idle,
         ClonesNeeded, LocksHeld, Preparing, Sharing, Unusable, Go,
         ExclusiveHeld, SharedHeld, LockFree
<1>16. CASE CrashClean
  BY <1>16 DEF PoolInductive, TypeOK, Record, CrashClean, Deleted, Idle,
         ClonesNeeded, LocksHeld, Preparing, Sharing, Unusable, Go,
         ExclusiveHeld, SharedHeld, LockFree
<1>17. CASE SettleEvent
  <2>1. PICK generation \in events : trees[generation] = "absent"
           /\ Settled(generation)
    BY <1>17 DEF SettleEvent
  <2>2. CASE record.generation # generation
    <3>1. record' = record
      BY <2>1, <2>2 DEF PoolInductive, TypeOK, Record, Settled, Deleted
    <3>. QED
      BY <1>17, <3>1 DEF PoolInductive, ClonesNeeded, Unusable, SettleEvent
  <2>3. CASE record.generation = generation
    <3>1. \A other \in Runs : pc[other] # "cloning"
      BY <2>1, <2>3 DEF PoolInductive, ClonesNeeded
    <3>. QED
      BY <1>17, <2>1, <2>3, <3>1
         DEF PoolInductive, TypeOK, Record, ClonesNeeded, Unusable, Settled,
             Deleted, SettleEvent
  <2>. QED
    BY <2>2, <2>3
<1>18. CASE Rebuild
  BY <1>18 DEF PoolInductive, TypeOK, Record, Rebuild, Deleted, Idle,
         ClonesNeeded, LocksHeld, Preparing, Sharing, Unusable, Go,
         ExclusiveHeld, SharedHeld, LockFree
<1>19. CASE Pollute
  BY <1>19 DEF PoolInductive, TypeOK, Record, Pollute, Deleted, Idle,
         ClonesNeeded, LocksHeld, Preparing, Sharing, Unusable, Go,
         ExclusiveHeld, SharedHeld, LockFree
<1>20. CASE Restore
  BY <1>20 DEF PoolInductive, TypeOK, Record, Restore, Deleted, Idle,
         ClonesNeeded, LocksHeld, Preparing, Sharing, Unusable, Go,
         ExclusiveHeld, SharedHeld, LockFree
<1>21. CASE PlanClean
  BY <1>21 DEF PoolInductive, ClonesNeeded, Unusable, PlanClean
<1>. QED
  BY <1>1, <1>2, <1>3, <1>4, <1>5, <1>6, <1>7, <1>8, <1>9, <1>10, <1>11, <1>12,
     <1>13, <1>14, <1>15, <1>16, <1>17, <1>18, <1>19, <1>20, <1>21 DEF Next, RunStep,
     Maintain

\* Generations only grow.
LEMMA GenerationsStep ==
    ASSUME PoolInductive, [Next]_vars
    PROVE  GenerationsGrow'
<1>1. CASE UNCHANGED vars
  BY <1>1 DEF PoolInductive, GenerationsGrow, vars
<1>2. ASSUME NEW run \in Runs, Acquire(run) PROVE GenerationsGrow'
  BY <1>2 DEF PoolInductive, TypeOK, Record, GenerationsGrow, ClonesNeeded,
         Acquire, Deleted
<1>3. ASSUME NEW run \in Runs, StartClone(run) PROVE GenerationsGrow'
  <2>1. PICK generation \in Generations :
         /\ generation = record.generation + 1
         /\ record'.generation = generation
    BY <1>3 DEF StartClone
  <2>2. record.generation \in Nat
           /\ \A item \in retired : item.generation \in Nat
    BY BoundsAssumption DEF PoolInductive, TypeOK, Record, Generations,
       NoGeneration
  <2>3. \A item \in retired' : item.generation <= record.generation
    <3>1. \A item \in retired' :
             item \in retired \/ item.generation = record.generation
      BY <1>3 DEF StartClone
    <3>. QED
      BY <2>2, <3>1 DEF PoolInductive, GenerationsGrow
  <2>4. \A item \in retired' : item.generation \in Nat
    <3>1. \A item \in retired' :
             item \in retired \/ item.generation = record.generation
      BY <1>3 DEF StartClone
    <3>. QED
      BY <2>2, <3>1
  <2>. QED
    BY <2>1, <2>2, <2>3, <2>4 DEF GenerationsGrow, NoGeneration
<1>4. ASSUME NEW run \in Runs, FinishClone(run) PROVE GenerationsGrow'
  BY <1>4 DEF PoolInductive, TypeOK, Record, GenerationsGrow, ClonesNeeded,
         FinishClone, Deleted
<1>5. ASSUME NEW run \in Runs, FailClone(run) PROVE GenerationsGrow'
  BY <1>5 DEF PoolInductive, TypeOK, Record, GenerationsGrow, ClonesNeeded,
         FailClone, Deleted
<1>6. ASSUME NEW run \in Runs, Share(run) PROVE GenerationsGrow'
  BY <1>6 DEF PoolInductive, TypeOK, Record, GenerationsGrow, ClonesNeeded,
         Share, Deleted
<1>7. ASSUME NEW run \in Runs, Enter(run) PROVE GenerationsGrow'
  BY <1>7 DEF PoolInductive, TypeOK, Record, GenerationsGrow, ClonesNeeded,
         Enter, Deleted
<1>8. ASSUME NEW run \in Runs, Refuse(run) PROVE GenerationsGrow'
  <2>1. /\ record'.generation = record.generation
        /\ record'.state # "NONE" => record.state # "NONE"
        /\ retired' = retired
    BY <1>8, QuarantinedKeeps DEF PoolInductive, TypeOK, Refuse, Ready
  <2>2. GenerationsGrow /\ TypeOK
    BY DEF PoolInductive
  <2>. QED
    BY <2>1, <2>2
       DEF GenerationsGrow, TypeOK, Record, Generations, NoGeneration
<1>9. ASSUME NEW run \in Runs, Exit(run) PROVE GenerationsGrow'
  <2>1. /\ record'.generation = record.generation
        /\ record'.state # "NONE" => record.state # "NONE"
        /\ retired' = retired
    <3>1. record.state # "NONE"
      BY <1>9 DEF PoolInductive, ReadersKeepTree, Exit
    <3>. QED
      BY <1>9, <3>1, ExitKeeps DEF PoolInductive, Exit
  <2>2. GenerationsGrow /\ TypeOK
    BY DEF PoolInductive
  <2>. QED
    BY <2>1, <2>2
       DEF GenerationsGrow, TypeOK, Record, Generations, NoGeneration
<1>10. ASSUME NEW run \in Runs, CrashRun(run) PROVE GenerationsGrow'
  BY <1>10 DEF PoolInductive, TypeOK, Record, GenerationsGrow, ClonesNeeded,
         CrashRun, Deleted
<1>11. CASE StartClean
  BY <1>11 DEF PoolInductive, TypeOK, Record, GenerationsGrow, ClonesNeeded,
         StartClean, Deleted
<1>12. CASE RemoveTree
  BY <1>12 DEF PoolInductive, TypeOK, Record, GenerationsGrow, ClonesNeeded,
         RemoveTree, Deleted
<1>13. CASE RemoveFails
  BY <1>13 DEF PoolInductive, TypeOK, Record, GenerationsGrow, ClonesNeeded,
         RemoveFails, Deleted
<1>14. CASE MarkDeleted
  BY <1>14 DEF PoolInductive, TypeOK, Record, GenerationsGrow, ClonesNeeded,
         MarkDeleted, Deleted
<1>15. CASE FinishClean
  BY <1>15 DEF PoolInductive, TypeOK, Record, GenerationsGrow, ClonesNeeded,
         FinishClean, Deleted
<1>16. CASE CrashClean
  BY <1>16 DEF PoolInductive, TypeOK, Record, GenerationsGrow, ClonesNeeded,
         CrashClean, Deleted
<1>17. CASE SettleEvent
  <2>1. PICK generation \in events : Settled(generation)
    BY <1>17 DEF SettleEvent
  <2>. QED
    BY <2>1 DEF PoolInductive, TypeOK, Record, GenerationsGrow, Settled,
       Deleted
<1>18. CASE Rebuild
  BY <1>18 DEF PoolInductive, TypeOK, Record, GenerationsGrow, ClonesNeeded,
         Rebuild, Deleted
<1>19. CASE Pollute
  BY <1>19 DEF PoolInductive, TypeOK, Record, GenerationsGrow, ClonesNeeded,
         Pollute, Deleted
<1>20. CASE Restore
  BY <1>20 DEF PoolInductive, TypeOK, Record, GenerationsGrow, ClonesNeeded,
         Restore, Deleted
<1>21. CASE PlanClean
  BY <1>21 DEF PoolInductive, GenerationsGrow, PlanClean
<1>. QED
  BY <1>1, <1>2, <1>3, <1>4, <1>5, <1>6, <1>7, <1>8, <1>9, <1>10, <1>11, <1>12,
     <1>13, <1>14, <1>15, <1>16, <1>17, <1>18, <1>19, <1>20, <1>21 DEF Next, RunStep,
     Maintain

\* A cleanup under way keeps others from a quarantine of its generation.
LEMMA CleanerStep ==
    ASSUME PoolInductive, [Next]_vars
    PROVE  CleanerSpares'
<1>1. CASE UNCHANGED vars
  BY <1>1 DEF PoolInductive, CleanerSpares, vars
<1>2. ASSUME NEW run \in Runs, Acquire(run) PROVE CleanerSpares'
  BY <1>2 DEF PoolInductive, TypeOK, Record, CleanerSpares, Acquire, Deleted,
     Idle, Generations
<1>3. ASSUME NEW run \in Runs, StartClone(run) PROVE CleanerSpares'
  BY <1>3 DEF PoolInductive, CleanerSpares, StartClone, LockFree, ExclusiveHeld
<1>4. ASSUME NEW run \in Runs, FinishClone(run) PROVE CleanerSpares'
  BY <1>4 DEF PoolInductive, TypeOK, Record, CleanerSpares, FinishClone,
     Deleted, Idle, Generations
<1>5. ASSUME NEW run \in Runs, FailClone(run) PROVE CleanerSpares'
  BY <1>5 DEF PoolInductive, TypeOK, Record, CleanerSpares, FailClone, Deleted,
     Idle, Generations
<1>6. ASSUME NEW run \in Runs, Share(run) PROVE CleanerSpares'
  BY <1>6 DEF PoolInductive, TypeOK, Record, CleanerSpares, Share, Deleted,
     Idle, Generations
<1>7. ASSUME NEW run \in Runs, Enter(run) PROVE CleanerSpares'
  BY <1>7 DEF PoolInductive, TypeOK, Record, CleanerSpares, Enter, Deleted,
     Idle, Generations
<1>8. ASSUME NEW run \in Runs, Refuse(run) PROVE CleanerSpares'
  <2>1. cleaner = Idle
    BY <1>8 DEF PoolInductive, LocksHeld, Sharing, Refuse
  <2>. QED
    BY <1>8, <2>1 DEF CleanerSpares, Refuse, Idle
<1>9. ASSUME NEW run \in Runs, Exit(run) PROVE CleanerSpares'
  <2>1. cleaner = Idle
    BY <1>9 DEF PoolInductive, ReadersKeepTree, ExclusiveHeld, Exit
  <2>. QED
    BY <1>9, <2>1 DEF CleanerSpares, Exit, Idle
<1>10. ASSUME NEW run \in Runs, CrashRun(run) PROVE CleanerSpares'
  BY <1>10 DEF PoolInductive, TypeOK, Record, CleanerSpares, CrashRun, Deleted,
     Idle, Generations
<1>11. CASE StartClean
  <2>1. PICK path \in plans :
         \/ /\ Cleanable
            /\ cleaner' = [at |-> "deleting", path |-> path,
                           of |-> record.generation]
         \/ \E item \in retired :
               /\ item.generation = path
               /\ cleaner' = [at |-> "deleting", path |-> path, of |-> path]
    BY <1>11 DEF StartClean
  <2>2. \A item \in retired : item.generation # record.generation
    BY BoundsAssumption
       DEF PoolInductive, GenerationsGrow, TypeOK, Record, Generations,
          NoGeneration
  <2>3. path \in Generations /\ record' = record
    BY <1>11 DEF PoolInductive, TypeOK, StartClean
  <2>4. CASE /\ Cleanable
             /\ cleaner' = [at |-> "deleting", path |-> path,
                            of |-> record.generation]
    <3>1. record.generation \in Generations /\ record.state # "QUARANTINED"
      BY <2>4 DEF PoolInductive, GenerationsGrow, TypeOK, Record, Cleanable
    <3>. QED
      BY <2>3, <2>4, <3>1 DEF CleanerSpares, Idle
  <2>5. CASE \E item \in retired :
               /\ item.generation = path
               /\ cleaner' = [at |-> "deleting", path |-> path, of |-> path]
    BY <2>2, <2>3, <2>5 DEF CleanerSpares, Idle
  <2>. QED
    BY <2>1, <2>4, <2>5
<1>12. CASE RemoveTree
  BY <1>12 DEF PoolInductive, TypeOK, Record, CleanerSpares, RemoveTree,
     Deleted, Idle, Generations
<1>13. CASE RemoveFails
  BY <1>13 DEF PoolInductive, TypeOK, Record, CleanerSpares, RemoveFails,
     Deleted, Idle, Generations
<1>14. CASE MarkDeleted
  BY <1>14 DEF PoolInductive, TypeOK, Record, CleanerSpares, MarkDeleted,
     Deleted, Idle, Generations
<1>15. CASE FinishClean
  BY <1>15 DEF PoolInductive, TypeOK, Record, CleanerSpares, FinishClean,
     Deleted, Idle, Generations
<1>16. CASE CrashClean
  BY <1>16 DEF PoolInductive, TypeOK, Record, CleanerSpares, CrashClean,
     Deleted, Idle, Generations
<1>17. CASE SettleEvent
  BY <1>17 DEF PoolInductive, CleanerSpares, SettleEvent, Idle
<1>18. CASE Rebuild
  BY <1>18 DEF PoolInductive, CleanerSpares, Rebuild, LockFree, ExclusiveHeld,
     Idle
<1>19. CASE Pollute
  BY <1>19 DEF PoolInductive, TypeOK, Record, CleanerSpares, Pollute, Deleted,
     Idle, Generations
<1>20. CASE Restore
  BY <1>20 DEF PoolInductive, TypeOK, Record, CleanerSpares, Restore, Deleted,
     Idle, Generations
<1>21. CASE PlanClean
  BY <1>21 DEF PoolInductive, CleanerSpares, PlanClean
<1>. QED
  BY <1>1, <1>2, <1>3, <1>4, <1>5, <1>6, <1>7, <1>8, <1>9, <1>10, <1>11, <1>12,
     <1>13, <1>14, <1>15, <1>16, <1>17, <1>18, <1>19, <1>20, <1>21 DEF Next, RunStep,
     Maintain

\* A quarantine ends only when its verdict is archived.
LEMMA VerdictStep ==
    ASSUME PoolInductive, [Next]_vars
    PROVE  VerdictKept'
<1>1. CASE UNCHANGED vars
  BY <1>1 DEF PoolInductive, VerdictKept, vars
<1>2. ASSUME NEW run \in Runs, Acquire(run) PROVE VerdictKept'
  BY <1>2 DEF PoolInductive, TypeOK, Record, VerdictKept, GenerationsGrow,
         Acquire, Archive
<1>3. ASSUME NEW run \in Runs, StartClone(run) PROVE VerdictKept'
  BY <1>3 DEF VerdictKept, StartClone
<1>4. ASSUME NEW run \in Runs, FinishClone(run) PROVE VerdictKept'
  BY <1>4 DEF PoolInductive, TypeOK, Record, VerdictKept, GenerationsGrow,
         FinishClone, Archive
<1>5. ASSUME NEW run \in Runs, FailClone(run) PROVE VerdictKept'
  BY <1>5 DEF PoolInductive, TypeOK, Record, VerdictKept, GenerationsGrow,
         FailClone, Archive
<1>6. ASSUME NEW run \in Runs, Share(run) PROVE VerdictKept'
  BY <1>6 DEF PoolInductive, TypeOK, Record, VerdictKept, GenerationsGrow,
         Share, Archive
<1>7. ASSUME NEW run \in Runs, Enter(run) PROVE VerdictKept'
  BY <1>7 DEF PoolInductive, TypeOK, Record, VerdictKept, GenerationsGrow,
         Enter, Archive
<1>8. ASSUME NEW run \in Runs, Refuse(run) PROVE VerdictKept'
  <2>1. CASE record' = record
    BY <1>8, <2>1 DEF PoolInductive, VerdictKept, Refuse
  <2>2. CASE Ready /\ trees[record.generation] # "absent"
    <3>1. record' = Quarantined(record)
      BY <1>8, <2>2 DEF Refuse
    <3>2. ~record'.deleted /\ trees'[record'.generation] # "absent"
      BY <1>8, <2>2, <3>1, QuarantinedKeeps DEF PoolInductive, TypeOK, Refuse,
         Ready
    <3>. QED
      BY <3>2 DEF VerdictKept
  <2>. QED
    BY <1>8, <2>1, <2>2 DEF Refuse
<1>9. ASSUME NEW run \in Runs, Exit(run) PROVE VerdictKept'
  <2>1. /\ record'.deleted = FALSE
        /\ trees'[record'.generation] # "absent"
    BY <1>9, ExitKeeps DEF PoolInductive, ReadersKeepTree, TypeOK, Record, Exit
  <2>. QED
    BY <2>1 DEF VerdictKept
<1>10. ASSUME NEW run \in Runs, CrashRun(run) PROVE VerdictKept'
  BY <1>10 DEF PoolInductive, TypeOK, Record, VerdictKept, GenerationsGrow,
         CrashRun, Archive
<1>11. CASE StartClean
  BY <1>11 DEF PoolInductive, TypeOK, Record, VerdictKept, GenerationsGrow,
         StartClean, Archive
<1>12. CASE RemoveTree
  <2>1. cleaner.path = record.generation => record.state # "QUARANTINED"
    BY <1>12 DEF PoolInductive, CleanerSpares, RemoveTree
  <2>. QED
    BY <1>12, <2>1 DEF PoolInductive, TypeOK, VerdictKept, RemoveTree
<1>13. CASE RemoveFails
  BY <1>13 DEF PoolInductive, TypeOK, Record, VerdictKept, GenerationsGrow,
         RemoveFails, Remains, Archive
<1>14. CASE MarkDeleted
  <2>1. cleaner.of = record.generation => record.state # "QUARANTINED"
    BY <1>14 DEF PoolInductive, CleanerSpares, MarkDeleted
  <2>2. \/ record'.state # "QUARANTINED"
        \/ record' = record
    BY <1>14, <2>1 DEF PoolInductive, TypeOK, Record, MarkDeleted, Deleted
  <2>. QED
    BY <1>14, <2>2 DEF PoolInductive, VerdictKept, MarkDeleted
<1>15. CASE FinishClean
  BY <1>15 DEF PoolInductive, TypeOK, Record, VerdictKept, GenerationsGrow,
         FinishClean, Archive
<1>16. CASE CrashClean
  <2>1. \A generation \in Generations :
         trees'[generation] = "absent" => trees[generation] = "absent"
    BY <1>16 DEF PoolInductive, TypeOK, CrashClean, Remains
  <2>2. record.state = "QUARANTINED" => record.generation \in Generations
    BY DEF PoolInductive, TypeOK, Record, GenerationsGrow
  <2>. QED
    BY <1>16, <2>1, <2>2 DEF PoolInductive, VerdictKept, CrashClean
<1>17. CASE SettleEvent
  <2>1. PICK generation \in events :
         trees[generation] = "absent" /\ Settled(generation)
    BY <1>17 DEF SettleEvent
  <2>2. \/ record'.state # "QUARANTINED"
        \/ record' = record
    BY <2>1
       DEF PoolInductive, TypeOK, Record, VerdictKept, Settled, Deleted
  <2>. QED
    BY <1>17, <2>2 DEF PoolInductive, VerdictKept, SettleEvent
<1>18. CASE Rebuild
  BY <1>18 DEF PoolInductive, TypeOK, Record, VerdictKept, GenerationsGrow,
         Rebuild, Archive
<1>19. CASE Pollute
  BY <1>19 DEF PoolInductive, TypeOK, Record, VerdictKept, GenerationsGrow,
         Pollute, Archive
<1>20. CASE Restore
  BY <1>20 DEF PoolInductive, TypeOK, Record, VerdictKept, GenerationsGrow,
         Restore, Archive
<1>21. CASE PlanClean
  BY <1>21 DEF PoolInductive, VerdictKept, PlanClean
<1>. QED
  BY <1>1, <1>2, <1>3, <1>4, <1>5, <1>6, <1>7, <1>8, <1>9, <1>10, <1>11, <1>12,
     <1>13, <1>14, <1>15, <1>16, <1>17, <1>18, <1>19, <1>20, <1>21 DEF Next, RunStep,
     Maintain

\* What a run reads stays.
LEMMA ReadersStep ==
    ASSUME PoolInductive, [Next]_vars
    PROVE  ReadersKeepTree'
<1>1. CASE UNCHANGED vars
  BY <1>1 DEF PoolInductive, ReadersKeepTree, ExclusiveHeld, OpenLeases, vars
<1>2. ASSUME NEW run \in Runs, Acquire(run) PROVE ReadersKeepTree'
  BY <1>2 DEF PoolInductive, TypeOK, Record, ReadersKeepTree, ExclusiveHeld,
         SharedHeld, LockFree, OpenLeases, LocksHeld, Sharing, GenerationsGrow,
         NoGeneration, Idle, Go, Acquire, Deleted
<1>3. ASSUME NEW run \in Runs, StartClone(run) PROVE ReadersKeepTree'
  BY <1>3 DEF PoolInductive, TypeOK, Record, ReadersKeepTree, ExclusiveHeld,
         SharedHeld, LockFree, OpenLeases, LocksHeld, Sharing, GenerationsGrow,
         NoGeneration, Idle, Go, StartClone, Deleted
<1>4. ASSUME NEW run \in Runs, FinishClone(run) PROVE ReadersKeepTree'
  BY <1>4 DEF PoolInductive, TypeOK, Record, ReadersKeepTree, ExclusiveHeld,
         SharedHeld, LockFree, OpenLeases, LocksHeld, Sharing, GenerationsGrow,
         NoGeneration, Idle, Go, FinishClone, Deleted
<1>5. ASSUME NEW run \in Runs, FailClone(run) PROVE ReadersKeepTree'
  BY <1>5 DEF PoolInductive, TypeOK, Record, ReadersKeepTree, ExclusiveHeld,
         SharedHeld, LockFree, OpenLeases, LocksHeld, Sharing, GenerationsGrow,
         NoGeneration, Idle, Go, FailClone, Deleted
<1>6. ASSUME NEW run \in Runs, Share(run) PROVE ReadersKeepTree'
  BY <1>6 DEF PoolInductive, TypeOK, Record, ReadersKeepTree, ExclusiveHeld,
         SharedHeld, LockFree, OpenLeases, LocksHeld, Sharing, GenerationsGrow,
         NoGeneration, Idle, Go, Share, Deleted
<1>7. ASSUME NEW run \in Runs, Enter(run) PROVE ReadersKeepTree'
  <2>. DEFINE lease == [run |-> run, end |-> Open]
  <2>1. /\ record'.state = "READY" /\ ~record'.deleted
        /\ record'.generation = record.generation
        /\ record'.leases = Append(record.leases, lease)
        /\ trees' = trees /\ trees[record.generation] # "absent"
    BY <1>7 DEF PoolInductive, TypeOK, Record, Enter, Ready
  <2>2. ~ExclusiveHeld'
    BY <1>7 DEF PoolInductive, TypeOK, LocksHeld, Sharing, ExclusiveHeld,
       Enter,
       Go
  <2>3. record.leases \in Seq(Lease) /\ lease \in Lease
    BY DEF PoolInductive, TypeOK, Record, Lease, Open
  <2>. DEFINE length == Len(record.leases)
  <2>4. /\ length \in Nat
        /\ DOMAIN record.leases = 1..length
        /\ DOMAIN record'.leases = 1..(length + 1)
        /\ \A i \in 1..length : record'.leases[i] = record.leases[i]
        /\ record'.leases[length + 1] = lease
    <3>. HIDE DEF lease
    <3>. QED
      BY <2>1, <2>3
  <2>5. OpenLeases(record) \cup {run} \subseteq OpenLeases(record')
    <3>1. OpenLeases(record) \subseteq OpenLeases(record')
      BY <2>4 DEF OpenLeases
    <3>2. lease.run = run /\ lease.end = Open
      OBVIOUS
    <3>. HIDE DEF length, lease
    <3>3. length + 1 \in DOMAIN record'.leases
      BY <2>4
    <3>4. run \in OpenLeases(record')
      BY <2>4, <3>2, <3>3 DEF OpenLeases
    <3>. QED
      BY <3>1, <3>4
  <2>6. \A other \in Runs : pc'[other] = "reading" =>
          other = run \/ pc[other] = "reading"
    BY <1>7 DEF PoolInductive, TypeOK, Enter, Go
  <2>. QED
    BY <2>1, <2>2, <2>5, <2>6 DEF PoolInductive, ReadersKeepTree
<1>8. ASSUME NEW run \in Runs, Refuse(run) PROVE ReadersKeepTree'
  <2>. SUFFICES ASSUME NEW other \in Runs, pc'[other] = "reading"
                PROVE  /\ ~ExclusiveHeld'
                       /\ record'.state \in {"READY", "QUARANTINED"}
                       /\ ~record'.deleted
                       /\ trees'[record'.generation] # "absent"
                       /\ other \in OpenLeases(record')
    BY DEF ReadersKeepTree
  <2>1. pc[other] = "reading"
    BY <1>8 DEF PoolInductive, TypeOK, Refuse, Go
  <2>2. ~ExclusiveHeld'
    BY <1>8, <2>1 DEF PoolInductive, TypeOK, ReadersKeepTree, ExclusiveHeld,
       Refuse, Go
  <2>3. /\ record'.state \in {record.state, "QUARANTINED"}
        /\ record'.generation = record.generation
        /\ record'.deleted = record.deleted
        /\ record'.leases = record.leases
        /\ trees' = trees
    BY <1>8, QuarantinedKeeps DEF PoolInductive, TypeOK, Refuse
  <2>. QED
    BY <2>1, <2>2, <2>3 DEF PoolInductive, ReadersKeepTree, OpenLeases
<1>9. ASSUME NEW run \in Runs, Exit(run) PROVE ReadersKeepTree'
  <2>. SUFFICES ASSUME NEW other \in Runs, pc'[other] = "reading"
                PROVE  /\ ~ExclusiveHeld'
                       /\ record'.state \in {"READY", "QUARANTINED"}
                       /\ ~record'.deleted
                       /\ trees'[record'.generation] # "absent"
                       /\ other \in OpenLeases(record')
    BY DEF ReadersKeepTree
  <2>1. other # run /\ pc[other] = "reading"
    BY <1>9 DEF PoolInductive, TypeOK, Exit, Go
  <2>2. ~ExclusiveHeld'
    BY <1>9, <2>1 DEF PoolInductive, TypeOK, ReadersKeepTree, ExclusiveHeld,
       Exit, Go
  <2>. QED
    BY <1>9, <2>1, <2>2, ExitKeeps DEF PoolInductive, ReadersKeepTree, Exit
<1>10. ASSUME NEW run \in Runs, CrashRun(run) PROVE ReadersKeepTree'
  BY <1>10 DEF PoolInductive, TypeOK, Record, ReadersKeepTree, ExclusiveHeld,
         SharedHeld, LockFree, OpenLeases, LocksHeld, Sharing, GenerationsGrow,
         NoGeneration, Idle, Go, CrashRun, Deleted
<1>11. CASE StartClean
  BY <1>11 DEF PoolInductive, TypeOK, Record, ReadersKeepTree, ExclusiveHeld,
         SharedHeld, LockFree, OpenLeases, LocksHeld, Sharing, GenerationsGrow,
         NoGeneration, Idle, Go, StartClean, Deleted
<1>12. CASE RemoveTree
  BY <1>12 DEF PoolInductive, TypeOK, Record, ReadersKeepTree, ExclusiveHeld,
         SharedHeld, LockFree, OpenLeases, LocksHeld, Sharing, GenerationsGrow,
         NoGeneration, Idle, Go, RemoveTree, Deleted
<1>13. CASE RemoveFails
  BY <1>13 DEF PoolInductive, TypeOK, Record, ReadersKeepTree, ExclusiveHeld,
         SharedHeld, LockFree, OpenLeases, LocksHeld, Sharing, GenerationsGrow,
         NoGeneration, Idle, Go, RemoveFails, Deleted
<1>14. CASE MarkDeleted
  BY <1>14 DEF PoolInductive, TypeOK, Record, ReadersKeepTree, ExclusiveHeld,
         SharedHeld, LockFree, OpenLeases, LocksHeld, Sharing, GenerationsGrow,
         NoGeneration, Idle, Go, MarkDeleted, Deleted
<1>15. CASE FinishClean
  BY <1>15 DEF PoolInductive, TypeOK, Record, ReadersKeepTree, ExclusiveHeld,
         SharedHeld, LockFree, OpenLeases, LocksHeld, Sharing, GenerationsGrow,
         NoGeneration, Idle, Go, FinishClean, Deleted
<1>16. CASE CrashClean
  BY <1>16 DEF PoolInductive, TypeOK, Record, ReadersKeepTree, ExclusiveHeld,
         SharedHeld, LockFree, OpenLeases, LocksHeld, Sharing, GenerationsGrow,
         NoGeneration, Idle, Go, CrashClean, Deleted
<1>17. CASE SettleEvent
  <2>1. PICK generation \in events :
         trees[generation] = "absent" /\ Settled(generation)
    BY <1>17 DEF SettleEvent
  <2>. SUFFICES ASSUME NEW other \in Runs, pc[other] = "reading"
                PROVE  record' = record
    BY <1>17 DEF PoolInductive, ReadersKeepTree, ExclusiveHeld, OpenLeases,
       SettleEvent
  <2>2. trees[record.generation] # "absent"
    BY DEF PoolInductive, ReadersKeepTree
  <2>. QED
    BY <2>1, <2>2 DEF PoolInductive, TypeOK, Record, Settled, Deleted
<1>18. CASE Rebuild
  BY <1>18 DEF PoolInductive, TypeOK, Record, ReadersKeepTree, ExclusiveHeld,
         SharedHeld, LockFree, OpenLeases, LocksHeld, Sharing, GenerationsGrow,
         NoGeneration, Idle, Go, Rebuild, Deleted
<1>19. CASE Pollute
  BY <1>19 DEF PoolInductive, TypeOK, Record, ReadersKeepTree, ExclusiveHeld,
         SharedHeld, LockFree, OpenLeases, LocksHeld, Sharing, GenerationsGrow,
         NoGeneration, Idle, Go, Pollute, Deleted
<1>20. CASE Restore
  BY <1>20 DEF PoolInductive, TypeOK, Record, ReadersKeepTree, ExclusiveHeld,
         SharedHeld, LockFree, OpenLeases, LocksHeld, Sharing, GenerationsGrow,
         NoGeneration, Idle, Go, Restore, Deleted
<1>21. CASE PlanClean
  BY <1>21 DEF PoolInductive, ReadersKeepTree, ExclusiveHeld, OpenLeases,
     PlanClean
<1>. QED
  BY <1>1, <1>2, <1>3, <1>4, <1>5, <1>6, <1>7, <1>8, <1>9, <1>10, <1>11, <1>12,
     <1>13, <1>14, <1>15, <1>16, <1>17, <1>18, <1>19, <1>20, <1>21 DEF Next, RunStep,
     Maintain

-----------------------------------------------------------------------------
(***************************************************************************)
(* Theorems                                                                *)
(***************************************************************************)

\* The invariant holds at the start, and every step keeps it.
LEMMA PoolInit == Init => PoolInductive
<1>. SUFFICES ASSUME Init PROVE PoolInductive
  OBVIOUS
<1>1. TypeOK
  BY DEF Init, TypeOK, Record, States, Trees, Places, Cleaning, Idle,
         Generations, NoGeneration, Lease
<1>. QED
  BY <1>1 DEF Init, PoolInductive, LocksHeld, ClonesNeeded, GenerationsGrow,
       CleanerSpares, VerdictKept, ReadersKeepTree, Preparing, Sharing, Idle,
       NoGeneration

\* Together, the steps above keep the invariant.
LEMMA PoolStep == PoolInductive /\ [Next]_vars => PoolInductive'
  BY PoolTypeStep, LocksStep, ClonesStep, GenerationsStep, CleanerStep,
     VerdictStep, ReadersStep DEF PoolInductive

\* The invariant holds in every state the pool can reach.
THEOREM PoolInvariant == Spec => []PoolInductive
<1>. QED
  BY PoolInit, PoolStep, PTL DEF Spec

\* Leases, quarantine records and the archive keep to their types.
THEOREM PoolTypesHold == Spec => []TypeOK
<1>1. PoolInductive => TypeOK
  BY DEF PoolInductive
<1>. QED
  BY <1>1, PoolInvariant, PTL

\* The checkout of a quarantine that is not rebuilt stays, whatever old plans
\* a cleanup follows; a rebuilt one has its verdict in the archive.
THEOREM QuarantineIsSpared == Spec => []VerdictKept
<1>1. PoolInductive => VerdictKept
  BY DEF PoolInductive
<1>. QED
  BY <1>1, PoolInvariant, PTL

\* No cleanup, rebuild, clone or late settlement takes a checkout away from
\* a run that reads it: its directory stays, and its record names it.
THEOREM ReadersAreSafe == Spec => []ReadersKeepTree
<1>1. PoolInductive => ReadersKeepTree
  BY DEF PoolInductive
<1>. QED
  BY <1>1, PoolInvariant, PTL

\* What a retired quarantine found is in the archive.
LEMMA ArchivedVerdict ==
    ASSUME VerdictKept, record.state = "QUARANTINED", record.deleted
    PROVE  record.affected \subseteq UNION {item.affected : item \in archived}
<1>. DEFINE verdict == [generation |-> record.generation,
                       affected |-> record.affected]
<1>1. verdict \in archived /\ verdict.affected = record.affected
  BY DEF VerdictKept
<1>. QED
  BY <1>1

\* A run that is invalid stays so over a step.
LEMMA VerdictsStay ==
    ASSUME PoolInductive, [Next]_vars
    PROVE  InvalidRuns \subseteq InvalidRuns'
<1>1. CASE UNCHANGED vars
  BY <1>1 DEF InvalidRuns, vars
<1>2. ASSUME NEW run \in Runs, Acquire(run)
      PROVE  InvalidRuns \subseteq InvalidRuns'
  BY <1>2 DEF InvalidRuns, Acquire
<1>3. ASSUME NEW run \in Runs, StartClone(run)
      PROVE  InvalidRuns \subseteq InvalidRuns'
  <2>1. pc[run] = "preparing" /\ archived' = archived
    BY <1>3 DEF StartClone
  <2>2. Unusable
    BY <2>1 DEF PoolInductive, ClonesNeeded
  <2>3. record.state = "QUARANTINED" =>
          record.affected \subseteq UNION {item.affected : item \in archived}
    BY <2>2, ArchivedVerdict DEF PoolInductive, Unusable
  <2>4. InvalidRuns \subseteq UNION {item.affected : item \in archived}
    BY <2>3 DEF InvalidRuns
  <2>5. UNION {item.affected : item \in archived'} \subseteq InvalidRuns'
    BY DEF InvalidRuns
  <2>. QED
    BY <2>1, <2>4, <2>5
<1>4. ASSUME NEW run \in Runs, FinishClone(run)
      PROVE  InvalidRuns \subseteq InvalidRuns'
  BY <1>4 DEF PoolInductive, ClonesNeeded, FinishClone, InvalidRuns
<1>5. ASSUME NEW run \in Runs, FailClone(run)
      PROVE  InvalidRuns \subseteq InvalidRuns'
  BY <1>5 DEF PoolInductive, ClonesNeeded, FailClone, InvalidRuns
<1>6. ASSUME NEW run \in Runs, Share(run)
      PROVE  InvalidRuns \subseteq InvalidRuns'
  BY <1>6 DEF InvalidRuns, Share
<1>7. ASSUME NEW run \in Runs, Enter(run)
      PROVE  InvalidRuns \subseteq InvalidRuns'
  BY <1>7 DEF Enter, Ready, InvalidRuns
<1>8. ASSUME NEW run \in Runs, Refuse(run)
      PROVE  InvalidRuns \subseteq InvalidRuns'
  <2>1. archived' = archived /\ (record' = record \/ Ready)
    BY <1>8 DEF Refuse
  <2>. QED
    BY <2>1 DEF Ready, InvalidRuns
<1>9. ASSUME NEW run \in Runs, Exit(run)
      PROVE  InvalidRuns \subseteq InvalidRuns'
  <2>1. archived' = archived
    BY <1>9 DEF Exit
  <2>. QED
    BY <1>9, <2>1, ExitKeeps DEF PoolInductive, InvalidRuns
<1>10. ASSUME NEW run \in Runs, CrashRun(run)
       PROVE  InvalidRuns \subseteq InvalidRuns'
  BY <1>10 DEF InvalidRuns, CrashRun
<1>11. CASE StartClean
  BY <1>11 DEF InvalidRuns, StartClean
<1>12. CASE RemoveTree
  BY <1>12 DEF InvalidRuns, RemoveTree
<1>13. CASE RemoveFails
  BY <1>13 DEF InvalidRuns, RemoveFails
<1>14. CASE MarkDeleted
  <2>1. record'.state = record.state /\ record'.affected = record.affected
    BY <1>14 DEF PoolInductive, TypeOK, Record, MarkDeleted, Deleted
  <2>. QED
    BY <1>14, <2>1 DEF MarkDeleted, InvalidRuns
<1>15. CASE FinishClean
  BY <1>15 DEF InvalidRuns, FinishClean
<1>16. CASE CrashClean
  BY <1>16 DEF InvalidRuns, CrashClean
<1>17. CASE SettleEvent
  <2>1. record'.state = record.state /\ record'.affected = record.affected
    BY <1>17 DEF PoolInductive, TypeOK, Record, SettleEvent, Settled, Deleted
  <2>. QED
    BY <1>17, <2>1 DEF SettleEvent, InvalidRuns
<1>18. CASE Rebuild
  <2>1. record'.state = record.state /\ record'.affected = record.affected
    BY <1>18 DEF PoolInductive, TypeOK, Record, Rebuild
  <2>2. archived \subseteq archived'
    BY <1>18 DEF Rebuild, Archive
  <2>. QED
    BY <2>1, <2>2 DEF InvalidRuns
<1>19. CASE Pollute
  BY <1>19 DEF InvalidRuns, Pollute
<1>20. CASE Restore
  BY <1>20 DEF InvalidRuns, Restore
<1>21. CASE PlanClean
  BY <1>21 DEF InvalidRuns, PlanClean
<1>. QED
  BY <1>1, <1>2, <1>3, <1>4, <1>5, <1>6, <1>7, <1>8, <1>9, <1>10, <1>11, <1>12,
     <1>13, <1>14, <1>15, <1>16, <1>17, <1>18, <1>19, <1>20, <1>21 DEF Next, RunStep,
     Maintain

\* No verdict of contamination is taken back, whatever is rebuilt, cleaned
\* or cloned and whoever dies.
THEOREM VerdictsAreKept == Spec => InvalidKept
<1>1. PoolInductive /\ [Next]_vars => [InvalidRuns \subseteq InvalidRuns']_vars
  BY VerdictsStay
<1>. QED
  BY <1>1, PoolInvariant, PTL DEF Spec, InvalidKept
\* A quarantine puts every holder of an open lease among the affected runs.
LEMMA QuarantinedTouches ==
    ASSUME NEW item \in Record
    PROVE  OpenLeases(item) \subseteq Quarantined(item).affected
<1>. DEFINE touched == {i \in DOMAIN item.leases :
                          \/ item.leases[i].end = Open
                          \/ item.leases[i].end > item.lastClean}
            affected == item.affected \cup {item.leases[i].run : i \in touched}
<1>1. Quarantined(item) = [item EXCEPT !.state = "QUARANTINED",
                                       !.affected = affected]
  BY DEF Quarantined
<1>2. OpenLeases(item) \subseteq affected
  BY DEF OpenLeases
<1>. HIDE DEF affected
<1>. QED
  BY <1>1, <1>2 DEF Record

\* The check on exit decides on the checkout; an exit opens no lease, and a
\* quarantine on exit names whoever held one.
LEMMA ExitFinds ==
    ASSUME TypeOK, ReadersKeepTree, NEW run \in Runs, Exit(run)
    PROVE  /\ OpenLeases(record') \subseteq OpenLeases(record)
           /\ trees[record.generation] # "clean" =>
                 /\ record'.state = "QUARANTINED"
                 /\ OpenLeases(record) \subseteq record'.affected
<1>. DEFINE counted == [record EXCEPT !.sequence = @ + 1]
            left == Left(counted)
            own == LastLease(run)
<1>1. /\ counted \in Record
      /\ counted.generation = record.generation
      /\ counted.leases = record.leases
      /\ counted.sequence = record.sequence + 1
      /\ record.sequence \in Nat
  BY DEF TypeOK, Record
<1>2. record' = Ended(left, own)
  BY DEF Exit
<1>3. own \in DOMAIN record.leases
  BY LastLeaseOwn DEF Exit, ReadersKeepTree
<1>. HIDE DEF counted, own
<1>4. left \in Record /\ left.leases = record.leases
  BY <1>1, LeftKeeps
<1>5. left.sequence = record.sequence + 1
  BY <1>1 DEF Left, Quarantined, Record
<1>. HIDE DEF left
<1>6. record'.leases[own].end = left.sequence
  BY <1>2, <1>3, <1>4 DEF Ended, Record, Lease
<1>7. \A i \in DOMAIN record'.leases :
        /\ i \in DOMAIN record.leases
        /\ i # own => record'.leases[i] = record.leases[i]
  BY <1>2, <1>4, EndedKeeps
<1>8. record'.leases[own].end # Open
  BY <1>1, <1>5, <1>6 DEF Open
<1>9. OpenLeases(record') \subseteq OpenLeases(record)
  BY <1>7, <1>8 DEF OpenLeases
<1>10. ASSUME trees[record.generation] # "clean"
       PROVE  /\ record'.state = "QUARANTINED"
              /\ OpenLeases(record) \subseteq record'.affected
  <2>1. left = Quarantined(counted)
    BY <1>1, <1>10 DEF left, Left
  <2>2. OpenLeases(record) \subseteq left.affected
    BY <1>1, <2>1, QuarantinedTouches DEF OpenLeases
  <2>3. left.state = "QUARANTINED"
    BY <1>1, <2>1, QuarantinedKeeps
  <2>. QED
    BY <1>2, <1>4, <2>2, <2>3, EndedKeeps
<1>. QED
  BY <1>9, <1>10

\* A step that leaves leases, affected runs and the archive alone, and cleans
\* no checkout, changes nothing about the exposed.
LEMMA ExposedSame ==
    ASSUME ExposedFound,
           record'.state = record.state,
           record'.generation = record.generation,
           record'.leases = record.leases,
           record'.affected = record.affected,
           archived' = archived, exposed' = exposed,
           trees'[record.generation] = "clean" =>
              trees[record.generation] = "clean"
    PROVE  ExposedFound'
<1>1. OpenLeases(record') = OpenLeases(record)
  BY DEF OpenLeases
<1>2. InvalidRuns' = InvalidRuns
  BY DEF InvalidRuns
<1>. QED
  BY <1>1, <1>2 DEF ExposedFound

\* Every step keeps what is known of the exposed runs.
LEMMA ExposedStep ==
    ASSUME PoolInductive, ExposedFound, [Next]_vars
    PROVE  ExposedFound'
<1>1. CASE UNCHANGED vars
  BY <1>1, ExposedSame DEF vars
<1>2. ASSUME NEW run \in Runs, Acquire(run) PROVE ExposedFound'
  BY <1>2, ExposedSame DEF Acquire
<1>3. ASSUME NEW run \in Runs, StartClone(run) PROVE ExposedFound'
  <2>1. /\ exposed' = {} /\ record'.state = "PREPARING"
        /\ record'.leases = <<>>
    BY <1>3 DEF StartClone
  <2>2. OpenLeases(record') = {}
    BY <2>1 DEF OpenLeases
  <2>. QED
    BY <2>1, <2>2 DEF ExposedFound
<1>4. ASSUME NEW run \in Runs, FinishClone(run) PROVE ExposedFound'
  <2>1. /\ record.state = "PREPARING" /\ record'.state = "READY"
        /\ record'.leases = record.leases /\ exposed' = exposed
    BY <1>4 DEF PoolInductive, TypeOK, Record, ClonesNeeded, FinishClone
  <2>2. exposed' = {}
    BY <2>1 DEF ExposedFound
  <2>. QED
    BY <2>1, <2>2 DEF ExposedFound
<1>5. ASSUME NEW run \in Runs, FailClone(run) PROVE ExposedFound'
  <2>1. /\ record.state = "PREPARING" /\ record'.state = "PREPARE_FAILED"
        /\ record'.leases = record.leases /\ exposed' = exposed
    BY <1>5 DEF PoolInductive, TypeOK, Record, ClonesNeeded, FailClone
  <2>. QED
    BY <2>1 DEF ExposedFound, OpenLeases
<1>6. ASSUME NEW run \in Runs, Share(run) PROVE ExposedFound'
  BY <1>6, ExposedSame DEF Share
<1>7. ASSUME NEW run \in Runs, Enter(run) PROVE ExposedFound'
  <2>1. /\ record.state = "READY" /\ record'.state = "READY"
        /\ trees[record.generation] = "clean" /\ exposed' = exposed
    BY <1>7 DEF PoolInductive, TypeOK, Record, Enter, Ready
  <2>2. exposed' = {}
    BY <2>1 DEF ExposedFound
  <2>. QED
    BY <2>1, <2>2 DEF ExposedFound
<1>8. ASSUME NEW run \in Runs, Refuse(run) PROVE ExposedFound'
  <2>1. CASE record' = record
    BY <1>8, <2>1 DEF ExposedFound, OpenLeases, InvalidRuns, Refuse
  <2>2. CASE record' # record
    <3>1. record' = Quarantined(record) /\ record.state = "READY"
      BY <1>8, <2>2 DEF Refuse, Ready
    <3>2. /\ record'.state = "QUARANTINED" /\ record'.leases = record.leases
          /\ OpenLeases(record) \subseteq record'.affected
      BY <3>1, QuarantinedKeeps, QuarantinedTouches DEF PoolInductive, TypeOK
    <3>3. exposed' \subseteq OpenLeases(record)
      BY <1>8, <3>1 DEF ExposedFound, Refuse
    <3>. QED
      BY <3>2, <3>3 DEF ExposedFound, OpenLeases, InvalidRuns
  <2>. QED
    BY <2>1, <2>2
<1>9. ASSUME NEW run \in Runs, Exit(run) PROVE ExposedFound'
  <2>1. trees' = trees /\ exposed' = exposed /\ archived' = archived
    BY <1>9 DEF Exit
  <2>2. record.state \in {"READY", "QUARANTINED"}
    BY <1>9 DEF PoolInductive, ReadersKeepTree, Exit
  <2>3. CASE trees[record.generation] # "clean"
    <3>1. /\ record'.state = "QUARANTINED"
          /\ OpenLeases(record') \subseteq OpenLeases(record)
          /\ OpenLeases(record) \subseteq record'.affected
      BY <1>9, <2>3, ExitFinds DEF PoolInductive
    <3>2. exposed \subseteq OpenLeases(record) \cup InvalidRuns
      BY DEF ExposedFound
    <3>3. InvalidRuns \subseteq InvalidRuns'
      BY <1>9, <2>1, ExitKeeps DEF PoolInductive, InvalidRuns
    <3>4. record'.affected \subseteq InvalidRuns'
      BY <3>1 DEF InvalidRuns
    <3>. QED
      BY <2>1, <3>1, <3>2, <3>3, <3>4 DEF ExposedFound
  <2>4. CASE trees[record.generation] = "clean"
    <3>1. /\ record'.state = record.state
          /\ record'.generation = record.generation
          /\ record.affected \subseteq record'.affected
          /\ OpenLeases(record') \subseteq OpenLeases(record)
      BY <1>9, <2>4, ExitKeeps, ExitFinds DEF PoolInductive
    <3>2. InvalidRuns \subseteq InvalidRuns'
      BY <2>1, <3>1 DEF InvalidRuns
    <3>. QED
      BY <2>1, <2>2, <2>4, <3>1, <3>2 DEF ExposedFound
  <2>. QED
    BY <2>3, <2>4
<1>10. ASSUME NEW run \in Runs, CrashRun(run) PROVE ExposedFound'
  BY <1>10, ExposedSame DEF CrashRun
<1>11. CASE StartClean
  BY <1>11, ExposedSame DEF StartClean
<1>12. CASE RemoveTree
  <2>1. trees'[record.generation] = "clean" =>
          trees[record.generation] = "clean"
    BY <1>12 DEF PoolInductive, TypeOK, RemoveTree
  <2>. QED
    BY <1>12, <2>1, ExposedSame DEF RemoveTree
<1>13. CASE RemoveFails
  <2>1. trees'[record.generation] = "clean" =>
          trees[record.generation] = "clean"
    BY <1>13 DEF PoolInductive, TypeOK, RemoveFails, Remains
  <2>. QED
    BY <1>13, <2>1, ExposedSame DEF RemoveFails
<1>14. CASE MarkDeleted
  <2>1. /\ record'.state = record.state
        /\ record'.generation = record.generation
        /\ record'.leases = record.leases
        /\ record'.affected = record.affected
    BY <1>14 DEF PoolInductive, TypeOK, Record, MarkDeleted, Deleted
  <2>. QED
    BY <1>14, <2>1, ExposedSame DEF MarkDeleted
<1>15. CASE FinishClean
  BY <1>15, ExposedSame DEF FinishClean
<1>16. CASE CrashClean
  <2>1. trees'[record.generation] = "clean" =>
          trees[record.generation] = "clean"
    <3>1. CASE trees' = trees
      BY <3>1
    <3>2. CASE trees' = [trees EXCEPT ![cleaner.path] = Remains(@)]
      BY <3>2 DEF PoolInductive, TypeOK, Remains
    <3>. QED
      BY <1>16, <3>1, <3>2 DEF PoolInductive, TypeOK, CrashClean
  <2>. QED
    BY <1>16, <2>1, ExposedSame DEF CrashClean
<1>17. CASE SettleEvent
  <2>1. /\ record'.state = record.state
        /\ record'.generation = record.generation
        /\ record'.leases = record.leases
        /\ record'.affected = record.affected
    BY <1>17 DEF PoolInductive, TypeOK, Record, SettleEvent, Settled, Deleted
  <2>. QED
    BY <1>17, <2>1, ExposedSame DEF SettleEvent
<1>18. CASE Rebuild
  <2>1. /\ record'.state = record.state
        /\ record'.leases = record.leases
    BY <1>18 DEF PoolInductive, TypeOK, Record, Rebuild
  <2>2. InvalidRuns \subseteq InvalidRuns'
    BY <1>18, VerdictsStay DEF Next, Maintain
  <2>. QED
    BY <1>18, <2>1, <2>2 DEF ExposedFound, OpenLeases, Rebuild
<1>19. CASE Pollute
  <2>1. /\ record' = record /\ archived' = archived
        /\ exposed' = exposed \cup OpenLeases(record)
    BY <1>19 DEF Pollute
  <2>2. trees'[record.generation] = "dirty"
    BY <1>19 DEF PoolInductive, TypeOK, Record, NoGeneration, Pollute
  <2>. QED
    BY <2>1, <2>2 DEF ExposedFound, OpenLeases, InvalidRuns
<1>20. CASE Restore
  <2>1. /\ record' = record /\ archived' = archived
        /\ exposed' = IF record.state = "QUARANTINED" THEN exposed ELSE {}
    BY <1>20 DEF Restore
  <2>. QED
    BY <2>1 DEF ExposedFound, OpenLeases, InvalidRuns
<1>21. CASE PlanClean
  BY <1>21, ExposedSame DEF PlanClean
<1>. QED
  BY <1>1, <1>2, <1>3, <1>4, <1>5, <1>6, <1>7, <1>8, <1>9, <1>10, <1>11, <1>12,
     <1>13, <1>14, <1>15, <1>16, <1>17, <1>18, <1>19, <1>20, <1>21 DEF Next, RunStep,
     Maintain

\* Nobody is exposed before the first checkout.
LEMMA ExposedInit == Init => ExposedFound
  BY DEF Init, ExposedFound, OpenLeases

\* When a check finds a pollution, every run that may have read it is marked
\* invalid, whichever run made the check and whichever died before it, and
\* however often the checkout is changed back and forth.
THEOREM ExposedAreInvalid == Spec => []ExposedInvalid
<1>1. PoolInductive /\ ExposedFound /\ [Next]_vars => ExposedFound'
  BY ExposedStep
<1>2. ExposedFound => ExposedInvalid
  BY DEF ExposedFound, ExposedInvalid
<1>. QED
  BY <1>1, <1>2, ExposedInit, PoolInvariant, PTL DEF Spec
=============================================================================
