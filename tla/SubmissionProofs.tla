-------------------------- MODULE SubmissionProofs --------------------------
(***************************************************************************)
(* The registry and the submission of batches, for every set of packages,  *)
(* names, requests and batches and any number of cases: what can be        *)
(* selected stays what was registered, and what was planned stays frozen.  *)
(***************************************************************************)
EXTENDS Submission, WellFoundedInduction, TLAPS

\* A name selects a case.
NamesHaveCases ==
    \A name \in Names : names[name] # None => cases[names[name]] # None

\* An operation has a case, with the id of its package.
OperationsHaveCases ==
    \A request \in Requests :
        operations[request] # None =>
            /\ cases[operations[request].number] # None
            /\ cases[operations[request].number].id
                  = operations[request].package.id

\* A version is where its files and its case are.
VersionsStored ==
    \A slot \in Slots :
        versions[slot] # None =>
            /\ stored[slot] = Tree(versions[slot])
            /\ versions[slot].version = slot[2]
            /\ cases[slot[1]] # None

\* The default is the highest version, or 0 before the first one.
DefaultsHighest ==
    \A number \in Numbers :
        cases[number] # None =>
            IF Published(number) = {} THEN cases[number].default = 0
            ELSE /\ cases[number].default \in Published(number)
                 /\ \A version \in Published(number) :
                       version <= cases[number].default

\* What was reported as done is there.
ReadyPublished ==
    \A request \in Requests :
        operations[request] # None /\ operations[request].ready =>
            versions[operations[request].number,
                     operations[request].package.version]
                = operations[request].package

\* While it is copied, a batch has no plan, and its version is registered.
FreezesRegistered ==
    submit # None /\ submit.at = "freezing" =>
        /\ submit.number \in Numbers
        /\ submit.version \in Versions
        /\ versions[submit.number, submit.version] # None
        /\ submit.selection.version \in {0, submit.version}
        /\ plans[submit.batch] = None

CatalogInductive ==
    /\ TypeOK
    /\ NamesHaveCases
    /\ OperationsHaveCases
    /\ VersionsStored
    /\ DefaultsHighest
    /\ ReadyPublished
    /\ NumbersPermanent
    /\ FreezesRegistered
    /\ BatchesFrozen
-----------------------------------------------------------------------------
(***************************************************************************)
(* Numbers, trees and slots                                                *)
(***************************************************************************)

\* The numbers below a given one are well-founded, so that a set of them has
\* a least element.
LEMMA Least ==
    ASSUME NEW S \in SUBSET Nat, S # {}
    PROVE  \E x \in S : \A y \in S : x <= y
<1>. DEFINE R == OpToRel(<, Nat)
<1>1. IsWellFoundedOn(R, Nat)
  BY NatLessThanWellFounded
<1>2. PICK x \in S : \A y \in Nat : <<y, x>> \in R => y \notin S
  <2>1. \E x \in S : \A y \in S : ~(<<y, x>> \in R)
    BY <1>1, WFMin, Zenon
  <2>. QED
    BY <2>1
<1>3. \A y \in S : ~(y < x)
  BY <1>2 DEF OpToRel
<1>. HIDE DEF R
<1>4. \A y \in S : x \in Nat /\ y \in Nat
  OBVIOUS
<1>. QED
  BY <1>3, <1>4

\* The number that a new case takes is one that is free.
LEMMA MinFree ==
    ASSUME Free # {}
    PROVE  Min(Free) \in Numbers /\ cases[Min(Free)] = None
<1>1. Free \in SUBSET Nat
  BY MaxCasesAssumption DEF Free, Numbers
<1>2. \E x \in Free : \A y \in Free : x <= y
  BY <1>1, Least
<1>3. Min(Free) \in Free
  BY <1>2 DEF Min
<1>. QED
  BY <1>3 DEF Free

\* Versions are positive numbers.
LEMMA VersionsPositive == Versions \subseteq Nat \ {0}
  BY PackagesAssumption DEF Versions

\* The files of a package tell it from every other one.
LEMMA TreeTells ==
    ASSUME NEW package \in Packages
    PROVE  /\ Tree(package) \in TreeType
           /\ Tree(package) # None
           /\ \A other \in Packages :
                 Tree(other) = Tree(package) => other = package
<1>1. Tree(package) \in TreeType
  BY DEF Tree, TreeType
<1>2. \A other \in Packages : Tree(other)["case.yaml"] = other
  BY DEF Tree, Files, FilesOf
<1>. QED
  BY <1>1, <1>2, NoneAssumption

\* The slot of a registration under way.
LEMMA SlotType ==
    ASSUME RegistryTypeOK, register # None
    PROVE  /\ register \in Registration
           /\ operations[register.request] \in Operation
           /\ Registered \in Packages
           /\ Slot \in Slots
           /\ Slot[1] = operations[register.request].number
           /\ Slot[2] = Registered.version
<1>1. register \in Registration /\ register.request \in Requests
  BY DEF RegistryTypeOK, Registration
<1>2. operations[register.request] \in Operation
  BY <1>1 DEF RegistryTypeOK
<1>. QED
  BY <1>1, <1>2 DEF Operation, Registered, Slot, Slots, Versions

\* While files are copied to a slot, no version is registered there.
LEMMA CopiesToUnused ==
    ASSUME CatalogInductive, register # None, stored[Slot] = None
    PROVE  versions[Slot] = None
<1>1. Slot \in Slots
  BY SlotType DEF CatalogInductive, TypeOK
<1>2. versions[Slot] # None => versions[Slot] \in Packages
  BY <1>1 DEF CatalogInductive, TypeOK, RegistryTypeOK
<1>. QED
  BY <1>1, <1>2, TreeTells DEF CatalogInductive, VersionsStored


-----------------------------------------------------------------------------
(***************************************************************************)
(* Types                                                                   *)
(***************************************************************************)

\* Every step keeps the types of the registry.
LEMMA RegistryTypeStep ==
    ASSUME CatalogInductive, [Next]_vars
    PROVE  RegistryTypeOK'
<1>1. CASE UNCHANGED vars
  BY <1>1 DEF CatalogInductive, TypeOK, RegistryTypeOK, Slot, Registered, vars
<1>2. ASSUME NEW request \in Requests, NEW target \in Targets,
            NEW package \in Packages, Continue(request, target, package),
            UNCHANGED submission
     PROVE  RegistryTypeOK'
  <2>1. register' \in Registration /\ register'.request = request
        /\ register'.at = "reserved"
    BY <1>2 DEF Continue, Reserved, Registration
  <2>. QED
    BY <1>2, <2>1 DEF CatalogInductive, TypeOK, RegistryTypeOK, Continue
<1>3. ASSUME NEW request \in Requests, NEW target \in Targets,
            NEW package \in Packages, ReserveNew(request, target, package),
            UNCHANGED submission
     PROVE  RegistryTypeOK'
  <2>1. Min(Free) \in Numbers
    BY <1>3, MinFree DEF ReserveNew
  <2>2. operations' = [operations EXCEPT ![request] =
          [package |-> package, target |-> target, number |-> Min(Free),
           ready |-> FALSE]]
    BY <1>3 DEF ReserveNew, Operated
  <2>3. operations' \in [Requests -> Operation \cup {None}]
        /\ operations'[request] \in Operation
    BY <2>1, <2>2 DEF CatalogInductive, TypeOK, RegistryTypeOK, Operation
  <2>4. cases' \in [Numbers -> Case \cup {None}]
    <3>1. [id |-> package.id, default |-> 0, archived |-> FALSE] \in Case
      BY DEF Case, Ids
    <3>. QED
      BY <1>3, <3>1 DEF CatalogInductive, TypeOK, RegistryTypeOK, ReserveNew
  <2>5. names' \in [Names -> Numbers \cup {None}]
    BY <1>3, <2>1 DEF CatalogInductive, TypeOK, RegistryTypeOK, ReserveNew
  <2>6. register' \in Registration /\ register'.request = request
        /\ register'.at = "reserved"
    BY <1>3 DEF ReserveNew, Reserved, Registration
  <2>. QED
    BY <1>3, <2>3, <2>4, <2>5, <2>6, NoneAssumption
       DEF CatalogInductive, TypeOK, RegistryTypeOK, ReserveNew
<1>4. ASSUME NEW request \in Requests, NEW target \in Targets,
            NEW package \in Packages, ReserveVersion(request, target, package),
            UNCHANGED submission
     PROVE  RegistryTypeOK'
  <2>1. names[target.name] \in Numbers
    BY <1>4 DEF CatalogInductive, TypeOK, RegistryTypeOK, Targets,
       ReserveVersion
  <2>2. operations' = [operations EXCEPT ![request] =
          [package |-> package, target |-> target,
           number |-> names[target.name], ready |-> FALSE]]
    BY <1>4 DEF ReserveVersion, Operated
  <2>3. operations' \in [Requests -> Operation \cup {None}]
        /\ operations'[request] \in Operation
    BY <2>1, <2>2 DEF CatalogInductive, TypeOK, RegistryTypeOK, Operation
  <2>6. register' \in Registration /\ register'.request = request
        /\ register'.at = "reserved"
    BY <1>4 DEF ReserveVersion, Reserved, Registration
  <2>. QED
    BY <1>4, <2>3, <2>6, NoneAssumption
       DEF CatalogInductive, TypeOK, RegistryTypeOK, ReserveVersion
<1>5. CASE FindStored /\ UNCHANGED submission
  <2>1. register' = [register EXCEPT !.at = "placed"]
           /\ register \in Registration
    BY <1>5, SlotType DEF CatalogInductive, TypeOK, FindStored
  <2>2. /\ register' \in Registration
        /\ register'.at = "placed"
        /\ register'.request = register.request
    BY <2>1 DEF Registration
  <2>3. Slot' = Slot
    BY <1>5, <2>2 DEF FindStored, Slot, Registered
  <2>. QED
    BY <1>5, <2>2, <2>3 DEF CatalogInductive, TypeOK, RegistryTypeOK,
       FindStored
<1>6. CASE BeginCopy /\ UNCHANGED submission
  <2>1. PICK package \in Packages :
           register' = [register EXCEPT !.at = "copying", !.listing = package,
                                        !.todo = FilesOf(package)]
    BY <1>6 DEF BeginCopy
  <2>2. FilesOf(package) \in SUBSET Files /\ register \in Registration
    BY <1>6, SlotType
       DEF CatalogInductive, TypeOK, BeginCopy, FilesOf, Files
  <2>3. /\ register' \in Registration
        /\ register'.at = "copying"
        /\ register'.request = register.request
    BY <2>1, <2>2 DEF Registration
  <2>4. Slot' = Slot
    BY <1>6, <2>3 DEF BeginCopy, Slot, Registered
  <2>. QED
    BY <1>6, <2>3, <2>4
       DEF CatalogInductive, TypeOK, RegistryTypeOK, BeginCopy, Absent
<1>7. CASE CopyFile /\ UNCHANGED submission
  <2>1. register \in Registration
    BY <1>7, SlotType DEF CatalogInductive, TypeOK, CopyFile
  <2>2. PICK file \in register.todo, package \in Packages :
           /\ staging' = [staging EXCEPT ![register.request][file] = package]
           /\ register' = [register EXCEPT !.todo = @ \ {file}]
    BY <1>7 DEF CopyFile
  <2>3. /\ register' \in Registration
        /\ register'.at = register.at
        /\ register'.request = register.request
    BY <2>1, <2>2 DEF Registration
  <2>4. Slot' = Slot
    BY <1>7, <2>3 DEF CopyFile, Slot, Registered
  <2>5. staging' \in [Requests -> TreeType]
    <3>1. staging[register.request] \in TreeType
             /\ register.request \in Requests
      BY <2>1 DEF CatalogInductive, TypeOK, RegistryTypeOK, Registration
    <3>2. [staging[register.request] EXCEPT ![file] = package] \in TreeType
      BY <3>1 DEF TreeType
    <3>. QED
      BY <2>2, <3>1, <3>2 DEF CatalogInductive, TypeOK, RegistryTypeOK
  <2>. QED
    BY <1>7, <2>3, <2>4, <2>5
       DEF CatalogInductive, TypeOK, RegistryTypeOK, CopyFile
<1>8. CASE Place /\ UNCHANGED submission
  <2>1. register \in Registration /\ Slot \in Slots
    BY <1>8, SlotType DEF CatalogInductive, TypeOK, Place
  <2>2. register' = [register EXCEPT !.at = "placed"]
    BY <1>8 DEF Place
  <2>3. /\ register' \in Registration
        /\ register'.at = "placed"
        /\ register'.request = register.request
    BY <2>1, <2>2 DEF Registration
  <2>4. Slot' = Slot
    BY <1>8, <2>3 DEF Place, Slot, Registered
  <2>5. staging[register.request] \in TreeType /\ EmptyTree \in TreeType
    BY <2>1 DEF CatalogInductive, TypeOK, RegistryTypeOK, Registration,
         EmptyTree, TreeType
  <2>6. /\ stored' \in [Slots -> TreeType \cup {None}]
        /\ stored'[Slot] \in TreeType
        /\ staging' \in [Requests -> TreeType]
    BY <1>8, <2>1, <2>5 DEF CatalogInductive, TypeOK, RegistryTypeOK, Place
  <2>. QED
    BY <1>8, <2>3, <2>4, <2>6, NoneAssumption
       DEF CatalogInductive, TypeOK, RegistryTypeOK, Place
<1>9. CASE PublishVersion /\ UNCHANGED submission
  <2>1. /\ register \in Registration /\ Slot \in Slots
        /\ operations[register.request] \in Operation
        /\ Registered \in Packages
        /\ Slot[1] \in Numbers /\ Slot[2] \in Versions
    BY <1>9, SlotType DEF CatalogInductive, TypeOK, PublishVersion, Slots
  <2>2. versions' \in [Slots -> Packages \cup {None}]
    BY <1>9, <2>1 DEF CatalogInductive, TypeOK, RegistryTypeOK, PublishVersion
  <2>3. cases[Slot[1]] \in Case
    BY <1>9, SlotType
       DEF CatalogInductive, TypeOK, RegistryTypeOK, OperationsHaveCases,
           Registration, Operation, PublishVersion
  <2>4. cases' \in [Numbers -> Case \cup {None}]
    <3>1. [cases[Slot[1]] EXCEPT !.default = IF @ < Slot[2] THEN Slot[2] ELSE @]
             \in Case
      BY <2>1, <2>3 DEF Case
    <3>. QED
      BY <1>9, <2>1, <3>1 DEF CatalogInductive, TypeOK, RegistryTypeOK,
         PublishVersion
  <2>5. operations' \in [Requests -> Operation \cup {None}]
    <3>1. [operations[register.request] EXCEPT !.ready = TRUE] \in Operation
      BY <2>1 DEF Operation
    <3>. QED
      BY <1>9, <3>1 DEF CatalogInductive, TypeOK, RegistryTypeOK,
         PublishVersion
  <2>. QED
    BY <1>9, <2>2, <2>4, <2>5
       DEF CatalogInductive, TypeOK, RegistryTypeOK, PublishVersion
<1>10. CASE LeaveRegister /\ UNCHANGED submission
  BY <1>10 DEF CatalogInductive, TypeOK, RegistryTypeOK, LeaveRegister
<1>11. ASSUME NEW selector \in Names, NEW name \in Names,
            Rename(selector, name), UNCHANGED submission
     PROVE  RegistryTypeOK'
  BY <1>11 DEF CatalogInductive, TypeOK, RegistryTypeOK, Rename, Slot,
     Registered
<1>12. ASSUME NEW selector \in Names, NEW archived \in BOOLEAN,
            SetArchived(selector, archived), UNCHANGED submission
     PROVE  RegistryTypeOK'
  <2>1. names[selector] \in Numbers /\ cases[names[selector]] # None
    BY <1>12
       DEF CatalogInductive, NamesHaveCases, TypeOK, RegistryTypeOK,
          SetArchived
  <2>2. cases[names[selector]] \in Case
    BY <2>1 DEF CatalogInductive, TypeOK, RegistryTypeOK
  <2>3. [cases[names[selector]] EXCEPT !.archived = archived] \in Case
    BY <2>2 DEF Case
  <2>. QED
    BY <1>12, <2>3
       DEF CatalogInductive, TypeOK, RegistryTypeOK, SetArchived, Slot,
          Registered
<1>13. CASE SubmitNext
  <2>1. UNCHANGED registry
    BY <1>13 DEF SubmitNext, TakePlan, ResolveCase, FreezeFile, WritePlan,
         PublishBatch, LeaveSubmit
  <2>. QED
    BY <2>1 DEF CatalogInductive, TypeOK, RegistryTypeOK, Slot, Registered,
       registry
<1>. QED
  BY <1>1, <1>2, <1>3, <1>4, <1>5, <1>6, <1>7, <1>8, <1>9, <1>10, <1>11, <1>12,
     <1>13 DEF Next, RegistryNext, SubmitNext

\* Every step keeps all types.
LEMMA TypeStep ==
    ASSUME CatalogInductive, [Next]_vars
    PROVE  TypeOK'
<1>1. CASE UNCHANGED vars
  BY <1>1, RegistryTypeStep DEF CatalogInductive, TypeOK, vars
<1>2. CASE RegistryNext /\ UNCHANGED submission
  BY <1>2, RegistryTypeStep DEF CatalogInductive, TypeOK, submission
<1>3. ASSUME NEW batch \in Batches, NEW selection \in Selections,
            TakePlan(batch, selection)
     PROVE  TypeOK'
  <2>1. submit' \in Submit
    BY <1>3 DEF TakePlan, Submit
  <2>. QED
    BY <1>3, <2>1, RegistryTypeStep DEF CatalogInductive, TypeOK, TakePlan
<1>4. ASSUME NEW batch \in Batches, NEW selection \in Selections,
            ResolveCase(batch, selection)
     PROVE  TypeOK'
  <2>1. /\ names[selection.name] \in Numbers
        /\ versions[names[selection.name], Wanted(selection)] # None
        /\ cases[names[selection.name]] \in Case
        /\ cases[names[selection.name]].default # 0
    BY <1>4 DEF CatalogInductive, TypeOK, RegistryTypeOK, Selections,
       NamesHaveCases,
         ResolveCase, Resolves
  <2>2. Wanted(selection) \in Versions
    BY <2>1 DEF Wanted, Selections, Case
  <2>3. versions[names[selection.name], Wanted(selection)] \in Packages
    BY <2>1, <2>2 DEF CatalogInductive, TypeOK, RegistryTypeOK, Slots
  <2>. DEFINE package == versions[names[selection.name], Wanted(selection)]
  <2>4. FilesOf(package) \in SUBSET Files
    BY DEF FilesOf, Files
  <2>5. submit' = [batch |-> batch, selection |-> selection,
                  at |-> "freezing", number |-> names[selection.name],
                  version |-> Wanted(selection), todo |-> FilesOf(package)]
    BY <1>4 DEF ResolveCase
  <2>6. submit' \in Submit
    <3>. HIDE DEF package
    <3>. QED
      BY <2>1, <2>2, <2>4, <2>5 DEF Submit
  <2>. QED
    BY <1>4, <2>6, RegistryTypeStep DEF CatalogInductive, TypeOK, ResolveCase
<1>5. CASE FreezeFile
  <2>1. submit \in Submit
    BY <1>5 DEF CatalogInductive, TypeOK, FreezeFile
  <2>2. PICK file \in submit.todo :
           /\ bundles' = [bundles EXCEPT ![submit.batch][file] =
                            stored[submit.number, submit.version][file]]
           /\ submit' = [submit EXCEPT !.todo = @ \ {file}]
    BY <1>5 DEF FreezeFile
  <2>3. submit' \in Submit
    BY <2>1, <2>2 DEF Submit
  <2>4. stored[submit.number, submit.version] \in TreeType
    <3>. DEFINE slot == <<submit.number, submit.version>>
    <3>1. slot \in Slots /\ versions[slot] # None
      BY <1>5 DEF CatalogInductive, FreezesRegistered, Slots, FreezeFile
    <3>. HIDE DEF slot
    <3>2. stored[slot] \in TreeType
      BY <3>1, TreeTells DEF CatalogInductive, VersionsStored, TypeOK,
           RegistryTypeOK
    <3>. QED
      BY <3>2 DEF slot
  <2>5. submit.batch \in Batches /\ bundles[submit.batch] \in TreeType
        /\ file \in Files
    BY <2>1, <2>2 DEF CatalogInductive, TypeOK, Submit
  <2>6. [bundles[submit.batch] EXCEPT ![file] =
            stored[submit.number, submit.version][file]] \in TreeType
    BY <2>4, <2>5 DEF TreeType
  <2>7. bundles' \in [Batches -> TreeType]
    BY <2>2, <2>5, <2>6 DEF CatalogInductive, TypeOK
  <2>. QED
    BY <1>5, <2>3, <2>7, RegistryTypeStep DEF CatalogInductive, TypeOK,
       FreezeFile
<1>6. CASE WritePlan
  <2>1. submit \in Submit /\ submit.number \in Numbers
        /\ submit.version \in Versions
    BY <1>6 DEF CatalogInductive, TypeOK, FreezesRegistered, WritePlan
  <2>2. versions[submit.number, submit.version] \in Packages
    BY <1>6, <2>1 DEF CatalogInductive, TypeOK, RegistryTypeOK,
       FreezesRegistered,
         Slots, WritePlan
  <2>3. [selection |-> submit.selection, number |-> submit.number,
        package |-> versions[submit.number, submit.version]] \in Plan
    BY <2>1, <2>2 DEF Submit, Plan
  <2>4. [submit EXCEPT !.at = "planned"] \in Submit
    BY <2>1 DEF Submit
  <2>5. plans' \in [Batches -> Plan \cup {None}] /\ submit' \in Submit
    BY <1>6, <2>3, <2>4 DEF CatalogInductive, TypeOK, WritePlan
  <2>. QED
    BY <1>6, <2>5, RegistryTypeStep DEF CatalogInductive, TypeOK, WritePlan
<1>7. CASE PublishBatch
  <2>1. submit.batch \in Batches
    BY <1>7 DEF CatalogInductive, TypeOK, Submit, PublishBatch
  <2>2. published' \in [Batches -> Plan \cup {None}]
    BY <1>7, <2>1 DEF CatalogInductive, TypeOK, PublishBatch
  <2>. QED
    BY <1>7, <2>2, RegistryTypeStep DEF CatalogInductive, TypeOK, PublishBatch
<1>8. CASE LeaveSubmit
  BY <1>8, RegistryTypeStep DEF CatalogInductive, TypeOK, LeaveSubmit
<1>. QED
  BY <1>1, <1>2, <1>3, <1>4, <1>5, <1>6, <1>7, <1>8 DEF Next, RegistryNext,
     SubmitNext

-----------------------------------------------------------------------------
(***************************************************************************)
(* The registry                                                            *)
(***************************************************************************)

\* The submission of batches only reads the registry.
LEMMA SubmitReads ==
    ASSUME SubmitNext PROVE UNCHANGED registry
  BY DEF SubmitNext, TakePlan, ResolveCase, FreezeFile, WritePlan,
       PublishBatch, LeaveSubmit

\* Cases are never removed, and keep their id.
LEMMA CasesStay ==
    ASSUME CatalogInductive, [Next]_vars, NEW number \in Numbers,
           cases[number] # None
    PROVE  cases'[number] # None /\ cases'[number].id = cases[number].id
<1>1. cases[number] \in Case /\ cases \in [Numbers -> Case \cup {None}]
  BY DEF CatalogInductive, TypeOK, RegistryTypeOK
<1>2. CASE UNCHANGED cases
  BY <1>2
<1>3. ASSUME NEW request \in Requests, NEW target \in Targets,
            NEW package \in Packages, ReserveNew(request, target, package)
     PROVE  cases'[number] = cases[number]
  BY <1>1, <1>3, MinFree DEF ReserveNew
<1>4. CASE PublishVersion
  <2>. DEFINE default == IF cases[Slot[1]].default < Slot[2]
                           THEN Slot[2] ELSE cases[Slot[1]].default
  <2>1. cases' = [cases EXCEPT ![Slot[1]] =
                    [cases[Slot[1]] EXCEPT !.default = default]]
    BY <1>4 DEF PublishVersion
  <2>2. Slot[1] \in Numbers /\ Slot[2] \in Versions
    BY <1>4, SlotType DEF CatalogInductive, TypeOK, PublishVersion, Slots
  <2>3. CASE number = Slot[1]
    <3>1. default \in Versions \cup {0}
      BY <1>1, <2>2, <2>3 DEF Case
    <3>. HIDE DEF default
    <3>2. cases'[number] = [cases[number] EXCEPT !.default = default]
      BY <1>1, <2>1, <2>3
    <3>3. cases'[number] \in Case /\ cases'[number].id = cases[number].id
      BY <1>1, <3>1, <3>2 DEF Case
    <3>. QED
      BY <3>3, NoneAssumption
  <2>. QED
    BY <1>1, <2>1, <2>3
<1>5. ASSUME NEW selector \in Names, NEW archived \in BOOLEAN,
            SetArchived(selector, archived)
     PROVE  cases'[number] # None /\ cases'[number].id = cases[number].id
  <2>1. cases' = [cases EXCEPT ![names[selector]] =
                    [@ EXCEPT !.archived = archived]]
    BY <1>5 DEF SetArchived
  <2>2. CASE number = names[selector]
    <3>1. cases'[number] = [cases[number] EXCEPT !.archived = archived]
      BY <1>1, <2>1, <2>2
    <3>2. cases'[number] \in Case /\ cases'[number].id = cases[number].id
      BY <1>1, <3>1 DEF Case
    <3>. QED
      BY <3>2, NoneAssumption
  <2>. QED
    BY <1>1, <2>1, <2>2
<1>. QED
  BY <1>2, <1>3, <1>4, <1>5, SubmitReads
     DEF Next, RegistryNext, registry, vars, Continue, ReserveVersion,
         FindStored, BeginCopy, CopyFile, Place, LeaveRegister, Rename


\* Names and operations have cases.
LEMMA CasesStep ==
    ASSUME CatalogInductive, [Next]_vars
    PROVE  NamesHaveCases' /\ OperationsHaveCases'
<1>1. CASE UNCHANGED vars
  <2>1. UNCHANGED <<names, operations>>
    BY <1>1 DEF vars
  <2>. QED
    BY <2>1, CasesStay DEF CatalogInductive, TypeOK, RegistryTypeOK,
         NamesHaveCases, OperationsHaveCases, Operation
<1>2. ASSUME NEW request \in Requests, NEW target \in Targets,
            NEW package \in Packages, Continue(request, target, package),
            UNCHANGED submission
     PROVE  NamesHaveCases' /\ OperationsHaveCases'
  <2>1. UNCHANGED <<names, operations>>
    BY <1>2 DEF Continue
  <2>. QED
    BY <2>1, CasesStay DEF CatalogInductive, TypeOK, RegistryTypeOK,
         NamesHaveCases, OperationsHaveCases, Operation
<1>3. ASSUME NEW request \in Requests, NEW target \in Targets,
            NEW package \in Packages, ReserveNew(request, target, package),
            UNCHANGED submission
     PROVE  NamesHaveCases' /\ OperationsHaveCases'
  <2>. DEFINE number == Min(Free)
              case == [id |-> package.id, default |-> 0, archived |-> FALSE]
  <2>1. number \in Numbers /\ case \in Case
    BY <1>3, MinFree DEF ReserveNew, Case, Ids
  <2>2. cases'[number] = case
    BY <1>3, <2>1 DEF CatalogInductive, TypeOK, RegistryTypeOK, ReserveNew
  <2>3. names' = [names EXCEPT ![target.name] = number]
    BY <1>3 DEF ReserveNew
  <2>4. operations' = [operations EXCEPT ![request] =
          [package |-> package, target |-> target, number |-> number,
           ready |-> FALSE]]
    BY <1>3 DEF ReserveNew, Operated
  <2>5. case # None /\ case.id = package.id
    BY <2>1, NoneAssumption
  <2>. HIDE DEF number, case
  <2>6. NamesHaveCases'
    BY <2>1, <2>2, <2>3, <2>5, CasesStay
       DEF CatalogInductive, TypeOK, RegistryTypeOK, NamesHaveCases
  <2>7. OperationsHaveCases'
    <3>1. \A other \in Requests \ {request} : operations'[other] = operations[other]
      BY <2>4 DEF CatalogInductive, TypeOK, RegistryTypeOK
    <3>2. operations'[request].number = number
          /\ operations'[request].package = package
      BY <2>4 DEF CatalogInductive, TypeOK, RegistryTypeOK
    <3>3. \A other \in Requests \ {request} : operations[other] # None =>
            operations[other].number \in Numbers
      BY DEF CatalogInductive, TypeOK, RegistryTypeOK, Operation
    <3>. QED
      BY <2>2, <2>5, <3>1, <3>2, <3>3, CasesStay
         DEF CatalogInductive, OperationsHaveCases
  <2>. QED
    BY <2>6, <2>7
<1>4. ASSUME NEW request \in Requests, NEW target \in Targets,
            NEW package \in Packages, ReserveVersion(request, target, package),
            UNCHANGED submission
     PROVE  NamesHaveCases' /\ OperationsHaveCases'
  <2>. DEFINE number == names[target.name]
  <2>1. number \in Numbers /\ cases[number] # None
        /\ cases[number].id = package.id
    BY <1>4 DEF CatalogInductive, TypeOK, RegistryTypeOK, Targets,
       NamesHaveCases,
         ReserveVersion
  <2>2. operations' = [operations EXCEPT ![request] =
          [package |-> package, target |-> target, number |-> number,
           ready |-> FALSE]]
    BY <1>4 DEF ReserveVersion, Operated
  <2>3. UNCHANGED <<cases, names>>
    BY <1>4 DEF ReserveVersion
  <2>. HIDE DEF number
  <2>4. NamesHaveCases'
    BY <2>3 DEF CatalogInductive, NamesHaveCases
  <2>5. OperationsHaveCases'
    BY <2>1, <2>2, <2>3
       DEF CatalogInductive, TypeOK, RegistryTypeOK, OperationsHaveCases
  <2>. QED
    BY <2>4, <2>5
<1>5. CASE FindStored /\ UNCHANGED submission
  <2>1. UNCHANGED <<names, operations>>
    BY <1>5 DEF FindStored
  <2>. QED
    BY <2>1, CasesStay DEF CatalogInductive, TypeOK, RegistryTypeOK,
         NamesHaveCases, OperationsHaveCases, Operation
<1>6. CASE BeginCopy /\ UNCHANGED submission
  <2>1. UNCHANGED <<names, operations>>
    BY <1>6 DEF BeginCopy
  <2>. QED
    BY <2>1, CasesStay DEF CatalogInductive, TypeOK, RegistryTypeOK,
         NamesHaveCases, OperationsHaveCases, Operation
<1>7. CASE CopyFile /\ UNCHANGED submission
  <2>1. UNCHANGED <<names, operations>>
    BY <1>7 DEF CopyFile
  <2>. QED
    BY <2>1, CasesStay DEF CatalogInductive, TypeOK, RegistryTypeOK,
         NamesHaveCases, OperationsHaveCases, Operation
<1>8. CASE Place /\ UNCHANGED submission
  <2>1. UNCHANGED <<names, operations>>
    BY <1>8 DEF Place
  <2>. QED
    BY <2>1, CasesStay DEF CatalogInductive, TypeOK, RegistryTypeOK,
         NamesHaveCases, OperationsHaveCases, Operation
<1>9. CASE PublishVersion /\ UNCHANGED submission
  <2>1. register.request \in Requests
           /\ operations[register.request] \in Operation
    BY <1>9, SlotType DEF CatalogInductive, TypeOK, PublishVersion,
       Registration
  <2>2. \A request \in Requests :
           /\ operations'[request] # None => operations[request] # None
           /\ operations[request] # None =>
                 /\ operations[request] \in Operation
                 /\ operations'[request].number = operations[request].number
                 /\ operations'[request].package = operations[request].package
    BY <1>9, <2>1, NoneAssumption
       DEF CatalogInductive, TypeOK, RegistryTypeOK, Operation, PublishVersion
  <2>3. OperationsHaveCases'
    BY <2>2, CasesStay DEF CatalogInductive, OperationsHaveCases, Operation
  <2>4. NamesHaveCases'
    BY <1>9, CasesStay DEF CatalogInductive, TypeOK, RegistryTypeOK,
       NamesHaveCases,
         PublishVersion
  <2>. QED
    BY <2>3, <2>4
<1>10. CASE LeaveRegister /\ UNCHANGED submission
  <2>1. UNCHANGED <<names, operations>>
    BY <1>10 DEF LeaveRegister
  <2>. QED
    BY <2>1, CasesStay DEF CatalogInductive, TypeOK, RegistryTypeOK,
         NamesHaveCases, OperationsHaveCases, Operation
<1>11. ASSUME NEW selector \in Names, NEW name \in Names,
            Rename(selector, name), UNCHANGED submission
     PROVE  NamesHaveCases' /\ OperationsHaveCases'
  <2>1. \A other \in Names : names'[other] # None =>
           \E old \in Names : names'[other] = names[old]
    BY <1>11 DEF CatalogInductive, TypeOK, RegistryTypeOK, Rename
  <2>2. UNCHANGED <<cases, operations>>
    BY <1>11 DEF Rename
  <2>. QED
    BY <2>1, <2>2 DEF CatalogInductive, NamesHaveCases, OperationsHaveCases
<1>12. ASSUME NEW selector \in Names, NEW archived \in BOOLEAN,
            SetArchived(selector, archived), UNCHANGED submission
     PROVE  NamesHaveCases' /\ OperationsHaveCases'
  <2>1. UNCHANGED <<names, operations>>
    BY <1>12 DEF SetArchived
  <2>. QED
    BY <2>1, CasesStay DEF CatalogInductive, TypeOK, RegistryTypeOK,
         NamesHaveCases, OperationsHaveCases, Operation
<1>13. CASE SubmitNext
  <2>1. UNCHANGED <<names, operations>>
    BY <1>13, SubmitReads DEF registry
  <2>. QED
    BY <2>1, CasesStay DEF CatalogInductive, TypeOK, RegistryTypeOK,
         NamesHaveCases, OperationsHaveCases, Operation
<1>. QED
  BY <1>1, <1>2, <1>3, <1>4, <1>5, <1>6, <1>7, <1>8, <1>9, <1>10, <1>11, <1>12,
     <1>13 DEF Next, RegistryNext, SubmitNext

\* Registered versions keep their files.
LEMMA VersionsStep ==
    ASSUME CatalogInductive, [Next]_vars
    PROVE  VersionsStored'
<1>1. CASE UNCHANGED vars
  <2>1. UNCHANGED <<stored, versions>>
    BY <1>1 DEF vars
  <2>. QED
    BY <2>1, CasesStay DEF CatalogInductive, VersionsStored, Slots
<1>2. ASSUME NEW request \in Requests, NEW target \in Targets,
            NEW package \in Packages, Continue(request, target, package),
            UNCHANGED submission
     PROVE  VersionsStored'
  <2>1. UNCHANGED <<stored, versions>>
    BY <1>2 DEF Continue
  <2>. QED
    BY <2>1, CasesStay DEF CatalogInductive, VersionsStored, Slots
<1>3. ASSUME NEW request \in Requests, NEW target \in Targets,
            NEW package \in Packages, ReserveNew(request, target, package),
            UNCHANGED submission
     PROVE  VersionsStored'
  <2>1. UNCHANGED <<stored, versions>>
    BY <1>3 DEF ReserveNew
  <2>. QED
    BY <2>1, CasesStay DEF CatalogInductive, VersionsStored, Slots
<1>4. ASSUME NEW request \in Requests, NEW target \in Targets,
            NEW package \in Packages, ReserveVersion(request, target, package),
            UNCHANGED submission
     PROVE  VersionsStored'
  <2>1. UNCHANGED <<stored, versions>>
    BY <1>4 DEF ReserveVersion
  <2>. QED
    BY <2>1, CasesStay DEF CatalogInductive, VersionsStored, Slots
<1>5. CASE FindStored /\ UNCHANGED submission
  <2>1. UNCHANGED <<stored, versions>>
    BY <1>5 DEF FindStored
  <2>. QED
    BY <2>1, CasesStay DEF CatalogInductive, VersionsStored, Slots
<1>6. CASE BeginCopy /\ UNCHANGED submission
  <2>1. UNCHANGED <<stored, versions>>
    BY <1>6 DEF BeginCopy
  <2>. QED
    BY <2>1, CasesStay DEF CatalogInductive, VersionsStored, Slots
<1>7. CASE CopyFile /\ UNCHANGED submission
  <2>1. UNCHANGED <<stored, versions>>
    BY <1>7 DEF CopyFile
  <2>. QED
    BY <2>1, CasesStay DEF CatalogInductive, VersionsStored, Slots
<1>8. CASE Place /\ UNCHANGED submission
  <2>1. versions[Slot] = None
    BY <1>8, CopiesToUnused DEF CatalogInductive, TypeOK, RegistryTypeOK, Place
  <2>2. /\ stored' = [stored EXCEPT ![Slot] = staging[register.request]]
        /\ versions' = versions
    BY <1>8 DEF Place
  <2>. QED
    BY <2>1, <2>2, CasesStay
       DEF CatalogInductive, TypeOK, RegistryTypeOK, VersionsStored, Slots
<1>9. CASE PublishVersion /\ UNCHANGED submission
  <2>1. /\ Slot \in Slots /\ Slot[2] = Registered.version
        /\ Slot[1] = operations[register.request].number
        /\ register.request \in Requests
    BY <1>9, SlotType
       DEF CatalogInductive, TypeOK, PublishVersion, Registration
  <2>2. /\ stored' = stored
        /\ stored[Slot] = Tree(Registered)
        /\ versions' = [versions EXCEPT ![Slot] =
                           IF @ = None THEN Registered ELSE @]
    BY <1>9 DEF PublishVersion, Placed
  <2>3. cases[Slot[1]] # None
    BY <1>9, <2>1, SlotType, NoneAssumption
       DEF CatalogInductive, TypeOK, OperationsHaveCases, PublishVersion
  <2>4. ASSUME NEW slot \in Slots, versions'[slot] # None
        PROVE  /\ stored'[slot] = Tree(versions'[slot])
               /\ versions'[slot].version = slot[2]
               /\ cases[slot[1]] # None
    <3>1. CASE slot = Slot /\ versions[Slot] = None
      <4>1. versions'[slot] = Registered
        BY <2>2, <3>1 DEF CatalogInductive, TypeOK, RegistryTypeOK
      <4>. QED
        BY <2>1, <2>2, <2>3, <3>1, <4>1
    <3>2. CASE ~(slot = Slot /\ versions[Slot] = None)
      <4>1. versions'[slot] = versions[slot]
        BY <2>2, <3>2 DEF CatalogInductive, TypeOK, RegistryTypeOK
      <4>. QED
        BY <2>2, <2>4, <4>1 DEF CatalogInductive, VersionsStored
    <3>. QED
      BY <3>1, <3>2
  <2>. QED
    BY <2>4, CasesStay DEF VersionsStored, Slots
<1>10. CASE LeaveRegister /\ UNCHANGED submission
  <2>1. UNCHANGED <<stored, versions>>
    BY <1>10 DEF LeaveRegister
  <2>. QED
    BY <2>1, CasesStay DEF CatalogInductive, VersionsStored, Slots
<1>11. ASSUME NEW selector \in Names, NEW name \in Names,
            Rename(selector, name), UNCHANGED submission
     PROVE  VersionsStored'
  <2>1. UNCHANGED <<stored, versions>>
    BY <1>11 DEF Rename
  <2>. QED
    BY <2>1, CasesStay DEF CatalogInductive, VersionsStored, Slots
<1>12. ASSUME NEW selector \in Names, NEW archived \in BOOLEAN,
            SetArchived(selector, archived), UNCHANGED submission
     PROVE  VersionsStored'
  <2>1. UNCHANGED <<stored, versions>>
    BY <1>12 DEF SetArchived
  <2>. QED
    BY <2>1, CasesStay DEF CatalogInductive, VersionsStored, Slots
<1>13. CASE SubmitNext
  <2>1. UNCHANGED <<stored, versions>>
    BY <1>13, SubmitReads DEF registry
  <2>. QED
    BY <2>1, CasesStay DEF CatalogInductive, VersionsStored, Slots
<1>. QED
  BY <1>1, <1>2, <1>3, <1>4, <1>5, <1>6, <1>7, <1>8, <1>9, <1>10, <1>11, <1>12,
     <1>13 DEF Next, RegistryNext, SubmitNext

\* A version that is registered stays as it is.
LEMMA VersionsStay ==
    ASSUME CatalogInductive, [Next]_vars, NEW slot \in Slots,
           versions[slot] # None
    PROVE  versions'[slot] = versions[slot]
<1>1. CASE PublishVersion
  BY <1>1 DEF CatalogInductive, TypeOK, RegistryTypeOK, PublishVersion
<1>2. CASE UNCHANGED versions
  BY <1>2
<1>. QED
  BY <1>1, <1>2, SubmitReads
     DEF Next, RegistryNext, registry, vars, Continue, ReserveNew,
         ReserveVersion, FindStored, BeginCopy, CopyFile, Place,
         LeaveRegister, Rename, SetArchived

\* Publishing makes the registered package visible, there or before.
LEMMA Publishes ==
    ASSUME CatalogInductive, PublishVersion
    PROVE  /\ Slot \in Slots
           /\ versions'[Slot] = Registered
           /\ \A slot \in Slots \ {Slot} : versions'[slot] = versions[slot]
<1>1. Slot \in Slots /\ Registered \in Packages
  BY SlotType DEF CatalogInductive, TypeOK, PublishVersion
<1>2. /\ versions' = [versions EXCEPT ![Slot] =
                         IF @ = None THEN Registered ELSE @]
      /\ stored[Slot] = Tree(Registered)
  BY DEF PublishVersion, Placed
<1>3. CASE versions[Slot] = None
  BY <1>1, <1>2, <1>3 DEF CatalogInductive, TypeOK, RegistryTypeOK
<1>4. CASE versions[Slot] # None
  <2>1. versions[Slot] \in Packages /\ Tree(versions[Slot]) = Tree(Registered)
    BY <1>1, <1>2, <1>4
       DEF CatalogInductive, TypeOK, RegistryTypeOK, VersionsStored
  <2>2. versions[Slot] = Registered
    BY <1>1, <2>1, TreeTells
  <2>. QED
    BY <1>1, <1>2, <1>4, <2>2 DEF CatalogInductive, TypeOK, RegistryTypeOK
<1>. QED
  BY <1>3, <1>4


\* The default stays the highest version.
LEMMA DefaultsStep ==
    ASSUME CatalogInductive, [Next]_vars
    PROVE  DefaultsHighest'
<1>1. CASE UNCHANGED vars
  <2>1. UNCHANGED <<versions, cases>>
    BY <1>1 DEF vars
  <2>. QED
    BY <2>1 DEF CatalogInductive, DefaultsHighest, Published
<1>2. ASSUME NEW request \in Requests, NEW target \in Targets,
            NEW package \in Packages, Continue(request, target, package),
            UNCHANGED submission
     PROVE  DefaultsHighest'
  <2>1. UNCHANGED <<versions, cases>>
    BY <1>2 DEF Continue
  <2>. QED
    BY <2>1 DEF CatalogInductive, DefaultsHighest, Published
<1>3. ASSUME NEW request \in Requests, NEW target \in Targets,
            NEW package \in Packages, ReserveNew(request, target, package),
            UNCHANGED submission
     PROVE  DefaultsHighest'
  <2>. DEFINE case == [id |-> package.id, default |-> 0, archived |-> FALSE]
  <2>1. PICK number \in Numbers : number = Min(Free) /\ cases[number] = None
    BY <1>3, MinFree DEF ReserveNew
  <2>2. cases' = [cases EXCEPT ![number] = case] /\ versions' = versions
    BY <1>3, <2>1 DEF ReserveNew
  <2>3. Published(number)' = {}
    <3>1. \A version \in Versions : <<number, version>> \in Slots
      BY DEF Slots
    <3>2. \A version \in Versions : versions[number, version] = None
      BY <2>1, <3>1 DEF CatalogInductive, VersionsStored
    <3>. QED
      BY <2>2, <3>2 DEF Published
  <2>4. cases'[number].default = 0
    BY <2>1, <2>2 DEF CatalogInductive, TypeOK, RegistryTypeOK
  <2>5. ASSUME NEW other \in Numbers \ {number}
        PROVE  cases'[other] = cases[other] /\ Published(other)' = Published(other)
    BY <2>1, <2>2 DEF CatalogInductive, TypeOK, RegistryTypeOK, Published
  <2>. QED
    BY <2>3, <2>4, <2>5 DEF CatalogInductive, DefaultsHighest
<1>4. ASSUME NEW request \in Requests, NEW target \in Targets,
            NEW package \in Packages, ReserveVersion(request, target, package),
            UNCHANGED submission
     PROVE  DefaultsHighest'
  <2>1. UNCHANGED <<versions, cases>>
    BY <1>4 DEF ReserveVersion
  <2>. QED
    BY <2>1 DEF CatalogInductive, DefaultsHighest, Published
<1>5. CASE FindStored /\ UNCHANGED submission
  <2>1. UNCHANGED <<versions, cases>>
    BY <1>5 DEF FindStored
  <2>. QED
    BY <2>1 DEF CatalogInductive, DefaultsHighest, Published
<1>6. CASE BeginCopy /\ UNCHANGED submission
  <2>1. UNCHANGED <<versions, cases>>
    BY <1>6 DEF BeginCopy
  <2>. QED
    BY <2>1 DEF CatalogInductive, DefaultsHighest, Published
<1>7. CASE CopyFile /\ UNCHANGED submission
  <2>1. UNCHANGED <<versions, cases>>
    BY <1>7 DEF CopyFile
  <2>. QED
    BY <2>1 DEF CatalogInductive, DefaultsHighest, Published
<1>8. CASE Place /\ UNCHANGED submission
  <2>1. UNCHANGED <<versions, cases>>
    BY <1>8 DEF Place
  <2>. QED
    BY <2>1 DEF CatalogInductive, DefaultsHighest, Published
<1>9. CASE PublishVersion /\ UNCHANGED submission
  <2>1. PICK number \in Numbers, version \in Versions :
          /\ Slot = <<number, version>>
          /\ number = Slot[1] /\ version = Slot[2]
    BY <1>9, SlotType DEF CatalogInductive, TypeOK, PublishVersion, Slots
  <2>2. cases[number] \in Case /\ cases[number] # None
    BY <1>9, <2>1, SlotType, NoneAssumption
       DEF CatalogInductive, TypeOK, RegistryTypeOK, OperationsHaveCases,
           Registration, PublishVersion
  <2>. DEFINE before == cases[number].default
  <2>3. cases' = [cases EXCEPT ![number].default =
                    IF @ < version THEN version ELSE @]
    BY <1>9, <2>1 DEF PublishVersion
  <2>4. cases'[number].default = IF before < version THEN version ELSE before
    BY <2>1, <2>2, <2>3 DEF CatalogInductive, TypeOK, RegistryTypeOK, Case
  <2>5. versions'[number, version] # None
    BY <1>9, <2>1, Publishes, SlotType, NoneAssumption
       DEF CatalogInductive, TypeOK, PublishVersion
  <2>6. \A slot \in Slots \ {<<number, version>>} : versions'[slot] = versions[slot]
    BY <1>9, <2>1, Publishes
  <2>7. Published(number)' = Published(number) \cup {version}
    <3>1. \A other \in Versions \ {version} :
             versions'[number, other] = versions[number, other]
      BY <2>6 DEF Slots
    <3>. QED
      BY <2>5, <3>1 DEF Published
  <2>8. \A other \in Numbers \ {number} :
           cases'[other] = cases[other] /\ Published(other)' = Published(other)
    BY <2>1, <2>3, <2>6
       DEF CatalogInductive, TypeOK, RegistryTypeOK, Published, Slots
  <2>9. /\ cases'[number].default \in Published(number)'
        /\ \A other \in Published(number)' : other <= cases'[number].default
    <3>1. before \in Nat /\ version \in Nat \ {0}
             /\ Published(number) \subseteq Nat
      <4>1. Published(number) \subseteq Versions
        BY DEF Published
      <4>2. before \in Versions \cup {0}
        BY <2>2 DEF Case
      <4>. HIDE DEF before
      <4>3. before \in Nat
        BY <4>2, VersionsPositive
      <4>4. version \in Nat \ {0}
        BY VersionsPositive
      <4>5. Published(number) \subseteq Nat
        BY <4>1, VersionsPositive
      <4>. QED
        BY <4>3, <4>4, <4>5
    <3>2. IF Published(number) = {} THEN before = 0
          ELSE /\ before \in Published(number)
               /\ \A other \in Published(number) : other <= before
      BY <2>1, <2>2 DEF CatalogInductive, DefaultsHighest
    <3>. HIDE DEF before
    <3>. QED
      BY <2>4, <2>7, <3>1, <3>2
  <2>. QED
    BY <2>8, <2>9 DEF CatalogInductive, DefaultsHighest
<1>10. CASE LeaveRegister /\ UNCHANGED submission
  <2>1. UNCHANGED <<versions, cases>>
    BY <1>10 DEF LeaveRegister
  <2>. QED
    BY <2>1 DEF CatalogInductive, DefaultsHighest, Published
<1>11. ASSUME NEW selector \in Names, NEW name \in Names,
            Rename(selector, name), UNCHANGED submission
     PROVE  DefaultsHighest'
  <2>1. UNCHANGED <<versions, cases>>
    BY <1>11 DEF Rename
  <2>. QED
    BY <2>1 DEF CatalogInductive, DefaultsHighest, Published
<1>12. ASSUME NEW selector \in Names, NEW archived \in BOOLEAN,
            SetArchived(selector, archived), UNCHANGED submission
     PROVE  DefaultsHighest'
  <2>1. /\ versions' = versions
        /\ cases' = [cases EXCEPT ![names[selector]].archived = archived]
        /\ names[selector] \in Numbers
    BY <1>12 DEF CatalogInductive, TypeOK, RegistryTypeOK, SetArchived
  <2>2. ASSUME NEW number \in Numbers, cases'[number] # None
        PROVE  cases[number] # None /\ cases'[number].default = cases[number].default
    <3>1. cases[number] # None
      <4>1. cases[names[selector]] # None
        BY <1>12 DEF CatalogInductive, NamesHaveCases, SetArchived
      <4>. QED
        BY <2>1, <2>2, <4>1 DEF CatalogInductive, TypeOK, RegistryTypeOK
    <3>. QED
      BY <2>1, <3>1 DEF CatalogInductive, TypeOK, RegistryTypeOK, Case
  <2>. QED
    BY <2>1, <2>2 DEF CatalogInductive, DefaultsHighest, Published
<1>13. CASE SubmitNext
  <2>1. UNCHANGED <<versions, cases>>
    BY <1>13, SubmitReads DEF registry
  <2>. QED
    BY <2>1 DEF CatalogInductive, DefaultsHighest, Published
<1>. QED
  BY <1>1, <1>2, <1>3, <1>4, <1>5, <1>6, <1>7, <1>8, <1>9, <1>10, <1>11, <1>12,
     <1>13 DEF Next, RegistryNext, SubmitNext

\* What was reported as done is still there after a step.
LEMMA ReadyStays ==
    ASSUME CatalogInductive, [Next]_vars, NEW request \in Requests,
           operations[request] # None, operations[request].ready
    PROVE  versions'[operations[request].number,
                     operations[request].package.version]
               = operations[request].package
<1>. DEFINE slot == <<operations[request].number,
                      operations[request].package.version>>
<1>1. operations[request] \in Operation
  BY DEF CatalogInductive, TypeOK, RegistryTypeOK
<1>2. slot \in Slots /\ operations[request].package \in Packages
  BY <1>1 DEF Operation, Slots, Versions
<1>3. versions[slot] = operations[request].package
  BY DEF CatalogInductive, ReadyPublished
<1>. HIDE DEF slot
<1>4. versions'[slot] = versions[slot]
  BY <1>2, <1>3, VersionsStay, NoneAssumption
<1>. QED
  BY <1>3, <1>4 DEF slot


\* What was reported as done stays so.
LEMMA ReadyStep ==
    ASSUME CatalogInductive, [Next]_vars
    PROVE  ReadyPublished'
<1>1. CASE UNCHANGED vars
  <2>1. UNCHANGED operations
    BY <1>1 DEF vars
  <2>. QED
    BY <2>1, ReadyStays DEF ReadyPublished
<1>2. ASSUME NEW request \in Requests, NEW target \in Targets,
            NEW package \in Packages, Continue(request, target, package),
            UNCHANGED submission
     PROVE  ReadyPublished'
  <2>1. UNCHANGED operations
    BY <1>2 DEF Continue
  <2>. QED
    BY <2>1, ReadyStays DEF ReadyPublished
<1>3. ASSUME NEW request \in Requests, NEW target \in Targets,
            NEW package \in Packages, ReserveNew(request, target, package),
            UNCHANGED submission
     PROVE  ReadyPublished'
  <2>1. \A other \in Requests :
           operations'[other] # None /\ operations'[other].ready =>
             operations'[other] = operations[other]
    BY <1>3 DEF CatalogInductive, TypeOK, RegistryTypeOK, ReserveNew, Operated
  <2>. QED
    BY <2>1, ReadyStays DEF ReadyPublished
<1>4. ASSUME NEW request \in Requests, NEW target \in Targets,
            NEW package \in Packages, ReserveVersion(request, target, package),
            UNCHANGED submission
     PROVE  ReadyPublished'
  <2>1. \A other \in Requests :
           operations'[other] # None /\ operations'[other].ready =>
             operations'[other] = operations[other]
    BY <1>4 DEF CatalogInductive, TypeOK, RegistryTypeOK, ReserveVersion,
       Operated
  <2>. QED
    BY <2>1, ReadyStays DEF ReadyPublished
<1>5. CASE FindStored /\ UNCHANGED submission
  <2>1. UNCHANGED operations
    BY <1>5 DEF FindStored
  <2>. QED
    BY <2>1, ReadyStays DEF ReadyPublished
<1>6. CASE BeginCopy /\ UNCHANGED submission
  <2>1. UNCHANGED operations
    BY <1>6 DEF BeginCopy
  <2>. QED
    BY <2>1, ReadyStays DEF ReadyPublished
<1>7. CASE CopyFile /\ UNCHANGED submission
  <2>1. UNCHANGED operations
    BY <1>7 DEF CopyFile
  <2>. QED
    BY <2>1, ReadyStays DEF ReadyPublished
<1>8. CASE Place /\ UNCHANGED submission
  <2>1. UNCHANGED operations
    BY <1>8 DEF Place
  <2>. QED
    BY <2>1, ReadyStays DEF ReadyPublished
<1>9. CASE PublishVersion /\ UNCHANGED submission
  <2>1. \A other \in Requests \ {register.request} :
           operations'[other] = operations[other]
    BY <1>9 DEF CatalogInductive, TypeOK, RegistryTypeOK, PublishVersion
  <2>2. /\ operations[register.request] \in Operation
        /\ register.request \in Requests
        /\ operations' = [operations EXCEPT ![register.request].ready = TRUE]
    BY <1>9, SlotType
       DEF CatalogInductive, TypeOK, PublishVersion, Registration
  <2>3. /\ operations'[register.request].number = Slot[1]
        /\ operations'[register.request].package = Registered
        /\ Slot = <<Slot[1], Registered.version>>
    BY <2>2 DEF CatalogInductive, TypeOK, RegistryTypeOK, Operation, Slot,
         Registered
  <2>4. versions'[Slot] = Registered
    BY <1>9, Publishes
  <2>. QED
    BY <2>1, <2>3, <2>4, ReadyStays DEF ReadyPublished
<1>10. CASE LeaveRegister /\ UNCHANGED submission
  <2>1. UNCHANGED operations
    BY <1>10 DEF LeaveRegister
  <2>. QED
    BY <2>1, ReadyStays DEF ReadyPublished
<1>11. ASSUME NEW selector \in Names, NEW name \in Names,
            Rename(selector, name), UNCHANGED submission
     PROVE  ReadyPublished'
  <2>1. UNCHANGED operations
    BY <1>11 DEF Rename
  <2>. QED
    BY <2>1, ReadyStays DEF ReadyPublished
<1>12. ASSUME NEW selector \in Names, NEW archived \in BOOLEAN,
            SetArchived(selector, archived), UNCHANGED submission
     PROVE  ReadyPublished'
  <2>1. UNCHANGED operations
    BY <1>12 DEF SetArchived
  <2>. QED
    BY <2>1, ReadyStays DEF ReadyPublished
<1>13. CASE SubmitNext
  <2>1. UNCHANGED operations
    BY <1>13, SubmitReads DEF registry
  <2>. QED
    BY <2>1, ReadyStays DEF ReadyPublished
<1>. QED
  BY <1>1, <1>2, <1>3, <1>4, <1>5, <1>6, <1>7, <1>8, <1>9, <1>10, <1>11, <1>12,
     <1>13 DEF Next, RegistryNext, SubmitNext

\* Numbers and names stay with those who took them.
LEMMA NumbersStep ==
    ASSUME CatalogInductive, [Next]_vars
    PROVE  NumbersPermanent'
<1>1. CASE UNCHANGED vars
  <2>1. UNCHANGED <<names, operations>>
    BY <1>1 DEF vars
  <2>2. \A request \in Requests : operations[request] # None =>
           operations[request].number \in Numbers
    BY DEF CatalogInductive, TypeOK, RegistryTypeOK, Operation
  <2>. QED
    BY <2>1, <2>2, CasesStay DEF CatalogInductive, NumbersPermanent,
         OperationsHaveCases
<1>2. ASSUME NEW request \in Requests, NEW target \in Targets,
            NEW package \in Packages, Continue(request, target, package),
            UNCHANGED submission
     PROVE  NumbersPermanent'
  <2>1. UNCHANGED <<names, operations>>
    BY <1>2 DEF Continue
  <2>2. \A other \in Requests : operations[other] # None =>
           operations[other].number \in Numbers
    BY DEF CatalogInductive, TypeOK, RegistryTypeOK, Operation
  <2>. QED
    BY <2>1, <2>2, CasesStay DEF CatalogInductive, NumbersPermanent,
         OperationsHaveCases
<1>3. ASSUME NEW request \in Requests, NEW target \in Targets,
            NEW package \in Packages, ReserveNew(request, target, package),
            UNCHANGED submission
     PROVE  NumbersPermanent'
  <2>1. PICK number \in Numbers : number = Min(Free) /\ cases[number] = None
    BY <1>3, MinFree DEF ReserveNew
  <2>2. /\ operations' = [operations EXCEPT ![request] =
                            [package |-> package, target |-> target,
                             number |-> number, ready |-> FALSE]]
        /\ names' = [names EXCEPT ![target.name] = number]
        /\ cases' = [cases EXCEPT ![number] =
                       [id |-> package.id, default |-> 0, archived |-> FALSE]]
        /\ names[target.name] = None
        /\ target.name \in Names
    BY <1>3, <2>1 DEF ReserveNew, Operated, Targets
  <2>3. /\ names'[target.name] = number
        /\ cases'[number].id = package.id
        /\ operations'[request].number = number
        /\ operations'[request].package = package
        /\ operations'[request].target = target
    BY <2>1, <2>2 DEF CatalogInductive, TypeOK, RegistryTypeOK
  <2>4. ASSUME NEW other \in Requests \ {request}, operations'[other] # None
        PROVE  /\ operations'[other] = operations[other]
               /\ operations[other] # None
               /\ operations[other] \in Operation
               /\ operations[other].number # number
               /\ cases'[operations[other].number].id
                     = operations[other].package.id
    <3>1. operations'[other] = operations[other]
      BY <2>2 DEF CatalogInductive, TypeOK, RegistryTypeOK
    <3>2. operations[other] \in Operation
      BY <2>4, <3>1 DEF CatalogInductive, TypeOK, RegistryTypeOK
    <3>3. /\ cases[operations[other].number] # None
          /\ cases[operations[other].number].id = operations[other].package.id
          /\ operations[other].number \in Numbers
      BY <2>4, <3>1, <3>2 DEF CatalogInductive, OperationsHaveCases, Operation
    <3>. QED
      BY <2>1, <2>4, <3>1, <3>2, <3>3, CasesStay
  <2>5. ASSUME NEW other \in Requests \ {request}, operations'[other] # None,
               operations'[other].target.new
        PROVE  names'[operations[other].target.name] = operations[other].number
    <3>1. operations[other].target.name \in Names
          /\ operations[other].number \in Numbers
      BY <2>4, <2>5 DEF Operation, Targets
    <3>2. names[operations[other].target.name] = operations[other].number
      BY <2>4, <2>5 DEF CatalogInductive, NumbersPermanent
    <3>. QED
      BY <2>2, <3>1, <3>2, NoneAssumption
         DEF CatalogInductive, TypeOK, RegistryTypeOK
  <2>6. ASSUME NEW one \in Requests \ {request}, NEW other \in Requests \ {one},
               operations'[one] # None, operations'[one].target.new,
               operations'[other] # None, operations'[other].target.new
        PROVE  operations'[other].number # operations'[one].number
    BY <2>3, <2>4, <2>6 DEF CatalogInductive, NumbersPermanent
  <2>7. ASSUME NEW other \in Requests \ {request}, operations'[other] # None
        PROVE  operations'[other].number # operations'[request].number
    BY <2>3, <2>4, <2>7
  <2>. QED
    BY <2>3, <2>4, <2>5, <2>6, <2>7 DEF NumbersPermanent
<1>4. ASSUME NEW request \in Requests, NEW target \in Targets,
            NEW package \in Packages, ReserveVersion(request, target, package),
            UNCHANGED submission
     PROVE  NumbersPermanent'
  <2>1. /\ operations' = [operations EXCEPT ![request] =
                            [package |-> package, target |-> target,
                             number |-> names[target.name], ready |-> FALSE]]
        /\ ~target.new
        /\ names' = names /\ cases' = cases
    BY <1>4 DEF ReserveVersion, Operated
  <2>2. ~operations'[request].target.new
    BY <2>1 DEF CatalogInductive, TypeOK, RegistryTypeOK
  <2>3. \A other \in Requests \ {request} : operations'[other] = operations[other]
    BY <2>1 DEF CatalogInductive, TypeOK, RegistryTypeOK
  <2>. QED
    BY <2>1, <2>2, <2>3 DEF CatalogInductive, NumbersPermanent
<1>5. CASE FindStored /\ UNCHANGED submission
  <2>1. UNCHANGED <<names, operations>>
    BY <1>5 DEF FindStored
  <2>2. \A request \in Requests : operations[request] # None =>
           operations[request].number \in Numbers
    BY DEF CatalogInductive, TypeOK, RegistryTypeOK, Operation
  <2>. QED
    BY <2>1, <2>2, CasesStay DEF CatalogInductive, NumbersPermanent,
         OperationsHaveCases
<1>6. CASE BeginCopy /\ UNCHANGED submission
  <2>1. UNCHANGED <<names, operations>>
    BY <1>6 DEF BeginCopy
  <2>2. \A request \in Requests : operations[request] # None =>
           operations[request].number \in Numbers
    BY DEF CatalogInductive, TypeOK, RegistryTypeOK, Operation
  <2>. QED
    BY <2>1, <2>2, CasesStay DEF CatalogInductive, NumbersPermanent,
         OperationsHaveCases
<1>7. CASE CopyFile /\ UNCHANGED submission
  <2>1. UNCHANGED <<names, operations>>
    BY <1>7 DEF CopyFile
  <2>2. \A request \in Requests : operations[request] # None =>
           operations[request].number \in Numbers
    BY DEF CatalogInductive, TypeOK, RegistryTypeOK, Operation
  <2>. QED
    BY <2>1, <2>2, CasesStay DEF CatalogInductive, NumbersPermanent,
         OperationsHaveCases
<1>8. CASE Place /\ UNCHANGED submission
  <2>1. UNCHANGED <<names, operations>>
    BY <1>8 DEF Place
  <2>2. \A request \in Requests : operations[request] # None =>
           operations[request].number \in Numbers
    BY DEF CatalogInductive, TypeOK, RegistryTypeOK, Operation
  <2>. QED
    BY <2>1, <2>2, CasesStay DEF CatalogInductive, NumbersPermanent,
         OperationsHaveCases
<1>9. CASE PublishVersion /\ UNCHANGED submission
  <2>1. \A request \in Requests : operations'[request] # None =>
           /\ operations[request] # None
           /\ operations[request].number \in Numbers
           /\ operations'[request].number = operations[request].number
           /\ operations'[request].package = operations[request].package
           /\ operations'[request].target = operations[request].target
    <3>1. register.request \in Requests
             /\ operations[register.request] \in Operation
      BY <1>9, SlotType DEF CatalogInductive, TypeOK, PublishVersion,
         Registration
    <3>. QED
      BY <1>9, <3>1, NoneAssumption
         DEF CatalogInductive, TypeOK, RegistryTypeOK, Operation,
            PublishVersion
  <2>2. names' = names
    BY <1>9 DEF PublishVersion
  <2>3. \A request \in Requests : operations'[request] # None =>
           cases'[operations[request].number].id = operations[request].package.id
    BY <2>1, CasesStay DEF CatalogInductive, OperationsHaveCases
  <2>. QED
    BY <2>1, <2>2, <2>3 DEF CatalogInductive, NumbersPermanent
<1>10. CASE LeaveRegister /\ UNCHANGED submission
  <2>1. UNCHANGED <<names, operations>>
    BY <1>10 DEF LeaveRegister
  <2>2. \A request \in Requests : operations[request] # None =>
           operations[request].number \in Numbers
    BY DEF CatalogInductive, TypeOK, RegistryTypeOK, Operation
  <2>. QED
    BY <2>1, <2>2, CasesStay DEF CatalogInductive, NumbersPermanent,
         OperationsHaveCases
<1>11. ASSUME NEW selector \in Names, NEW name \in Names,
            Rename(selector, name), UNCHANGED submission
     PROVE  NumbersPermanent'
  <2>1. /\ UNCHANGED <<cases, operations>>
        /\ \A other \in Names : names[other] # None => names'[other] = names[other]
    BY <1>11 DEF CatalogInductive, TypeOK, RegistryTypeOK, Rename, NameFits
  <2>2. ASSUME NEW request \in Requests, operations[request] # None,
               operations[request].target.new
        PROVE  names'[operations[request].target.name]
                  = names[operations[request].target.name]
    <3>1. operations[request].target.name \in Names
          /\ operations[request].number \in Numbers
      BY <2>2 DEF CatalogInductive, TypeOK, RegistryTypeOK, Operation, Targets
    <3>2. names[operations[request].target.name] = operations[request].number
      BY <2>2 DEF CatalogInductive, NumbersPermanent
    <3>. QED
      BY <2>1, <3>1, <3>2, NoneAssumption
  <2>. QED
    BY <2>1, <2>2 DEF CatalogInductive, NumbersPermanent
<1>12. ASSUME NEW selector \in Names, NEW archived \in BOOLEAN,
            SetArchived(selector, archived), UNCHANGED submission
     PROVE  NumbersPermanent'
  <2>1. UNCHANGED <<names, operations>>
    BY <1>12 DEF SetArchived
  <2>2. \A request \in Requests : operations[request] # None =>
           operations[request].number \in Numbers
    BY DEF CatalogInductive, TypeOK, RegistryTypeOK, Operation
  <2>. QED
    BY <2>1, <2>2, CasesStay DEF CatalogInductive, NumbersPermanent,
         OperationsHaveCases
<1>13. CASE SubmitNext
  <2>1. UNCHANGED <<names, operations>>
    BY <1>13, SubmitReads DEF registry
  <2>2. \A request \in Requests : operations[request] # None =>
           operations[request].number \in Numbers
    BY DEF CatalogInductive, TypeOK, RegistryTypeOK, Operation
  <2>. QED
    BY <2>1, <2>2, CasesStay DEF CatalogInductive, NumbersPermanent,
         OperationsHaveCases
<1>. QED
  BY <1>1, <1>2, <1>3, <1>4, <1>5, <1>6, <1>7, <1>8, <1>9, <1>10, <1>11, <1>12,
     <1>13 DEF Next, RegistryNext, SubmitNext

-----------------------------------------------------------------------------
(***************************************************************************)
(* Batches                                                                 *)
(***************************************************************************)

\* What a batch copies stays registered and unplanned.
LEMMA FreezesStep ==
    ASSUME CatalogInductive, [Next]_vars
    PROVE  FreezesRegistered'
<1>1. CASE UNCHANGED vars
  BY <1>1 DEF CatalogInductive, FreezesRegistered, vars
<1>2. CASE RegistryNext /\ UNCHANGED submission
  <2>1. UNCHANGED submission
    BY <1>2
  <2>. QED
    BY <2>1, VersionsStay DEF CatalogInductive, FreezesRegistered, Slots,
         submission
<1>3. ASSUME NEW batch \in Batches, NEW selection \in Selections,
            TakePlan(batch, selection)
     PROVE  FreezesRegistered'
  <2>1. submit'.at = "planned"
    BY <1>3 DEF TakePlan
  <2>. QED
    BY <2>1 DEF FreezesRegistered
<1>4. ASSUME NEW batch \in Batches, NEW selection \in Selections,
            ResolveCase(batch, selection)
     PROVE  FreezesRegistered'
  <2>. DEFINE number == names[selection.name]
              version == Wanted(selection)
  <2>1. /\ submit'.number = number /\ submit'.version = version
        /\ submit'.selection = selection /\ submit'.batch = batch
        /\ UNCHANGED <<versions, plans>>
    BY <1>4 DEF ResolveCase, registry
  <2>2. number \in Numbers /\ cases[number] \in Case
           /\ cases[number].default # 0
    BY <1>4 DEF CatalogInductive, TypeOK, RegistryTypeOK, NamesHaveCases,
       Selections,
         ResolveCase, Resolves
  <2>3. version \in Versions /\ selection.version \in {0, version}
    BY <2>2 DEF Wanted, Selections, Case
  <2>4. versions[number, version] # None /\ plans[batch] = None
    BY <1>4 DEF ResolveCase, Resolves, Unplanned
  <2>. HIDE DEF number, version
  <2>. QED
    BY <2>1, <2>2, <2>3, <2>4 DEF FreezesRegistered
<1>5. CASE FreezeFile
  <2>1. submit \in Submit
    BY <1>5 DEF CatalogInductive, TypeOK, FreezeFile
  <2>2. /\ submit'.at = submit.at /\ submit'.number = submit.number
        /\ submit'.version = submit.version /\ submit'.batch = submit.batch
        /\ submit'.selection = submit.selection
        /\ UNCHANGED <<versions, plans>>
    BY <1>5, <2>1 DEF FreezeFile, Submit, registry
  <2>. QED
    BY <1>5, <2>2 DEF CatalogInductive, FreezesRegistered, FreezeFile
<1>6. CASE WritePlan
  <2>1. submit \in Submit /\ submit' = [submit EXCEPT !.at = "planned"]
    BY <1>6 DEF CatalogInductive, TypeOK, WritePlan
  <2>2. submit'.at = "planned"
    BY <2>1 DEF Submit
  <2>. QED
    BY <2>2 DEF FreezesRegistered
<1>7. CASE PublishBatch
  BY <1>7 DEF PublishBatch, FreezesRegistered
<1>8. CASE LeaveSubmit
  BY <1>8 DEF LeaveSubmit, FreezesRegistered
<1>. QED
  BY <1>1, <1>2, <1>3, <1>4, <1>5, <1>6, <1>7, <1>8 DEF Next, RegistryNext,
     SubmitNext

\* What a plan names is registered, before a step and after it.
LEMMA PlannedStays ==
    ASSUME CatalogInductive, [Next]_vars, NEW batch \in Batches,
           plans[batch] # None
    PROVE  versions'[plans[batch].number, plans[batch].package.version]
              = plans[batch].package
<1>. DEFINE slot == <<plans[batch].number, plans[batch].package.version>>
<1>1. plans[batch] \in Plan
  BY DEF CatalogInductive, TypeOK
<1>2. slot \in Slots /\ plans[batch].package \in Packages
  BY <1>1 DEF Plan, Slots, Versions
<1>3. versions[slot] = plans[batch].package
  BY DEF CatalogInductive, BatchesFrozen
<1>. HIDE DEF slot
<1>4. versions'[slot] = versions[slot]
  BY <1>2, <1>3, VersionsStay, NoneAssumption
<1>. QED
  BY <1>3, <1>4 DEF slot


\* Planned batches stay frozen.
LEMMA BatchesStep ==
    ASSUME CatalogInductive, [Next]_vars
    PROVE  BatchesFrozen'
<1>1. CASE UNCHANGED vars
  <2>1. UNCHANGED <<bundles, plans, published>>
    BY <1>1 DEF vars
  <2>. QED
    BY <2>1, PlannedStays DEF CatalogInductive, BatchesFrozen
<1>2. CASE RegistryNext /\ UNCHANGED submission
  <2>1. UNCHANGED <<bundles, plans, published>>
    BY <1>2 DEF submission
  <2>. QED
    BY <2>1, PlannedStays DEF CatalogInductive, BatchesFrozen
<1>3. ASSUME NEW batch \in Batches, NEW selection \in Selections,
            TakePlan(batch, selection)
     PROVE  BatchesFrozen'
  <2>1. UNCHANGED <<bundles, plans, published>>
    BY <1>3 DEF TakePlan
  <2>. QED
    BY <2>1, PlannedStays DEF CatalogInductive, BatchesFrozen
<1>4. ASSUME NEW batch \in Batches, NEW selection \in Selections,
            ResolveCase(batch, selection)
     PROVE  BatchesFrozen'
  <2>1. UNCHANGED <<bundles, plans, published>>
    BY <1>4 DEF ResolveCase
  <2>. QED
    BY <2>1, PlannedStays DEF CatalogInductive, BatchesFrozen
<1>5. CASE FreezeFile
  <2>1. submit.batch \in Batches /\ plans[submit.batch] = None
    BY <1>5 DEF CatalogInductive, TypeOK, Submit, FreezesRegistered, FreezeFile
  <2>2. \A batch \in Batches \ {submit.batch} : bundles'[batch] = bundles[batch]
    BY <1>5 DEF CatalogInductive, TypeOK, FreezeFile
  <2>3. UNCHANGED <<plans, published>>
    BY <1>5 DEF FreezeFile
  <2>. QED
    BY <2>1, <2>2, <2>3, PlannedStays DEF CatalogInductive, BatchesFrozen
<1>6. CASE WritePlan
  <2>1. PICK batch \in Batches : batch = submit.batch
    BY <1>6 DEF CatalogInductive, TypeOK, Submit, WritePlan
  <2>2. PICK number \in Numbers, version \in Versions :
          number = submit.number /\ version = submit.version
    BY <1>6 DEF CatalogInductive, FreezesRegistered, WritePlan
  <2>3. PICK slot \in Slots : slot = <<number, version>>
    BY DEF Slots
  <2>4. PICK package \in Packages : package = versions[slot]
    BY <1>6, <2>2, <2>3
       DEF CatalogInductive, TypeOK, RegistryTypeOK, FreezesRegistered,
          WritePlan
  <2>5. /\ stored[slot] = Tree(package)
        /\ package.version = version
    BY <2>3, <2>4, NoneAssumption DEF CatalogInductive, VersionsStored
  <2>. DEFINE plan == [selection |-> submit.selection, number |-> number,
                      package |-> package]
  <2>6. plans' = [plans EXCEPT ![batch] = plan]
    BY <1>6, <2>1, <2>2, <2>3, <2>4 DEF WritePlan
  <2>7. /\ bundles'[batch] = Tree(package)
        /\ versions'[number, package.version] = package
        /\ submit.selection.version \in {0, package.version}
        /\ plans[batch] = None
        /\ UNCHANGED <<bundles, published>>
    BY <1>6, <2>1, <2>2, <2>3, <2>4, <2>5
       DEF CatalogInductive, FreezesRegistered, WritePlan, Frozen, registry
  <2>8. \A other \in Batches \ {batch} : plans'[other] = plans[other]
    BY <2>6 DEF CatalogInductive, TypeOK
  <2>9. plans'[batch] = plan
    BY <2>6 DEF CatalogInductive, TypeOK
  <2>10. published[batch] = None
    BY <2>7 DEF CatalogInductive, BatchesFrozen
  <2>11. /\ plan.package = package /\ plan.number = number
         /\ plan.selection = submit.selection
    OBVIOUS
  <2>. HIDE DEF plan
  <2>12. /\ bundles'[batch] = Tree(plans'[batch].package)
         /\ versions'[plans'[batch].number, plans'[batch].package.version]
               = plans'[batch].package
         /\ plans'[batch].selection.version \in {0, plans'[batch].package.version}
         /\ published'[batch] \in {None, plans'[batch]}
    BY <2>7, <2>9, <2>10, <2>11
  <2>13. ASSUME NEW other \in Batches \ {batch}
        PROVE  /\ plans'[other] # None =>
                     /\ bundles'[other] = Tree(plans'[other].package)
                     /\ versions'[plans'[other].number,
                                 plans'[other].package.version]
                           = plans'[other].package
                     /\ plans'[other].selection.version
                           \in {0, plans'[other].package.version}
               /\ published'[other] \in {None, plans'[other]}
    BY <2>7, <2>8, PlannedStays DEF CatalogInductive, BatchesFrozen
  <2>. QED
    BY <2>12, <2>13 DEF BatchesFrozen
<1>7. CASE PublishBatch
  <2>1. \A batch \in Batches : published'[batch] \in {published[batch], plans[batch]}
    BY <1>7 DEF CatalogInductive, TypeOK, PublishBatch
  <2>2. UNCHANGED <<bundles, plans>>
    BY <1>7 DEF PublishBatch
  <2>. QED
    BY <2>1, <2>2, PlannedStays DEF CatalogInductive, BatchesFrozen
<1>8. CASE LeaveSubmit
  <2>1. UNCHANGED <<bundles, plans, published>>
    BY <1>8 DEF LeaveSubmit
  <2>. QED
    BY <2>1, PlannedStays DEF CatalogInductive, BatchesFrozen
<1>. QED
  BY <1>1, <1>2, <1>3, <1>4, <1>5, <1>6, <1>7, <1>8 DEF Next, RegistryNext,
     SubmitNext

-----------------------------------------------------------------------------
(***************************************************************************)
(* Theorems                                                                *)
(***************************************************************************)

\* The invariant holds at the start.
LEMMA CatalogInit == Init => CatalogInductive
<1>. SUFFICES ASSUME Init PROVE CatalogInductive
  OBVIOUS
<1>1. TypeOK
  BY NoneAssumption, NoPlanAssumption
     DEF Init, RegistryInit, TypeOK, RegistryTypeOK, EmptyTree, TreeType
<1>. QED
  BY <1>1
     DEF Init, RegistryInit, CatalogInductive, NamesHaveCases,
         OperationsHaveCases, VersionsStored, DefaultsHighest, ReadyPublished,
         NumbersPermanent, FreezesRegistered, BatchesFrozen

\* Together, the steps above keep the invariant.
LEMMA CatalogStep == CatalogInductive /\ [Next]_vars => CatalogInductive'
  BY TypeStep, CasesStep, VersionsStep, DefaultsStep, ReadyStep, NumbersStep,
     FreezesStep, BatchesStep DEF CatalogInductive

\* The invariant holds in every state that registry and batches can reach.
THEOREM CatalogInvariant == Spec => []CatalogInductive
  BY CatalogInit, CatalogStep, PTL DEF Spec

\* The tables of the registry, its operations and the batches keep to their
\* types.
THEOREM CatalogTypesHold == Spec => []TypeOK
<1>1. CatalogInductive => TypeOK
  BY DEF CatalogInductive
<1>. QED
  BY <1>1, CatalogInvariant, PTL

\* Numbers and names are never given twice or taken away, whatever is
\* interrupted and retried.
THEOREM NumbersArePermanent == Spec => []NumbersPermanent
<1>1. CatalogInductive => NumbersPermanent
  BY DEF CatalogInductive
<1>. QED
  BY <1>1, CatalogInvariant, PTL

\* The highest element of a set that has one is its Max.
LEMMA MaxIsHighest ==
    ASSUME NEW S \in SUBSET Nat, NEW high \in S, \A x \in S : x <= high
    PROVE  Max(S) = high
<1>1. \A x \in S : x \in Nat
  OBVIOUS
<1>2. high \in S /\ \A y \in S : high >= y
  BY <1>1
<1>3. Max(S) \in S /\ \A y \in S : Max(S) >= y
  BY <1>2 DEF Max
<1>4. PICK max \in S : max = Max(S)
  BY <1>3
<1>5. max >= high /\ high >= max /\ max \in Nat /\ high \in Nat
  BY <1>1, <1>2, <1>3, <1>4
<1>. QED
  BY <1>4, <1>5

\* Whatever can be selected has the files it was registered with, and the
\* default is the highest version.
THEOREM VersionsAreSound == Spec => []VersionsSound
<1>1. CatalogInductive => VersionsSound
  <2>. SUFFICES ASSUME CatalogInductive PROVE VersionsSound
    OBVIOUS
  <2>1. ASSUME NEW number \in Numbers \ Free
        PROVE  cases[number].default = IF Published(number) = {} THEN 0
                                       ELSE Max(Published(number))
    <3>1. cases[number] # None
      BY DEF Free
    <3>2. IF Published(number) = {} THEN cases[number].default = 0
          ELSE /\ cases[number].default \in Published(number)
               /\ \A version \in Published(number) :
                     version <= cases[number].default
      BY <3>1 DEF CatalogInductive, DefaultsHighest
    <3>3. Published(number) \in SUBSET Nat
      BY VersionsPositive DEF Published
    <3>. QED
      BY <3>2, <3>3, MaxIsHighest
  <2>. QED
    BY <2>1 DEF CatalogInductive, VersionsStored, ReadyPublished, VersionsSound
<1>. QED
  BY <1>1, CatalogInvariant, PTL

\* A planned batch holds exactly the version it names, and a published one
\* is its plan.
THEOREM BatchesAreFrozen == Spec => []BatchesFrozen
<1>1. CatalogInductive => BatchesFrozen
  BY DEF CatalogInductive
<1>. QED
  BY <1>1, CatalogInvariant, PTL
=============================================================================
