---------------------------- MODULE CaseRegistry ----------------------------
(***************************************************************************)
(* The case registry of mrac_resources/cases.py: registrations in two       *)
(* transactions with a copy of the package between them, retries under the  *)
(* same request id, new versions, aliases and archiving, with crashes at    *)
(* every step.                                                              *)
(*                                                                          *)
(* A package is what its files say (id, version) and whether it has a       *)
(* second file; two packages share no file content.  The source directory   *)
(* is the caller's and may be edited at any time, so that every time it is  *)
(* read it may hold any package.                                            *)
(***************************************************************************)
EXTENDS Naturals, FiniteSets, FiniteSetsExt

CONSTANTS
    Packages,  \* the packages a source directory may hold
    Names,     \* normalized names
    Requests,  \* ids of registration requests
    MaxCases,  \* bound of the model: numbers ever given
    None       \* no row, no file, no process

ASSUME PackagesAssumption ==
    \A package \in Packages :
        /\ package.version \in Nat \ {0}
        /\ package.extra \in BOOLEAN
ASSUME MaxCasesAssumption == MaxCases \in Nat

VARIABLES
    cases,      \* rows of table cases, by number: id, default, archived
    names,      \* table names: the number of each name
    versions,   \* table versions: the manifest of each number and version
    operations, \* table operations, by request id
    stored,     \* packages/<number>/v<version>
    staging,    \* .staging/<request id>
    register    \* the process that holds registry.lock in register()

registry == <<cases, names, versions, operations, stored, staging, register>>

Numbers == 1..MaxCases
Versions == {package.version : package \in Packages}
Slots == Numbers \X Versions
Ids == {package.id : package \in Packages}

\* A tree of files: which package each file was copied from.
Files == {"case.yaml", "extra"}
TreeType == [Files -> Packages \cup {None}]
EmptyTree == [file \in Files |-> None]
FilesOf(package) == {"case.yaml"} \cup (IF package.extra THEN {"extra"} ELSE {})
Tree(package) ==
    [file \in Files |-> IF file \in FilesOf(package) THEN package ELSE None]

\* What a caller asks for: a case of its own under a name, or a version more
\* of the case with this name.
Targets == [new: BOOLEAN, name: Names]

Case == [id: Ids, default: Versions \cup {0}, archived: BOOLEAN]
Operation == [package: Packages, target: Targets, number: Numbers,
              ready: BOOLEAN]
Registration == [request: Requests, at: {"reserved", "copying", "placed"},
                 listing: Packages \cup {None}, todo: SUBSET Files]

\* The placeholder is none of what it stands for.
ASSUME NoneAssumption ==
    /\ None \notin Packages /\ None \notin Numbers /\ None \notin TreeType
    /\ None \notin Case /\ None \notin Operation /\ None \notin Registration

\* What the process that holds registry.lock registers, and where.
Registered == operations[register.request].package
Slot == <<operations[register.request].number, Registered.version>>

RegistryTypeOK ==
    /\ cases \in [Numbers -> Case \cup {None}]
    /\ names \in [Names -> Numbers \cup {None}]
    /\ versions \in [Slots -> Packages \cup {None}]
    /\ operations \in [Requests -> Operation \cup {None}]
    /\ stored \in [Slots -> TreeType \cup {None}]
    /\ staging \in [Requests -> TreeType]
    /\ register \in Registration \cup {None}
    /\ register # None =>
          /\ operations[register.request] # None
          /\ register.at = "copying" => stored[Slot] = None
          /\ register.at = "placed" => stored[Slot] # None

RegistryInit ==
    /\ cases = [number \in Numbers |-> None]
    /\ names = [name \in Names |-> None]
    /\ versions = [slot \in Slots |-> None]
    /\ operations = [request \in Requests |-> None]
    /\ stored = [slot \in Slots |-> None]
    /\ staging = [request \in Requests |-> EmptyTree]
    /\ register = None

Published(number) ==
    {version \in Versions : versions[number, version] # None}
Free == {number \in Numbers : cases[number] = None}

\* Registry.resolve: a published case, archived only where allowed, whose
\* stored files are those of the manifest.
Resolves(name, version, archived) ==
    /\ names[name] # None
    /\ cases[names[name]].default # 0
    /\ ~cases[names[name]].archived \/ archived
    /\ LET slot == <<names[name], version>>
       IN  /\ versions[slot] # None
           /\ stored[slot] = Tree(versions[slot])
-----------------------------------------------------------------------------
(***************************************************************************)
(* Registry.register                                                       *)
(***************************************************************************)

\* register() validates the package, takes registry.lock and ends its first
\* transaction with a reservation.  What is refused (another content under a
\* known id, a name that is taken, a version that does not fit) and what is
\* answered from a published operation leave everything as it is.
Reserved(request) ==
    register' = [request |-> request, at |-> "reserved", listing |-> None,
                 todo |-> {}]

\* An interrupted request goes on with the number it was given.
Continue(request, target, package) ==
    /\ register = None
    /\ operations[request] # None
    /\ operations[request].package = package
    /\ operations[request].target = target
    /\ ~operations[request].ready
    /\ Reserved(request)
    /\ UNCHANGED <<cases, names, versions, operations, stored, staging>>

\* The version is new and the highest, or published with this very content.
Acceptable(number, package) ==
    \/ versions[number, package.version] = package
    \/ /\ versions[number, package.version] = None
       /\ \A version \in Published(number) : package.version > version

Operated(request, target, package, number) ==
    operations' = [operations EXCEPT ![request] =
                      [package |-> package, target |-> target,
                       number |-> number, ready |-> FALSE]]

\* The first transaction, for a case of its own.
ReserveNew(request, target, package) ==
    /\ register = None
    /\ operations[request] = None
    /\ target.new
    /\ names[target.name] = None
    /\ Free # {}
    /\ cases' = [cases EXCEPT ![Min(Free)] =
                    [id |-> package.id, default |-> 0, archived |-> FALSE]]
    /\ names' = [names EXCEPT ![target.name] = Min(Free)]
    /\ Operated(request, target, package, Min(Free))
    /\ Reserved(request)
    /\ UNCHANGED <<versions, stored, staging>>

\* The first transaction, for a version more of a case that is visible.
ReserveVersion(request, target, package) ==
    /\ register = None
    /\ operations[request] = None
    /\ ~target.new
    /\ names[target.name] # None
    /\ Resolves(target.name, cases[names[target.name]].default, TRUE)
    /\ cases[names[target.name]].id = package.id
    /\ Acceptable(names[target.name], package)
    /\ Operated(request, target, package, names[target.name])
    /\ Reserved(request)
    /\ UNCHANGED <<cases, names, versions, stored, staging>>

\* A directory with the number and version is there already.
FindStored ==
    /\ register # None
    /\ register.at = "reserved"
    /\ stored[Slot] # None
    /\ register' = [register EXCEPT !.at = "placed"]
    /\ UNCHANGED <<cases, names, versions, operations, stored, staging>>

\* Bug: a package is copied whether its directory is there or not.
BugAbsent == register.at = "reserved"

Absent ==
    /\ register.at = "reserved"
    /\ stored[Slot] = None

\* copy_package lists the files of the source as it is now.
BeginCopy ==
    /\ register # None
    /\ Absent
    /\ \E package \in Packages :
          register' = [register EXCEPT !.at = "copying", !.listing = package,
                                       !.todo = FilesOf(package)]
    /\ UNCHANGED <<cases, names, versions, operations, stored, staging>>

\* A listed file is copied from the source, where it still is.
CopyFile ==
    /\ register # None
    /\ register.at = "copying"
    /\ \E file \in register.todo, package \in Packages :
          /\ file \in FilesOf(package)
          /\ staging' = [staging EXCEPT ![register.request][file] = package]
          /\ register' = [register EXCEPT !.todo = @ \ {file}]
    /\ UNCHANGED <<cases, names, versions, operations, stored>>

\* The staged files are those listed: the directory takes its place.
Place ==
    /\ register # None
    /\ register.at = "copying"
    /\ register.todo = {}
    /\ staging[register.request] = Tree(register.listing)
    /\ stored' = [stored EXCEPT ![Slot] = staging[register.request]]
    /\ staging' = [staging EXCEPT ![register.request] = EmptyTree]
    /\ register' = [register EXCEPT !.at = "placed"]
    /\ UNCHANGED <<cases, names, versions, operations>>

\* Bug: a directory that is there is taken for the package.
BugPlaced == register.at = "placed"

\* The directory holds what was validated.
Placed ==
    /\ register.at = "placed"
    /\ stored[Slot] = Tree(Registered)

\* The second transaction makes the version visible.
PublishVersion ==
    /\ register # None
    /\ Placed
    /\ versions' = [versions EXCEPT ![Slot] =
                       IF @ = None THEN Registered ELSE @]
    /\ cases' = [cases EXCEPT ![Slot[1]].default =
                    IF @ < Slot[2] THEN Slot[2] ELSE @]
    /\ operations' = [operations EXCEPT ![register.request].ready = TRUE]
    /\ register' = None
    /\ UNCHANGED <<names, stored, staging>>

\* The copy or its check fails, the stored package is another one, or the
\* process dies: what was written stays.
LeaveRegister ==
    /\ register # None
    /\ register' = None
    /\ UNCHANGED <<cases, names, versions, operations, stored, staging>>
-----------------------------------------------------------------------------
(***************************************************************************)
(* Registry.update                                                         *)
(***************************************************************************)

\* Bug: an alias is taken whoever has it.
BugNameFits(name, number) == TRUE

NameFits(name, number) == names[name] \in {None, number}

\* A case gets a name more; the names it had go on selecting it.
Rename(selector, name) ==
    /\ register = None
    /\ names[selector] # None
    /\ Resolves(selector, cases[names[selector]].default, TRUE)
    /\ NameFits(name, names[selector])
    /\ names' = [names EXCEPT ![name] = names[selector]]
    /\ UNCHANGED <<cases, versions, operations, stored, staging, register>>

SetArchived(selector, archived) ==
    /\ register = None
    /\ names[selector] # None
    /\ Resolves(selector, cases[names[selector]].default, TRUE)
    /\ cases' = [cases EXCEPT ![names[selector]].archived = archived]
    /\ UNCHANGED <<names, versions, operations, stored, staging, register>>

RegistryNext ==
    \/ \E request \in Requests, target \in Targets, package \in Packages :
          \/ Continue(request, target, package)
          \/ ReserveNew(request, target, package)
          \/ ReserveVersion(request, target, package)
    \/ FindStored
    \/ BeginCopy
    \/ CopyFile
    \/ Place
    \/ PublishVersion
    \/ LeaveRegister
    \/ \E selector, name \in Names : Rename(selector, name)
    \/ \E selector \in Names, archived \in BOOLEAN : SetArchived(selector, archived)
-----------------------------------------------------------------------------
\* Whatever was interrupted, retried or edited meanwhile, a version that can
\* be selected has exactly the files it was registered with, the default is
\* the highest of them, and a registration reported as done is visible with
\* the content it asked for (register and resolve; the guarantee AC-03 of
\* doc/Parallel Orchestration Spec.md:395).
VersionsSound ==
    /\ \A slot \in Slots :
          versions[slot] # None => stored[slot] = Tree(versions[slot])
    /\ \A number \in Numbers \ Free :
          cases[number].default = IF Published(number) = {} THEN 0
                                  ELSE Max(Published(number))
    /\ \A request \in Requests :
          operations[request] # None /\ operations[request].ready =>
              versions[operations[request].number,
                       operations[request].package.version]
                  = operations[request].package

\* A number and a name belong for good to the registration that took them,
\* also while it is interrupted: no other operation that makes a case has its
\* number, and the name it asked for still selects it (the first transaction
\* of register, and update).
NumbersPermanent ==
    \A request \in Requests :
        operations[request] # None /\ operations[request].target.new =>
            /\ names[operations[request].target.name] = operations[request].number
            /\ cases[operations[request].number].id = operations[request].package.id
            /\ \A other \in Requests \ {request} :
                  operations[other] # None /\ operations[other].target.new =>
                      operations[other].number # operations[request].number
=============================================================================
