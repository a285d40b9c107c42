----------------------------- MODULE Submission -----------------------------
(***************************************************************************)
(* Submission of batches (mrac_orchestrator/plan.py, backends/mrac.py       *)
(* freeze, store.py publish_batch) next to the case registry it selects     *)
(* from: the case is copied into the batch, the resolved plan written once  *)
(* and the batch published from it, with crashes between all of them.       *)
(*                                                                          *)
(* A batch selects one case; the protocol, the execution Spec and the       *)
(* validation of the settings are left out.                                 *)
(***************************************************************************)
EXTENDS CaseRegistry

CONSTANT Batches  \* request ids of batches

VARIABLES
    bundles,   \* the input directory of each batch
    plans,     \* resolved-plan.json
    published, \* rows of table batches
    submit     \* the process that holds submit.lock

submission == <<bundles, plans, published, submit>>
vars == <<cases, names, versions, operations, stored, staging, register,
          bundles, plans, published, submit>>

\* A request selects a case by name, with a version or (0) the default one.
Selections == [name: Names, version: Versions \cup {0}]
Plan == [selection: Selections, number: Numbers, package: Packages]
Submit == [batch: Batches, selection: Selections,
           at: {"freezing", "planned"},
           number: Numbers \cup {None}, version: Versions \cup {None},
           todo: SUBSET Files]

ASSUME NoPlanAssumption == None \notin Plan /\ None \notin Submit

TypeOK ==
    /\ RegistryTypeOK
    /\ bundles \in [Batches -> TreeType]
    /\ plans \in [Batches -> Plan \cup {None}]
    /\ published \in [Batches -> Plan \cup {None}]
    /\ submit \in Submit \cup {None}

Init ==
    /\ RegistryInit
    /\ bundles = [batch \in Batches |-> EmptyTree]
    /\ plans = [batch \in Batches |-> None]
    /\ published = [batch \in Batches |-> None]
    /\ submit = None
-----------------------------------------------------------------------------
\* submit() takes submit.lock.  A published request is answered or, when it
\* asks for something else, refused: nothing changes.

\* The plan of an interrupted submission is taken as it is.
TakePlan(batch, selection) ==
    /\ submit = None
    /\ published[batch] = None
    /\ plans[batch] # None
    /\ plans[batch].selection = selection
    /\ submit' = [batch |-> batch, selection |-> selection, at |-> "planned",
                  number |-> None, version |-> None, todo |-> {}]
    /\ UNCHANGED <<bundles, plans, published, registry>>

\* Bug: what an interrupted submission wrote is forgotten.
BugUnplanned(batch) == published[batch] = None

\* Neither published nor planned: the request is resolved.
Unplanned(batch) ==
    /\ published[batch] = None
    /\ plans[batch] = None

\* The version asked for, or the default one now.
Wanted(selection) ==
    IF selection.version = 0 THEN cases[names[selection.name]].default
                             ELSE selection.version

\* Registry.resolve without leave to take an archived case; the copy begins.
ResolveCase(batch, selection) ==
    /\ submit = None
    /\ Unplanned(batch)
    /\ names[selection.name] # None
    /\ Resolves(selection.name, Wanted(selection), FALSE)
    /\ LET number == names[selection.name]
           version == Wanted(selection)
       IN  submit' = [batch |-> batch, selection |-> selection,
                      at |-> "freezing", number |-> number,
                      version |-> version,
                      todo |-> FilesOf(versions[number, version])]
    /\ UNCHANGED <<bundles, plans, published, registry>>

\* copy_package writes over what an earlier try left in the directory.
FreezeFile ==
    /\ submit # None
    /\ submit.at = "freezing"
    /\ \E file \in submit.todo :
          /\ bundles' = [bundles EXCEPT ![submit.batch][file] =
                            stored[submit.number, submit.version][file]]
          /\ submit' = [submit EXCEPT !.todo = @ \ {file}]
    /\ UNCHANGED <<plans, published, registry>>

\* Bug: files of an earlier try are not noticed.
BugFrozen == submit.todo = {}

\* Every file is copied and the directory holds no other.
Frozen ==
    /\ submit.todo = {}
    /\ bundles[submit.batch] = stored[submit.number, submit.version]

\* The plan fixes what was frozen.
WritePlan ==
    /\ submit # None
    /\ submit.at = "freezing"
    /\ Frozen
    /\ plans' = [plans EXCEPT ![submit.batch] =
                    [selection |-> submit.selection, number |-> submit.number,
                     package |-> versions[submit.number, submit.version]]]
    /\ submit' = [submit EXCEPT !.at = "planned"]
    /\ UNCHANGED <<bundles, published, registry>>

\* Batch, tasks and event in one transaction.
PublishBatch ==
    /\ submit # None
    /\ submit.at = "planned"
    /\ published' = [published EXCEPT ![submit.batch] = plans[submit.batch]]
    /\ submit' = None
    /\ UNCHANGED <<bundles, plans, registry>>

\* A check fails or the process dies: what was copied stays.
LeaveSubmit ==
    /\ submit # None
    /\ submit' = None
    /\ UNCHANGED <<bundles, plans, published, registry>>

SubmitNext ==
    \/ \E batch \in Batches, selection \in Selections :
          TakePlan(batch, selection) \/ ResolveCase(batch, selection)
    \/ FreezeFile
    \/ WritePlan
    \/ PublishBatch
    \/ LeaveSubmit

Next ==
    \/ RegistryNext /\ UNCHANGED submission
    \/ SubmitNext

Spec == Init /\ [][Next]_vars
-----------------------------------------------------------------------------
\* From the moment a plan is written its input directory holds exactly one
\* registered version, the one the plan names, however often the submission
\* was interrupted, retried and overtaken by new versions; and a published
\* batch is its plan (submit and freeze; Spec.md 5.2, "after freezing only the
\* fixed inputs are read").
BatchesFrozen ==
    \A batch \in Batches :
        LET plan == plans[batch]
        IN  /\ plan # None =>
                  /\ bundles[batch] = Tree(plan.package)
                  /\ versions[plan.number, plan.package.version] = plan.package
                  /\ plan.selection.version \in {0, plan.package.version}
            /\ published[batch] \in {None, plan}
=============================================================================
