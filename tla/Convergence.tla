----------------------------- MODULE Convergence -----------------------------
(***************************************************************************)
(* What the freezing workflows promise (repository-spec-freeze, exec-mrac,  *)
(* spec-init-freeze), without processes, files or crashes: a Spec is frozen *)
(* only when two different auditors approved its present content with       *)
(* nothing objected or revised in between.                                  *)
(***************************************************************************)
EXTENDS Naturals, FiniteSets

CONSTANTS Specs, Auditors

VARIABLES
    spec,       \* the content that is judged
    approvals,  \* the auditors that approved it, since the last objection
    frozen      \* the judgement is final

vars == <<spec, approvals, frozen>>

TypeOK ==
    /\ spec \in Specs
    /\ approvals \in SUBSET Auditors
    /\ frozen \in BOOLEAN

Init ==
    /\ spec \in Specs
    /\ approvals = {}
    /\ frozen = FALSE

\* Only a second auditor's approval freezes; an interrupt can forbid it.
Approve ==
    /\ ~frozen
    /\ Cardinality(approvals) < 2
    /\ \E auditor \in Auditors \ approvals :
          approvals' = approvals \cup {auditor}
    /\ frozen' => Cardinality(approvals') = 2
    /\ frozen' \in BOOLEAN
    /\ UNCHANGED spec

\* An objection, a resume or an abort takes the approvals back.
Object ==
    /\ ~frozen
    /\ approvals' = {}
    /\ UNCHANGED <<spec, frozen>>

\* A repair or an imported Spec.
Revise ==
    /\ ~frozen
    /\ spec' \in Specs \ {spec}
    /\ approvals' = {}
    /\ UNCHANGED frozen

\* The judgement is withdrawn when the run fails before it is closed, with
\* its approvals or without.
Retract ==
    /\ frozen
    /\ frozen' = FALSE
    /\ approvals' \in {approvals, {}}
    /\ UNCHANGED spec

Next == Approve \/ Object \/ Revise \/ Retract

Spec == Init /\ [][Next]_vars
=============================================================================
