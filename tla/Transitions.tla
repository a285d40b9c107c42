---------------------------- MODULE Transitions ----------------------------
(***************************************************************************)
(* The pure state decisions of mracbench/transitions.py.  A run is one     *)
(* record that holds the fields of the code's "flow" and "result"          *)
(* dictionaries; each operator maps the run before a decision to the run   *)
(* after it, as the update dictionaries of the code do.                    *)
(***************************************************************************)
EXTENDS Naturals, Sequences

\* An audit's findings, up to what the protocol tells apart: none, only P3
\* findings, or at least one of P0, P1 and P2.
Findings == {"none", "p3", "blocking"}

\* No finding is pending, or no audit is active (audit ids start at 1).
NoAudit == 0

\* The list of clean observations after one more.  Observations of other
\* bytes are dropped, and two are kept at most.
CleanObservations(previous, current) ==
    LET same == previous # <<>> => previous[Len(previous)].sha = current.sha
        kept == IF same THEN previous ELSE <<>>
    IN  IF Len(kept) < 2 THEN Append(kept, current)
                         ELSE <<kept[Len(kept)], current>>

\* Bug: the observations before a finding survive it.
BugFindingsKeepClean(run, audit, findings) ==
    [run EXCEPT !.active = NoAudit, !.phase = "FIX", !.pending = audit,
                !.streak = IF findings = "blocking" THEN @ + 1 ELSE 0]

\* Every finding, whatever its severity, sends the run to FIX.
FindingsReported(run, audit, findings) ==
    [run EXCEPT !.active = NoAudit,
                !.phase = "FIX",
                !.clean = <<>>,
                !.pending = audit,
                !.streak = IF findings = "blocking" THEN @ + 1 ELSE 0]

\* Bug: one clean audit is enough.
BugFreezesAtOnce(clean) == Len(clean) >= 1

\* Two clean observations freeze the Spec.
Freezes(clean) == Len(clean) = 2

\* An audit without findings, the second of which freezes the Spec.
NothingReported(run, audit, auditor) ==
    LET clean == CleanObservations(
                    run.clean,
                    [audit |-> audit, auditor |-> auditor, sha |-> run.artifact])
        frozen == Freezes(clean)
    IN  [run EXCEPT !.active = NoAudit,
                    !.streak = 0,
                    !.clean = clean,
                    !.phase = IF frozen THEN "FROZEN" ELSE @,
                    !.status = IF frozen THEN "CONVERGED" ELSE @,
                    !.frozen = IF frozen THEN run.artifact ELSE @]

RepositoryAudited(run, audit, auditor, findings) ==
    IF findings = "none" THEN NothingReported(run, audit, auditor)
                         ELSE FindingsReported(run, audit, findings)

\* A repair with new bytes closes the pending findings.
SpecRepaired(run, spec) ==
    [run EXCEPT !.phase = "AUDIT",
                !.artifact = spec,
                !.pending = NoAudit,
                !.clean = <<>>]

\* Bug: the status is written where the phase belongs.
BugPausePhase(run, maximum, pauseStreak) ==
    IF run.streak >= pauseStreak
      THEN [run EXCEPT !.phase = "NEEDS_INPUT", !.status = "PAUSED"]
      ELSE run

\* The stop decision after a repair: the hard budget first, then the pause.
RepositoryAfterRepair(run, maximum, pauseStreak) ==
    IF run.rounds["audit"] >= maximum
      THEN [run EXCEPT !.status = "NON_CONVERGED"]
    ELSE IF run.streak >= pauseStreak
      THEN [run EXCEPT !.phase = "PAUSED", !.status = "PAUSED"]
    ELSE run
-----------------------------------------------------------------------------
(***************************************************************************)
(* The decisions of spec-init-freeze.  Its phases "spec-init" and           *)
(* "spec-freeze-loop" are called INIT and AUDIT here.                       *)
(***************************************************************************)

\* Bug: accepted findings of severity P3 leave the clean audits alone.
BugSimpleReviewed(run, audit, accepted) ==
    IF accepted # "none"
      THEN [run EXCEPT !.clean = IF accepted = "p3" THEN @ ELSE <<>>,
                       !.pending = audit,
                       !.streak = IF run.phase = "AUDIT" /\ accepted = "blocking"
                                    THEN @ + 1 ELSE @]
    ELSE IF run.phase # "AUDIT"
      THEN [run EXCEPT !.phase = "AUDIT"]
    ELSE [run EXCEPT !.streak = 0,
                     !.clean = CleanObservations(
                         @, [audit |-> audit, sha |-> run.artifact])]

\* An accepted finding must be repaired; only blocking ones of the freeze
\* loop count as a failure.  A clean init audit opens the freeze loop, a
\* clean freeze audit is an observation.
SimpleReviewed(run, audit, accepted) ==
    IF accepted # "none"
      THEN [run EXCEPT !.clean = <<>>,
                       !.pending = audit,
                       !.streak = IF run.phase = "AUDIT" /\ accepted = "blocking"
                                    THEN @ + 1 ELSE @]
    ELSE IF run.phase # "AUDIT"
      THEN [run EXCEPT !.phase = "AUDIT"]
    ELSE [run EXCEPT !.streak = 0,
                     !.clean = CleanObservations(
                         @, [audit |-> audit, sha |-> run.artifact])]

\* Bug: the soft pause is decided before the hard budget.
BugSimpleStop(run, maximum, pauseStreak) ==
    IF Freezes(run.clean)
      THEN [run EXCEPT !.phase = "FROZEN", !.status = "CONVERGED"]
    ELSE IF run.streak >= pauseStreak
      THEN [run EXCEPT !.status = "PAUSED"]
    ELSE IF run.audits >= maximum
      THEN [run EXCEPT !.status = "NON_CONVERGED"]
    ELSE run

\* The stop decision after a review: converged, then the hard budget, then
\* the pause after a streak of failures.
SimpleStop(run, maximum, pauseStreak) ==
    IF Freezes(run.clean)
      THEN [run EXCEPT !.phase = "FROZEN", !.status = "CONVERGED"]
    ELSE IF run.audits >= maximum
      THEN [run EXCEPT !.status = "NON_CONVERGED"]
    ELSE IF run.streak >= pauseStreak
      THEN [run EXCEPT !.status = "PAUSED"]
    ELSE run
=============================================================================
