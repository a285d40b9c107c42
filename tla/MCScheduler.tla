---------------------------- MODULE MCScheduler -----------------------------
(***************************************************************************)
(* Instances of Scheduler for TLC: one task with everything that can go    *)
(* wrong with its attempts, and three tasks that share limits.             *)
(***************************************************************************)
EXTENDS Scheduler, TLC

CONSTANTS t1, t2, t3

OrderOne == <<t1>>
BatchOne == (t1 :> 1)
DependsOne == (t1 :> {})
LimitsOne == {[of |-> {t1}, limit |-> 1]}

\* t2 waits for t1, in one batch with a slot for one of them.
OrderTwo == <<t1, t2>>
BatchTwo == (t1 :> 1) @@ (t2 :> 1)
DependsTwo == (t1 :> {}) @@ (t2 :> {[on |-> t1, when |-> "converged"]})
LimitsTwo == {[of |-> {t1, t2}, limit |-> 1]}

\* Two batches: t2 waits for t1 to converge, t3 is alone.  Two tasks may be
\* in flight; t1 and t3 share a resource group of one.
OrderThree == <<t1, t2, t3>>
BatchThree == (t1 :> 1) @@ (t2 :> 1) @@ (t3 :> 2)
DependsThree ==
    (t1 :> {}) @@ (t2 :> {[on |-> t1, when |-> "converged"]}) @@ (t3 :> {})
LimitsThree == {[of |-> {t1, t2, t3}, limit |-> 2],
                [of |-> {t1, t3}, limit |-> 1]}
=============================================================================
