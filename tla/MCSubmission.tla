--------------------------- MODULE MCSubmission ---------------------------
EXTENDS Submission, TLC

\* One case whose first version has a file more than its second, another
\* content for the second version, and a package of another case.
MCPackages ==
    {[id |-> "i1", version |-> 1, extra |-> TRUE],
     [id |-> "i1", version |-> 2, extra |-> FALSE],
     [id |-> "i1", version |-> 2, extra |-> TRUE],
     [id |-> "i2", version |-> 1, extra |-> FALSE]}

Symmetry == Permutations(Requests) \cup Permutations(Names)
=============================================================================
