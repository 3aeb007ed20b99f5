------------------------ MODULE MCCostReconciliation ------------------------
\* Instances of CostReconciliation: two pinned snapshots with prices of their
\* own, and completions of one size.
EXTENDS CostReconciliation

CONSTANTS user, author, m1, m2

Prices == [m \in Model |-> IF m = m1 THEN [input |-> 1, output |-> 2]
                                     ELSE [input |-> 1, output |-> 3]]
\* Every kind that decides about recovery or opens a row; of the other kinds an
\* edited row shows one.
Events ==
    [kind : {"run-started"}, subject : {user}]
        \cup [kind : {"model-invoked"}, snapshot : Model]
        \cup [kind : {"tool-called"}, subject : {author}, status : {"succeeded", "failed", "denied"}]
        \cup [kind : {"run-finished"}, outcome : {"failed", "refused"}]

Completion == {[input |-> 1, output |-> 1]}
=============================================================================
