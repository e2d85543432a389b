------------------------------ MODULE MCDataset ------------------------------
(***************************************************************************)
(* Instances of Dataset for TLC: the batches that callers push and the     *)
(* iterations they make.                                                   *)
(***************************************************************************)
EXTENDS Dataset

\* An ordinary item, or an empty one and an ordinary one.
WithEmpty == {<<FALSE>>, <<TRUE, FALSE>>}

\* A limit within the first page, one within the second page of a descending
\* iteration, and everything item by item without the empty ones.
PagedReadings == {
    [limit |-> 1, size |-> 2, desc |-> FALSE, skip |-> FALSE],
    [limit |-> 3, size |-> 2, desc |-> TRUE, skip |-> FALSE],
    [limit |-> NoLimit, size |-> 1, desc |-> FALSE, skip |-> TRUE]}

=============================================================================
