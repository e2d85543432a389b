---------------------------- MODULE MCRequestQueue ----------------------------
(***************************************************************************)
(* Instances of RequestQueue for TLC: the calls of add_batch_of_requests   *)
(* and the durations that the .cfg files choose among.                     *)
(***************************************************************************)
EXTENDS RequestQueue, TLC

Plain(k) == [key |-> k, handledAt |-> FALSE]
Done(k) == [key |-> k, handledAt |-> TRUE]
Malformed == [key |-> None, handledAt |-> FALSE]

Regular(batch) == [batch |-> batch, forefront |-> FALSE]
Forefront(batch) == [batch |-> batch, forefront |-> TRUE]

\* One client: a batch with a duplicate, a batch that fails half way after a
\* request that arrives handled, and a move to the forefront.
SoleAdds ==
    {Regular(<<Plain(1), Plain(2), Plain(1)>>), Regular(<<Done(2), Malformed>>),
     Forefront(<<Plain(1)>>)}

\* Two clients, one request.
OneAdd == {Regular(<<Plain(1)>>)}

\* A request that is added and later moved to the forefront.
ForefrontAdds == {Regular(<<Plain(1)>>), Forefront(<<Plain(1)>>)}

ClientSymmetry == Permutations(Clients)

NoDurations == {}
LongerLock == {2}
OneExtension == {0, 1}

=============================================================================
