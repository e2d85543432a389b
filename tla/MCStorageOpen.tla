---------------------------- MODULE MCStorageOpen ----------------------------
(***************************************************************************)
(* Instances of StorageOpen for TLC: a base directory two levels down and  *)
(* names that lead to its children or away from them.                      *)
(***************************************************************************)
EXTENDS StorageOpen

\* A storage directory that is itself relative.
DatasetsBase == <<"storage", "datasets">>

\* Two ways to "a", and names that lead nowhere.
SomeNames ==
    {<<"a">>, <<"..", "datasets", "a">>, <<"..", "..", "..", "storage", "datasets", "a">>,
     <<"a", "b">>, <<"a", "..">>, <<"/", "a">>, << >>}

DefaultAlias == {<<"default">>}

ClientSymmetry == Permutations(Clients)

=============================================================================
