--------------------------- MODULE MCKeyValueStore ---------------------------
(***************************************************************************)
(* Instances of KeyValueStore for TLC: a store with the keys "INPUT" and   *)
(* "data.json", where INPUT may also live in input.json.                   *)
(***************************************************************************)
EXTENDS KeyValueStore

TwoKeys == 1 .. 2
ThreeFiles == {"INPUT", "data.json", "input.json"}
OwnNames == <<"INPUT", "data.json">>

InputBound == {[key |-> 1, path |-> "INPUT"], [key |-> 1, path |-> "input.json"], [key |-> 2, path |-> "data.json"]}
KeepInput == {{}, {1}}
InputFiles == {[key |-> 1, files |-> {"INPUT", "input.json"}]}
SweptNames == [n \in {"data.json"} |-> 2]

\* A key with a space in it, and a file with that very name.
SpacedFiles == {"data file", "data%20file"}
SpacedOwn == <<"data%20file">>
SpacedBound == {[key |-> 1, path |-> "data%20file"]}
SpacedSwept == [n \in {"data file"} |-> 1]

TaskSymmetry == Permutations(Tasks)

=============================================================================
