-------------------------------- MODULE ItemLog --------------------------------
(***************************************************************************)
(* What a dataset promises to the one process that uses it: the items of   *)
(* the push_data calls that ended well form a log that only grows at its   *)
(* end, until a purge or a drop empties it.  Nothing else ever changes it, *)
(* neither a crash nor a call that fails.                                  *)
(***************************************************************************)
EXTENDS SequencesExt

VARIABLE
    log     \* the items, in the order they were pushed

Init == log = << >>

\* The items of a batch appear together, behind all others.
Push == IsStrictPrefix(log, log')

Clear == log' = << >>

Next == Push \/ Clear

Spec == Init /\ [][Next]_log

=============================================================================
