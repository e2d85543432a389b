----------------------------- MODULE KeyValueMap -----------------------------
(***************************************************************************)
(* What a key-value store promises to callers that never give two keys the *)
(* same file: a map from keys to values.  A call changes the value of its  *)
(* own key only, a purge spares the keys it is told to keep, and opening   *)
(* the store may add keys but never touches one that is there.             *)
(***************************************************************************)
CONSTANTS
    Keys,
    Values,
    None,       \* no value
    Keeps       \* the sets of keys that a purge is told to keep

VARIABLE map

Init == map = [k \in Keys |-> None]

Unchanged(keys) == \A k \in keys : map'[k] = map[k]
Gone(keys) == \A k \in keys : map'[k] = None

Set(k) == map'[k] \in Values /\ Unchanged(Keys \ {k})

\* By a call that deletes, or by a write that fails half way.
Remove(k) == Gone({k}) /\ Unchanged(Keys \ {k})

Purge(keep) == Unchanged(keep \cap Keys) /\ Gone(Keys \ keep)

Drop == Gone(Keys)

Adopt == \A k \in Keys : IF map[k] = None THEN map'[k] \in Values \cup {None} ELSE map'[k] = map[k]

Next ==
    \/ \E k \in Keys : Set(k) \/ Remove(k)
    \/ \E keep \in Keeps : Purge(keep)
    \/ Drop
    \/ Adopt

Spec == Init /\ [][Next]_map

=============================================================================
