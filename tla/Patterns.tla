------------------------------- MODULE Patterns -------------------------------
(***************************************************************************)
(* matches_pattern (crawlee-storage/src/utils.rs): the wildcard patterns   *)
(* of an adoption sweep.  The code goes through the name once and, at a    *)
(* mismatch, back to the last star only, never to an earlier one.  That is *)
(* enough, which is what PatternsAgree compares with what a pattern means. *)
(***************************************************************************)
EXTENDS Integers, Sequences

\* Mutant of MatchesPattern: what a star swallows is not taken back to it.
MatchesGreedily(pattern, name) ==
    LET Past == Len(pattern) + 1
        Scan[p \in 1 .. Past, n \in 1 .. Len(name) + 1, star \in 0 .. Len(pattern)] ==
            IF n > Len(name) THEN \A i \in p .. Len(pattern) : pattern[i] = "*"
            ELSE IF p < Past /\ pattern[p] = "*" THEN Scan[p + 1, n, p]
            ELSE IF p < Past /\ pattern[p] \in {"?", name[n]} THEN Scan[p + 1, n + 1, star]
            ELSE star # 0 /\ Scan[star + 1, n + 1, star]
    IN  Scan[1, 1, 0]

\* The loop: where it is in the pattern and in the name, the last star (0 before the
\* first one) and the position in the name that the star was last resumed at.
MatchesPattern(pattern, name) ==
    LET Past == Len(pattern) + 1
        Places == {at \in [p : 1 .. Past, n : 1 .. Len(name) + 1, star : 0 .. Len(pattern), from : 1 .. Len(name) + 1] :
                      at.star < at.p /\ at.from <= at.n}
        Scan[at \in Places] ==
            IF at.n > Len(name) THEN \A i \in at.p .. Len(pattern) : pattern[i] = "*"
            ELSE IF at.p < Past /\ pattern[at.p] = "*"
            THEN Scan[[p |-> at.p + 1, n |-> at.n, star |-> at.p, from |-> at.n]]
            ELSE IF at.p < Past /\ pattern[at.p] \in {"?", name[at.n]}
            THEN Scan[[p |-> at.p + 1, n |-> at.n + 1, star |-> at.star, from |-> at.from]]
            ELSE /\ at.star # 0
                 /\ Scan[[p |-> at.star + 1, n |-> at.from + 1, star |-> at.star, from |-> at.from + 1]]
    IN  Scan[[p |-> 1, n |-> 1, star |-> 0, from |-> 1]]

\* What a pattern means: a star stands for any run of letters, "?" for one.  Rest has
\* the places from which on the name is one of those that the pattern from p on means.
Stands(pattern, name) ==
    LET Rest[p \in 1 .. Len(pattern) + 1] ==
            IF p > Len(pattern) THEN {Len(name) + 1}
            ELSE IF pattern[p] = "*" THEN {n \in 1 .. Len(name) + 1 : \E m \in Rest[p + 1] : n <= m}
            ELSE {n \in 1 .. Len(name) : pattern[p] \in {"?", name[n]} /\ n + 1 \in Rest[p + 1]}
    IN  1 \in Rest[1]

\* validate_pattern: a pattern names a file in the store itself.
ValidPattern(pattern) == pattern # << >> /\ \A i \in DOMAIN pattern : pattern[i] # "/"

=============================================================================
