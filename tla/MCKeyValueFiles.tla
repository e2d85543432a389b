--------------------------- MODULE MCKeyValueFiles ---------------------------
(***************************************************************************)
(* Instances of KeyValueFiles for TLC: a store with a key "a" that may     *)
(* live in a.j or a.c, a key "b/" whose own file is b%2F and whose other   *)
(* file, b, matches a rule of the sweep, and b.j, which a sweep may find.  *)
(***************************************************************************)
EXTENDS KeyValueFiles

Alphabet == <<"%252F", "%2F", Suffix, ".c", ".j", ".tmp", "/", StoreFile[1], "a", "b">>
Ranks == [l \in Range(Alphabet) |-> CHOOSE i \in DOMAIN Alphabet : Alphabet[i] = l]
Escapes == [l \in Range(Alphabet) \ {"%252F"} |->
               CASE l = "/" -> "%2F" [] l = "%2F" -> "%252F" [] OTHER -> l]
DotLetters == {Suffix, ".c", ".j", ".tmp"}

A == <<"a">>
Slashed == <<"b", "/">>
AllKeys == {A, Slashed, <<"b">>, <<"b", ".j">>}
Bound == {[key |-> A, filename |-> None], [key |-> A, filename |-> <<"a", ".j">>],
          [key |-> Slashed, filename |-> None], [key |-> Slashed, filename |-> <<"b">>]}
Piped == {[key |-> A, filename |-> None], [key |-> Slashed, filename |-> StoreFile]}
KeepSome == {{}, {Slashed}}

Declared == [kind |-> "key", key |-> A,
             files |-> <<[filename |-> <<"a", ".j">>, type |-> "application/json"],
                         [filename |-> <<"a", ".c">>, type |-> "text/csv"]>>]
Swept == [kind |-> "sweep",
          rules |-> <<[pattern |-> <<"b", "*">>, type |-> "text/b"], [pattern |-> <<"*">>, type |-> Octets]>>]
\* The sweep is given first and still runs last.
SweepAndKey == <<Swept, Declared>>

OutsideNames == {<<"a", ".j">>, <<"a", ".c">>, <<"b", ".j">>}
ForeignKeys == {Slashed}
SpoiledKeys == {A}

=============================================================================
