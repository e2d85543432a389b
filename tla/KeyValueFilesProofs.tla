------------------------- MODULE KeyValueFilesProofs -------------------------
(***************************************************************************)
(* What is proved of KeyValueFiles, for every choice of its constants:     *)
(* every file is what its name says, values are whole, sizes agree with    *)
(* files, the ways to find a record agree, the store implements the map of *)
(* KeyValueMap, patterns match what they mean, opening a store does what   *)
(* its documentation says, and the pages of a listing make up all of it.   *)
(*                                                                         *)
(* Of a directory only what is under a name matters here, At, and of the   *)
(* names only the lasting ones: the proofs first bring every step down to  *)
(* one of a few effects on those, and then look at the effects only.       *)
(* Opening goes through a listing in the order of the names, one file at a *)
(* time.  What any single adoption keeps, all of it keeps; so an opening   *)
(* is argued about as a set of adoptions that single turns do not leave.   *)
(***************************************************************************)
EXTENDS KeyValueFiles, FiniteSetTheorems, SequenceTheorems, TLAPS

-------------------------------------------------------------------------------
(* Orders: the elements of a finite set, one after the other *)

\* R orders T, and no element is before itself.
Orders(R, T) ==
    /\ \A a \in T : <<a, a>> \notin R
    /\ \A a, b \in T : a # b => <<a, b>> \in R \/ <<b, a>> \in R
    /\ \A a, b, c \in T : <<a, b>> \in R /\ <<b, c>> \in R => <<a, c>> \in R

Below(R, T, a) == {b \in T : <<b, a>> \in R}

LEMMA BelowGrows ==
    ASSUME NEW T, IsFiniteSet(T), NEW R, Orders(R, T), NEW a \in T, NEW b \in T, <<a, b>> \in R
    PROVE  Cardinality(Below(R, T, a)) < Cardinality(Below(R, T, b))
    <1>1. Below(R, T, a) \in SUBSET Below(R, T, b) /\ Below(R, T, b) \in SUBSET T
        BY DEF Below, Orders
    <1>2. a \in Below(R, T, b) /\ a \notin Below(R, T, a)
        BY DEF Below, Orders
    <1>3. IsFiniteSet(Below(R, T, b))
        BY <1>1, FS_Subset
    <1>4. Cardinality(Below(R, T, a)) <= Cardinality(Below(R, T, b)) /\ IsFiniteSet(Below(R, T, a))
        BY <1>1, <1>3, FS_Subset
    <1>5. Cardinality(Below(R, T, a)) # Cardinality(Below(R, T, b))
        BY <1>1, <1>2, <1>3, FS_Subset
    <1> QED BY <1>3, <1>4, <1>5, FS_CardinalityType

\* Every position has an element, since the elements have different ones and none is
\* beyond their number.
LEMMA EveryPosition ==
    ASSUME NEW T, IsFiniteSet(T), NEW R, Orders(R, T), NEW n \in 1 .. Cardinality(T)
    PROVE  \E a \in T : Cardinality(Below(R, T, a)) = n - 1
    <1> DEFINE N == Cardinality(T)
               f == [a \in T |-> Cardinality(Below(R, T, a)) + 1]
    <1>1. N \in Nat
        BY FS_CardinalityType
    <1>2. IsFiniteSet(1 .. N) /\ Cardinality(1 .. N) = N
        BY <1>1, FS_Interval
    <1>3. \A a \in T : Cardinality(Below(R, T, a)) \in 0 .. N - 1
        <2> SUFFICES ASSUME NEW a \in T PROVE Cardinality(Below(R, T, a)) \in 0 .. N - 1
            OBVIOUS
        <2>1. Below(R, T, a) \in SUBSET T /\ a \notin Below(R, T, a)
            BY DEF Below, Orders
        <2>2. /\ IsFiniteSet(Below(R, T, a))
              /\ Cardinality(Below(R, T, a)) <= Cardinality(T)
              /\ Cardinality(T) # Cardinality(Below(R, T, a))
            BY <2>1, FS_Subset
        <2> QED BY <1>1, <2>2, FS_CardinalityType
    <1>4. f \in [T -> 1 .. N]
        BY <1>1, <1>3
    <1>5. \A a, b \in T : f[a] = f[b] => a = b
        <2> SUFFICES ASSUME NEW a \in T, NEW b \in T, a # b
                     PROVE  Cardinality(Below(R, T, a)) + 1 # Cardinality(Below(R, T, b)) + 1
            OBVIOUS
        <2>1. <<a, b>> \in R \/ <<b, a>> \in R
            BY DEF Orders
        <2>2. \/ Cardinality(Below(R, T, a)) < Cardinality(Below(R, T, b))
              \/ Cardinality(Below(R, T, b)) < Cardinality(Below(R, T, a))
            BY <2>1, BelowGrows
        <2>3. Cardinality(Below(R, T, a)) \in Int /\ Cardinality(Below(R, T, b)) \in Int
            BY <1>1, <1>3
        <2> QED BY <2>2, <2>3
    <1> HIDE DEF f
    <1>6. f \in Injection(T, 1 .. N)
        BY <1>4, <1>5 DEF Injection, IsInjective
    <1>7. f \in Surjection(T, 1 .. N)
        <2> HIDE DEF N
        <2>1. Cardinality(T) = Cardinality(1 .. N)
            BY <1>2 DEF N
        <2> QED BY <1>2, <1>6, <2>1, FS_Injection
    <1>8. PICK a \in T : f[a] = n
        BY <1>7 DEF Surjection
    <1>9. Cardinality(Below(R, T, a)) + 1 = n /\ Cardinality(Below(R, T, a)) \in Int
        BY <1>1, <1>3, <1>8 DEF f
    <1> QED BY <1>9

-------------------------------------------------------------------------------
(* Loops: what every turn keeps, and that a function which is defined by *)
(* recursion over the turns satisfies its equation                       *)

LEMMA LeastNumber ==
    ASSUME NEW N \in Nat, NEW T \in SUBSET (0 .. N), T # {}
    PROVE  \E x \in T : \A y \in T : x <= y
    <1> DEFINE R == {p \in T \X T : p[1] < p[2]}
    <1>1. IsFiniteSet(0 .. N)
        BY FS_Interval
    <1>2. IsFiniteSet(T)
        BY <1>1, FS_Subset
    <1>3. Cardinality(T) \in Nat /\ Cardinality(T) # 0
        BY <1>2, FS_CardinalityType, FS_EmptySet
    <1>4. \A a, b \in T : <<a, b>> \in R <=> a < b
        OBVIOUS
    <1>5. Orders(R, T)
        <2> HIDE DEF R
        <2> QED BY <1>4 DEF Orders
    <1>6. 1 \in 1 .. Cardinality(T) /\ 1 - 1 = 0
        BY <1>3
    <1>7. PICK x \in T : Cardinality(Below(R, T, x)) = 1 - 1
        <2> HIDE DEF R
        <2> QED BY <1>2, <1>5, <1>6, EveryPosition
    <1>8. Below(R, T, x) \in SUBSET T
        BY DEF Below
    <1>9. Below(R, T, x) = {}
        <2> HIDE DEF R
        <2>1. IsFiniteSet(Below(R, T, x))
            BY <1>2, <1>8, FS_Subset
        <2> QED BY <1>6, <1>7, <2>1, FS_EmptySet
    <1>10. ASSUME NEW y \in T PROVE x <= y
        <2>1. y \notin Below(R, T, x)
            BY <1>9
        <2>2. ~(y < x)
            BY <1>4, <2>1 DEF Below
        <2> QED BY <2>2
    <1> QED BY <1>10

\* What holds before a loop and is kept by every turn of it holds after each turn.
LEMMA LoopKeeps ==
    ASSUME NEW N \in Nat, NEW f, NEW S, f[0] \in S,
           \A i \in 1 .. N : f[i - 1] \in S => f[i] \in S
    PROVE  \A i \in 0 .. N : f[i] \in S
    <1> SUFFICES ASSUME NEW k \in 0 .. N, f[k] \notin S PROVE FALSE
        OBVIOUS
    <1> DEFINE T == {i \in 0 .. N : f[i] \notin S}
    <1>1. T \in SUBSET (0 .. N) /\ T # {}
        OBVIOUS
    <1>2. PICK x \in T : \A y \in T : x <= y
        BY <1>1, LeastNumber
    <1>3. x # 0 /\ x \in 1 .. N /\ x - 1 \in 0 .. N /\ ~(x <= x - 1)
        BY <1>2
    <1>4. f[x - 1] \in S
        BY <1>2, <1>3
    <1> QED BY <1>2, <1>3, <1>4

\* The runs of a loop from a, each turn a step.
Runs(N, S, a, step) == {f \in [0 .. N -> S] : f[0] = a /\ \A i \in 1 .. N : f[i] = step[i][f[i - 1]]}

LEMMA LoopExists ==
    ASSUME NEW N \in Nat, NEW S, NEW a \in S, NEW step \in [1 .. N -> [S -> S]]
    PROVE  Runs(N, S, a, step) # {}
    <1> DEFINE Turns(n, f) == /\ f \in [0 .. n -> S]
                              /\ f[0] = a
                              /\ \A i \in 1 .. n : f[i] = step[i][f[i - 1]]
               T == {n \in 0 .. N : ~\E f : Turns(n, f)}
    <1>1. T = {}
        <2> SUFFICES ASSUME T # {} PROVE FALSE
            OBVIOUS
        <2>1. PICK x \in T : \A y \in T : x <= y
            <3>1. T \in SUBSET (0 .. N)
                OBVIOUS
            <3> HIDE DEF T
            <3> QED BY <3>1, LeastNumber
        <2>2. Turns(0, [i \in 0 .. 0 |-> a])
            OBVIOUS
        <2>3. x # 0 /\ x \in 1 .. N /\ x - 1 \in 0 .. N /\ ~(x <= x - 1)
            <3>1. x # 0
                <4> HIDE DEF Turns
                <4> QED BY <2>1, <2>2
            <3> QED BY <2>1, <3>1
        <2>4. PICK f : Turns(x - 1, f)
            <3> HIDE DEF Turns
            <3> QED BY <2>1, <2>3
        <2> DEFINE g == [i \in 0 .. x |-> IF i = x THEN step[x][f[x - 1]] ELSE f[i]]
        <2>5. f[x - 1] \in S
            BY <2>3, <2>4
        <2>6. step[x][f[x - 1]] \in S
            BY <2>3, <2>5
        <2>7. g \in [0 .. x -> S]
            BY <2>3, <2>4, <2>6
        <2>8. g[0] = a
            BY <2>3, <2>4
        <2>9. ASSUME NEW i \in 1 .. x PROVE g[i] = step[i][g[i - 1]]
            <3>1. i - 1 \in 0 .. x - 1 /\ i - 1 # x /\ i \in 0 .. x /\ i - 1 \in 0 .. x
                BY <2>3
            <3>2. g[i - 1] = f[i - 1]
                BY <3>1
            <3>3. CASE i = x
                BY <3>1, <3>2, <3>3
            <3>4. CASE i # x
                <4>1. i \in 1 .. x - 1 /\ g[i] = f[i]
                    BY <2>3, <3>1, <3>4
                <4> QED BY <2>4, <3>2, <4>1
            <3> QED BY <3>3, <3>4
        <2>10. Turns(x, g)
            <3> HIDE DEF g
            <3> QED BY <2>7, <2>8, <2>9
        <2> HIDE DEF Turns
        <2> QED BY <2>1, <2>10
    <1>2. PICK f : Turns(N, f)
        <2>1. N \in 0 .. N
            OBVIOUS
        <2> HIDE DEF Turns
        <2> QED BY <1>1, <2>1
    <1> QED BY <1>2 DEF Runs

-------------------------------------------------------------------------------
(* Names in order *)

Names == Seq(DOMAIN Rank)

\* The first place at which a name differs from the one that it is before.
LEMMA BeforeAt ==
    ASSUME NEW a \in Names, NEW b \in Names
    PROVE  Before(a, b) <=> \E i \in 1 .. Len(b) : /\ i <= Len(a) + 1
                                                   /\ \A q \in 1 .. i - 1 : a[q] = b[q]
                                                   /\ i <= Len(a) => Rank[a[i]] < Rank[b[i]]
    <1>1. Len(a) \in Nat /\ Len(b) \in Nat
        BY LenProperties DEF Names
    <1>2. ASSUME NEW i \in 1 .. Len(b), i <= Len(a) + 1
          PROVE  SubSeq(a, 1, i - 1) = SubSeq(b, 1, i - 1) <=> \A q \in 1 .. i - 1 : a[q] = b[q]
        <2>1. i - 1 \in 0 .. Len(a) /\ i - 1 \in 0 .. Len(b) /\ 1 \in Nat
            BY <1>1, <1>2
        <2>2. /\ SubSeq(a, 1, i - 1) = [q \in 1 .. i - 1 |-> a[q]]
              /\ SubSeq(b, 1, i - 1) = [q \in 1 .. i - 1 |-> b[q]]
            <3>1. \A s : SubSeq(s, 1, i - 1) = [q \in 1 .. (1 + (i - 1) - 1) |-> s[q + 1 - 1]]
                OBVIOUS
            <3>2. 1 + (i - 1) - 1 = i - 1 /\ \A q \in 1 .. i - 1 : q + 1 - 1 = q
                BY <2>1
            <3> QED BY <3>1, <3>2
        <2> QED BY <2>2
    <1> QED BY <1>2 DEF Before

LEMMA NotBeforeItself ==
    ASSUME NEW a \in Names
    PROVE  ~Before(a, a)
    <1> SUFFICES ASSUME NEW i \in 1 .. Len(a), i <= Len(a) => Rank[a[i]] < Rank[a[i]] PROVE FALSE
        BY BeforeAt
    <1>1. Len(a) \in Nat /\ a[i] \in DOMAIN Rank
        BY LenProperties, ElementOfSeq DEF Names
    <1>2. Rank[a[i]] \in Nat
        BY <1>1, LettersAssumption DEF LettersAssumption
    <1> QED BY <1>1, <1>2

LEMMA BeforeOrAfter ==
    ASSUME NEW a \in Names, NEW b \in Names, a # b
    PROVE  Before(a, b) \/ Before(b, a)
    <1>1. Len(a) \in Nat /\ Len(b) \in Nat
        BY LenProperties DEF Names
    <1> DEFINE N == Len(a) + Len(b) + 1
               Differ(i) == i > Len(a) \/ i > Len(b) \/ a[i] # b[i]
               T == {i \in 1 .. N : Differ(i)}
    <1>2. N \in T
        BY <1>1
    <1>3. PICK i \in T : \A j \in T : i <= j
        <2>1. N \in Nat /\ T \in SUBSET (0 .. N)
            BY <1>1
        <2> HIDE DEF N, T
        <2> QED BY <1>2, <2>1, LeastNumber
    <1>4. i \in 1 .. N /\ Differ(i)
        BY <1>3
    <1>5. \A q \in 1 .. i - 1 : q <= Len(a) /\ q <= Len(b) /\ a[q] = b[q]
        <2> SUFFICES ASSUME NEW q \in 1 .. i - 1 PROVE ~Differ(q)
            BY <1>1
        <2>1. q \in 1 .. N /\ ~(i <= q)
            BY <1>1, <1>4
        <2>2. q \notin T
            BY <1>3, <2>1
        <2> QED BY <2>1, <2>2
    <1>6. i <= Len(a) + 1 /\ i <= Len(b) + 1
        <2>1. i = 1 \/ i - 1 \in 1 .. i - 1
            BY <1>1, <1>4
        <2>2. CASE i - 1 \in 1 .. i - 1
            BY <1>1, <1>4, <1>5, <2>2
        <2> QED BY <1>1, <2>1, <2>2
    <1> HIDE DEF N, T
    <1>7. i \in Nat /\ i >= 1
        BY <1>1, <1>4 DEF N
    <1>8. CASE i <= Len(a) /\ i <= Len(b)
        <2>1. a[i] \in DOMAIN Rank /\ b[i] \in DOMAIN Rank /\ a[i] # b[i]
            BY <1>1, <1>4, <1>7, <1>8, ElementOfSeq DEF Names
        <2>2. Rank[a[i]] \in Nat /\ Rank[b[i]] \in Nat /\ Rank[a[i]] # Rank[b[i]]
            BY <2>1, LettersAssumption DEF LettersAssumption
        <2>3. CASE Rank[a[i]] < Rank[b[i]]
            <3>1. i \in 1 .. Len(b)
                BY <1>1, <1>7, <1>8
            <3> QED BY <1>5, <1>6, <2>3, <3>1, BeforeAt
        <2>4. CASE Rank[b[i]] < Rank[a[i]]
            <3>1. i \in 1 .. Len(a)
                BY <1>1, <1>7, <1>8
            <3>2. \A q \in 1 .. i - 1 : b[q] = a[q]
                BY <1>5
            <3> QED BY <1>6, <2>4, <3>1, <3>2, BeforeAt
        <2> QED BY <2>2, <2>3, <2>4
    <1>9. CASE i > Len(a) /\ i <= Len(b)
        <2>1. i \in 1 .. Len(b) /\ ~(i <= Len(a))
            BY <1>1, <1>7, <1>9
        <2> QED BY <1>5, <1>6, <2>1, BeforeAt
    <1>10. CASE i <= Len(a) /\ i > Len(b)
        <2>1. i \in 1 .. Len(a) /\ ~(i <= Len(b))
            BY <1>1, <1>7, <1>10
        <2>2. \A q \in 1 .. i - 1 : b[q] = a[q]
            BY <1>5
        <2> QED BY <1>6, <2>1, <2>2, BeforeAt
    <1>11. CASE i > Len(a) /\ i > Len(b)
        <2>1. Len(a) = i - 1 /\ Len(b) = i - 1
            BY <1>1, <1>6, <1>7, <1>11
        <2>2. a = b
            BY <1>5, <2>1, SeqEqual DEF Names
        <2> QED BY <2>2
    <1> QED BY <1>1, <1>7, <1>8, <1>9, <1>10, <1>11

LEMMA BeforeTwice ==
    ASSUME NEW a \in Names, NEW b \in Names, NEW c \in Names, Before(a, b), Before(b, c)
    PROVE  Before(a, c)
    <1>1. Len(a) \in Nat /\ Len(b) \in Nat /\ Len(c) \in Nat
        BY LenProperties DEF Names
    <1>2. PICK i \in 1 .. Len(b) : /\ i <= Len(a) + 1
                                   /\ \A q \in 1 .. i - 1 : a[q] = b[q]
                                   /\ i <= Len(a) => Rank[a[i]] < Rank[b[i]]
        BY BeforeAt
    <1>3. PICK j \in 1 .. Len(c) : /\ j <= Len(b) + 1
                                   /\ \A q \in 1 .. j - 1 : b[q] = c[q]
                                   /\ j <= Len(b) => Rank[b[j]] < Rank[c[j]]
        BY BeforeAt
    <1>4. i \in Nat /\ i >= 1 /\ i <= Len(b) /\ j \in Nat /\ j >= 1 /\ j <= Len(c)
        BY <1>1, <1>2, <1>3
    <1>5. CASE i < j
        <2>1. b[i] = c[i]
            BY <1>3, <1>4, <1>5
        <2>2. \A q \in 1 .. i - 1 : a[q] = c[q]
            <3> SUFFICES ASSUME NEW q \in 1 .. i - 1 PROVE a[q] = c[q]
                OBVIOUS
            <3>1. q \in 1 .. j - 1
                BY <1>4, <1>5
            <3> QED BY <1>2, <1>3, <3>1
        <2>3. i \in 1 .. Len(c)
            BY <1>1, <1>4, <1>5
        <2>4. i <= Len(a) => Rank[a[i]] < Rank[c[i]]
            BY <1>2, <2>1
        <2> QED BY <1>2, <2>2, <2>3, <2>4, BeforeAt
    <1>6. CASE j <= i
        <2>1. j <= Len(b)
            BY <1>1, <1>4, <1>6
        <2>2. \A q \in 1 .. j - 1 : a[q] = c[q]
            <3> SUFFICES ASSUME NEW q \in 1 .. j - 1 PROVE a[q] = c[q]
                OBVIOUS
            <3>1. q \in 1 .. i - 1
                BY <1>4, <1>6
            <3> QED BY <1>2, <1>3, <3>1
        <2>3. j <= Len(a) + 1
            BY <1>1, <1>2, <1>4, <1>6
        <2>4. j <= Len(a) => Rank[a[j]] < Rank[c[j]]
            <3> SUFFICES ASSUME j <= Len(a) PROVE Rank[a[j]] < Rank[c[j]]
                OBVIOUS
            <3>1. a[j] \in DOMAIN Rank /\ b[j] \in DOMAIN Rank /\ c[j] \in DOMAIN Rank
                BY <1>1, <1>4, <2>1, ElementOfSeq DEF Names
            <3>2. Rank[a[j]] \in Nat /\ Rank[b[j]] \in Nat /\ Rank[c[j]] \in Nat
                BY <3>1, LettersAssumption DEF LettersAssumption
            <3>3. Rank[b[j]] < Rank[c[j]]
                BY <1>3, <2>1
            <3>4. CASE j = i
                BY <1>2, <3>2, <3>3, <3>4
            <3>5. CASE j # i
                <4>1. a[j] = b[j]
                    BY <1>2, <1>4, <1>6, <3>5
                <4> QED BY <3>3, <4>1
            <3> QED BY <3>4, <3>5
        <2> QED BY <1>3, <2>2, <2>3, <2>4, BeforeAt
    <1> QED BY <1>4, <1>5, <1>6

Earlier(T, n) == {m \in T : Before(m, n)}

\* Sorted goes through the names of a set, and through each of them.
LEMMA SortedNames ==
    ASSUME NEW T \in SUBSET Names, IsFiniteSet(T)
    PROVE  /\ \A i \in 1 .. Cardinality(T) :
                 Sorted(T)[i] \in T /\ Cardinality(Earlier(T, Sorted(T)[i])) = i - 1
           /\ \A n \in T : \E i \in 1 .. Cardinality(T) : Sorted(T)[i] = n
           /\ \A m, n \in T : Cardinality(Earlier(T, m)) = Cardinality(Earlier(T, n)) => m = n
    <1> DEFINE R == {p \in T \X T : Before(p[1], p[2])}
    <1>1. \A a, b \in T : <<a, b>> \in R <=> Before(a, b)
        OBVIOUS
    <1>2. Orders(R, T)
        <2> HIDE DEF R
        <2>1. \A a \in T : <<a, a>> \notin R
            BY <1>1, NotBeforeItself
        <2>2. \A a, b \in T : a # b => <<a, b>> \in R \/ <<b, a>> \in R
            BY <1>1, BeforeOrAfter
        <2>3. \A a, b, c \in T : <<a, b>> \in R /\ <<b, c>> \in R => <<a, c>> \in R
            BY <1>1, BeforeTwice
        <2> QED BY <2>1, <2>2, <2>3 DEF Orders
    <1>3. \A n \in T : Earlier(T, n) = Below(R, T, n)
        <2> HIDE DEF R
        <2> QED BY <1>1 DEF Below, Earlier
    <1> HIDE DEF R
    <1>4. \A i \in 1 .. Cardinality(T) : \E n \in T : Cardinality(Earlier(T, n)) = i - 1
        BY <1>2, <1>3, EveryPosition
    <1>5. \A i \in 1 .. Cardinality(T) :
             Sorted(T)[i] \in T /\ Cardinality(Earlier(T, Sorted(T)[i])) = i - 1
        <2>1. Sorted(T) = [i \in 1 .. Cardinality(T) |-> CHOOSE n \in T : Cardinality(Earlier(T, n)) = i - 1]
            BY DEF Sorted, Earlier
        <2> QED BY <1>4, <2>1
    <1>6. \A n \in T : /\ IsFiniteSet(Below(R, T, n)) /\ Cardinality(Below(R, T, n)) \in Nat
                      /\ Cardinality(Below(R, T, n)) < Cardinality(T)
        <2> SUFFICES ASSUME NEW n \in T
                     PROVE  /\ IsFiniteSet(Below(R, T, n)) /\ Cardinality(Below(R, T, n)) \in Nat
                            /\ Cardinality(Below(R, T, n)) < Cardinality(T)
            OBVIOUS
        <2>1. Below(R, T, n) \in SUBSET T /\ n \notin Below(R, T, n)
            BY <1>2 DEF Below, Orders
        <2>2. /\ IsFiniteSet(Below(R, T, n))
              /\ Cardinality(Below(R, T, n)) <= Cardinality(T)
              /\ Cardinality(Below(R, T, n)) # Cardinality(T)
            BY <2>1, FS_Subset
        <2> QED BY <2>2, FS_CardinalityType
    <1>7. ASSUME NEW m \in T, NEW n \in T, Cardinality(Earlier(T, m)) = Cardinality(Earlier(T, n))
          PROVE  m = n
        <2> SUFFICES ASSUME m # n PROVE FALSE
            OBVIOUS
        <2>1. <<m, n>> \in R \/ <<n, m>> \in R
            BY <1>2 DEF Orders
        <2>2. \/ Cardinality(Below(R, T, m)) < Cardinality(Below(R, T, n))
              \/ Cardinality(Below(R, T, n)) < Cardinality(Below(R, T, m))
            BY <1>2, <2>1, BelowGrows
        <2> QED BY <1>3, <1>6, <1>7, <2>2
    <1>8. ASSUME NEW n \in T PROVE \E i \in 1 .. Cardinality(T) : Sorted(T)[i] = n
        <2> DEFINE c == Cardinality(Earlier(T, n))
        <2>1. c \in Nat /\ c < Cardinality(T) /\ Cardinality(T) \in Nat
            BY <1>3, <1>6, FS_CardinalityType
        <2> HIDE DEF c
        <2>2. c + 1 \in 1 .. Cardinality(T) /\ (c + 1) - 1 = c
            BY <2>1
        <2>3. Sorted(T)[c + 1] \in T /\ Cardinality(Earlier(T, Sorted(T)[c + 1])) = c
            BY <1>5, <2>2
        <2>4. Sorted(T)[c + 1] = n
            BY <1>7, <2>3 DEF c
        <2> QED BY <2>2, <2>4
    <1> QED BY <1>5, <1>7, <1>8

-------------------------------------------------------------------------------
(* The loops of an opening: what each adoption keeps, all of them keep *)

\* The turns of the three loops.
SweepTurns(f, adoption, listing, rules) ==
    /\ f[0] = adoption
    /\ \A i \in 1 .. Cardinality(listing) : f[i] = SweepFile(f[i - 1], listing, rules, Sorted(listing)[i])

KeyTurns(f, adoption, candidates, N) ==
    /\ f[0] = adoption
    /\ \A i \in 1 .. N :
          f[i] = IF candidates[i].kind = "key" THEN AdoptForKey(f[i - 1], candidates[i]) ELSE f[i - 1]

SweepsTurns(f, adoption, listing, candidates, N) ==
    /\ f[0] = adoption
    /\ \A i \in 1 .. N :
          f[i] = IF candidates[i].kind = "sweep" THEN Sweep(f[i - 1], listing, candidates[i].rules) ELSE f[i - 1]

LEMMA SweptFilesRun ==
    ASSUME NEW S, NEW adoption \in S, NEW listing \in SUBSET Names, IsFiniteSet(listing), NEW rules,
           \A a \in S, name \in listing : SweepFile(a, listing, rules, name) \in S
    PROVE  \E f : /\ SweepTurns(f, adoption, listing, rules)
                  /\ \A i \in 0 .. Cardinality(listing) : f[i] \in S
                  /\ SweptFiles(adoption, listing, rules, Cardinality(listing)) = f[Cardinality(listing)]
    <1> DEFINE names == Sorted(listing)
               N == Cardinality(listing)
               Turn(f) == [i \in 0 .. N |->
                              IF i = 0 THEN adoption ELSE SweepFile(f[i - 1], listing, rules, names[i])]
               step == [i \in 1 .. N |-> [a \in S |-> SweepFile(a, listing, rules, names[i])]]
    <1>1. N \in Nat
        BY FS_CardinalityType
    <1>2. \A i \in 1 .. N : names[i] \in listing
        BY SortedNames
    <1>3. step \in [1 .. N -> [S -> S]]
        <2> HIDE DEF names, N
        <2> QED BY <1>2
    <1>4. PICK f \in [0 .. N -> S] : f[0] = adoption /\ \A i \in 1 .. N : f[i] = step[i][f[i - 1]]
        <2>1. adoption \in S
            OBVIOUS
        <2> HIDE DEF N, step, names
        <2>2. Runs(N, S, adoption, step) # {}
            BY <1>1, <1>3, <2>1, LoopExists
        <2> QED BY <2>2 DEF Runs
    <1>5. f = Turn(f)
        <2>1. ASSUME NEW i \in 0 .. N, i # 0
              PROVE  f[i] = SweepFile(f[i - 1], listing, rules, names[i])
            <3> HIDE DEF N, names
            <3>1. i \in 1 .. N /\ i - 1 \in 0 .. N
                BY <1>1, <2>1
            <3>2. f[i - 1] \in S /\ f[i] = step[i][f[i - 1]]
                BY <1>4, <3>1
            <3> QED BY <3>1, <3>2
        <2> HIDE DEF N, names, step
        <2> QED BY <1>4, <2>1
    <1> DEFINE Swept == CHOOSE g : g = Turn(g)
    <1>6. Swept = Turn(Swept)
        <2> HIDE DEF Turn
        <2> QED BY <1>5
    <1>7. SweptFiles(adoption, listing, rules, N) = Swept[N]
        BY DEF SweptFiles
    <1> HIDE DEF Swept
    <1>8. Swept[0] \in S
        <2> HIDE DEF names, N
        <2> QED BY <1>1, <1>6
    <1>9. ASSUME NEW i \in 1 .. N, Swept[i - 1] \in S PROVE Swept[i] \in S
        <2> HIDE DEF names, N
        <2>1. i \in 0 .. N /\ i # 0
            BY <1>1
        <2>2. Swept[i] = SweepFile(Swept[i - 1], listing, rules, names[i])
            BY <1>6, <2>1
        <2> QED BY <1>2, <1>9, <2>2
    <1>10. \A i \in 0 .. N : Swept[i] \in S
        <2> HIDE DEF N
        <2> QED BY <1>1, <1>8, <1>9, LoopKeeps
    <1>11. SweepTurns(Swept, adoption, listing, rules)
        <2>1. Swept[0] = adoption
            <3> HIDE DEF N, names
            <3> QED BY <1>1, <1>6
        <2>2. ASSUME NEW i \in 1 .. N PROVE Swept[i] = SweepFile(Swept[i - 1], listing, rules, names[i])
            <3> HIDE DEF N, names
            <3>1. i \in 0 .. N /\ i # 0
                BY <1>1
            <3> QED BY <1>6, <3>1
        <2> QED BY <2>1, <2>2 DEF SweepTurns
    <1> QED BY <1>7, <1>10, <1>11

LEMMA SweptFilesKeep ==
    ASSUME NEW S, NEW adoption \in S, NEW listing \in SUBSET Names, IsFiniteSet(listing), NEW rules,
           \A a \in S, name \in listing : SweepFile(a, listing, rules, name) \in S
    PROVE  SweptFiles(adoption, listing, rules, Cardinality(listing)) \in S
    <1>1. Cardinality(listing) \in 0 .. Cardinality(listing)
        BY FS_CardinalityType
    <1> QED BY <1>1, SweptFilesRun

LEMMA SweepKeeps ==
    ASSUME NEW S, NEW adoption \in S, NEW listing \in SUBSET Names, IsFiniteSet(listing), NEW rules,
           Failed(adoption) \in S,
           \A a \in S, name \in listing : SweepFile(a, listing, rules, name) \in S
    PROVE  Sweep(adoption, listing, rules) \in S
    BY SweptFilesKeep DEF Sweep

LEMMA KeysAdoptedRun ==
    ASSUME NEW S, NEW adoption \in S, NEW candidates, NEW N \in Nat,
           \A a \in S, i \in 1 .. N : candidates[i].kind = "key" => AdoptForKey(a, candidates[i]) \in S
    PROVE  \E f : /\ KeyTurns(f, adoption, candidates, N)
                  /\ \A i \in 0 .. N : f[i] \in S
                  /\ KeysAdopted(adoption, candidates, N) = f[N]
    <1> DEFINE After(a, i) == IF candidates[i].kind = "key" THEN AdoptForKey(a, candidates[i]) ELSE a
               Turn(f) == [i \in 0 .. N |->
                              IF i = 0 THEN adoption
                              ELSE IF candidates[i].kind = "key" THEN AdoptForKey(f[i - 1], candidates[i])
                              ELSE f[i - 1]]
               step == [i \in 1 .. N |-> [a \in S |-> After(a, i)]]
    <1>1. \A a \in S, i \in 1 .. N : After(a, i) \in S
        OBVIOUS
    <1>2. step \in [1 .. N -> [S -> S]]
        <2> HIDE DEF After
        <2> QED BY <1>1
    <1>3. PICK f \in [0 .. N -> S] : f[0] = adoption /\ \A i \in 1 .. N : f[i] = step[i][f[i - 1]]
        <2>1. adoption \in S
            OBVIOUS
        <2> HIDE DEF step, After
        <2>2. Runs(N, S, adoption, step) # {}
            BY <1>2, <2>1, LoopExists
        <2> QED BY <2>2 DEF Runs
    <1>4. f = Turn(f)
        <2>1. ASSUME NEW i \in 0 .. N, i # 0
              PROVE  f[i] = After(f[i - 1], i)
            <3> HIDE DEF After
            <3>1. i \in 1 .. N /\ i - 1 \in 0 .. N
                BY <2>1
            <3>2. f[i - 1] \in S /\ f[i] = step[i][f[i - 1]]
                BY <1>3, <3>1
            <3> QED BY <3>1, <3>2
        <2> HIDE DEF step
        <2> QED BY <1>3, <2>1
    <1> DEFINE Keyed == CHOOSE g : g = Turn(g)
    <1>5. Keyed = Turn(Keyed)
        <2> HIDE DEF Turn
        <2> QED BY <1>4
    <1>6. KeysAdopted(adoption, candidates, N) = Keyed[N]
        BY DEF KeysAdopted
    <1> HIDE DEF Keyed
    <1>7. Keyed[0] \in S
        BY <1>5
    <1>8. ASSUME NEW i \in 1 .. N, Keyed[i - 1] \in S PROVE Keyed[i] \in S
        <2>1. i \in 0 .. N /\ i # 0
            OBVIOUS
        <2>2. Keyed[i] = After(Keyed[i - 1], i)
            BY <1>5, <2>1
        <2> HIDE DEF After
        <2> QED BY <1>1, <1>8, <2>2
    <1>9. \A i \in 0 .. N : Keyed[i] \in S
        BY <1>7, <1>8, LoopKeeps
    <1>10. KeyTurns(Keyed, adoption, candidates, N)
        <2>1. Keyed[0] = adoption
            BY <1>5
        <2>2. ASSUME NEW i \in 1 .. N PROVE Keyed[i] = After(Keyed[i - 1], i)
            <3>1. i \in 0 .. N /\ i # 0
                OBVIOUS
            <3> QED BY <1>5, <3>1
        <2> QED BY <2>1, <2>2 DEF KeyTurns
    <1> QED BY <1>6, <1>9, <1>10

LEMMA KeysAdoptedKeep ==
    ASSUME NEW S, NEW adoption \in S, NEW candidates, NEW N \in Nat,
           \A a \in S, i \in 1 .. N : candidates[i].kind = "key" => AdoptForKey(a, candidates[i]) \in S
    PROVE  KeysAdopted(adoption, candidates, N) \in S
    <1>1. N \in 0 .. N
        OBVIOUS
    <1> QED BY <1>1, KeysAdoptedRun

LEMMA SweepsDoneRun ==
    ASSUME NEW S, NEW adoption \in S, NEW listing \in SUBSET Names, IsFiniteSet(listing),
           NEW candidates, NEW N \in Nat,
           \A a \in S : Failed(a) \in S,
           \A a \in S, i \in 1 .. N : candidates[i].kind = "sweep" =>
               \A name \in listing : SweepFile(a, listing, candidates[i].rules, name) \in S
    PROVE  \E f : /\ SweepsTurns(f, adoption, listing, candidates, N)
                  /\ \A i \in 0 .. N : f[i] \in S
                  /\ SweepsDone(adoption, listing, candidates, N) = f[N]
    <1> DEFINE After(a, i) == IF candidates[i].kind = "sweep" THEN Sweep(a, listing, candidates[i].rules) ELSE a
               Turn(f) == [i \in 0 .. N |->
                              IF i = 0 THEN adoption
                              ELSE IF candidates[i].kind = "sweep" THEN Sweep(f[i - 1], listing, candidates[i].rules)
                              ELSE f[i - 1]]
               step == [i \in 1 .. N |-> [a \in S |-> After(a, i)]]
    <1>1. ASSUME NEW a \in S, NEW i \in 1 .. N PROVE After(a, i) \in S
        <2>1. CASE candidates[i].kind = "sweep"
            <3> DEFINE rules == candidates[i].rules
            <3>1. \A b \in S, name \in listing : SweepFile(b, listing, rules, name) \in S
                BY <2>1
            <3> HIDE DEF rules
            <3>2. Sweep(a, listing, rules) \in S
                BY <3>1, SweepKeeps
            <3> QED BY <2>1, <3>2 DEF rules
        <2> QED BY <2>1
    <1>2. step \in [1 .. N -> [S -> S]]
        <2> HIDE DEF After
        <2> QED BY <1>1
    <1>3. PICK f \in [0 .. N -> S] : f[0] = adoption /\ \A i \in 1 .. N : f[i] = step[i][f[i - 1]]
        <2>1. adoption \in S /\ N \in Nat
            OBVIOUS
        <2> HIDE DEF step, After
        <2>2. Runs(N, S, adoption, step) # {}
            BY ONLY <1>2, <2>1, LoopExists
        <2> QED BY <2>2 DEF Runs
    <1>4. f = Turn(f)
        <2>1. ASSUME NEW i \in 0 .. N, i # 0
              PROVE  f[i] = After(f[i - 1], i)
            <3> HIDE DEF After
            <3>1. i \in 1 .. N /\ i - 1 \in 0 .. N
                BY <2>1
            <3>2. f[i - 1] \in S /\ f[i] = step[i][f[i - 1]]
                BY <1>3, <3>1
            <3> QED BY <3>1, <3>2
        <2> HIDE DEF step
        <2> QED BY <1>3, <2>1
    <1> DEFINE Done == CHOOSE g : g = Turn(g)
    <1>5. Done = Turn(Done)
        <2> HIDE DEF Turn
        <2> QED BY <1>4
    <1>6. SweepsDone(adoption, listing, candidates, N) = Done[N]
        BY DEF SweepsDone
    <1> HIDE DEF Done
    <1>7. Done[0] \in S
        BY <1>5
    <1>8. ASSUME NEW i \in 1 .. N, Done[i - 1] \in S PROVE Done[i] \in S
        <2>1. i \in 0 .. N /\ i # 0
            OBVIOUS
        <2>2. Done[i] = After(Done[i - 1], i)
            BY <1>5, <2>1
        <2> HIDE DEF After
        <2> QED BY <1>1, <1>8, <2>2
    <1>9. \A i \in 0 .. N : Done[i] \in S
        BY <1>7, <1>8, LoopKeeps
    <1>10. SweepsTurns(Done, adoption, listing, candidates, N)
        <2>1. Done[0] = adoption
            BY <1>5
        <2>2. ASSUME NEW i \in 1 .. N PROVE Done[i] = After(Done[i - 1], i)
            <3>1. i \in 0 .. N /\ i # 0
                OBVIOUS
            <3> QED BY <1>5, <3>1
        <2> QED BY <2>1, <2>2 DEF SweepsTurns
    <1> QED BY <1>6, <1>9, <1>10

LEMMA SweepsDoneKeep ==
    ASSUME NEW S, NEW adoption \in S, NEW listing \in SUBSET Names, IsFiniteSet(listing),
           NEW candidates, NEW N \in Nat,
           \A a \in S : Failed(a) \in S,
           \A a \in S, i \in 1 .. N : candidates[i].kind = "sweep" =>
               \A name \in listing : SweepFile(a, listing, candidates[i].rules, name) \in S
    PROVE  SweepsDone(adoption, listing, candidates, N) \in S
    <1>1. N \in 0 .. N
        OBVIOUS
    <1> QED BY <1>1, SweepsDoneRun

LEMMA AdoptFilesKeep ==
    ASSUME NEW S, NEW d, DOMAIN d \in SUBSET Names, IsFiniteSet(DOMAIN d),
           [dir |-> d, owned |-> OwnedFilenames(d, Adoption), ok |-> TRUE] \in S,
           \A a \in S : Failed(a) \in S,
           \A a \in S, i \in DOMAIN Adoption : Adoption[i].kind = "key" => AdoptForKey(a, Adoption[i]) \in S,
           \A a \in S, i \in DOMAIN Adoption : Adoption[i].kind = "sweep" =>
               \A name \in DOMAIN d : SweepFile(a, DOMAIN d, Adoption[i].rules, name) \in S
    PROVE  AdoptFiles(d, Adoption) \in S
    <1> DEFINE begun == [dir |-> d, owned |-> OwnedFilenames(d, Adoption), ok |-> TRUE]
               N == Len(Adoption)
               keyed == KeysAdopted(begun, Adoption, N)
               listing == DOMAIN d
    <1>1. N \in Nat /\ DOMAIN Adoption = 1 .. N
        BY AdoptionAssumption, LenProperties DEF AdoptionAssumption
    <1>2. begun \in S
        OBVIOUS
    <1>3. keyed \in S
        <2> HIDE DEF begun, N
        <2> QED BY <1>1, <1>2, KeysAdoptedKeep
    <1>4. SweepsDone(keyed, listing, Adoption, N) \in S
        <2>1. listing \in SUBSET Names /\ IsFiniteSet(listing)
            OBVIOUS
        <2>2. \A a \in S, i \in 1 .. N : Adoption[i].kind = "sweep" =>
               \A name \in listing : SweepFile(a, listing, Adoption[i].rules, name) \in S
            <3> HIDE DEF N
            <3> QED BY <1>1
        <2> HIDE DEF keyed, N, listing
        <2> QED BY <1>1, <1>3, <2>1, <2>2, SweepsDoneKeep
    <1> QED BY <1>4 DEF AdoptFiles

-------------------------------------------------------------------------------
(* What the operators of a directory make of its files *)

LEMMA RestrictFacts ==
    ASSUME NEW d, NEW D
    PROVE  /\ DOMAIN Restrict(d, D) = D
           /\ \A m \in D : Restrict(d, D)[m] = d[m]
    BY DEF Restrict

\* What is in the file of a directory with n values.
ValuesUpTo(n) == [kind : {"value"}, of : 1 .. n, size : Nat]
Contents(n) == ValuesUpTo(n) \cup Sidecars \cup {StoreMetadata, Garbage}

Placed(name, content) ==
    /\ content = StoreMetadata <=> name = StoreFile
    /\ content.kind = "sidecar" =>
           /\ name = SidecarName(EncodeKey(content.key))
           /\ ValidPath(content.filename)
           /\ content.filename # None => ~IsTemporary(content.filename)
    /\ content.kind = "value" => ValidFilename(name) /\ name \in Seq(DOMAIN Escape)
    /\ content.kind = "garbage" => IsSidecarName(name)

Directories(n) ==
    {d \in UNION {[D -> Contents(n)] : D \in SUBSET Names} :
        IsFiniteSet(DOMAIN d) /\ \A name \in DOMAIN d : Placed(name, d[name])}

LEMMA DirectoryFacts ==
    ASSUME NEW n, NEW d
    PROVE  d \in Directories(n) <=>
               /\ d = [name \in DOMAIN d |-> d[name]]
               /\ DOMAIN d \subseteq Names /\ IsFiniteSet(DOMAIN d)
               /\ \A name \in DOMAIN d : d[name] \in Contents(n) /\ Placed(name, d[name])
    <1>1. ASSUME NEW D \in SUBSET Names, d \in [D -> Contents(n)]
          PROVE  /\ d = [name \in DOMAIN d |-> d[name]]
                 /\ DOMAIN d \subseteq Names
                 /\ \A name \in DOMAIN d : d[name] \in Contents(n)
        BY <1>1
    <1>2. ASSUME d = [name \in DOMAIN d |-> d[name]], DOMAIN d \subseteq Names,
                 \A name \in DOMAIN d : d[name] \in Contents(n)
          PROVE  d \in [DOMAIN d -> Contents(n)] /\ DOMAIN d \in SUBSET Names
        BY <1>2
    <1> QED BY <1>1, <1>2 DEF Directories

LEMMA WriteKeeps ==
    ASSUME NEW n, NEW d \in Directories(n), NEW name \in Names, NEW c \in Contents(n), Placed(name, c)
    PROVE  Write(d, name, c) \in Directories(n)
    <1> DEFINE e == Write(d, name, c)
    <1>1. DOMAIN e = DOMAIN d \cup {name} /\ e[name] = c /\ \A m \in DOMAIN d \ {name} : e[m] = d[m]
        BY DEF Write
    <1>2. e = [m \in DOMAIN e |-> e[m]]
        BY DEF Write
    <1> HIDE DEF e
    <1>3. DOMAIN e \subseteq Names /\ IsFiniteSet(DOMAIN e)
        BY <1>1, DirectoryFacts, FS_AddElement
    <1>4. \A m \in DOMAIN e : e[m] \in Contents(n) /\ Placed(m, e[m])
        BY <1>1, DirectoryFacts
    <1> QED BY <1>2, <1>3, <1>4, DirectoryFacts DEF e

LEMMA RestrictKeeps ==
    ASSUME NEW n, NEW d \in Directories(n), NEW D \in SUBSET DOMAIN d
    PROVE  Restrict(d, D) \in Directories(n)
    <1> DEFINE e == Restrict(d, D)
    <1>1. DOMAIN e = D /\ \A m \in D : e[m] = d[m]
        BY RestrictFacts
    <1>2. e = [m \in DOMAIN e |-> e[m]]
        BY DEF Restrict
    <1> HIDE DEF e
    <1>3. DOMAIN e \subseteq Names /\ IsFiniteSet(DOMAIN e)
        BY <1>1, DirectoryFacts, FS_Subset
    <1>4. \A m \in DOMAIN e : e[m] \in Contents(n) /\ Placed(m, e[m])
        BY <1>1, DirectoryFacts
    <1> QED BY <1>2, <1>3, <1>4, DirectoryFacts DEF e

LEMMA WithoutKeeps ==
    ASSUME NEW n, NEW d \in Directories(n), NEW D
    PROVE  Without(d, D) \in Directories(n)
    <1>1. DOMAIN d \ D \in SUBSET DOMAIN d
        OBVIOUS
    <1> QED BY <1>1, RestrictKeeps DEF Without

LEMMA MoreValues ==
    ASSUME NEW n \in Nat, NEW d \in Directories(n)
    PROVE  d \in Directories(n + 1)
    <1>1. Contents(n) \subseteq Contents(n + 1)
        BY DEF Contents, ValuesUpTo
    <1> QED BY <1>1, DirectoryFacts

-------------------------------------------------------------------------------
(* Names: keys, sidecars, values and temporary files are told apart *)

LEMMA KeysAreNames == Seq(DOMAIN Escape) \subseteq Names
    <1> SUFFICES ASSUME NEW s \in Seq(DOMAIN Escape) PROVE s \in Names
        OBVIOUS
    <1>1. Len(s) \in Nat /\ s \in [1 .. Len(s) -> DOMAIN Escape]
        BY LenProperties
    <1>2. DOMAIN Escape \subseteq DOMAIN Rank
        BY LettersAssumption DEF LettersAssumption
    <1>3. s \in [1 .. Len(s) -> DOMAIN Rank]
        BY <1>1, <1>2
    <1> QED BY <1>1, <1>3 DEF Names

LEMMA EncodedKey ==
    ASSUME NEW k \in Seq(DOMAIN Escape)
    PROVE  /\ EncodeKey(k) \in Names
           /\ Len(EncodeKey(k)) = Len(k)
           /\ \A i \in 1 .. Len(k) : EncodeKey(k)[i] = Escape[k[i]]
    <1>1. Len(k) \in Nat /\ DOMAIN k = 1 .. Len(k) /\ \A i \in 1 .. Len(k) : k[i] \in DOMAIN Escape
        BY LenProperties, ElementOfSeq
    <1>2. EncodeKey(k) = [i \in 1 .. Len(k) |-> Escape[k[i]]]
        BY <1>1 DEF EncodeKey
    <1>3. \A i \in 1 .. Len(k) : Escape[k[i]] \in DOMAIN Rank
        BY <1>1, LettersAssumption DEF LettersAssumption
    <1> QED BY <1>1, <1>2, <1>3 DEF Names

LEMMA EncodedOnce ==
    ASSUME NEW j \in Seq(DOMAIN Escape), NEW k \in Seq(DOMAIN Escape), EncodeKey(j) = EncodeKey(k)
    PROVE  j = k
    <1>1. Len(j) = Len(k) /\ \A i \in 1 .. Len(j) : Escape[j[i]] = Escape[k[i]]
        BY EncodedKey
    <1>2. \A i \in 1 .. Len(j) : j[i] \in DOMAIN Escape /\ k[i] \in DOMAIN Escape
        BY <1>1, ElementOfSeq
    <1>3. \A i \in 1 .. Len(j) : j[i] = k[i]
        BY <1>1, <1>2, LettersAssumption DEF LettersAssumption
    <1> QED BY <1>1, <1>3, SeqEqual

LEMMA SidecarNames ==
    ASSUME NEW e \in Names
    PROVE  /\ SidecarName(e) \in Names
           /\ Len(SidecarName(e)) = Len(e) + 1
           /\ Last(SidecarName(e)) = Suffix
           /\ SidecarName(e) # << >>
           /\ SidecarName(e) # StoreFile
           /\ IsMetadataFilename(SidecarName(e))
           /\ e # << >> => IsSidecarName(SidecarName(e))
    <1>1. Len(e) \in Nat /\ Suffix \in DOMAIN Rank /\ e \in Seq(DOMAIN Rank)
        BY LenProperties, LettersAssumption DEF Names, LettersAssumption
    <1>2. SidecarName(e) \in Names /\ Len(SidecarName(e)) = Len(e) + 1 /\ SidecarName(e)[Len(e) + 1] = Suffix
        BY <1>1 DEF SidecarName, Names
    <1>3. Last(SidecarName(e)) = Suffix
        BY <1>2 DEF Last
    <1>4. SidecarName(e) # << >>
        BY <1>1, <1>2, EmptySeq
    <1>5. SidecarName(e) # StoreFile
        <2>1. Len(StoreFile) = 1 /\ StoreFile[1] = "__metadata__.json"
            BY DEF StoreFile
        <2>2. Len(e) + 1 = 1 => SidecarName(e)[1] = Suffix
            BY <1>2
        <2> QED BY <1>2, <2>1, <2>2 DEF Suffix
    <1>6. e # << >> => Len(e) # 0
        BY <1>1
    <1> QED BY <1>1, <1>2, <1>3, <1>4, <1>5, <1>6 DEF IsMetadataFilename, IsSidecarName

LEMMA SidecarOnce ==
    ASSUME NEW d \in Names, NEW e \in Names, SidecarName(d) = SidecarName(e)
    PROVE  d = e
    <1>1. d \in Seq(DOMAIN Rank) /\ e \in Seq(DOMAIN Rank) /\ Suffix \in DOMAIN Rank
        BY LettersAssumption DEF Names, LettersAssumption
    <1>2. Len(d) \in Nat /\ Len(e) \in Nat
        BY <1>1, LenProperties
    <1>3. Len(d) = Len(e)
        BY <1>2, SidecarNames
    <1>4. \A i \in 1 .. Len(d) : d[i] = e[i]
        <2> SUFFICES ASSUME NEW i \in 1 .. Len(d) PROVE d[i] = e[i]
            OBVIOUS
        <2>1. Append(d, Suffix)[i] = d[i] /\ Append(e, Suffix)[i] = e[i]
            BY <1>1, <1>2, <1>3
        <2> QED BY <2>1 DEF SidecarName
    <1> QED BY <1>1, <1>3, <1>4, SeqEqual

LEMMA KeySidecars ==
    ASSUME NEW j \in Seq(DOMAIN Escape), NEW k \in Seq(DOMAIN Escape),
           SidecarName(EncodeKey(j)) = SidecarName(EncodeKey(k))
    PROVE  j = k
    BY EncodedKey, EncodedOnce, SidecarOnce

LEMMA ValidIsNoMetadata ==
    ASSUME NEW name, ValidFilename(name)
    PROVE  ~IsMetadataFilename(name) /\ name # StoreFile /\ name # << >>
    BY DEF ValidFilename, IsMetadataFilename

LEMMA TemporaryNames ==
    ASSUME NEW m \in Nat \ {0}
    PROVE  /\ TemporaryName(m) \in Seq(DOMAIN Escape) /\ TemporaryName(m) \in Names
           /\ Len(TemporaryName(m)) = m
           /\ ValidFilename(TemporaryName(m))
           /\ IsTemporary(TemporaryName(m))
    <1> DEFINE t == TemporaryName(m)
    <1>1. ".tmp" \in DOMAIN Escape
        BY KeysAssumption DEF KeysAssumption
    <1>2. t \in Seq(DOMAIN Escape) /\ Len(t) = m /\ t = [i \in 1 .. m |-> ".tmp"]
        BY <1>1 DEF TemporaryName
    <1> HIDE DEF t
    <1>3. t # << >> /\ t[1] = ".tmp" /\ Len(t) \in 1 .. m /\ Head(t) = ".tmp" /\ Last(t) = ".tmp"
        BY <1>2 DEF Last
    <1>4. t # StoreFile /\ t # <<".">> /\ t # <<"..">>
        BY <1>3 DEF StoreFile
    <1>5. \A i \in DOMAIN t : t[i] # "/"
        BY <1>2
    <1>6. ~IsMetadataFilename(t)
        BY <1>3, <1>4 DEF IsMetadataFilename, Suffix
    <1>7. ValidFilename(t) /\ IsTemporary(t)
        BY <1>3, <1>4, <1>5, <1>6 DEF ValidFilename, IsTemporary
    <1>8. t \in Names
        BY <1>2, KeysAreNames
    <1> QED BY <1>2, <1>7, <1>8 DEF t

-------------------------------------------------------------------------------
(* Files in their places *)

ProperFilenames == {f \in Seq(DOMAIN Escape) : Proper(f)}

LEMMA KeyFacts ==
    ASSUME NEW k \in Keys
    PROVE  /\ k \in Seq(DOMAIN Escape)
           /\ EncodeKey(k) \in ProperFilenames
           /\ EncodeKey(k) \in Names
           /\ SidecarName(EncodeKey(k)) \in Names
           /\ IsSidecarName(SidecarName(EncodeKey(k)))
    <1>1. k \in Seq(DOMAIN Escape) /\ Proper(EncodeKey(k))
        BY KeysAssumption DEF KeysAssumption, EncodeKey
    <1>2. EncodeKey(k) \in Names /\ EncodeKey(k) # << >> /\ EncodeKey(k) \in ProperFilenames
        BY <1>1, EncodedKey, ValidIsNoMetadata DEF Proper, ProperFilenames
    <1> QED BY <1>1, <1>2, SidecarNames

LEMMA ProperFacts ==
    ASSUME NEW f \in ProperFilenames
    PROVE  /\ f \in Seq(DOMAIN Escape) /\ f \in Names
           /\ ValidFilename(f) /\ ~IsMetadataFilename(f) /\ f # StoreFile /\ f # << >>
           /\ ~IsTemporary(f)
           /\ f # None
    <1>1. f \in Seq(DOMAIN Escape) /\ ValidFilename(f) /\ ~IsTemporary(f)
        BY DEF ProperFilenames, Proper
    <1>2. f \in Names
        BY <1>1, KeysAreNames
    <1> QED BY <1>1, <1>2, ValidIsNoMetadata, NothingAssumption DEF Names, NothingAssumption

LEMMA SaveKeeps ==
    ASSUME NEW n, NEW d \in Directories(n)
    PROVE  SaveMetadata(d) \in Directories(n)
    <1>1. StoreFile \in Names
        BY LettersAssumption DEF LettersAssumption, StoreFile, Names
    <1>2. Placed(StoreFile, StoreMetadata) /\ StoreMetadata \in Contents(n)
        BY DEF Placed, StoreMetadata, Contents
    <1> QED BY <1>1, <1>2, WriteKeeps DEF SaveMetadata

LEMMA ValueKeeps ==
    ASSUME NEW n, NEW d \in Directories(n), NEW name \in Seq(DOMAIN Escape), ValidFilename(name),
           NEW of \in 1 .. n, NEW size \in Nat
    PROVE  Write(d, name, Bytes(of, size)) \in Directories(n)
    <1> DEFINE c == Bytes(of, size)
    <1>1. c \in Contents(n)
        BY DEF Contents, ValuesUpTo, Bytes
    <1>2. c.kind = "value" /\ c # StoreMetadata
        BY DEF Bytes, StoreMetadata
    <1>3. Placed(name, c)
        <2> HIDE DEF c
        <2> QED BY <1>2, ValidIsNoMetadata DEF Placed
    <1>4. name \in Names
        BY KeysAreNames
    <1> QED BY <1>1, <1>3, <1>4, WriteKeeps

LEMMA SidecarKeeps ==
    ASSUME NEW n, NEW d \in Directories(n), NEW k \in Seq(DOMAIN Escape), NEW type \in Types,
           NEW size \in Nat \cup {None}, NEW filename \in {None} \cup ProperFilenames
    PROVE  Write(d, SidecarName(EncodeKey(k)), Sidecar(k, type, size, filename)) \in Directories(n)
    <1> DEFINE c == Sidecar(k, type, size, filename)
               name == SidecarName(EncodeKey(k))
    <1>1. filename \in {None} \cup Seq(DOMAIN Escape)
        BY DEF ProperFilenames
    <1>2. c \in Contents(n)
        BY <1>1 DEF Contents, Sidecars, Sidecar
    <1>3. c.kind = "sidecar" /\ c # StoreMetadata /\ c.key = k /\ c.filename = filename
        BY DEF Sidecar, StoreMetadata
    <1>4. name \in Names /\ name # StoreFile
        BY EncodedKey, SidecarNames
    <1>5. ValidPath(filename) /\ (filename # None => ~IsTemporary(filename))
        BY ProperFacts DEF ValidPath
    <1>6. Placed(name, c)
        <2> HIDE DEF c
        <2> QED BY <1>3, <1>4, <1>5 DEF Placed
    <1> QED BY <1>2, <1>4, <1>6, WriteKeeps

LEMMA GarbageKeeps ==
    ASSUME NEW n, NEW d \in Directories(n), NEW k \in Keys
    PROVE  Write(d, SidecarName(EncodeKey(k)), Garbage) \in Directories(n)
    <1> DEFINE name == SidecarName(EncodeKey(k))
    <1>1. Garbage \in Contents(n) /\ Garbage.kind = "garbage" /\ Garbage # StoreMetadata
        BY DEF Contents, Garbage, StoreMetadata
    <1>2. name \in Names /\ IsSidecarName(name) /\ name # StoreFile
        BY KeyFacts, SidecarNames
    <1>3. Placed(name, Garbage)
        BY <1>1, <1>2 DEF Placed
    <1> QED BY <1>1, <1>2, <1>3, WriteKeeps

\* What is in a file by its name, and where a key leads.
LEMMA ContentFacts ==
    ASSUME NEW n, NEW d \in Directories(n), NEW name \in DOMAIN d
    PROVE  /\ name \in Names
           /\ d[name].kind \in {"value", "sidecar", "store", "garbage"}
           /\ d[name].kind = "value" => d[name] \in ValuesUpTo(n) /\ name \in Seq(DOMAIN Escape)
           /\ d[name].kind = "sidecar" => d[name] \in Sidecars
           /\ ~IsMetadataFilename(name) <=> d[name].kind = "value"
    <1>1. d[name] \in Contents(n) /\ Placed(name, d[name]) /\ name \in Names
        BY DirectoryFacts
    <1>2. CASE d[name] \in ValuesUpTo(n)
        <2>1. d[name].kind = "value"
            BY <1>2 DEF ValuesUpTo
        <2>2. ValidFilename(name) /\ name \in Seq(DOMAIN Escape)
            BY <1>1, <2>1 DEF Placed
        <2> QED BY <1>1, <1>2, <2>1, <2>2, ValidIsNoMetadata
    <1>3. CASE d[name] \in Sidecars
        <2>1. d[name].kind = "sidecar" /\ d[name].key \in Seq(DOMAIN Escape)
            BY <1>3 DEF Sidecars
        <2>2. name = SidecarName(EncodeKey(d[name].key))
            BY <1>1, <2>1 DEF Placed
        <2>3. IsMetadataFilename(name)
            BY <2>1, <2>2, EncodedKey, SidecarNames
        <2> QED BY <1>1, <1>3, <2>1, <2>3
    <1>4. CASE d[name] = StoreMetadata
        <2>1. name = StoreFile /\ d[name].kind = "store"
            BY <1>1, <1>4 DEF Placed, StoreMetadata
        <2> QED BY <1>1, <2>1 DEF IsMetadataFilename
    <1>5. CASE d[name] = Garbage
        <2>1. d[name].kind = "garbage"
            BY <1>5 DEF Garbage
        <2>2. IsSidecarName(name)
            BY <1>1, <2>1 DEF Placed
        <2>3. name # << >>
            <3>1. Len(<< >>) = 0
                OBVIOUS
            <3> QED BY <2>2, <3>1 DEF IsSidecarName
        <2>4. IsMetadataFilename(name)
            BY <2>2, <2>3 DEF IsSidecarName, IsMetadataFilename
        <2> QED BY <1>1, <2>1, <2>4
    <1> QED BY <1>1, <1>2, <1>3, <1>4, <1>5 DEF Contents

LEMMA SidecarFacts ==
    ASSUME NEW n, NEW d \in Directories(n), NEW k \in Seq(DOMAIN Escape), Parses(d, k)
    PROVE  /\ SidecarName(EncodeKey(k)) \in DOMAIN d
           /\ ReadSidecar(d, k) = d[SidecarName(EncodeKey(k))]
           /\ ReadSidecar(d, k) \in Sidecars
           /\ ReadSidecar(d, k).key = k
           /\ ReadSidecar(d, k).filename \in {None} \cup ProperFilenames
           /\ Binds(d, k)
    <1> DEFINE name == SidecarName(EncodeKey(k))
               c == ReadSidecar(d, k)
    <1>1. c.kind = "sidecar"
        BY DEF Parses
    <1>2. name \in DOMAIN d /\ c = d[name]
        <2>1. Missing.kind # "sidecar"
            BY DEF Missing
        <2> QED BY <1>1, <2>1 DEF ReadSidecar, At, There
    <1> HIDE DEF c
    <1>3. c \in Sidecars /\ Placed(name, c)
        BY <1>1, <1>2, ContentFacts, DirectoryFacts
    <1>4. /\ name = SidecarName(EncodeKey(c.key))
          /\ ValidPath(c.filename) /\ (c.filename # None => ~IsTemporary(c.filename))
        BY <1>1, <1>3 DEF Placed
    <1>5. c.key \in Seq(DOMAIN Escape) /\ c.filename \in {None} \cup Seq(DOMAIN Escape)
        BY <1>3 DEF Sidecars
    <1>6. c.key = k
        BY <1>4, <1>5, KeySidecars
    <1>7. c.filename \in {None} \cup ProperFilenames
        BY <1>4, <1>5 DEF ProperFilenames, Proper, ValidPath
    <1> QED BY <1>2, <1>3, <1>4, <1>6, <1>7 DEF c, Binds

LEMMA FileFacts ==
    ASSUME NEW n, NEW d \in Directories(n), NEW k \in Keys
    PROVE  /\ Binds(d, k) <=> Parses(d, k)
           /\ FileOf(d, k) \in ProperFilenames
           /\ FileOf(d, k) = IF Parses(d, k) THEN ValuePath(k, ReadSidecar(d, k).filename) ELSE EncodeKey(k)
    <1>1. k \in Seq(DOMAIN Escape) /\ EncodeKey(k) \in ProperFilenames
        BY KeyFacts
    <1>2. Binds(d, k) <=> Parses(d, k)
        BY <1>1, SidecarFacts DEF Binds
    <1>3. Parses(d, k) => ReadSidecar(d, k).filename \in {None} \cup ProperFilenames
        BY <1>1, SidecarFacts
    <1> QED BY <1>1, <1>2, <1>3 DEF FileOf, ValuePath

LEMMA PrepareKeeps ==
    ASSUME NEW n, NEW d \in Directories(n), NEW k, NEW path
    PROVE  PrepareWrite(d, k, path) \in Directories(n)
    BY WithoutKeeps DEF PrepareWrite

LEMMA RecordedKeeps ==
    ASSUME NEW n, NEW d \in Directories(n), NEW k \in Keys, NEW type \in Types,
           NEW size \in Nat \cup {None}, NEW filename \in {None} \cup ProperFilenames,
           NEW of \in 1 .. n, NEW length \in Nat
    PROVE  Recorded(d, k, type, size, filename, Bytes(of, length)) \in Directories(n)
    <1>1. k \in Seq(DOMAIN Escape) /\ EncodeKey(k) \in ProperFilenames
        BY KeyFacts
    <1>2. ValuePath(k, filename) \in ProperFilenames
        BY <1>1 DEF ValuePath
    <1>3. Write(d, ValuePath(k, filename), Bytes(of, length)) \in Directories(n)
        BY <1>2, ProperFacts, ValueKeeps
    <1> DEFINE e == Write(d, ValuePath(k, filename), Bytes(of, length))
    <1>4. Write(e, SidecarName(EncodeKey(k)), Sidecar(k, type, size, filename)) \in Directories(n)
        <2> HIDE DEF e
        <2> QED BY <1>1, <1>3, SidecarKeeps DEF e
    <1> QED BY <1>4, SaveKeeps DEF Recorded

LEMMA DeleteKeeps ==
    ASSUME NEW n, NEW d \in Directories(n), NEW k
    PROVE  DeleteValue(d, k) \in Directories(n)
    BY WithoutKeeps, SaveKeeps DEF DeleteValue

LEMMA PurgeKeeps ==
    ASSUME NEW n, NEW d \in Directories(n), NEW keep
    PROVE  PurgeFiles(d, keep) \in Directories(n)
    <1> DEFINE spared == {StoreFile} \cup {FileOf(d, k) : k \in keep} \cup {SidecarName(EncodeKey(k)) : k \in keep}
    <1>1. Restrict(d, DOMAIN d \cap spared) \in Directories(n)
        <2> HIDE DEF spared
        <2>1. DOMAIN d \cap spared \in SUBSET DOMAIN d
            OBVIOUS
        <2> QED BY <2>1, RestrictKeeps
    <1> QED BY <1>1, SaveKeeps DEF PurgeFiles

-------------------------------------------------------------------------------
(* What an opening adopts *)

\* Adoptions under way in a directory that has had n values and was d before.
Adoptions(n, d) ==
    {a \in [dir : Directories(n), owned : SUBSET (Names \cup OwnedFilenames(d, Adoption)), ok : BOOLEAN] :
        \A name \in Names : ~IsMetadataFilename(name) =>
            /\ name \in DOMAIN a.dir <=> name \in DOMAIN d
            /\ name \in DOMAIN d => a.dir[name] = d[name]}

LEMMA DeclaredFacts ==
    ASSUME NEW i \in DOMAIN Adoption, Adoption[i].kind = "key"
    PROVE  /\ Adoption[i].key \in Keys
           /\ \A j \in DOMAIN Adoption[i].files :
                 /\ Adoption[i].files[j].filename \in Seq(DOMAIN Escape)
                 /\ Adoption[i].files[j].filename \in DeclaredFiles(Adoption)
                 /\ ~IsTemporary(Adoption[i].files[j].filename)
                 /\ Adoption[i].files[j].type \in STRING
    <1> DEFINE File == [filename : Seq(DOMAIN Escape), type : STRING]
               KeyC == [kind : {"key"}, key : Keys, files : Seq(File)]
               SweepC == [kind : {"sweep"}, rules : Seq([pattern : Seq(STRING), type : STRING])]
               c == Adoption[i]
    <1>1. c \in KeyC \cup SweepC
        <2>1. Adoption \in Seq(KeyC \cup SweepC)
            BY AdoptionAssumption DEF AdoptionAssumption
        <2> HIDE DEF KeyC, SweepC
        <2> QED BY <2>1, LenProperties, ElementOfSeq
    <1>2. c \notin SweepC
        OBVIOUS
    <1>3. c.key \in Keys /\ c.files \in Seq(File)
        BY <1>1, <1>2
    <1>4. ASSUME NEW j \in DOMAIN c.files PROVE c.files[j] \in File
        <2> HIDE DEF File, c
        <2> QED BY <1>3, LenProperties, ElementOfSeq
    <1>5. ASSUME NEW j \in DOMAIN c.files PROVE c.files[j].filename \in DeclaredFiles(Adoption)
        <2>1. c.files[j].filename \in Declares(c)
            BY DEF Declares
        <2>2. i \in {q \in DOMAIN Adoption : Adoption[q].kind = "key"}
            OBVIOUS
        <2> QED BY <2>1, <2>2 DEF DeclaredFiles
    <1> QED BY <1>3, <1>4, <1>5, AdoptionAssumption DEF AdoptionAssumption

LEMMA RuleFacts ==
    ASSUME NEW i \in DOMAIN Adoption, Adoption[i].kind = "sweep", NEW name
    PROVE  LET rule == RuleFor(Adoption[i].rules, name) IN
               rule # 0 => rule \in DOMAIN Adoption[i].rules /\ Adoption[i].rules[rule].type \in STRING
                           /\ MatchesPattern(Adoption[i].rules[rule].pattern, name)
    <1> DEFINE Rule == [pattern : Seq(STRING), type : STRING]
               KeyC == [kind : {"key"}, key : Keys, files : Seq([filename : Seq(DOMAIN Escape), type : STRING])]
               SweepC == [kind : {"sweep"}, rules : Seq(Rule)]
               c == Adoption[i]
               rules == c.rules
               matched == {j \in DOMAIN rules : MatchesPattern(rules[j].pattern, name)}
    <1>1. c \in KeyC \cup SweepC
        <2>1. Adoption \in Seq(KeyC \cup SweepC)
            BY AdoptionAssumption DEF AdoptionAssumption
        <2> HIDE DEF KeyC, SweepC
        <2> QED BY <2>1, LenProperties, ElementOfSeq
    <1>2. c \notin KeyC
        OBVIOUS
    <1>3. rules \in Seq(Rule)
        BY <1>1, <1>2
    <1>4. \A j \in DOMAIN rules : rules[j] \in Rule
        <2> HIDE DEF Rule, rules
        <2> QED BY <1>3, LenProperties, ElementOfSeq
    <1>5. matched # {} => Min(matched) \in matched
        <2>1. Len(rules) \in Nat /\ DOMAIN rules = 1 .. Len(rules)
            <3> HIDE DEF Rule, rules
            <3> QED BY <1>3, LenProperties
        <2>2. matched \in SUBSET (0 .. Len(rules))
            <3> HIDE DEF rules
            <3> QED BY <2>1
        <2> HIDE DEF matched, rules
        <2>3. ASSUME matched # {} PROVE \E x \in matched : \A y \in matched : x <= y
            BY <2>1, <2>2, <2>3, LeastNumber
        <2> QED BY <2>3 DEF Min
    <1>6. RuleFor(rules, name) = IF matched = {} THEN 0 ELSE Min(matched)
        BY DEF RuleFor
    <1>7. RuleFor(rules, name) # 0 => RuleFor(rules, name) \in matched
        <2> HIDE DEF matched
        <2> QED BY <1>5, <1>6
    <1> QED BY <1>4, <1>7

\* The file f may be adopted for the key k.
AdoptableFor(a, k, f) ==
    a.ok /\ ~Tracked(a.dir, k) /\ ValidFilename(f) /\ There(a.dir, f)

AdoptForKeyCases(a, c) ==
    \/ AdoptForKey(a, c) = a
    \/ AdoptForKey(a, c) = Failed(a)
    \/ \E j \in DOMAIN c.files :
          /\ AdoptableFor(a, c.key, c.files[j].filename)
          /\ AdoptForKey(a, c) = Adopted(a, c.key, c.files[j].filename, c.files[j].type)

LEMMA WhatAKeyAdopts ==
    ASSUME NEW a, NEW c
    PROVE  AdoptForKeyCases(a, c)
    <1> DEFINE files == c.files
               offered == {i \in DOMAIN files : ~IsMetadataFilename(files[i].filename)}
               present == {i \in offered : There(a.dir, files[i].filename)}
               j == CHOOSE i \in present : TRUE
    <1>1. \/ AdoptForKey(a, c) = a
          \/ AdoptForKey(a, c) = Failed(a)
          \/ /\ a.ok /\ ~Tracked(a.dir, c.key)
             /\ \A i \in offered : ValidFilename(files[i].filename)
             /\ present # {}
             /\ AdoptForKey(a, c) = Adopted(a, c.key, files[j].filename, files[j].type)
        BY DEF AdoptForKey
    <1>2. present # {} => j \in present
        <2> HIDE DEF present
        <2> QED OBVIOUS
    <1> HIDE DEF j
    <1>3. j \in present => j \in offered /\ There(a.dir, files[j].filename) /\ j \in DOMAIN files
        OBVIOUS
    <1> HIDE DEF present, offered
    <1> QED BY <1>1, <1>2, <1>3 DEF AdoptForKeyCases, AdoptableFor

\* What every single adoption keeps, an opening keeps.
LEMMA OpeningKeeps ==
    ASSUME NEW n, NEW d \in Directories(n), NEW S,
           [dir |-> d, owned |-> OwnedFilenames(d, Adoption), ok |-> TRUE] \in S,
           \A a \in S : Failed(a) \in S,
           \A a \in S, i \in DOMAIN Adoption : Adoption[i].kind = "key" =>
               \A j \in DOMAIN Adoption[i].files :
                   LET file == Adoption[i].files[j] IN
                   AdoptableFor(a, Adoption[i].key, file.filename) =>
                       Adopted(a, Adoption[i].key, file.filename, file.type) \in S,
           \A a \in S, i \in DOMAIN Adoption, name \in DOMAIN d : Adoption[i].kind = "sweep" =>
               LET rules == Adoption[i].rules
                   rule == RuleFor(rules, name)
               IN  MaySweep(a, DOMAIN d, name) /\ rule # 0 => Adopted(a, name, name, rules[rule].type) \in S
    PROVE  AdoptFiles(d, Adoption) \in S
    <1>1. ASSUME NEW a \in S, NEW i \in DOMAIN Adoption, Adoption[i].kind = "key"
          PROVE  AdoptForKey(a, Adoption[i]) \in S
        <2>1. AdoptForKeyCases(a, Adoption[i])
            BY WhatAKeyAdopts
        <2> QED BY <1>1, <2>1 DEF AdoptForKeyCases
    <1>2. ASSUME NEW a \in S, NEW i \in DOMAIN Adoption, Adoption[i].kind = "sweep", NEW name \in DOMAIN d
          PROVE  SweepFile(a, DOMAIN d, Adoption[i].rules, name) \in S
        BY <1>2 DEF SweepFile
    <1>3. DOMAIN d \in SUBSET Names /\ IsFiniteSet(DOMAIN d)
        BY DirectoryFacts
    <1> QED BY <1>1, <1>2, <1>3, AdoptFilesKeep

LEMMA FailedFacts ==
    ASSUME NEW n, NEW d, NEW a \in Adoptions(n, d)
    PROVE  /\ Failed(a) \in Adoptions(n, d)
           /\ Failed(a).dir = a.dir /\ Failed(a).owned = a.owned
    BY DEF Failed, Adoptions

LEMMA AdoptionFacts ==
    ASSUME NEW n, NEW d, NEW a \in Adoptions(n, d)
    PROVE  /\ a.dir \in Directories(n)
           /\ \A name \in Names : ~IsMetadataFilename(name) =>
                 /\ name \in DOMAIN a.dir <=> name \in DOMAIN d
                 /\ name \in DOMAIN d => a.dir[name] = d[name]
    BY DEF Adoptions

LEMMA AdoptedFacts ==
    ASSUME NEW n, NEW d, NEW a \in Adoptions(n, d), NEW k \in Seq(DOMAIN Escape),
           NEW f \in ProperFilenames, f \in DOMAIN a.dir, NEW type \in Types
    PROVE  LET sidecar == Sidecar(k, type, a.dir[f].size, IF f = EncodeKey(k) THEN None ELSE f)
               b == Adopted(a, k, f, type)
           IN  /\ b \in Adoptions(n, d)
               /\ b.dir = Write(a.dir, SidecarName(EncodeKey(k)), sidecar)
               /\ b.owned = a.owned \cup {f, EncodeKey(k)}
               /\ b.ok = a.ok
               /\ a.dir[f] \in ValuesUpTo(n)
    <1> DEFINE filename == IF f = EncodeKey(k) THEN None ELSE f
               size == a.dir[f].size
               sidecar == Sidecar(k, type, size, filename)
               e == SidecarName(EncodeKey(k))
               b == Adopted(a, k, f, type)
    <1>1. a \in [dir : Directories(n), owned : SUBSET (Names \cup OwnedFilenames(d, Adoption)), ok : BOOLEAN]
        BY DEF Adoptions
    <1>2. b = [a EXCEPT !.dir = Write(a.dir, e, sidecar), !.owned = a.owned \cup {f, EncodeKey(k)}]
        BY DEF Adopted, WriteAdoptedSidecar
    <1>3. f \in Names /\ ~IsMetadataFilename(f) /\ EncodeKey(k) \in Names
        BY ProperFacts, EncodedKey
    <1>4. a.dir[f] \in ValuesUpTo(n) /\ size \in Nat
        <2>1. a.dir[f].kind = "value"
            BY <1>1, <1>3, ContentFacts
        <2>2. a.dir[f] \in ValuesUpTo(n)
            BY <1>1, <2>1, ContentFacts
        <2> QED BY <2>2 DEF ValuesUpTo
    <1>5. filename \in {None} \cup ProperFilenames
        OBVIOUS
    <1>6. Write(a.dir, e, sidecar) \in Directories(n)
        <2> HIDE DEF filename, size
        <2> QED BY <1>1, <1>4, <1>5, SidecarKeeps
    <1>7. IsMetadataFilename(e)
        BY <1>3, SidecarNames
    <1> HIDE DEF sidecar, e
    <1>8. \A name \in Names : ~IsMetadataFilename(name) =>
              /\ name \in DOMAIN Write(a.dir, e, sidecar) <=> name \in DOMAIN d
              /\ name \in DOMAIN d => Write(a.dir, e, sidecar)[name] = d[name]
        <2> SUFFICES ASSUME NEW name \in Names, ~IsMetadataFilename(name)
                     PROVE  /\ name \in DOMAIN Write(a.dir, e, sidecar) <=> name \in DOMAIN d
                            /\ name \in DOMAIN d => Write(a.dir, e, sidecar)[name] = d[name]
            OBVIOUS
        <2>1. name # e
            BY <1>7
        <2>2. /\ name \in DOMAIN a.dir <=> name \in DOMAIN d
              /\ name \in DOMAIN d => a.dir[name] = d[name]
            BY AdoptionFacts
        <2>3. /\ DOMAIN Write(a.dir, e, sidecar) = DOMAIN a.dir \cup {e}
              /\ \A m \in DOMAIN a.dir \ {e} : Write(a.dir, e, sidecar)[m] = a.dir[m]
            BY DEF Write
        <2> HIDE DEF e, sidecar
        <2> QED BY <2>1, <2>2, <2>3
    <1>9. b \in Adoptions(n, d)
        <2> DEFINE w == Write(a.dir, e, sidecar)
        <2>1. w \in Directories(n)
            BY <1>6 DEF sidecar, e
        <2> DEFINE owned == a.owned \cup {f, EncodeKey(k)}
        <2>2. owned \in SUBSET (Names \cup OwnedFilenames(d, Adoption))
            BY <1>1, <1>3
        <2>3. b = [a EXCEPT !.dir = w, !.owned = owned]
            BY <1>2 DEF sidecar, e
        <2> HIDE DEF owned, w, b
        <2>4. b \in [dir : Directories(n), owned : SUBSET (Names \cup OwnedFilenames(d, Adoption)), ok : BOOLEAN]
              /\ b.dir = w
            BY <1>1, <2>1, <2>2, <2>3
        <2> QED BY <1>8, <2>4 DEF Adoptions, w
    <1> QED BY <1>1, <1>2, <1>4, <1>9 DEF sidecar, e

\* What a key or a sweep adopts is the file of a value.
LEMMA KeyAdopts ==
    ASSUME NEW n, NEW d, NEW a \in Adoptions(n, d), NEW i \in DOMAIN Adoption, Adoption[i].kind = "key",
           NEW j \in DOMAIN Adoption[i].files, AdoptableFor(a, Adoption[i].key, Adoption[i].files[j].filename)
    PROVE  /\ Adoption[i].key \in Seq(DOMAIN Escape)
           /\ Adoption[i].files[j].filename \in ProperFilenames
           /\ Adoption[i].files[j].filename \in DOMAIN a.dir
           /\ Adoption[i].files[j].type \in Types
    BY DeclaredFacts, KeyFacts DEF Types, AdoptableFor, ProperFilenames, Proper, There

LEMMA SweepAdopts ==
    ASSUME NEW n, NEW d \in Directories(n), NEW a \in Adoptions(n, d), NEW i \in DOMAIN Adoption,
           Adoption[i].kind = "sweep", NEW name \in DOMAIN d, MaySweep(a, DOMAIN d, name),
           RuleFor(Adoption[i].rules, name) # 0
    PROVE  /\ name \in Seq(DOMAIN Escape)
           /\ name \in ProperFilenames
           /\ name \in DOMAIN a.dir
           /\ Adoption[i].rules[RuleFor(Adoption[i].rules, name)].type \in Types
    <1>1. ~IsMetadataFilename(name) /\ Head(name) \notin Dotted
        BY DEF MaySweep, IsDotFile
    <1>2. name \in Names /\ d[name].kind = "value" /\ name \in Seq(DOMAIN Escape)
        BY <1>1, ContentFacts
    <1>3. ValidFilename(name)
        BY <1>2, DirectoryFacts DEF Placed
    <1>4. ~IsTemporary(name)
        BY <1>1, KeysAssumption DEF KeysAssumption, IsTemporary
    <1>5. name \in DOMAIN a.dir
        BY <1>1, <1>2, AdoptionFacts
    <1> QED BY <1>2, <1>3, <1>4, <1>5, RuleFacts DEF Types, ProperFilenames, Proper

LEMMA AdoptionBegins ==
    ASSUME NEW n, NEW d \in Directories(n)
    PROVE  [dir |-> d, owned |-> OwnedFilenames(d, Adoption), ok |-> TRUE] \in Adoptions(n, d)
    BY DEF Adoptions

LEMMA OpeningAdopts ==
    ASSUME NEW n, NEW d \in Directories(n)
    PROVE  AdoptFiles(d, Adoption) \in Adoptions(n, d)
    <1> DEFINE S == Adoptions(n, d)
    <1>1. ASSUME NEW a \in S, NEW i \in DOMAIN Adoption, Adoption[i].kind = "key",
                 NEW j \in DOMAIN Adoption[i].files,
                 AdoptableFor(a, Adoption[i].key, Adoption[i].files[j].filename)
          PROVE  Adopted(a, Adoption[i].key, Adoption[i].files[j].filename, Adoption[i].files[j].type) \in S
        BY <1>1, KeyAdopts, AdoptedFacts
    <1>2. ASSUME NEW a \in S, NEW i \in DOMAIN Adoption, NEW name \in DOMAIN d, Adoption[i].kind = "sweep",
                 MaySweep(a, DOMAIN d, name), RuleFor(Adoption[i].rules, name) # 0
          PROVE  Adopted(a, name, name, Adoption[i].rules[RuleFor(Adoption[i].rules, name)].type) \in S
        <2> DEFINE type == Adoption[i].rules[RuleFor(Adoption[i].rules, name)].type
        <2>1. name \in Seq(DOMAIN Escape) /\ name \in ProperFilenames /\ name \in DOMAIN a.dir /\ type \in Types
            BY <1>2, SweepAdopts
        <2> HIDE DEF type
        <2>2. Adopted(a, name, name, type) \in S
            BY <2>1, AdoptedFacts
        <2> QED BY <2>2 DEF type
    <1> QED BY <1>1, <1>2, AdoptionBegins, FailedFacts, OpeningKeeps

-------------------------------------------------------------------------------
(* Every file is what its name says *)

Filenames == {f \in {None} \cup Seq(DOMAIN Escape) : f = None \/ (f \in Chosen /\ ~IsTemporary(f))}
Pipes(n) == [kind : {"pipe"}, key : Keys, filename : Filenames, of : 1 .. n, left : Nat]

\* The type invariant, which says of a sidecar also what it may bind.
TypeInv ==
    /\ dir \in Directories(Len(lengths))
    /\ open \in BOOLEAN
    /\ stream = NoStream \/ (open /\ stream \in Pipes(Len(lengths)))
    /\ lengths \in Seq(Nat) /\ Len(lengths) <= MaxValues

LEMMA TypeNames == Plain \in Types /\ Octets \in Types
    BY DEF Types

LEMMA BindingFacts ==
    ASSUME NEW b \in Bindings \cup StreamBindings
    PROVE  /\ b.key \in Keys
           /\ b.filename \in Filenames
    <1>1. b \in [key : Keys, filename : {None} \cup Seq(DOMAIN Escape)]
          /\ (b.filename # None => ~IsTemporary(b.filename))
        BY KeysAssumption DEF KeysAssumption
    <1> QED BY <1>1 DEF Filenames, Chosen

LEMMA ValidFilenames ==
    ASSUME NEW f \in Filenames, ValidPath(f)
    PROVE  f \in {None} \cup ProperFilenames /\ f \in {None} \cup Chosen
    BY DEF Filenames, ValidPath, ProperFilenames, Proper

LEMMA NextValueFacts ==
    ASSUME TypeInv, NEW size \in Nat, NextValue(size)
    PROVE  /\ lengths' \in Seq(Nat) /\ Len(lengths') = Len(lengths) + 1 /\ Len(lengths') <= MaxValues
           /\ Len(lengths) \in Nat /\ Len(lengths') \in 1 .. Len(lengths')
           /\ DOMAIN lengths = 1 .. Len(lengths) /\ DOMAIN lengths' = 1 .. Len(lengths')
           /\ lengths'[Len(lengths')] = size
           /\ \A i \in DOMAIN lengths : i \in DOMAIN lengths' /\ lengths'[i] = lengths[i]
           /\ dir \in Directories(Len(lengths'))
    <1>1. lengths \in Seq(Nat) /\ Len(lengths) \in Nat /\ MaxValues \in Nat /\ Len(lengths) < MaxValues
        BY SizesAssumption DEF SizesAssumption, TypeInv, NextValue
    <1>2. lengths' = Append(lengths, size)
        BY DEF NextValue
    <1>3. lengths' \in Seq(Nat) /\ Len(lengths') = Len(lengths) + 1 /\ lengths'[Len(lengths) + 1] = size
          /\ \A i \in 1 .. Len(lengths) : lengths'[i] = lengths[i]
        BY <1>1, <1>2
    <1>4. dir \in Directories(Len(lengths) + 1)
        BY <1>1, MoreValues DEF TypeInv
    <1> QED BY <1>1, <1>3, <1>4

\* A stream under way goes on among more values.
LEMMA StreamAmongMore ==
    ASSUME TypeInv, NEW size \in Nat, NextValue(size), UNCHANGED <<open, stream>>
    PROVE  stream' = NoStream \/ (open' /\ stream' \in Pipes(Len(lengths')))
    BY NextValueFacts DEF TypeInv, Pipes

LEMMA SetValueKeepsType ==
    ASSUME TypeInv, SetValue
    PROVE  TypeInv'
    <1>1. PICK b \in Bindings, size \in Sizes :
              /\ ValidPath(b.filename)
              /\ NextValue(size)
              /\ dir' = Recorded(PrepareWrite(dir, b.key, ValuePath(b.key, b.filename)),
                                 b.key, Plain, size, b.filename, Bytes(Len(lengths'), size))
        BY DEF SetValue
    <1>2. size \in Nat
        BY SizesAssumption DEF SizesAssumption
    <1>3. b.key \in Keys /\ b.filename \in {None} \cup ProperFilenames
        BY <1>1, BindingFacts, ValidFilenames
    <1> DEFINE n == Len(lengths')
    <1>4. n \in 1 .. n /\ dir \in Directories(n) /\ lengths' \in Seq(Nat) /\ Len(lengths') <= MaxValues
        BY <1>1, <1>2, NextValueFacts
    <1>5. PrepareWrite(dir, b.key, ValuePath(b.key, b.filename)) \in Directories(n)
        BY <1>4, PrepareKeeps
    <1>6. dir' \in Directories(n)
        <2> DEFINE d == PrepareWrite(dir, b.key, ValuePath(b.key, b.filename))
                   k == b.key
                   f == b.filename
        <2>1. dir' = Recorded(d, k, Plain, size, f, Bytes(n, size))
            BY <1>1
        <2>2. d \in Directories(n) /\ k \in Keys /\ f \in {None} \cup ProperFilenames /\ n \in 1 .. n
              /\ size \in Nat /\ size \in Nat \cup {None} /\ Plain \in Types
            BY <1>2, <1>3, <1>4, <1>5, TypeNames
        <2> HIDE DEF d, k, f, n
        <2>3. Recorded(d, k, Plain, size, f, Bytes(n, size)) \in Directories(n)
            BY ONLY <2>2, RecordedKeeps
        <2> QED BY <2>1, <2>3
    <1> HIDE DEF n
    <1>7. UNCHANGED <<open, stream>>
        BY DEF SetValue
    <1>8. stream' = NoStream \/ (open' /\ stream' \in Pipes(n))
        BY <1>1, <1>2, <1>7, StreamAmongMore DEF n
    <1>9. open' \in BOOLEAN
        BY <1>7 DEF TypeInv
    <1> QED BY <1>4, <1>6, <1>8, <1>9 DEF TypeInv, n

LEMMA StartStreamKeepsType ==
    ASSUME TypeInv, StartStream
    PROVE  TypeInv'
    <1>1. PICK b \in StreamBindings, size \in StreamSizes :
              /\ NextValue(size)
              /\ stream' = [kind |-> "pipe", key |-> b.key, filename |-> b.filename,
                            of |-> Len(lengths'), left |-> size]
              /\ dir' = Write(dir, TemporaryName(Len(lengths')), Bytes(Len(lengths'), 0))
        BY DEF StartStream
    <1>2. size \in Nat
        BY SizesAssumption DEF SizesAssumption
    <1>3. b.key \in Keys /\ b.filename \in Filenames
        BY BindingFacts
    <1> DEFINE n == Len(lengths')
    <1>4. n \in 1 .. n /\ n \in Nat \ {0} /\ dir \in Directories(n) /\ lengths' \in Seq(Nat) /\ n <= MaxValues
        BY <1>1, <1>2, NextValueFacts
    <1>5. dir' \in Directories(n)
        <2>1. TemporaryName(n) \in Seq(DOMAIN Escape) /\ ValidFilename(TemporaryName(n))
            BY <1>4, TemporaryNames
        <2> HIDE DEF n
        <2> QED BY <1>1, <1>4, <2>1, ValueKeeps DEF n
    <1>6. stream' \in Pipes(n)
        <2> HIDE DEF n
        <2> QED BY <1>1, <1>2, <1>3, <1>4 DEF Pipes, n
    <1>7. open /\ open' = open
        BY DEF StartStream
    <1> QED BY <1>4, <1>5, <1>6, <1>7 DEF TypeInv

LEMMA StreamChunkKeepsType ==
    ASSUME TypeInv, StreamChunk
    PROVE  TypeInv'
    <1> DEFINE n == Len(lengths)
               t == TemporaryName(stream.of)
    <1>1. stream # NoStream
        BY DEF StreamChunk, NoStream
    <1>2. stream \in Pipes(n) /\ open /\ dir \in Directories(n) /\ lengths \in Seq(Nat) /\ n \in Nat
        BY <1>1 DEF TypeInv
    <1>3. stream.left > 0 /\ stream.left \in Nat /\ stream.of \in 1 .. n /\ stream.of \in Nat \ {0}
        BY <1>2 DEF StreamChunk, Pipes
    <1>4. stream' \in Pipes(n)
        <2>1. stream' = [stream EXCEPT !.left = stream.left - 1]
            BY DEF StreamChunk
        <2>2. stream.left - 1 \in Nat
            BY <1>3
        <2> QED BY <1>2, <2>1, <2>2 DEF Pipes
    <1>5. dir' \in Directories(n)
        <2>1. CASE ~There(dir, t)
            BY <1>2, <2>1 DEF StreamChunk
        <2>2. CASE There(dir, t)
            <3>1. t \in Seq(DOMAIN Escape) /\ ValidFilename(t) /\ ~IsMetadataFilename(t)
                BY <1>3, TemporaryNames, ValidIsNoMetadata
            <3>2. dir[t] \in ValuesUpTo(n)
                BY <1>2, <2>2, <3>1, ContentFacts DEF There
            <3> DEFINE c == Bytes(dir[t].of, dir[t].size + 1)
            <3>3. dir[t].of \in 1 .. n /\ dir[t].size + 1 \in Nat
                BY <3>2 DEF ValuesUpTo
            <3>4. Write(dir, t, c) \in Directories(n)
                <4> HIDE DEF t, n
                <4> QED BY <1>2, <3>1, <3>3, ValueKeeps
            <3>5. [dir[t] EXCEPT !.size = dir[t].size + 1] = c
                BY <3>2 DEF ValuesUpTo, Bytes
            <3>6. dir' = [dir EXCEPT ![t] = [dir[t] EXCEPT !.size = dir[t].size + 1]]
                BY <2>2 DEF StreamChunk
            <3>7. dir' = Write(dir, t, c)
                <4> HIDE DEF t, c
                <4>1. t \in DOMAIN dir
                    BY <2>2 DEF There
                <4>2. dir = [name \in DOMAIN dir |-> dir[name]]
                    BY <1>2, DirectoryFacts
                <4> QED BY <3>5, <3>6, <4>1, <4>2 DEF Write
            <3> QED BY <3>4, <3>7
        <2> QED BY <2>1, <2>2
    <1>6. lengths' = lengths /\ open' = open
        BY DEF StreamChunk
    <1> QED BY <1>2, <1>4, <1>5, <1>6 DEF TypeInv

LEMMA FinalizeKeepsType ==
    ASSUME TypeInv, Finalize
    PROVE  TypeInv'
    <1> DEFINE n == Len(lengths)
               t == TemporaryName(stream.of)
               k == stream.key
               filename == stream.filename
               prepared == PrepareWrite(dir, k, ValuePath(k, filename))
    <1>1. stream # NoStream
        BY DEF Finalize, Streamed, NoStream
    <1>2. stream \in Pipes(n) /\ dir \in Directories(n) /\ lengths \in Seq(Nat) /\ n \in Nat
        BY <1>1 DEF TypeInv
    <1>3. k \in Keys /\ filename \in Filenames /\ stream.of \in 1 .. n /\ stream.of \in Nat \ {0}
        BY <1>2 DEF Pipes
    <1>4. filename \in {None} \cup ProperFilenames
        BY <1>3, ValidFilenames DEF Finalize
    <1>5. ~IsMetadataFilename(t) /\ t \in DOMAIN dir
        BY <1>3, TemporaryNames, ValidIsNoMetadata DEF Finalize, There
    <1>6. dir[t] \in ValuesUpTo(n)
        BY <1>2, <1>5, ContentFacts
    <1>7. dir[t] = Bytes(dir[t].of, dir[t].size) /\ dir[t].of \in 1 .. n /\ dir[t].size \in Nat
        BY <1>6 DEF ValuesUpTo, Bytes
    <1>8. Without(prepared, {t}) \in Directories(n)
        BY <1>2, PrepareKeeps, WithoutKeeps
    <1>9. lengths[stream.of] % SizeLimit \in Nat
        <2>1. lengths[stream.of] \in Nat /\ SizeLimit \in Nat \ {0}
            BY <1>2, <1>3, SizesAssumption DEF SizesAssumption
        <2> QED BY <2>1
    <1>10. dir' = Recorded(Without(prepared, {t}), k, Octets, lengths[stream.of] % SizeLimit, filename, dir[t])
        BY DEF Finalize
    <1> DEFINE d == Without(prepared, {t})
               of == dir[t].of
               length == dir[t].size
               size == lengths[stream.of] % SizeLimit
    <1>11. dir' \in Directories(n)
        <2>1. dir' = Recorded(d, k, Octets, size, filename, Bytes(of, length))
            BY <1>7, <1>10
        <2>2. d \in Directories(n) /\ of \in 1 .. n /\ length \in Nat /\ size \in Nat
            BY <1>7, <1>8, <1>9
        <2>3. size \in Nat \cup {None} /\ k \in Keys /\ filename \in {None} \cup ProperFilenames /\ Octets \in Types
            BY <1>3, <1>4, <1>9, TypeNames
        <2> HIDE DEF d, of, length, size, n, k, filename
        <2>4. Recorded(d, k, Octets, size, filename, Bytes(of, length)) \in Directories(n)
            BY ONLY <2>2, <2>3, RecordedKeeps
        <2> QED BY <2>1, <2>4
    <1>12. stream' = NoStream /\ open' = open /\ lengths' = lengths
        BY DEF Finalize
    <1> QED BY <1>11, <1>12 DEF TypeInv

LEMMA OpenStoreKeepsType ==
    ASSUME TypeInv, OpenStore
    PROVE  TypeInv'
    <1> DEFINE n == Len(lengths)
               a == AdoptFiles(SaveMetadata(dir), Adoption)
    <1>1. SaveMetadata(dir) \in Directories(n)
        BY SaveKeeps DEF TypeInv
    <1>2. a \in Adoptions(n, SaveMetadata(dir))
        BY <1>1, OpeningAdopts
    <1>3. a.dir \in Directories(n) /\ a.ok \in BOOLEAN
        BY <1>2 DEF Adoptions
    <1>4. stream = NoStream
        BY DEF OpenStore, TypeInv
    <1> QED BY <1>3, <1>4 DEF OpenStore, TypeInv

LEMMA OutsideWriteKeepsType ==
    ASSUME TypeInv, OutsideWrite
    PROVE  TypeInv'
    <1> DEFINE n == Len(lengths')
    <1>1. PICK name \in Outside : NextValue(1) /\ dir' = Write(dir, name, Bytes(n, 1))
        BY DEF OutsideWrite
    <1>2. n \in 1 .. n /\ dir \in Directories(n) /\ lengths' \in Seq(Nat) /\ n <= MaxValues
        BY <1>1, NextValueFacts
    <1>3. name \in Seq(DOMAIN Escape) /\ ValidFilename(name)
        BY KeysAssumption DEF KeysAssumption, Proper
    <1>4. dir' \in Directories(n)
        <2> HIDE DEF n
        <2> QED BY <1>1, <1>2, <1>3, ValueKeeps
    <1>5. UNCHANGED <<open, stream>>
        BY DEF OutsideWrite
    <1>6. stream' = NoStream \/ (open' /\ stream' \in Pipes(n))
        BY <1>1, <1>5, StreamAmongMore
    <1> QED BY <1>2, <1>4, <1>5, <1>6 DEF TypeInv

LEMMA ForeignWriteKeepsType ==
    ASSUME TypeInv, ForeignWrite
    PROVE  TypeInv'
    <1> DEFINE n == Len(lengths')
    <1>1. PICK k \in Foreign :
              /\ NextValue(1)
              /\ dir' = Write(Write(dir, EncodeKey(k), Bytes(n, 1)),
                              SidecarName(EncodeKey(k)), Sidecar(k, Plain, None, None))
        BY DEF ForeignWrite
    <1>2. n \in 1 .. n /\ dir \in Directories(n) /\ lengths' \in Seq(Nat) /\ n <= MaxValues
        BY <1>1, NextValueFacts
    <1>3. k \in Keys
        BY KeysAssumption DEF KeysAssumption
    <1>4. EncodeKey(k) \in ProperFilenames /\ k \in Seq(DOMAIN Escape)
        BY <1>3, KeyFacts
    <1> DEFINE d == Write(dir, EncodeKey(k), Bytes(n, 1))
    <1>5. d \in Directories(n)
        <2> HIDE DEF n
        <2> QED BY <1>2, <1>4, ProperFacts, ValueKeeps
    <1>6. dir' \in Directories(n)
        <2>1. dir' = Write(d, SidecarName(EncodeKey(k)), Sidecar(k, Plain, None, None))
            BY <1>1
        <2>2. None \in Nat \cup {None} /\ None \in {None} \cup ProperFilenames
            OBVIOUS
        <2> HIDE DEF n, d
        <2> QED BY ONLY <1>4, <1>5, <2>1, <2>2, TypeNames, SidecarKeeps
    <1>7. UNCHANGED <<open, stream>>
        BY DEF ForeignWrite
    <1>8. stream' = NoStream \/ (open' /\ stream' \in Pipes(n))
        BY <1>1, <1>7, StreamAmongMore
    <1> QED BY <1>2, <1>6, <1>7, <1>8 DEF TypeInv

LEMMA SpoilKeepsType ==
    ASSUME TypeInv, Spoil
    PROVE  TypeInv'
    <1>1. PICK k \in Unparsable : dir' = Write(dir, SidecarName(EncodeKey(k)), Garbage)
        BY DEF Spoil
    <1>2. k \in Keys
        BY KeysAssumption DEF KeysAssumption
    <1>3. dir' \in Directories(Len(lengths))
        BY <1>1, <1>2, GarbageKeeps DEF TypeInv
    <1> QED BY <1>3 DEF Spoil, TypeInv

LEMMA EmptyDirectory ==
    ASSUME NEW n
    PROVE  << >> \in Directories(n)
    <1>1. DOMAIN << >> = {}
        OBVIOUS
    <1>2. << >> = [name \in DOMAIN << >> |-> << >>[name]]
        OBVIOUS
    <1> QED BY <1>1, <1>2, DirectoryFacts, FS_EmptySet

LEMMA RestKeepsType ==
    ASSUME TypeInv
    PROVE  /\ Delete => TypeInv'
           /\ Purge => TypeInv'
           /\ DropStorage => TypeInv'
           /\ Read => TypeInv'
           /\ StreamFails => TypeInv'
           /\ FinalizeRefused => TypeInv'
           /\ FinalizeFails => TypeInv'
           /\ Exit => TypeInv'
           /\ UNCHANGED vars => TypeInv'
    <1>1. Delete => TypeInv'
        BY DeleteKeeps DEF Delete, TypeInv
    <1>2. Purge => TypeInv'
        BY PurgeKeeps DEF Purge, TypeInv
    <1>3. DropStorage => TypeInv'
        BY EmptyDirectory DEF DropStorage, TypeInv
    <1>4. Read => TypeInv'
        BY SaveKeeps DEF Read, TypeInv
    <1>5. StreamFails => TypeInv'
        BY WithoutKeeps DEF StreamFails, TypeInv
    <1>6. FinalizeRefused => TypeInv'
        BY DEF FinalizeRefused, TypeInv
    <1>7. FinalizeFails => TypeInv'
        BY PrepareKeeps DEF FinalizeFails, TypeInv
    <1>8. Exit => TypeInv'
        BY DEF Exit, TypeInv
    <1>9. UNCHANGED vars => TypeInv'
        BY DEF vars, TypeInv
    <1> QED BY <1>1, <1>2, <1>3, <1>4, <1>5, <1>6, <1>7, <1>8, <1>9

LEMMA TypeInduction == Spec => []TypeInv
    <1>1. Init => TypeInv
        <2>1. Len(<< >>) = 0 /\ << >> \in Seq(Nat) /\ MaxValues \in Nat
            BY SizesAssumption DEF SizesAssumption
        <2> SUFFICES ASSUME Init PROVE TypeInv
            OBVIOUS
        <2>2. dir \in Directories(Len(lengths))
            BY EmptyDirectory DEF Init
        <2>3. lengths \in Seq(Nat) /\ Len(lengths) <= MaxValues
            BY <2>1, SizesAssumption DEF Init, SizesAssumption
        <2> QED BY <2>2, <2>3 DEF Init, TypeInv
    <1>2. TypeInv /\ [Next]_vars => TypeInv'
        BY SetValueKeepsType, StartStreamKeepsType, StreamChunkKeepsType, FinalizeKeepsType,
           OpenStoreKeepsType, OutsideWriteKeepsType, ForeignWriteKeepsType, SpoilKeepsType,
           RestKeepsType DEF Next
    <1> QED BY <1>1, <1>2, PTL DEF Spec

LEMMA TypeInvImpliesTypeOK == TypeInv => TypeOK
    <1> SUFFICES ASSUME TypeInv PROVE TypeOK
        OBVIOUS
    <1> DEFINE n == Len(lengths)
    <1>1. dir \in Directories(n) /\ lengths \in Seq(Nat) /\ DOMAIN lengths = 1 .. n
        BY DEF TypeInv
    <1>2. ASSUME NEW name \in DOMAIN dir
          PROVE  LET content == dir[name] IN
                    /\ content = StoreMetadata <=> name = StoreFile
                    /\ content.kind = "sidecar" => name = SidecarName(EncodeKey(content.key))
                    /\ content.kind = "value" => ValidFilename(name) /\ content.of \in DOMAIN lengths
                    /\ content.kind = "garbage" => IsSidecarName(name)
        <2>1. Placed(name, dir[name])
            BY <1>1, DirectoryFacts
        <2>2. dir[name].kind = "value" => dir[name] \in ValuesUpTo(n)
            BY <1>1, ContentFacts
        <2>3. dir[name].kind = "value" => dir[name].of \in DOMAIN lengths
            BY <1>1, <2>2 DEF ValuesUpTo
        <2> QED BY <2>1, <2>3 DEF Placed
    <1>3. stream = NoStream \/ (open /\ stream.of \in DOMAIN lengths /\ stream.left \in Nat)
        BY <1>1 DEF TypeInv, Pipes
    <1> QED BY <1>2, <1>3 DEF TypeInv, TypeOK

\* Every file is what its name says: no call, no opening and no other program ever puts a
\* value where a sidecar belongs, or a sidecar under the name of another key.
THEOREM TypeCorrect == Spec => []TypeOK
    BY TypeInduction, TypeInvImpliesTypeOK, PTL

-------------------------------------------------------------------------------
(* What is under a name after a call *)

LEMMA AtWrite ==
    ASSUME NEW d, NEW name, NEW c, NEW m
    PROVE  At(Write(d, name, c), m) = IF m = name THEN c ELSE At(d, m)
    BY DEF At, There, Write

LEMMA AtWithout ==
    ASSUME NEW d, NEW D, NEW m
    PROVE  At(Without(d, D), m) = IF m \in D THEN Missing ELSE At(d, m)
    BY DEF At, There, Without, Restrict

LEMMA AtRestrict ==
    ASSUME NEW d, NEW D, NEW m
    PROVE  At(Restrict(d, DOMAIN d \cap D), m) = IF m \in D THEN At(d, m) ELSE Missing
    BY RestrictFacts DEF At, There

LEMMA AtThere ==
    ASSUME NEW n, NEW d \in Directories(n), NEW m
    PROVE  /\ There(d, m) <=> At(d, m) # Missing
           /\ There(d, m) => At(d, m) = d[m] /\ m \in DOMAIN d /\ m \in Names
           /\ At(d, m).kind = "value" <=> There(d, m) /\ ~IsMetadataFilename(m)
           /\ At(d, m).kind = "sidecar" => There(d, m) /\ IsMetadataFilename(m)
    <1>1. There(d, m) => d[m].kind \in {"value", "sidecar", "store", "garbage"} /\ m \in Names
        BY ContentFacts DEF There
    <1>2. There(d, m) => d[m] # Missing
        BY <1>1 DEF Missing
    <1>3. There(d, m) => (~IsMetadataFilename(m) <=> d[m].kind = "value")
        BY ContentFacts DEF There
    <1>4. ~There(d, m) => At(d, m) = Missing /\ At(d, m).kind = "missing"
        BY DEF At, Missing
    <1>5. There(d, m) => At(d, m) = d[m] /\ m \in DOMAIN d
        BY DEF At, There
    <1> QED BY <1>1, <1>2, <1>3, <1>4, <1>5

\* All names but that of the store's metadata and those of temporary files.
Lasting == {m \in Names : m # StoreFile /\ (IsMetadataFilename(m) \/ ~IsTemporary(m))}

SidecarOf(k) == SidecarName(EncodeKey(k))

LEMMA LastingNames ==
    /\ \A k \in Keys : SidecarOf(k) \in Lasting
    /\ \A f \in ProperFilenames : f \in Lasting
    /\ \A k \in Keys, f \in ProperFilenames : SidecarOf(k) # f
    /\ \A j, k \in Keys : SidecarOf(j) = SidecarOf(k) => j = k
    /\ \A of \in Nat \ {0} : TemporaryName(of) \notin Lasting
    <1>1. ASSUME NEW k \in Keys
          PROVE  SidecarOf(k) \in Lasting /\ IsMetadataFilename(SidecarOf(k))
        BY KeyFacts, SidecarNames DEF SidecarOf, Lasting
    <1>2. ASSUME NEW f \in ProperFilenames
          PROVE  f \in Lasting /\ ~IsMetadataFilename(f)
        BY ProperFacts DEF Lasting
    <1>3. \A j, k \in Keys : SidecarOf(j) = SidecarOf(k) => j = k
        BY KeyFacts, KeySidecars DEF SidecarOf
    <1>4. ASSUME NEW of \in Nat \ {0}
          PROVE  TemporaryName(of) \notin Lasting
        BY TemporaryNames, ValidIsNoMetadata DEF Lasting
    <1>5. \A k \in Keys, f \in ProperFilenames : SidecarOf(k) # f
        BY <1>1, <1>2
    <1> QED BY <1>1, <1>2, <1>3, <1>4, <1>5

\* Where a key leads depends on its sidecar only.
LEMMA SameSidecar ==
    ASSUME NEW d, NEW e, NEW k, ReadSidecar(e, k) = ReadSidecar(d, k)
    PROVE  /\ Parses(e, k) <=> Parses(d, k)
           /\ Binds(e, k) <=> Binds(d, k)
           /\ FileOf(e, k) = FileOf(d, k)
    BY DEF Parses, Binds, FileOf

\* d is the directory before and e the one after: under the lasting names ...

\* ... nothing changes,
Untouched(d, e) == \A m \in Lasting : At(e, m) = At(d, m)

\* ... there is a new record of k with a value c, the file it was bound to before is gone,
Stored(d, e, k, type, size, filename, c) ==
    \A m \in Lasting :
        At(e, m) = IF m = SidecarOf(k) THEN Sidecar(k, type, size, filename)
                   ELSE IF m = ValuePath(k, filename) THEN c
                   ELSE IF Binds(d, k) /\ m = FileOf(d, k) THEN Missing
                   ELSE At(d, m)

\* ... or some files are gone.
Removed(d, e, names) == \A m \in Lasting : At(e, m) = IF m \in names THEN Missing ELSE At(d, m)

LEMMA AtSaved ==
    ASSUME NEW d, NEW m \in Lasting
    PROVE  At(SaveMetadata(d), m) = At(d, m)
    BY AtWrite DEF SaveMetadata, Lasting

LEMMA AtPrepared ==
    ASSUME NEW d, NEW k, NEW path, NEW m
    PROVE  At(PrepareWrite(d, k, path), m) =
               IF Binds(d, k) /\ FileOf(d, k) # path /\ m = FileOf(d, k) THEN Missing ELSE At(d, m)
    BY AtWithout DEF PrepareWrite

LEMMA AtRecorded ==
    ASSUME NEW d, NEW k, NEW type, NEW size, NEW filename, NEW c, NEW m \in Lasting
    PROVE  At(Recorded(d, k, type, size, filename, c), m) =
               IF m = SidecarOf(k) THEN Sidecar(k, type, size, filename)
               ELSE IF m = ValuePath(k, filename) THEN c
               ELSE At(d, m)
    <1> DEFINE v == Write(d, ValuePath(k, filename), c)
               w == Write(v, SidecarOf(k), Sidecar(k, type, size, filename))
    <1>1. At(v, m) = IF m = ValuePath(k, filename) THEN c ELSE At(d, m)
        BY AtWrite
    <1>2. At(w, m) = IF m = SidecarOf(k) THEN Sidecar(k, type, size, filename) ELSE At(v, m)
        <2> HIDE DEF v
        <2> QED BY AtWrite
    <1>3. At(SaveMetadata(w), m) = At(w, m)
        <2> HIDE DEF w
        <2> QED BY AtSaved
    <1>4. Recorded(d, k, type, size, filename, c) = SaveMetadata(w)
        BY DEF Recorded, SidecarOf
    <1> QED BY <1>1, <1>2, <1>3, <1>4

LEMMA RecordedStores ==
    ASSUME NEW d, NEW k, NEW type, NEW size, NEW filename, NEW c, NEW names, names \cap Lasting = {}
    PROVE  LET prepared == PrepareWrite(d, k, ValuePath(k, filename)) IN
           /\ Stored(d, Recorded(prepared, k, type, size, filename, c), k, type, size, filename, c)
           /\ Stored(d, Recorded(Without(prepared, names), k, type, size, filename, c),
                     k, type, size, filename, c)
    <1> DEFINE path == ValuePath(k, filename)
               prepared == PrepareWrite(d, k, path)
               fewer == Without(prepared, names)
    <1>1. \A m \in Lasting : At(prepared, m) =
               IF Binds(d, k) /\ FileOf(d, k) # path /\ m = FileOf(d, k) THEN Missing ELSE At(d, m)
        BY AtPrepared
    <1>2. \A m \in Lasting : At(fewer, m) = At(prepared, m)
        <2> HIDE DEF prepared
        <2> QED BY AtWithout
    <1> HIDE DEF fewer, prepared
    <1>3. Stored(d, Recorded(prepared, k, type, size, filename, c), k, type, size, filename, c)
        BY <1>1, AtRecorded DEF Stored
    <1>4. Stored(d, Recorded(fewer, k, type, size, filename, c), k, type, size, filename, c)
        BY <1>1, <1>2, AtRecorded DEF Stored
    <1> QED BY <1>3, <1>4 DEF fewer, prepared

-------------------------------------------------------------------------------
(* What each step does to the files *)

\* A temporary file that is not written to stays as it is or goes.
TemporariesLeft(d, e) ==
    \A of \in Nat \ {0} : At(e, TemporaryName(of)) \in {At(d, TemporaryName(of)), Missing}

RightSize(size, length) == size = length \/ (length >= SizeLimit /\ size = length % SizeLimit)

LEMMA WrittenLeavesTemporaries ==
    ASSUME NEW d, NEW name, NEW c, \A of \in Nat \ {0} : name # TemporaryName(of)
    PROVE  TemporariesLeft(d, Write(d, name, c))
    BY AtWrite DEF TemporariesLeft

LEMMA RemovalLeavesTemporaries ==
    ASSUME NEW d, NEW names
    PROVE  TemporariesLeft(d, Without(d, names))
    BY AtWithout DEF TemporariesLeft

LEMMA TemporariesLeftTwice ==
    ASSUME NEW d, NEW e, NEW f, TemporariesLeft(d, e), TemporariesLeft(e, f)
    PROVE  TemporariesLeft(d, f)
    BY DEF TemporariesLeft

LEMMA NotTemporary ==
    /\ \A of \in Nat \ {0} : StoreFile # TemporaryName(of)
    /\ \A m \in Lasting, of \in Nat \ {0} : m # TemporaryName(of)
    BY TemporaryNames, ValidIsNoMetadata, LastingNames

LEMMA SavedLeavesTemporaries ==
    ASSUME NEW d
    PROVE  TemporariesLeft(d, SaveMetadata(d))
    BY NotTemporary, WrittenLeavesTemporaries DEF SaveMetadata

LEMMA PreparedLeavesTemporaries ==
    ASSUME NEW d, NEW k, NEW path
    PROVE  TemporariesLeft(d, PrepareWrite(d, k, path))
    BY AtPrepared DEF TemporariesLeft

LEMMA ValuePaths ==
    ASSUME NEW k \in Keys, NEW filename \in {None} \cup ProperFilenames
    PROVE  ValuePath(k, filename) \in ProperFilenames /\ ValuePath(k, filename) \in Lasting
    BY KeyFacts, LastingNames DEF ValuePath

LEMMA RecordedLeavesTemporaries ==
    ASSUME NEW d, NEW k \in Keys, NEW type, NEW size, NEW filename \in {None} \cup ProperFilenames, NEW c
    PROVE  TemporariesLeft(d, Recorded(d, k, type, size, filename, c))
    <1> DEFINE v == Write(d, ValuePath(k, filename), c)
               w == Write(v, SidecarOf(k), Sidecar(k, type, size, filename))
    <1>1. ValuePath(k, filename) \in Lasting /\ SidecarOf(k) \in Lasting
        BY ValuePaths, LastingNames
    <1>2. TemporariesLeft(d, v)
        BY <1>1, NotTemporary, WrittenLeavesTemporaries
    <1>3. TemporariesLeft(v, w)
        <2> HIDE DEF v
        <2> QED BY <1>1, NotTemporary, WrittenLeavesTemporaries
    <1>4. TemporariesLeft(w, SaveMetadata(w))
        <2> HIDE DEF w
        <2> QED BY SavedLeavesTemporaries
    <1>5. Recorded(d, k, type, size, filename, c) = SaveMetadata(w)
        BY DEF Recorded, SidecarOf
    <1> HIDE DEF v, w
    <1> QED BY <1>2, <1>3, <1>4, <1>5, TemporariesLeftTwice

LEMMA SetValueEffect ==
    ASSUME TypeInv, SetValue
    PROVE  \E k \in Keys, filename \in {None} \cup ProperFilenames, size \in Nat :
               /\ filename \in {None} \cup Chosen
               /\ MayBind(k, filename)
               /\ NextValue(size)
               /\ Stored(dir, dir', k, Plain, size, filename, Bytes(Len(lengths'), size))
               /\ TemporariesLeft(dir, dir')
               /\ UNCHANGED <<open, stream>>
    <1>1. PICK b \in Bindings, size \in Sizes :
              /\ ValidPath(b.filename)
              /\ MayBind(b.key, b.filename)
              /\ NextValue(size)
              /\ dir' = Recorded(PrepareWrite(dir, b.key, ValuePath(b.key, b.filename)),
                                 b.key, Plain, size, b.filename, Bytes(Len(lengths'), size))
        BY DEF SetValue
    <1> DEFINE k == b.key
               f == b.filename
               c == Bytes(Len(lengths'), size)
               prepared == PrepareWrite(dir, k, ValuePath(k, f))
    <1>2. size \in Nat /\ k \in Keys /\ f \in {None} \cup ProperFilenames
          /\ f \in {None} \cup Chosen
        BY <1>1, SizesAssumption, BindingFacts, ValidFilenames DEF SizesAssumption
    <1>3. dir' = Recorded(prepared, k, Plain, size, f, c)
        BY <1>1
    <1>4. Stored(dir, dir', k, Plain, size, f, c)
        <2>1. Stored(dir, Recorded(prepared, k, Plain, size, f, c), k, Plain, size, f, c)
            <3> HIDE DEF k, f, c, prepared
            <3>1. {} \cap Lasting = {}
                OBVIOUS
            <3> QED BY <3>1, RecordedStores DEF prepared
        <2> QED BY <1>3, <2>1
    <1>5. TemporariesLeft(dir, dir')
        <2>1. TemporariesLeft(dir, prepared)
            BY PreparedLeavesTemporaries
        <2>2. TemporariesLeft(prepared, dir')
            <3> HIDE DEF k, f, c, prepared
            <3> QED BY <1>2, <1>3, RecordedLeavesTemporaries
        <2> QED BY <2>1, <2>2, TemporariesLeftTwice
    <1>6. UNCHANGED <<open, stream>>
        BY DEF SetValue
    <1>7. MayBind(k, f)
        BY <1>1
    <1> HIDE DEF k, f
    <1> QED BY <1>1, <1>2, <1>4, <1>5, <1>6, <1>7

LEMMA FinalizeEffect ==
    ASSUME TypeInv, Finalize
    PROVE  LET t == TemporaryName(stream.of) IN
           /\ stream \in Pipes(Len(lengths)) /\ stream.left = 0
           /\ stream.filename \in {None} \cup ProperFilenames
           /\ stream.filename \in {None} \cup Chosen
           /\ There(dir, t) /\ dir[t] \in ValuesUpTo(Len(lengths))
           /\ MayBind(stream.key, stream.filename)
           /\ Stored(dir, dir', stream.key, Octets, lengths[stream.of] % SizeLimit, stream.filename, dir[t])
           /\ stream' = NoStream /\ UNCHANGED <<open, lengths>>
    <1> DEFINE n == Len(lengths)
               t == TemporaryName(stream.of)
               k == stream.key
               f == stream.filename
               size == lengths[stream.of] % SizeLimit
               prepared == PrepareWrite(dir, k, ValuePath(k, f))
    <1>1. stream # NoStream
        BY DEF Finalize, Streamed, NoStream
    <1>2. stream \in Pipes(n) /\ dir \in Directories(n)
        BY <1>1 DEF TypeInv
    <1>3. f \in Filenames /\ stream.of \in Nat \ {0}
        BY <1>2 DEF Pipes
    <1>4. f \in {None} \cup ProperFilenames /\ f \in {None} \cup Chosen
        BY <1>3, ValidFilenames DEF Finalize
    <1>5. There(dir, t) /\ ~IsMetadataFilename(t)
        BY <1>3, TemporaryNames, ValidIsNoMetadata DEF Finalize
    <1>6. dir[t] \in ValuesUpTo(n)
        BY <1>2, <1>5, ContentFacts DEF There
    <1>7. dir' = Recorded(Without(prepared, {t}), k, Octets, size, f, dir[t])
        BY DEF Finalize
    <1>8. {t} \cap Lasting = {}
        BY <1>3, LastingNames
    <1> DEFINE c == dir[t]
               names == {t}
    <1>9. Stored(dir, dir', k, Octets, size, f, c)
        <2>1. Stored(dir, Recorded(Without(prepared, names), k, Octets, size, f, c), k, Octets, size, f, c)
            <3> HIDE DEF names, k, f, c, size
            <3> QED BY <1>8, RecordedStores DEF names
        <2> QED BY <1>7, <2>1
    <1>10. stream.left = 0 /\ MayBind(k, f) /\ stream' = NoStream /\ UNCHANGED <<open, lengths>>
        BY DEF Finalize, Streamed
    <1> QED BY <1>2, <1>4, <1>5, <1>6, <1>9, <1>10

LEMMA ForeignWriteEffect ==
    ASSUME TypeInv, ForeignWrite
    PROVE  \E k \in Keys :
               /\ ~Parses(dir, k)
               /\ MayBind(k, None)
               /\ NextValue(1)
               /\ Stored(dir, dir', k, Plain, None, None, Bytes(Len(lengths'), 1))
               /\ TemporariesLeft(dir, dir')
               /\ UNCHANGED <<open, stream>>
    <1>1. PICK k \in Foreign :
              /\ ~Parses(dir, k) /\ MayBind(k, None) /\ NextValue(1)
              /\ dir' = Write(Write(dir, EncodeKey(k), Bytes(Len(lengths'), 1)),
                              SidecarName(EncodeKey(k)), Sidecar(k, Plain, None, None))
        BY DEF ForeignWrite
    <1> DEFINE c == Bytes(Len(lengths'), 1)
               v == Write(dir, EncodeKey(k), c)
               s == Sidecar(k, Plain, None, None)
    <1>2. k \in Keys
        BY KeysAssumption DEF KeysAssumption
    <1>3. ~Binds(dir, k)
        BY <1>1 DEF Binds
    <1>4. dir' = Write(v, SidecarOf(k), s)
        BY <1>1 DEF SidecarOf
    <1>5. EncodeKey(k) \in Lasting /\ SidecarOf(k) \in Lasting
        BY <1>2, KeyFacts, LastingNames
    <1>6. Stored(dir, dir', k, Plain, None, None, c)
        <2>1. ValuePath(k, None) = EncodeKey(k)
            BY DEF ValuePath
        <2>2. \A m \in Lasting : At(v, m) = IF m = EncodeKey(k) THEN c ELSE At(dir, m)
            BY AtWrite
        <2> HIDE DEF v, c
        <2> QED BY <1>3, <1>4, <2>1, <2>2, AtWrite DEF Stored
    <1>7. TemporariesLeft(dir, dir')
        <2>1. TemporariesLeft(dir, v)
            BY <1>5, NotTemporary, WrittenLeavesTemporaries
        <2>2. TemporariesLeft(v, dir')
            <3> HIDE DEF v, s
            <3> QED BY <1>4, <1>5, NotTemporary, WrittenLeavesTemporaries
        <2> QED BY <2>1, <2>2, TemporariesLeftTwice
    <1>8. UNCHANGED <<open, stream>>
        BY DEF ForeignWrite
    <1> QED BY <1>1, <1>2, <1>6, <1>7, <1>8

LEMMA OutsideWriteEffect ==
    ASSUME TypeInv, OutsideWrite
    PROVE  \E name \in Outside :
               /\ name \in ProperFilenames
               /\ At(dir, name) = Missing
               /\ \A k \in Keys : Parses(dir, k) => name \notin {FileOf(dir, k), EncodeKey(k), k}
               /\ NextValue(1)
               /\ \A m \in Lasting : At(dir', m) = IF m = name THEN Bytes(Len(lengths'), 1) ELSE At(dir, m)
               /\ TemporariesLeft(dir, dir')
               /\ UNCHANGED <<open, stream>>
    <1>1. PICK name \in Outside :
              /\ ~There(dir, name)
              /\ ~\E k \in Keys : Parses(dir, k) /\ name \in {FileOf(dir, k), EncodeKey(k), k}
              /\ NextValue(1)
              /\ dir' = Write(dir, name, Bytes(Len(lengths'), 1))
        BY DEF OutsideWrite
    <1>2. name \in ProperFilenames
        BY KeysAssumption DEF KeysAssumption, ProperFilenames, Proper
    <1>3. At(dir, name) = Missing
        BY <1>1 DEF At
    <1>4. TemporariesLeft(dir, dir')
        BY <1>1, <1>2, LastingNames, NotTemporary, WrittenLeavesTemporaries
    <1>5. UNCHANGED <<open, stream>>
        BY DEF OutsideWrite
    <1>6. \A m \in Lasting : At(dir', m) = IF m = name THEN Bytes(Len(lengths'), 1) ELSE At(dir, m)
        BY <1>1, AtWrite
    <1> QED BY <1>1, <1>2, <1>3, <1>4, <1>5, <1>6

LEMMA QuietEffect ==
    ASSUME TypeInv,
           Read \/ StartStream \/ StreamChunk \/ StreamFails \/ FinalizeRefused \/ Exit \/ UNCHANGED vars
    PROVE  Untouched(dir, dir')
    <1>1. ASSUME NEW of \in Nat \ {0}, NEW c, dir' = Write(dir, TemporaryName(of), c)
          PROVE  Untouched(dir, dir')
        BY <1>1, AtWrite, LastingNames DEF Untouched
    <1>2. stream # NoStream => stream.of \in Nat \ {0}
        BY DEF TypeInv, Pipes
    <1>3. CASE Read
        BY <1>3, AtSaved DEF Read, Untouched
    <1>4. CASE StartStream
        <2>1. PICK size \in StreamSizes :
                  NextValue(size) /\ dir' = Write(dir, TemporaryName(Len(lengths')), Bytes(Len(lengths'), 0))
            BY <1>4 DEF StartStream
        <2>2. Len(lengths') \in Nat \ {0}
            BY <2>1, NextValueFacts, SizesAssumption DEF SizesAssumption
        <2> QED BY <1>1, <2>1, <2>2
    <1>5. CASE StreamChunk
        <2>1. stream.of \in Nat \ {0}
            BY <1>2, <1>5 DEF StreamChunk, NoStream
        <2> DEFINE t == TemporaryName(stream.of)
        <2>2. dir' = dir \/ dir' = [dir EXCEPT ![t].size = @ + 1]
            BY <1>5 DEF StreamChunk
        <2>3. ASSUME NEW m \in Lasting PROVE At(dir', m) = At(dir, m)
            <3>1. m # t
                BY <2>1, LastingNames
            <3>2. DOMAIN dir' = DOMAIN dir /\ (m \in DOMAIN dir => dir'[m] = dir[m])
                <4> HIDE DEF t
                <4> QED BY <2>2, <3>1
            <3> QED BY <3>2 DEF At, There
        <2> QED BY <2>3 DEF Untouched
    <1>6. CASE StreamFails
        <2>1. stream.of \in Nat \ {0} /\ dir' = Without(dir, {TemporaryName(stream.of)})
            BY <1>2, <1>6 DEF StreamFails, NoStream
        <2> QED BY <2>1, AtWithout, LastingNames DEF Untouched
    <1>7. CASE FinalizeRefused \/ Exit \/ UNCHANGED vars
        BY <1>7 DEF FinalizeRefused, Exit, vars, Untouched
    <1> QED BY <1>3, <1>4, <1>5, <1>6, <1>7

LEMMA DeleteEffect ==
    ASSUME TypeInv, Delete
    PROVE  /\ \E k \in Keys : Removed(dir, dir', {FileOf(dir, k), SidecarOf(k)})
           /\ TemporariesLeft(dir, dir')
           /\ UNCHANGED <<open, stream, lengths>>
    <1>1. PICK k \in Keys : dir' = DeleteValue(dir, k)
        BY DEF Delete
    <1> DEFINE w == Without(dir, {FileOf(dir, k), SidecarOf(k)})
    <1>2. dir' = SaveMetadata(w)
        BY <1>1 DEF DeleteValue, SidecarOf
    <1>3. \A m \in Lasting : At(w, m) = IF m \in {FileOf(dir, k), SidecarOf(k)} THEN Missing ELSE At(dir, m)
        BY AtWithout
    <1>4. TemporariesLeft(dir, w)
        BY RemovalLeavesTemporaries
    <1>5. UNCHANGED <<open, stream, lengths>>
        BY DEF Delete
    <1> HIDE DEF w
    <1>6. Removed(dir, dir', {FileOf(dir, k), SidecarOf(k)})
        BY <1>2, <1>3, AtSaved DEF Removed
    <1>7. TemporariesLeft(dir, dir')
        BY <1>2, <1>4, SavedLeavesTemporaries, TemporariesLeftTwice
    <1> QED BY <1>5, <1>6, <1>7

Spared(d, keep) == {FileOf(d, k) : k \in keep} \cup {SidecarOf(k) : k \in keep}

LEMMA PurgeEffect ==
    ASSUME TypeInv, Purge
    PROVE  /\ \E keep \in Keeps : Removed(dir, dir', Lasting \ Spared(dir, keep))
           /\ TemporariesLeft(dir, dir')
           /\ UNCHANGED <<open, stream, lengths>>
    <1>1. PICK keep \in Keeps : dir' = PurgeFiles(dir, keep)
        BY DEF Purge
    <1> DEFINE spared == {StoreFile} \cup {FileOf(dir, k) : k \in keep} \cup {SidecarName(EncodeKey(k)) : k \in keep}
               w == Restrict(dir, DOMAIN dir \cap spared)
    <1>2. dir' = SaveMetadata(w)
        BY <1>1 DEF PurgeFiles
    <1>3. \A m : At(w, m) = IF m \in spared THEN At(dir, m) ELSE Missing
        <2> HIDE DEF spared
        <2> QED BY AtRestrict
    <1>4. \A m \in Lasting : m \in spared <=> m \in Spared(dir, keep)
        BY DEF Spared, SidecarOf, Lasting
    <1>5. TemporariesLeft(dir, w)
        <2> HIDE DEF w, spared
        <2> QED BY <1>3 DEF TemporariesLeft
    <1>6. UNCHANGED <<open, stream, lengths>>
        BY DEF Purge
    <1> HIDE DEF w, spared
    <1>7. \A m \in Lasting : At(dir', m) = At(w, m)
        BY <1>2, AtSaved
    <1>8. Removed(dir, dir', Lasting \ Spared(dir, keep))
        BY <1>3, <1>4, <1>7 DEF Removed
    <1>9. TemporariesLeft(dir, dir')
        BY <1>2, <1>5, SavedLeavesTemporaries, TemporariesLeftTwice
    <1> QED BY <1>6, <1>8, <1>9

LEMMA DropStorageEffect ==
    ASSUME TypeInv, DropStorage
    PROVE  /\ Removed(dir, dir', Lasting)
           /\ TemporariesLeft(dir, dir')
           /\ UNCHANGED <<open, stream, lengths>>
    <1>1. dir' = << >> /\ DOMAIN << >> = {}
        BY DEF DropStorage
    <1>2. \A m : At(dir', m) = Missing
        BY <1>1 DEF At, There
    <1> QED BY <1>2 DEF Removed, TemporariesLeft, DropStorage

LEMMA FinalizeFailsEffect ==
    ASSUME TypeInv, FinalizeFails
    PROVE  /\ stream.key \in Keys
           /\ \E names : ((Binds(dir, stream.key) /\ names = {FileOf(dir, stream.key)}) \/ names = {})
                         /\ Removed(dir, dir', names)
           /\ stream' = NoStream /\ UNCHANGED <<open, lengths>>
    <1> DEFINE k == stream.key
               path == ValuePath(k, stream.filename)
               names == IF Binds(dir, k) /\ FileOf(dir, k) # path THEN {FileOf(dir, k)} ELSE {}
    <1>1. k \in Keys
        BY DEF FinalizeFails, Streamed, NoStream, TypeInv, Pipes
    <1>2. dir' = PrepareWrite(dir, k, path)
        BY DEF FinalizeFails
    <1>3. Removed(dir, dir', names)
        <2> HIDE DEF k, path
        <2> QED BY <1>2, AtPrepared DEF Removed
    <1>4. (Binds(dir, k) /\ names = {FileOf(dir, k)}) \/ names = {}
        OBVIOUS
    <1>5. stream' = NoStream /\ UNCHANGED <<open, lengths>>
        BY DEF FinalizeFails
    <1> HIDE DEF names
    <1> QED BY <1>1, <1>3, <1>4, <1>5

LEMMA SpoilEffect ==
    ASSUME TypeInv, Spoil
    PROVE  /\ \E k \in Keys :
                 /\ ReadSidecar(dir, k) = Missing
                 /\ \A m \in Lasting : At(dir', m) = IF m = SidecarOf(k) THEN Garbage ELSE At(dir, m)
           /\ TemporariesLeft(dir, dir')
           /\ UNCHANGED <<open, stream, lengths>>
    <1>1. PICK k \in Unparsable : ReadSidecar(dir, k) = Missing /\ dir' = Write(dir, SidecarOf(k), Garbage)
        BY DEF Spoil, SidecarOf
    <1>2. k \in Keys
        BY KeysAssumption DEF KeysAssumption
    <1>3. TemporariesLeft(dir, dir')
        BY <1>1, <1>2, LastingNames, NotTemporary, WrittenLeavesTemporaries
    <1>4. \A m \in Lasting : At(dir', m) = IF m = SidecarOf(k) THEN Garbage ELSE At(dir, m)
        BY <1>1, AtWrite
    <1> QED BY <1>1, <1>2, <1>3, <1>4 DEF Spoil

LEMMA OpenStoreEffect ==
    ASSUME TypeInv, OpenStore
    PROVE  LET a == AdoptFiles(SaveMetadata(dir), Adoption) IN
           /\ SaveMetadata(dir) \in Directories(Len(lengths))
           /\ Untouched(dir, SaveMetadata(dir))
           /\ dir' = a.dir /\ open' = a.ok
           /\ stream = NoStream
           /\ UNCHANGED <<stream, lengths>>
    BY SaveKeeps, AtSaved DEF OpenStore, TypeInv, Untouched

-------------------------------------------------------------------------------
(* Values are whole *)

\* A file that is not temporary has all of its value, and the temporary file of the
\* stream under way, if it is still there, has what was written so far.
WholeFiles == \A m \in Lasting : At(dir, m).kind = "value" => At(dir, m).size = lengths[At(dir, m).of]

WholePipe ==
    stream # NoStream /\ There(dir, TemporaryName(stream.of)) =>
        dir[TemporaryName(stream.of)] = Bytes(stream.of, lengths[stream.of] - stream.left)

WholeInv == TypeInv /\ WholeFiles /\ WholePipe

\* The values so far keep their lengths.
LongerLengths == \A i \in DOMAIN lengths : i \in DOMAIN lengths' /\ lengths'[i] = lengths[i]

LEMMA FilesStayWhole ==
    ASSUME TypeInv, TypeInv', WholeFiles, LongerLengths,
           \A m \in Lasting :
               \/ At(dir', m) = At(dir, m)
               \/ At(dir', m).kind # "value"
               \/ At(dir', m).size = lengths'[At(dir', m).of]
    PROVE  WholeFiles'
    <1> SUFFICES ASSUME NEW m \in Lasting, At(dir', m) = At(dir, m), At(dir, m).kind = "value"
                 PROVE  At(dir, m).size = lengths'[At(dir, m).of]
        BY DEF WholeFiles
    <1>1. dir \in Directories(Len(lengths)) /\ DOMAIN lengths = 1 .. Len(lengths)
        BY DEF TypeInv
    <1>2. At(dir, m) = dir[m] /\ m \in DOMAIN dir /\ dir[m].kind = "value"
        BY <1>1, AtThere
    <1>3. dir[m] \in ValuesUpTo(Len(lengths))
        BY <1>1, <1>2, ContentFacts
    <1>4. At(dir, m).of \in DOMAIN lengths
        BY <1>1, <1>2, <1>3 DEF ValuesUpTo
    <1> QED BY <1>4 DEF LongerLengths, WholeFiles

LEMMA PipeStaysWhole ==
    ASSUME TypeInv, TypeInv', WholePipe, LongerLengths, stream' = stream, TemporariesLeft(dir, dir')
    PROVE  WholePipe'
    <1> DEFINE t == TemporaryName(stream.of)
    <1> SUFFICES ASSUME stream # NoStream, There(dir', t)
                 PROVE  dir'[t] = Bytes(stream.of, lengths'[stream.of] - stream.left)
        BY DEF WholePipe
    <1>1. stream.of \in Nat \ {0} /\ stream.of \in DOMAIN lengths
        BY DEF TypeInv, Pipes
    <1>2. dir \in Directories(Len(lengths)) /\ dir' \in Directories(Len(lengths'))
        BY DEF TypeInv
    <1>3. At(dir', t) # Missing /\ At(dir', t) = dir'[t]
        BY <1>2, AtThere
    <1>4. At(dir', t) = At(dir, t)
        BY <1>1, <1>3 DEF TemporariesLeft
    <1>5. There(dir, t) /\ At(dir, t) = dir[t]
        BY <1>2, <1>3, <1>4, AtThere
    <1> QED BY <1>1, <1>3, <1>4, <1>5 DEF WholePipe, LongerLengths

LEMMA SameLengths ==
    ASSUME lengths' = lengths
    PROVE  LongerLengths
    BY DEF LongerLengths

LEMMA NewValueWhole ==
    ASSUME TypeInv, NEW size \in Nat, NextValue(size)
    PROVE  /\ LongerLengths
           /\ Bytes(Len(lengths'), size).size = lengths'[Bytes(Len(lengths'), size).of]
    BY NextValueFacts DEF LongerLengths, Bytes

\* What is stored is no value or a whole one.
LEMMA StoredWhole ==
    ASSUME NEW k, NEW type, NEW size, NEW filename, NEW c, NEW m \in Lasting,
           Stored(dir, dir', k, type, size, filename, c), c.size = lengths'[c.of]
    PROVE  \/ At(dir', m) = At(dir, m)
           \/ At(dir', m).kind # "value"
           \/ At(dir', m).size = lengths'[At(dir', m).of]
    <1>1. Sidecar(k, type, size, filename).kind # "value" /\ Missing.kind # "value"
        BY DEF Sidecar, Missing
    <1> QED BY <1>1 DEF Stored

LEMMA NoValues == Missing.kind # "value" /\ Garbage.kind # "value"
    BY DEF Missing, Garbage

LEMMA SetValueKeepsWhole ==
    ASSUME WholeInv, TypeInv', SetValue \/ ForeignWrite
    PROVE  WholeInv'
    <1>1. PICK k \in Keys, type \in Types, length \in Nat \cup {None},
              filename \in {None} \cup ProperFilenames, size \in Nat :
              /\ NextValue(size)
              /\ Stored(dir, dir', k, type, length, filename, Bytes(Len(lengths'), size))
              /\ TemporariesLeft(dir, dir')
              /\ UNCHANGED <<open, stream>>
        <2>1. CASE SetValue
            <3>1. PICK k \in Keys, filename \in {None} \cup ProperFilenames, size \in Nat :
                      /\ NextValue(size)
                      /\ Stored(dir, dir', k, Plain, size, filename, Bytes(Len(lengths'), size))
                      /\ TemporariesLeft(dir, dir')
                      /\ UNCHANGED <<open, stream>>
                BY <2>1, SetValueEffect DEF WholeInv
            <3> QED BY <3>1, TypeNames
        <2>2. CASE ForeignWrite
            <3>1. PICK k \in Keys :
                      /\ NextValue(1)
                      /\ Stored(dir, dir', k, Plain, None, None, Bytes(Len(lengths'), 1))
                      /\ TemporariesLeft(dir, dir')
                      /\ UNCHANGED <<open, stream>>
                BY <2>2, ForeignWriteEffect DEF WholeInv
            <3>2. 1 \in Nat
                OBVIOUS
            <3> QED BY <3>1, <3>2, TypeNames
        <2> QED BY <2>1, <2>2
    <1>2. LongerLengths /\ Bytes(Len(lengths'), size).size = lengths'[Bytes(Len(lengths'), size).of]
        BY <1>1, NewValueWhole DEF WholeInv
    <1>3. \A m \in Lasting :
              \/ At(dir', m) = At(dir, m)
              \/ At(dir', m).kind # "value"
              \/ At(dir', m).size = lengths'[At(dir', m).of]
        BY <1>1, <1>2, StoredWhole
    <1> QED BY <1>1, <1>2, <1>3, FilesStayWhole, PipeStaysWhole DEF WholeInv

LEMMA OutsideWriteKeepsWhole ==
    ASSUME WholeInv, TypeInv', OutsideWrite
    PROVE  WholeInv'
    <1>1. PICK name :
              /\ NextValue(1)
              /\ \A m \in Lasting : At(dir', m) = IF m = name THEN Bytes(Len(lengths'), 1) ELSE At(dir, m)
              /\ TemporariesLeft(dir, dir')
              /\ UNCHANGED <<open, stream>>
        BY OutsideWriteEffect DEF WholeInv
    <1>2. LongerLengths /\ Bytes(Len(lengths'), 1).size = lengths'[Bytes(Len(lengths'), 1).of]
        BY <1>1, NewValueWhole DEF WholeInv
    <1> QED BY <1>1, <1>2, FilesStayWhole, PipeStaysWhole DEF WholeInv

LEMMA RemovalKeepsWhole ==
    ASSUME WholeInv, TypeInv', Delete \/ Purge \/ DropStorage \/ Spoil
    PROVE  WholeInv'
    <1>1. \A m \in Lasting : At(dir', m) = At(dir, m) \/ At(dir', m).kind # "value"
        <2>1. CASE Delete
            BY <2>1, DeleteEffect, NoValues DEF WholeInv, Removed
        <2>2. CASE Purge
            BY <2>2, PurgeEffect, NoValues DEF WholeInv, Removed
        <2>3. CASE DropStorage
            BY <2>3, DropStorageEffect, NoValues DEF WholeInv, Removed
        <2>4. CASE Spoil
            BY <2>4, SpoilEffect, NoValues DEF WholeInv
        <2> QED BY <2>1, <2>2, <2>3, <2>4
    <1>2. TemporariesLeft(dir, dir') /\ UNCHANGED <<open, stream, lengths>>
        BY DeleteEffect, PurgeEffect, DropStorageEffect, SpoilEffect DEF WholeInv
    <1>3. LongerLengths
        BY <1>2, SameLengths
    <1> QED BY <1>1, <1>2, <1>3, FilesStayWhole, PipeStaysWhole DEF WholeInv

LEMMA StreamEndKeepsWhole ==
    ASSUME WholeInv, TypeInv', Finalize \/ FinalizeFails \/ FinalizeRefused \/ StreamFails \/ Exit
    PROVE  WholeInv'
    <1>1. stream' = NoStream /\ lengths' = lengths
        BY DEF Finalize, FinalizeFails, FinalizeRefused, StreamFails, Exit
    <1>2. LongerLengths /\ WholePipe'
        BY <1>1, SameLengths DEF WholePipe
    <1>3. \A m \in Lasting :
              \/ At(dir', m) = At(dir, m)
              \/ At(dir', m).kind # "value"
              \/ At(dir', m).size = lengths'[At(dir', m).of]
        <2>1. CASE Finalize
            <3> DEFINE t == TemporaryName(stream.of)
            <3>1. stream \in Pipes(Len(lengths)) /\ stream.left = 0 /\ There(dir, t)
                  /\ Stored(dir, dir', stream.key, Octets, lengths[stream.of] % SizeLimit, stream.filename, dir[t])
                BY <2>1, FinalizeEffect DEF WholeInv
            <3>2. stream # NoStream /\ stream.of \in DOMAIN lengths /\ lengths \in Seq(Nat)
                BY <2>1, <3>1 DEF Finalize, Streamed, NoStream, WholeInv, TypeInv, Pipes
            <3>3. dir[t] = Bytes(stream.of, lengths[stream.of] - 0)
                BY <3>1, <3>2 DEF WholeInv, WholePipe
            <3>4. lengths[stream.of] \in Nat
                BY <3>2
            <3>5. dir[t].size = lengths'[dir[t].of]
                BY <1>1, <3>3, <3>4 DEF Bytes
            <3> HIDE DEF t
            <3> QED BY <3>1, <3>5, StoredWhole
        <2>2. CASE FinalizeFails
            BY <2>2, FinalizeFailsEffect, NoValues DEF WholeInv, Removed
        <2>3. CASE FinalizeRefused \/ StreamFails \/ Exit
            BY <2>3, QuietEffect DEF WholeInv, Untouched
        <2> QED BY <2>1, <2>2, <2>3
    <1> QED BY <1>2, <1>3, FilesStayWhole DEF WholeInv

LEMMA StartStreamKeepsWhole ==
    ASSUME WholeInv, TypeInv', StartStream
    PROVE  WholeInv'
    <1> DEFINE n == Len(lengths')
    <1>1. PICK size \in StreamSizes :
              /\ NextValue(size)
              /\ stream'.of = n /\ stream'.left = size
              /\ dir' = Write(dir, TemporaryName(n), Bytes(n, 0))
        BY DEF StartStream
    <1>2. size \in Nat
        BY SizesAssumption DEF SizesAssumption
    <1>3. lengths'[n] = size /\ LongerLengths
        BY <1>1, <1>2, NextValueFacts DEF WholeInv, LongerLengths
    <1>4. dir'[TemporaryName(n)] = Bytes(n, 0)
        <2> DEFINE name == TemporaryName(n)
                   c == Bytes(n, 0)
        <2>1. Write(dir, name, c)[name] = c
            <3> HIDE DEF name, c
            <3> QED BY DEF Write
        <2> QED BY <1>1, <2>1
    <1>5. WholePipe'
        <2>1. size - size = 0
            BY <1>2
        <2>2. lengths'[n] - size = 0 /\ stream'.of = n /\ stream'.left = size
            BY <1>1, <1>3, <2>1
        <2> HIDE DEF n
        <2> QED BY <1>4, <2>2 DEF WholePipe
    <1>6. \A m \in Lasting : At(dir', m) = At(dir, m)
        BY QuietEffect DEF WholeInv, Untouched
    <1> QED BY <1>3, <1>5, <1>6, FilesStayWhole DEF WholeInv

LEMMA StreamChunkKeepsWhole ==
    ASSUME WholeInv, TypeInv', StreamChunk
    PROVE  WholeInv'
    <1> DEFINE t == TemporaryName(stream.of)
               left == stream.left
               length == lengths[stream.of]
    <1>1. stream # NoStream
        BY DEF StreamChunk, NoStream
    <1>2. stream \in Pipes(Len(lengths)) /\ lengths \in Seq(Nat) /\ stream.of \in DOMAIN lengths
        BY <1>1 DEF WholeInv, TypeInv, Pipes
    <1>3. stream'.of = stream.of /\ stream'.left = left - 1 /\ left \in Nat /\ lengths' = lengths
        BY <1>2 DEF StreamChunk, Pipes
    <1>4. length \in Nat
        BY <1>2
    <1>5. WholePipe'
        <2>1. CASE There(dir, t)
            <3>1. dir[t] = Bytes(stream.of, length - left)
                BY <1>1, <2>1 DEF WholeInv, WholePipe
            <3>2. dir' = [dir EXCEPT ![t] = [dir[t] EXCEPT !.size = dir[t].size + 1]] /\ t \in DOMAIN dir
                BY <2>1 DEF StreamChunk, There
            <3>3. dir'[t] = [dir[t] EXCEPT !.size = dir[t].size + 1]
                <4> HIDE DEF t
                <4> QED BY <3>2
            <3>4. length - left + 1 = length - (left - 1)
                BY <1>3, <1>4
            <3>5. dir'[t] = Bytes(stream.of, length - (left - 1))
                <4> HIDE DEF t, left, length
                <4> QED BY <3>1, <3>3, <3>4 DEF Bytes
            <3> QED BY <1>3, <3>5 DEF WholePipe
        <2>2. CASE ~There(dir, t)
            BY <1>3, <2>2 DEF StreamChunk, WholePipe
        <2> QED BY <2>1, <2>2
    <1>6. \A m \in Lasting : At(dir', m) = At(dir, m)
        BY QuietEffect DEF WholeInv, Untouched
    <1> QED BY <1>3, <1>5, <1>6, SameLengths, FilesStayWhole DEF WholeInv

LEMMA OpenStoreKeepsWhole ==
    ASSUME WholeInv, TypeInv', OpenStore
    PROVE  WholeInv'
    <1> DEFINE n == Len(lengths)
               d == SaveMetadata(dir)
               a == AdoptFiles(d, Adoption)
    <1>1. d \in Directories(n) /\ Untouched(dir, d) /\ dir' = a.dir /\ stream' = NoStream /\ lengths' = lengths
        BY OpenStoreEffect DEF WholeInv
    <1>2. a \in Adoptions(n, d)
        BY <1>1, OpeningAdopts
    <1>3. dir' \in Directories(n)
        BY <1>1, <1>2 DEF Adoptions
    <1>4. ASSUME NEW m \in Lasting
          PROVE  At(dir', m) = At(dir, m) \/ At(dir', m).kind # "value"
        <2>1. CASE IsMetadataFilename(m)
            BY <1>3, <2>1, AtThere
        <2>2. CASE ~IsMetadataFilename(m)
            <3>1. m \in Names /\ At(d, m) = At(dir, m)
                BY <1>1 DEF Lasting, Untouched
            <3> HIDE DEF a, d, n
            <3>2. At(a.dir, m) = At(d, m)
                BY <1>2, <2>2, <3>1, AdoptionFacts DEF At, There
            <3> QED BY <1>1, <3>1, <3>2
        <2> QED BY <2>1, <2>2
    <1>5. WholePipe'
        BY <1>1 DEF WholePipe
    <1> QED BY <1>1, <1>4, <1>5, SameLengths, FilesStayWhole DEF WholeInv

LEMMA QuietKeepsWhole ==
    ASSUME WholeInv, TypeInv', Read \/ UNCHANGED vars
    PROVE  WholeInv'
    <1>1. TemporariesLeft(dir, dir')
        BY SavedLeavesTemporaries DEF Read, vars, TemporariesLeft
    <1>2. UNCHANGED <<stream, lengths>>
        BY DEF Read, vars
    <1>3. \A m \in Lasting : At(dir', m) = At(dir, m)
        BY QuietEffect DEF WholeInv, Untouched
    <1> QED BY <1>1, <1>2, <1>3, SameLengths, FilesStayWhole, PipeStaysWhole DEF WholeInv

LEMMA WholeInduction == Spec => []WholeInv
    <1>1. Init => WholeFiles /\ WholePipe
        <2> SUFFICES ASSUME Init PROVE WholeFiles /\ WholePipe
            OBVIOUS
        <2>1. DOMAIN << >> = {}
            OBVIOUS
        <2>2. \A m : At(dir, m) = Missing
            BY <2>1 DEF Init, At, There
        <2> QED BY <2>2, NoValues DEF Init, WholeFiles, WholePipe
    <1>2. TypeInv /\ TypeInv' /\ WholeFiles /\ WholePipe /\ [Next]_vars => (WholeFiles /\ WholePipe)'
        <2> SUFFICES ASSUME WholeInv, TypeInv', [Next]_vars
                     PROVE  WholeInv'
            BY DEF WholeInv
        <2> QED BY SetValueKeepsWhole, OutsideWriteKeepsWhole, RemovalKeepsWhole, StreamEndKeepsWhole,
                   StartStreamKeepsWhole, StreamChunkKeepsWhole, OpenStoreKeepsWhole, QuietKeepsWhole DEF Next
    <1>3. TypeInv /\ WholeFiles /\ WholePipe <=> WholeInv
        BY DEF WholeInv
    <1> QED BY <1>1, <1>2, <1>3, TypeInduction, PTL DEF Spec

\* Nobody ever finds a part of a streamed value under the name of a value: a temporary
\* file gets its final name only when all has been written, and nothing else writes to it.
THEOREM ValuesAreWhole == Spec => []WholeValues
    <1>1. WholeInv => WholeValues
        <2> SUFFICES ASSUME WholeInv, NEW name \in DOMAIN dir, dir[name].kind = "value", ~IsTemporary(name)
                     PROVE  dir[name].size = lengths[dir[name].of]
            BY DEF WholeValues
        <2>1. name \in Names /\ ~IsMetadataFilename(name)
            BY ContentFacts DEF WholeInv, TypeInv
        <2>2. name \in Lasting /\ At(dir, name) = dir[name]
            BY <2>1 DEF Lasting, IsMetadataFilename, At, There
        <2> QED BY <2>2 DEF WholeInv, WholeFiles
    <1> QED BY <1>1, WholeInduction, PTL

-------------------------------------------------------------------------------
(* Sidecars say how long their values are *)

\* The sidecar of k leads to a file, and has its length if it has any.
SizeTold(d, k) ==
    Parses(d, k) /\ At(d, FileOf(d, k)) # Missing =>
        LET size == ReadSidecar(d, k).size
        IN  size = None \/ RightSize(size, At(d, FileOf(d, k)).size)

SizesTold(d) == \A k \in Keys : SizeTold(d, k)

LEMMA ReadAt ==
    ASSUME NEW d, NEW k
    PROVE  ReadSidecar(d, k) = At(d, SidecarOf(k)) /\ (Parses(d, k) <=> At(d, SidecarOf(k)).kind = "sidecar")
    BY DEF ReadSidecar, SidecarOf, Parses

\* A record that is left alone, except that its sidecar or its file may go.
LEMMA SizeStaysTold ==
    ASSUME NEW d, NEW e, NEW k, SizeTold(d, k),
           Parses(e, k) => ReadSidecar(e, k) = ReadSidecar(d, k),
           Parses(e, k) => At(e, FileOf(d, k)) \in {At(d, FileOf(d, k)), Missing}
    PROVE  SizeTold(e, k)
    <1> SUFFICES ASSUME Parses(e, k), At(e, FileOf(e, k)) # Missing
                 PROVE  LET size == ReadSidecar(e, k).size
                        IN  size = None \/ RightSize(size, At(e, FileOf(e, k)).size)
        BY DEF SizeTold
    <1>1. ReadSidecar(e, k) = ReadSidecar(d, k)
        OBVIOUS
    <1>2. Parses(d, k) /\ FileOf(e, k) = FileOf(d, k)
        BY <1>1, SameSidecar
    <1>3. At(e, FileOf(d, k)) = At(d, FileOf(d, k))
        BY <1>2
    <1> QED BY <1>1, <1>2, <1>3 DEF SizeTold

LEMMA Kinds ==
    /\ Missing.kind # "sidecar" /\ Garbage.kind # "sidecar"
    /\ \A k, type, size, filename :
          /\ Sidecar(k, type, size, filename).kind = "sidecar"
          /\ Sidecar(k, type, size, filename).key = k
          /\ Sidecar(k, type, size, filename).type = type
          /\ Sidecar(k, type, size, filename).size = size
          /\ Sidecar(k, type, size, filename).filename = filename
    BY DEF Missing, Garbage, Sidecar

LEMMA NothingThere ==
    ASSUME Init
    PROVE  (\A m : At(dir, m) = Missing) /\ (\A k : ~Parses(dir, k))
    <1>1. DOMAIN << >> = {}
        OBVIOUS
    <1>2. \A m : At(dir, m) = Missing
        BY <1>1 DEF Init, At, There
    <1> QED BY <1>2, Kinds DEF Parses, ReadSidecar

\* Nothing is written, except that a sidecar may be spoiled.
LEMMA FewerKeepSizes ==
    ASSUME TypeInv, TypeInv', SizesTold(dir),
           \A m \in Lasting : At(dir', m) \in {At(dir, m), Missing, Garbage}
    PROVE  SizesTold(dir')
    <1> SUFFICES ASSUME NEW k \in Keys PROVE SizeTold(dir', k)
        BY DEF SizesTold
    <1>1. SidecarOf(k) \in Lasting /\ FileOf(dir, k) \in ProperFilenames /\ FileOf(dir, k) \in Lasting
        BY FileFacts, LastingNames DEF TypeInv
    <1>2. Parses(dir', k) => ReadSidecar(dir', k) = ReadSidecar(dir, k)
        BY <1>1, ReadAt, Kinds
    <1>3. At(dir', FileOf(dir, k)) # Garbage
        <2>1. At(dir', FileOf(dir, k)) # Missing => At(dir', FileOf(dir, k)).kind = "value"
            BY <1>1, AtThere, ProperFacts DEF TypeInv
        <2> QED BY <2>1, NoValues DEF Missing, Garbage
    <1>4. SizeTold(dir, k)
        BY DEF SizesTold
    <1> QED BY <1>1, <1>2, <1>3, <1>4, SizeStaysTold

\* The records that a write leaves alone.
LEMMA OthersStored ==
    ASSUME TypeInv, NEW k \in Keys, NEW filename \in {None} \cup ProperFilenames, MayBind(k, filename),
           NEW type, NEW size, NEW c, Stored(dir, dir', k, type, size, filename, c), NEW j \in Keys \ {k}
    PROVE  /\ ReadSidecar(dir', j) = ReadSidecar(dir, j)
           /\ Parses(dir, j) => FileOf(dir, j) # ValuePath(k, filename) /\ EncodeKey(j) # ValuePath(k, filename)
           /\ Parses(dir, j) => At(dir', FileOf(dir, j)) =
                  IF Binds(dir, k) /\ FileOf(dir, j) = FileOf(dir, k) THEN Missing ELSE At(dir, FileOf(dir, j))
    <1>1. SidecarOf(j) \in Lasting /\ SidecarOf(j) # SidecarOf(k) /\ SidecarOf(j) # ValuePath(k, filename)
          /\ SidecarOf(j) # FileOf(dir, k)
        BY LastingNames, ValuePaths, FileFacts DEF TypeInv
    <1>2. ReadSidecar(dir', j) = ReadSidecar(dir, j)
        BY <1>1, ReadAt DEF Stored
    <1>3. Parses(dir, j) => FileOf(dir, j) # ValuePath(k, filename) /\ EncodeKey(j) # ValuePath(k, filename)
        BY DEF MayBind, Taken
    <1>4. FileOf(dir, j) \in Lasting /\ FileOf(dir, j) # SidecarOf(k)
        BY LastingNames, FileFacts DEF TypeInv
    <1> QED BY <1>2, <1>3, <1>4 DEF Stored

LEMMA StoredRecord ==
    ASSUME TypeInv, TypeInv', NEW k \in Keys, NEW filename \in {None} \cup ProperFilenames,
           NEW type, NEW size, NEW c, Stored(dir, dir', k, type, size, filename, c)
    PROVE  /\ ReadSidecar(dir', k) = Sidecar(k, type, size, filename)
           /\ Parses(dir', k)
           /\ FileOf(dir', k) = ValuePath(k, filename)
           /\ At(dir', FileOf(dir', k)) = c
    <1>1. SidecarOf(k) \in Lasting /\ ValuePath(k, filename) \in Lasting /\ SidecarOf(k) # ValuePath(k, filename)
        BY LastingNames, ValuePaths
    <1>2. ReadSidecar(dir', k) = Sidecar(k, type, size, filename) /\ Parses(dir', k)
        BY <1>1, ReadAt, Kinds DEF Stored
    <1>3. FileOf(dir', k) = ValuePath(k, filename)
        BY <1>2, FileFacts, Kinds DEF TypeInv
    <1>4. At(dir', ValuePath(k, filename)) = c
        BY <1>1 DEF Stored
    <1> QED BY <1>2, <1>3, <1>4

LEMMA StoringTellsSizes ==
    ASSUME TypeInv, TypeInv', SizesTold(dir), NEW k \in Keys, NEW filename \in {None} \cup ProperFilenames,
           MayBind(k, filename), NEW type, NEW size, NEW c,
           Stored(dir, dir', k, type, size, filename, c), size = None \/ RightSize(size, c.size)
    PROVE  SizesTold(dir')
    <1>1. SizeTold(dir', k)
        BY StoredRecord, Kinds DEF SizeTold
    <1>2. ASSUME NEW j \in Keys \ {k} PROVE SizeTold(dir', j)
        <2>1. ReadSidecar(dir', j) = ReadSidecar(dir, j)
            BY OthersStored
        <2>2. Parses(dir', j) => Parses(dir, j)
            BY <2>1, SameSidecar
        <2>3. Parses(dir', j) => At(dir', FileOf(dir, j)) \in {At(dir, FileOf(dir, j)), Missing}
            BY <2>2, OthersStored
        <2>4. SizeTold(dir, j)
            BY DEF SizesTold
        <2> QED BY <2>1, <2>3, <2>4, SizeStaysTold
    <1> QED BY <1>1, <1>2 DEF SizesTold

\* What an adoption writes.
LEMMA AdoptedView ==
    ASSUME NEW n, NEW d, NEW a \in Adoptions(n, d), NEW k \in Seq(DOMAIN Escape),
           NEW f \in ProperFilenames, f \in DOMAIN a.dir, NEW type \in Types
    PROVE  LET sidecar == Sidecar(k, type, a.dir[f].size, IF f = EncodeKey(k) THEN None ELSE f)
               b == Adopted(a, k, f, type)
           IN  /\ \A m : At(b.dir, m) = IF m = SidecarOf(k) THEN sidecar ELSE At(a.dir, m)
               /\ ReadSidecar(b.dir, k) = sidecar
               /\ Parses(b.dir, k) /\ FileOf(b.dir, k) = f
               /\ At(b.dir, f) = At(a.dir, f) /\ At(a.dir, f) = a.dir[f] /\ a.dir[f].size \in Nat
               /\ \A j \in Seq(DOMAIN Escape) : j # k => ReadSidecar(b.dir, j) = ReadSidecar(a.dir, j)
               /\ \A g \in ProperFilenames : At(b.dir, g) = At(a.dir, g)
    <1> DEFINE filename == IF f = EncodeKey(k) THEN None ELSE f
               sidecar == Sidecar(k, type, a.dir[f].size, filename)
               b == Adopted(a, k, f, type)
    <1>1. b \in Adoptions(n, d) /\ b.dir = Write(a.dir, SidecarOf(k), sidecar) /\ a.dir[f] \in ValuesUpTo(n)
        BY AdoptedFacts DEF SidecarOf
    <1>2. \A m : At(b.dir, m) = IF m = SidecarOf(k) THEN sidecar ELSE At(a.dir, m)
        <2> HIDE DEF sidecar, b
        <2> QED BY <1>1, AtWrite
    <1>3. b.dir \in Directories(n)
        BY <1>1 DEF Adoptions
    <1> HIDE DEF b
    <1>4. ReadSidecar(b.dir, k) = sidecar /\ Parses(b.dir, k)
        <2>1. sidecar.kind = "sidecar"
            BY Kinds
        <2> HIDE DEF sidecar
        <2> QED BY <1>2, <2>1, ReadAt
    <1>5. FileOf(b.dir, k) = f
        <2>1. Binds(b.dir, k)
            BY <1>3, <1>4, SidecarFacts
        <2>2. ReadSidecar(b.dir, k).filename = filename
            BY <1>4, Kinds
        <2>3. f # None
            BY ProperFacts
        <2> QED BY <2>1, <2>2, <2>3 DEF FileOf, ValuePath
    <1>6. \A g \in ProperFilenames : g # SidecarOf(k)
        BY EncodedKey, SidecarNames, ProperFacts DEF SidecarOf
    <1>7. \A j \in Seq(DOMAIN Escape) : j # k => SidecarOf(j) # SidecarOf(k)
        BY KeySidecars DEF SidecarOf
    <1>8. a.dir[f].size \in Nat /\ At(a.dir, f) = a.dir[f]
        BY <1>1 DEF ValuesUpTo, At, There
    <1> QED BY <1>2, <1>4, <1>5, <1>6, <1>7, <1>8, ReadAt DEF b

LEMMA AdoptionTellsSizes ==
    ASSUME NEW n, NEW d, NEW a \in Adoptions(n, d), SizesTold(a.dir), NEW k \in Seq(DOMAIN Escape),
           NEW f \in ProperFilenames, f \in DOMAIN a.dir, NEW type \in Types
    PROVE  SizesTold(Adopted(a, k, f, type).dir)
    <1> DEFINE b == Adopted(a, k, f, type)
               sidecar == Sidecar(k, type, a.dir[f].size, IF f = EncodeKey(k) THEN None ELSE f)
    <1>1. /\ ReadSidecar(b.dir, k) = sidecar
          /\ FileOf(b.dir, k) = f
          /\ At(b.dir, f) = a.dir[f] /\ sidecar.size = a.dir[f].size
          /\ \A j \in Seq(DOMAIN Escape) : j # k => ReadSidecar(b.dir, j) = ReadSidecar(a.dir, j)
          /\ \A g \in ProperFilenames : At(b.dir, g) = At(a.dir, g)
        BY AdoptedView, Kinds
    <1>2. a.dir \in Directories(n)
        BY DEF Adoptions
    <1> HIDE DEF b, sidecar
    <1>3. SizeTold(b.dir, k)
        BY <1>1 DEF SizeTold, RightSize
    <1>4. ASSUME NEW j \in Keys, j # k PROVE SizeTold(b.dir, j)
        <2>1. ReadSidecar(b.dir, j) = ReadSidecar(a.dir, j)
            BY <1>1, <1>4, KeyFacts
        <2>2. At(b.dir, FileOf(a.dir, j)) = At(a.dir, FileOf(a.dir, j))
            BY <1>1, <1>2, FileFacts
        <2>3. SizeTold(a.dir, j)
            BY DEF SizesTold
        <2> QED BY <2>1, <2>2, <2>3, SizeStaysTold
    <1> QED BY <1>3, <1>4 DEF SizesTold, b

LEMMA OpeningTellsSizes ==
    ASSUME NEW n, NEW d \in Directories(n), SizesTold(d)
    PROVE  SizesTold(AdoptFiles(d, Adoption).dir)
    <1> DEFINE S == {a \in Adoptions(n, d) : SizesTold(a.dir)}
    <1>1. [dir |-> d, owned |-> OwnedFilenames(d, Adoption), ok |-> TRUE] \in S
        BY AdoptionBegins
    <1>2. \A a \in S : Failed(a) \in S
        BY FailedFacts
    <1>3. ASSUME NEW a \in S, NEW k \in Seq(DOMAIN Escape), NEW f \in ProperFilenames, f \in DOMAIN a.dir,
                 NEW type \in Types
          PROVE  Adopted(a, k, f, type) \in S
        BY <1>3, AdoptedFacts, AdoptionTellsSizes
    <1>4. ASSUME NEW a \in S, NEW i \in DOMAIN Adoption, Adoption[i].kind = "key",
                 NEW j \in DOMAIN Adoption[i].files,
                 AdoptableFor(a, Adoption[i].key, Adoption[i].files[j].filename)
          PROVE  Adopted(a, Adoption[i].key, Adoption[i].files[j].filename, Adoption[i].files[j].type) \in S
        BY <1>3, <1>4, KeyAdopts
    <1>5. ASSUME NEW a \in S, NEW i \in DOMAIN Adoption, NEW name \in DOMAIN d, Adoption[i].kind = "sweep",
                 MaySweep(a, DOMAIN d, name), RuleFor(Adoption[i].rules, name) # 0
          PROVE  Adopted(a, name, name, Adoption[i].rules[RuleFor(Adoption[i].rules, name)].type) \in S
        BY <1>3, <1>5, SweepAdopts
    <1>6. AdoptFiles(d, Adoption) \in S
        <2> HIDE DEF S
        <2> QED BY <1>1, <1>2, <1>4, <1>5, OpeningKeeps
    <1> QED BY <1>6

LEMMA UntouchedKeepsSizes ==
    ASSUME NEW d, NEW e, NEW n, d \in Directories(n), Untouched(d, e), SizesTold(d)
    PROVE  SizesTold(e)
    <1> SUFFICES ASSUME NEW k \in Keys PROVE SizeTold(e, k)
        BY DEF SizesTold
    <1>1. ReadSidecar(e, k) = ReadSidecar(d, k)
        BY LastingNames, ReadAt DEF Untouched
    <1>2. At(e, FileOf(d, k)) = At(d, FileOf(d, k))
        BY FileFacts, LastingNames DEF Untouched
    <1>3. SizeTold(d, k)
        BY DEF SizesTold
    <1> QED BY <1>1, <1>2, <1>3, SizeStaysTold

LEMMA StoreStepsTellSizes ==
    ASSUME WholeInv, TypeInv', SizesTold(dir), SetValue \/ ForeignWrite \/ Finalize
    PROVE  SizesTold(dir')
    <1>1. CASE SetValue
        <2>1. PICK k \in Keys, filename \in {None} \cup ProperFilenames, size \in Nat :
                  /\ MayBind(k, filename)
                  /\ Stored(dir, dir', k, Plain, size, filename, Bytes(Len(lengths'), size))
            BY <1>1, SetValueEffect DEF WholeInv
        <2>2. RightSize(size, Bytes(Len(lengths'), size).size)
            BY DEF Bytes, RightSize
        <2> QED BY <2>1, <2>2, StoringTellsSizes DEF WholeInv
    <1>2. CASE ForeignWrite
        <2>1. PICK k \in Keys :
                  MayBind(k, None) /\ Stored(dir, dir', k, Plain, None, None, Bytes(Len(lengths'), 1))
            BY <1>2, ForeignWriteEffect DEF WholeInv
        <2>2. None \in {None} \cup ProperFilenames
            OBVIOUS
        <2> QED BY <2>1, <2>2, StoringTellsSizes DEF WholeInv
    <1>3. CASE Finalize
        <2> DEFINE t == TemporaryName(stream.of)
                   length == lengths[stream.of]
        <2>1. /\ stream \in Pipes(Len(lengths)) /\ stream.left = 0 /\ There(dir, t)
              /\ stream.filename \in {None} \cup ProperFilenames /\ stream.key \in Keys
              /\ MayBind(stream.key, stream.filename)
              /\ Stored(dir, dir', stream.key, Octets, length % SizeLimit, stream.filename, dir[t])
            BY <1>3, FinalizeEffect DEF WholeInv, Pipes
        <2>2. stream # NoStream /\ length \in Nat /\ SizeLimit \in Nat \ {0}
            BY <1>3, <2>1, SizesAssumption DEF SizesAssumption, Finalize, Streamed, NoStream, WholeInv, TypeInv, Pipes
        <2>3. dir[t].size = length
            BY <2>1, <2>2 DEF WholeInv, WholePipe, Bytes
        <2>4. RightSize(length % SizeLimit, dir[t].size)
            <3>1. length < SizeLimit => length % SizeLimit = length
                BY <2>2
            <3> QED BY <2>2, <2>3, <3>1 DEF RightSize
        <2> DEFINE c == dir[t]
                   k == stream.key
                   filename == stream.filename
                   size == length % SizeLimit
        <2>5. /\ k \in Keys /\ filename \in {None} \cup ProperFilenames /\ MayBind(k, filename)
              /\ Stored(dir, dir', k, Octets, size, filename, c) /\ RightSize(size, c.size)
            BY <2>1, <2>4
        <2> HIDE DEF c, k, filename, size
        <2> QED BY <2>5, StoringTellsSizes DEF WholeInv
    <1> QED BY <1>1, <1>2, <1>3

LEMMA RemovalTellsSizes ==
    ASSUME TypeInv, TypeInv', SizesTold(dir), Delete \/ Purge \/ DropStorage \/ FinalizeFails \/ Spoil
    PROVE  SizesTold(dir')
    <1>1. \A m \in Lasting : At(dir', m) \in {At(dir, m), Missing, Garbage}
        BY DeleteEffect, PurgeEffect, DropStorageEffect, FinalizeFailsEffect, SpoilEffect DEF Removed
    <1> QED BY <1>1, FewerKeepSizes

LEMMA OutsideWriteTellsSizes ==
    ASSUME TypeInv, SizesTold(dir), OutsideWrite
    PROVE  SizesTold(dir')
    <1>1. PICK name \in Outside :
              /\ name \in ProperFilenames
              /\ \A k \in Keys : Parses(dir, k) => name \notin {FileOf(dir, k), EncodeKey(k), k}
              /\ \A m \in Lasting : At(dir', m) = IF m = name THEN Bytes(Len(lengths'), 1) ELSE At(dir, m)
        BY OutsideWriteEffect
    <1> SUFFICES ASSUME NEW k \in Keys PROVE SizeTold(dir', k)
        BY DEF SizesTold
    <1>2. ReadSidecar(dir', k) = ReadSidecar(dir, k)
        BY <1>1, LastingNames, ReadAt
    <1>3. Parses(dir, k) => At(dir', FileOf(dir, k)) = At(dir, FileOf(dir, k))
        BY <1>1, FileFacts, LastingNames DEF TypeInv
    <1>4. Parses(dir', k) <=> Parses(dir, k)
        BY <1>2, SameSidecar
    <1>5. SizeTold(dir, k)
        BY DEF SizesTold
    <1> QED BY <1>2, <1>3, <1>4, <1>5, SizeStaysTold

LEMMA RestTellsSizes ==
    ASSUME TypeInv, SizesTold(dir),
           OpenStore \/ Read \/ StartStream \/ StreamChunk \/ StreamFails \/ FinalizeRefused \/ Exit \/ UNCHANGED vars
    PROVE  SizesTold(dir')
    <1>1. CASE OpenStore
        <2> DEFINE d == SaveMetadata(dir)
        <2>1. d \in Directories(Len(lengths)) /\ Untouched(dir, d) /\ dir' = AdoptFiles(d, Adoption).dir
            BY <1>1, OpenStoreEffect
        <2>2. SizesTold(d)
            <3> HIDE DEF d
            <3> QED BY <2>1, UntouchedKeepsSizes DEF TypeInv
        <2> HIDE DEF d
        <2> QED BY <2>1, <2>2, OpeningTellsSizes
    <1>2. CASE Read \/ StartStream \/ StreamChunk \/ StreamFails \/ FinalizeRefused \/ Exit \/ UNCHANGED vars
        BY <1>2, QuietEffect, UntouchedKeepsSizes DEF TypeInv
    <1> QED BY <1>1, <1>2

LEMMA SizesInduction == Spec => [](SizesTold(dir))
    <1>1. Init => SizesTold(dir)
        BY NothingThere DEF SizesTold, SizeTold
    <1>2. WholeInv /\ TypeInv /\ TypeInv' /\ SizesTold(dir) /\ [Next]_vars => SizesTold(dir)'
        <2> SUFFICES ASSUME WholeInv, TypeInv, TypeInv', SizesTold(dir), [Next]_vars
                     PROVE  SizesTold(dir')
            OBVIOUS
        <2> QED BY StoreStepsTellSizes, RemovalTellsSizes, OutsideWriteTellsSizes, RestTellsSizes DEF Next
    <1> QED BY <1>1, <1>2, TypeInduction, WholeInduction, PTL DEF Spec

-------------------------------------------------------------------------------
(* What a read finds *)

Records == [path : Seq(DOMAIN Rank), key : Seq(DOMAIN Rank), type : Types, size : Nat]

LEMMA RecordsAreThere ==
    ASSUME NEW hit \in Records
    PROVE  hit # None /\ hit # Error
    BY RecordsAssumption DEF RecordsAssumption, Records

\* Keys whose own file is no metadata file: those of the store, and those with an extension.
ReadableKeys == {k \in Seq(DOMAIN Escape) : ~IsMetadataFilename(EncodeKey(k))}

LEMMA WhatIsRead ==
    ASSUME NEW n, NEW d \in Directories(n), NEW k \in ReadableKeys, NEW requireMetadata \in BOOLEAN
    PROVE  LET hit == GetValue(d, k, requireMetadata) IN
           /\ hit # Error =>
                 /\ RecordExists(d, k, requireMetadata) <=> hit # None
                 /\ hit # None => hit \in Records /\ hit.path = FileOf(d, k) /\ hit.key = k /\ There(d, hit.path)
           /\ Parses(d, k) => hit # Error
           /\ Parses(d, k) /\ hit # None =>
                 hit.size = Backfilled(d, ReadSidecar(d, k).size, FileOf(d, k))
           /\ requireMetadata /\ hit \notin {None, Error} => Parses(d, k)
    <1> DEFINE path == FileOf(d, k)
               sidecar == ReadSidecar(d, k)
               hit == GetValue(d, k, requireMetadata)
    <1>1. k \in Seq(DOMAIN Escape) /\ EncodeKey(k) \in Names /\ ~IsMetadataFilename(EncodeKey(k)) /\ k \in Names
        BY EncodedKey, KeysAreNames DEF ReadableKeys
    <1>2. Binds(d, k) <=> Parses(d, k)
        BY <1>1, SidecarFacts DEF Binds
    <1>3. Parses(d, k) => sidecar \in Sidecars /\ sidecar.key = k /\ sidecar.filename \in {None} \cup ProperFilenames
        BY <1>1, SidecarFacts
    <1>4. path \in Names /\ ~IsMetadataFilename(path)
        BY <1>1, <1>2, <1>3, ProperFacts DEF FileOf, ValuePath
    <1>5. There(d, path) => d[path].size \in Nat
        <2> HIDE DEF path
        <2>1. There(d, path) => d[path] \in ValuesUpTo(n)
            BY <1>4, ContentFacts DEF There
        <2> QED BY <2>1 DEF ValuesUpTo
    <1>6. CASE Parses(d, k)
        <2>1. CASE ~There(d, path)
            <3>1. hit = None
                BY <1>2, <1>6, <2>1 DEF GetValue
            <3>2. ~RecordExists(d, k, requireMetadata)
                BY <1>6, <2>1 DEF RecordExists
            <3> QED BY <3>1, <3>2, NothingAssumption DEF NothingAssumption
        <2>2. CASE There(d, path)
            <3> DEFINE size == Backfilled(d, sidecar.size, path)
            <3>1. hit = Found(path, sidecar.key, sidecar.type, size)
                BY <1>2, <1>6, <2>2 DEF GetValue
            <3>2. size \in Nat
                BY <1>3, <1>5, <1>6, <2>2 DEF Backfilled, Sidecars
            <3>3. sidecar.type \in Types /\ sidecar.key = k
                BY <1>3, <1>6 DEF Sidecars
            <3>4. hit.size = size /\ hit.path = path /\ hit.key = k
                BY <3>1, <3>3 DEF Found
            <3> HIDE DEF size, path, sidecar
            <3>5. Found(path, sidecar.key, sidecar.type, size) \in Records
                BY <1>1, <1>4, <3>2, <3>3 DEF Found, Records, Names
            <3>6. RecordExists(d, k, requireMetadata)
                BY <1>2, <1>6, <2>2 DEF RecordExists, path
            <3> HIDE DEF hit
            <3> QED BY <1>6, <2>2, <3>1, <3>4, <3>5, <3>6, RecordsAreThere DEF size, path, sidecar, hit
        <2> QED BY <2>1, <2>2
    <1>7. CASE ~Parses(d, k)
        <2>1. path = EncodeKey(k)
            BY <1>2, <1>7 DEF FileOf
        <2>2. RecordExists(d, k, requireMetadata) <=> ~requireMetadata /\ There(d, path)
            BY <1>7, <2>1 DEF RecordExists
        <2>3. CASE sidecar # Missing
            BY <1>7, <2>3, NothingAssumption DEF GetValue, NothingAssumption
        <2>4. CASE sidecar = Missing /\ (requireMetadata \/ ~There(d, path))
            <3>1. hit = None
                BY <1>7, <2>4 DEF GetValue
            <3> QED BY <1>7, <2>2, <2>4, <3>1
        <2>5. CASE sidecar = Missing /\ ~requireMetadata /\ There(d, path)
            <3>1. hit = Found(path, k, Octets, d[path].size)
                BY <1>7, <2>5 DEF GetValue
            <3>2. hit.path = path /\ hit.key = k
                BY <3>1 DEF Found
            <3> DEFINE size == d[path].size
            <3>3. size \in Nat /\ Octets \in Types
                BY <1>5, <2>5, TypeNames
            <3> HIDE DEF size, path
            <3>4. Found(path, k, Octets, size) \in Records
                BY <1>1, <1>4, <3>3 DEF Found, Records, Names
            <3> HIDE DEF hit
            <3> QED BY <1>7, <2>2, <2>5, <3>1, <3>2, <3>4, RecordsAreThere DEF size, path, hit
        <2> QED BY <2>3, <2>4, <2>5
    <1> QED BY <1>6, <1>7

LEMMA KeysAreReadable == Keys \subseteq ReadableKeys
    BY KeyFacts, ProperFacts DEF ReadableKeys

\* A record is read with the length of its value: every write leaves a sidecar with the
\* length of what it writes and no other write touches the file, an adoption asks the file
\* system, and a read does so if the sidecar says nothing.
THEOREM SizesCorrect == Spec => []SizesAgree
    <1>1. TypeInv /\ SizesTold(dir) => SizesAgree
        <2> SUFFICES ASSUME TypeInv, SizesTold(dir), NEW k \in Keys, GetValue(dir, k, TRUE) \notin {None, Error}
                     PROVE  LET hit == GetValue(dir, k, TRUE)
                                length == dir[hit.path].size
                            IN  hit.size = length \/ (length >= SizeLimit /\ hit.size = length % SizeLimit)
            BY DEF SizesAgree
        <2> DEFINE hit == GetValue(dir, k, TRUE)
                   path == FileOf(dir, k)
                   size == ReadSidecar(dir, k).size
        <2>1. k \in ReadableKeys /\ TRUE \in BOOLEAN
            BY KeysAreReadable
        <2>2. Parses(dir, k) /\ hit.path = path /\ There(dir, path) /\ hit.size = Backfilled(dir, size, path)
            BY <2>1, WhatIsRead DEF TypeInv
        <2>3. At(dir, path) = dir[path] /\ At(dir, path) # Missing
            BY <2>2, AtThere DEF TypeInv
        <2>4. size = None \/ RightSize(size, dir[path].size)
            BY <2>2, <2>3 DEF SizesTold, SizeTold
        <2>5. hit.size = IF size = None THEN dir[path].size ELSE size
            BY <2>2 DEF Backfilled
        <2> HIDE DEF hit, path, size
        <2> QED BY <2>2, <2>4, <2>5 DEF RightSize, hit
    <1> QED BY <1>1, TypeInduction, SizesInduction, PTL

LEMMA ExtendedKeys ==
    ASSUME NEW k \in Keys, NEW e \in Extensions
    PROVE  k \o e.extension \in ReadableKeys
    <1> DEFINE x == k \o e.extension
    <1>1. PICK letter \in {".c", ".j"} : e.extension = <<letter>>
        <2>1. CASE e = [extension |-> <<".c">>, type |-> ""]
            <3>1. e.extension = <<".c">>
                BY <2>1
            <3> QED BY <3>1
        <2>2. CASE e = [extension |-> <<".j">>, type |-> "application/json"]
            <3>1. e.extension = <<".j">>
                BY <2>2
            <3> QED BY <3>1
        <2> QED BY <2>1, <2>2 DEF Extensions
    <1>2. letter \in DOMAIN Escape /\ Escape[letter] = letter /\ letter # Suffix
        BY KeysAssumption DEF KeysAssumption, Suffix
    <1>3. k \in Seq(DOMAIN Escape) /\ Len(k) \in Nat /\ EncodeKey(k) # << >> /\ Len(EncodeKey(k)) = Len(k)
        BY KeyFacts, ProperFacts, EncodedKey, LenProperties
    <1>4. Len(k) # 0
        BY <1>3, EncodedKey, EmptySeq DEF Names
    <1>5. x \in Seq(DOMAIN Escape) /\ Len(x) = Len(k) + 1 /\ x[Len(x)] = letter
        <2>1. x = Append(k, letter)
            BY <1>1, <1>2, <1>3
        <2> QED BY <1>2, <1>3, <2>1
    <1> HIDE DEF x
    <1>6. EncodeKey(x) \in Names /\ Len(EncodeKey(x)) = Len(k) + 1 /\ EncodeKey(x)[Len(k) + 1] = letter
        BY <1>2, <1>3, <1>5, EncodedKey
    <1>7. EncodeKey(x) # StoreFile
        BY <1>3, <1>4, <1>6 DEF StoreFile
    <1>8. Last(EncodeKey(x)) # Suffix
        BY <1>2, <1>6 DEF Last
    <1> QED BY <1>5, <1>7, <1>8 DEF ReadableKeys, IsMetadataFilename, x

LEMMA FallbackFacts ==
    ASSUME NEW fallbacks \in Fallbacks
    PROVE  /\ DOMAIN fallbacks \subseteq 1 .. 2
           /\ \A i \in DOMAIN fallbacks : fallbacks[i] \in Extensions
    <1>1. CASE fallbacks = << >>
        BY <1>1
    <1>2. CASE fallbacks \in Extensions \X Extensions
        BY <1>2
    <1> QED BY <1>1, <1>2 DEF Fallbacks

LEMMA MinFacts ==
    ASSUME NEW T \in SUBSET (1 .. 2), T # {}
    PROVE  Min(T) \in T /\ \A x \in T : Min(T) <= x
    <1>1. 2 \in Nat /\ T \in SUBSET (0 .. 2)
        OBVIOUS
    <1>2. \E x \in T : \A y \in T : x <= y
        BY <1>1, LeastNumber
    <1> QED BY <1>2 DEF Min

LEMMA FirstHit ==
    ASSUME NEW S \in SUBSET (1 .. 2), NEW T \in SUBSET S, S # {}, Min(S) \in T
    PROVE  Min(T) = Min(S)
    <1>1. Min(S) \in S /\ \A x \in S : Min(S) <= x
        BY MinFacts
    <1>2. Min(T) \in T /\ \A x \in T : Min(T) <= x
        <2>1. T # {} /\ T \in SUBSET (1 .. 2)
            OBVIOUS
        <2> QED BY <2>1, MinFacts
    <1>3. Min(S) \in 1 .. 2 /\ Min(T) \in 1 .. 2
        BY <1>1, <1>2
    <1> HIDE DEF Min
    <1> QED BY <1>1, <1>2, <1>3

LEMMA InPlaceFacts ==
    ASSUME NEW hit \in Records, NEW k \in Seq(DOMAIN Rank), NEW e \in Extensions
    PROVE  /\ InPlaceOf(k, e, hit) \in Records
           /\ InPlaceOf(k, e, hit).key = k
           /\ InPlaceOf(k, e, hit).path = hit.path
    <1> DEFINE type == IF e.type = "" THEN hit.type ELSE e.type
    <1>1. hit # Error
        BY RecordsAreThere
    <1>2. type \in Types
        BY DEF Types, Records
    <1>3. InPlaceOf(k, e, hit) = [hit EXCEPT !.key = k, !.type = type]
        BY <1>1 DEF InPlaceOf
    <1> HIDE DEF type
    <1> QED BY <1>2, <1>3 DEF Records

LEMMA Resolves ==
    ASSUME NEW n, NEW d \in Directories(n), NEW k \in Keys, NEW fallbacks \in Fallbacks,
           ResolveValue(d, k, fallbacks) # Error
    PROVE  LET value == ResolveValue(d, k, fallbacks)
               existing == ResolveExistingKey(d, k, fallbacks)
           IN  /\ value = None <=> existing = None
               /\ value # None => value.key = k /\ value.path = PublicFile(d, existing)
               /\ RecordExists(d, k, TRUE) => existing = k
    <1> DEFINE Extended(i) == k \o fallbacks[i].extension
               Probe(i) == GetValue(d, Extended(i), FALSE)
               tracked == GetValue(d, k, TRUE)
               found == {i \in DOMAIN fallbacks : Probe(i) # None}
               there == {i \in DOMAIN fallbacks : RecordExists(d, Extended(i), FALSE)}
               value == ResolveValue(d, k, fallbacks)
               existing == ResolveExistingKey(d, k, fallbacks)
               first == Min(found)
    <1>1. k \in ReadableKeys /\ TRUE \in BOOLEAN /\ FALSE \in BOOLEAN
        BY KeysAreReadable
    <1>2. k \in Seq(DOMAIN Rank) /\ k # None
        BY KeyFacts, KeysAreNames, NothingAssumption DEF Names, NothingAssumption
    <1>3. value = IF tracked # None THEN tracked
                  ELSE IF found = {} THEN None
                  ELSE InPlaceOf(k, fallbacks[first], Probe(first))
        BY DEF ResolveValue
    <1>4. existing = IF RecordExists(d, k, TRUE) THEN k
                     ELSE IF there = {} THEN None
                     ELSE Extended(Min(there))
        BY DEF ResolveExistingKey
    <1>5. ASSUME NEW i \in DOMAIN fallbacks
          PROVE  /\ fallbacks[i] \in Extensions /\ i \in 1 .. 2
                 /\ Extended(i) \in ReadableKeys
        BY FallbackFacts, ExtendedKeys
    <1>6. CASE tracked # None
        <2>1. tracked # Error
            BY <1>3, <1>6
        <2>2. RecordExists(d, k, TRUE) /\ tracked.path = FileOf(d, k) /\ tracked.key = k
            <3> HIDE DEF tracked
            <3> QED BY <1>1, <1>6, <2>1, WhatIsRead DEF tracked
        <2> HIDE DEF tracked, existing, value
        <2> QED BY <1>2, <1>3, <1>4, <1>6, <2>2 DEF PublicFile, existing, value
    <1>7. CASE tracked = None
        <2>1. ~RecordExists(d, k, TRUE)
            BY <1>1, <1>7, WhatIsRead, NothingAssumption DEF NothingAssumption
        <2>2. ASSUME NEW i \in DOMAIN fallbacks
              PROVE  /\ Probe(i) # Error => (RecordExists(d, Extended(i), FALSE) <=> Probe(i) # None)
                     /\ Probe(i) \notin {None, Error} =>
                            Probe(i) \in Records /\ Probe(i).path = FileOf(d, Extended(i))
            <3>1. Extended(i) \in ReadableKeys
                BY <1>5
            <3> HIDE DEF Extended
            <3> QED BY <1>1, <3>1, WhatIsRead
        <2>3. there \subseteq found
            BY <2>2, NothingAssumption DEF NothingAssumption
        <2> HIDE DEF Probe, tracked, existing, value
        <2>4. CASE found = {}
            BY <1>3, <1>4, <1>7, <2>1, <2>3, <2>4 DEF existing, value
        <2>5. CASE found # {}
            <3>1. found \in SUBSET (1 .. 2)
                BY FallbackFacts
            <3>2. first \in found
                <4> HIDE DEF found
                <4> QED BY <2>5, <3>1, MinFacts
            <3> HIDE DEF first
            <3>3. first \in DOMAIN fallbacks /\ Probe(first) # None
                BY <3>2
            <3>4. value = InPlaceOf(k, fallbacks[first], Probe(first))
                BY <1>3, <1>7, <2>5
            <3>5. Probe(first) # Error
                BY <3>4 DEF InPlaceOf, value
            <3>6. Probe(first) \in Records /\ Probe(first).path = FileOf(d, Extended(first)) /\ first \in there
                BY <2>2, <3>3, <3>5
            <3>7. Min(there) = first
                <4> HIDE DEF there, found
                <4> QED BY <2>3, <2>5, <3>1, <3>6, FirstHit DEF first
            <3>8. existing = Extended(first)
                BY <1>4, <2>1, <3>6, <3>7
            <3>9. value \in Records /\ value.key = k /\ value.path = FileOf(d, Extended(first))
                BY <1>2, <1>5, <3>3, <3>4, <3>6, InPlaceFacts
            <3>10. Extended(first) # None
                <4>1. Extended(first) \in Seq(DOMAIN Escape)
                    BY <1>5, <3>3 DEF ReadableKeys
                <4> HIDE DEF Extended
                <4> QED BY <4>1, KeysAreNames, NothingAssumption DEF Names, NothingAssumption
            <3> HIDE DEF Extended
            <3> QED BY <2>1, <3>8, <3>9, <3>10, RecordsAreThere DEF PublicFile, value, existing
        <2> QED BY <2>4, <2>5
    <1> QED BY <1>6, <1>7

\* The three ways to find a record lead to the same file: resolve_value, the key of
\* resolve_existing_key turned into a URL, and for a tracked record record_exists.
THEOREM ResolutionsAgree == Spec => []ResolutionAgrees
    <1>1. TypeInv => ResolutionAgrees
        BY Resolves DEF ResolutionAgrees, TypeInv
    <1> QED BY <1>1, TypeInduction, PTL

-------------------------------------------------------------------------------
(* Which file belongs to which key *)

DeclaredForOther(f, k) ==
    \E i \in DOMAIN Adoption : Adoption[i].kind = "key" /\ Adoption[i].key # k /\ f \in Declares(Adoption[i])

BoundTo(d, f, k) == Parses(d, k) /\ FileOf(d, k) = f

\* A sidecar is that of a key of the store and names what somebody has chosen or declared.
KnownRecords(d) ==
    \A m \in Lasting : At(d, m).kind = "sidecar" =>
        At(d, m).key \in Keys /\ At(d, m).filename \in {None} \cup Chosen \cup DeclaredFiles(Adoption)

\* No file belongs to two keys, and none to a key when it is declared for another.
FilesOfOne(d) == \A j, k \in Keys : Parses(d, j) /\ BoundTo(d, FileOf(d, j), k) => j = k
OwnDeclared(d) == \A k \in Keys : Parses(d, k) => ~DeclaredForOther(FileOf(d, k), k)

\* A key that is bound to another file has no file of its own, or is bound to a declared one.
NoStrays(d) ==
    \A k \in Keys : Parses(d, k) /\ FileOf(d, k) # EncodeKey(k) =>
        FileOf(d, k) \in DeclaredFiles(Adoption) \/ At(d, EncodeKey(k)) = Missing

\* A file that belongs to no key has a name that somebody has chosen or declared.
LooseChosen(d) ==
    \A f \in ProperFilenames : At(d, f) # Missing =>
        f \in Chosen \cup DeclaredFiles(Adoption) \/ \E k \in Keys : BoundTo(d, f, k)

Belongs(d) == KnownRecords(d) /\ FilesOfOne(d) /\ OwnDeclared(d) /\ NoStrays(d) /\ LooseChosen(d)

LEMMA DeclaredNames ==
    /\ \A i \in DOMAIN Adoption : Adoption[i].kind = "key" =>
          Declares(Adoption[i]) \subseteq DeclaredFiles(Adoption)
          /\ \A j \in DOMAIN Adoption[i].files : Adoption[i].files[j].filename \in Declares(Adoption[i])
    /\ \A f \in DeclaredFiles(Adoption) :
          \E i \in DOMAIN Adoption : Adoption[i].kind = "key" /\ f \in Declares(Adoption[i])
    BY DEF DeclaredFiles, Declares

\* The names that a lasting record is about.
LEMMA NamesOf ==
    ASSUME NEW n, NEW d \in Directories(n), NEW k \in Keys
    PROVE  /\ SidecarOf(k) \in Lasting
           /\ FileOf(d, k) \in ProperFilenames /\ FileOf(d, k) \in Lasting
           /\ EncodeKey(k) \in ProperFilenames /\ EncodeKey(k) \in Lasting
           /\ \A j \in Keys : SidecarOf(j) # FileOf(d, k) /\ SidecarOf(j) # EncodeKey(k)
    BY FileFacts, KeyFacts, LastingNames

\* Two directories with the same sidecars of k agree on where k leads.
LEMMA SameRecord ==
    ASSUME NEW d, NEW e, NEW k, At(e, SidecarOf(k)) = At(d, SidecarOf(k))
    PROVE  /\ ReadSidecar(e, k) = ReadSidecar(d, k)
           /\ Parses(e, k) <=> Parses(d, k)
           /\ Binds(e, k) <=> Binds(d, k)
           /\ FileOf(e, k) = FileOf(d, k)
           /\ \A f : BoundTo(e, f, k) <=> BoundTo(d, f, k)
    <1>1. ReadSidecar(e, k) = ReadSidecar(d, k)
        BY ReadAt
    <1> QED BY <1>1, SameSidecar DEF BoundTo

LEMMA UntouchedBelongs ==
    ASSUME NEW n, NEW d \in Directories(n), NEW e, Untouched(d, e), Belongs(d)
    PROVE  Belongs(e)
    <1>1. \A m \in Lasting : At(e, m) = At(d, m)
        BY DEF Untouched
    <1>2. ASSUME NEW k \in Keys
          PROVE  /\ Parses(e, k) <=> Parses(d, k)
                 /\ FileOf(e, k) = FileOf(d, k)
                 /\ \A f : BoundTo(e, f, k) <=> BoundTo(d, f, k)
                 /\ At(e, EncodeKey(k)) = At(d, EncodeKey(k))
        BY <1>1, NamesOf, SameRecord
    <1>3. KnownRecords(e)
        BY <1>1 DEF Belongs, KnownRecords
    <1>4. FilesOfOne(e) /\ OwnDeclared(e)
        BY <1>2 DEF Belongs, FilesOfOne, OwnDeclared
    <1>5. NoStrays(e)
        BY <1>2 DEF Belongs, NoStrays
    <1>6. LooseChosen(e)
        BY <1>1, <1>2, LastingNames DEF Belongs, LooseChosen
    <1> QED BY <1>3, <1>4, <1>5, <1>6 DEF Belongs

LEMMA StoringBelongs ==
    ASSUME TypeInv, TypeInv', Belongs(dir), NEW k \in Keys, NEW filename \in {None} \cup ProperFilenames,
           filename \in {None} \cup Chosen, MayBind(k, filename), NEW type, NEW size, NEW c,
           Stored(dir, dir', k, type, size, filename, c)
    PROVE  Belongs(dir')
    <1> DEFINE path == ValuePath(k, filename)
    <1>1. path \in ProperFilenames /\ path \in Lasting
        BY ValuePaths
    <1>2. /\ ReadSidecar(dir', k) = Sidecar(k, type, size, filename)
          /\ Parses(dir', k) /\ FileOf(dir', k) = path
        BY StoredRecord
    <1>3. ASSUME NEW j \in Keys, j # k
          PROVE  /\ Parses(dir', j) <=> Parses(dir, j)
                 /\ FileOf(dir', j) = FileOf(dir, j)
                 /\ \A f : BoundTo(dir', f, j) <=> BoundTo(dir, f, j)
                 /\ Parses(dir, j) => FileOf(dir, j) # path /\ EncodeKey(j) # path
        BY <1>3, OthersStored, SameSidecar DEF BoundTo
    <1>4. ~DeclaredForOther(path, k)
        BY DEF MayBind, Taken, DeclaredForOther
    <1>5. dir \in Directories(Len(lengths))
        BY DEF TypeInv
    <1> HIDE DEF path
    <1>6. KnownRecords(dir')
        <2> SUFFICES ASSUME NEW m \in Lasting, At(dir', m).kind = "sidecar"
                     PROVE  At(dir', m).key \in Keys
                            /\ At(dir', m).filename \in {None} \cup Chosen \cup DeclaredFiles(Adoption)
            BY DEF KnownRecords
        <2>1. CASE m = SidecarOf(k)
            BY <1>2, <2>1, ReadAt, Kinds
        <2>2. CASE m # SidecarOf(k)
            <3>1. m # path
                <4>1. IsMetadataFilename(m)
                    BY AtThere DEF TypeInv
                <4> QED BY <1>1, <4>1, ProperFacts
            <3>2. At(dir', m) \in {Missing, At(dir, m)}
                BY <2>2, <3>1 DEF Stored, path
            <3> QED BY <3>2, Kinds DEF Belongs, KnownRecords
        <2> QED BY <2>1, <2>2
    <1>7. FilesOfOne(dir')
        BY <1>2, <1>3 DEF Belongs, FilesOfOne, BoundTo
    <1>8. OwnDeclared(dir')
        BY <1>2, <1>3, <1>4 DEF Belongs, OwnDeclared
    <1>9. NoStrays(dir')
        <2> SUFFICES ASSUME NEW j \in Keys, Parses(dir', j), FileOf(dir', j) # EncodeKey(j),
                            FileOf(dir', j) \notin DeclaredFiles(Adoption)
                     PROVE  At(dir', EncodeKey(j)) = Missing
            BY DEF NoStrays
        <2>1. EncodeKey(j) \in Lasting /\ EncodeKey(j) # SidecarOf(k)
            BY <1>5, NamesOf
        <2>2. EncodeKey(j) # path
            BY <1>2, <1>3
        <2>3. At(dir', EncodeKey(j)) =
                  IF Binds(dir, k) /\ EncodeKey(j) = FileOf(dir, k) THEN Missing ELSE At(dir, EncodeKey(j))
            BY <2>1, <2>2 DEF Stored, path
        <2>4. CASE j # k
            BY <1>3, <2>3, <2>4 DEF Belongs, NoStrays
        <2>5. CASE j = k
            <3>1. filename \notin {None, EncodeKey(k)}
                BY <1>2, <2>2, <2>5 DEF path, ValuePath
            <3>2. ~There(dir, EncodeKey(k)) \/ (Binds(dir, k) /\ FileOf(dir, k) = EncodeKey(k))
                BY <3>1 DEF MayBind, Stray
            <3> QED BY <1>5, <2>3, <2>5, <3>2, AtThere
        <2> QED BY <2>4, <2>5
    <1>10. LooseChosen(dir')
        <2> SUFFICES ASSUME NEW f \in ProperFilenames, At(dir', f) # Missing,
                            f \notin Chosen \cup DeclaredFiles(Adoption)
                     PROVE  \E j \in Keys : BoundTo(dir', f, j)
            BY DEF LooseChosen
        <2>1. CASE f = path
            BY <1>2, <2>1 DEF BoundTo
        <2>2. CASE f # path
            <3>1. f \in Lasting /\ f # SidecarOf(k)
                BY LastingNames
            <3>2. At(dir, f) # Missing /\ ~(Binds(dir, k) /\ f = FileOf(dir, k))
                BY <2>2, <3>1 DEF Stored, path
            <3>3. PICK j \in Keys : BoundTo(dir, f, j)
                BY <3>2 DEF Belongs, LooseChosen
            <3>4. j # k
                BY <1>5, <3>2, <3>3, FileFacts DEF BoundTo
            <3> QED BY <1>3, <3>3, <3>4
        <2> QED BY <2>1, <2>2
    <1> QED BY <1>6, <1>7, <1>8, <1>9, <1>10 DEF Belongs

\* Where nothing is written the files belong to the keys they belonged to.
LEMMA FewerBelong ==
    ASSUME TypeInv, TypeInv', Belongs(dir),
           \A m \in Lasting : At(dir', m) \in {At(dir, m), Missing, Garbage},
           \A f \in ProperFilenames : At(dir', f) # Missing =>
               f \in Chosen \cup DeclaredFiles(Adoption) \/ \E k \in Keys : BoundTo(dir, f, k) /\ Parses(dir', k)
    PROVE  Belongs(dir')
    <1>1. dir \in Directories(Len(lengths)) /\ dir' \in Directories(Len(lengths'))
        BY DEF TypeInv
    <1>2. ASSUME NEW k \in Keys, Parses(dir', k)
          PROVE  /\ Parses(dir, k) /\ FileOf(dir', k) = FileOf(dir, k)
                 /\ \A f : BoundTo(dir', f, k) <=> BoundTo(dir, f, k)
        <2>1. SidecarOf(k) \in Lasting /\ At(dir', SidecarOf(k)).kind = "sidecar"
            BY <1>1, <1>2, NamesOf, ReadAt
        <2>2. At(dir', SidecarOf(k)) = At(dir, SidecarOf(k))
            BY <2>1, Kinds
        <2> QED BY <1>2, <2>2, SameRecord
    <1>3. KnownRecords(dir')
        BY Kinds DEF Belongs, KnownRecords
    <1>4. FilesOfOne(dir')
        BY <1>2 DEF Belongs, FilesOfOne, BoundTo
    <1>5. OwnDeclared(dir')
        BY <1>2 DEF Belongs, OwnDeclared
    <1>6. NoStrays(dir')
        <2> SUFFICES ASSUME NEW j \in Keys, Parses(dir', j), FileOf(dir', j) # EncodeKey(j),
                            FileOf(dir', j) \notin DeclaredFiles(Adoption)
                     PROVE  At(dir', EncodeKey(j)) = Missing
            BY DEF NoStrays
        <2>1. At(dir, EncodeKey(j)) = Missing
            BY <1>2 DEF Belongs, NoStrays
        <2>2. EncodeKey(j) \in Lasting /\ EncodeKey(j) \in ProperFilenames
            BY <1>1, NamesOf
        <2>3. At(dir', EncodeKey(j)) # Garbage
            <3>1. At(dir', EncodeKey(j)) # Missing => At(dir', EncodeKey(j)).kind = "value"
                BY <1>1, <2>2, AtThere, ProperFacts
            <3> QED BY <3>1, NoValues DEF Missing, Garbage
        <2> QED BY <2>1, <2>2, <2>3
    <1>7. LooseChosen(dir')
        BY <1>2 DEF LooseChosen
    <1> QED BY <1>3, <1>4, <1>5, <1>6, <1>7 DEF Belongs

LEMMA RemovalBelongs ==
    ASSUME TypeInv, TypeInv', Belongs(dir), Delete \/ Purge \/ DropStorage \/ FinalizeFails \/ Spoil
    PROVE  Belongs(dir')
    <1>1. dir \in Directories(Len(lengths)) /\ dir' \in Directories(Len(lengths'))
        BY DEF TypeInv
    <1>2. \A m \in Lasting : At(dir', m) \in {At(dir, m), Missing, Garbage}
        BY DeleteEffect, PurgeEffect, DropStorageEffect, FinalizeFailsEffect, SpoilEffect DEF Removed
    <1> SUFFICES ASSUME NEW f \in ProperFilenames, At(dir', f) # Missing,
                        f \notin Chosen \cup DeclaredFiles(Adoption)
                 PROVE  \E k \in Keys : BoundTo(dir, f, k) /\ Parses(dir', k)
        BY <1>2, FewerBelong
    <1>3. f \in Lasting /\ \A k \in Keys : SidecarOf(k) # f
        BY LastingNames
    <1>4. At(dir', f) # Garbage
        <2>1. At(dir', f).kind = "value"
            BY <1>1, AtThere, ProperFacts
        <2> QED BY <2>1, NoValues
    <1>5. At(dir, f) # Missing
        BY <1>2, <1>3, <1>4
    <1>6. PICK j \in Keys : BoundTo(dir, f, j)
        BY <1>5 DEF Belongs, LooseChosen
    <1>7. ASSUME At(dir', SidecarOf(j)) = At(dir, SidecarOf(j))
          PROVE  Parses(dir', j)
        BY <1>6, <1>7, SameRecord DEF BoundTo
    <1>8. SidecarOf(j) \in Lasting
        BY LastingNames
    <1>9. CASE Delete
        <2>1. PICK k \in Keys : Removed(dir, dir', {FileOf(dir, k), SidecarOf(k)})
            BY <1>9, DeleteEffect
        <2>2. j # k
            BY <1>3, <1>6, <2>1 DEF Removed, BoundTo
        <2>3. SidecarOf(j) \notin {FileOf(dir, k), SidecarOf(k)}
            BY <1>1, <2>2, NamesOf, LastingNames
        <2> QED BY <1>6, <1>7, <1>8, <2>1, <2>3 DEF Removed
    <1>10. CASE Purge
        <2>1. PICK keep \in Keeps : Removed(dir, dir', Lasting \ Spared(dir, keep))
            BY <1>10, PurgeEffect
        <2>2. keep \subseteq Keys
            BY KeysAssumption DEF KeysAssumption
        <2>3. PICK k \in keep : f = FileOf(dir, k)
            BY <1>3, <2>1, <2>2 DEF Removed, Spared
        <2>4. CASE Parses(dir, k)
            <3>1. j = k
                BY <1>6, <2>2, <2>3, <2>4 DEF Belongs, FilesOfOne, BoundTo
            <3>2. SidecarOf(j) \in Spared(dir, keep)
                BY <3>1 DEF Spared
            <3> QED BY <1>6, <1>7, <1>8, <2>1, <3>2 DEF Removed
        <2>5. CASE ~Parses(dir, k)
            <3>1. f = EncodeKey(k) /\ j # k
                BY <1>1, <1>6, <2>2, <2>3, <2>5, FileFacts DEF BoundTo
            <3>2. f # EncodeKey(j)
                BY <2>2, <3>1, KeyFacts, EncodedOnce
            <3>3. f = ReadSidecar(dir, j).filename /\ ReadSidecar(dir, j).filename # None
                BY <1>1, <1>6, <3>2, FileFacts DEF BoundTo, ValuePath
            <3>4. ReadSidecar(dir, j).filename \in {None} \cup Chosen \cup DeclaredFiles(Adoption)
                BY <1>6, <1>8, ReadAt DEF Belongs, KnownRecords, BoundTo
            <3> QED BY <3>3, <3>4
        <2> QED BY <2>4, <2>5
    <1>11. CASE DropStorage
        BY <1>3, <1>11, DropStorageEffect DEF Removed
    <1>12. CASE FinalizeFails
        <2>1. PICK names : /\ (Binds(dir, stream.key) /\ names = {FileOf(dir, stream.key)}) \/ names = {}
                           /\ Removed(dir, dir', names)
            BY <1>12, FinalizeFailsEffect
        <2>2. SidecarOf(j) \notin names
            BY <1>1, <1>12, <2>1, FinalizeFailsEffect, NamesOf
        <2> QED BY <1>6, <1>7, <1>8, <2>1, <2>2 DEF Removed
    <1>13. CASE Spoil
        <2>1. PICK k \in Keys :
                  /\ ReadSidecar(dir, k) = Missing
                  /\ \A m \in Lasting : At(dir', m) = IF m = SidecarOf(k) THEN Garbage ELSE At(dir, m)
            BY <1>13, SpoilEffect
        <2>2. j # k
            BY <1>6, <2>1, Kinds DEF BoundTo, Parses
        <2> QED BY <1>6, <1>7, <1>8, <2>1, <2>2, LastingNames
    <1> QED BY <1>9, <1>10, <1>11, <1>12, <1>13

LEMMA OutsideWriteBelongs ==
    ASSUME TypeInv, TypeInv', Belongs(dir), OutsideWrite
    PROVE  Belongs(dir')
    <1>1. PICK name \in Outside :
              /\ name \in ProperFilenames
              /\ \A k \in Keys : Parses(dir, k) => name \notin {FileOf(dir, k), EncodeKey(k), k}
              /\ \A m \in Lasting : At(dir', m) = IF m = name THEN Bytes(Len(lengths'), 1) ELSE At(dir, m)
        BY OutsideWriteEffect
    <1>2. dir \in Directories(Len(lengths)) /\ dir' \in Directories(Len(lengths'))
        BY DEF TypeInv
    <1>3. ASSUME NEW k \in Keys
          PROVE  /\ Parses(dir', k) <=> Parses(dir, k)
                 /\ FileOf(dir', k) = FileOf(dir, k)
                 /\ \A f : BoundTo(dir', f, k) <=> BoundTo(dir, f, k)
                 /\ Parses(dir, k) => At(dir', EncodeKey(k)) = At(dir, EncodeKey(k))
        <2>1. At(dir', SidecarOf(k)) = At(dir, SidecarOf(k))
            BY <1>1, LastingNames
        <2>2. Parses(dir, k) => At(dir', EncodeKey(k)) = At(dir, EncodeKey(k))
            BY <1>1, <1>2, NamesOf
        <2> QED BY <2>1, <2>2, SameRecord
    <1>4. KnownRecords(dir')
        <2>1. Bytes(Len(lengths'), 1).kind # "sidecar"
            BY DEF Bytes
        <2> QED BY <1>1, <2>1 DEF Belongs, KnownRecords
    <1>5. FilesOfOne(dir') /\ OwnDeclared(dir')
        BY <1>3 DEF Belongs, FilesOfOne, OwnDeclared
    <1>6. NoStrays(dir')
        BY <1>3 DEF Belongs, NoStrays
    <1>7. LooseChosen(dir')
        BY <1>1, <1>3, LastingNames DEF Belongs, LooseChosen, Chosen
    <1> QED BY <1>4, <1>5, <1>6, <1>7 DEF Belongs

\* An adoption under way that has left the records alone that can be read.
Opened(n, d) ==
    {a \in Adoptions(n, d) :
        /\ Belongs(a.dir)
        /\ OwnedFilenames(d, Adoption) \subseteq a.owned
        /\ \A k \in Keys :
              \/ ReadSidecar(a.dir, k) = ReadSidecar(d, k)
              \/ ~Tracked(d, k) /\ Parses(a.dir, k) /\ {FileOf(a.dir, k), EncodeKey(k)} \subseteq a.owned}

LEMMA OwnedFacts ==
    ASSUME NEW n, NEW d \in Directories(n)
    PROVE  /\ \A f \in DeclaredFiles(Adoption) : ~IsMetadataFilename(f) => f \in OwnedFilenames(d, Adoption)
           /\ \A j \in Keys : Parses(d, j) /\ At(d, EncodeKey(j)) = Missing /\ FileOf(d, j) # EncodeKey(j) =>
                 FileOf(d, j) \in OwnedFilenames(d, Adoption)
    <1> DEFINE named == {Front(name) : name \in {m \in DOMAIN d : IsSidecarName(m)}}
               Bound(e) == LET sidecar == d[SidecarName(e)]
                           IN  IF sidecar.kind = "sidecar" THEN {sidecar.filename} \ {None} ELSE {}
               bound == {f \in UNION {Bound(e) : e \in named \ DOMAIN d} : ValidFilename(f)}
               declared == {f \in DeclaredFiles(Adoption) : ~IsMetadataFilename(f)}
    <1>1. OwnedFilenames(d, Adoption) = named \cup bound \cup declared
        BY DEF OwnedFilenames
    <1>2. ASSUME NEW j \in Keys, Parses(d, j), At(d, EncodeKey(j)) = Missing, FileOf(d, j) # EncodeKey(j)
          PROVE  FileOf(d, j) \in bound
        <2> DEFINE e == EncodeKey(j)
                   f == FileOf(d, j)
        <2>1. SidecarName(e) \in DOMAIN d /\ IsSidecarName(SidecarName(e)) /\ ReadSidecar(d, j) = d[SidecarName(e)]
            BY <1>2, KeyFacts, SidecarFacts
        <2>2. Front(SidecarName(e)) = e
            <3>1. e \in Seq(DOMAIN Rank)
                BY KeyFacts DEF Names
            <3>2. Suffix \in DOMAIN Rank
                BY LettersAssumption DEF LettersAssumption
            <3> HIDE DEF e
            <3>3. Len(Append(e, Suffix)) - 1 = Len(e) /\ Len(e) \in Nat
                BY <3>1, <3>2
            <3>4. SubSeq(Append(e, Suffix), 1, Len(e)) = e
                BY <3>1, <3>2
            <3> QED BY <3>3, <3>4 DEF SidecarName, Front
        <2>3. e \in named
            BY <2>1, <2>2
        <2>4. e \notin DOMAIN d
            BY <1>2, AtThere DEF There
        <2>5. f = ReadSidecar(d, j).filename /\ f # None /\ ReadSidecar(d, j).kind = "sidecar" /\ ValidFilename(f)
            BY <1>2, FileFacts, ProperFacts DEF ValuePath, Parses
        <2>6. f \in Bound(e)
            BY <2>1, <2>5
        <2> HIDE DEF Bound, named, f, e
        <2> QED BY <2>3, <2>4, <2>5, <2>6 DEF f
    <1> HIDE DEF named, bound
    <1> QED BY <1>1, <1>2

\* What can be read stays so while files are adopted.
LEMMA TrackedStays ==
    ASSUME NEW n, NEW d \in Directories(n), NEW a \in Adoptions(n, d), NEW k \in Keys,
           ReadSidecar(a.dir, k) = ReadSidecar(d, k)
    PROVE  Tracked(a.dir, k) <=> Tracked(d, k)
    <1>1. FileOf(d, k) \in Names /\ ~IsMetadataFilename(FileOf(d, k))
        BY FileFacts, ProperFacts
    <1>2. There(a.dir, FileOf(d, k)) <=> There(d, FileOf(d, k))
        BY <1>1, AdoptionFacts DEF There
    <1> QED BY <1>2, SameSidecar DEF Tracked, RecordExists

\* A file that belongs to nobody else is adopted by a key without a record.
LEMMA AdoptionBelongs ==
    ASSUME NEW n, NEW d \in Directories(n), NEW a \in Opened(n, d), NEW k \in Keys,
           NEW f \in ProperFilenames, f \in DOMAIN a.dir, NEW type \in Types,
           ~Tracked(a.dir, k), ~DeclaredForOther(f, k), \A j \in Keys \ {k} : ~BoundTo(a.dir, f, j),
           f = EncodeKey(k) \/ f \in DeclaredFiles(Adoption)
    PROVE  Adopted(a, k, f, type) \in Opened(n, d)
    <1> DEFINE b == Adopted(a, k, f, type)
               sidecar == Sidecar(k, type, a.dir[f].size, IF f = EncodeKey(k) THEN None ELSE f)
    <1>1. /\ a \in Adoptions(n, d) /\ Belongs(a.dir) /\ OwnedFilenames(d, Adoption) \subseteq a.owned
          /\ k \in Seq(DOMAIN Escape) /\ a.dir \in Directories(n)
        BY KeyFacts DEF Opened, Adoptions
    <1>2. ReadSidecar(b.dir, k) = sidecar
          /\ Parses(b.dir, k) /\ FileOf(b.dir, k) = f
          /\ \A j \in Seq(DOMAIN Escape) : j # k => ReadSidecar(b.dir, j) = ReadSidecar(a.dir, j)
          /\ \A g \in ProperFilenames : At(b.dir, g) = At(a.dir, g)
        BY <1>1, AdoptedView
    <1>3. b \in Adoptions(n, d) /\ b.owned = a.owned \cup {f, EncodeKey(k)}
          /\ b.dir = Write(a.dir, SidecarOf(k), sidecar)
        BY <1>1, AdoptedFacts DEF SidecarOf
    <1>4. sidecar.key = k /\ sidecar.filename \in {None} \cup DeclaredFiles(Adoption)
        BY Kinds
    <1> HIDE DEF b, sidecar
    <1>5. \A m : At(b.dir, m) = IF m = SidecarOf(k) THEN sidecar ELSE At(a.dir, m)
        BY <1>3, AtWrite
    <1>6. ASSUME NEW j \in Keys, j # k
          PROVE  /\ ReadSidecar(b.dir, j) = ReadSidecar(a.dir, j)
                 /\ Parses(b.dir, j) <=> Parses(a.dir, j)
                 /\ FileOf(b.dir, j) = FileOf(a.dir, j)
                 /\ \A g : BoundTo(b.dir, g, j) <=> BoundTo(a.dir, g, j)
        <2>1. ReadSidecar(b.dir, j) = ReadSidecar(a.dir, j)
            BY <1>2, <1>6, KeyFacts
        <2> QED BY <2>1, SameSidecar DEF BoundTo
    <1>7. Belongs(b.dir)
        <2>1. KnownRecords(b.dir)
            BY <1>1, <1>4, <1>5 DEF Belongs, KnownRecords
        <2>2. FilesOfOne(b.dir)
            BY <1>1, <1>2, <1>6 DEF Belongs, FilesOfOne, BoundTo
        <2>3. OwnDeclared(b.dir)
            BY <1>1, <1>2, <1>6 DEF Belongs, OwnDeclared
        <2>4. NoStrays(b.dir)
            BY <1>1, <1>2, <1>6, KeyFacts DEF Belongs, NoStrays
        <2>5. LooseChosen(b.dir)
            <3> SUFFICES ASSUME NEW g \in ProperFilenames, At(b.dir, g) # Missing,
                                g \notin Chosen \cup DeclaredFiles(Adoption)
                         PROVE  \E j \in Keys : BoundTo(b.dir, g, j)
                BY DEF LooseChosen
            <3>1. At(a.dir, g) # Missing
                BY <1>5, LastingNames
            <3>2. PICK j \in Keys : BoundTo(a.dir, g, j)
                BY <1>1, <3>1 DEF Belongs, LooseChosen
            <3>3. There(a.dir, FileOf(a.dir, j)) /\ Parses(a.dir, j) /\ Binds(a.dir, j)
                BY <1>1, <3>1, <3>2, FileFacts, AtThere DEF BoundTo
            <3>4. Tracked(a.dir, j)
                BY <3>3 DEF Tracked, RecordExists
            <3> QED BY <1>6, <3>2, <3>4
        <2> QED BY <2>1, <2>2, <2>3, <2>4, <2>5 DEF Belongs
    <1>8. ~Tracked(d, k)
        <2>1. CASE ReadSidecar(a.dir, k) = ReadSidecar(d, k)
            BY <1>1, <2>1, TrackedStays
        <2>2. CASE ReadSidecar(a.dir, k) # ReadSidecar(d, k)
            BY <2>2 DEF Opened
        <2> QED BY <2>1, <2>2
    <1>9. ASSUME NEW j \in Keys
          PROVE  \/ ReadSidecar(b.dir, j) = ReadSidecar(d, j)
                 \/ ~Tracked(d, j) /\ Parses(b.dir, j) /\ {FileOf(b.dir, j), EncodeKey(j)} \subseteq b.owned
        <2>1. CASE j = k
            BY <1>2, <1>3, <1>8, <2>1
        <2>2. CASE j # k
            <3>1. \/ ReadSidecar(a.dir, j) = ReadSidecar(d, j)
                  \/ ~Tracked(d, j) /\ Parses(a.dir, j) /\ {FileOf(a.dir, j), EncodeKey(j)} \subseteq a.owned
                BY DEF Opened
            <3> QED BY <1>3, <1>6, <2>2, <3>1
        <2> QED BY <2>1, <2>2
    <1>10. OwnedFilenames(d, Adoption) \subseteq b.owned
        BY <1>1, <1>3
    <1>11. b \in Opened(n, d)
        BY <1>3, <1>7, <1>9, <1>10 DEF Opened
    <1> QED BY <1>11 DEF b

LEMMA KeyAdoptionBelongs ==
    ASSUME NEW n, NEW d \in Directories(n), NEW a \in Opened(n, d),
           NEW i \in DOMAIN Adoption, Adoption[i].kind = "key",
           NEW j \in DOMAIN Adoption[i].files, AdoptableFor(a, Adoption[i].key, Adoption[i].files[j].filename)
    PROVE  Adopted(a, Adoption[i].key, Adoption[i].files[j].filename, Adoption[i].files[j].type) \in Opened(n, d)
    <1> DEFINE k == Adoption[i].key
               f == Adoption[i].files[j].filename
               type == Adoption[i].files[j].type
    <1>1. a \in Adoptions(n, d) /\ Belongs(a.dir)
        BY DEF Opened
    <1>2. f \in ProperFilenames /\ f \in DOMAIN a.dir /\ type \in Types /\ k \in Keys
        BY <1>1, KeyAdopts, DeclaredFacts
    <1>3. f \in Declares(Adoption[i]) /\ f \in DeclaredFiles(Adoption)
        BY DeclaredNames
    <1>4. ~Tracked(a.dir, k)
        BY DEF AdoptableFor
    <1>5. ~DeclaredForOther(f, k)
        <2> SUFFICES ASSUME NEW q \in DOMAIN Adoption, Adoption[q].kind = "key", Adoption[q].key # k,
                            f \in Declares(Adoption[q])
                     PROVE  FALSE
            BY DEF DeclaredForOther
        <2>1. Declares(Adoption[i]) \cap Declares(Adoption[q]) = {}
            BY AdoptionAssumption DEF AdoptionAssumption
        <2> QED BY <1>3, <2>1
    <1>6. ASSUME NEW q \in Keys \ {k}, BoundTo(a.dir, f, q) PROVE FALSE
        <2>1. DeclaredForOther(f, q)
            BY <1>3 DEF DeclaredForOther
        <2> QED BY <1>1, <1>6, <2>1 DEF Belongs, OwnDeclared, BoundTo
    <1> HIDE DEF k, f, type
    <1>7. Adopted(a, k, f, type) \in Opened(n, d)
        BY <1>2, <1>3, <1>4, <1>5, <1>6, AdoptionBelongs
    <1> QED BY <1>7 DEF k, f, type

\* What a sweep may adopt has the name of its key, and no record.
LEMMA SweepMeets ==
    ASSUME NEW n, NEW d \in Directories(n), Belongs(d), NEW a \in Opened(n, d),
           NEW i \in DOMAIN Adoption, Adoption[i].kind = "sweep",
           NEW name \in DOMAIN d, MaySweep(a, DOMAIN d, name), RuleFor(Adoption[i].rules, name) # 0
    PROVE  /\ name \in Keys /\ EncodeKey(name) = name
           /\ name \in ProperFilenames /\ name \in DOMAIN a.dir
           /\ Adoption[i].rules[RuleFor(Adoption[i].rules, name)].type \in Types
           /\ name \notin OwnedFilenames(d, Adoption) /\ name \notin DeclaredFiles(Adoption)
           /\ ~Tracked(a.dir, name)
           /\ \A q \in Keys : ~BoundTo(a.dir, name, q)
    <1> DEFINE type == Adoption[i].rules[RuleFor(Adoption[i].rules, name)].type
    <1>1. a \in Adoptions(n, d) /\ Belongs(a.dir) /\ a.dir \in Directories(n)
          /\ OwnedFilenames(d, Adoption) \subseteq a.owned
        BY DEF Opened, Adoptions
    <1>2. name \in ProperFilenames /\ name \in DOMAIN a.dir /\ type \in Types
        BY <1>1, SweepAdopts
    <1>3. name \notin a.owned /\ SidecarName(name) \notin DOMAIN d
        BY DEF MaySweep
    <1> HIDE DEF type
    <1>4. name \notin OwnedFilenames(d, Adoption) /\ name \notin DeclaredFiles(Adoption)
        BY <1>1, <1>2, <1>3, OwnedFacts, ProperFacts
    <1>5. ASSUME NEW q \in Keys, Parses(d, q) PROVE name # EncodeKey(q)
        BY <1>3, <1>5, KeyFacts, SidecarFacts
    <1>6. ASSUME NEW q \in Keys, BoundTo(a.dir, name, q) PROVE FALSE
        <2>1. CASE ReadSidecar(a.dir, q) = ReadSidecar(d, q)
            <3>1. Parses(d, q) /\ FileOf(d, q) = name /\ FileOf(d, q) # EncodeKey(q)
                BY <1>5, <1>6, <2>1, SameSidecar DEF BoundTo
            <3>2. At(d, EncodeKey(q)) = Missing
                BY <1>4, <3>1 DEF Belongs, NoStrays
            <3> QED BY <1>4, <3>1, <3>2, OwnedFacts
        <2>2. CASE ReadSidecar(a.dir, q) # ReadSidecar(d, q)
            BY <1>3, <1>6, <2>2 DEF Opened, BoundTo
        <2> QED BY <2>1, <2>2
    <1>7. name \in Chosen
        <2>1. At(a.dir, name) # Missing
            BY <1>1, <1>2, AtThere DEF There
        <2> QED BY <1>1, <1>2, <1>4, <1>6, <2>1 DEF Belongs, LooseChosen
    <1>8. name \in Keys /\ EncodeKey(name) = name
        <2>1. name \notin {None} \cup DeclaredFiles(Adoption) /\ ValidFilename(name)
            BY <1>2, <1>4, ProperFacts
        <2> QED BY <1>7, <2>1, SweepsAssumption DEF SweepsAssumption
    <1>9. ~Tracked(a.dir, name)
        <2> SUFFICES ASSUME Parses(a.dir, name) PROVE FALSE
            BY DEF Tracked, RecordExists
        <2>1. CASE ReadSidecar(a.dir, name) = ReadSidecar(d, name)
            <3>1. Parses(d, name)
                BY <2>1, SameSidecar
            <3> QED BY <1>5, <1>8, <3>1
        <2>2. CASE ReadSidecar(a.dir, name) # ReadSidecar(d, name)
            BY <1>3, <1>8, <2>2 DEF Opened
        <2> QED BY <2>1, <2>2
    <1> QED BY <1>2, <1>4, <1>6, <1>8, <1>9 DEF type

LEMMA SweepAdoptionBelongs ==
    ASSUME NEW n, NEW d \in Directories(n), Belongs(d), NEW a \in Opened(n, d),
           NEW i \in DOMAIN Adoption, Adoption[i].kind = "sweep",
           NEW name \in DOMAIN d, MaySweep(a, DOMAIN d, name), RuleFor(Adoption[i].rules, name) # 0
    PROVE  Adopted(a, name, name, Adoption[i].rules[RuleFor(Adoption[i].rules, name)].type) \in Opened(n, d)
    <1> DEFINE type == Adoption[i].rules[RuleFor(Adoption[i].rules, name)].type
    <1>1. /\ name \in Keys /\ EncodeKey(name) = name
          /\ name \in ProperFilenames /\ name \in DOMAIN a.dir /\ type \in Types
          /\ name \notin DeclaredFiles(Adoption) /\ ~Tracked(a.dir, name)
          /\ \A q \in Keys : ~BoundTo(a.dir, name, q)
        BY SweepMeets
    <1> HIDE DEF type
    <1>2. ~DeclaredForOther(name, name)
        BY <1>1, DeclaredNames DEF DeclaredForOther
    <1>3. Adopted(a, name, name, type) \in Opened(n, d)
        BY <1>1, <1>2, AdoptionBelongs
    <1> QED BY <1>3 DEF type

\* An opening gives no file to two keys and leaves alone what can be read.
LEMMA OpeningBelongs ==
    ASSUME NEW n, NEW d \in Directories(n), Belongs(d)
    PROVE  AdoptFiles(d, Adoption) \in Opened(n, d)
    <1> DEFINE S == Opened(n, d)
               begun == [dir |-> d, owned |-> OwnedFilenames(d, Adoption), ok |-> TRUE]
    <1>1. begun \in S
        <2>1. begun \in Adoptions(n, d)
            BY AdoptionBegins
        <2>2. begun.dir = d /\ begun.owned = OwnedFilenames(d, Adoption)
            OBVIOUS
        <2> HIDE DEF begun
        <2> QED BY <2>1, <2>2 DEF Opened
    <1>2. ASSUME NEW a \in S PROVE Failed(a) \in S
        <2>1. a \in Adoptions(n, d)
            BY DEF Opened
        <2>2. Failed(a) \in Adoptions(n, d) /\ Failed(a).dir = a.dir /\ Failed(a).owned = a.owned
            BY <2>1, FailedFacts
        <2> QED BY <2>2 DEF Opened
    <1> HIDE DEF S
    <1> QED BY <1>1, <1>2, KeyAdoptionBelongs, SweepAdoptionBelongs, OpeningKeeps DEF S

-------------------------------------------------------------------------------
(* No step gives a file to two keys *)

LEMMA StoreStepsBelong ==
    ASSUME TypeInv, TypeInv', Belongs(dir), SetValue \/ ForeignWrite \/ Finalize
    PROVE  Belongs(dir')
    <1>1. CASE SetValue
        <2>1. PICK k \in Keys, filename \in {None} \cup ProperFilenames, size \in Nat :
                  /\ filename \in {None} \cup Chosen
                  /\ MayBind(k, filename)
                  /\ Stored(dir, dir', k, Plain, size, filename, Bytes(Len(lengths'), size))
            BY <1>1, SetValueEffect
        <2> QED BY <2>1, StoringBelongs
    <1>2. CASE ForeignWrite
        <2>1. PICK k \in Keys :
                  MayBind(k, None) /\ Stored(dir, dir', k, Plain, None, None, Bytes(Len(lengths'), 1))
            BY <1>2, ForeignWriteEffect
        <2>2. None \in {None} \cup ProperFilenames /\ None \in {None} \cup Chosen
            OBVIOUS
        <2> QED BY <2>1, <2>2, StoringBelongs
    <1>3. CASE Finalize
        <2> DEFINE k == stream.key
                   filename == stream.filename
                   size == lengths[stream.of] % SizeLimit
                   c == dir[TemporaryName(stream.of)]
        <2>1. /\ k \in Keys /\ filename \in {None} \cup ProperFilenames /\ filename \in {None} \cup Chosen
              /\ MayBind(k, filename)
              /\ Stored(dir, dir', k, Octets, size, filename, c)
            BY <1>3, FinalizeEffect DEF Pipes
        <2> HIDE DEF c, k, filename, size
        <2> QED BY <2>1, StoringBelongs
    <1> QED BY <1>1, <1>2, <1>3

LEMMA RestBelongs ==
    ASSUME TypeInv, Belongs(dir),
           OpenStore \/ Read \/ StartStream \/ StreamChunk \/ StreamFails \/ FinalizeRefused \/ Exit \/ UNCHANGED vars
    PROVE  Belongs(dir')
    <1>1. CASE OpenStore
        <2> DEFINE d == SaveMetadata(dir)
        <2>1. d \in Directories(Len(lengths)) /\ Untouched(dir, d) /\ dir' = AdoptFiles(d, Adoption).dir
            BY <1>1, OpenStoreEffect
        <2>2. Belongs(d)
            <3> HIDE DEF d
            <3> QED BY <2>1, UntouchedBelongs DEF TypeInv
        <2> HIDE DEF d
        <2> QED BY <2>1, <2>2, OpeningBelongs DEF Opened
    <1>2. CASE Read \/ StartStream \/ StreamChunk \/ StreamFails \/ FinalizeRefused \/ Exit \/ UNCHANGED vars
        BY <1>2, QuietEffect, UntouchedBelongs DEF TypeInv
    <1> QED BY <1>1, <1>2

LEMMA BelongingInduction == Spec => [](Belongs(dir))
    <1>1. Init => Belongs(dir)
        BY NothingThere, Kinds DEF Belongs, KnownRecords, FilesOfOne, OwnDeclared, NoStrays, LooseChosen
    <1>2. TypeInv /\ TypeInv' /\ Belongs(dir) /\ [Next]_vars => Belongs(dir)'
        <2> SUFFICES ASSUME TypeInv, TypeInv', Belongs(dir), [Next]_vars
                     PROVE  Belongs(dir')
            OBVIOUS
        <2> QED BY StoreStepsBelong, RemovalBelongs, OutsideWriteBelongs, RestBelongs DEF Next
    <1> QED BY <1>1, <1>2, TypeInduction, PTL DEF Spec

-------------------------------------------------------------------------------
(* The values that keys read as *)

Value(d, k) == IF Parses(d, k) /\ At(d, FileOf(d, k)) # Missing THEN At(d, FileOf(d, k)) ELSE None

LEMMA ValueRead ==
    ASSUME NEW n, NEW d \in Directories(n), NEW k \in Keys
    PROVE  /\ Value(d, k) = LET hit == GetValue(d, k, TRUE) IN IF hit \in {None, Error} THEN None ELSE d[hit.path]
           /\ Value(d, k) \in ValuesUpTo(n) \cup {None}
    <1> DEFINE hit == GetValue(d, k, TRUE)
               path == FileOf(d, k)
    <1>1. k \in ReadableKeys /\ TRUE \in BOOLEAN
        BY KeysAreReadable
    <1>2. /\ hit # Error => (RecordExists(d, k, TRUE) <=> hit # None) /\ (hit # None => hit.path = path)
          /\ Parses(d, k) => hit # Error
          /\ hit \notin {None, Error} => Parses(d, k)
        BY <1>1, WhatIsRead
    <1>3. RecordExists(d, k, TRUE) <=> Parses(d, k) /\ There(d, path)
        BY FileFacts DEF RecordExists
    <1>4. There(d, path) <=> At(d, path) # Missing
        BY AtThere
    <1>5. There(d, path) => At(d, path) = d[path] /\ d[path] \in ValuesUpTo(n)
        <2>1. path \in ProperFilenames
            BY FileFacts
        <2> HIDE DEF path
        <2> QED BY <2>1, AtThere, ContentFacts, ProperFacts DEF There
    <1> HIDE DEF hit, path
    <1>6. Value(d, k) = IF hit \in {None, Error} THEN None ELSE d[hit.path]
        BY <1>2, <1>3, <1>4, <1>5 DEF Value, path
    <1>7. Value(d, k) \in ValuesUpTo(n) \cup {None}
        BY <1>4, <1>5 DEF Value, path
    <1> QED BY <1>6, <1>7 DEF hit

LEMMA MapOfValues ==
    /\ TypeInv => \A k \in Keys : Map[k] = Value(dir, k)
    /\ TypeInv' => \A k \in Keys : Map'[k] = Value(dir', k) /\ Map'[k] \in Values \cup {None}
    <1>1. ASSUME TypeInv, NEW k \in Keys PROVE Map[k] = Value(dir, k)
        BY <1>1, ValueRead DEF TypeInv, Map
    <1>2. ASSUME TypeInv', NEW k \in Keys PROVE Map'[k] = Value(dir', k) /\ Map'[k] \in Values \cup {None}
        <2>1. dir' \in Directories(Len(lengths'))
            BY <1>2 DEF TypeInv
        <2>2. Map'[k] = Value(dir', k)
            BY <2>1, ValueRead DEF Map
        <2>3. ValuesUpTo(Len(lengths')) \subseteq Values
            BY DEF ValuesUpTo, Values
        <2> QED BY <2>1, <2>2, <2>3, ValueRead
    <1> QED BY <1>1, <1>2

LEMMA SameValue ==
    ASSUME NEW d, NEW e, NEW k, ReadSidecar(e, k) = ReadSidecar(d, k),
           Parses(d, k) => At(e, FileOf(d, k)) = At(d, FileOf(d, k))
    PROVE  Value(e, k) = Value(d, k)
    BY SameSidecar DEF Value

LEMMA UntouchedValues ==
    ASSUME NEW n, NEW d \in Directories(n), NEW e, Untouched(d, e), NEW k \in Keys
    PROVE  Value(e, k) = Value(d, k)
    <1>1. ReadSidecar(e, k) = ReadSidecar(d, k)
        BY NamesOf, ReadAt DEF Untouched
    <1>2. At(e, FileOf(d, k)) = At(d, FileOf(d, k))
        BY NamesOf DEF Untouched
    <1> QED BY <1>1, <1>2, SameValue

\* A removal takes the values of the keys whose files go, and no others.
LEMMA RemovedValues ==
    ASSUME NEW n, NEW d \in Directories(n), NEW e, NEW names, Removed(d, e, names), NEW k \in Keys
    PROVE  /\ SidecarOf(k) \notin names /\ (Parses(d, k) => FileOf(d, k) \notin names) => Value(e, k) = Value(d, k)
           /\ SidecarOf(k) \in names \/ FileOf(d, k) \in names => Value(e, k) = None
    <1>1. At(e, SidecarOf(k)) = IF SidecarOf(k) \in names THEN Missing ELSE At(d, SidecarOf(k))
        BY NamesOf DEF Removed
    <1>2. At(e, FileOf(d, k)) = IF FileOf(d, k) \in names THEN Missing ELSE At(d, FileOf(d, k))
        BY NamesOf DEF Removed
    <1>3. CASE SidecarOf(k) \in names
        BY <1>1, <1>3, ReadAt, Kinds DEF Value
    <1>4. CASE SidecarOf(k) \notin names
        <2>1. ReadSidecar(e, k) = ReadSidecar(d, k)
            BY <1>1, <1>4, ReadAt
        <2>2. CASE FileOf(d, k) \in names
            BY <1>2, <1>4, <2>1, <2>2, SameSidecar, SameValue DEF Value
        <2>3. CASE FileOf(d, k) \notin names
            BY <1>2, <1>4, <2>1, <2>3, SameValue
        <2> QED BY <2>2, <2>3
    <1> QED BY <1>3, <1>4

Changes == Store!Next \/ UNCHANGED Map

LEMMA StoringSets ==
    ASSUME TypeInv, TypeInv', Belongs(dir), NEW k \in Keys, NEW filename \in {None} \cup ProperFilenames,
           MayBind(k, filename), NEW type, NEW size, NEW c \in Values,
           Stored(dir, dir', k, type, size, filename, c)
    PROVE  Store!Next
    <1>1. c # Missing
        BY DEF Values, Missing
    <1>2. Value(dir', k) = c
        BY <1>1, StoredRecord DEF Value
    <1>3. ASSUME NEW j \in Keys \ {k} PROVE Value(dir', j) = Value(dir, j)
        <2>1. ReadSidecar(dir', j) = ReadSidecar(dir, j)
            BY OthersStored
        <2>2. Parses(dir, j) /\ Parses(dir, k) => FileOf(dir, j) # FileOf(dir, k)
            BY DEF Belongs, FilesOfOne, BoundTo
        <2>3. Parses(dir, j) => At(dir', FileOf(dir, j)) = At(dir, FileOf(dir, j))
            BY <2>2, OthersStored DEF Binds
        <2> QED BY <2>1, <2>3, SameValue
    <1>4. Map'[k] \in Values /\ \A j \in Keys \ {k} : Map'[j] = Map[j]
        BY <1>2, <1>3, MapOfValues
    <1>5. Store!Set(k)
        BY <1>4 DEF Store!Set, Store!Unchanged
    <1> QED BY <1>5 DEF Store!Next

LEMMA StoreStepsSet ==
    ASSUME TypeInv, TypeInv', Belongs(dir), SetValue \/ ForeignWrite \/ Finalize
    PROVE  Store!Next
    <1>1. ASSUME NEW size \in Nat, NextValue(size)
          PROVE  Bytes(Len(lengths'), size) \in Values
        <2>1. Len(lengths') \in Nat
            BY DEF TypeInv
        <2> QED BY <2>1 DEF Bytes, Values
    <1>2. CASE SetValue
        <2>1. PICK k \in Keys, filename \in {None} \cup ProperFilenames, size \in Nat :
                  /\ MayBind(k, filename) /\ NextValue(size)
                  /\ Stored(dir, dir', k, Plain, size, filename, Bytes(Len(lengths'), size))
            BY <1>2, SetValueEffect
        <2> QED BY <1>1, <2>1, StoringSets
    <1>3. CASE ForeignWrite
        <2>1. PICK k \in Keys :
                  MayBind(k, None) /\ NextValue(1) /\ Stored(dir, dir', k, Plain, None, None, Bytes(Len(lengths'), 1))
            BY <1>3, ForeignWriteEffect
        <2>2. None \in {None} \cup ProperFilenames /\ 1 \in Nat
            OBVIOUS
        <2> QED BY <1>1, <2>1, <2>2, StoringSets
    <1>4. CASE Finalize
        <2> DEFINE k == stream.key
                   filename == stream.filename
                   size == lengths[stream.of] % SizeLimit
                   c == dir[TemporaryName(stream.of)]
        <2>1. /\ k \in Keys /\ filename \in {None} \cup ProperFilenames
              /\ MayBind(k, filename)
              /\ Stored(dir, dir', k, Octets, size, filename, c)
              /\ c \in ValuesUpTo(Len(lengths))
            BY <1>4, FinalizeEffect DEF Pipes
        <2> HIDE DEF c, k, filename, size
        <2>2. c \in Values
            BY <2>1 DEF ValuesUpTo, Values
        <2> QED BY <2>1, <2>2, StoringSets
    <1> QED BY <1>2, <1>3, <1>4

LEMMA DeleteRemoves ==
    ASSUME TypeInv, TypeInv', Belongs(dir), Delete
    PROVE  Store!Next
    <1>1. PICK k \in Keys : Removed(dir, dir', {FileOf(dir, k), SidecarOf(k)})
        BY DeleteEffect
    <1>2. dir \in Directories(Len(lengths))
        BY DEF TypeInv
    <1> DEFINE names == {FileOf(dir, k), SidecarOf(k)}
    <1>3. ASSUME NEW j \in Keys
          PROVE  /\ SidecarOf(j) \in names <=> j = k
                 /\ FileOf(dir, j) \in names <=> FileOf(dir, j) = FileOf(dir, k)
        BY <1>2, NamesOf, LastingNames
    <1>4. ASSUME NEW j \in Keys
          PROVE  /\ j # k /\ ~BoundTo(dir, FileOf(dir, k), j) => Map'[j] = Map[j]
                 /\ j = k \/ BoundTo(dir, FileOf(dir, k), j) => Map'[j] = None
        <2> HIDE DEF names
        <2>1. Removed(dir, dir', names)
            BY <1>1 DEF names
        <2> QED BY <1>2, <1>3, <2>1, RemovedValues, MapOfValues DEF BoundTo
    <1>5. ASSUME NEW j \in Keys, Map'[j] = None, \A i \in Keys \ {j} : Map'[i] = Map[i]
          PROVE  Store!Next
        <2>1. Store!Remove(j)
            BY <1>5 DEF Store!Remove, Store!Gone, Store!Unchanged
        <2> QED BY <2>1 DEF Store!Next
    <1>6. CASE Parses(dir, k) \/ \A j \in Keys : ~BoundTo(dir, FileOf(dir, k), j)
        <2>1. \A j \in Keys \ {k} : ~BoundTo(dir, FileOf(dir, k), j)
            BY <1>6 DEF Belongs, FilesOfOne
        <2> QED BY <1>4, <1>5, <2>1
    <1>7. CASE ~Parses(dir, k) /\ \E j \in Keys : BoundTo(dir, FileOf(dir, k), j)
        <2>1. PICK j \in Keys : BoundTo(dir, FileOf(dir, k), j)
            BY <1>7
        <2>2. \A i \in Keys : BoundTo(dir, FileOf(dir, k), i) => i = j
            BY <2>1 DEF Belongs, FilesOfOne, BoundTo
        <2>3. Map[k] = None
            BY <1>7, MapOfValues DEF Value
        <2>4. \A i \in Keys \ {j} : Map'[i] = Map[i]
            BY <1>4, <2>2, <2>3
        <2> QED BY <1>4, <1>5, <2>1, <2>4
    <1> QED BY <1>6, <1>7

LEMMA PurgePurges ==
    ASSUME TypeInv, TypeInv', Purge
    PROVE  Store!Next
    <1>1. PICK keep \in Keeps : Removed(dir, dir', Lasting \ Spared(dir, keep))
        BY PurgeEffect
    <1>2. keep \subseteq Keys /\ dir \in Directories(Len(lengths))
        BY KeysAssumption DEF KeysAssumption, TypeInv
    <1>3. ASSUME NEW k \in Keys, k \in keep PROVE Map'[k] = Map[k]
        <2>1. SidecarOf(k) \in Spared(dir, keep) /\ FileOf(dir, k) \in Spared(dir, keep)
            BY <1>3 DEF Spared
        <2> QED BY <1>1, <1>2, <2>1, RemovedValues, MapOfValues
    <1>4. ASSUME NEW k \in Keys, k \notin keep PROVE Map'[k] = None
        <2>1. SidecarOf(k) \notin Spared(dir, keep) /\ SidecarOf(k) \in Lasting
            BY <1>2, <1>4, NamesOf, LastingNames DEF Spared
        <2> QED BY <1>1, <1>2, <2>1, RemovedValues, MapOfValues
    <1>5. Store!Purge(keep)
        BY <1>3, <1>4 DEF Store!Purge, Store!Unchanged, Store!Gone
    <1> QED BY <1>5 DEF Store!Next

LEMMA DropDrops ==
    ASSUME TypeInv, TypeInv', DropStorage
    PROVE  Store!Next
    <1>1. Removed(dir, dir', Lasting) /\ dir \in Directories(Len(lengths))
        BY DropStorageEffect DEF TypeInv
    <1>2. \A k \in Keys : Map'[k] = None
        BY <1>1, LastingNames, RemovedValues, MapOfValues
    <1>3. Store!Drop
        BY <1>2 DEF Store!Drop, Store!Gone
    <1> QED BY <1>3 DEF Store!Next

LEMMA FailedFinalizeRemoves ==
    ASSUME TypeInv, TypeInv', Belongs(dir), FinalizeFails
    PROVE  Changes
    <1> DEFINE k == stream.key
    <1>1. PICK names : ((Binds(dir, k) /\ names = {FileOf(dir, k)}) \/ names = {}) /\ Removed(dir, dir', names)
        BY FinalizeFailsEffect
    <1>2. k \in Keys /\ dir \in Directories(Len(lengths))
        BY FinalizeFailsEffect DEF TypeInv
    <1> HIDE DEF k
    <1>3. CASE names = {}
        <2>1. \A j \in Keys : Map'[j] = Map[j]
            BY <1>1, <1>2, <1>3, RemovedValues, MapOfValues
        <2> QED BY <2>1 DEF Changes, Map
    <1>4. CASE Binds(dir, k) /\ names = {FileOf(dir, k)}
        <2>1. Map'[k] = None
            BY <1>1, <1>2, <1>4, RemovedValues, MapOfValues
        <2>2. ASSUME NEW j \in Keys \ {k} PROVE Map'[j] = Map[j]
            <3>1. Parses(dir, j) => FileOf(dir, j) \notin names
                BY <1>2, <1>4 DEF Binds, Belongs, FilesOfOne, BoundTo
            <3>2. SidecarOf(j) \notin names
                BY <1>2, <1>4, NamesOf
            <3> QED BY <1>1, <1>2, <3>1, <3>2, RemovedValues, MapOfValues
        <2>3. Store!Remove(k)
            BY <2>1, <2>2 DEF Store!Remove, Store!Gone, Store!Unchanged
        <2> QED BY <1>2, <2>3 DEF Store!Next, Changes
    <1> QED BY <1>1, <1>3, <1>4

\* Opening leaves alone what can be read, so it adds keys only.
LEMMA OpeningAdds ==
    ASSUME TypeInv, TypeInv', Belongs(dir), OpenStore
    PROVE  Store!Next
    <1> DEFINE d == SaveMetadata(dir)
               a == AdoptFiles(d, Adoption)
               n == Len(lengths)
    <1>1. d \in Directories(n) /\ Untouched(dir, d) /\ dir' = a.dir /\ dir \in Directories(n)
        BY OpenStoreEffect DEF TypeInv
    <1> HIDE DEF d, n
    <1>2. a \in Opened(n, d)
        BY <1>1, UntouchedBelongs, OpeningBelongs
    <1> HIDE DEF a
    <1>3. ASSUME NEW k \in Keys, Map[k] # None PROVE Map'[k] = Map[k]
        <2>1. Value(d, k) = Value(dir, k) /\ Value(dir, k) # None
            BY <1>1, <1>3, UntouchedValues, MapOfValues
        <2>2. Parses(d, k) /\ At(d, FileOf(d, k)) # Missing
            BY <2>1 DEF Value
        <2>3. Tracked(d, k)
            BY <1>1, <2>2, FileFacts, AtThere DEF Tracked, RecordExists
        <2>4. ReadSidecar(a.dir, k) = ReadSidecar(d, k)
            BY <1>2, <2>3 DEF Opened
        <2>5. FileOf(d, k) \in Names /\ ~IsMetadataFilename(FileOf(d, k))
            BY <1>1, FileFacts, ProperFacts
        <2>6. At(a.dir, FileOf(d, k)) = At(d, FileOf(d, k))
            BY <1>2, <2>5, AdoptionFacts DEF Opened, At, There
        <2> QED BY <1>1, <2>1, <2>4, <2>6, SameValue, MapOfValues
    <1>4. \A k \in Keys : Map'[k] \in Values \cup {None}
        BY MapOfValues
    <1>5. Store!Adopt
        BY <1>3, <1>4 DEF Store!Adopt
    <1> QED BY <1>5 DEF Store!Next

LEMMA RestChangesNothing ==
    ASSUME TypeInv, TypeInv',
           OutsideWrite \/ Spoil \/ Read \/ StartStream \/ StreamChunk \/ StreamFails \/ FinalizeRefused
               \/ Exit \/ UNCHANGED vars
    PROVE  UNCHANGED Map
    <1>1. dir \in Directories(Len(lengths))
        BY DEF TypeInv
    <1>2. ASSUME NEW k \in Keys PROVE Value(dir', k) = Value(dir, k)
        <2>1. CASE OutsideWrite
            <3>1. PICK name \in Outside :
                      /\ name \in ProperFilenames
                      /\ \A j \in Keys : Parses(dir, j) => name \notin {FileOf(dir, j), EncodeKey(j), j}
                      /\ \A m \in Lasting : At(dir', m) = IF m = name THEN Bytes(Len(lengths'), 1) ELSE At(dir, m)
                BY <2>1, OutsideWriteEffect
            <3>2. ReadSidecar(dir', k) = ReadSidecar(dir, k)
                BY <3>1, LastingNames, ReadAt
            <3>3. Parses(dir, k) => At(dir', FileOf(dir, k)) = At(dir, FileOf(dir, k))
                BY <1>1, <3>1, NamesOf
            <3> QED BY <3>2, <3>3, SameValue
        <2>2. CASE Spoil
            <3>1. PICK j \in Keys :
                      /\ ReadSidecar(dir, j) = Missing
                      /\ \A m \in Lasting : At(dir', m) = IF m = SidecarOf(j) THEN Garbage ELSE At(dir, m)
                BY <2>2, SpoilEffect
            <3>2. CASE j = k
                BY <3>1, <3>2, LastingNames, ReadAt, Kinds DEF Value
            <3>3. CASE j # k
                <4>1. ReadSidecar(dir', k) = ReadSidecar(dir, k)
                    BY <3>1, <3>3, LastingNames, ReadAt
                <4>2. At(dir', FileOf(dir, k)) = At(dir, FileOf(dir, k))
                    BY <1>1, <3>1, NamesOf
                <4> QED BY <4>1, <4>2, SameValue
            <3> QED BY <3>2, <3>3
        <2>3. CASE Read \/ StartStream \/ StreamChunk \/ StreamFails \/ FinalizeRefused \/ Exit \/ UNCHANGED vars
            BY <1>1, <2>3, QuietEffect, UntouchedValues
        <2> QED BY <2>1, <2>2, <2>3
    <1>3. \A k \in Keys : Map'[k] = Map[k]
        BY <1>2, MapOfValues
    <1> QED BY <1>3 DEF Map

\* The store implements the map: a value is set by the call that writes its file, and no
\* other file is touched because no file belongs to two keys; what is deleted or purged is
\* gone together with its sidecar; an opening gives files to keys without a record only.
THEOREM MapImplemented == Spec => ImplementsKeyValueMap
    <1>1. Init => Store!Init
        <2> SUFFICES ASSUME Init PROVE Map = [k \in Keys |-> None]
            BY DEF Store!Init
        <2>1. dir \in Directories(Len(lengths))
            BY EmptyDirectory DEF Init
        <2> QED BY <2>1, NothingThere, ValueRead DEF Map, Value
    <1>2. TypeInv /\ TypeInv' /\ Belongs(dir) /\ [Next]_vars => [Store!Next]_Map
        <2> SUFFICES ASSUME TypeInv, TypeInv', Belongs(dir), [Next]_vars
                     PROVE  Changes
            BY DEF Changes
        <2> QED BY StoreStepsSet, DeleteRemoves, PurgePurges, DropDrops, FailedFinalizeRemoves, OpeningAdds,
                   RestChangesNothing DEF Changes, Next
    <1> QED BY <1>1, <1>2, TypeInduction, BelongingInduction, PTL DEF ImplementsKeyValueMap, Store!Spec, Spec

-------------------------------------------------------------------------------
(* Patterns: that matches_pattern need only go back to the last star *)

\* The places that the loop of matches_pattern can be at.
ScanPlaces(pattern, name) ==
    {at \in [p : 1 .. Len(pattern) + 1, n : 1 .. Len(name) + 1, star : 0 .. Len(pattern), from : 1 .. Len(name) + 1] :
        at.star < at.p /\ at.from <= at.n}

\* What a turn finds in the pattern, and where it goes then.
AtStar(pattern, at) == at.p < Len(pattern) + 1 /\ pattern[at.p] = "*"
AtLetter(pattern, name, at) == at.p < Len(pattern) + 1 /\ pattern[at.p] \in {"?", name[at.n]}
StarFound(at) == [p |-> at.p + 1, n |-> at.n, star |-> at.p, from |-> at.n]
LetterFound(at) == [p |-> at.p + 1, n |-> at.n + 1, star |-> at.star, from |-> at.from]
BackToStar(at) == [p |-> at.star + 1, n |-> at.from + 1, star |-> at.star, from |-> at.from + 1]
Beginning == [p |-> 1, n |-> 1, star |-> 0, from |-> 1]

Scanned(scan, pattern, name, at) ==
    IF at.n > Len(name) THEN \A i \in at.p .. Len(pattern) : pattern[i] = "*"
    ELSE IF AtStar(pattern, at) THEN scan[StarFound(at)]
    ELSE IF AtLetter(pattern, name, at) THEN scan[LetterFound(at)]
    ELSE at.star # 0 /\ scan[BackToStar(at)]

IsScan(scan, pattern, name) ==
    \A at \in ScanPlaces(pattern, name) : scan[at] = Scanned(scan, pattern, name, at)

LEMMA PlacesNext ==
    ASSUME NEW pattern, Len(pattern) \in Nat, NEW name, Len(name) \in Nat,
           NEW at \in ScanPlaces(pattern, name), ~(at.n > Len(name))
    PROVE  /\ at.p < Len(pattern) + 1 => StarFound(at) \in ScanPlaces(pattern, name)
           /\ at.p < Len(pattern) + 1 => LetterFound(at) \in ScanPlaces(pattern, name)
           /\ at.star # 0 => BackToStar(at) \in ScanPlaces(pattern, name)
    BY DEF ScanPlaces, StarFound, LetterFound, BackToStar

\* The places from which a set of places, where the scan succeeds, is reached at once.
Turning(pattern, name, T, at) ==
    \/ at.n > Len(name) /\ \A i \in at.p .. Len(pattern) : pattern[i] = "*"
    \/ ~(at.n > Len(name)) /\ AtStar(pattern, at) /\ StarFound(at) \in T
    \/ ~(at.n > Len(name)) /\ ~AtStar(pattern, at) /\ AtLetter(pattern, name, at) /\ LetterFound(at) \in T
    \/ /\ ~(at.n > Len(name)) /\ ~AtStar(pattern, at) /\ ~AtLetter(pattern, name, at)
       /\ at.star # 0 /\ BackToStar(at) \in T

\* There is a scan: it succeeds at the places that every set has which it must not leave.
LEMMA ScanExists ==
    ASSUME NEW pattern, Len(pattern) \in Nat, NEW name, Len(name) \in Nat
    PROVE  \E scan : scan = [at \in ScanPlaces(pattern, name) |-> Scanned(scan, pattern, name, at)]
    <1> DEFINE S == ScanPlaces(pattern, name)
               Turn(T, at) == Turning(pattern, name, T, at)
               Closed(T) == \A at \in S : Turn(T, at) => at \in T
               Good == {at \in S : \A T \in SUBSET S : Closed(T) => at \in T}
               scan == [at \in S |-> at \in Good]
    <1>1. ASSUME NEW T, NEW U, T \subseteq U, NEW at, Turn(T, at) PROVE Turn(U, at)
        BY <1>1 DEF Turning
    <1> HIDE DEF Turn
    <1>2. ASSUME NEW at \in S, Turn(Good, at) PROVE at \in Good
        <2> SUFFICES ASSUME NEW T \in SUBSET S, Closed(T) PROVE at \in T
            OBVIOUS
        <2>1. Good \subseteq T
            OBVIOUS
        <2>2. Turn(T, at)
            <3> HIDE DEF Good, Closed, S
            <3> QED BY <1>1, <1>2, <2>1
        <2> QED BY <2>2
    <1>3. ASSUME NEW at \in Good PROVE Turn(Good, at)
        <2> DEFINE U == {x \in Good : Turn(Good, x)}
        <2>1. U \subseteq Good /\ U \in SUBSET S
            OBVIOUS
        <2>2. ASSUME NEW x \in S, Turn(U, x) PROVE x \in U
            <3>1. Turn(Good, x)
                <4> HIDE DEF U, Good, Closed, S
                <4> QED BY <1>1, <2>1, <2>2
            <3>2. x \in Good
                <4> HIDE DEF U, Good, Closed, S
                <4> QED BY <1>2, <2>2, <3>1
            <3> QED BY <3>1, <3>2
        <2>3. Closed(U)
            <3> HIDE DEF U
            <3> QED BY <2>2
        <2>4. at \in U
            <3> HIDE DEF U
            <3> QED BY <2>1, <2>3
        <2> QED BY <2>4
    <1>4. Good \subseteq S
        OBVIOUS
    <1>5. ASSUME NEW at \in S PROVE scan[at] = Scanned(scan, pattern, name, at)
        <2> HIDE DEF Good, S
        <2>1. scan[at] = (at \in Good)
            OBVIOUS
        <2>2. at \in Good <=> Turn(Good, at)
            BY <1>2, <1>3
        <2>3. CASE at.n > Len(name)
            <3> DEFINE stars == \A i \in at.p .. Len(pattern) : pattern[i] = "*"
            <3>1. at \in Good <=> stars
                BY <2>2, <2>3 DEF Turn, Turning
            <3>2. Scanned(scan, pattern, name, at) = stars
                BY <2>3, Zenon DEF Scanned
            <3> HIDE DEF scan, stars
            <3>3. (at \in Good) = (stars = TRUE)
                BY <3>1
            <3>4. stars \in BOOLEAN
                BY DEF stars
            <3> QED BY <2>1, <3>2, <3>3, <3>4
        <2>4. CASE ~(at.n > Len(name)) /\ AtStar(pattern, at)
            <3>1. at \in Good <=> StarFound(at) \in Good
                BY <2>2, <2>4 DEF Turn, Turning
            <3>2. Scanned(scan, pattern, name, at) = scan[StarFound(at)]
                BY <2>4, Zenon DEF Scanned
            <3>3. StarFound(at) \in S
                BY <2>4, PlacesNext DEF S, AtStar
            <3> QED BY <2>1, <3>1, <3>2, <3>3
        <2>5. CASE ~(at.n > Len(name)) /\ ~AtStar(pattern, at) /\ AtLetter(pattern, name, at)
            <3>1. at \in Good <=> LetterFound(at) \in Good
                BY <2>2, <2>5 DEF Turn, Turning
            <3>2. Scanned(scan, pattern, name, at) = scan[LetterFound(at)]
                BY <2>5, Zenon DEF Scanned
            <3>3. LetterFound(at) \in S
                BY <2>5, PlacesNext DEF S, AtLetter
            <3> QED BY <2>1, <3>1, <3>2, <3>3
        <2>6. CASE ~(at.n > Len(name)) /\ ~AtStar(pattern, at) /\ ~AtLetter(pattern, name, at)
            <3>1. at \in Good <=> at.star # 0 /\ BackToStar(at) \in Good
                BY <2>2, <2>6 DEF Turn, Turning
            <3>2. Scanned(scan, pattern, name, at) = (at.star # 0 /\ scan[BackToStar(at)])
                BY <2>6, Zenon DEF Scanned
            <3>3. at.star # 0 => BackToStar(at) \in S
                BY <2>6, PlacesNext DEF S
            <3>4. CASE at.star # 0
                <4>1. scan[BackToStar(at)] = (BackToStar(at) \in Good)
                    BY <3>3, <3>4
                <4>2. (at \in Good) = (BackToStar(at) \in Good)
                    BY <3>1, <3>4
                <4>3. Scanned(scan, pattern, name, at) = (at.star # 0 /\ (BackToStar(at) \in Good))
                    BY <3>2, <4>1, Zenon
                <4>4. (at.star # 0 /\ (BackToStar(at) \in Good)) = (BackToStar(at) \in Good)
                    BY <3>4
                <4> HIDE DEF scan
                <4> QED BY <2>1, <4>2, <4>3, <4>4, Zenon
            <3>5. CASE at.star = 0
                BY <2>1, <3>1, <3>2, <3>5
            <3> QED BY <3>4, <3>5
        <2> QED BY <2>3, <2>4, <2>5, <2>6
    <1>6. scan = [at \in S |-> Scanned(scan, pattern, name, at)]
        <2>1. \A at \in S : scan[at] = Scanned(scan, pattern, name, at)
            BY <1>5
        <2>2. scan = [at \in S |-> scan[at]]
            OBVIOUS
        <2> HIDE DEF scan, S
        <2> QED BY <2>1, <2>2
    <1> HIDE DEF scan
    <1> QED BY <1>6

LEMMA MatchesScan ==
    ASSUME NEW pattern, Len(pattern) \in Nat, NEW name, Len(name) \in Nat
    PROVE  \E scan : IsScan(scan, pattern, name) /\ MatchesPattern(pattern, name) = scan[Beginning]
    <1> DEFINE Equation(scan) == scan = [at \in ScanPlaces(pattern, name) |-> Scanned(scan, pattern, name, at)]
               chosen == CHOOSE scan : Equation(scan)
    <1>1. Equation(chosen)
        <2>1. \E scan : Equation(scan)
            BY ScanExists
        <2> HIDE DEF Equation
        <2> QED BY <2>1
    <1>2. MatchesPattern(pattern, name) = chosen[Beginning]
        BY DEF MatchesPattern, ScanPlaces, Scanned, AtStar, AtLetter, StarFound, LetterFound, BackToStar, Beginning
    <1>3. IsScan(chosen, pattern, name)
        <2> HIDE DEF chosen
        <2> QED BY <1>1 DEF IsScan
    <1> QED BY <1>2, <1>3

\* The places from which the name is what the pattern from p on means.
RestOf(rest, pattern, name, p) ==
    IF p > Len(pattern) THEN {Len(name) + 1}
    ELSE IF pattern[p] = "*" THEN {n \in 1 .. Len(name) + 1 : \E m \in rest[p + 1] : n <= m}
    ELSE {n \in 1 .. Len(name) : pattern[p] \in {"?", name[n]} /\ n + 1 \in rest[p + 1]}

IsRest(rest, pattern, name) ==
    \A p \in 1 .. Len(pattern) + 1 : rest[p] = RestOf(rest, pattern, name, p)

LEMMA StandsRest ==
    ASSUME NEW pattern, Len(pattern) \in Nat, NEW name, Len(name) \in Nat
    PROVE  \E rest : IsRest(rest, pattern, name) /\ Stands(pattern, name) = (1 \in rest[1])
    <1> DEFINE P == Len(pattern)
               S == SUBSET (1 .. Len(name) + 1)
               Turned(R, p) == IF pattern[p] = "*" THEN {n \in 1 .. Len(name) + 1 : \E m \in R : n <= m}
                               ELSE {n \in 1 .. Len(name) : pattern[p] \in {"?", name[n]} /\ n + 1 \in R}
               step == [i \in 1 .. P |-> [R \in S |-> Turned(R, P + 1 - i)]]
               last == {Len(name) + 1}
    <1>1. P \in Nat /\ last \in S
        OBVIOUS
    <1>2. step \in [1 .. P -> [S -> S]]
        <2>1. ASSUME NEW R, NEW p PROVE Turned(R, p) \in S
            OBVIOUS
        <2> HIDE DEF Turned, S, P
        <2> QED BY <2>1
    <1>3. PICK f \in [0 .. P -> S] : f[0] = last /\ \A i \in 1 .. P : f[i] = step[i][f[i - 1]]
        <2> HIDE DEF P, S, step, last
        <2>1. Runs(P, S, last, step) # {}
            BY <1>1, <1>2, LoopExists
        <2> QED BY <2>1 DEF Runs
    <1> DEFINE Equation(rest) == rest = [p \in 1 .. Len(pattern) + 1 |-> RestOf(rest, pattern, name, p)]
               g == [p \in 1 .. P + 1 |-> f[P + 1 - p]]
               chosen == CHOOSE rest : Equation(rest)
    <1>4. ASSUME NEW p \in 1 .. P + 1 PROVE g[p] = RestOf(g, pattern, name, p)
        <2>1. CASE p = P + 1
            <3>1. g[p] = last /\ p > Len(pattern)
                BY <1>1, <1>3, <2>1
            <3> QED BY <3>1 DEF RestOf
        <2>2. CASE p # P + 1
            <3>1. P + 1 - p \in 1 .. P /\ p + 1 \in 1 .. P + 1 /\ P + 1 - (P + 1 - p) = p /\ ~(p > P)
                  /\ (P + 1 - p) - 1 = P + 1 - (p + 1) /\ (P + 1 - p) - 1 \in 0 .. P
                BY <1>1, <2>2
            <3>2. f[P + 1 - p] = step[P + 1 - p][f[(P + 1 - p) - 1]] /\ f[(P + 1 - p) - 1] \in S
                <4> HIDE DEF step, S, P
                <4> QED BY <1>3, <3>1
            <3>3. g[p + 1] = f[(P + 1 - p) - 1] /\ g[p] = f[P + 1 - p]
                BY <3>1
            <3>4. f[P + 1 - p] = Turned(g[p + 1], p)
                <4> HIDE DEF Turned, S, P, g
                <4> QED BY <3>1, <3>2, <3>3
            <3>5. RestOf(g, pattern, name, p) = Turned(g[p + 1], p)
                <4> HIDE DEF g
                <4> QED BY <3>1, Zenon DEF RestOf, P, Turned
            <3> HIDE DEF Turned, g, P
            <3> QED BY <3>3, <3>4, <3>5
        <2> QED BY <2>1, <2>2
    <1>5. Equation(g)
        <2>1. g = [p \in 1 .. P + 1 |-> g[p]]
            OBVIOUS
        <2> HIDE DEF g
        <2> QED BY <1>4, <2>1
    <1>6. Equation(chosen)
        <2> HIDE DEF Equation, g
        <2> QED BY <1>5
    <1>7. Stands(pattern, name) = (1 \in chosen[1])
        BY DEF Stands, RestOf
    <1>8. IsRest(chosen, pattern, name)
        <2> HIDE DEF chosen
        <2> QED BY <1>6 DEF IsRest
    <1> QED BY <1>7, <1>8

LEMMA RestCases ==
    ASSUME NEW pattern, Len(pattern) \in Nat, NEW name, Len(name) \in Nat, NEW rest, IsRest(rest, pattern, name),
           NEW p \in 1 .. Len(pattern) + 1
    PROVE  /\ rest[p] \subseteq 1 .. Len(name) + 1
           /\ p > Len(pattern) => rest[p] = {Len(name) + 1}
           /\ p <= Len(pattern) /\ pattern[p] = "*" =>
                 \A n : n \in rest[p] <=> n \in 1 .. Len(name) + 1 /\ \E m \in rest[p + 1] : n <= m
           /\ p <= Len(pattern) /\ pattern[p] # "*" =>
                 \A n : n \in rest[p] <=> n \in 1 .. Len(name) /\ pattern[p] \in {"?", name[n]} /\ n + 1 \in rest[p + 1]
    <1>1. rest[p] = RestOf(rest, pattern, name, p)
        BY DEF IsRest
    <1> QED BY <1>1 DEF RestOf

\* At the end of the name only stars may be left.
LEMMA RestAtEnd ==
    ASSUME NEW pattern, Len(pattern) \in Nat, NEW name, Len(name) \in Nat, NEW rest, IsRest(rest, pattern, name),
           NEW q \in 1 .. Len(pattern) + 1
    PROVE  Len(name) + 1 \in rest[q] <=> \A i \in q .. Len(pattern) : pattern[i] = "*"
    <1> DEFINE P == Len(pattern)
               N == Len(name)
               Right(p) == N + 1 \in rest[p] <=> \A i \in p .. P : pattern[i] = "*"
               right == [k \in 0 .. P |-> Right(P + 1 - k)]
    <1>1. Right(P + 1)
        <2>1. P + 1 \in 1 .. P + 1 /\ P + 1 > P /\ \A i \in (P + 1) .. P : FALSE
            OBVIOUS
        <2>2. rest[P + 1] = {N + 1}
            BY <2>1, RestCases
        <2> QED BY <2>1, <2>2
    <1>2. ASSUME NEW p \in 1 .. P, Right(p + 1) PROVE Right(p)
        <2>1. p \in 1 .. P + 1 /\ p + 1 \in 1 .. P + 1 /\ p <= P /\ p .. P = {p} \cup ((p + 1) .. P)
            OBVIOUS
        <2>2. rest[p + 1] \subseteq 1 .. N + 1
            BY <2>1, RestCases
        <2>3. CASE pattern[p] = "*"
            <3>1. N + 1 \in rest[p] <=> N + 1 \in 1 .. N + 1 /\ \E m \in rest[p + 1] : N + 1 <= m
                BY <2>1, <2>3, RestCases
            <3>2. N + 1 \in rest[p] <=> N + 1 \in rest[p + 1]
                BY <2>2, <3>1
            <3>3. (\A i \in p .. P : pattern[i] = "*") <=> (\A i \in (p + 1) .. P : pattern[i] = "*")
                BY <2>1, <2>3
            <3> QED BY <1>2, <3>2, <3>3
        <2>4. CASE pattern[p] # "*"
            <3>1. N + 1 \in rest[p] => N + 1 \in 1 .. N
                BY <2>1, <2>4, RestCases
            <3>2. ~(N + 1 \in 1 .. N) /\ p \in p .. P
                OBVIOUS
            <3> QED BY <2>4, <3>1, <3>2
        <2> QED BY <2>3, <2>4
    <1> HIDE DEF Right
    <1>3. \A k \in 0 .. P : right[k] \in {TRUE}
        <2>1. right[0] \in {TRUE}
            <3>1. right[0] = Right(P + 1)
                OBVIOUS
            <3> QED BY <1>1, <3>1
        <2>2. ASSUME NEW k \in 1 .. P, right[k - 1] \in {TRUE} PROVE right[k] \in {TRUE}
            <3>1. k - 1 \in 0 .. P /\ k \in 0 .. P /\ P + 1 - (k - 1) = (P + 1 - k) + 1 /\ P + 1 - k \in 1 .. P
                OBVIOUS
            <3>2. Right((P + 1 - k) + 1)
                BY <2>2, <3>1
            <3>3. Right(P + 1 - k)
                BY <1>2, <3>1, <3>2
            <3> QED BY <3>1, <3>3
        <2>3. P \in Nat
            OBVIOUS
        <2> HIDE DEF right, P
        <2> QED BY <2>1, <2>2, <2>3, LoopKeeps
    <1>4. Right(q)
        <2>1. P + 1 - q \in 0 .. P /\ P + 1 - (P + 1 - q) = q
            OBVIOUS
        <2>2. right[P + 1 - q] = Right(q)
            BY <2>1
        <2> QED BY <1>3, <2>1, <2>2
    <1> QED BY <1>4 DEF Right

\* What the loop has done when it is at a place: behind the last star come letters
\* only, as many as the name has gone on since.
Between(pattern, at) ==
    at.star # 0 => /\ pattern[at.star] = "*"
                   /\ at.p - (at.star + 1) = at.n - at.from
                   /\ \A i \in (at.star + 1) .. (at.p - 1) : pattern[i] # "*"

\* What the loop is to find at a place: the rest of the name here, or what follows the
\* last star further on.  Earlier stars need not be gone back to.
Sought(rest, at, N) ==
    \/ at.n \in rest[at.p]
    \/ at.star # 0 /\ \E m \in (at.from + 1) .. (N + 1) : m \in rest[at.star + 1]

\* The letters behind the last star take the name on by their number.
LEMMA LettersOn ==
    ASSUME NEW pattern, Len(pattern) \in Nat, NEW name, Len(name) \in Nat, NEW rest, IsRest(rest, pattern, name),
           NEW at \in ScanPlaces(pattern, name), Between(pattern, at), at.star # 0,
           NEW m \in rest[at.star + 1]
    PROVE  LET L == at.p - (at.star + 1)
           IN  L \in Nat /\ m \in 1 .. Len(name) + 1 /\ m + L <= Len(name) + 1 /\ m + L \in rest[at.p]
    <1> DEFINE N == Len(name)
               s == at.star + 1
               L == at.p - s
               Good(k) == m + k <= N + 1 /\ m + k \in rest[s + k]
               good == [k \in 0 .. L |-> Good(k)]
    <1>1. /\ s \in 1 .. at.p /\ at.p \in 1 .. Len(pattern) + 1 /\ s \in Nat /\ L \in Nat
          /\ s \in 1 .. Len(pattern) + 1
          /\ \A i \in s .. (at.p - 1) : pattern[i] # "*"
        BY DEF ScanPlaces, Between
    <1>2. m \in 1 .. N + 1
        <2>1. rest[s] \subseteq 1 .. N + 1
            BY <1>1, RestCases
        <2> QED BY <2>1
    <1> HIDE DEF s, L
    <1>3. Good(0)
        <2>1. m + 0 = m /\ s + 0 = s
            BY <1>1, <1>2
        <2> QED BY <1>2, <2>1 DEF s
    <1>4. ASSUME NEW k \in 1 .. L, Good(k - 1) PROVE Good(k)
        <2> DEFINE P == Len(pattern)
                   p == at.p
        <2>0. p \in Nat /\ p <= P + 1 /\ P \in Nat /\ m \in Nat /\ k \in Int /\ 1 <= k /\ k <= p - s
            <3>1. k \in 1 .. p - s
                BY DEF L
            <3> QED BY <1>1, <1>2, <3>1
        <2>1. /\ s + (k - 1) \in 1 .. Len(pattern) + 1 /\ s + (k - 1) <= Len(pattern)
              /\ s + (k - 1) \in s .. (at.p - 1)
              /\ (s + (k - 1)) + 1 = s + k /\ (m + (k - 1)) + 1 = m + k
            <3>1. s \in Nat /\ 1 <= s
                BY <1>1
            <3> HIDE DEF p, P
            <3>2. /\ s + (k - 1) \in 1 .. P + 1 /\ s + (k - 1) <= P
                  /\ s + (k - 1) \in s .. (p - 1)
                  /\ (s + (k - 1)) + 1 = s + k /\ (m + (k - 1)) + 1 = m + k
                BY <2>0, <3>1
            <3> QED BY <3>2 DEF p, P
        <2>2. pattern[s + (k - 1)] # "*"
            BY <1>1, <2>1
        <2>3. m + (k - 1) \in rest[s + (k - 1)]
            BY <1>4
        <2>4. m + (k - 1) \in 1 .. N /\ (m + (k - 1)) + 1 \in rest[(s + (k - 1)) + 1]
            BY <2>1, <2>2, <2>3, RestCases
        <2> QED BY <1>2, <2>1, <2>4
    <1> HIDE DEF Good
    <1>5. Good(L)
        <2>1. good[0] \in {TRUE}
            <3>1. 0 \in 0 .. L
                BY <1>1
            <3>2. good[0] = Good(0)
                BY <3>1
            <3> QED BY <1>3, <3>2
        <2>2. ASSUME NEW k \in 1 .. L, good[k - 1] \in {TRUE} PROVE good[k] \in {TRUE}
            <3>1. k - 1 \in 0 .. L /\ k \in 0 .. L
                BY <1>1
            <3>2. Good(k - 1)
                BY <2>2, <3>1
            <3> QED BY <1>4, <3>1, <3>2
        <2>3. \A k \in 0 .. L : good[k] \in {TRUE}
            <3> HIDE DEF good
            <3> QED BY <1>1, <2>1, <2>2, LoopKeeps
        <2>4. L \in 0 .. L
            BY <1>1
        <2> QED BY <2>3, <2>4
    <1>6. s + L = at.p
        BY <1>1 DEF L
    <1> QED BY <1>1, <1>2, <1>5, <1>6 DEF Good, L, s

\* What comes later in the loop: a later star, or the same further on in the name.
Later(b, a) ==
    \/ b.star > a.star
    \/ b.star = a.star /\ b.from > a.from
    \/ b.star = a.star /\ b.from = a.from /\ b.n > a.n

LEMMA LastPlace ==
    ASSUME NEW pattern, Len(pattern) \in Nat, NEW name, Len(name) \in Nat,
           NEW T \in SUBSET ScanPlaces(pattern, name), T # {}
    PROVE  \E a \in T : \A b \in T : ~Later(b, a)
    <1> DEFINE P == Len(pattern)
               N == Len(name)
    <1>0. \A a \in T : a.star \in 0 .. P /\ a.from \in 1 .. N + 1 /\ a.n \in 1 .. N + 1
        BY DEF ScanPlaces
    <1> DEFINE A == {x \in 0 .. P : \E a \in T : a.star = P - x}
    <1>1. PICK x \in A : \A y \in A : x <= y
        <2>1. A \in SUBSET (0 .. P)
            OBVIOUS
        <2>2. PICK a \in T : TRUE
            OBVIOUS
        <2>3. P - a.star \in A
            <3>1. P - a.star \in 0 .. P /\ a.star = P - (P - a.star)
                BY <1>0
            <3> QED BY <3>1
        <2> HIDE DEF A
        <2> QED BY <2>1, <2>3, LeastNumber
    <1> DEFINE U == {a \in T : a.star = P - x}
               B == {z \in 0 .. N : \E a \in U : a.from = N + 1 - z}
    <1>2. \A b \in T : ~(b.star > P - x)
        <2> SUFFICES ASSUME NEW b \in T, b.star > P - x PROVE FALSE
            OBVIOUS
        <2>1. P - b.star \in 0 .. P /\ b.star = P - (P - b.star) /\ x \in 0 .. P /\ P - b.star < x
            BY <1>0, <1>1
        <2>2. P - b.star \in A
            BY <2>1
        <2> HIDE DEF A
        <2> QED BY <1>1, <2>1, <2>2
    <1>3. U # {}
        BY <1>1
    <1>4. PICK z \in B : \A y \in B : z <= y
        <2>1. B \in SUBSET (0 .. N)
            OBVIOUS
        <2>2. PICK a \in U : TRUE
            BY <1>3
        <2>3. N + 1 - a.from \in B
            <3>1. N + 1 - a.from \in 0 .. N /\ a.from = N + 1 - (N + 1 - a.from)
                BY <1>0
            <3> QED BY <3>1
        <2> HIDE DEF B
        <2> QED BY <2>1, <2>3, LeastNumber
    <1> DEFINE V == {a \in U : a.from = N + 1 - z}
               C == {w \in 0 .. N : \E a \in V : a.n = N + 1 - w}
    <1>5. \A b \in U : ~(b.from > N + 1 - z)
        <2> SUFFICES ASSUME NEW b \in U, b.from > N + 1 - z PROVE FALSE
            OBVIOUS
        <2>1. N + 1 - b.from \in 0 .. N /\ b.from = N + 1 - (N + 1 - b.from) /\ z \in 0 .. N /\ N + 1 - b.from < z
            BY <1>0, <1>4
        <2>2. N + 1 - b.from \in B
            BY <2>1
        <2> HIDE DEF B
        <2> QED BY <1>4, <2>1, <2>2
    <1>6. V # {}
        BY <1>4
    <1>7. PICK w \in C : \A y \in C : w <= y
        <2>1. C \in SUBSET (0 .. N)
            OBVIOUS
        <2>2. PICK a \in V : TRUE
            BY <1>6
        <2>3. N + 1 - a.n \in C
            <3>1. N + 1 - a.n \in 0 .. N /\ a.n = N + 1 - (N + 1 - a.n)
                BY <1>0
            <3> QED BY <3>1
        <2> HIDE DEF C
        <2> QED BY <2>1, <2>3, LeastNumber
    <1>8. PICK a \in V : a.n = N + 1 - w
        BY <1>7
    <1>9. \A b \in V : ~(b.n > N + 1 - w)
        <2> SUFFICES ASSUME NEW b \in V, b.n > N + 1 - w PROVE FALSE
            OBVIOUS
        <2>0. b \in T
            OBVIOUS
        <2>1. N + 1 - b.n \in 0 .. N /\ b.n = N + 1 - (N + 1 - b.n) /\ w \in 0 .. N /\ N + 1 - b.n < w
            <3>1. b.n \in 1 .. N + 1 /\ w \in 0 .. N
                BY <1>0, <1>7, <2>0
            <3> QED BY <3>1
        <2>2. N + 1 - b.n \in C
            BY <2>1
        <2> HIDE DEF C
        <2> QED BY <1>7, <2>1, <2>2
    <1>10. ASSUME NEW b \in T PROVE ~Later(b, a)
        <2>1. a \in T /\ a.star = P - x /\ a.from = N + 1 - z /\ a.n = N + 1 - w
            BY <1>8
        <2>2. b.star = P - x => b \in U
            OBVIOUS
        <2>3. b.star = P - x /\ b.from = N + 1 - z => b \in V
            OBVIOUS
        <2> HIDE DEF U, V
        <2> QED BY <1>2, <1>5, <1>9, <2>1, <2>2, <2>3 DEF Later
    <1> QED BY <1>8, <1>10

\* What the next place of the loop finds is what this one is to find.
LEMMA SoughtNext ==
    ASSUME NEW pattern, Len(pattern) \in Nat, NEW name, Len(name) \in Nat, NEW rest, IsRest(rest, pattern, name),
           NEW at \in ScanPlaces(pattern, name), Between(pattern, at)
    PROVE  LET N == Len(name) IN
           /\ at.n > N => (Sought(rest, at, N) <=> \A i \in at.p .. Len(pattern) : pattern[i] = "*")
           /\ ~(at.n > N) /\ AtStar(pattern, at) =>
                 /\ Sought(rest, at, N) <=> Sought(rest, StarFound(at), N)
                 /\ Between(pattern, StarFound(at)) /\ Later(StarFound(at), at)
           /\ ~(at.n > N) /\ ~AtStar(pattern, at) /\ AtLetter(pattern, name, at) =>
                 /\ Sought(rest, at, N) <=> Sought(rest, LetterFound(at), N)
                 /\ Between(pattern, LetterFound(at)) /\ Later(LetterFound(at), at)
           /\ ~(at.n > N) /\ ~AtStar(pattern, at) /\ ~AtLetter(pattern, name, at) =>
                 /\ Sought(rest, at, N) <=> at.star # 0 /\ Sought(rest, BackToStar(at), N)
                 /\ Between(pattern, BackToStar(at)) /\ Later(BackToStar(at), at)
    <1> DEFINE N == Len(name)
               P == Len(pattern)
               L == at.p - (at.star + 1)
    <1>1. /\ at.p \in 1 .. P + 1 /\ at.n \in 1 .. N + 1 /\ at.star \in 0 .. P /\ at.from \in 1 .. N + 1
          /\ at.star < at.p /\ at.from <= at.n
        BY DEF ScanPlaces
    <1>2. ASSUME at.star # 0, NEW m \in (at.from + 1) .. (N + 1), m \in rest[at.star + 1]
          PROVE  L \in Nat /\ m + L <= N + 1 /\ m + L \in rest[at.p] /\ m + L > at.n
        <2>1. L \in Nat /\ m + L <= N + 1 /\ m + L \in rest[at.p]
            BY <1>2, LettersOn
        <2>2. L = at.n - at.from
            BY <1>2 DEF Between
        <2> QED BY <1>1, <2>1, <2>2
    <1>3. CASE at.n > N
        <2>1. at.n = N + 1
            BY <1>1, <1>3
        <2>2. ~(at.star # 0 /\ \E m \in (at.from + 1) .. (N + 1) : m \in rest[at.star + 1])
            <3> SUFFICES ASSUME at.star # 0, NEW m \in (at.from + 1) .. (N + 1), m \in rest[at.star + 1] PROVE FALSE
                OBVIOUS
            <3>1. L \in Nat /\ m + L <= N + 1 /\ m + L > at.n
                BY <1>2
            <3> QED BY <2>1, <3>1
        <2>3. N + 1 \in rest[at.p] <=> \A i \in at.p .. P : pattern[i] = "*"
            BY <1>1, RestAtEnd
        <2> QED BY <1>3, <2>1, <2>2, <2>3 DEF Sought
    <1>4. CASE ~(at.n > N) /\ AtStar(pattern, at)
        <2>1. at.p <= P /\ pattern[at.p] = "*"
            BY <1>1, <1>4 DEF AtStar
        <2>2. \A n : n \in rest[at.p] <=> n \in 1 .. N + 1 /\ \E m \in rest[at.p + 1] : n <= m
            BY <1>1, <2>1, RestCases
        <2>3. rest[at.p + 1] \subseteq 1 .. N + 1
            <3>1. at.p + 1 \in 1 .. P + 1
                BY <1>1, <2>1
            <3> QED BY <3>1, RestCases
        <2>4. Sought(rest, at, N) => at.n \in rest[at.p]
            <3> SUFFICES ASSUME at.star # 0, NEW m \in (at.from + 1) .. (N + 1), m \in rest[at.star + 1]
                         PROVE  at.n \in rest[at.p]
                BY DEF Sought
            <3>1. L \in Nat /\ m + L <= N + 1 /\ m + L \in rest[at.p] /\ m + L > at.n
                BY <1>2
            <3>2. PICK q \in rest[at.p + 1] : m + L <= q
                BY <2>2, <3>1
            <3>3. at.n <= q
                <4>1. q \in Nat /\ m \in Nat /\ at.n \in Nat
                    BY <1>1, <2>3, <3>2
                <4> HIDE DEF L
                <4> QED BY <3>1, <3>2, <4>1
            <3> QED BY <1>1, <2>2, <3>3
        <2>5. Sought(rest, at, N) <=> at.n \in rest[at.p]
            BY <2>4 DEF Sought
        <2> DEFINE b == StarFound(at)
        <2>6. b.p = at.p + 1 /\ b.n = at.n /\ b.star = at.p /\ b.from = at.n
            BY DEF StarFound
        <2> HIDE DEF b
        <2>7. Sought(rest, b, N) <=> at.n \in rest[at.p]
            <3>1. at.n \in rest[at.p] <=> \E m \in rest[at.p + 1] : at.n <= m
                BY <1>1, <2>2
            <3>2. at.p # 0
                BY <1>1
            <3>3. Sought(rest, b, N) <=> \/ at.n \in rest[at.p + 1]
                                         \/ \E m \in (at.n + 1) .. (N + 1) : m \in rest[at.p + 1]
                BY <2>6, <3>2 DEF Sought
            <3> QED BY <1>1, <2>3, <3>1, <3>3
        <2>8. Between(pattern, b)
            BY <1>1, <2>1, <2>6 DEF Between
        <2>9. Later(b, at)
            BY <1>1, <2>6 DEF Later
        <2> QED BY <1>4, <2>5, <2>7, <2>8, <2>9 DEF b
    <1>5. CASE ~(at.n > N) /\ ~AtStar(pattern, at) /\ AtLetter(pattern, name, at)
        <2>1. at.p <= P /\ pattern[at.p] # "*" /\ pattern[at.p] \in {"?", name[at.n]} /\ at.n \in 1 .. N
            BY <1>1, <1>5 DEF AtStar, AtLetter
        <2>2. at.n \in rest[at.p] <=> at.n + 1 \in rest[at.p + 1]
            BY <1>1, <2>1, RestCases
        <2> DEFINE b == LetterFound(at)
        <2>3. b.p = at.p + 1 /\ b.n = at.n + 1 /\ b.star = at.star /\ b.from = at.from
            BY DEF LetterFound
        <2> HIDE DEF b
        <2>4. Sought(rest, at, N) <=> Sought(rest, b, N)
            BY <2>2, <2>3 DEF Sought
        <2>5. Between(pattern, b)
            <3>1. \A i \in (at.star + 1) .. ((at.p + 1) - 1) : i \in (at.star + 1) .. (at.p - 1) \/ i = at.p
                BY <1>1
            <3>2. SUFFICES ASSUME at.star # 0
                           PROVE  /\ pattern[at.star] = "*"
                                  /\ (at.p + 1) - (at.star + 1) = (at.n + 1) - at.from
                                  /\ \A i \in (at.star + 1) .. ((at.p + 1) - 1) : pattern[i] # "*"
                BY <2>3 DEF Between
            <3>3. /\ pattern[at.star] = "*"
                  /\ at.p - (at.star + 1) = at.n - at.from
                  /\ \A i \in (at.star + 1) .. (at.p - 1) : pattern[i] # "*"
                BY <3>2 DEF Between
            <3>4. (at.p + 1) - (at.star + 1) = (at.n + 1) - at.from
                <4> DEFINE p == at.p
                           star == at.star
                           n == at.n
                           from == at.from
                <4>1. p \in Int /\ star \in Int /\ n \in Int /\ from \in Int
                    BY <1>1
                <4>2. p - (star + 1) = n - from
                    BY <3>3
                <4> HIDE DEF p, star, n, from
                <4>3. (p + 1) - (star + 1) = (n + 1) - from
                    BY <4>1, <4>2
                <4> QED BY <4>3 DEF p, star, n, from
            <3> QED BY <2>1, <3>1, <3>3, <3>4
        <2>6. Later(b, at)
            BY <1>1, <2>3 DEF Later
        <2> QED BY <1>5, <2>4, <2>5, <2>6 DEF b
    <1>6. CASE ~(at.n > N) /\ ~AtStar(pattern, at) /\ ~AtLetter(pattern, name, at)
        <2>1. at.n \notin rest[at.p]
            <3>1. CASE at.p > P
                <4>1. rest[at.p] = {N + 1}
                    BY <1>1, <3>1, RestCases
                <4> QED BY <1>1, <1>6, <4>1
            <3>2. CASE at.p <= P
                <4>1. pattern[at.p] # "*" /\ pattern[at.p] \notin {"?", name[at.n]}
                    BY <1>1, <1>6, <3>2 DEF AtStar, AtLetter
                <4> QED BY <1>1, <3>2, <4>1, RestCases
            <3> QED BY <1>1, <3>1, <3>2
        <2> DEFINE b == BackToStar(at)
        <2>2. b.p = at.star + 1 /\ b.n = at.from + 1 /\ b.star = at.star /\ b.from = at.from + 1
            BY DEF BackToStar
        <2> HIDE DEF b
        <2>3. ASSUME at.star # 0 PROVE Sought(rest, at, N) <=> Sought(rest, b, N)
            <3>1. at.from + 1 \in (at.from + 1) .. (N + 1)
                BY <1>1, <1>6
            <3>2. \A m : m \in (at.from + 1) .. (N + 1) <=> m = at.from + 1 \/ m \in (at.from + 1 + 1) .. (N + 1)
                BY <1>1, <3>1
            <3>3. Sought(rest, at, N) <=> \E m \in (at.from + 1) .. (N + 1) : m \in rest[at.star + 1]
                BY <2>1, <2>3 DEF Sought
            <3>4. Sought(rest, b, N) <=> \/ at.from + 1 \in rest[at.star + 1]
                                         \/ \E m \in (at.from + 1 + 1) .. (N + 1) : m \in rest[at.star + 1]
                BY <2>2, <2>3 DEF Sought
            <3> QED BY <3>2, <3>3, <3>4
        <2>4. at.star = 0 => ~Sought(rest, at, N)
            BY <2>1 DEF Sought
        <2>5. Between(pattern, b)
            BY <1>1, <2>2 DEF Between
        <2>6. Later(b, at)
            BY <1>1, <2>2 DEF Later
        <2> QED BY <1>6, <2>3, <2>4, <2>5, <2>6 DEF b
    <1> QED BY <1>3, <1>4, <1>5, <1>6

\* matches_pattern finds what a pattern means, whatever the pattern and the name are.
LEMMA MatchesWhatItStandsFor ==
    ASSUME NEW pattern, Len(pattern) \in Nat, NEW name, Len(name) \in Nat
    PROVE  MatchesPattern(pattern, name) = Stands(pattern, name)
    <1> DEFINE N == Len(name)
               S == ScanPlaces(pattern, name)
    <1>1. PICK scan : IsScan(scan, pattern, name) /\ MatchesPattern(pattern, name) = scan[Beginning]
        BY MatchesScan
    <1>2. PICK rest : IsRest(rest, pattern, name) /\ Stands(pattern, name) = (1 \in rest[1])
        BY StandsRest
    <1> DEFINE Wrong == {at \in S : Between(pattern, at) /\ scan[at] # Sought(rest, at, N)}
    <1>3. Wrong = {}
        <2> SUFFICES ASSUME Wrong # {} PROVE FALSE
            OBVIOUS
        <2>1. PICK at \in Wrong : \A b \in Wrong : ~Later(b, at)
            <3>1. Wrong \in SUBSET ScanPlaces(pattern, name)
                OBVIOUS
            <3> HIDE DEF Wrong
            <3> QED BY <3>1, LastPlace
        <2>2. at \in S /\ Between(pattern, at) /\ scan[at] # Sought(rest, at, N)
            BY <2>1
        <2>3. ASSUME NEW b \in S, Between(pattern, b), Later(b, at) PROVE scan[b] = Sought(rest, b, N)
            BY <2>1, <2>3
        <2> HIDE DEF Wrong
        <2>4. scan[at] = Scanned(scan, pattern, name, at)
            BY <1>1, <2>2 DEF IsScan
        <2>5. CASE at.n > N
            <3> DEFINE stars == \A i \in at.p .. Len(pattern) : pattern[i] = "*"
            <3>1. Sought(rest, at, N) <=> stars
                BY <1>2, <2>2, <2>5, SoughtNext
            <3>2. Scanned(scan, pattern, name, at) = stars
                BY <2>5, Zenon DEF Scanned
            <3>3. stars \in BOOLEAN /\ Sought(rest, at, N) \in BOOLEAN
                BY DEF Sought
            <3> HIDE DEF stars
            <3>4. Sought(rest, at, N) = stars
                BY <3>1, <3>3
            <3> QED BY <2>2, <2>4, <3>2, <3>4
        <2>6. ASSUME NEW b \in S, Between(pattern, b), Later(b, at), Sought(rest, at, N) <=> Sought(rest, b, N),
                     scan[at] = scan[b]
              PROVE  FALSE
            <3>1. scan[b] = Sought(rest, b, N)
                BY <2>3, <2>6
            <3>2. Sought(rest, at, N) = Sought(rest, b, N)
                <4>1. Sought(rest, at, N) \in BOOLEAN /\ Sought(rest, b, N) \in BOOLEAN
                    BY DEF Sought
                <4> QED BY <2>6, <4>1
            <3> QED BY <2>2, <2>6, <3>1, <3>2
        <2>7. CASE ~(at.n > N) /\ AtStar(pattern, at)
            <3>1. StarFound(at) \in S
                BY <2>2, <2>7, PlacesNext DEF AtStar
            <3>2. scan[at] = scan[StarFound(at)]
                BY <2>4, <2>7, Zenon DEF Scanned
            <3>3. /\ Sought(rest, at, N) <=> Sought(rest, StarFound(at), N)
                  /\ Between(pattern, StarFound(at)) /\ Later(StarFound(at), at)
                BY <1>2, <2>2, <2>7, SoughtNext
            <3> QED BY <2>6, <3>1, <3>2, <3>3
        <2>8. CASE ~(at.n > N) /\ ~AtStar(pattern, at) /\ AtLetter(pattern, name, at)
            <3>1. LetterFound(at) \in S
                BY <2>2, <2>8, PlacesNext DEF AtLetter
            <3>2. scan[at] = scan[LetterFound(at)]
                BY <2>4, <2>8, Zenon DEF Scanned
            <3>3. /\ Sought(rest, at, N) <=> Sought(rest, LetterFound(at), N)
                  /\ Between(pattern, LetterFound(at)) /\ Later(LetterFound(at), at)
                BY <1>2, <2>2, <2>8, SoughtNext
            <3> QED BY <2>6, <3>1, <3>2, <3>3
        <2>9. CASE ~(at.n > N) /\ ~AtStar(pattern, at) /\ ~AtLetter(pattern, name, at)
            <3>1. scan[at] = (at.star # 0 /\ scan[BackToStar(at)])
                BY <2>4, <2>9, Zenon DEF Scanned
            <3>2. /\ Sought(rest, at, N) <=> at.star # 0 /\ Sought(rest, BackToStar(at), N)
                  /\ Between(pattern, BackToStar(at)) /\ Later(BackToStar(at), at)
                BY <1>2, <2>2, <2>9, SoughtNext
            <3>3. CASE at.star # 0
                <4>1. BackToStar(at) \in S
                    BY <2>2, <2>9, <3>3, PlacesNext
                <4>2. scan[BackToStar(at)] = Sought(rest, BackToStar(at), N)
                    BY <2>3, <3>2, <4>1
                <4>3. scan[BackToStar(at)] \in BOOLEAN
                    BY <4>2 DEF Sought
                <4>4. scan[at] = scan[BackToStar(at)]
                    BY <3>1, <3>3, <4>3
                <4> QED BY <2>6, <3>2, <3>3, <4>1, <4>4
            <3>4. CASE at.star = 0
                <4>1. scan[at] = FALSE
                    BY <3>1, <3>4
                <4>2. Sought(rest, at, N) = FALSE
                    BY <3>2, <3>4
                <4> QED BY <2>2, <4>1, <4>2
            <3> QED BY <3>3, <3>4
        <2> QED BY <2>5, <2>7, <2>8, <2>9
    <1>4. Beginning \in S /\ Between(pattern, Beginning)
        BY DEF ScanPlaces, Beginning, Between
    <1>5. scan[Beginning] = Sought(rest, Beginning, N)
        BY <1>3, <1>4
    <1>6. Sought(rest, Beginning, N) = (1 \in rest[1])
        <2>1. Beginning.p = 1 /\ Beginning.n = 1 /\ Beginning.star = 0
            BY DEF Beginning
        <2>2. Sought(rest, Beginning, N) <=> 1 \in rest[1]
            BY <2>1 DEF Sought
        <2>3. Sought(rest, Beginning, N) \in BOOLEAN
            BY DEF Sought
        <2> QED BY <2>2, <2>3
    <1> QED BY <1>1, <1>2, <1>5, <1>6

\* Its loop goes back to the last star only, and yet matches_pattern finds what a
\* pattern means, for patterns and names of any letters and any length.
THEOREM PatternsMean ==
    \A S : \A pattern \in Seq(S) : \A name \in Seq(S) : MatchesPattern(pattern, name) = Stands(pattern, name)
    BY MatchesWhatItStandsFor

\* The patterns and names of every store that is not open: PatternsAgree.
THEOREM PatternsRight == Spec => []PatternsAgree
    <1>1. ASSUME NEW S, NEW s \in UNION {[1 .. n -> S] : n \in 0 .. 4} PROVE Len(s) \in Nat
        <2>1. PICK n \in 0 .. 4 : s \in [1 .. n -> S]
            OBVIOUS
        <2>2. s \in Seq(S)
            BY <2>1
        <2> QED BY <2>2
    <1>2. WrongMatches = {}
        <2> SUFFICES ASSUME NEW pattern \in UNION {[1 .. n -> {"a", "b", "*", "?"}] : n \in 0 .. 4},
                            NEW name \in UNION {[1 .. n -> {"a", "b"}] : n \in 0 .. 4}
                     PROVE  MatchesPattern(pattern, name) = Stands(pattern, name)
            BY DEF WrongMatches
        <2>1. Len(pattern) \in Nat
            BY <1>1
        <2>2. Len(name) \in Nat
            BY <1>1
        <2> QED BY <2>1, <2>2, MatchesWhatItStandsFor
    <1>3. PatternsAgree
        BY <1>2 DEF PatternsAgree
    <1> QED BY <1>3, PTL

-------------------------------------------------------------------------------
(* What an opening adopts, file by file *)

LEMMA FrontOfSidecar ==
    /\ \A e \in Names : Front(SidecarName(e)) = e
    /\ \A m \in Names : IsSidecarName(m) => m = SidecarName(Front(m)) /\ Front(m) \in Names
    <1>0. Suffix \in DOMAIN Rank
        BY LettersAssumption DEF LettersAssumption
    <1>1. ASSUME NEW e \in Names PROVE Front(SidecarName(e)) = e
        <2>1. e \in Seq(DOMAIN Rank)
            BY DEF Names
        <2>2. Len(Append(e, Suffix)) - 1 = Len(e) /\ Len(e) \in Nat
            BY <1>0, <2>1
        <2>3. SubSeq(Append(e, Suffix), 1, Len(e)) = e
            BY <1>0, <2>1
        <2> QED BY <2>2, <2>3 DEF SidecarName, Front
    <1>2. ASSUME NEW m \in Names, IsSidecarName(m) PROVE m = SidecarName(Front(m)) /\ Front(m) \in Names
        <2>1. m \in Seq(DOMAIN Rank) /\ Len(m) \in Nat /\ Len(m) > 1 /\ m[Len(m)] = Suffix
            BY <1>2, LenProperties DEF Names, IsSidecarName, Last
        <2> DEFINE e == SubSeq(m, 1, Len(m) - 1)
        <2>2. e \in Seq(DOMAIN Rank) /\ Len(e) = Len(m) - 1 /\ \A i \in 1 .. Len(m) - 1 : e[i] = m[i]
            <3>1. 1 \in 1 .. Len(m) + 1 /\ Len(m) - 1 \in 0 .. Len(m) /\ Len(m) - 1 - 1 + 1 = Len(m) - 1
                BY <2>1
            <3> QED BY <2>1, <3>1, SubSeqProperties
        <2>3. Append(e, Suffix) \in Seq(DOMAIN Rank) /\ Len(Append(e, Suffix)) = Len(m)
              /\ \A i \in 1 .. Len(m) : Append(e, Suffix)[i] = m[i]
            <3> HIDE DEF e
            <3>1. Append(e, Suffix) \in Seq(DOMAIN Rank) /\ Len(Append(e, Suffix)) = Len(e) + 1
                  /\ \A i \in 1 .. Len(e) : Append(e, Suffix)[i] = e[i]
                  /\ Append(e, Suffix)[Len(e) + 1] = Suffix
                BY <1>0, <2>2, AppendProperties
            <3>2. \A i \in 1 .. Len(m) : i \in 1 .. Len(m) - 1 \/ i = Len(m)
                BY <2>1
            <3>3. Len(e) + 1 = Len(m)
                BY <2>1, <2>2
            <3> QED BY <2>1, <2>2, <3>1, <3>2, <3>3
        <2>4. Append(e, Suffix) = m
            <3> HIDE DEF e
            <3> QED BY <2>1, <2>3, SeqEqual
        <2>5. Front(m) = e
            BY DEF Front
        <2> HIDE DEF e
        <2> QED BY <2>2, <2>4, <2>5 DEF Names, SidecarName
    <1> QED BY <1>1, <1>2

\* A sidecar is that of a key of the store.
LEMMA SidecarOfKey ==
    ASSUME NEW n, NEW d \in Directories(n), Belongs(d), NEW m \in DOMAIN d, d[m].kind = "sidecar"
    PROVE  \E k \in Keys : m = SidecarOf(k) /\ Parses(d, k) /\ ReadSidecar(d, k) = d[m]
    <1> DEFINE k == d[m].key
    <1>1. m \in Names /\ IsMetadataFilename(m) /\ d[m] \in Contents(n) /\ Placed(m, d[m])
        BY ContentFacts, DirectoryFacts
    <1>2. m = SidecarOf(k)
        BY <1>1 DEF Placed, SidecarOf
    <1>3. m # StoreFile
        <2>1. d[m] # StoreMetadata
            BY DEF StoreMetadata
        <2> QED BY <1>1, <2>1 DEF Placed
    <1>4. m \in Lasting /\ At(d, m) = d[m]
        BY <1>1, <1>3 DEF Lasting, At, There
    <1>5. k \in Keys
        BY <1>4 DEF Belongs, KnownRecords
    <1> HIDE DEF k
    <1> QED BY <1>2, <1>4, <1>5, ReadAt

\* The files that a sweep may claim at its beginning are those that nobody claims.
LEMMA UnclaimedFiles ==
    ASSUME NEW n, NEW d \in Directories(n), Belongs(d), NEW name \in DOMAIN d
    PROVE  Unclaimed(d, name) <=>
               /\ ~IsMetadataFilename(name) /\ ~IsDotFile(name) /\ SidecarName(name) \notin DOMAIN d
               /\ name \notin OwnedFilenames(d, Adoption)
    <1>0. name \in Names /\ name # None
        <2>1. name \in Names
            BY DirectoryFacts
        <2> QED BY <2>1, NothingAssumption DEF NothingAssumption, Names
    <1>1. ASSUME Unclaimed(d, name), name \in OwnedFilenames(d, Adoption) PROVE FALSE
        <2> DEFINE named == {Front(m) : m \in {x \in DOMAIN d : IsSidecarName(x)}}
                   Bound(e) == LET sidecar == d[SidecarName(e)]
                               IN  IF sidecar.kind = "sidecar" THEN {sidecar.filename} \ {None} ELSE {}
                   bound == {f \in UNION {Bound(e) : e \in named \ DOMAIN d} : ValidFilename(f)}
                   declared == {f \in DeclaredFiles(Adoption) : ~IsMetadataFilename(f)}
        <2>1. OwnedFilenames(d, Adoption) = named \cup bound \cup declared
            BY DEF OwnedFilenames
        <2>2. ASSUME NEW e \in named PROVE SidecarName(e) \in DOMAIN d
            <3>1. PICK m \in DOMAIN d : IsSidecarName(m) /\ e = Front(m)
                OBVIOUS
            <3>2. m \in Names
                BY DirectoryFacts
            <3>3. m = SidecarName(e)
                BY <3>1, <3>2, FrontOfSidecar
            <3> QED BY <3>1, <3>3
        <2>3. name \notin named
            <3> HIDE DEF named
            <3> QED BY <1>1, <2>2 DEF Unclaimed, There
        <2>4. name \notin bound
            <3> SUFFICES ASSUME NEW e \in named, name \in Bound(e) PROVE FALSE
                OBVIOUS
            <3>1. d[SidecarName(e)].kind = "sidecar" /\ d[SidecarName(e)].filename = name
                OBVIOUS
            <3> HIDE DEF named, Bound
            <3> QED BY <1>1, <2>2, <3>1 DEF Unclaimed
        <2>5. name \notin declared
            BY <1>1 DEF Unclaimed
        <2> HIDE DEF named, bound, declared
        <2> QED BY <1>1, <2>1, <2>3, <2>4, <2>5
    <1>2. ASSUME ~IsMetadataFilename(name), ~IsDotFile(name), SidecarName(name) \notin DOMAIN d,
                 name \notin OwnedFilenames(d, Adoption)
          PROVE  Unclaimed(d, name)
        <2>1. name \notin DeclaredFiles(Adoption)
            BY <1>2, OwnedFacts
        <2>2. ASSUME NEW m \in DOMAIN d, d[m].kind = "sidecar", d[m].filename = name PROVE FALSE
            <3>1. PICK k \in Keys : m = SidecarOf(k) /\ Parses(d, k) /\ ReadSidecar(d, k) = d[m]
                BY <2>2, SidecarOfKey
            <3>2. FileOf(d, k) = name
                BY <1>0, <2>2, <3>1, FileFacts DEF ValuePath
            <3>3. name # EncodeKey(k)
                BY <1>2, <3>1 DEF SidecarOf
            <3>4. At(d, EncodeKey(k)) = Missing
                BY <2>1, <3>1, <3>2, <3>3 DEF Belongs, NoStrays
            <3> QED BY <1>2, <3>1, <3>2, <3>3, <3>4, OwnedFacts
        <2> QED BY <1>2, <2>1, <2>2 DEF Unclaimed, There
    <1> QED BY <1>1, <1>2 DEF Unclaimed, There

-------------------------------------------------------------------------------
(* The turns of an opening: what lasts once it is reached *)

LEMMA LoopFrom ==
    ASSUME NEW N \in Nat, NEW f, NEW P, NEW i \in 0 .. N, f[i] \in P,
           \A j \in 1 .. N : i < j /\ f[j - 1] \in P => f[j] \in P
    PROVE  f[N] \in P
    <1> DEFINE g == [j \in 0 .. N |-> IF j < i THEN f[i] ELSE f[j]]
    <1>1. g[0] \in P
        BY DEF g
    <1>2. ASSUME NEW j \in 1 .. N, g[j - 1] \in P PROVE g[j] \in P
        <2>1. j \in 0 .. N /\ j - 1 \in 0 .. N
            OBVIOUS
        <2>2. CASE j < i
            BY <2>1, <2>2
        <2>3. CASE j = i
            BY <2>1, <2>3
        <2>4. CASE i < j
            <3>1. g[j - 1] = f[j - 1] /\ g[j] = f[j]
                BY <2>1, <2>4
            <3> QED BY <1>2, <2>4, <3>1
        <2> QED BY <2>2, <2>3, <2>4
    <1>3. N \in 0 .. N /\ g[N] = f[N]
        OBVIOUS
    <1> HIDE DEF g
    <1>4. \A j \in 0 .. N : g[j] \in P
        BY <1>1, <1>2, LoopKeeps
    <1> QED BY <1>3, <1>4

\* What holds at the beginning and after each turn if before it.
LEMMA EveryTurn ==
    ASSUME NEW N \in Nat, NEW T, 0 \in T, \A i \in 1 .. N : i - 1 \in T => i \in T
    PROVE  \A i \in 0 .. N : i \in T
    <1> DEFINE f == [i \in 0 .. N |-> i]
    <1>1. f[0] \in T
        OBVIOUS
    <1>2. \A i \in 1 .. N : f[i - 1] \in T => f[i] \in T
        OBVIOUS
    <1>3. \A i \in 0 .. N : f[i] = i
        OBVIOUS
    <1> HIDE DEF f
    <1>4. \A i \in 0 .. N : f[i] \in T
        BY <1>1, <1>2, LoopKeeps
    <1> QED BY <1>3, <1>4

LEMMA AdoptionLength == Len(Adoption) \in Nat /\ DOMAIN Adoption = 1 .. Len(Adoption)
    BY AdoptionAssumption, LenProperties DEF AdoptionAssumption

\* The adoptions of an opening after each candidate: of the keys, then of the sweeps.
IsOpening(keyed, done, n, d) ==
    LET begun == [dir |-> d, owned |-> OwnedFilenames(d, Adoption), ok |-> TRUE]
        N == Len(Adoption)
    IN  /\ KeyTurns(keyed, begun, Adoption, N)
        /\ SweepsTurns(done, keyed[N], DOMAIN d, Adoption, N)
        /\ \A i \in 0 .. N : keyed[i] \in Opened(n, d) /\ done[i] \in Opened(n, d)
        /\ AdoptFiles(d, Adoption) = done[N]

\* What a single adoption keeps.
Lasts(P, n, d) ==
    /\ P \in SUBSET Opened(n, d)
    /\ \A a \in P : Failed(a) \in P
    /\ \A a \in P, k \in Keys, f \in ProperFilenames, type \in Types :
          /\ f \in DOMAIN a.dir /\ ~Tracked(a.dir, k)
          /\ f = EncodeKey(k) \/ f \in DeclaredFiles(Adoption)
          /\ Adopted(a, k, f, type) \in Opened(n, d)
          => Adopted(a, k, f, type) \in P

LEMMA OpenedFacts ==
    ASSUME NEW n, NEW d, NEW a \in Opened(n, d)
    PROVE  /\ a \in Adoptions(n, d) /\ Belongs(a.dir) /\ a.dir \in Directories(n) /\ a.ok \in BOOLEAN
           /\ OwnedFilenames(d, Adoption) \subseteq a.owned
           /\ Failed(a) \in Opened(n, d) /\ Failed(a).dir = a.dir /\ Failed(a).owned = a.owned /\ Failed(a).ok = FALSE
    <1>1. a \in Adoptions(n, d) /\ Belongs(a.dir) /\ OwnedFilenames(d, Adoption) \subseteq a.owned
        BY DEF Opened
    <1>2. Failed(a) \in Adoptions(n, d) /\ Failed(a).dir = a.dir /\ Failed(a).owned = a.owned
        BY <1>1, FailedFacts
    <1>3. Failed(a).ok = FALSE /\ a.dir \in Directories(n) /\ a.ok \in BOOLEAN
        BY <1>1 DEF Adoptions, Failed
    <1>4. Failed(a) \in Opened(n, d)
        BY <1>2 DEF Opened
    <1> QED BY <1>1, <1>2, <1>3, <1>4

LEMMA KeyTurnKeeps ==
    ASSUME NEW n, NEW d \in Directories(n), NEW P, Lasts(P, n, d), NEW a \in P,
           NEW i \in DOMAIN Adoption, Adoption[i].kind = "key"
    PROVE  AdoptForKey(a, Adoption[i]) \in P
    <1>1. a \in Opened(n, d) /\ a \in Adoptions(n, d)
        BY OpenedFacts DEF Lasts
    <1>2. AdoptForKeyCases(a, Adoption[i])
        BY WhatAKeyAdopts
    <1>3. ASSUME NEW j \in DOMAIN Adoption[i].files, AdoptableFor(a, Adoption[i].key, Adoption[i].files[j].filename)
          PROVE  Adopted(a, Adoption[i].key, Adoption[i].files[j].filename, Adoption[i].files[j].type) \in P
        <2> DEFINE k == Adoption[i].key
                   f == Adoption[i].files[j].filename
                   type == Adoption[i].files[j].type
        <2>1. f \in ProperFilenames /\ f \in DOMAIN a.dir /\ type \in Types /\ k \in Keys
              /\ f \in DeclaredFiles(Adoption)
            BY <1>1, <1>3, KeyAdopts, DeclaredFacts
        <2>2. ~Tracked(a.dir, k)
            BY <1>3 DEF AdoptableFor
        <2>3. Adopted(a, k, f, type) \in Opened(n, d)
            BY <1>1, <1>3, KeyAdoptionBelongs
        <2> HIDE DEF k, f, type
        <2>4. Adopted(a, k, f, type) \in P
            BY <2>1, <2>2, <2>3 DEF Lasts
        <2> QED BY <2>4 DEF k, f, type
    <1> QED BY <1>2, <1>3 DEF AdoptForKeyCases, Lasts

LEMMA SweepTurnKeeps ==
    ASSUME NEW n, NEW d \in Directories(n), Belongs(d), NEW P, Lasts(P, n, d), NEW a \in P,
           NEW i \in DOMAIN Adoption, Adoption[i].kind = "sweep", NEW name \in DOMAIN d
    PROVE  SweepFile(a, DOMAIN d, Adoption[i].rules, name) \in P
    <1> DEFINE rule == RuleFor(Adoption[i].rules, name)
               type == Adoption[i].rules[rule].type
    <1>1. a \in Opened(n, d)
        BY DEF Lasts
    <1>2. ASSUME MaySweep(a, DOMAIN d, name), rule # 0 PROVE Adopted(a, name, name, type) \in P
        <2>1. /\ name \in Keys /\ EncodeKey(name) = name /\ name \in ProperFilenames /\ name \in DOMAIN a.dir
              /\ type \in Types /\ ~Tracked(a.dir, name)
            BY <1>1, <1>2, SweepMeets
        <2>2. Adopted(a, name, name, type) \in Opened(n, d)
            BY <1>1, <1>2, SweepAdoptionBelongs
        <2> HIDE DEF type, rule
        <2> QED BY <2>1, <2>2 DEF Lasts
    <1> QED BY <1>2 DEF SweepFile

LEMMA WholeSweepKeeps ==
    ASSUME NEW n, NEW d \in Directories(n), Belongs(d), NEW P, Lasts(P, n, d), NEW a \in P,
           NEW i \in DOMAIN Adoption, Adoption[i].kind = "sweep"
    PROVE  Sweep(a, DOMAIN d, Adoption[i].rules) \in P
    <1> DEFINE listing == DOMAIN d
               rules == Adoption[i].rules
    <1>1. listing \in SUBSET Names /\ IsFiniteSet(listing)
        BY DirectoryFacts
    <1>2. \A b \in P, name \in listing : SweepFile(b, listing, rules, name) \in P
        BY SweepTurnKeeps
    <1>3. Failed(a) \in P
        BY DEF Lasts
    <1> HIDE DEF listing, rules
    <1>4. Sweep(a, listing, rules) \in P
        BY <1>1, <1>2, <1>3, SweepKeeps
    <1> QED BY <1>4 DEF listing, rules

LEMMA EverythingLasts ==
    ASSUME NEW n, NEW d
    PROVE  Lasts(Opened(n, d), n, d)
    BY OpenedFacts DEF Lasts

LEMMA OpeningRuns ==
    ASSUME NEW n, NEW d \in Directories(n), Belongs(d)
    PROVE  \E keyed, done : IsOpening(keyed, done, n, d)
    <1> DEFINE S == Opened(n, d)
               begun == [dir |-> d, owned |-> OwnedFilenames(d, Adoption), ok |-> TRUE]
               N == Len(Adoption)
               listing == DOMAIN d
    <1>1. begun \in S
        <2>1. begun \in Adoptions(n, d)
            BY AdoptionBegins
        <2>2. begun.dir = d /\ begun.owned = OwnedFilenames(d, Adoption)
            OBVIOUS
        <2> HIDE DEF begun
        <2> QED BY <2>1, <2>2 DEF Opened
    <1>2. N \in Nat /\ DOMAIN Adoption = 1 .. N /\ N \in 0 .. N
        BY AdoptionLength
    <1>3. \A a \in S, i \in 1 .. N : Adoption[i].kind = "key" => AdoptForKey(a, Adoption[i]) \in S
        <2> HIDE DEF N
        <2> QED BY <1>2, EverythingLasts, KeyTurnKeeps
    <1>4. \A a \in S : Failed(a) \in S
        BY OpenedFacts
    <1>5. \A a \in S, i \in 1 .. N : Adoption[i].kind = "sweep" =>
               \A name \in listing : SweepFile(a, listing, Adoption[i].rules, name) \in S
        <2> HIDE DEF N
        <2> QED BY <1>2, EverythingLasts, SweepTurnKeeps
    <1>6. listing \in SUBSET Names /\ IsFiniteSet(listing)
        BY DirectoryFacts
    <1>7. AdoptFiles(d, Adoption) = SweepsDone(KeysAdopted(begun, Adoption, N), listing, Adoption, N)
        BY DEF AdoptFiles
    <1> HIDE DEF begun, N, listing, S
    <1>8. PICK keyed : /\ KeyTurns(keyed, begun, Adoption, N)
                       /\ \A i \in 0 .. N : keyed[i] \in S
                       /\ KeysAdopted(begun, Adoption, N) = keyed[N]
        BY <1>1, <1>2, <1>3, KeysAdoptedRun
    <1> DEFINE last == keyed[N]
    <1>9. last \in S
        BY <1>2, <1>8
    <1>10. \E done : /\ SweepsTurns(done, last, listing, Adoption, N)
                     /\ \A i \in 0 .. N : done[i] \in S
                     /\ SweepsDone(last, listing, Adoption, N) = done[N]
        <2> HIDE DEF last
        <2> QED BY <1>2, <1>4, <1>5, <1>6, <1>9, SweepsDoneRun
    <1>11. PICK done : /\ SweepsTurns(done, keyed[N], listing, Adoption, N)
                       /\ \A i \in 0 .. N : done[i] \in S
                       /\ SweepsDone(keyed[N], listing, Adoption, N) = done[N]
        BY <1>10
    <1> QED BY <1>7, <1>8, <1>11 DEF IsOpening, begun, N, listing, S

\* What is reached after a candidate and lasts holds in the end.
LEMMA OnceReached ==
    ASSUME NEW n, NEW d \in Directories(n), Belongs(d), NEW keyed, NEW done, IsOpening(keyed, done, n, d),
           NEW P, Lasts(P, n, d), NEW i \in 0 .. Len(Adoption)
    PROVE  /\ done[i] \in P => AdoptFiles(d, Adoption) \in P
           /\ keyed[i] \in P => AdoptFiles(d, Adoption) \in P
    <1> DEFINE N == Len(Adoption)
    <1>1. N \in Nat /\ DOMAIN Adoption = 1 .. N /\ 0 \in 0 .. N
        BY AdoptionLength
    <1>2. /\ done[0] = keyed[N]
          /\ \A j \in 1 .. N :
                done[j] = IF Adoption[j].kind = "sweep" THEN Sweep(done[j - 1], DOMAIN d, Adoption[j].rules)
                          ELSE done[j - 1]
          /\ \A j \in 1 .. N :
                keyed[j] = IF Adoption[j].kind = "key" THEN AdoptForKey(keyed[j - 1], Adoption[j]) ELSE keyed[j - 1]
          /\ AdoptFiles(d, Adoption) = done[N]
        BY DEF IsOpening, KeyTurns, SweepsTurns
    <1>3. i \in 0 .. N
        OBVIOUS
    <1> HIDE DEF N
    <1>4. ASSUME NEW j \in 1 .. N, done[j - 1] \in P PROVE done[j] \in P
        BY <1>1, <1>2, <1>4, WholeSweepKeeps
    <1>5. ASSUME NEW j \in 1 .. N, keyed[j - 1] \in P PROVE keyed[j] \in P
        BY <1>1, <1>2, <1>5, KeyTurnKeeps
    <1>6. ASSUME NEW q \in 0 .. N, done[q] \in P PROVE done[N] \in P
        BY <1>1, <1>4, <1>6, LoopFrom
    <1>7. ASSUME keyed[i] \in P PROVE done[0] \in P
        BY <1>1, <1>2, <1>3, <1>5, <1>7, LoopFrom
    <1> QED BY <1>1, <1>2, <1>3, <1>6, <1>7

LEMMA TrackedMeans ==
    ASSUME NEW n, NEW d \in Directories(n), NEW k \in Keys
    PROVE  Tracked(d, k) <=> Parses(d, k) /\ At(d, FileOf(d, k)) # Missing
    BY FileFacts, AtThere DEF Tracked, RecordExists

\* An adoption gives its key a record and leaves those of the others alone.
LEMMA AdoptionTracks ==
    ASSUME NEW n, NEW d, NEW a \in Opened(n, d), NEW k \in Keys,
           NEW f \in ProperFilenames, f \in DOMAIN a.dir, NEW type \in Types,
           Adopted(a, k, f, type) \in Opened(n, d)
    PROVE  LET b == Adopted(a, k, f, type) IN
           /\ Tracked(b.dir, k)
           /\ ReadSidecar(b.dir, k) = Sidecar(k, type, a.dir[f].size, IF f = EncodeKey(k) THEN None ELSE f)
           /\ b.ok = a.ok /\ b.owned = a.owned \cup {f, EncodeKey(k)}
           /\ \A j \in Keys : j # k => /\ ReadSidecar(b.dir, j) = ReadSidecar(a.dir, j)
                                       /\ Tracked(b.dir, j) <=> Tracked(a.dir, j)
    <1> DEFINE b == Adopted(a, k, f, type)
               sidecar == Sidecar(k, type, a.dir[f].size, IF f = EncodeKey(k) THEN None ELSE f)
    <1>1. a \in Adoptions(n, d) /\ a.dir \in Directories(n) /\ b.dir \in Directories(n) /\ k \in Seq(DOMAIN Escape)
        BY OpenedFacts, KeyFacts
    <1>2. b.ok = a.ok /\ b.owned = a.owned \cup {f, EncodeKey(k)}
        BY <1>1, AdoptedFacts
    <1>3. /\ ReadSidecar(b.dir, k) = sidecar
          /\ Parses(b.dir, k) /\ FileOf(b.dir, k) = f
          /\ At(b.dir, f) = At(a.dir, f)
          /\ \A j \in Seq(DOMAIN Escape) : j # k => ReadSidecar(b.dir, j) = ReadSidecar(a.dir, j)
          /\ \A g \in ProperFilenames : At(b.dir, g) = At(a.dir, g)
        BY <1>1, AdoptedView
    <1> HIDE DEF b, sidecar
    <1>4. Tracked(b.dir, k)
        BY <1>1, <1>3, TrackedMeans, AtThere DEF There
    <1>5. ASSUME NEW j \in Keys, j # k
          PROVE  ReadSidecar(b.dir, j) = ReadSidecar(a.dir, j) /\ (Tracked(b.dir, j) <=> Tracked(a.dir, j))
        <2>1. ReadSidecar(b.dir, j) = ReadSidecar(a.dir, j)
            BY <1>3, <1>5, KeyFacts
        <2>2. (Parses(b.dir, j) <=> Parses(a.dir, j)) /\ FileOf(b.dir, j) = FileOf(a.dir, j)
            BY <2>1, SameSidecar
        <2>3. At(b.dir, FileOf(a.dir, j)) = At(a.dir, FileOf(a.dir, j))
            BY <1>1, <1>3, FileFacts
        <2> QED BY <1>1, <2>1, <2>2, <2>3, TrackedMeans
    <1> QED BY <1>2, <1>3, <1>4, <1>5 DEF b, sidecar

\* A record that can be read stays as it is.
TrackedAs(n, d, k, sidecar) ==
    {a \in Opened(n, d) : Tracked(a.dir, k) /\ ReadSidecar(a.dir, k) = sidecar}

LEMMA TrackedLasts ==
    ASSUME NEW n, NEW d, NEW k \in Keys, NEW sidecar
    PROVE  Lasts(TrackedAs(n, d, k, sidecar), n, d)
    <1> DEFINE P == TrackedAs(n, d, k, sidecar)
    <1>1. P \in SUBSET Opened(n, d) /\ \A a \in P : Failed(a) \in P
        BY OpenedFacts DEF TrackedAs
    <1>2. ASSUME NEW a \in P, NEW j \in Keys, NEW f \in ProperFilenames, NEW type \in Types,
                 f \in DOMAIN a.dir, ~Tracked(a.dir, j), Adopted(a, j, f, type) \in Opened(n, d)
          PROVE  Adopted(a, j, f, type) \in P
        <2>1. a \in Opened(n, d) /\ Tracked(a.dir, k) /\ ReadSidecar(a.dir, k) = sidecar
            BY DEF TrackedAs
        <2>2. k # j
            BY <1>2, <2>1
        <2> QED BY <1>2, <2>1, <2>2, AdoptionTracks DEF TrackedAs
    <1> HIDE DEF P
    <1>3. Lasts(P, n, d)
        BY <1>1, <1>2 DEF Lasts
    <1> QED BY <1>3 DEF P

\* An adoption that has failed has failed in the end.
LEMMA FailureLasts ==
    ASSUME NEW n, NEW d
    PROVE  Lasts({a \in Opened(n, d) : ~a.ok}, n, d)
    <1> DEFINE P == {a \in Opened(n, d) : ~a.ok}
    <1>1. P \in SUBSET Opened(n, d) /\ \A a \in P : Failed(a) \in P
        BY OpenedFacts
    <1>2. ASSUME NEW a \in P, NEW j \in Keys, NEW f \in ProperFilenames, NEW type \in Types,
                 f \in DOMAIN a.dir, Adopted(a, j, f, type) \in Opened(n, d)
          PROVE  Adopted(a, j, f, type) \in P
        <2>1. Adopted(a, j, f, type).ok = a.ok
            BY <1>2, AdoptionTracks
        <2> QED BY <1>2, <2>1
    <1> HIDE DEF P
    <1>3. Lasts(P, n, d)
        BY <1>1, <1>2 DEF Lasts
    <1> QED BY <1>3 DEF P

LEMMA NothingFailed ==
    ASSUME NEW n, NEW d \in Directories(n), Belongs(d), NEW keyed, NEW done, IsOpening(keyed, done, n, d),
           AdoptFiles(d, Adoption).ok, NEW i \in 0 .. Len(Adoption)
    PROVE  keyed[i].ok /\ done[i].ok
    <1> DEFINE P == {a \in Opened(n, d) : ~a.ok}
    <1>1. Lasts(P, n, d)
        BY FailureLasts
    <1>2. AdoptFiles(d, Adoption) \notin P
        OBVIOUS
    <1>3. keyed[i] \in Opened(n, d) /\ done[i] \in Opened(n, d)
        BY DEF IsOpening
    <1>4. keyed[i] \notin P /\ done[i] \notin P
        <2> HIDE DEF P
        <2> QED BY <1>1, <1>2, OnceReached
    <1> QED BY <1>3, <1>4

\* The files that adoptions have made somebody's are those of keys with records.
NewlyOwned(n, d) ==
    {a \in Opened(n, d) :
        \A f \in a.owned : f \in OwnedFilenames(d, Adoption)
                           \/ \E k \in Keys : f = EncodeKey(k) /\ Tracked(a.dir, k)}

LEMMA NewlyOwnedLasts ==
    ASSUME NEW n, NEW d \in Directories(n)
    PROVE  Lasts(NewlyOwned(n, d), n, d)
    <1> DEFINE P == NewlyOwned(n, d)
    <1>1. P \in SUBSET Opened(n, d) /\ \A a \in P : Failed(a) \in P
        BY OpenedFacts DEF NewlyOwned
    <1>2. ASSUME NEW a \in P, NEW k \in Keys, NEW f \in ProperFilenames, NEW type \in Types,
                 f \in DOMAIN a.dir, ~Tracked(a.dir, k), f = EncodeKey(k) \/ f \in DeclaredFiles(Adoption),
                 Adopted(a, k, f, type) \in Opened(n, d)
          PROVE  Adopted(a, k, f, type) \in P
        <2> DEFINE b == Adopted(a, k, f, type)
        <2>1. a \in Opened(n, d)
            BY DEF NewlyOwned
        <2>2. /\ Tracked(b.dir, k) /\ b.owned = a.owned \cup {f, EncodeKey(k)}
              /\ \A j \in Keys : j # k => (Tracked(b.dir, j) <=> Tracked(a.dir, j))
            BY <1>2, <2>1, AdoptionTracks
        <2>3. f = EncodeKey(k) \/ f \in OwnedFilenames(d, Adoption)
            BY <1>2, OwnedFacts, ProperFacts
        <2>4. \A j \in Keys : Tracked(a.dir, j) => Tracked(b.dir, j)
            BY <2>2
        <2> HIDE DEF b
        <2>5. \A g \in b.owned : g \in OwnedFilenames(d, Adoption)
                                 \/ \E j \in Keys : g = EncodeKey(j) /\ Tracked(b.dir, j)
            BY <2>2, <2>3, <2>4 DEF NewlyOwned
        <2> QED BY <1>2, <2>5 DEF b, NewlyOwned
    <1> HIDE DEF P
    <1>3. Lasts(P, n, d)
        BY <1>1, <1>2 DEF Lasts
    <1> QED BY <1>3 DEF P

LEMMA AllNewlyOwned ==
    ASSUME NEW n, NEW d \in Directories(n), Belongs(d), NEW keyed, NEW done, IsOpening(keyed, done, n, d)
    PROVE  \A i \in 0 .. Len(Adoption) : done[i] \in NewlyOwned(n, d)
    <1> DEFINE N == Len(Adoption)
               P == NewlyOwned(n, d)
    <1>1. N \in Nat /\ DOMAIN Adoption = 1 .. N /\ 0 \in 0 .. N
        BY AdoptionLength
    <1>2. Lasts(P, n, d)
        BY NewlyOwnedLasts
    <1>3. /\ done[0] = keyed[N]
          /\ \A j \in 1 .. N :
                done[j] = IF Adoption[j].kind = "sweep" THEN Sweep(done[j - 1], DOMAIN d, Adoption[j].rules)
                          ELSE done[j - 1]
          /\ \A j \in 1 .. N :
                keyed[j] = IF Adoption[j].kind = "key" THEN AdoptForKey(keyed[j - 1], Adoption[j]) ELSE keyed[j - 1]
        BY DEF IsOpening, KeyTurns, SweepsTurns
    <1>4. keyed[0] \in P
        <2>1. keyed[0] \in Opened(n, d)
            BY <1>1 DEF IsOpening
        <2>2. keyed[0].owned = OwnedFilenames(d, Adoption)
            BY DEF IsOpening, KeyTurns
        <2> QED BY <2>1, <2>2 DEF NewlyOwned
    <1> HIDE DEF N, P
    <1>5. ASSUME NEW j \in 1 .. N, keyed[j - 1] \in P PROVE keyed[j] \in P
        BY <1>1, <1>2, <1>3, <1>5, KeyTurnKeeps
    <1>6. keyed[N] \in P
        BY <1>1, <1>4, <1>5, LoopFrom
    <1>7. ASSUME NEW j \in 1 .. N, done[j - 1] \in P PROVE done[j] \in P
        BY <1>1, <1>2, <1>3, <1>7, WholeSweepKeeps
    <1>8. \A i \in 0 .. N : done[i] \in P
        BY <1>1, <1>3, <1>6, <1>7, LoopKeeps
    <1> QED BY <1>8 DEF N, P

-------------------------------------------------------------------------------
(* Every declared key is bound to the file that is there *)

LEMMA PresentStays ==
    ASSUME NEW n, NEW d, NEW a \in Adoptions(n, d), NEW i \in KeyCandidates
    PROVE  Present(a.dir, Adoption[i]) = Present(d, Adoption[i])
    <1> DEFINE files == Adoption[i].files
    <1>1. ASSUME NEW p \in DOMAIN files, ~IsMetadataFilename(files[p].filename)
          PROVE  There(a.dir, files[p].filename) <=> There(d, files[p].filename)
        <2>1. files[p].filename \in Names
            BY DeclaredFacts, KeysAreNames DEF KeyCandidates
        <2> HIDE DEF files
        <2> QED BY <1>1, <2>1, AdoptionFacts DEF There
    <1>2. ASSUME NEW e PROVE Present(e, Adoption[i]) =
              {p \in DOMAIN files : ~IsMetadataFilename(files[p].filename) /\ There(e, files[p].filename)}
        BY DEF Present
    <1> HIDE DEF files
    <1> QED BY <1>1, <1>2

LEMMA AdoptForKeyPresent ==
    ASSUME NEW a, NEW c
    PROVE  LET present == Present(a.dir, c)
               only == c.files[CHOOSE p \in present : TRUE]
           IN  \/ AdoptForKey(a, c) = Failed(a)
               \/ AdoptForKey(a, c) = a /\ (~a.ok \/ Tracked(a.dir, c.key) \/ present = {})
               \/ /\ AdoptForKey(a, c) = Adopted(a, c.key, only.filename, only.type)
                  /\ present # {} /\ ~(Cardinality(present) > 1)
                  /\ AdoptableFor(a, c.key, only.filename)
    <1> DEFINE files == c.files
               offered == {i \in DOMAIN files : ~IsMetadataFilename(files[i].filename)}
               present == {i \in offered : There(a.dir, files[i].filename)}
               q == CHOOSE p \in present : TRUE
    <1>1. present = Present(a.dir, c)
        BY DEF Present
    <1>2. \/ AdoptForKey(a, c) = Failed(a)
          \/ AdoptForKey(a, c) = a /\ (~a.ok \/ Tracked(a.dir, c.key) \/ present = {})
          \/ /\ AdoptForKey(a, c) = Adopted(a, c.key, files[q].filename, files[q].type)
             /\ present # {} /\ ~(Cardinality(present) > 1)
             /\ a.ok /\ ~Tracked(a.dir, c.key) /\ \A p \in offered : ValidFilename(files[p].filename)
        BY DEF AdoptForKey
    <1>3. present # {} => q \in present
        <2> HIDE DEF present
        <2> QED OBVIOUS
    <1> HIDE DEF q
    <1>4. q \in present => q \in offered /\ There(a.dir, files[q].filename)
        OBVIOUS
    <1> HIDE DEF present, offered
    <1> QED BY <1>1, <1>2, <1>3, <1>4 DEF AdoptableFor, q

LEMMA FilesOfKey ==
    ASSUME NEW i \in KeyCandidates, NEW e
    PROVE  /\ IsFiniteSet(Present(e, Adoption[i]))
           /\ Present(e, Adoption[i]) \subseteq DOMAIN Adoption[i].files
    <1> DEFINE File == [filename : Seq(DOMAIN Escape), type : STRING]
               KeyC == [kind : {"key"}, key : Keys, files : Seq(File)]
               SweepC == [kind : {"sweep"}, rules : Seq([pattern : Seq(STRING), type : STRING])]
               c == Adoption[i]
               files == c.files
    <1>1. c \in KeyC \cup SweepC
        <2>1. Adoption \in Seq(KeyC \cup SweepC) /\ i \in DOMAIN Adoption
            BY AdoptionAssumption DEF AdoptionAssumption, KeyCandidates
        <2> HIDE DEF KeyC, SweepC
        <2> QED BY <2>1, LenProperties, ElementOfSeq
    <1>2. c \notin SweepC
        BY DEF KeyCandidates
    <1>3. files \in Seq(File)
        BY <1>1, <1>2
    <1>4. IsFiniteSet(DOMAIN files)
        <2> HIDE DEF files, File
        <2>1. Len(files) \in Nat /\ DOMAIN files = 1 .. Len(files)
            BY <1>3, LenProperties
        <2> QED BY <2>1, FS_Interval
    <1>5. Present(e, c) \subseteq DOMAIN files
        BY DEF Present
    <1> QED BY <1>4, <1>5, FS_Subset

\* A key stays without a record while no candidate for it finds a file.
LEMMA NotYetBound ==
    ASSUME NEW n, NEW d \in Directories(n), Belongs(d), NEW keyed, NEW done, IsOpening(keyed, done, n, d),
           NEW i \in KeyCandidates, NEW k, k = Adoption[i].key,
           \A j \in KeyCandidates : j < i /\ Adoption[j].key = k => Present(d, Adoption[j]) = {}
    PROVE  ReadSidecar(keyed[i - 1].dir, k) = ReadSidecar(d, k)
    <1> DEFINE N == Len(Adoption)
               T == {j \in 0 .. i - 1 : ReadSidecar(keyed[j].dir, k) = ReadSidecar(d, k)}
    <1>1. N \in Nat /\ DOMAIN Adoption = 1 .. N /\ i \in 1 .. N /\ k \in Keys
        BY AdoptionLength, DeclaredFacts DEF KeyCandidates
    <1>2. 0 \in T
        <2>1. keyed[0].dir = d
            BY DEF IsOpening, KeyTurns
        <2> QED BY <1>1, <2>1
    <1>3. ASSUME NEW j \in 1 .. i - 1, j - 1 \in T PROVE j \in T
        <2> DEFINE a == keyed[j - 1]
                   c == Adoption[j]
        <2>1. j \in DOMAIN Adoption /\ j - 1 \in 0 .. N /\ j < i /\ j \in 0 .. i - 1
            BY <1>1
        <2>2. a \in Opened(n, d) /\ ReadSidecar(a.dir, k) = ReadSidecar(d, k)
            BY <1>3, <2>1 DEF IsOpening
        <2>3. keyed[j] = IF c.kind = "key" THEN AdoptForKey(a, c) ELSE a
            BY <1>1, <2>1 DEF IsOpening, KeyTurns
        <2>4. a \in Adoptions(n, d) /\ Failed(a).dir = a.dir
            <3> HIDE DEF a
            <3> QED BY <2>2, OpenedFacts
        <2>5. CASE c.kind = "key" /\ c.key = k
            <3>1. j \in KeyCandidates /\ Present(d, c) = {}
                BY <2>1, <2>5 DEF KeyCandidates
            <3>2. Present(a.dir, c) = {}
                <4> HIDE DEF a
                <4> QED BY <2>4, <3>1, PresentStays
            <3>3. AdoptForKey(a, c) \in {a, Failed(a)}
                <4> HIDE DEF a, c
                <4> QED BY <3>2, AdoptForKeyPresent
            <3> QED BY <2>1, <2>2, <2>3, <2>4, <2>5, <3>3
        <2>6. CASE c.kind = "key" /\ c.key # k
            <3>1. AdoptForKeyCases(a, c)
                BY WhatAKeyAdopts
            <3>2. ASSUME NEW p \in DOMAIN c.files, AdoptableFor(a, c.key, c.files[p].filename)
                  PROVE  ReadSidecar(Adopted(a, c.key, c.files[p].filename, c.files[p].type).dir, k) = ReadSidecar(a.dir, k)
                <4> DEFINE f == c.files[p].filename
                           type == c.files[p].type
                           h == c.key
                <4>1. f \in ProperFilenames /\ f \in DOMAIN a.dir /\ type \in Types /\ h \in Keys
                    BY <2>1, <2>2, <2>6, <3>2, KeyAdopts, DeclaredFacts, OpenedFacts
                <4>2. Adopted(a, h, f, type) \in Opened(n, d)
                    BY <2>1, <2>2, <2>6, <3>2, KeyAdoptionBelongs
                <4>3. h # k
                    BY <2>6
                <4> HIDE DEF f, type, h, a, c
                <4>4. ReadSidecar(Adopted(a, h, f, type).dir, k) = ReadSidecar(a.dir, k)
                    BY <1>1, <2>2, <4>1, <4>2, <4>3, AdoptionTracks
                <4> QED BY <4>4 DEF f, type, h
            <3>3. ReadSidecar(AdoptForKey(a, c).dir, k) = ReadSidecar(a.dir, k)
                BY <2>4, <3>1, <3>2 DEF AdoptForKeyCases
            <3> QED BY <2>1, <2>2, <2>3, <2>6, <3>3
        <2>7. CASE c.kind # "key"
            BY <2>1, <2>2, <2>3, <2>7
        <2> QED BY <2>5, <2>6, <2>7
    <1>4. i - 1 \in Nat /\ i - 1 \in 0 .. i - 1
        BY <1>1
    <1> HIDE DEF T
    <1>5. i - 1 \in T
        BY <1>2, <1>3, <1>4, EveryTurn
    <1> QED BY <1>5 DEF T

\* What a read finds of a record with a sidecar that says its length.
LEMMA FoundAs ==
    ASSUME NEW n, NEW d \in Directories(n), NEW k \in Keys, NEW f \in ProperFilenames, NEW type, NEW size \in Nat,
           ReadSidecar(d, k) = Sidecar(k, type, size, IF f = EncodeKey(k) THEN None ELSE f), At(d, f) # Missing
    PROVE  GetValue(d, k, TRUE) = Found(f, k, type, size)
    <1> DEFINE filename == IF f = EncodeKey(k) THEN None ELSE f
    <1>1. Parses(d, k) /\ Binds(d, k)
        BY Kinds, FileFacts DEF Parses
    <1>2. ReadSidecar(d, k).filename = filename /\ ReadSidecar(d, k).key = k /\ ReadSidecar(d, k).type = type
          /\ ReadSidecar(d, k).size = size
        BY Kinds
    <1>3. FileOf(d, k) = f
        BY <1>1, <1>2, ProperFacts DEF FileOf, ValuePath
    <1>4. There(d, f)
        BY AtThere
    <1>5. size # None
        BY NothingAssumption DEF NothingAssumption
    <1>6. Backfilled(d, size, f) = size
        BY <1>5 DEF Backfilled
    <1> QED BY <1>1, <1>2, <1>3, <1>4, <1>6 DEF GetValue

LEMMA KeyIsBound ==
    ASSUME NEW n, NEW d \in Directories(n), Belongs(d), AdoptFiles(d, Adoption).ok,
           NEW i \in KeyCandidates, ~Tracked(d, Adoption[i].key),
           \A j \in KeyCandidates : j < i /\ Adoption[j].key = Adoption[i].key => Present(d, Adoption[j]) = {}
    PROVE  KeyBound(d, AdoptFiles(d, Adoption).dir, Adoption[i])
    <1> DEFINE N == Len(Adoption)
               c == Adoption[i]
               k == c.key
               e == AdoptFiles(d, Adoption).dir
    <1>1. PICK keyed, done : IsOpening(keyed, done, n, d)
        BY OpeningRuns
    <1> DEFINE a == keyed[i - 1]
               present == Present(d, c)
    <1>2. i \in 0 .. N /\ i - 1 \in 0 .. N /\ i \in 1 .. N /\ i \in DOMAIN Adoption /\ c.kind = "key" /\ k \in Keys
        BY AdoptionLength, DeclaredFacts DEF KeyCandidates
    <1>3. a \in Opened(n, d) /\ a \in Adoptions(n, d) /\ keyed[i] = AdoptForKey(a, c)
        BY <1>1, <1>2, OpenedFacts DEF IsOpening, KeyTurns
    <1>4. a.ok /\ keyed[i].ok
        BY <1>1, <1>2, NothingFailed
    <1>5. ~Tracked(a.dir, k)
        <2>1. ReadSidecar(a.dir, k) = ReadSidecar(d, k)
            BY <1>1, NotYetBound
        <2> QED BY <1>2, <1>3, <2>1, TrackedStays
    <1>6. Present(a.dir, c) = present
        BY <1>3, PresentStays
    <1> DEFINE q == CHOOSE p \in present : TRUE
               f == c.files[q].filename
               type == c.files[q].type
    <1>7. \/ present = {}
          \/ /\ keyed[i] = Adopted(a, k, f, type)
             /\ present # {} /\ ~(Cardinality(present) > 1)
             /\ AdoptableFor(a, k, f)
        <2>1. Failed(a).ok = FALSE
            <3> HIDE DEF a
            <3> QED BY <1>3, OpenedFacts
        <2>2. AdoptForKey(a, c) # Failed(a)
            BY <1>3, <1>4, <2>1
        <2> DEFINE here == Present(a.dir, c)
                   only == c.files[CHOOSE p \in here : TRUE]
        <2>3. \/ AdoptForKey(a, c) = Failed(a)
              \/ AdoptForKey(a, c) = a /\ (~a.ok \/ Tracked(a.dir, c.key) \/ here = {})
              \/ /\ AdoptForKey(a, c) = Adopted(a, c.key, only.filename, only.type)
                 /\ here # {} /\ ~(Cardinality(here) > 1)
                 /\ AdoptableFor(a, c.key, only.filename)
            <3> HIDE DEF a, c
            <3> QED BY AdoptForKeyPresent
        <2>4. here = present
            BY <1>6
        <2> HIDE DEF a, c, present, here
        <2> QED BY <1>3, <1>4, <1>5, <2>2, <2>3, <2>4
    <1>8. IsFiniteSet(present) /\ present \subseteq DOMAIN c.files
        BY FilesOfKey
    <1>9. Cardinality(present) \in Nat /\ (present = {} => Cardinality(present) = 0)
        BY <1>8, FS_CardinalityType, FS_EmptySet
    <1>10. Cardinality(present) <= 1
        BY <1>7, <1>9
    <1>11. ASSUME NEW p \in present
           PROVE  GetValue(e, k, TRUE)
                      = Found(c.files[p].filename, k, c.files[p].type, d[c.files[p].filename].size)
        <2>1. q = p
            <3>1. q \in present
                BY <1>11
            <3> HIDE DEF q, present
            <3>2. Cardinality({p}) = 1 /\ {p} \subseteq present /\ IsFiniteSet({p})
                BY <1>11, FS_Singleton
            <3>3. Cardinality(present) = 1
                BY <1>8, <1>9, <1>10, <3>2, FS_Subset
            <3>4. PICK x : present = {x}
                BY <1>8, <3>3, FS_Singleton
            <3> QED BY <1>11, <3>1, <3>4
        <2>2. keyed[i] = Adopted(a, k, f, type) /\ AdoptableFor(a, k, f) /\ q \in DOMAIN c.files
            BY <1>7, <1>8, <1>11, <2>1
        <2>3. f \in ProperFilenames /\ f \in DOMAIN a.dir /\ type \in Types
            BY <1>2, <1>3, <2>2, KeyAdopts
        <2>4. keyed[i] \in Opened(n, d)
            BY <1>1, <1>2 DEF IsOpening
        <2> DEFINE size == a.dir[f].size
                   sidecar == Sidecar(k, type, size, IF f = EncodeKey(k) THEN None ELSE f)
        <2> HIDE DEF f, type, q, k, a, present, c, e
        <2>5. Tracked(keyed[i].dir, k) /\ ReadSidecar(keyed[i].dir, k) = sidecar
            BY <1>2, <1>3, <2>2, <2>3, <2>4, AdoptionTracks
        <2>6. size \in Nat
            BY <1>2, <1>3, <2>3, AdoptedView, KeyFacts
        <2>7. f \in Names /\ ~IsMetadataFilename(f)
            BY <2>3, ProperFacts
        <2>8. a.dir[f] = d[f]
            BY <1>3, <2>3, <2>7, AdoptionFacts
        <2> HIDE DEF sidecar, size
        <2>9. AdoptFiles(d, Adoption) \in TrackedAs(n, d, k, sidecar)
            <3>1. keyed[i] \in TrackedAs(n, d, k, sidecar)
                BY <2>4, <2>5 DEF TrackedAs
            <3>2. Lasts(TrackedAs(n, d, k, sidecar), n, d)
                BY <1>2, TrackedLasts
            <3> QED BY <1>1, <1>2, <3>1, <3>2, OnceReached
        <2>10. e \in Directories(n) /\ ReadSidecar(e, k) = sidecar
            BY <2>9, OpenedFacts DEF TrackedAs, e
        <2>11. At(e, f) # Missing
            <3>1. f \in DOMAIN e
                BY <1>3, <2>3, <2>7, <2>9, AdoptionFacts, OpenedFacts DEF TrackedAs, e
            <3> QED BY <2>10, <3>1, AtThere DEF There
        <2>12. GetValue(e, k, TRUE) = Found(f, k, type, size)
            <3>1. ReadSidecar(e, k) = Sidecar(k, type, size, IF f = EncodeKey(k) THEN None ELSE f) /\ k \in Keys
                BY <1>2, <2>10 DEF sidecar
            <3> QED BY <2>3, <2>6, <2>10, <2>11, <3>1, FoundAs
        <2> QED BY <2>1, <2>8, <2>12 DEF f, type, size
    <1> QED BY <1>10, <1>11 DEF KeyBound

-------------------------------------------------------------------------------
(* The sweeps find the files that nobody claims *)

\* What a sweep goes by is the first of its rules that means the name.
LEMMA RulingMeans ==
    ASSUME NEW i \in DOMAIN Adoption, Adoption[i].kind = "sweep", NEW name \in Names
    PROVE  /\ RuleFor(Adoption[i].rules, name) # 0 <=> Ruling(i, name) # {}
           /\ Ruling(i, name) # {} => RuleFor(Adoption[i].rules, name) = Min(Ruling(i, name))
    <1> DEFINE Rule == [pattern : Seq(STRING), type : STRING]
               KeyC == [kind : {"key"}, key : Keys, files : Seq([filename : Seq(DOMAIN Escape), type : STRING])]
               SweepC == [kind : {"sweep"}, rules : Seq(Rule)]
               c == Adoption[i]
               rules == c.rules
               matched == {j \in DOMAIN rules : MatchesPattern(rules[j].pattern, name)}
    <1>1. c \in KeyC \cup SweepC
        <2>1. Adoption \in Seq(KeyC \cup SweepC)
            BY AdoptionAssumption DEF AdoptionAssumption
        <2> HIDE DEF KeyC, SweepC
        <2> QED BY <2>1, LenProperties, ElementOfSeq
    <1>2. c \notin KeyC
        OBVIOUS
    <1>3. rules \in Seq(Rule)
        BY <1>1, <1>2
    <1>4. \A j \in DOMAIN rules : rules[j] \in Rule
        <2> HIDE DEF Rule, rules
        <2> QED BY <1>3, LenProperties, ElementOfSeq
    <1>5. \A j \in DOMAIN rules : MatchesPattern(rules[j].pattern, name) = Stands(rules[j].pattern, name)
        <2>1. ASSUME NEW j \in DOMAIN rules PROVE Len(rules[j].pattern) \in Nat
            <3>1. rules[j].pattern \in Seq(STRING)
                BY <1>4
            <3> HIDE DEF rules
            <3> QED BY <3>1, LenProperties
        <2>2. Len(name) \in Nat
            BY LenProperties DEF Names
        <2> HIDE DEF rules
        <2> QED BY <2>1, <2>2, MatchesWhatItStandsFor
    <1>6. matched = Ruling(i, name)
        BY <1>5 DEF Ruling
    <1>7. matched # {} => Min(matched) \in matched
        <2>1. Len(rules) \in Nat /\ DOMAIN rules = 1 .. Len(rules)
            <3> HIDE DEF Rule, rules
            <3> QED BY <1>3, LenProperties
        <2>2. matched \in SUBSET (0 .. Len(rules))
            <3> HIDE DEF rules
            <3> QED BY <2>1
        <2> HIDE DEF matched, rules
        <2>3. ASSUME matched # {} PROVE \E x \in matched : \A y \in matched : x <= y
            BY <2>1, <2>2, <2>3, LeastNumber
        <2> QED BY <2>3 DEF Min
    <1>8. 0 \notin matched
        <2>1. DOMAIN rules = 1 .. Len(rules) /\ Len(rules) \in Nat
            <3> HIDE DEF Rule, rules
            <3> QED BY <1>3, LenProperties
        <2> HIDE DEF rules
        <2> QED BY <2>1
    <1>9. RuleFor(rules, name) = IF matched = {} THEN 0 ELSE Min(matched)
        BY DEF RuleFor
    <1> HIDE DEF matched
    <1> QED BY <1>6, <1>7, <1>8, <1>9

LEMMA FirstSweep ==
    ASSUME NEW name, Sweeping(name) # {}
    PROVE  Min(Sweeping(name)) \in Sweeping(name) /\ \A j \in Sweeping(name) : Min(Sweeping(name)) <= j
    <1> DEFINE T == Sweeping(name)
    <1>1. Len(Adoption) \in Nat /\ T \in SUBSET (0 .. Len(Adoption))
        BY AdoptionLength DEF Sweeping
    <1> HIDE DEF T
    <1>2. T # {}
        BY DEF T
    <1>3. \E x \in T : \A y \in T : x <= y
        BY <1>1, <1>2, LeastNumber
    <1>4. Min(T) \in T /\ \A x \in T : Min(T) <= x
        BY <1>3 DEF Min
    <1> QED BY <1>4 DEF T

LEMMA SweptFacts ==
    ASSUME NEW n, NEW d \in Directories(n), Belongs(d), NEW name \in SweptNames(d)
    PROVE  /\ name \in DOMAIN d /\ name \in Keys /\ EncodeKey(name) = name /\ name \in Names
           /\ ~IsMetadataFilename(name) /\ ~IsDotFile(name) /\ SidecarName(name) \notin DOMAIN d
           /\ name \notin OwnedFilenames(d, Adoption)
           /\ SidecarOf(name) = SidecarName(name) /\ At(d, SidecarOf(name)) = Missing
    <1>1. /\ name \in DOMAIN d /\ name \in Names /\ Unclaimed(d, name) /\ Sweeping(name) # {}
          /\ ~IsMetadataFilename(name) /\ ~IsDotFile(name) /\ SidecarName(name) \notin DOMAIN d
          /\ name \notin OwnedFilenames(d, Adoption) /\ name \notin DeclaredFiles(Adoption)
        BY UnclaimedFiles, DirectoryFacts DEF SweptNames, Unclaimed
    <1>2. PICK i \in DOMAIN Adoption : Adoption[i].kind = "sweep" /\ Ruling(i, name) # {}
        BY <1>1 DEF Sweeping
    <1>3. RuleFor(Adoption[i].rules, name) # 0
        BY <1>1, <1>2, RulingMeans
    <1>4. d[name].kind = "value" /\ name \in Seq(DOMAIN Escape) /\ ValidFilename(name)
        BY <1>1, ContentFacts, DirectoryFacts DEF Placed
    <1>5. name \in ProperFilenames
        <2>1. ~IsTemporary(name)
            BY <1>1, KeysAssumption DEF KeysAssumption, IsTemporary, IsDotFile
        <2> QED BY <1>4, <2>1 DEF ProperFilenames, Proper
    <1>6. ASSUME NEW k \in Keys, BoundTo(d, name, k) PROVE FALSE
        <2>1. Parses(d, k) /\ FileOf(d, k) = name
            BY <1>6 DEF BoundTo
        <2>2. /\ SidecarName(EncodeKey(k)) \in DOMAIN d
              /\ ReadSidecar(d, k) = d[SidecarName(EncodeKey(k))]
            BY <2>1, KeyFacts, SidecarFacts
        <2>3. name # EncodeKey(k)
            BY <1>1, <2>2
        <2>4. ReadSidecar(d, k).filename = name /\ ReadSidecar(d, k).kind = "sidecar"
            BY <2>1, <2>3, FileFacts DEF ValuePath, Parses
        <2> QED BY <1>1, <2>2, <2>4 DEF Unclaimed
    <1>7. name \in Chosen
        <2>1. At(d, name) # Missing
            BY <1>1, AtThere DEF There
        <2> QED BY <1>1, <1>5, <1>6, <2>1 DEF Belongs, LooseChosen
    <1>8. name \in Keys /\ EncodeKey(name) = name
        <2>1. name \notin {None} \cup DeclaredFiles(Adoption)
            BY <1>1, <1>5, ProperFacts
        <2> QED BY <1>2, <1>3, <1>4, <1>7, <2>1, SweepsAssumption DEF SweepsAssumption
    <1>9. SidecarOf(name) = SidecarName(name) /\ At(d, SidecarOf(name)) = Missing
        BY <1>1, <1>8 DEF SidecarOf, At, There
    <1> QED BY <1>1, <1>8, <1>9

\* After a sweep with a rule for it a file that nobody claims has a record.
LEMMA SweepReaches ==
    ASSUME NEW n, NEW d \in Directories(n), Belongs(d), NEW keyed, NEW done, IsOpening(keyed, done, n, d),
           AdoptFiles(d, Adoption).ok, NEW name \in SweptNames(d), NEW i \in Sweeping(name)
    PROVE  Tracked(done[i].dir, name)
    <1> DEFINE N == Len(Adoption)
               a == done[i - 1]
               listing == DOMAIN d
               rules == Adoption[i].rules
               M == Cardinality(listing)
               S == NewlyOwned(n, d)
    <1>1. i \in DOMAIN Adoption /\ Adoption[i].kind = "sweep" /\ Ruling(i, name) # {}
          /\ i \in 1 .. N /\ i \in 0 .. N /\ i - 1 \in 0 .. N
        BY AdoptionLength DEF Sweeping
    <1>2. /\ name \in listing /\ name \in Keys /\ EncodeKey(name) = name /\ name \in Names
          /\ ~IsMetadataFilename(name) /\ ~IsDotFile(name) /\ SidecarName(name) \notin listing
          /\ name \notin OwnedFilenames(d, Adoption)
        BY SweptFacts
    <1>3. RuleFor(rules, name) # 0
        BY <1>1, <1>2, RulingMeans
    <1>4. a \in S /\ done[i] = Sweep(a, listing, rules) /\ done[i].ok /\ a.ok
        BY <1>1, AllNewlyOwned, NothingFailed DEF IsOpening, SweepsTurns
    <1>5. done[i] = SweptFiles(a, listing, rules, M)
        <2>1. Failed(a).ok = FALSE
            <3> HIDE DEF a
            <3> QED BY <1>4, OpenedFacts DEF NewlyOwned
        <2> QED BY <1>4, <2>1 DEF Sweep
    <1>6. listing \in SUBSET Names /\ IsFiniteSet(listing)
        BY DirectoryFacts
    <1>7. Lasts(S, n, d)
        BY NewlyOwnedLasts
    <1>8. \A b \in S, m \in listing : SweepFile(b, listing, rules, m) \in S
        <2> HIDE DEF S
        <2> QED BY <1>1, <1>7, SweepTurnKeeps
    <1>9. M \in Nat /\ M \in 0 .. M
        BY <1>6, FS_CardinalityType
    <1> HIDE DEF S, listing, rules, a
    <1>10. PICK g : /\ SweepTurns(g, a, listing, rules)
                    /\ \A j \in 0 .. M : g[j] \in S
                    /\ SweptFiles(a, listing, rules, M) = g[M]
        BY <1>4, <1>6, <1>8, SweptFilesRun
    <1>11. PICK p \in 1 .. M : Sorted(listing)[p] = name
        BY <1>2, <1>6, SortedNames
    <1> DEFINE b == g[p - 1]
               e == g[p]
    <1>12. p - 1 \in 0 .. M /\ p \in 0 .. M
        BY <1>9
    <1>13. b \in S /\ e \in S /\ e = SweepFile(b, listing, rules, name)
        BY <1>10, <1>11, <1>12 DEF SweepTurns
    <1> HIDE DEF b, e
    <1>14. b \in Opened(n, d) /\ e \in Opened(n, d)
        BY <1>13 DEF NewlyOwned, S
    <1>15. Tracked(e.dir, name)
        <2>1. CASE name \in b.owned
            <3>1. PICK k \in Keys : name = EncodeKey(k) /\ Tracked(b.dir, k)
                BY <1>2, <1>13, <2>1 DEF NewlyOwned, S
            <3>2. k = name
                BY <1>2, <3>1, KeyFacts, EncodedOnce
            <3>3. e = b
                BY <1>13, <2>1 DEF SweepFile, MaySweep
            <3> QED BY <3>1, <3>2, <3>3
        <2>2. CASE name \notin b.owned
            <3> DEFINE type == rules[RuleFor(rules, name)].type
            <3>1. MaySweep(b, listing, name)
                BY <1>2, <2>2 DEF MaySweep
            <3>2. e = Adopted(b, name, name, type)
                BY <1>3, <1>13, <3>1 DEF SweepFile
            <3>3. name \in ProperFilenames /\ name \in DOMAIN b.dir /\ type \in Types
                BY <1>1, <1>2, <1>3, <1>14, <3>1, SweepMeets DEF rules, listing
            <3> HIDE DEF type
            <3> QED BY <1>2, <1>14, <3>2, <3>3, AdoptionTracks
        <2> QED BY <2>1, <2>2
    <1> DEFINE P == TrackedAs(n, d, name, ReadSidecar(e.dir, name))
    <1>16. Lasts(P, n, d) /\ e \in P
        BY <1>2, <1>14, <1>15, TrackedLasts DEF TrackedAs
    <1>17. ASSUME NEW j \in 1 .. M, g[j - 1] \in P PROVE g[j] \in P
        <2>1. g[j] = SweepFile(g[j - 1], listing, rules, Sorted(listing)[j]) /\ Sorted(listing)[j] \in listing
            BY <1>6, <1>10, SortedNames DEF SweepTurns
        <2> HIDE DEF P
        <2> QED BY <1>1, <1>16, <1>17, <2>1, SweepTurnKeeps DEF listing, rules
    <1>18. g[p] \in P
        BY <1>16 DEF e
    <1>19. g[M] \in P
        <2> HIDE DEF P, M
        <2> QED BY <1>9, <1>12, <1>17, <1>18, LoopFrom
    <1> QED BY <1>5, <1>10, <1>19 DEF TrackedAs

\* The record that a sweep gives a file.
ByRule(d, name, i) == Sidecar(name, Adoption[i].rules[Min(Ruling(i, name))].type, d[name].size, None)

\* What is new in the directory after the first i sweeps: the sidecars of declared keys
\* and those of files that one of these sweeps means.
Explained(n, d, i) ==
    {a \in Opened(n, d) : \A m \in Names :
        \/ At(a.dir, m) = At(d, m)
        \/ \E j \in KeyCandidates : m = SidecarOf(Adoption[j].key)
        \/ \E name \in SweptNames(d) : \E j \in Sweeping(name) :
              j <= i /\ m = SidecarOf(name) /\ At(a.dir, m) = ByRule(d, name, j)}

LEMMA FailureExplained ==
    ASSUME NEW n, NEW d, NEW i, NEW a \in Explained(n, d, i)
    PROVE  Failed(a) \in Explained(n, d, i)
    <1>1. a \in Opened(n, d)
        BY DEF Explained
    <1>2. Failed(a) \in Opened(n, d) /\ Failed(a).dir = a.dir
        BY <1>1, OpenedFacts
    <1> QED BY <1>2 DEF Explained

LEMMA KeyExplained ==
    ASSUME NEW n, NEW d \in Directories(n), NEW q, NEW a \in Explained(n, d, q),
           NEW i \in DOMAIN Adoption, Adoption[i].kind = "key"
    PROVE  AdoptForKey(a, Adoption[i]) \in Explained(n, d, q)
    <1>1. a \in Opened(n, d) /\ a \in Adoptions(n, d)
        BY OpenedFacts DEF Explained
    <1>2. AdoptForKeyCases(a, Adoption[i])
        BY WhatAKeyAdopts
    <1>3. ASSUME NEW j \in DOMAIN Adoption[i].files, AdoptableFor(a, Adoption[i].key, Adoption[i].files[j].filename)
          PROVE  Adopted(a, Adoption[i].key, Adoption[i].files[j].filename, Adoption[i].files[j].type)
                     \in Explained(n, d, q)
        <2> DEFINE k == Adoption[i].key
                   f == Adoption[i].files[j].filename
                   type == Adoption[i].files[j].type
                   b == Adopted(a, k, f, type)
        <2>1. f \in ProperFilenames /\ f \in DOMAIN a.dir /\ type \in Types /\ k \in Seq(DOMAIN Escape)
            BY <1>1, <1>3, KeyAdopts
        <2>2. b \in Opened(n, d)
            BY <1>1, <1>3, KeyAdoptionBelongs
        <2>3. \E x \in KeyCandidates : SidecarOf(k) = SidecarOf(Adoption[x].key)
            BY DEF KeyCandidates
        <2> HIDE DEF k, f, type
        <2>4. \A m : m # SidecarOf(k) => At(b.dir, m) = At(a.dir, m)
            <3>1. b.dir = Write(a.dir, SidecarOf(k), Sidecar(k, type, a.dir[f].size, IF f = EncodeKey(k) THEN None ELSE f))
                BY <1>1, <2>1, AdoptedFacts DEF SidecarOf
            <3> HIDE DEF b
            <3> QED BY <3>1, AtWrite
        <2> HIDE DEF b
        <2>5. b \in Explained(n, d, q)
            <3> SUFFICES ASSUME NEW m \in Names
                         PROVE  \/ At(b.dir, m) = At(d, m)
                                \/ \E x \in KeyCandidates : m = SidecarOf(Adoption[x].key)
                                \/ \E name \in SweptNames(d) : \E x \in Sweeping(name) :
                                      x <= q /\ m = SidecarOf(name) /\ At(b.dir, m) = ByRule(d, name, x)
                BY <2>2 DEF Explained
            <3>1. CASE m = SidecarOf(k)
                BY <2>3, <3>1
            <3>2. CASE m # SidecarOf(k)
                <4>1. \/ At(a.dir, m) = At(d, m)
                      \/ \E x \in KeyCandidates : m = SidecarOf(Adoption[x].key)
                      \/ \E name \in SweptNames(d) : \E x \in Sweeping(name) :
                            x <= q /\ m = SidecarOf(name) /\ At(a.dir, m) = ByRule(d, name, x)
                    BY DEF Explained
                <4>2. At(b.dir, m) = At(a.dir, m)
                    BY <2>4, <3>2
                <4> QED BY <4>1, <4>2
            <3> QED BY <3>1, <3>2
        <2> QED BY <2>5 DEF b, k, f, type
    <1> QED BY <1>2, <1>3, FailureExplained DEF AdoptForKeyCases

LEMMA SweepExplained ==
    ASSUME NEW n, NEW d \in Directories(n), Belongs(d), NEW i \in DOMAIN Adoption, Adoption[i].kind = "sweep",
           NEW a \in Explained(n, d, i), NEW name \in DOMAIN d
    PROVE  SweepFile(a, DOMAIN d, Adoption[i].rules, name) \in Explained(n, d, i)
    <1> DEFINE rule == RuleFor(Adoption[i].rules, name)
               type == Adoption[i].rules[rule].type
               b == Adopted(a, name, name, type)
    <1>1. a \in Opened(n, d) /\ a \in Adoptions(n, d) /\ OwnedFilenames(d, Adoption) \subseteq a.owned
          /\ i \in Nat
        <2>1. a \in Opened(n, d)
            BY DEF Explained
        <2>2. i \in Nat
            BY AdoptionLength
        <2> QED BY <2>1, <2>2, OpenedFacts
    <1>2. ASSUME MaySweep(a, DOMAIN d, name), rule # 0 PROVE b \in Explained(n, d, i)
        <2>1. /\ name \in Keys /\ EncodeKey(name) = name /\ name \in ProperFilenames /\ name \in DOMAIN a.dir
              /\ type \in Types
            BY <1>1, <1>2, SweepMeets
        <2>2. b \in Opened(n, d)
            BY <1>1, <1>2, SweepAdoptionBelongs
        <2>3. name \in Names /\ ~IsMetadataFilename(name)
            BY <2>1, ProperFacts
        <2>4. Ruling(i, name) # {} /\ rule = Min(Ruling(i, name))
            BY <1>2, <2>3, RulingMeans
        <2>5. i \in Sweeping(name)
            BY <2>4 DEF Sweeping
        <2>6. name \in SweptNames(d)
            <3>1. Unclaimed(d, name)
                BY <1>1, <1>2, UnclaimedFiles DEF MaySweep
            <3> QED BY <2>5, <3>1 DEF SweptNames
        <2>7. a.dir[name] = d[name]
            BY <1>1, <2>3, AdoptionFacts
        <2>8. ByRule(d, name, i) = Sidecar(name, type, d[name].size, None)
            BY <2>4 DEF ByRule
        <2> HIDE DEF type, rule
        <2>9. \A m : At(b.dir, m) = IF m = SidecarOf(name) THEN ByRule(d, name, i) ELSE At(a.dir, m)
            <3> DEFINE sidecar == Sidecar(name, type, a.dir[name].size, IF name = EncodeKey(name) THEN None ELSE name)
            <3>1. b.dir = Write(a.dir, SidecarOf(name), sidecar)
                BY <1>1, <2>1, AdoptedFacts, KeyFacts DEF SidecarOf
            <3>2. sidecar = ByRule(d, name, i)
                BY <2>1, <2>7, <2>8
            <3> HIDE DEF b, sidecar
            <3> QED BY <3>1, <3>2, AtWrite
        <2> HIDE DEF b
        <2> SUFFICES ASSUME NEW m \in Names
                     PROVE  \/ At(b.dir, m) = At(d, m)
                            \/ \E x \in KeyCandidates : m = SidecarOf(Adoption[x].key)
                            \/ \E f \in SweptNames(d) : \E x \in Sweeping(f) :
                                  x <= i /\ m = SidecarOf(f) /\ At(b.dir, m) = ByRule(d, f, x)
            BY <2>2 DEF Explained
        <2>10. CASE m = SidecarOf(name)
            <3>1. i <= i /\ At(b.dir, m) = ByRule(d, name, i)
                BY <1>1, <2>9, <2>10
            <3> QED BY <2>5, <2>6, <2>10, <3>1
        <2>11. CASE m # SidecarOf(name)
            <3>1. \/ At(a.dir, m) = At(d, m)
                  \/ \E x \in KeyCandidates : m = SidecarOf(Adoption[x].key)
                  \/ \E f \in SweptNames(d) : \E x \in Sweeping(f) :
                        x <= i /\ m = SidecarOf(f) /\ At(a.dir, m) = ByRule(d, f, x)
                BY DEF Explained
            <3>2. At(b.dir, m) = At(a.dir, m)
                BY <2>9, <2>11
            <3> QED BY <3>1, <3>2
        <2> QED BY <2>10, <2>11
    <1> QED BY <1>2 DEF SweepFile

LEMMA MoreExplained ==
    ASSUME NEW n, NEW d, NEW i \in Nat \ {0}, NEW a \in Explained(n, d, i - 1)
    PROVE  a \in Explained(n, d, i)
    <1>1. ASSUME NEW name \in SweptNames(d), NEW j \in Sweeping(name), j <= i - 1 PROVE j <= i
        <2>1. j \in Nat
            BY AdoptionLength DEF Sweeping
        <2> QED BY <1>1, <2>1
    <1> QED BY <1>1 DEF Explained

LEMMA AllExplained ==
    ASSUME NEW n, NEW d \in Directories(n), Belongs(d), NEW keyed, NEW done, IsOpening(keyed, done, n, d)
    PROVE  \A i \in 0 .. Len(Adoption) : done[i] \in Explained(n, d, i)
    <1> DEFINE N == Len(Adoption)
               P == Explained(n, d, 0)
    <1>1. N \in Nat /\ DOMAIN Adoption = 1 .. N /\ 0 \in 0 .. N
        BY AdoptionLength
    <1>2. /\ done[0] = keyed[N]
          /\ \A j \in 1 .. N :
                done[j] = IF Adoption[j].kind = "sweep" THEN Sweep(done[j - 1], DOMAIN d, Adoption[j].rules)
                          ELSE done[j - 1]
          /\ \A j \in 1 .. N :
                keyed[j] = IF Adoption[j].kind = "key" THEN AdoptForKey(keyed[j - 1], Adoption[j]) ELSE keyed[j - 1]
        BY DEF IsOpening, KeyTurns, SweepsTurns
    <1>3. keyed[0] \in P
        <2>1. keyed[0] \in Opened(n, d)
            BY <1>1 DEF IsOpening
        <2>2. keyed[0].dir = d
            BY DEF IsOpening, KeyTurns
        <2> QED BY <2>1, <2>2 DEF Explained
    <1> HIDE DEF N
    <1>4. ASSUME NEW j \in 1 .. N, keyed[j - 1] \in P PROVE keyed[j] \in P
        BY <1>1, <1>2, <1>4, KeyExplained
    <1>5. keyed[N] \in P
        <2> HIDE DEF P
        <2> QED BY <1>1, <1>3, <1>4, LoopFrom
    <1> DEFINE T == {i \in 0 .. N : done[i] \in Explained(n, d, i)}
    <1>6. 0 \in T
        BY <1>1, <1>2, <1>5
    <1>7. ASSUME NEW i \in 1 .. N, i - 1 \in T PROVE i \in T
        <2>1. i \in 0 .. N /\ i \in Nat \ {0} /\ i \in DOMAIN Adoption
            BY <1>1
        <2>2. done[i - 1] \in Explained(n, d, i)
            BY <1>7, <2>1, MoreExplained
        <2>3. CASE Adoption[i].kind = "sweep"
            <3> DEFINE listing == DOMAIN d
                       rules == Adoption[i].rules
                       S == Explained(n, d, i)
                       a == done[i - 1]
            <3>1. listing \in SUBSET Names /\ IsFiniteSet(listing)
                BY DirectoryFacts
            <3>2. \A b \in S, name \in listing : SweepFile(b, listing, rules, name) \in S
                BY <2>1, <2>3, SweepExplained
            <3>3. a \in S /\ Failed(a) \in S
                BY <2>2, FailureExplained
            <3>4. done[i] = Sweep(a, listing, rules)
                BY <1>2, <2>3
            <3> HIDE DEF listing, rules, S, a
            <3>5. Sweep(a, listing, rules) \in S
                BY <3>1, <3>2, <3>3, SweepKeeps
            <3> QED BY <2>1, <3>4, <3>5 DEF S
        <2>4. CASE Adoption[i].kind # "sweep"
            BY <1>2, <2>1, <2>2, <2>4
        <2> QED BY <2>3, <2>4
    <1> HIDE DEF T
    <1>8. \A i \in 0 .. N : i \in T
        BY <1>1, <1>6, <1>7, EveryTurn
    <1> QED BY <1>8 DEF T, N

\* The record of a swept file is that of the first sweep that means it.
LEMMA SweptByFirst ==
    ASSUME NEW n, NEW d \in Directories(n), Belongs(d), AdoptFiles(d, Adoption).ok, NEW name \in SweptNames(d)
    PROVE  LET e == AdoptFiles(d, Adoption).dir IN
           /\ Tracked(e, name)
           /\ \/ \E j \in KeyCandidates : SidecarOf(name) = SidecarOf(Adoption[j].key)
              \/ At(e, SidecarOf(name)) = ByRule(d, name, Min(Sweeping(name)))
    <1> DEFINE i == Min(Sweeping(name))
               N == Len(Adoption)
    <1>1. PICK keyed, done : IsOpening(keyed, done, n, d)
        BY OpeningRuns
    <1>2. i \in Sweeping(name) /\ (\A j \in Sweeping(name) : i <= j) /\ Sweeping(name) \subseteq 1 .. N /\ N \in Nat
        <2>1. Sweeping(name) # {}
            BY DEF SweptNames
        <2>2. Sweeping(name) \subseteq 1 .. N /\ N \in Nat
            BY AdoptionLength DEF Sweeping
        <2> QED BY <2>1, <2>2, FirstSweep
    <1>3. name \in Keys /\ At(d, SidecarOf(name)) = Missing /\ SidecarOf(name) \in Names
        BY SweptFacts, NamesOf DEF Lasting
    <1> HIDE DEF i, N
    <1>4. i \in 0 .. N
        BY <1>2
    <1> DEFINE a == done[i]
               sidecar == ReadSidecar(a.dir, name)
    <1>5. Tracked(a.dir, name)
        BY <1>1, <1>2, SweepReaches
    <1>6. a \in Explained(n, d, i) /\ a \in Opened(n, d)
        <2>1. a \in Explained(n, d, i)
            BY <1>1, <1>4, AllExplained DEF N
        <2> QED BY <2>1 DEF Explained
    <1>7. AdoptFiles(d, Adoption) \in TrackedAs(n, d, name, sidecar)
        <2>1. a \in TrackedAs(n, d, name, sidecar)
            BY <1>5, <1>6 DEF TrackedAs
        <2>2. Lasts(TrackedAs(n, d, name, sidecar), n, d)
            BY <1>3, TrackedLasts
        <2> HIDE DEF sidecar
        <2> QED BY <1>1, <1>4, <2>1, <2>2, OnceReached DEF N
    <1>8. sidecar = At(a.dir, SidecarOf(name)) /\ sidecar # Missing
        BY <1>5, ReadAt, Kinds DEF Tracked, RecordExists, Parses
    <1>9. \/ \E j \in KeyCandidates : SidecarOf(name) = SidecarOf(Adoption[j].key)
          \/ sidecar = ByRule(d, name, i)
        <2>1. \/ At(a.dir, SidecarOf(name)) = At(d, SidecarOf(name))
              \/ \E j \in KeyCandidates : SidecarOf(name) = SidecarOf(Adoption[j].key)
              \/ \E f \in SweptNames(d) : \E j \in Sweeping(f) :
                    j <= i /\ SidecarOf(name) = SidecarOf(f) /\ At(a.dir, SidecarOf(name)) = ByRule(d, f, j)
            BY <1>3, <1>6 DEF Explained
        <2>2. ASSUME NEW f \in SweptNames(d), NEW j \in Sweeping(f), j <= i, SidecarOf(name) = SidecarOf(f),
                     At(a.dir, SidecarOf(name)) = ByRule(d, f, j)
              PROVE  sidecar = ByRule(d, name, i)
            <3>1. f \in Keys
                BY SweptFacts
            <3>2. f = name
                BY <1>3, <2>2, <3>1, LastingNames
            <3>3. j = i
                BY <1>2, <2>2, <3>2
            <3> QED BY <1>8, <2>2, <3>2, <3>3
        <2> HIDE DEF sidecar
        <2> QED BY <1>3, <1>8, <2>1, <2>2
    <1>10. /\ Tracked(AdoptFiles(d, Adoption).dir, name)
           /\ At(AdoptFiles(d, Adoption).dir, SidecarOf(name)) = sidecar
        BY <1>7, ReadAt DEF TrackedAs
    <1> QED BY <1>9, <1>10 DEF i

LEMMA FilesAreSwept ==
    ASSUME NEW n, NEW d \in Directories(n), Belongs(d), AdoptFiles(d, Adoption).ok
    PROVE  FilesSwept(d, AdoptFiles(d, Adoption).dir)
    <1> DEFINE e == AdoptFiles(d, Adoption).dir
               N == Len(Adoption)
    <1>1. PICK keyed, done : IsOpening(keyed, done, n, d)
        BY OpeningRuns
    <1>2. AdoptFiles(d, Adoption) \in Explained(n, d, N)
        BY <1>1, AllExplained, AdoptionLength DEF IsOpening
    <1>3. e \in Directories(n)
        BY <1>2, OpenedFacts DEF Explained
    <1>4. \A name \in SweptNames(d) : Tracked(e, name)
        BY SweptByFirst
    <1>5. ASSUME NEW m \in DOMAIN e, IsSidecarName(m)
          PROVE  \/ There(d, m) /\ e[m] = d[m]
                 \/ \E i \in KeyCandidates : m = SidecarName(EncodeKey(Adoption[i].key))
                 \/ \E name \in SweptNames(d) :
                       /\ m = SidecarName(EncodeKey(name)) /\ ~There(d, m)
                       /\ e[m] = Sidecar(name, RuledType(name), d[name].size, None)
        <2>1. m \in Names /\ At(e, m) = e[m] /\ At(e, m) # Missing
            BY <1>3, <1>5, AtThere DEF There
        <2> HIDE DEF e
        <2>2. \/ At(e, m) = At(d, m)
              \/ \E j \in KeyCandidates : m = SidecarOf(Adoption[j].key)
              \/ \E name \in SweptNames(d) : m = SidecarOf(name)
            BY <1>2, <2>1 DEF Explained, e
        <2>3. CASE At(e, m) = At(d, m)
            BY <2>1, <2>3, AtThere
        <2>4. ASSUME NEW name \in SweptNames(d), m = SidecarOf(name),
                     ~\E j \in KeyCandidates : m = SidecarOf(Adoption[j].key)
              PROVE  /\ m = SidecarName(EncodeKey(name)) /\ ~There(d, m)
                     /\ e[m] = Sidecar(name, RuledType(name), d[name].size, None)
            <3>1. At(e, m) = ByRule(d, name, Min(Sweeping(name)))
                BY <2>4, SweptByFirst DEF e
            <3>2. ~There(d, m)
                BY <2>4, SweptFacts, AtThere
            <3>3. ByRule(d, name, Min(Sweeping(name))) = Sidecar(name, RuledType(name), d[name].size, None)
                BY DEF ByRule, RuledType
            <3> QED BY <2>1, <2>4, <3>1, <3>2, <3>3 DEF SidecarOf
        <2> QED BY <2>2, <2>3, <2>4 DEF SidecarOf
    <1> HIDE DEF e
    <1>6. FilesSwept(d, e)
        BY <1>4, <1>5 DEF FilesSwept
    <1> QED BY <1>6 DEF e

-------------------------------------------------------------------------------
(* An opening does what its documentation says *)

LEMMA NothingIsTouched ==
    ASSUME NEW n, NEW d \in Directories(n), Belongs(d)
    PROVE  NothingTouched(d, AdoptFiles(d, Adoption).dir)
    <1> DEFINE P == {a \in Opened(n, d) : DOMAIN d \subseteq DOMAIN a.dir}
               e == AdoptFiles(d, Adoption)
    <1>1. PICK keyed, done : IsOpening(keyed, done, n, d)
        BY OpeningRuns
    <1>2. Lasts(P, n, d)
        <2>1. P \in SUBSET Opened(n, d) /\ \A a \in P : Failed(a) \in P
            BY OpenedFacts
        <2>2. ASSUME NEW a \in P, NEW k \in Keys, NEW f \in ProperFilenames, NEW type \in Types,
                     f \in DOMAIN a.dir, Adopted(a, k, f, type) \in Opened(n, d)
              PROVE  Adopted(a, k, f, type) \in P
            <3> DEFINE b == Adopted(a, k, f, type)
                       sidecar == Sidecar(k, type, a.dir[f].size, IF f = EncodeKey(k) THEN None ELSE f)
            <3>1. a \in Adoptions(n, d) /\ k \in Seq(DOMAIN Escape)
                BY OpenedFacts, KeyFacts
            <3>2. b.dir = Write(a.dir, SidecarOf(k), sidecar)
                BY <2>2, <3>1, AdoptedFacts DEF SidecarOf
            <3> HIDE DEF b, sidecar
            <3>3. DOMAIN a.dir \subseteq DOMAIN b.dir
                BY <3>2 DEF Write
            <3> QED BY <2>2, <3>3 DEF b
        <2> HIDE DEF P
        <2> QED BY <2>1, <2>2 DEF Lasts
    <1>3. 0 \in 0 .. Len(Adoption)
        BY AdoptionLength
    <1>4. keyed[0] \in P
        <2>1. keyed[0] \in Opened(n, d)
            BY <1>1, <1>3 DEF IsOpening
        <2>2. keyed[0].dir = d
            BY <1>1 DEF IsOpening, KeyTurns
        <2> QED BY <2>1, <2>2
    <1>5. e \in P
        <2> HIDE DEF P
        <2> QED BY <1>1, <1>2, <1>3, <1>4, OnceReached
    <1>6. e \in Opened(n, d) /\ e \in Adoptions(n, d)
        BY <1>5, OpenedFacts
    <1> HIDE DEF e
    <1>7. \A name \in DOMAIN d : ~IsMetadataFilename(name) => e.dir[name] = d[name]
        BY <1>6, DirectoryFacts, AdoptionFacts
    <1>8. \A k \in Keys : Tracked(d, k) => ReadSidecar(e.dir, k) = ReadSidecar(d, k)
        BY <1>6 DEF Opened
    <1>9. NothingTouched(d, e.dir)
        BY <1>5, <1>7, <1>8 DEF NothingTouched
    <1> QED BY <1>9 DEF e

LEMMA KeysAreBound ==
    ASSUME NEW n, NEW d \in Directories(n), Belongs(d), AdoptFiles(d, Adoption).ok
    PROVE  KeysBound(d, AdoptFiles(d, Adoption).dir)
    BY KeyIsBound DEF KeysBound

\* Saving the metadata of the store makes no difference to an opening.
LEMMA SavedSame ==
    ASSUME NEW n, NEW d \in Directories(n)
    PROVE  LET e == SaveMetadata(d) IN
           /\ DOMAIN e = DOMAIN d \cup {StoreFile}
           /\ \A m \in DOMAIN d : e[m] = d[m]
           /\ \A m : m # StoreFile => (There(e, m) <=> There(d, m))
           /\ \A k \in Keys : ReadSidecar(e, k) = ReadSidecar(d, k) /\ (Tracked(e, k) <=> Tracked(d, k))
           /\ \A i \in KeyCandidates : Present(e, Adoption[i]) = Present(d, Adoption[i])
           /\ SweptNames(e) = SweptNames(d)
    <1> DEFINE e == SaveMetadata(d)
    <1>1. DOMAIN e = DOMAIN d \cup {StoreFile} /\ e[StoreFile] = StoreMetadata
          /\ \A m \in DOMAIN d \ {StoreFile} : e[m] = d[m]
        BY DEF SaveMetadata, Write
    <1>2. e \in Directories(n) /\ Untouched(d, e)
        BY SaveKeeps, AtSaved DEF Untouched
    <1> HIDE DEF e
    <1>3. \A m \in DOMAIN d : e[m] = d[m]
        BY <1>1, DirectoryFacts DEF Placed
    <1>4. \A m : m # StoreFile => (There(e, m) <=> There(d, m))
        BY <1>1 DEF There
    <1>5. ASSUME NEW k \in Keys
          PROVE  ReadSidecar(e, k) = ReadSidecar(d, k) /\ (Tracked(e, k) <=> Tracked(d, k))
        <2>1. At(e, SidecarOf(k)) = At(d, SidecarOf(k)) /\ At(e, FileOf(d, k)) = At(d, FileOf(d, k))
            BY <1>2, NamesOf DEF Untouched
        <2> QED BY <1>2, <2>1, SameRecord, TrackedMeans
    <1>6. \A m : ~IsMetadataFilename(m) => m # StoreFile
        BY DEF IsMetadataFilename
    <1>7. ASSUME NEW i \in KeyCandidates PROVE Present(e, Adoption[i]) = Present(d, Adoption[i])
        <2> DEFINE files == Adoption[i].files
        <2>1. ASSUME NEW x PROVE Present(x, Adoption[i]) =
                  {p \in DOMAIN files : ~IsMetadataFilename(files[p].filename) /\ There(x, files[p].filename)}
            BY DEF Present
        <2> HIDE DEF files
        <2> QED BY <1>4, <1>6, <2>1
    <1>8. ASSUME NEW name \in DOMAIN d PROVE Unclaimed(e, name) <=> Unclaimed(d, name)
        <2>1. SidecarName(name) # StoreFile
            BY DirectoryFacts, SidecarNames
        <2>2. (\E m \in DOMAIN e : e[m].kind = "sidecar" /\ e[m].filename = name)
                  <=> (\E m \in DOMAIN d : d[m].kind = "sidecar" /\ d[m].filename = name)
            <3>1. e[StoreFile].kind # "sidecar"
                BY <1>1 DEF StoreMetadata
            <3> QED BY <1>1, <1>3, <3>1
        <2> QED BY <1>4, <2>1, <2>2 DEF Unclaimed
    <1>9. ~Unclaimed(e, StoreFile)
        BY DEF Unclaimed, IsMetadataFilename
    <1>10. SweptNames(e) = SweptNames(d)
        BY <1>1, <1>8, <1>9 DEF SweptNames
    <1> QED BY <1>1, <1>3, <1>4, <1>5, <1>7, <1>10 DEF e

LEMMA OpeningSound ==
    ASSUME NEW n, NEW d \in Directories(n), Belongs(d), NEW a, a = AdoptFiles(SaveMetadata(d), Adoption), a.ok
    PROVE  NothingTouched(d, a.dir) /\ KeysBound(d, a.dir) /\ FilesSwept(d, a.dir)
    <1> DEFINE e == SaveMetadata(d)
    <1>1. e \in Directories(n) /\ Belongs(e)
        BY SaveKeeps, AtSaved, UntouchedBelongs DEF Untouched
    <1>2. /\ DOMAIN e = DOMAIN d \cup {StoreFile}
          /\ \A m \in DOMAIN d : e[m] = d[m]
          /\ \A m : m # StoreFile => (There(e, m) <=> There(d, m))
          /\ \A k \in Keys : ReadSidecar(e, k) = ReadSidecar(d, k) /\ (Tracked(e, k) <=> Tracked(d, k))
          /\ \A i \in KeyCandidates : Present(e, Adoption[i]) = Present(d, Adoption[i])
          /\ SweptNames(e) = SweptNames(d)
        BY SavedSame
    <1> HIDE DEF e
    <1>3. NothingTouched(e, a.dir) /\ KeysBound(e, a.dir) /\ FilesSwept(e, a.dir)
        BY <1>1, NothingIsTouched, KeysAreBound, FilesAreSwept DEF e
    <1>4. NothingTouched(d, a.dir)
        BY <1>2, <1>3 DEF NothingTouched
    <1>5. ASSUME NEW i \in KeyCandidates, KeyBound(e, a.dir, Adoption[i]) PROVE KeyBound(d, a.dir, Adoption[i])
        <2> DEFINE files == Adoption[i].files
                   present == Present(d, Adoption[i])
                   k == Adoption[i].key
        <2>1. present = Present(e, Adoption[i])
            BY <1>2
        <2>2. \A p \in present : files[p].filename \in DOMAIN d
            BY DEF Present, There
        <2>3. Cardinality(present) <= 1
              /\ \A p \in present : GetValue(a.dir, k, TRUE)
                     = Found(files[p].filename, k, files[p].type, e[files[p].filename].size)
            BY <1>5, <2>1 DEF KeyBound
        <2>4. \A p \in present : GetValue(a.dir, k, TRUE)
                     = Found(files[p].filename, k, files[p].type, d[files[p].filename].size)
            <3> HIDE DEF files, present, k
            <3> QED BY <1>2, <2>2, <2>3
        <2> QED BY <2>3, <2>4 DEF KeyBound
    <1>6. KeysBound(d, a.dir)
        <2> SUFFICES ASSUME NEW i \in KeyCandidates, ~Tracked(d, Adoption[i].key),
                            \A j \in KeyCandidates : j < i /\ Adoption[j].key = Adoption[i].key
                                => Present(d, Adoption[j]) = {}
                     PROVE  KeyBound(d, a.dir, Adoption[i])
            BY DEF KeysBound
        <2>1. Adoption[i].key \in Keys
            BY DeclaredFacts DEF KeyCandidates
        <2>2. KeyBound(e, a.dir, Adoption[i])
            BY <1>2, <1>3, <2>1 DEF KeysBound
        <2> QED BY <1>5, <2>2
    <1>7. FilesSwept(d, a.dir)
        <2>1. \A name \in SweptNames(d) : Tracked(a.dir, name)
            BY <1>2, <1>3 DEF FilesSwept
        <2>2. ASSUME NEW m \in DOMAIN a.dir, IsSidecarName(m)
              PROVE  \/ There(d, m) /\ a.dir[m] = d[m]
                     \/ \E i \in KeyCandidates : m = SidecarName(EncodeKey(Adoption[i].key))
                     \/ \E name \in SweptNames(d) :
                           /\ m = SidecarName(EncodeKey(name)) /\ ~There(d, m)
                           /\ a.dir[m] = Sidecar(name, RuledType(name), d[name].size, None)
            <3>1. m # StoreFile
                <4>1. Len(StoreFile) = 1
                    BY DEF StoreFile
                <4> QED BY <2>2, <4>1 DEF IsSidecarName
            <3>2. \/ There(e, m) /\ a.dir[m] = e[m]
                  \/ \E i \in KeyCandidates : m = SidecarName(EncodeKey(Adoption[i].key))
                  \/ \E name \in SweptNames(e) :
                        /\ m = SidecarName(EncodeKey(name)) /\ ~There(e, m)
                        /\ a.dir[m] = Sidecar(name, RuledType(name), e[name].size, None)
                BY <1>3, <2>2 DEF FilesSwept
            <3>3. CASE There(e, m) /\ a.dir[m] = e[m]
                BY <1>2, <3>1, <3>3 DEF There
            <3>4. ASSUME NEW name \in SweptNames(e), m = SidecarName(EncodeKey(name)), ~There(e, m),
                         a.dir[m] = Sidecar(name, RuledType(name), e[name].size, None)
                  PROVE  /\ name \in SweptNames(d) /\ m = SidecarName(EncodeKey(name)) /\ ~There(d, m)
                         /\ a.dir[m] = Sidecar(name, RuledType(name), d[name].size, None)
                <4>1. name \in SweptNames(d) /\ name \in DOMAIN d
                    BY <1>2 DEF SweptNames
                <4> QED BY <1>2, <3>1, <3>4, <4>1
            <3> QED BY <3>2, <3>3, <3>4
        <2> QED BY <2>1, <2>2 DEF FilesSwept
    <1> QED BY <1>4, <1>6, <1>7

\* Opening a store with candidates leaves every file and every usable record as it is,
\* binds each declared key without a record to the one file that is there, and gives
\* records to exactly the files that nobody claims and that a rule means, by the first
\* such rule.  What one turn of the loops reaches, the later ones keep.
THEOREM OpeningsAreSound == Spec => AdoptionSound
    <1> DEFINE Sound == NothingTouched(dir, dir') /\ KeysBound(dir, dir') /\ FilesSwept(dir, dir')
    <1>1. TypeInv /\ Belongs(dir) /\ [Next]_vars => [~open /\ open' => Sound]_vars
        <2> SUFFICES ASSUME TypeInv, Belongs(dir), [Next]_vars, ~open, open' PROVE Sound
            OBVIOUS
        <2>1. OpenStore
            BY DEF Next, vars, SetValue, Delete, Purge, DropStorage, Read, StartStream, StreamChunk, StreamFails,
                   Finalize, FinalizeRefused, FinalizeFails, OpenStore, Exit, OutsideWrite, ForeignWrite, Spoil
        <2>2. dir' = AdoptFiles(SaveMetadata(dir), Adoption).dir /\ AdoptFiles(SaveMetadata(dir), Adoption).ok
              /\ dir \in Directories(Len(lengths))
            BY <2>1, OpenStoreEffect DEF TypeInv
        <2> QED BY <2>2, OpeningSound
    <1> QED BY <1>1, TypeInduction, BelongingInduction, PTL DEF Spec, AdoptionSound

-------------------------------------------------------------------------------
(* Listings: the keys to list, and the candidates that stand for them *)

\* The names behind one of a listing have the positions behind its.
LEMMA NamesBehind ==
    ASSUME NEW K \in SUBSET Names, IsFiniteSet(K), NEW i \in 1 .. Cardinality(K),
           NEW B, B = {k \in K : Before(Sorted(K)[i], k)}
    PROVE  /\ IsFiniteSet(B) /\ Cardinality(B) = Cardinality(K) - i
           /\ \A j \in 1 .. Cardinality(B) : Sorted(B)[j] = Sorted(K)[i + j]
    <1> DEFINE c == Sorted(K)[i]
               E == Earlier(K, c)
               F == E \cup {c}
    <1>1. c \in K /\ Cardinality(E) = i - 1
        BY SortedNames
    <1>2. B \in SUBSET K /\ E \in SUBSET K /\ F \in SUBSET K /\ B = {k \in K : Before(c, k)}
        BY <1>1 DEF Earlier
    <1> HIDE DEF c
    <1>3. c \in Names /\ c \notin E /\ c \notin B
        BY <1>1, <1>2, NotBeforeItself DEF Earlier
    <1>4. /\ IsFiniteSet(B) /\ IsFiniteSet(E) /\ IsFiniteSet(F)
          /\ Cardinality(B) \in Nat /\ Cardinality(K) \in Nat
        BY <1>2, FS_Subset, FS_CardinalityType
    <1>5. Cardinality(F) = i
        <2>1. Cardinality(F) = Cardinality(E) + 1
            BY <1>3, <1>4, FS_AddElement
        <2>2. i \in Nat
            BY <1>4
        <2> HIDE DEF E, F
        <2> QED BY <1>1, <2>1, <2>2
    <1>6. ASSUME NEW k \in B
          PROVE  Cardinality(Earlier(K, k)) = Cardinality(Earlier(B, k)) + i /\ Cardinality(Earlier(B, k)) \in Nat
        <2>1. k \in Names /\ Before(c, k) /\ k \in K
            BY <1>2
        <2>2. Earlier(K, k) = Earlier(B, k) \cup F
            <3>1. ASSUME NEW m \in K, Before(m, k) PROVE m \in Earlier(B, k) \cup F
                <4>1. m = c \/ Before(m, c) \/ Before(c, m)
                    BY <1>3, BeforeOrAfter
                <4> QED BY <1>2, <3>1, <4>1 DEF Earlier
            <3>2. ASSUME NEW m \in E PROVE Before(m, k) /\ m \in K
                BY <1>3, <2>1, BeforeTwice DEF Earlier
            <3> QED BY <1>1, <1>2, <2>1, <3>1, <3>2 DEF Earlier
        <2>3. Earlier(B, k) \cap F = {}
            <3> SUFFICES ASSUME NEW m \in Earlier(B, k), m \in F PROVE FALSE
                OBVIOUS
            <3>1. m \in Names /\ Before(c, m) /\ m # c /\ Before(m, c)
                BY <1>2, <1>3 DEF Earlier
            <3> QED BY <1>3, <3>1, BeforeTwice, NotBeforeItself
        <2>4. IsFiniteSet(Earlier(B, k))
            <3>1. Earlier(B, k) \in SUBSET B
                BY DEF Earlier
            <3> QED BY <1>4, <3>1, FS_Subset
        <2> HIDE DEF F
        <2>5. Cardinality(Earlier(B, k) \cup F) = Cardinality(Earlier(B, k)) + Cardinality(F) - Cardinality({})
            BY <1>4, <2>3, <2>4, FS_Union
        <2>6. Cardinality({}) = 0 /\ Cardinality(Earlier(B, k)) \in Nat
            BY <2>4, FS_EmptySet, FS_CardinalityType
        <2> QED BY <1>5, <2>2, <2>5, <2>6
    <1>7. Cardinality(B) = Cardinality(K) - i
        <2>1. K = B \cup F /\ B \cap F = {}
            <3>1. ASSUME NEW m \in K PROVE m \in B \/ m \in F
                <4>1. m = c \/ Before(m, c) \/ Before(c, m)
                    BY <1>3, BeforeOrAfter
                <4> QED BY <1>2, <4>1 DEF Earlier
            <3>2. ASSUME NEW m \in B, m \in F PROVE FALSE
                <4>1. m \in Names /\ Before(c, m) /\ Before(m, c)
                    BY <1>2, <1>3, <3>2 DEF Earlier
                <4> QED BY <1>3, <4>1, BeforeTwice, NotBeforeItself
            <3> QED BY <1>2, <3>1, <3>2
        <2> HIDE DEF F
        <2>2. Cardinality(K) = Cardinality(B) + Cardinality(F) - Cardinality({}) /\ Cardinality({}) = 0
            BY <1>4, <2>1, FS_Union, FS_EmptySet
        <2> QED BY <1>4, <1>5, <2>2
    <1>8. ASSUME NEW j \in 1 .. Cardinality(B) PROVE Sorted(B)[j] = Sorted(K)[i + j]
        <2> DEFINE k == Sorted(B)[j]
        <2>1. k \in B /\ Cardinality(Earlier(B, k)) = j - 1
            BY <1>2, <1>4, SortedNames
        <2> HIDE DEF k
        <2>2. Cardinality(Earlier(K, k)) = (i + j) - 1 /\ k \in K
            BY <1>2, <1>6, <2>1
        <2>3. i + j \in 1 .. Cardinality(K)
            BY <1>4, <1>7
        <2>4. Sorted(K)[i + j] \in K /\ Cardinality(Earlier(K, Sorted(K)[i + j])) = (i + j) - 1
            BY <2>3, SortedNames
        <2>5. k = Sorted(K)[i + j]
            BY <2>2, <2>4, SortedNames
        <2> QED BY <2>5 DEF k
    <1> QED BY <1>4, <1>7, <1>8

\* Things that go by names of their own are as many as the names.
LEMMA ByName ==
    ASSUME NEW C, IsFiniteSet(C), \A a, b \in C : a.sort = b.sort => a = b
    PROVE  /\ IsFiniteSet({a.sort : a \in C})
           /\ Cardinality({a.sort : a \in C}) = Cardinality(C)
    <1> DEFINE T == {a.sort : a \in C}
               f == [a \in C |-> a.sort]
    <1>1. f \in [C -> T] /\ (\A a, b \in C : f[a] = f[b] => a = b) /\ \A t \in T : \E a \in C : f[a] = t
        OBVIOUS
    <1>2. f \in Bijection(C, T)
        <2> HIDE DEF f, T
        <2> QED BY <1>1 DEF Bijection, Injection, Surjection, IsInjective
    <1>3. ExistsBijection(C, T)
        <2> HIDE DEF f, T
        <2> QED BY <1>2 DEF ExistsBijection
    <1> HIDE DEF T
    <1>4. IsFiniteSet(T) /\ Cardinality(T) = Cardinality(C)
        BY <1>3, FS_Bijection
    <1> QED BY <1>4 DEF T

\* Sorted by their names they are in the order of the names.
LEMMA InOrderOfNames ==
    ASSUME NEW C, IsFiniteSet(C), \A a, b \in C : a.sort = b.sort => a = b,
           NEW B \in SUBSET Names, B = {a.sort : a \in C}
    PROVE  /\ IsFiniteSet(B) /\ Cardinality(B) = Cardinality(C)
           /\ InOrder(C) = [j \in 1 .. Cardinality(B) |-> InOrder(C)[j]]
           /\ \A j \in 1 .. Cardinality(B) : InOrder(C)[j] \in C /\ InOrder(C)[j].sort = Sorted(B)[j]
    <1> DEFINE Ahead(c) == {a \in C : Before(a.sort, c.sort)}
    <1>1. IsFiniteSet(B) /\ Cardinality(B) = Cardinality(C)
        BY ByName
    <1>2. InOrder(C) = [j \in 1 .. Cardinality(B) |-> CHOOSE c \in C : Cardinality(Ahead(c)) = j - 1]
        BY <1>1 DEF InOrder
    <1>3. ASSUME NEW c \in C PROVE Cardinality(Ahead(c)) = Cardinality(Earlier(B, c.sort))
        <2>1. Ahead(c) \in SUBSET C /\ Earlier(B, c.sort) = {a.sort : a \in Ahead(c)}
            BY DEF Earlier
        <2> HIDE DEF Ahead
        <2>2. IsFiniteSet(Ahead(c)) /\ \A a, b \in Ahead(c) : a.sort = b.sort => a = b
            BY <2>1, FS_Subset
        <2>3. Cardinality({a.sort : a \in Ahead(c)}) = Cardinality(Ahead(c))
            BY <2>2, ByName
        <2> QED BY <2>1, <2>3
    <1> HIDE DEF Ahead
    <1>4. ASSUME NEW j \in 1 .. Cardinality(B)
          PROVE  InOrder(C)[j] \in C /\ InOrder(C)[j].sort = Sorted(B)[j]
        <2>1. Sorted(B)[j] \in B /\ Cardinality(Earlier(B, Sorted(B)[j])) = j - 1
            BY <1>1, SortedNames
        <2>2. \E c \in C : Cardinality(Ahead(c)) = j - 1
            BY <1>3, <2>1
        <2> DEFINE c == InOrder(C)[j]
        <2>3. c \in C /\ Cardinality(Ahead(c)) = j - 1
            BY <1>2, <2>2
        <2> HIDE DEF c
        <2>4. c.sort \in B /\ Cardinality(Earlier(B, c.sort)) = j - 1
            BY <1>3, <2>3
        <2>5. c.sort = Sorted(B)[j]
            BY <1>1, <2>1, <2>4, SortedNames
        <2> QED BY <2>3, <2>5 DEF c
    <1> QED BY <1>1, <1>2, <1>4

LEMMA DecodedKey ==
    ASSUME NEW k \in Seq(DOMAIN Escape)
    PROVE  DecodeKey(EncodeKey(k)) = k
    <1> DEFINE e == EncodeKey(k)
    <1>1. Len(e) = Len(k) /\ Len(k) \in Nat /\ DOMAIN e = 1 .. Len(k) /\ \A i \in 1 .. Len(k) : e[i] = Escape[k[i]]
        BY EncodedKey, LenProperties DEF Names
    <1> HIDE DEF e
    <1>2. ASSUME NEW i \in 1 .. Len(k) PROVE DecodeKey(e)[i] = k[i]
        <2>1. k[i] \in DOMAIN Escape /\ e[i] = Escape[k[i]]
            BY <1>1, ElementOfSeq
        <2>2. \A a \in DOMAIN Escape : Escape[a] = e[i] => a = k[i]
            BY <2>1, LettersAssumption DEF LettersAssumption
        <2>3. DecodeKey(e)[i] = CHOOSE a \in DOMAIN Escape : Escape[a] = e[i]
            BY <1>1, <2>1 DEF DecodeKey
        <2> QED BY <2>1, <2>2, <2>3
    <1>3. DecodeKey(e) = [i \in 1 .. Len(k) |-> DecodeKey(e)[i]]
        BY <1>1 DEF DecodeKey
    <1>4. k = [i \in 1 .. Len(k) |-> k[i]]
        BY LenProperties
    <1>5. DecodeKey(e) = k
        BY <1>2, <1>3, <1>4
    <1> QED BY <1>5 DEF e

\* A bare file that a listing may be told of.
Fallback(f) ==
    /\ f.name \in Seq(DOMAIN Escape) /\ f.name # << >>
    /\ ~IsMetadataFilename(EncodeKey(f.name))
    /\ f.type = "" \/ f.type \in Types

FallbackList(F) == (\E N \in Nat : DOMAIN F = 1 .. N) /\ \A i \in DOMAIN F : Fallback(F[i])

\* What a listing shows for a key with a sidecar and for a bare file without one.
KeyShown(d, k) == [sort |-> k, own |-> EncodeKey(k), meta |-> ReadSidecar(d, k)]
BareShown(d, f) ==
    [sort |-> f.name, own |-> EncodeKey(f.name),
     meta |-> Sidecar(f.name, IF f.type = "" THEN Octets ELSE f.type, d[EncodeKey(f.name)].size, None)]
BareOnes(d, F) ==
    {i \in DOMAIN F : /\ ~\E j \in 1 .. i - 1 : F[j].name = F[i].name
                      /\ There(d, EncodeKey(F[i].name))
                      /\ ReadSidecar(d, F[i].name) = Missing}

Shown(d, prefix, F) ==
    {c \in Candidates(d, F) : c.meta.kind = "sidecar" /\ IsPrefix(prefix, c.meta.key)}

TrackedNames(d) == {Front(name) : name \in {m \in DOMAIN d : IsSidecarName(m)}}

\* The names of the sidecars are those of the keys that have some.
LEMMA TrackedByName ==
    ASSUME NEW n, NEW d \in Directories(n)
    PROVE  /\ \A e \in TrackedNames(d) : e \in Names /\ SidecarName(e) \in DOMAIN d
           /\ \A k \in Seq(DOMAIN Escape) : k # << >> =>
                 (EncodeKey(k) \in TrackedNames(d) <=> ReadSidecar(d, k) # Missing)
    <1>1. ASSUME NEW e \in TrackedNames(d) PROVE e \in Names /\ SidecarName(e) \in DOMAIN d
        <2>1. PICK m \in DOMAIN d : IsSidecarName(m) /\ e = Front(m)
            BY DEF TrackedNames
        <2>2. m \in Names
            BY ContentFacts
        <2> QED BY <2>1, <2>2, FrontOfSidecar
    <1>2. ASSUME NEW k \in Seq(DOMAIN Escape), k # << >>
          PROVE  EncodeKey(k) \in TrackedNames(d) <=> ReadSidecar(d, k) # Missing
        <2> DEFINE e == EncodeKey(k)
                   m == SidecarName(e)
        <2>1. e \in Names /\ Len(e) = Len(k) /\ Len(k) # 0
            BY <1>2, EncodedKey, EmptySeq
        <2>2. e # << >>
            BY <2>1
        <2> HIDE DEF e
        <2>3. IsSidecarName(m) /\ Front(m) = e
            BY <2>1, <2>2, SidecarNames, FrontOfSidecar
        <2> HIDE DEF m
        <2>4. m \in DOMAIN d => d[m] # Missing
            <3>1. Missing.kind = "missing"
                BY DEF Missing
            <3> QED BY <3>1, ContentFacts
        <2>5. e \in TrackedNames(d) => m \in DOMAIN d
            BY <1>1 DEF m
        <2>6. m \in DOMAIN d => e \in TrackedNames(d)
            BY <2>3 DEF TrackedNames
        <2>7. ReadSidecar(d, k) = IF m \in DOMAIN d THEN d[m] ELSE Missing
            BY DEF ReadSidecar, At, There, m, e
        <2> QED BY <2>4, <2>5, <2>6, <2>7 DEF e
    <1> QED BY <1>1, <1>2

\* What is shown, each one for its name.
LEMMA ShownOnes ==
    ASSUME NEW n, NEW d \in Directories(n), Belongs(d),
           NEW F, FallbackList(F), NEW prefix, NEW c
    PROVE  c \in Shown(d, prefix, F) <=>
               \/ \E k \in Keys : Parses(d, k) /\ IsPrefix(prefix, k) /\ c = KeyShown(d, k)
               \/ \E i \in BareOnes(d, F) : IsPrefix(prefix, F[i].name) /\ c = BareShown(d, F[i])
    <1> DEFINE OfSidecar(e) == [sort |-> DecodeKey(e), own |-> e, meta |-> d[SidecarName(e)]]
               Bare == {i \in DOMAIN F : /\ ~\E j \in 1 .. i - 1 : F[j].name = F[i].name
                                         /\ EncodeKey(F[i].name) \notin TrackedNames(d)
                                         /\ There(d, EncodeKey(F[i].name))}
    <1>1. c \in Candidates(d, F) <=> \/ \E e \in TrackedNames(d) : c = OfSidecar(e)
                                     \/ \E i \in Bare : c = BareShown(d, F[i])
        BY DEF Candidates, TrackedNames, BareShown
    <1>2. Bare = BareOnes(d, F)
        <2>1. \A i \in DOMAIN F : EncodeKey(F[i].name) \notin TrackedNames(d) <=> ReadSidecar(d, F[i].name) = Missing
            BY TrackedByName DEF FallbackList, Fallback
        <2> QED BY <2>1 DEF BareOnes
    <1>3. ASSUME NEW e \in TrackedNames(d), d[SidecarName(e)].kind = "sidecar"
          PROVE  \E k \in Keys : Parses(d, k) /\ OfSidecar(e) = KeyShown(d, k)
        <2>1. e \in Names /\ SidecarName(e) \in DOMAIN d
            BY TrackedByName
        <2>2. PICK k \in Keys : /\ SidecarName(e) = SidecarOf(k) /\ Parses(d, k)
                                /\ ReadSidecar(d, k) = d[SidecarName(e)]
            BY <1>3, <2>1, SidecarOfKey
        <2>3. k \in Seq(DOMAIN Escape) /\ EncodeKey(k) \in Names
            BY KeyFacts
        <2>4. e = EncodeKey(k)
            BY <2>1, <2>2, <2>3, SidecarOnce DEF SidecarOf
        <2>5. DecodeKey(e) = k
            BY <2>3, <2>4, DecodedKey
        <2> QED BY <2>2, <2>4, <2>5 DEF KeyShown
    <1>4. ASSUME NEW k \in Keys, Parses(d, k)
          PROVE  /\ EncodeKey(k) \in TrackedNames(d) /\ OfSidecar(EncodeKey(k)) = KeyShown(d, k)
                 /\ KeyShown(d, k).meta.kind = "sidecar" /\ KeyShown(d, k).meta.key = k
        <2>1. k \in Seq(DOMAIN Escape) /\ k # << >>
            <3>1. k \in Seq(DOMAIN Escape) /\ EncodeKey(k) # << >>
                BY KeyFacts, ProperFacts
            <3>2. k = << >> => EncodeKey(k) = << >>
                BY DEF EncodeKey
            <3> QED BY <3>1, <3>2
        <2>2. ReadSidecar(d, k).kind = "sidecar" /\ ReadSidecar(d, k).key = k
              /\ ReadSidecar(d, k) = d[SidecarName(EncodeKey(k))]
            BY <1>4, <2>1, SidecarFacts DEF Parses
        <2>3. Missing.kind # "sidecar"
            BY DEF Missing
        <2>4. EncodeKey(k) \in TrackedNames(d)
            BY <2>1, <2>2, <2>3, TrackedByName
        <2>5. DecodeKey(EncodeKey(k)) = k
            BY <2>1, DecodedKey
        <2> QED BY <2>2, <2>4, <2>5 DEF KeyShown
    <1>5. \A i \in DOMAIN F : BareShown(d, F[i]).meta.kind = "sidecar" /\ BareShown(d, F[i]).meta.key = F[i].name
        BY DEF BareShown, Sidecar
    <1> HIDE DEF OfSidecar, Bare
    <1>6. ASSUME c \in Shown(d, prefix, F)
          PROVE  \/ \E k \in Keys : Parses(d, k) /\ IsPrefix(prefix, k) /\ c = KeyShown(d, k)
                 \/ \E i \in BareOnes(d, F) : IsPrefix(prefix, F[i].name) /\ c = BareShown(d, F[i])
        <2>1. c \in Candidates(d, F) /\ c.meta.kind = "sidecar" /\ IsPrefix(prefix, c.meta.key)
            BY <1>6 DEF Shown
        <2>2. CASE \E e \in TrackedNames(d) : c = OfSidecar(e)
            <3>1. PICK e \in TrackedNames(d) : c = OfSidecar(e)
                BY <2>2
            <3>2. d[SidecarName(e)].kind = "sidecar"
                BY <2>1, <3>1 DEF OfSidecar
            <3>3. PICK k \in Keys : Parses(d, k) /\ c = KeyShown(d, k)
                BY <1>3, <3>1, <3>2
            <3> QED BY <1>4, <2>1, <3>3
        <2>3. CASE \E i \in Bare : c = BareShown(d, F[i])
            <3>1. PICK i \in BareOnes(d, F) : c = BareShown(d, F[i])
                BY <1>2, <2>3
            <3>2. i \in DOMAIN F
                BY DEF BareOnes
            <3> QED BY <1>5, <2>1, <3>1, <3>2
        <2> QED BY <1>1, <2>1, <2>2, <2>3
    <1>7. ASSUME NEW k \in Keys, Parses(d, k), IsPrefix(prefix, k), c = KeyShown(d, k)
          PROVE  c \in Shown(d, prefix, F)
        BY <1>1, <1>4, <1>7 DEF Shown
    <1>8. ASSUME NEW i \in BareOnes(d, F), IsPrefix(prefix, F[i].name), c = BareShown(d, F[i])
          PROVE  c \in Shown(d, prefix, F)
        <2>1. i \in DOMAIN F
            BY DEF BareOnes
        <2> QED BY <1>1, <1>2, <1>5, <1>8, <2>1 DEF Shown
    <1> QED BY <1>6, <1>7, <1>8

\* The keys to list.
Listed(d, prefix, F) ==
    {k \in Keys : Parses(d, k) /\ IsPrefix(prefix, k)}
        \cup {k \in {F[i].name : i \in BareOnes(d, F)} : IsPrefix(prefix, k)}

\* Each of them is shown once.
LEMMA ShownNames ==
    ASSUME NEW n, NEW d \in Directories(n), Belongs(d),
           NEW F, FallbackList(F), NEW prefix
    PROVE  /\ IsFiniteSet(Shown(d, prefix, F))
           /\ \A a, b \in Shown(d, prefix, F) : a.sort = b.sort => a = b
           /\ {c.sort : c \in Shown(d, prefix, F)} = Listed(d, prefix, F)
           /\ Listed(d, prefix, F) \in SUBSET Seq(DOMAIN Escape)
    <1> DEFINE OfKeys == {KeyShown(d, k) : k \in {j \in Keys : Parses(d, j) /\ IsPrefix(prefix, j)}}
               OfFiles == {BareShown(d, F[i]) : i \in {j \in BareOnes(d, F) : IsPrefix(prefix, F[j].name)}}
    <1>0. PICK N \in Nat : DOMAIN F = 1 .. N
        BY DEF FallbackList
    <1>1. Shown(d, prefix, F) = OfKeys \cup OfFiles
        BY ShownOnes
    <1>2. /\ \A k : KeyShown(d, k).sort = k
          /\ \A f : BareShown(d, f).sort = f.name
        BY DEF KeyShown, BareShown
    <1>3. ASSUME NEW a \in OfKeys \cup OfFiles, NEW b \in OfKeys \cup OfFiles, a.sort = b.sort
          PROVE  a = b
        <2>1. \A c \in OfKeys : Parses(d, c.sort) /\ c = KeyShown(d, c.sort)
            BY <1>2
        <2>2. \A c \in OfFiles : \E i \in BareOnes(d, F) : c.sort = F[i].name /\ c = BareShown(d, F[i])
            BY <1>2
        <2>3. \A i \in BareOnes(d, F) : ~Parses(d, F[i].name)
            BY DEF BareOnes, Parses, Missing
        <2>4. \A i, j \in BareOnes(d, F) : F[i].name = F[j].name => i = j
            <3> SUFFICES ASSUME NEW i \in BareOnes(d, F), NEW j \in BareOnes(d, F), F[i].name = F[j].name
                         PROVE  i = j
                OBVIOUS
            <3>1. i \in 1 .. N /\ j \in 1 .. N /\ i \notin 1 .. j - 1 /\ j \notin 1 .. i - 1
                BY <1>0 DEF BareOnes
            <3> QED BY <3>1
        <2> HIDE DEF OfKeys, OfFiles
        <2>5. CASE a \in OfKeys /\ b \in OfKeys
            BY <1>3, <2>1, <2>5
        <2>6. CASE a \in OfFiles /\ b \in OfFiles
            <3>1. PICK i \in BareOnes(d, F) : a.sort = F[i].name /\ a = BareShown(d, F[i])
                BY <2>2, <2>6
            <3>2. PICK j \in BareOnes(d, F) : b.sort = F[j].name /\ b = BareShown(d, F[j])
                BY <2>2, <2>6
            <3> QED BY <1>3, <2>4, <3>1, <3>2
        <2> QED BY <1>3, <2>1, <2>2, <2>3, <2>5, <2>6
    <1>4. {c.sort : c \in OfKeys \cup OfFiles} = Listed(d, prefix, F)
        BY <1>2 DEF Listed
    <1>5. Listed(d, prefix, F) \in SUBSET Seq(DOMAIN Escape)
        <2>1. \A i \in BareOnes(d, F) : F[i].name \in Seq(DOMAIN Escape)
            BY DEF BareOnes, FallbackList, Fallback
        <2>2. \A k \in Keys : k \in Seq(DOMAIN Escape)
            BY KeyFacts
        <2> QED BY <2>1, <2>2 DEF Listed
    <1>6. IsFiniteSet(OfKeys)
        <2> DEFINE D == {m \in DOMAIN d : d[m].kind = "sidecar" /\ IsPrefix(prefix, d[m].key)}
                   f == [m \in D |-> KeyShown(d, d[m].key)]
        <2>1. IsFiniteSet(D)
            <3>1. D \in SUBSET DOMAIN d /\ IsFiniteSet(DOMAIN d)
                BY DirectoryFacts
            <3> QED BY <3>1, FS_Subset
        <2>2. ASSUME NEW m \in D PROVE f[m] \in OfKeys
            <3>1. PICK k \in Keys : Parses(d, k) /\ ReadSidecar(d, k) = d[m]
                BY SidecarOfKey
            <3>2. k = d[m].key
                BY <3>1, KeyFacts, SidecarFacts
            <3> QED BY <3>1, <3>2
        <2>3. ASSUME NEW c \in OfKeys PROVE \E m \in D : f[m] = c
            <3>1. PICK k \in Keys : Parses(d, k) /\ IsPrefix(prefix, k) /\ c = KeyShown(d, k)
                OBVIOUS
            <3> DEFINE m == SidecarName(EncodeKey(k))
            <3>2. m \in DOMAIN d /\ d[m].key = k /\ d[m].kind = "sidecar"
                BY <3>1, KeyFacts, SidecarFacts DEF Parses
            <3> HIDE DEF m
            <3>3. m \in D
                BY <3>1, <3>2
            <3> QED BY <3>1, <3>2, <3>3
        <2>4. f \in [D -> OfKeys]
            BY <2>2
        <2> HIDE DEF f, D, OfKeys
        <2>5. f \in Surjection(D, OfKeys)
            BY <2>3, <2>4 DEF Surjection
        <2> QED BY <2>1, <2>5, FS_Surjection
    <1>7. IsFiniteSet(OfFiles)
        <2> DEFINE D == {j \in BareOnes(d, F) : IsPrefix(prefix, F[j].name)}
                   f == [i \in D |-> BareShown(d, F[i])]
        <2>1. IsFiniteSet(D)
            <3>1. D \in SUBSET (1 .. N) /\ IsFiniteSet(1 .. N)
                BY <1>0, FS_Interval DEF BareOnes
            <3> QED BY <3>1, FS_Subset
        <2>2. f \in [D -> OfFiles] /\ \A c \in OfFiles : \E i \in D : f[i] = c
            OBVIOUS
        <2> HIDE DEF f, D, OfFiles
        <2>3. f \in Surjection(D, OfFiles)
            BY <2>2 DEF Surjection
        <2> QED BY <2>1, <2>3, FS_Surjection
    <1>8. IsFiniteSet(OfKeys \cup OfFiles)
        BY <1>6, <1>7, FS_Union
    <1> HIDE DEF OfKeys, OfFiles
    <1> QED BY <1>1, <1>3, <1>4, <1>5, <1>8

\* What a listing says of one of them is what a read says.
LEMMA ShownSaid ==
    ASSUME NEW n, NEW d \in Directories(n), Belongs(d),
           NEW F, FallbackList(F), NEW prefix, NEW c \in Shown(d, prefix, F)
    PROVE  LET item == Described(d, c.meta)
               hit == GetValue(d, item.key, TRUE)
           IN  /\ item \in Sidecars /\ item.key = c.sort /\ c.meta.key = c.sort
               /\ hit \notin {None, Error} => hit.size = item.size /\ hit.type = item.type
    <1> DEFINE item == Described(d, c.meta)
               hit == GetValue(d, item.key, TRUE)
    <1>1. ASSUME NEW k \in Keys, Parses(d, k), c = KeyShown(d, k)
          PROVE  /\ item \in Sidecars /\ item.key = c.sort /\ c.meta.key = c.sort
                 /\ hit \notin {None, Error} => hit.size = item.size /\ hit.type = item.type
        <2> DEFINE sidecar == ReadSidecar(d, k)
                   path == FileOf(d, k)
                   size == Backfilled(d, sidecar.size, path)
        <2>1. sidecar \in Sidecars /\ sidecar.key = k /\ sidecar.filename \in {None} \cup ProperFilenames /\ Binds(d, k)
            BY <1>1, KeyFacts, SidecarFacts
        <2>2. path = ValuePath(k, sidecar.filename) /\ path \in Names /\ ~IsMetadataFilename(path)
            BY <1>1, FileFacts, ProperFacts
        <2>3. ValidPath(sidecar.filename)
            BY <2>1 DEF Binds
        <2>4. c.meta = sidecar /\ c.sort = k
            BY <1>1 DEF KeyShown
        <2>5. size \in Nat \cup {None}
            <3>1. There(d, path) => d[path].size \in Nat
                <4> HIDE DEF path
                <4>1. There(d, path) => d[path] \in ValuesUpTo(n)
                    BY <2>2, ContentFacts DEF There
                <4> QED BY <4>1 DEF ValuesUpTo
            <3>2. sidecar.size \in Nat \cup {None}
                BY <2>1 DEF Sidecars
            <3> HIDE DEF sidecar, path
            <3> QED BY <3>1, <3>2 DEF Backfilled
        <2>6. item = [sidecar EXCEPT !.size = size]
            BY <2>1, <2>2, <2>3, <2>4 DEF Described
        <2>7. hit \notin {None, Error} => hit.size = size /\ hit.type = sidecar.type
            <3>1. hit = GetValue(d, k, TRUE)
                <4> HIDE DEF sidecar, size
                <4>1. item.key = k
                    BY <2>1, <2>6 DEF Sidecars
                <4> QED BY <4>1
            <3>2. hit = IF ~There(d, path) THEN None ELSE Found(path, sidecar.key, sidecar.type, size)
                BY <1>1, <2>1, <3>1 DEF GetValue
            <3> HIDE DEF sidecar, path, size, hit
            <3> QED BY <3>2 DEF Found
        <2> HIDE DEF sidecar, path, size, hit, item
        <2>8. item \in Sidecars /\ item.key = k /\ item.size = size /\ item.type = sidecar.type
            BY <2>1, <2>5, <2>6 DEF Sidecars
        <2> QED BY <2>1, <2>4, <2>7, <2>8
    <1>2. ASSUME NEW i \in BareOnes(d, F), c = BareShown(d, F[i])
          PROVE  item \in Sidecars /\ item.key = c.sort /\ c.meta.key = c.sort /\ hit = None
        <2> DEFINE k == F[i].name
                   type == IF F[i].type = "" THEN Octets ELSE F[i].type
                   size == d[EncodeKey(k)].size
        <2>1. Fallback(F[i]) /\ There(d, EncodeKey(k)) /\ ReadSidecar(d, k) = Missing
            BY DEF BareOnes, FallbackList
        <2>2. size \in Nat
            <3>1. EncodeKey(k) \in DOMAIN d /\ ~IsMetadataFilename(EncodeKey(k))
                BY <2>1 DEF There, Fallback
            <3>2. d[EncodeKey(k)] \in ValuesUpTo(n)
                BY <3>1, ContentFacts
            <3> QED BY <3>2 DEF ValuesUpTo
        <2>3. type \in Types /\ k \in Seq(DOMAIN Escape)
            BY <2>1, TypeNames DEF Fallback
        <2>4. c.sort = k /\ c.meta = Sidecar(k, type, size, None)
            BY <1>2 DEF BareShown
        <2> HIDE DEF size, type
        <2>5. size # None
            BY <2>2, NothingAssumption DEF NothingAssumption
        <2>6. c.meta \in Sidecars /\ c.meta.key = k /\ c.meta.filename = None /\ c.meta.size = size
            BY <2>2, <2>3, <2>4 DEF Sidecar, Sidecars
        <2>7. item = [c.meta EXCEPT !.size = size]
            BY <2>5, <2>6 DEF Described, ValidPath, Backfilled
        <2>8. item \in Sidecars /\ item.key = k
            <3> HIDE DEF item
            <3> QED BY <2>2, <2>6, <2>7 DEF Sidecars
        <2>9. hit = None
            <3>1. GetValue(d, k, TRUE) = None
                BY <2>1 DEF GetValue, Parses, Missing
            <3> HIDE DEF item
            <3> QED BY <2>8, <3>1
        <2> QED BY <2>4, <2>6, <2>8, <2>9
    <1> HIDE DEF item, hit
    <1>3. \/ \E k \in Keys : Parses(d, k) /\ c = KeyShown(d, k)
          \/ \E i \in BareOnes(d, F) : c = BareShown(d, F[i])
        BY ShownOnes
    <1>4. item \in Sidecars /\ item.key = c.sort /\ c.meta.key = c.sort
          /\ (hit \notin {None, Error} => hit.size = item.size /\ hit.type = item.type)
        BY <1>1, <1>2, <1>3
    <1> QED BY <1>4 DEF item, hit

-------------------------------------------------------------------------------
(* Pages: what is cut out of a listing, and where the next page begins *)

LEMMA LesserOne ==
    ASSUME NEW a \in Nat, NEW b \in Nat
    PROVE  Min({a, b}) = IF a <= b THEN a ELSE b
    BY DEF Min

LEMMA FirstOnes ==
    ASSUME NEW S, NEW s \in Seq(S), NEW limit \in Nat
    PROVE  /\ UpTo(s, limit) \in Seq(S)
           /\ Len(UpTo(s, limit)) = IF limit <= Len(s) THEN limit ELSE Len(s)
           /\ \A j \in 1 .. Len(UpTo(s, limit)) : j \in 1 .. Len(s) /\ UpTo(s, limit)[j] = s[j]
    <1> DEFINE q == Min({limit, Len(s)})
    <1>1. Len(s) \in Nat /\ \A j \in 1 .. Len(s) : s[j] \in S
        BY LenProperties, ElementOfSeq
    <1>2. q \in Nat /\ q <= Len(s) /\ q = IF limit <= Len(s) THEN limit ELSE Len(s)
        BY <1>1, LesserOne
    <1> HIDE DEF q
    <1>3. /\ SubSeq(s, 1, q) \in Seq(S)
          /\ Len(SubSeq(s, 1, q)) = IF 1 <= q THEN q - 1 + 1 ELSE 0
          /\ \A j \in 1 .. q - 1 + 1 : SubSeq(s, 1, q)[j] = s[1 + j - 1]
        <2>1. \A j \in 1 .. q : s[j] \in S
            BY <1>1, <1>2
        <2>2. 1 \in Int /\ q \in Int
            BY <1>2
        <2> QED BY <2>1, <2>2, SubSeqProperties
    <1>4. /\ SubSeq(s, 1, q) \in Seq(S) /\ Len(SubSeq(s, 1, q)) = q
          /\ \A j \in 1 .. q : SubSeq(s, 1, q)[j] = s[j]
        <2>1. q - 1 + 1 = q /\ \A j \in 1 .. q : 1 + j - 1 = j
            BY <1>2
        <2> QED BY <1>2, <1>3, <2>1
    <1>5. UpTo(s, limit) = SubSeq(s, 1, q)
        BY DEF UpTo, q
    <1> QED BY <1>1, <1>2, <1>4, <1>5

\* The listing that is to come out.
LEMMA SortedSeq ==
    ASSUME NEW K \in SUBSET Names, IsFiniteSet(K)
    PROVE  /\ Cardinality(K) \in Nat
           /\ Sorted(K) \in Seq(K) /\ Len(Sorted(K)) = Cardinality(K)
           /\ Range(Sorted(K)) = K
    <1> DEFINE L == Sorted(K)
    <1>1. Cardinality(K) \in Nat
        BY FS_CardinalityType
    <1>2. \A j \in 1 .. Cardinality(K) : L[j] \in K
        BY SortedNames
    <1>3. \A k \in K : \E j \in 1 .. Cardinality(K) : L[j] = k
        BY SortedNames
    <1>4. L = [j \in 1 .. Cardinality(K) |-> L[j]]
        <2>1. L = [j \in 1 .. Cardinality(K) |-> CHOOSE n \in K : Cardinality(Earlier(K, n)) = j - 1]
            BY DEF Sorted, Earlier
        <2> HIDE DEF L
        <2> QED BY <2>1
    <1> HIDE DEF L
    <1>5. L \in [1 .. Cardinality(K) -> K]
        BY <1>2, <1>4
    <1>6. L \in Seq(K) /\ Len(L) = Cardinality(K)
        BY <1>1, <1>5
    <1>7. Range(L) = K
        BY <1>2, <1>3, <1>5 DEF Range
    <1> QED BY <1>1, <1>6, <1>7 DEF L

\* The cursor after the first i keys, and results that go on with at most "limit" others,
\* and say of them what a read says.
Cursor(K, i) == IF i = 0 THEN None ELSE Sorted(K)[i]

CutBehind(d, K, i, limit, results) ==
    /\ results \in Seq(Sidecars)
    /\ Len(results) = IF limit <= Cardinality(K) - i THEN limit ELSE Cardinality(K) - i
    /\ \A j \in 1 .. Len(results) :
          /\ results[j].key = Sorted(K)[i + j]
          /\ GetValue(d, results[j].key, TRUE) \notin {None, Error} =>
                 /\ GetValue(d, results[j].key, TRUE).size = results[j].size
                 /\ GetValue(d, results[j].key, TRUE).type = results[j].type

\* What the listing finds behind a cursor.
LEMMA ListedBehind ==
    ASSUME NEW n, NEW d \in Directories(n), Belongs(d), NEW F, FallbackList(F), NEW prefix,
           NEW limit \in Nat, NEW i \in 0 .. Cardinality(Listed(d, prefix, F))
    PROVE  CutBehind(d, Listed(d, prefix, F), i, limit,
                     ListKeysRaw(d, Cursor(Listed(d, prefix, F), i), limit, prefix, F))
    <1> DEFINE K == Listed(d, prefix, F)
               cursor == Cursor(K, i)
               results == ListKeysRaw(d, cursor, limit, prefix, F)
               S == Shown(d, prefix, F)
               C == {c \in S : IF cursor = None THEN TRUE ELSE Before(cursor, c.meta.key)}
               B == IF i = 0 THEN K ELSE {k \in K : Before(Sorted(K)[i], k)}
               m == Cardinality(K) - i
               o == InOrder(C)
               page == UpTo(o, limit)
    <1>0. cursor = IF i = 0 THEN None ELSE Sorted(K)[i]
        BY DEF Cursor
    <1>1. /\ IsFiniteSet(S) /\ \A a, b \in S : a.sort = b.sort => a = b
          /\ {c.sort : c \in S} = K
          /\ K \in SUBSET Seq(DOMAIN Escape)
        BY ShownNames
    <1>2. \A c \in S : c.meta.key = c.sort
        BY ShownSaid
    <1>3. K \in SUBSET Names /\ IsFiniteSet(K) /\ Cardinality(K) \in Nat
        BY <1>1, KeysAreNames, ByName, FS_CardinalityType
    <1>4. i # 0 => cursor \in K /\ cursor # None
        <2> SUFFICES ASSUME i # 0 PROVE Sorted(K)[i] \in K /\ Sorted(K)[i] # None
            BY <1>0
        <2>1. i \in 1 .. Cardinality(K)
            BY <1>3
        <2>2. Sorted(K)[i] \in K
            BY <1>3, <2>1, SortedNames
        <2> QED BY <1>3, <2>2, NothingAssumption DEF NothingAssumption, Names
    <1>5. cursor = None <=> i = 0
        BY <1>0, <1>4
    <1> HIDE DEF cursor
    <1>6. C \in SUBSET S /\ {c.sort : c \in C} = B
        BY <1>0, <1>1, <1>2, <1>5
    <1>7. IsFiniteSet(C) /\ \A a, b \in C : a.sort = b.sort => a = b
        BY <1>1, <1>6, FS_Subset
    <1>8. B \in SUBSET Names /\ Cardinality(B) = m /\ \A j \in 1 .. m : Sorted(B)[j] = Sorted(K)[i + j]
        <2>1. CASE i = 0
            BY <1>3, <2>1
        <2>2. CASE i # 0
            <3>1. i \in 1 .. Cardinality(K) /\ B = {k \in K : Before(Sorted(K)[i], k)}
                BY <1>3, <2>2
            <3> HIDE DEF B
            <3> QED BY <1>3, <3>1, NamesBehind
        <2> QED BY <2>1, <2>2
    <1>9. m \in Nat
        BY <1>3
    <1>10. cursor # None => \E c \in S : c.meta.key = cursor
        BY <1>1, <1>2, <1>4, <1>5
    <1>11. results = [j \in DOMAIN page |-> Described(d, page[j].meta)]
        BY <1>10 DEF ListKeysRaw, Shown
    <1> HIDE DEF K, results, S, C, B, m
    <1>12. /\ o = [j \in 1 .. m |-> o[j]]
           /\ \A j \in 1 .. m : o[j] \in S /\ o[j].sort = Sorted(K)[i + j]
        <2>1. /\ InOrder(C) = [j \in 1 .. Cardinality(B) |-> InOrder(C)[j]]
              /\ \A j \in 1 .. Cardinality(B) : InOrder(C)[j] \in C /\ InOrder(C)[j].sort = Sorted(B)[j]
            BY <1>6, <1>7, <1>8, InOrderOfNames
        <2> QED BY <1>6, <1>8, <2>1
    <1> HIDE DEF o
    <1>13. o \in Seq(S) /\ Len(o) = m
        <2>1. o \in [1 .. m -> S]
            BY <1>12
        <2> QED BY <1>9, <2>1
    <1>14. /\ page \in Seq(S) /\ Len(page) = IF limit <= m THEN limit ELSE m
           /\ \A j \in 1 .. Len(page) : j \in 1 .. m /\ page[j] = o[j]
        BY <1>13, FirstOnes
    <1> HIDE DEF page
    <1>15. DOMAIN page = 1 .. Len(page) /\ Len(page) \in Nat
        BY <1>14, LenProperties
    <1>16. ASSUME NEW j \in 1 .. Len(page)
           PROVE  /\ results[j] \in Sidecars /\ results[j].key = Sorted(K)[i + j]
                  /\ GetValue(d, results[j].key, TRUE) \notin {None, Error} =>
                         /\ GetValue(d, results[j].key, TRUE).size = results[j].size
                         /\ GetValue(d, results[j].key, TRUE).type = results[j].type
        <2> DEFINE c == page[j]
        <2>1. c \in S /\ c.sort = Sorted(K)[i + j]
            BY <1>12, <1>14
        <2>2. results[j] = Described(d, c.meta)
            BY <1>11, <1>15
        <2> HIDE DEF c
        <2>3. /\ Described(d, c.meta) \in Sidecars /\ Described(d, c.meta).key = c.sort
              /\ GetValue(d, Described(d, c.meta).key, TRUE) \notin {None, Error} =>
                     /\ GetValue(d, Described(d, c.meta).key, TRUE).size = Described(d, c.meta).size
                     /\ GetValue(d, Described(d, c.meta).key, TRUE).type = Described(d, c.meta).type
            BY <2>1, ShownSaid DEF S
        <2> QED BY <2>1, <2>2, <2>3
    <1>17. results \in Seq(Sidecars) /\ Len(results) = Len(page)
        <2>1. results \in [1 .. Len(page) -> Sidecars]
            BY <1>11, <1>15, <1>16
        <2> QED BY <1>15, <2>1
    <1>18. CutBehind(d, K, i, limit, results)
        BY <1>3, <1>14, <1>16, <1>17 DEF m, CutBehind
    <1> QED BY <1>18 DEF K, cursor, results

\* A page of a listing goes on where the cursor is, and says where the next one begins.
LEMMA PageAfter ==
    ASSUME NEW n, dir \in Directories(n), Belongs(dir),
           NEW F, FallbackList(F), NEW prefix,
           NEW limit \in Nat \ {0}, NEW i \in 0 .. Cardinality(Listed(dir, prefix, F))
    PROVE  GoesOn(ListKeys(dir, Cursor(Listed(dir, prefix, F), i), limit, prefix, F),
                  Sorted(Listed(dir, prefix, F)), i, limit)
    <1> DEFINE K == Listed(dir, prefix, F)
               cursor == Cursor(K, i)
               L == Sorted(K)
               M == Cardinality(K)
               results == ListKeysRaw(dir, cursor, limit + 1, prefix, F)
               items == UpTo(results, limit)
               more == Len(results) > limit
               page == ListKeys(dir, cursor, limit, prefix, F)
    <1>1. /\ results \in Seq(Sidecars)
          /\ Len(results) = IF limit + 1 <= M - i THEN limit + 1 ELSE M - i
          /\ \A j \in 1 .. Len(results) :
                /\ results[j].key = L[i + j]
                /\ GetValue(dir, results[j].key, TRUE) \notin {None, Error} =>
                       /\ GetValue(dir, results[j].key, TRUE).size = results[j].size
                       /\ GetValue(dir, results[j].key, TRUE).type = results[j].type
        <2> DEFINE fetch == limit + 1
        <2>1. fetch \in Nat
            OBVIOUS
        <2> HIDE DEF fetch
        <2>2. CutBehind(dir, K, i, fetch, ListKeysRaw(dir, cursor, fetch, prefix, F))
            BY <2>1, ListedBehind
        <2> QED BY <2>2 DEF CutBehind, fetch
    <1>2. K \in SUBSET Seq(DOMAIN Escape) /\ K \in SUBSET Names /\ IsFiniteSet(K)
        <2>1. /\ IsFiniteSet(Shown(dir, prefix, F))
              /\ \A a, b \in Shown(dir, prefix, F) : a.sort = b.sort => a = b
              /\ {c.sort : c \in Shown(dir, prefix, F)} = K
              /\ K \in SUBSET Seq(DOMAIN Escape)
            BY ShownNames
        <2> QED BY <2>1, ByName, KeysAreNames
    <1> HIDE DEF K, cursor
    <1>3. L \in Seq(K) /\ Len(L) = M /\ M \in Nat /\ i \in Nat /\ i <= M
        <2>1. L \in Seq(K) /\ Len(L) = M /\ M \in Nat
            BY <1>2, SortedSeq
        <2>2. i \in 0 .. M
            BY DEF K
        <2> HIDE DEF M
        <2> QED BY <2>1, <2>2
    <1> HIDE DEF L, M, results
    <1>4. results # Error
        BY <1>1, RecordsAssumption DEF RecordsAssumption
    <1>5. IterateKeysPage(dir, cursor, None, limit, prefix, F) = [items |-> items, hasMore |-> more]
        <2>1. IterateKeysPage(dir, cursor, None, limit, prefix, F) = Page(results, limit, None)
            BY DEF IterateKeysPage, results
        <2> QED BY <1>4, <2>1 DEF Page
    <1>6. /\ items \in Seq(Sidecars) /\ Len(items) = IF limit <= M - i THEN limit ELSE M - i
          /\ \A j \in 1 .. Len(items) : j \in 1 .. Len(results) /\ items[j] = results[j]
        <2>1. limit \in Nat
            OBVIOUS
        <2>2. /\ items \in Seq(Sidecars) /\ Len(items) = IF limit <= Len(results) THEN limit ELSE Len(results)
              /\ \A j \in 1 .. Len(items) : j \in 1 .. Len(results) /\ items[j] = results[j]
            BY <1>1, <2>1, FirstOnes
        <2>3. (IF limit <= Len(results) THEN limit ELSE Len(results)) = IF limit <= M - i THEN limit ELSE M - i
            BY <1>1, <1>3
        <2> QED BY <2>2, <2>3
    <1>7. more <=> i + limit < M
        BY <1>1, <1>3
    <1>8. [items |-> items, hasMore |-> more] # Error
        <2>1. more \in BOOLEAN
            OBVIOUS
        <2> HIDE DEF items, more
        <2>2. [items |-> items, hasMore |-> more] \in [items : Seq(Sidecars), hasMore : BOOLEAN]
            BY <1>6, <2>1
        <2> QED BY <2>2, RecordsAssumption DEF RecordsAssumption
    <1> DEFINE next == IF more /\ items # << >> THEN Last(items).key ELSE None
    <1>9. page = [items |-> items, next |-> next]
        <2>1. page = WithNextCursor([items |-> items, hasMore |-> more])
            BY <1>5 DEF ListKeys
        <2> HIDE DEF items, more
        <2> QED BY <1>8, <2>1 DEF WithNextCursor
    <1> HIDE DEF items
    <1>10. Len(items) \in Nat /\ DOMAIN items = 1 .. Len(items)
        BY <1>6, LenProperties
    <1>11. \A j \in 1 .. Len(items) :
              /\ items[j] \in Sidecars /\ items[j].key = L[i + j]
              /\ GetValue(dir, items[j].key, TRUE) \notin {None, Error} =>
                     /\ GetValue(dir, items[j].key, TRUE).size = items[j].size
                     /\ GetValue(dir, items[j].key, TRUE).type = items[j].type
        <2> SUFFICES ASSUME NEW j \in 1 .. Len(items)
                     PROVE  /\ items[j] \in Sidecars /\ items[j].key = L[i + j]
                            /\ GetValue(dir, items[j].key, TRUE) \notin {None, Error} =>
                                   /\ GetValue(dir, items[j].key, TRUE).size = items[j].size
                                   /\ GetValue(dir, items[j].key, TRUE).type = items[j].type
            OBVIOUS
        <2>1. items[j] \in Sidecars
            BY <1>6, ElementOfSeq
        <2>2. j \in 1 .. Len(results) /\ items[j] = results[j]
            BY <1>6
        <2> QED BY <1>1, <2>1, <2>2
    <1>12. next = IF i + limit < M THEN L[i + limit] ELSE None
        <2>1. CASE ~(i + limit < M)
            BY <1>7, <2>1
        <2>2. CASE i + limit < M
            <3>1. Len(items) = limit /\ limit \in 1 .. Len(items)
                BY <1>3, <1>6, <2>2
            <3>2. items # << >>
                BY <3>1
            <3>3. Last(items).key = L[i + limit]
                BY <1>11, <3>1 DEF Last
            <3> QED BY <1>7, <2>2, <3>2, <3>3
        <2> QED BY <2>1, <2>2
    <1>13. next \in {None} \cup Seq(DOMAIN Escape)
        <2>1. CASE ~(i + limit < M)
            BY <1>12, <2>1
        <2>2. CASE i + limit < M
            <3>1. i + limit \in 1 .. M
                BY <1>3, <2>2
            <3>2. L[i + limit] \in K
                BY <1>3, <3>1, ElementOfSeq
            <3> QED BY <1>2, <1>12, <2>2, <3>2
        <2> QED BY <2>1, <2>2
    <1> HIDE DEF next, page
    <1>14. page # Error
        <2>1. page \in [items : Seq(Sidecars), next : {None} \cup Seq(DOMAIN Escape)]
            BY <1>6, <1>9, <1>13
        <2> QED BY <2>1, RecordsAssumption DEF RecordsAssumption
    <1>15. [j \in DOMAIN items |-> items[j].key] = SubSeq(L, i + 1, Min({i + limit, M}))
        <2> DEFINE q == Min({i + limit, M})
                   s == SubSeq(L, i + 1, q)
                   t == [j \in DOMAIN items |-> items[j].key]
        <2>1. i + limit \in Nat /\ i \in Nat /\ i <= M
            BY <1>3
        <2>2. q = IF i + limit <= M THEN i + limit ELSE M
            BY <1>3, <2>1, LesserOne
        <2> HIDE DEF q
        <2>3. q \in Nat /\ q <= M /\ q - i = Len(items) /\ i + 1 \in Int
            BY <1>3, <1>6, <2>1, <2>2
        <2>4. \A j \in i + 1 .. q : L[j] \in K
            <3> SUFFICES ASSUME NEW j \in i + 1 .. q PROVE L[j] \in K
                OBVIOUS
            <3>1. j \in 1 .. Len(L)
                BY <1>3, <2>1, <2>3
            <3> QED BY <1>3, <3>1, ElementOfSeq
        <2>5. /\ s \in Seq(K)
              /\ Len(s) = IF i + 1 <= q THEN q - (i + 1) + 1 ELSE 0
              /\ \A j \in 1 .. q - (i + 1) + 1 : s[j] = L[i + 1 + j - 1]
            BY <2>3, <2>4, SubSeqProperties
        <2> HIDE DEF s
        <2>6. Len(s) = Len(items) /\ \A j \in 1 .. Len(items) : s[j] = L[i + j]
            <3>1. (IF i + 1 <= q THEN q - (i + 1) + 1 ELSE 0) = Len(items)
                BY <1>10, <2>1, <2>3
            <3>2. q - (i + 1) + 1 = Len(items)
                BY <1>10, <2>1, <2>3
            <3>3. \A j \in 1 .. Len(items) : i + 1 + j - 1 = i + j
                BY <1>10, <2>1
            <3> QED BY <2>5, <3>1, <3>2, <3>3
        <2>7. s = [j \in 1 .. Len(items) |-> s[j]]
            BY <2>5, <2>6, LenProperties
        <2>8. t = [j \in 1 .. Len(items) |-> s[j]]
            BY <1>10, <1>11, <2>6
        <2> QED BY <2>7, <2>8 DEF s, q
    <1>16. \A item \in Range(items) :
              GetValue(dir, item.key, TRUE) \notin {None, Error} =>
                  /\ GetValue(dir, item.key, TRUE).size = item.size
                  /\ GetValue(dir, item.key, TRUE).type = item.type
        BY <1>10, <1>11 DEF Range
    <1>17. page.items = items /\ page.next = next
        BY <1>9
    <1>18. GoesOn(page, L, i, limit)
        BY <1>3, <1>12, <1>14, <1>15, <1>16, <1>17 DEF GoesOn
    <1> QED BY <1>18 DEF page, L, cursor, K

\* A key that is not listed is no cursor.
LEMMA NoCursor ==
    ASSUME NEW n, NEW d \in Directories(n), Belongs(d),
           NEW F, FallbackList(F), NEW prefix,
           NEW k \in Keys, k \notin Listed(d, prefix, F), NEW limit
    PROVE  ListKeys(d, k, limit, prefix, F) = Error
    <1>1. \A c \in Shown(d, prefix, F) : c.meta.key # k
        <2>1. {c.sort : c \in Shown(d, prefix, F)} = Listed(d, prefix, F)
            BY ShownNames
        <2>2. \A c \in Shown(d, prefix, F) : c.meta.key = c.sort
            BY ShownSaid
        <2> QED BY <2>1, <2>2
    <1>2. k # None
        BY KeyFacts, KeysAreNames, NothingAssumption DEF Names, NothingAssumption
    <1>3. \A fetch : ListKeysRaw(d, k, fetch, prefix, F) = Error
        BY <1>1, <1>2 DEF ListKeysRaw, Shown
    <1> QED BY <1>3 DEF ListKeys, IterateKeysPage, Page, WithNextCursor

\* The listing of the property is that of these keys.
LEMMA ListingOfKeys ==
    ASSUME NEW n, dir \in Directories(n), Belongs(dir),
           NEW F, FallbackList(F), NEW prefix
    PROVE  KeysToList(prefix, F) = Sorted(Listed(dir, prefix, F))
    <1> DEFINE stated == {dir[m].key : m \in {e \in DOMAIN dir : dir[e].kind = "sidecar"}}
               names == {F[i].name : i \in DOMAIN F}
               bare == {f \in names : There(dir, EncodeKey(f)) /\ ReadSidecar(dir, f) = Missing}
    <1>1. stated = {k \in Keys : Parses(dir, k)}
        <2>1. ASSUME NEW m \in DOMAIN dir, dir[m].kind = "sidecar"
              PROVE  dir[m].key \in Keys /\ Parses(dir, dir[m].key)
            <3>1. PICK k \in Keys : Parses(dir, k) /\ ReadSidecar(dir, k) = dir[m]
                BY <2>1, SidecarOfKey
            <3>2. k = dir[m].key
                BY <3>1, KeyFacts, SidecarFacts
            <3> QED BY <3>1, <3>2
        <2>2. ASSUME NEW k \in Keys, Parses(dir, k)
              PROVE  \E m \in DOMAIN dir : dir[m].kind = "sidecar" /\ dir[m].key = k
            BY <2>2, KeyFacts, SidecarFacts DEF Parses
        <2> QED BY <2>1, <2>2
    <1>2. bare = {F[i].name : i \in BareOnes(dir, F)}
        <2>0. PICK N \in Nat : DOMAIN F = 1 .. N
            BY DEF FallbackList
        <2>1. ASSUME NEW f \in bare PROVE \E i \in BareOnes(dir, F) : F[i].name = f
            <3> DEFINE T == {i \in 1 .. N : F[i].name = f}
            <3>1. T \in SUBSET (0 .. N) /\ T # {}
                BY <2>0
            <3> HIDE DEF T
            <3>2. PICK i \in T : \A j \in T : i <= j
                BY <3>1, LeastNumber
            <3>3. i \in 1 .. N /\ F[i].name = f
                BY <3>2 DEF T
            <3>4. ~\E j \in 1 .. i - 1 : F[j].name = F[i].name
                <4> SUFFICES ASSUME NEW j \in 1 .. i - 1, F[j].name = f PROVE FALSE
                    BY <3>3
                <4>1. j \in 1 .. N /\ ~(i <= j)
                    BY <3>3
                <4>2. j \in T
                    BY <4>1 DEF T
                <4> QED BY <3>2, <4>1, <4>2
            <3>5. There(dir, EncodeKey(f)) /\ ReadSidecar(dir, f) = Missing
                OBVIOUS
            <3>6. i \in BareOnes(dir, F)
                BY <2>0, <3>3, <3>4, <3>5 DEF BareOnes
            <3> QED BY <3>3, <3>6
        <2>2. ASSUME NEW i \in BareOnes(dir, F) PROVE F[i].name \in bare
            BY DEF BareOnes
        <2> HIDE DEF bare
        <2> QED BY <2>1, <2>2
    <1>3. KeysToList(prefix, F) = Sorted({k \in stated \cup bare : IsPrefix(prefix, k)})
        BY DEF KeysToList
    <1> HIDE DEF stated, bare
    <1>4. {k \in stated \cup bare : IsPrefix(prefix, k)} = Listed(dir, prefix, F)
        BY <1>1, <1>2 DEF Listed
    <1> QED BY <1>3, <1>4

LEMMA BareFilesAreFallbacks == FallbackList(BareFiles)
    <1>1. DOMAIN BareFiles = 1 .. 2
        BY DEF BareFiles
    <1>2. ASSUME NEW i \in DOMAIN BareFiles PROVE Fallback(BareFiles[i])
        <2> DEFINE f == BareFiles[i]
                   k == f.name
                   e == EncodeKey(k)
        <2>0. /\ k = <<"a", ".j">> \/ k = <<"b", ".j">>
              /\ f.type = "application/json" \/ f.type = ""
            <3>1. BareFiles[1] = [name |-> <<"a", ".j">>, type |-> "application/json"]
                BY DEF BareFiles
            <3>2. BareFiles[2] = [name |-> <<"b", ".j">>, type |-> ""]
                BY DEF BareFiles
            <3>3. i = 1 \/ i = 2
                BY <1>1
            <3>4. CASE i = 1
                <4>1. f = [name |-> <<"a", ".j">>, type |-> "application/json"]
                    BY <3>1, <3>4
                <4> HIDE DEF f
                <4> QED BY <4>1
            <3>5. CASE i = 2
                <4>1. f = [name |-> <<"b", ".j">>, type |-> ""]
                    BY <3>2, <3>5
                <4> HIDE DEF f
                <4> QED BY <4>1
            <3> QED BY <3>3, <3>4, <3>5
        <2>1. k \in Seq(DOMAIN Escape)
            BY KeysAssumption DEF KeysAssumption
        <2> HIDE DEF f
        <2>2. Len(k) = 2 /\ k[2] = ".j" /\ k # << >>
            <3> HIDE DEF k
            <3>1. CASE k = <<"a", ".j">>
                BY <3>1
            <3>2. CASE k = <<"b", ".j">>
                BY <3>2
            <3> QED BY <2>0, <3>1, <3>2
        <2>3. f.type = "" \/ f.type \in Types
            <3>1. f.type \in {"", "application/json"}
                BY <2>0
            <3>2. "application/json" \in Types
                BY DEF Types, Extensions
            <3> QED BY <3>1, <3>2
        <2>4. e \in Names /\ Len(e) = 2 /\ e[2] = Escape[k[2]]
            <3>1. 2 \in 1 .. Len(k)
                BY <2>2
            <3> HIDE DEF k
            <3> QED BY <2>1, <2>2, <3>1, EncodedKey
        <2>5. e[2] = ".j"
            BY <2>2, <2>4, KeysAssumption DEF KeysAssumption
        <2> HIDE DEF e
        <2>6. e # StoreFile
            <3>1. Len(StoreFile) = 1
                BY DEF StoreFile
            <3> QED BY <2>4, <3>1
        <2>7. ~IsMetadataFilename(e)
            BY <2>4, <2>5, <2>6 DEF IsMetadataFilename, Last, Suffix
        <2> QED BY <2>1, <2>2, <2>3, <2>7 DEF Fallback, f, e
    <1>3. 2 \in Nat
        OBVIOUS
    <1> QED BY <1>1, <1>2, <1>3 DEF FallbackList

LEMMA PagesOfListing ==
    ASSUME NEW n, dir \in Directories(n), Belongs(dir), NEW prefix
    PROVE  PagesOf(KeysToList(prefix, BareFiles), prefix, BareFiles)
    <1> DEFINE F == BareFiles
               K == Listed(dir, prefix, F)
               L == Sorted(K)
    <1>1. FallbackList(F)
        BY BareFilesAreFallbacks
    <1> HIDE DEF F
    <1>2. KeysToList(prefix, F) = L
        BY <1>1, ListingOfKeys
    <1>3. K \in SUBSET Names /\ IsFiniteSet(K)
        <2>1. /\ IsFiniteSet(Shown(dir, prefix, F))
              /\ \A a, b \in Shown(dir, prefix, F) : a.sort = b.sort => a = b
              /\ {c.sort : c \in Shown(dir, prefix, F)} = K
              /\ K \in SUBSET Seq(DOMAIN Escape)
            BY <1>1, ShownNames
        <2> HIDE DEF K
        <2> QED BY <2>1, ByName, KeysAreNames
    <1>4. Len(L) = Cardinality(K) /\ Range(L) = K
        <2> HIDE DEF K
        <2> QED BY <1>3, SortedSeq
    <1>5. ASSUME NEW limit \in {1, 2}, NEW i \in 0 .. Len(L)
          PROVE  GoesOn(ListKeys(dir, IF i = 0 THEN None ELSE L[i], limit, prefix, F), L, i, limit)
        <2>1. limit \in Nat \ {0} /\ i \in 0 .. Cardinality(Listed(dir, prefix, F))
            BY <1>4
        <2>2. GoesOn(ListKeys(dir, Cursor(K, i), limit, prefix, F), L, i, limit)
            BY <1>1, <2>1, PageAfter
        <2>3. Cursor(K, i) = IF i = 0 THEN None ELSE L[i]
            BY DEF Cursor
        <2> HIDE DEF L, K
        <2> QED BY <2>2, <2>3
    <1>6. ASSUME NEW k \in Keys \ Range(L) PROVE ListKeys(dir, k, 1, prefix, F) = Error
        <2>1. k \notin Listed(dir, prefix, F)
            BY <1>4
        <2> QED BY <1>1, <2>1, NoCursor
    <1> HIDE DEF L
    <1>7. PagesOf(L, prefix, F)
        BY <1>5, <1>6 DEF PagesOf
    <1> QED BY <1>2, <1>7 DEF F

\* list_keys with a limit goes on from any key of the listing with exactly the keys that
\* come next, in their order although their files sort differently, and returns as the
\* cursor the one to go on with; it says of a record what a read says.  So a caller that
\* feeds the cursor back gets every key with the prefix once.
THEOREM PagesAreComplete == Spec => []PagesComplete
    <1>1. TypeInv /\ Belongs(dir) => PagesComplete
        <2> SUFFICES ASSUME TypeInv, Belongs(dir), NEW prefix \in {<< >>, <<"b">>}
                     PROVE  PagesOf(KeysToList(prefix, BareFiles), prefix, BareFiles)
            BY DEF PagesComplete
        <2>1. dir \in Directories(Len(lengths))
            BY DEF TypeInv
        <2> QED BY <2>1, PagesOfListing
    <1> QED BY <1>1, TypeInduction, BelongingInduction, PTL

=============================================================================
