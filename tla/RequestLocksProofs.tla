-------------------------- MODULE RequestLocksProofs --------------------------
(***************************************************************************)
(* What holds of RequestLocks for every number of clients, every skew of   *)
(* their clocks, every window and every extension: two of them hold the    *)
(* request for no longer than the clock of the later one was ahead, a free *)
(* request is kept from nobody for longer than that, and no client         *)
(* prolongs a lock that another has taken over.                            *)
(***************************************************************************)
EXTENDS RequestLocks, TLAPS

-------------------------------------------------------------------------------
(* Orders *)

\* What the operators of OrderNo make of a time after 1970.
LEMMA OrderOfTime ==
    ASSUME NEW t \in Nat \ {0}, NEW n, NEW forefront \in BOOLEAN
    PROVE  /\ WithSignOf(n, t) \in Int \ {0}
           /\ Magnitude(WithSignOf(n, t)) = t
           /\ CalculateOrderNo(forefront, t) \in Int \ {0}
           /\ Magnitude(CalculateOrderNo(forefront, t)) = t
    BY DEF WithSignOf, CalculateOrderNo, Magnitude

LEMMA OrderOfLock ==
    ASSUME NEW t \in Nat \ {0}, NEW n, NEW window \in Nat
    PROVE  /\ LockOrder(n, t, window) \in Int \ {0}
           /\ Magnitude(LockOrder(n, t, window)) = t + window
    BY DEF LockOrder, WithSignOf, Magnitude

\* A prolonged lock ends later, and on its own side of 0.
LEMMA OrderExtended ==
    ASSUME NEW n \in Int \ {0}, NEW extension \in Int, extension > 0
    PROVE  /\ ExtendedOrder(n, extension) \in Int \ {0}
           /\ Magnitude(ExtendedOrder(n, extension)) = Magnitude(n) + extension
    BY DEF ExtendedOrder, WithSignOf, Magnitude

\* A lock is an orderNo whose magnitude lies ahead.
LEMMA LockedIsAhead ==
    ASSUME NEW n \in Int, NEW t \in Int
    PROVE  /\ t >= 0 => (IsLockedOrder(n, t) <=> Magnitude(n) > t)
           /\ Magnitude(n) > t => IsLockedOrder(n, t)
    BY DEF IsLockedOrder, Magnitude

-------------------------------------------------------------------------------
(* Type correctness *)

LEMMA StateType ==
    ASSUME TypeOK, NEW c \in Open
    PROVE  /\ c \in Clients
           /\ client[c] \in States
           /\ client[c].window >= LockMillis
           /\ client[c].held # None => client[c].working
           /\ time \in Nat
           /\ Now(c) \in Nat \ {0}
    <1>1. c \in Clients /\ client[c] \in States
        BY DEF Open, TypeOK
    <1>2. client[c].offset \in -MaxOffset .. MaxOffset /\ MaxOffset \in Nat /\ MaxOffset < StartTime
        BY <1>1, ClockAssumption DEF States
    <1>3. time \in Nat /\ time >= StartTime
        BY ClockAssumption DEF TypeOK
    <1>4. Now(c) \in Nat \ {0}
        BY <1>2, <1>3, ClockAssumption DEF Now
    <1> QED BY <1>1, <1>3, <1>4 DEF TypeOK

\* A step of one client that leaves the file as it was.
LEMMA TypeQuiet ==
    ASSUME TypeOK, NEW c \in Clients, NEW state \in States \cup {Closed}, Become(c, state), Leave,
           state # Closed => state.window >= LockMillis /\ (state.held # None => state.working),
           UNCHANGED time
    PROVE  TypeOK'
    BY DEF TypeOK, Become, Leave, Open, Holders

\* A step of one client that frees the request.
LEMMA TypeFree ==
    ASSUME TypeOK, NEW c \in Clients, NEW state \in States, Become(c, state),
           NEW n \in Int \ {0}, NEW offset \in -MaxOffset .. MaxOffset, Free(n, offset),
           state.window >= LockMillis, state.held # None => state.working, UNCHANGED time
    PROVE  TypeOK'
    <1>1. order' \in (Orders \cup {Absent}) \ {0}
        BY DEF Free, Orders
    <1>2. last' \in [kind : {"none", "lock", "free", "handled"},
                     client : Clients \cup {None}, offset : -MaxOffset .. MaxOffset]
        BY DEF Free
    <1>3. client' \in [Clients -> States \cup {Closed}]
        BY DEF TypeOK, Become
    <1>4. \A d \in Open' : /\ client'[d].window >= LockMillis
                           /\ client'[d].held # None => client'[d].working
        BY DEF TypeOK, Become, Open
    <1>5. overridden' \subseteq Holders'
        BY DEF Free
    <1> QED BY <1>1, <1>2, <1>3, <1>4, <1>5 DEF TypeOK

LEMMA TypeOpen ==
    ASSUME TypeOK, NEW c \in Clients, OpenQueue(c)
    PROVE  TypeOK'
    <1>1. PICK access \in AccessModes, skew \in Skews :
              IF MustReclaim(SoleOwner(access), time + skew)
              THEN /\ Become(c, Opened(skew, WithSignOf(order, time + skew)))
                   /\ Free(WithSignOf(order, time + skew), skew)
              ELSE Become(c, Opened(skew, order)) /\ Leave
        BY DEF OpenQueue
    <1>2. skew \in -MaxOffset .. MaxOffset /\ skew \in Int /\ LockMillis \in Nat
        BY ClockAssumption
    <1>3. time + skew \in Nat \ {0}
        BY <1>2, ClockAssumption DEF TypeOK
    <1>4. WithSignOf(order, time + skew) \in Int \ {0}
        BY <1>3, OrderOfTime
    <1>5. \A n \in Orders \cup {Absent} : /\ Opened(skew, n) \in States
                                          /\ Opened(skew, n).window >= LockMillis
                                          /\ Opened(skew, n).held = None
        BY <1>2 DEF Opened, States, Orders
    <1>6. order \in Orders \cup {Absent} /\ WithSignOf(order, time + skew) \in Orders
        BY <1>4 DEF TypeOK, Orders
    <1>7. CASE MustReclaim(SoleOwner(access), time + skew)
        BY <1>1, <1>2, <1>4, <1>5, <1>6, <1>7, TypeFree DEF OpenQueue
    <1>8. CASE ~MustReclaim(SoleOwner(access), time + skew)
        BY <1>1, <1>5, <1>6, <1>8, TypeQuiet DEF OpenQueue
    <1> QED BY <1>7, <1>8

LEMMA TypeCall ==
    ASSUME TypeOK, NEW c \in Clients,
           Close(c) \/ AdvanceClock(c) \/ SetExpected(c) \/ FetchSkips(c) \/ GiveUp(c) \/ ProlongRefused(c)
    PROVE  TypeOK'
    <1> USE ClockAssumption
    <1>1. CASE Close(c)
        BY <1>1, TypeQuiet DEF Close
    <1>2. CASE AdvanceClock(c)
        <2>1. PICK delta \in Advances :
                  /\ client[c].offset + delta \in -MaxOffset .. MaxOffset
                  /\ Become(c, [client[c] EXCEPT !.offset = @ + delta])
            BY <1>2 DEF AdvanceClock
        <2>2. [client[c] EXCEPT !.offset = @ + delta] \in States
            BY <1>2, <2>1, StateType DEF AdvanceClock, States
        <2> QED BY <1>2, <2>1, <2>2, StateType, TypeQuiet DEF AdvanceClock, States
    <1>3. CASE SetExpected(c)
        <2>1. PICK window \in Windows : /\ Raises(c, window)
                                        /\ Become(c, [client[c] EXCEPT !.window = window])
            BY <1>3 DEF SetExpected
        <2>2. window \in Nat /\ window >= LockMillis
            BY <1>3, <2>1, StateType DEF SetExpected, Raises, States
        <2>3. [client[c] EXCEPT !.window = window] \in States
            BY <1>3, <2>2, StateType DEF SetExpected, States
        <2> QED BY <1>3, <2>1, <2>2, <2>3, StateType, TypeQuiet DEF SetExpected, States
    <1>4. CASE FetchSkips(c)
        <2>1. [client[c] EXCEPT !.index = order] \in States
            BY <1>4, StateType DEF FetchSkips, Candidate, States, TypeOK
        <2> QED BY <1>4, <2>1, StateType, TypeQuiet DEF FetchSkips, Candidate, States
    <1>5. CASE GiveUp(c)
        <2>1. Returned(c, None) \in States
            BY <1>5, StateType DEF GiveUp, Returned, States, Orders
        <2> QED BY <1>5, <2>1, StateType, TypeQuiet DEF GiveUp, Returned, States
    <1>6. CASE ProlongRefused(c)
        <2>1. c \in Open
            BY <1>6 DEF ProlongRefused, Holders, Open
        <2>2. [client[c] EXCEPT !.held = None, !.index = order] \in States
            BY <2>1, StateType DEF States, Orders, TypeOK
        <2> QED BY <1>6, <2>1, <2>2, StateType, TypeQuiet DEF ProlongRefused, States
    <1> QED BY <1>1, <1>2, <1>3, <1>4, <1>5, <1>6

LEMMA TypeWrite ==
    ASSUME TypeOK, NEW c \in Clients, NEW forefront \in BOOLEAN, Add(c, forefront) \/ Reclaim(c, forefront)
    PROVE  TypeOK'
    <1>1. c \in Open
        BY DEF Add, Reclaim
    <1> DEFINE n == CalculateOrderNo(forefront, Now(c))
    <1>2. n \in Int \ {0} /\ n \in Orders
        BY <1>1, StateType, OrderOfTime DEF Orders
    <1>3. client[c].offset \in -MaxOffset .. MaxOffset
        BY <1>1, StateType DEF States
    <1>4. CASE Add(c, forefront)
        <2>1. [client[c] EXCEPT !.index = n] \in States
            BY <1>1, <1>2, StateType DEF States
        <2> QED BY <1>1, <1>2, <1>3, <1>4, <2>1, StateType, TypeFree DEF Add, States
    <1>5. CASE Reclaim(c, forefront)
        <2>1. Returned(c, n) \in States
            BY <1>1, <1>2, StateType DEF Returned, States, Orders
        <2> QED BY <1>1, <1>2, <1>3, <1>5, <2>1, StateType, TypeFree
                DEF Reclaim, ReclaimedOrder, Returned, States
    <1> QED BY <1>4, <1>5

LEMMA HolderState ==
    ASSUME TypeOK, NEW c \in Holders
    PROVE  c \in Open /\ c \in Clients /\ client[c] \in States /\ client[c].held \in Int
    BY StateType DEF Holders, Open, States, Orders

\* The lock a fetch writes.
LEMMA FetchOrder ==
    ASSUME TypeOK, NEW c \in Clients, Fetch(c)
    PROVE  LET n == LockOrder(order, Now(c), client[c].window)
           IN  /\ n \in Int \ {0}
               /\ Magnitude(n) = Now(c) + client[c].window
    <1>1. c \in Open
        BY DEF Fetch, Candidate
    <1>2. client[c].window \in Nat /\ Now(c) \in Nat \ {0}
        BY <1>1, StateType DEF States
    <1> QED BY <1>2, OrderOfLock

LEMMA TypeFetch ==
    ASSUME TypeOK, NEW c \in Clients, Fetch(c)
    PROVE  TypeOK'
    <1> DEFINE n == LockOrder(order, Now(c), client[c].window)
    <1>1. n \in Int \ {0} /\ n \in Orders /\ n # None
        BY FetchOrder, NoneAssumption DEF Orders
    <1> HIDE DEF n
    <1>2. /\ Become(c, [client[c] EXCEPT !.index = n, !.held = n, !.working = TRUE])
          /\ order' = n
          /\ last' = [kind |-> "lock", client |-> c, offset |-> client[c].offset]
          /\ overridden' = overridden \ {c}
          /\ UNCHANGED time
        BY DEF Fetch, n
    <1>3. client[c] \in States /\ client[c].window >= LockMillis
        BY StateType DEF Fetch, Candidate
    <1>4. [client[c] EXCEPT !.index = n, !.held = n, !.working = TRUE] \in States
        BY <1>1, <1>3 DEF States
    <1>5. client' \in [Clients -> States \cup {Closed}]
        BY <1>2, <1>4 DEF TypeOK, Become
    <1>6. \A d \in Open' : /\ client'[d].window >= LockMillis
                           /\ client'[d].held # None => client'[d].working
        BY <1>2, <1>3 DEF TypeOK, Become, Open, States
    <1>7. overridden' \subseteq Holders'
        BY <1>2 DEF TypeOK, Become, Holders
    <1>8. last' \in [kind : {"none", "lock", "free", "handled"},
                     client : Clients \cup {None}, offset : -MaxOffset .. MaxOffset]
        BY <1>2, <1>3 DEF States
    <1> QED BY <1>1, <1>2, <1>5, <1>6, <1>7, <1>8 DEF TypeOK

LEMMA TypeMark ==
    ASSUME TypeOK, NEW c \in Clients, Mark(c)
    PROVE  TypeOK'
    <1>1. client[c] \in States /\ client[c].window >= LockMillis
        BY StateType DEF Mark
    <1>2. Returned(c, None) \in States /\ Returned(c, None).held = None
          /\ Returned(c, None).window >= LockMillis
        BY <1>1 DEF Returned, States, Orders
    <1>3. client' \in [Clients -> States \cup {Closed}]
        BY <1>2 DEF TypeOK, Mark, Become
    <1>4. \A d \in Open' : /\ client'[d].window >= LockMillis
                           /\ client'[d].held # None => client'[d].working
        BY <1>2 DEF TypeOK, Mark, Become, Open
    <1>5. last' \in [kind : {"none", "lock", "free", "handled"},
                     client : Clients \cup {None}, offset : -MaxOffset .. MaxOffset]
        BY ClockAssumption DEF Mark
    <1>6. order' \in (Orders \cup {Absent}) \ {0} /\ overridden' \subseteq Holders' /\ UNCHANGED time
        BY NoneAssumption DEF Mark, Orders
    <1> QED BY <1>3, <1>4, <1>5, <1>6 DEF TypeOK

\* What a prolongation does: the lock in the file and in memory is replaced by a later one.
LEMMA ProlongEffect ==
    ASSUME TypeOK, NEW c \in Clients, Prolong(c)
    PROVE  \E n \in Int \ {0} :
              /\ c \in Holders /\ order = client[c].held /\ order \in Int
              /\ Magnitude(n) > Magnitude(order)
              /\ Become(c, [client[c] EXCEPT !.held = n, !.index = n])
              /\ order' = n
    <1>1. PICK extension \in {e \in Extensions : e > 0} :
              LET n == ExtendedOrder(client[c].held, extension)
              IN  /\ Become(c, [client[c] EXCEPT !.held = n, !.index = n])
                  /\ order' = n
        BY DEF Prolong
    <1>2. c \in Holders /\ order = client[c].held
        BY DEF Prolong, HasLock
    <1>3. order \in Int \ {0} /\ extension \in Int /\ extension > 0
        BY <1>2, HolderState, ClockAssumption DEF TypeOK
    <1>4. ExtendedOrder(order, extension) \in Int \ {0}
          /\ Magnitude(ExtendedOrder(order, extension)) = Magnitude(order) + extension
        BY <1>3, OrderExtended
    <1>5. Magnitude(ExtendedOrder(order, extension)) > Magnitude(order)
        BY <1>3, <1>4 DEF Magnitude
    <1>6. /\ Become(c, [client[c] EXCEPT !.held = ExtendedOrder(order, extension),
                                        !.index = ExtendedOrder(order, extension)])
          /\ order' = ExtendedOrder(order, extension)
        BY <1>1, <1>2
    <1> QED BY <1>2, <1>3, <1>4, <1>5, <1>6, Zenon

LEMMA TypeProlong ==
    ASSUME TypeOK, NEW c \in Clients, Prolong(c)
    PROVE  TypeOK'
    <1>1. PICK n \in Int \ {0} : /\ c \in Holders
                                 /\ Become(c, [client[c] EXCEPT !.held = n, !.index = n])
                                 /\ order' = n
        BY ProlongEffect
    <1>2. client[c] \in States /\ client[c].window >= LockMillis /\ client[c].held # None
          /\ client[c].working
        BY <1>1, HolderState, StateType DEF Holders
    <1>3. [client[c] EXCEPT !.held = n, !.index = n] \in States
        BY <1>2 DEF States, Orders
    <1>4. client' \in [Clients -> States \cup {Closed}]
        BY <1>1, <1>3 DEF TypeOK, Become
    <1>5. \A d \in Open' : /\ client'[d].window >= LockMillis
                           /\ client'[d].held # None => client'[d].working
        BY <1>1, <1>2 DEF TypeOK, Become, Open, States
    <1>6. [client[c] EXCEPT !.held = n, !.index = n] # Closed
        BY <1>3, DistinctAssumption
    <1>7. n # None
        BY NoneAssumption
    <1>8. Holders \subseteq Holders'
        BY <1>1, <1>2, <1>6, <1>7 DEF TypeOK, Become, Holders, States
    <1>9. last' \in [kind : {"none", "lock", "free", "handled"},
                     client : Clients \cup {None}, offset : -MaxOffset .. MaxOffset]
        BY <1>2 DEF Prolong, TypeOK, States
    <1> QED BY <1>1, <1>4, <1>5, <1>8, <1>9 DEF TypeOK, Prolong, Orders

\* Every variable keeps the shape of the code's data; in particular no clock makes an
\* orderNo of 0, whose sign would be lost, and no window is below the default.
THEOREM TypeCorrect == Spec => []TypeOK
    <1>1. Init => TypeOK
        BY ClockAssumption, DistinctAssumption DEF Init, TypeOK, Orders, Open, Holders
    <1>2. TypeOK /\ [Next]_vars => TypeOK'
        <2> SUFFICES ASSUME TypeOK, [Next]_vars PROVE TypeOK'
            OBVIOUS
        <2>1. CASE UNCHANGED vars
            BY <2>1 DEF vars, TypeOK, Open, Holders
        <2>2. CASE Tick
            BY <2>2, ClockAssumption DEF Tick, TypeOK, Open, Holders
        <2>3. ASSUME NEW c \in Clients,
                     \/ OpenQueue(c) \/ Close(c) \/ AdvanceClock(c) \/ SetExpected(c)
                     \/ FetchSkips(c) \/ Fetch(c) \/ GiveUp(c) \/ Mark(c)
                     \/ ProlongRefused(c) \/ Prolong(c)
              PROVE  TypeOK'
            BY <2>3, TypeOpen, TypeCall, TypeFetch, TypeMark, TypeProlong
        <2>4. ASSUME NEW c \in Clients, NEW forefront \in BOOLEAN, Add(c, forefront) \/ Reclaim(c, forefront)
              PROVE  TypeOK'
            BY <2>4, TypeWrite
        <2> QED BY <2>1, <2>2, <2>3, <2>4 DEF Next
    <1> QED BY <1>1, <1>2, PTL DEF Spec

-------------------------------------------------------------------------------
(* OverlapWithinSkew, FreeWithinSkew, ProlongOnlyOwn.  Each speaks of one       *)
(* moment; what carries them is how every lock that is still remembered compares *)
(* with the orderNo in the file: a lock that was taken over is shorter, and was  *)
(* over by the clock that took the request over.                                 *)

Current == Holders \ overridden

\* The file carries the last lock, or null since the request was handled.
LastKnown ==
    \/ last.kind = "lock" /\ order \in Int
    \/ last.kind = "handled" /\ order = None

\* c's lock is not above the file's; one that another client took over is below it, and had
\* ended by the clock of whom the request was handed to last.
Outlasted(c) ==
    last.kind = "lock" =>
        /\ Magnitude(client[c].held) <= Magnitude(order)
        /\ c # last.client => /\ Magnitude(client[c].held) < Magnitude(order)
                              /\ Magnitude(client[c].held) <= time + last.offset

\* A free request carries a reading of the clock that freed it.
FreedInTime ==
    last.kind = "free" /\ order \in Int => Magnitude(order) <= time + last.offset

SkewInv ==
    /\ FreedInTime
    /\ Current # {} => LastKnown
    /\ \A c \in Current : Outlasted(c)

LEMMA SkewImplies ==
    ASSUME TypeOK, SkewInv
    PROVE  OverlapWithinSkew /\ FreeWithinSkew
    <1>1. time \in Int /\ last.offset \in Int
        BY ClockAssumption DEF TypeOK
    <1>2. \A c \in Clients \cap Open : client[c].offset \in Int
        BY StateType, ClockAssumption DEF States
    <1>3. OverlapWithinSkew
        <2> SUFFICES ASSUME NEW c \in Holders \ overridden, last.kind = "lock", last.client # c
                     PROVE  Magnitude(client[c].held) - Now(c) <= last.offset - client[c].offset
            BY DEF OverlapWithinSkew
        <2>1. Magnitude(client[c].held) <= time + last.offset
            BY DEF SkewInv, Current, Outlasted
        <2>2. client[c].held \in Int /\ client[c].offset \in Int
            BY HolderState, <1>2
        <2> QED BY <1>1, <2>1, <2>2 DEF Now, Magnitude
    <1>4. FreeWithinSkew
        <2> SUFFICES ASSUME NEW c \in Open, last.kind = "free", order \in Int
                     PROVE  Magnitude(order) - Now(c) <= last.offset - client[c].offset
            BY DEF FreeWithinSkew
        <2>1. Magnitude(order) <= time + last.offset
            BY DEF SkewInv, FreedInTime
        <2>2. client[c].offset \in Int
            BY StateType, <1>2
        <2> QED BY <1>1, <2>1, <2>2 DEF Now, Magnitude
    <1> QED BY <1>3, <1>4

\* A step that leaves the file alone and gives nobody a lock: fewer locks are left to speak of.
LEMMA SkewFewer ==
    ASSUME SkewInv, Current' \subseteq Current, \A c \in Current' : client'[c].held = client[c].held,
           UNCHANGED <<time, order, last>>
    PROVE  SkewInv'
    BY DEF SkewInv, FreedInTime, LastKnown, Outlasted

\* Steps that may forget a lock, and change nothing else about locks.
LEMMA CurrentQuiet ==
    ASSUME TypeOK, NEW c \in Clients, NEW state, Become(c, state), Leave,
           client[c] = Closed \/ state = Closed \/ state.held \in {None, client[c].held},
           client[c] = Closed => state.held = None
    PROVE  /\ Current' \subseteq Current
           /\ \A d \in Current' : client'[d].held = client[d].held
    BY DEF TypeOK, Become, Leave, Current, Holders

LEMMA SkewQuiet ==
    ASSUME TypeOK, SkewInv, NEW c \in Clients, NEW state, Become(c, state), Leave,
           client[c] = Closed \/ state = Closed \/ state.held \in {None, client[c].held},
           client[c] = Closed => state.held = None, UNCHANGED time
    PROVE  SkewInv'
    BY CurrentQuiet, SkewFewer DEF Leave

\* A step that frees the request: no lock is left to speak of.
LEMMA SkewFree ==
    ASSUME NEW n, NEW offset, Free(n, offset), Magnitude(n) <= time + offset, UNCHANGED time
    PROVE  SkewInv'
    <1>1. Current' = {}
        BY DEF Free, Current
    <1>2. FreedInTime'
        BY DEF Free, FreedInTime, Magnitude
    <1> QED BY <1>1, <1>2 DEF SkewInv

LEMMA SkewOpen ==
    ASSUME TypeOK, SkewInv, NEW c \in Clients, OpenQueue(c)
    PROVE  SkewInv'
    <1>1. PICK access \in AccessModes, skew \in Skews :
              IF MustReclaim(SoleOwner(access), time + skew)
              THEN /\ Become(c, Opened(skew, WithSignOf(order, time + skew)))
                   /\ Free(WithSignOf(order, time + skew), skew)
              ELSE Become(c, Opened(skew, order)) /\ Leave
        BY DEF OpenQueue
    <1>2. time + skew \in Nat \ {0}
        BY ClockAssumption DEF TypeOK
    <1>3. Magnitude(WithSignOf(order, time + skew)) <= time + skew
        BY <1>2 DEF WithSignOf, Magnitude
    <1>4. client[c] = Closed /\ UNCHANGED time
        BY DEF OpenQueue
    <1>5. \A n : Opened(skew, n).held = None
        BY DEF Opened
    <1> QED BY <1>1, <1>3, <1>4, <1>5, SkewFree, SkewQuiet

LEMMA SkewCall ==
    ASSUME TypeOK, SkewInv, NEW c \in Clients,
           Close(c) \/ AdvanceClock(c) \/ SetExpected(c) \/ FetchSkips(c) \/ GiveUp(c) \/ ProlongRefused(c)
    PROVE  SkewInv'
    <1>1. CASE Close(c)
        BY <1>1, SkewQuiet DEF Close, Open
    <1>2. ASSUME c \in Open, NEW state, Become(c, state), state.held \in {None, client[c].held},
                 Leave, UNCHANGED time
          PROVE  SkewInv'
        BY <1>2, SkewQuiet DEF Open
    <1>3. c \in Open => client[c] \in States
        BY StateType
    <1>4. CASE AdvanceClock(c)
        <2>1. PICK delta \in Advances : Become(c, [client[c] EXCEPT !.offset = @ + delta])
            BY <1>4 DEF AdvanceClock
        <2> QED BY <1>2, <1>3, <1>4, <2>1 DEF AdvanceClock, States
    <1>5. CASE SetExpected(c)
        <2>1. PICK window \in Windows : Become(c, [client[c] EXCEPT !.window = window])
            BY <1>5 DEF SetExpected
        <2> QED BY <1>2, <1>3, <1>5, <2>1 DEF SetExpected, States
    <1>6. CASE FetchSkips(c)
        BY <1>2, <1>3, <1>6 DEF FetchSkips, Candidate, States
    <1>7. CASE GiveUp(c)
        BY <1>2, <1>3, <1>7 DEF GiveUp, Returned, States
    <1>8. CASE ProlongRefused(c)
        BY <1>2, <1>3, <1>8, HolderState DEF ProlongRefused, States
    <1> QED BY <1>1, <1>4, <1>5, <1>6, <1>7, <1>8

LEMMA SkewWrite ==
    ASSUME TypeOK, NEW c \in Clients, NEW forefront \in BOOLEAN, Add(c, forefront) \/ Reclaim(c, forefront)
    PROVE  SkewInv'
    <1>1. c \in Open
        BY DEF Add, Reclaim
    <1>2. Magnitude(CalculateOrderNo(forefront, Now(c))) = Now(c) /\ Now(c) \in Nat
        BY <1>1, StateType, OrderOfTime
    <1>3. Free(CalculateOrderNo(forefront, Now(c)), client[c].offset) /\ UNCHANGED time
        BY DEF Add, Reclaim, ReclaimedOrder
    <1> QED BY <1>2, <1>3, SkewFree DEF Now

LEMMA SkewMark ==
    ASSUME TypeOK, SkewInv, NEW c \in Clients, Mark(c)
    PROVE  SkewInv'
    <1>1. last'.kind = "handled" /\ order' = None
        BY DEF Mark
    <1> QED BY <1>1, NoneAssumption DEF SkewInv, FreedInTime, LastKnown, Outlasted

\* A fetch takes the request over only from locks that have ended by its own clock,
\* and its own lock ends after all of them.
LEMMA SkewFetch ==
    ASSUME TypeOK, SkewInv, NEW c \in Clients, Fetch(c)
    PROVE  SkewInv'
    <1> DEFINE n == LockOrder(order, Now(c), client[c].window)
    <1>1. n \in Int /\ Magnitude(n) = Now(c) + client[c].window
        BY FetchOrder
    <1> HIDE DEF n
    <1>2. /\ Become(c, [client[c] EXCEPT !.index = n, !.held = n, !.working = TRUE])
          /\ order' = n
          /\ last' = [kind |-> "lock", client |-> c, offset |-> client[c].offset]
          /\ overridden' = overridden \ {c}
          /\ UNCHANGED time
          /\ ~MustSkip(Now(c))
        BY DEF Fetch, n
    <1>3. client[c] \in States /\ client[c].window \in Nat /\ client[c].window > 0 /\ Now(c) \in Nat
          /\ c \in Clients
        BY StateType, ClockAssumption DEF Fetch, Candidate, States
    <1>4. client'[c].held = n \/ c \notin Current'
        BY <1>2, <1>3 DEF TypeOK, Become, Current, Holders, States
    <1>5. \A d \in Current' \ {c} : d \in Current /\ client'[d].held = client[d].held
        BY <1>2 DEF TypeOK, Become, Current, Holders
    <1>6. ASSUME NEW d \in Current' \ {c}
          PROVE  /\ Magnitude(client'[d].held) < Magnitude(order')
                 /\ Magnitude(client'[d].held) <= time' + last'.offset
        <2>1. order \in Int /\ last.kind = "lock"
            BY <1>2, <1>5, <1>6 DEF SkewInv, LastKnown, MustSkip
        <2>2. Magnitude(client[d].held) <= Magnitude(order)
            BY <1>5, <1>6, <2>1 DEF SkewInv, Outlasted
        <2>3. Magnitude(order) <= Now(c)
            BY <1>2, <1>3, <2>1, LockedIsAhead DEF MustSkip, Magnitude
        <2>4. client[d].held \in Int
            BY <1>5, <1>6, HolderState DEF Current
        <2>5. Magnitude(client[d].held) <= Now(c)
            BY <2>1, <2>2, <2>3, <2>4, <1>3 DEF Magnitude
        <2> QED BY <1>1, <1>2, <1>3, <1>5, <1>6, <2>4, <2>5 DEF Magnitude, Now
    <1>7. \A d \in Current' : Outlasted(d)'
        <2> SUFFICES ASSUME NEW d \in Current' PROVE Outlasted(d)'
            OBVIOUS
        <2>1. CASE d = c
            BY <1>1, <1>2, <1>4, <2>1 DEF Outlasted, Magnitude
        <2>2. CASE d # c
            <3>1. client'[d].held \in Int /\ order' \in Int
                BY <1>1, <1>2, <1>5, <2>2, HolderState DEF Current
            <3> QED BY <1>6, <2>2, <3>1 DEF Outlasted, Magnitude
        <2> QED BY <2>1, <2>2
    <1>8. FreedInTime' /\ LastKnown'
        BY <1>1, <1>2 DEF FreedInTime, LastKnown
    <1> QED BY <1>7, <1>8 DEF SkewInv

\* A client that is neither the last one nor overridden holds a lock that is below the file's.
LEMMA ProlongsOwn ==
    ASSUME TypeOK, SkewInv, NEW c \in Clients, Prolong(c)
    PROVE  c = last.client \/ c \in overridden
    <1> SUFFICES ASSUME c \notin overridden, c # last.client PROVE FALSE
        OBVIOUS
    <1>1. c \in Current /\ order = client[c].held /\ order \in Int
        BY ProlongEffect DEF Current
    <1>2. last.kind = "lock"
        BY <1>1, NoneAssumption DEF SkewInv, LastKnown
    <1>3. Magnitude(client[c].held) < Magnitude(order)
        BY <1>1, <1>2 DEF SkewInv, Outlasted
    <1> QED BY <1>1, <1>3 DEF Magnitude

LEMMA SkewProlong ==
    ASSUME TypeOK, SkewInv, NEW c \in Clients, Prolong(c)
    PROVE  SkewInv'
    <1>1. PICK n \in Int \ {0} :
              /\ c \in Holders /\ order = client[c].held /\ order \in Int
              /\ Magnitude(n) > Magnitude(order)
              /\ Become(c, [client[c] EXCEPT !.held = n, !.index = n])
              /\ order' = n
        BY ProlongEffect
    <1>2. UNCHANGED <<time, overridden>>
        BY DEF Prolong
    <1>3. last'.kind = "lock" /\ (last.kind = "lock" => last' = last)
        BY DEF Prolong
    <1>4. client[c] \in States
        BY <1>1, HolderState
    <1>5. \A d \in Current' : d \in Current /\ (d # c => client'[d].held = client[d].held)
        BY <1>1, <1>2 DEF TypeOK, Become, Current, Holders
    <1>6. c \in Current' => client'[c].held = n
        BY <1>1, <1>4 DEF TypeOK, Become, States
    <1>7. Current' # {} => last.kind = "lock"
        BY <1>1, <1>5, NoneAssumption DEF SkewInv, LastKnown
    <1>8. c \in Current' => c = last'.client
        BY <1>3, <1>5, <1>7, ProlongsOwn DEF Current
    <1>9. ASSUME NEW d \in Current', d # c
          PROVE  /\ Magnitude(client'[d].held) < Magnitude(order')
                 /\ d # last'.client => Magnitude(client'[d].held) <= time' + last'.offset
        <2>1. last.kind = "lock" /\ last' = last /\ Outlasted(d)
            BY <1>3, <1>5, <1>7, <1>9 DEF SkewInv
        <2>2. client[d].held \in Int
            BY <1>5, <1>9, HolderState DEF Current
        <2> QED BY <1>1, <1>2, <1>5, <1>9, <2>1, <2>2 DEF Outlasted, Magnitude
    <1>10. \A d \in Current' : Outlasted(d)'
        <2> SUFFICES ASSUME NEW d \in Current' PROVE Outlasted(d)'
            OBVIOUS
        <2>1. CASE d = c
            BY <1>1, <1>6, <1>8, <2>1 DEF Outlasted, Magnitude
        <2>2. CASE d # c
            <3>1. client'[d].held \in Int /\ order' \in Int
                BY <1>1, <1>5, <2>2, HolderState DEF Current
            <3> QED BY <1>9, <2>2, <3>1 DEF Outlasted, Magnitude
        <2> QED BY <2>1, <2>2
    <1>11. FreedInTime' /\ LastKnown'
        BY <1>1, <1>3 DEF FreedInTime, LastKnown
    <1> QED BY <1>10, <1>11 DEF SkewInv

LEMMA SkewTick ==
    ASSUME TypeOK, SkewInv, Tick
    PROVE  SkewInv'
    <1>1. UNCHANGED <<order, client, last, overridden>> /\ time' = time + 1
        BY DEF Tick
    <1>2. time \in Int /\ last.offset \in Int
        BY ClockAssumption DEF TypeOK
    <1>3. \A d \in Current : client[d].held \in Int
        BY HolderState DEF Current
    <1>4. Current' = Current
        BY <1>1 DEF Current, Holders
    <1>5. FreedInTime'
        BY <1>1, <1>2 DEF SkewInv, FreedInTime, Magnitude
    <1>6. \A d \in Current' : Outlasted(d)'
        BY <1>1, <1>2, <1>3, <1>4 DEF SkewInv, Outlasted, Magnitude
    <1> QED BY <1>1, <1>4, <1>5, <1>6 DEF SkewInv, LastKnown

LEMMA SkewInductive == Spec => [](TypeOK /\ SkewInv)
    <1>1. Init => SkewInv
        BY DEF Init, SkewInv, FreedInTime, Current, Holders
    <1>2. TypeOK /\ SkewInv /\ [Next]_vars => SkewInv'
        <2> SUFFICES ASSUME TypeOK, SkewInv, [Next]_vars PROVE SkewInv'
            OBVIOUS
        <2>1. CASE UNCHANGED vars
            BY <2>1 DEF vars, SkewInv, FreedInTime, LastKnown, Outlasted, Current, Holders
        <2>2. CASE Tick
            BY <2>2, SkewTick
        <2>3. ASSUME NEW c \in Clients,
                     \/ OpenQueue(c) \/ Close(c) \/ AdvanceClock(c) \/ SetExpected(c)
                     \/ FetchSkips(c) \/ Fetch(c) \/ GiveUp(c) \/ Mark(c)
                     \/ ProlongRefused(c) \/ Prolong(c)
              PROVE  SkewInv'
            BY <2>3, SkewOpen, SkewCall, SkewFetch, SkewMark, SkewProlong
        <2>4. ASSUME NEW c \in Clients, NEW forefront \in BOOLEAN, Add(c, forefront) \/ Reclaim(c, forefront)
              PROVE  SkewInv'
            BY <2>4, SkewWrite
        <2> QED BY <2>1, <2>2, <2>3, <2>4 DEF Next
    <1> QED BY <1>1, <1>2, TypeCorrect, PTL DEF Spec

\* Two clients believe that they hold the request, each by its own clock, only for as
\* long as the clock of the later one was ahead of the other's when it took the request
\* over, for any number of clients and any skews: the clocks need be no
\* better than the lock window is long.
THEOREM OverlapStaysWithinSkew == Spec => []OverlapWithinSkew
    BY SkewInductive, SkewImplies, PTL

\* A free request looks locked to a client only for as long as the clock that freed
\* it was ahead of the client's.
THEOREM FreeStaysWithinSkew == Spec => []FreeWithinSkew
    BY SkewInductive, SkewImplies, PTL

\* Whatever the clocks do, a client prolongs only the lock of its own fetch, unless a
\* late reclaim, a forefront move or a sole owner overwrote that lock.
THEOREM OnlyOwnProlonged == Spec => ProlongOnlyOwn
    <1>1. TypeOK /\ SkewInv /\ [Next]_vars
              => [\A c \in Clients : Prolong(c) => c = last.client \/ c \in overridden]_vars
        BY ProlongsOwn
    <1> QED BY <1>1, SkewInductive, PTL DEF ProlongOnlyOwn, Spec

===============================================================================
