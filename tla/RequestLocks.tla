----------------------------- MODULE RequestLocks -----------------------------
(***************************************************************************)
(* The lock protocol of a request queue seen through the bindings: clients *)
(* of several machines share one request, each reads its own clock         *)
(* (crawlee-storage/src/clock.rs), which differs from the others by the    *)
(* skew of its machine and, for a TestClock, by the offset a test gave it. *)
(* RequestQueue has one clock and takes the calls apart at every file      *)
(* operation; here a call is one step, and the clocks are what is in       *)
(* question.  "assuming roughly synchronized clocks", says the queue       *)
(* (request_queue.rs:87): the properties below say what that buys.         *)
(***************************************************************************)
EXTENDS OrderNo, FiniteSets

CONSTANTS
    Clients,        \* client instances
    Closed,         \* an instance that is not open
    Absent,         \* no request file, no index entry
    LockMillis,     \* DEFAULT_LOCK_MILLIS
    Windows,        \* durations given to set_expected_request_processing_time
    Extensions,     \* durations given to prolong_request_lock
    Testing,        \* the clients that are opened with a TestClock
    Skews,          \* how far the clock of a machine may be off
    Advances,       \* durations given to advance_clock_for_testing
    StartTime,      \* the time of the first step
    MaxTime,        \* bound: the time of the last
    MaxOffset,      \* bound: on the offset of a clock
    MaxOrder        \* bound: on the orderNo of a prolonged lock

ASSUME ClockAssumption ==
    /\ Skews \cup Advances \cup Windows \cup Extensions \subseteq Int
    /\ {StartTime, MaxTime, MaxOffset, MaxOrder} \subseteq Nat
    /\ Skews \subseteq -MaxOffset .. MaxOffset
    /\ StartTime <= MaxTime
    /\ MaxOffset < StartTime            \* every clock reads a time after 1970
    /\ LockMillis \in Nat \ {0}
ASSUME TestingAssumption == Testing \subseteq Clients

VARIABLES
    time,       \* the time of the world
    order,      \* orderNo in the request's file
    client,     \* each client's clock and its InnerState, as far as this request goes
    last,       \* how the file came to its orderNo: who locked or freed the request
    overridden  \* clients whose lock was overwritten other than by a fetch since they took it

vars == <<time, order, client, last, overridden>>

\* window: lock_millis; held: the entry of held_locks; working: the caller still
\* has the request it was handed.
States == [offset : -MaxOffset .. MaxOffset, window : Nat,
           index : Orders \cup {Absent}, held : Orders, working : BOOLEAN]
ASSUME DistinctAssumption == Closed \notin States /\ Absent \notin Orders

Open == {c \in Clients : client[c] # Closed}

\* clock.now() of a SystemClock or a TestClock
Now(c) == time + client[c].offset

Magnitude(n) == IF n < 0 THEN -n ELSE n

-------------------------------------------------------------------------------
(* What a call does to the file and to what the properties remember of it *)

Become(c, state) == client' = [client EXCEPT ![c] = state]

Holders == {c \in Clients : client[c] # Closed /\ client[c].held # None}

\* The file is overwritten with an orderNo that is no lock, by a clock with this offset.
Free(n, offset) ==
    /\ order' = n
    /\ last' = [kind |-> "free", client |-> None, offset |-> offset]
    /\ overridden' = Holders'

Leave == UNCHANGED <<order, last>> /\ overridden' = overridden \cap Holders'

-------------------------------------------------------------------------------
(* open, with requestQueueAccess and useTestClock *)

\* 'single' is the default and means assume_sole_owner.
AccessModes == {"single", "shared"}
SoleOwner(access) == access = "single"

\* rebuild_index: the sole owner takes the locks it finds for stale ones.
MustReclaim(sole, now) == sole /\ order \in Int /\ IsLockedOrder(order, now)

Opened(offset, index) ==
    [offset |-> offset, window |-> LockMillis, index |-> index,
     held |-> None, working |-> FALSE]

OpenQueue(c) ==
    /\ client[c] = Closed
    /\ \E access \in AccessModes, skew \in Skews :
          IF MustReclaim(SoleOwner(access), time + skew)
          THEN /\ Become(c, Opened(skew, WithSignOf(order, time + skew)))
               /\ Free(WithSignOf(order, time + skew), skew)
          ELSE Become(c, Opened(skew, order)) /\ Leave
    /\ UNCHANGED time

\* The process ends or the caller lets go of the client.
Close(c) ==
    /\ c \in Open
    /\ Become(c, Closed)
    /\ Leave
    /\ UNCHANGED time

\* advance_clock_for_testing: an error unless the client was opened with a TestClock.
AdvanceClock(c) ==
    /\ c \in Open
    /\ c \in Testing
    /\ \E delta \in Advances :
          /\ client[c].offset + delta \in -MaxOffset .. MaxOffset
          /\ Become(c, [client[c] EXCEPT !.offset = @ + delta])
    /\ Leave
    /\ UNCHANGED time

-------------------------------------------------------------------------------
(* The calls of an open client *)

\* add_batch_of_requests with the one request: a client that knows it leaves it
\* alone, unless it is pending and to be moved to the forefront.
Add(c, forefront) ==
    /\ c \in Open
    /\ client[c].index = Absent \/ (client[c].index \in Int /\ forefront)
    /\ LET n == CalculateOrderNo(forefront, Now(c))
       IN  Become(c, [client[c] EXCEPT !.index = n]) /\ Free(n, client[c].offset)
    /\ UNCHANGED time

Candidate(c) ==
    c \in Open /\ client[c].index \in Int /\ ~IsLockedOrder(client[c].index, Now(c))

\* Mutant of MustSkip: the file is believed to be as free as the index says.
MustSkipHandled(now) == order = None

\* fetch_next_request looks at the file again.
MustSkip(now) == order = None \/ (order \in Int /\ IsLockedOrder(order, now))

FetchSkips(c) ==
    /\ Candidate(c)
    /\ MustSkip(Now(c))
    /\ Become(c, [client[c] EXCEPT !.index = order])
    /\ Leave
    /\ UNCHANGED time

Fetch(c) ==
    /\ Candidate(c)
    /\ ~MustSkip(Now(c))
    /\ LET n == LockOrder(order, Now(c), client[c].window)
       IN  /\ Become(c, [client[c] EXCEPT !.index = n, !.held = n, !.working = TRUE])
           /\ order' = n
    /\ last' = [kind |-> "lock", client |-> c, offset |-> client[c].offset]
    /\ overridden' = overridden \ {c}
    /\ UNCHANGED time

Returned(c, index) == [client[c] EXCEPT !.index = index, !.held = None, !.working = FALSE]

\* mark_request_as_handled or reclaim_request of a request known to be handled
GiveUp(c) ==
    /\ c \in Open
    /\ client[c].working
    /\ client[c].index = None
    /\ Become(c, Returned(c, None))
    /\ Leave
    /\ UNCHANGED time

\* mark_request_as_handled, also when the lock has expired
Mark(c) ==
    /\ c \in Open
    /\ client[c].working
    /\ client[c].index # None
    /\ Become(c, Returned(c, None))
    /\ order' = None
    /\ last' = [kind |-> "handled", client |-> None, offset |-> 0]
    /\ overridden' = overridden \cap Holders'
    /\ UNCHANGED time

\* Mutant of ReclaimedOrder: the lock stays in the file.
ReclaimedOrderLocked(c, forefront) ==
    IF order \in Int THEN order ELSE CalculateOrderNo(forefront, Now(c))

ReclaimedOrder(c, forefront) == CalculateOrderNo(forefront, Now(c))

\* reclaim_request, also when the lock has expired
Reclaim(c, forefront) ==
    /\ c \in Open
    /\ client[c].working
    /\ client[c].index # None
    /\ Become(c, Returned(c, ReclaimedOrder(c, forefront)))
    /\ Free(ReclaimedOrder(c, forefront), client[c].offset)
    /\ UNCHANGED time

\* Mutant of HasLock: the file is not compared with the lock this client took.
HasLockByClock(c) == IsLockedOrder(client[c].held, Now(c)) /\ order \in Int

\* The file carries the lock this client took, and it has not expired.
HasLock(c) == order = client[c].held /\ IsLockedOrder(client[c].held, Now(c))

ProlongRefused(c) ==
    /\ c \in Holders
    /\ ~HasLock(c)
    /\ Become(c, [client[c] EXCEPT !.held = None, !.index = order])
    /\ Leave
    /\ UNCHANGED time

\* The bindings refuse an extension of less than a millisecond, as the queue does.
Prolong(c) ==
    /\ c \in Holders
    /\ HasLock(c)
    /\ \E extension \in {e \in Extensions : e > 0} :
          LET n == ExtendedOrder(client[c].held, extension)
          IN  /\ Magnitude(n) <= MaxOrder
              /\ Become(c, [client[c] EXCEPT !.held = n, !.index = n])
              /\ order' = n
    /\ last' = IF last.kind = "lock" THEN last
               ELSE [kind |-> "lock", client |-> c, offset |-> client[c].offset]
    /\ UNCHANGED <<time, overridden>>

\* Mutant of Raises: the last caller wins.
Replaces(c, window) == window # client[c].window

\* set_expected_request_processing_time raises the duration and never lowers it.
Raises(c, window) == window > client[c].window

SetExpected(c) ==
    /\ c \in Open
    /\ \E window \in Windows : /\ Raises(c, window)
                               /\ Become(c, [client[c] EXCEPT !.window = window])
    /\ Leave
    /\ UNCHANGED time

Tick ==
    /\ time < MaxTime
    /\ time' = time + 1
    /\ UNCHANGED <<order, client, last, overridden>>

-------------------------------------------------------------------------------
(* The specification *)

Init ==
    /\ time = StartTime
    /\ order = Absent
    /\ client = [c \in Clients |-> Closed]
    /\ last = [kind |-> "none", client |-> None, offset |-> 0]
    /\ overridden = {}

Next ==
    \/ Tick
    \/ \E c \in Clients :
          \/ OpenQueue(c) \/ Close(c) \/ AdvanceClock(c) \/ SetExpected(c)
          \/ FetchSkips(c) \/ Fetch(c) \/ GiveUp(c) \/ Mark(c)
          \/ ProlongRefused(c) \/ Prolong(c)
          \/ \E forefront \in BOOLEAN : Add(c, forefront) \/ Reclaim(c, forefront)

Spec == Init /\ [][Next]_vars

-------------------------------------------------------------------------------
(* Properties *)

\* A lock window is never shorter than the default, a client that remembers a lock
\* has the request in its hands, and no clock makes an orderNo of 0, whose sign is lost.
TypeOK ==
    /\ time \in StartTime .. MaxTime
    /\ order \in (Orders \cup {Absent}) \ {0}
    /\ client \in [Clients -> States \cup {Closed}]
    /\ \A c \in Open : /\ client[c].window >= LockMillis
                       /\ client[c].held # None => client[c].working
    /\ last \in [kind : {"none", "lock", "free", "handled"},
                 client : Clients \cup {None}, offset : -MaxOffset .. MaxOffset]
    /\ overridden \subseteq Holders

\* Two clients believe that they hold the request, each by its own clock, only for
\* as long as the clock of the later one, at its fetch, was ahead of the clock of
\* the earlier one: with the clocks together no two ever do, and a client whose
\* clock is behind takes nothing from anybody.  A lock that a late reclaim, a move to
\* the forefront or a sole owner overwrote is excepted.
\* (fetch_next_request's test of the file against its own clock)
OverlapWithinSkew ==
    \A c \in Holders \ overridden :
        /\ last.kind = "lock"
        /\ last.client # c
        /\ IsLockedOrder(client[c].held, Now(c))
        => Magnitude(client[c].held) - Now(c) <= last.offset - client[c].offset

\* A request that was added, reclaimed or taken over by a sole owner is kept from
\* a client, as if it were locked, only for as long as the clock that wrote it was
\* ahead of the client's: "it can never be misread as a future-dated lock"
\* (calculate_order_no) holds up to the skew.
FreeWithinSkew ==
    \A c \in Open :
        last.kind = "free" /\ order \in Int
            => Magnitude(order) - Now(c) <= last.offset - client[c].offset

\* Only the client that was handed the request last prolongs its lock, whatever the
\* clocks do: a lock that another client took over is not taken for one's own,
\* because each fetch and each prolongation writes a later expiry.  Excepted is again a lock that
\* was overwritten, after which the same expiry may be written a second time.
\* (held_locks: "so a stale consumer cannot prolong a lock that expired and was
\* subsequently acquired by another client")
ProlongOnlyOwn ==
    [][\A c \in Clients : Prolong(c) => c = last.client \/ c \in overridden]_vars

=============================================================================
